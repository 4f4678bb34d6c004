SPECIFICATION SoundSpec
CONSTANTS
  USIZE = 32
  AG = 2
  MaxAlloc = 28
  SIZES = {0, 1, 3, 5}
  BASES = {1, 2, 13}
  DEQS = {d1, d2}
INVARIANTS Reserved FreedExactly HintExact

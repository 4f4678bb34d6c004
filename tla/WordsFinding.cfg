SPECIFICATION Spec
CONSTANTS
  USIZE = 16
  AG = 2
  MaxAlloc = 12
  SIZES = {1, 3}
  BASES = {1}
  DEQS = {d1}
INVARIANT Reserved

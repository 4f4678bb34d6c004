SPECIFICATION SoundSpec
CONSTANTS
  AG = 1
  SIZE = 1
  ALIGN = 1
  Elem = {e1, e2, e3}
  Junk = Junk
  None = None
  DEQS = {d1, d2}
  NEEDS_DROP = TRUE
  MaxAlloc = 6
  MaxItems = 2
  MaxArg = 2
SYMMETRY Symmetry
INVARIANTS NoInvalidDrop OwnedOnce
PROPERTY ImplementsDeque

SPECIFICATION FilterSpec
CONSTANTS
  AG = 1
  SIZE = 1
  ALIGN = 1
  Elem = {e1, e2, e3, e4}
  Junk = Junk
  None = None
  DEQS = {d1}
  NEEDS_DROP = TRUE
  MaxAlloc = 8
  MaxItems = 2
  MaxArg = 4
SYMMETRY Symmetry
INVARIANT NoInvalidDrop

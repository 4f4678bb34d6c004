SPECIFICATION InsertSpec
CONSTANTS
  AG = 2
  SIZE = 1
  ALIGN = 1
  Elem = {e1, e2, e3, e4, e5}
  Junk = Junk
  None = None
  DEQS = {d1}
  NEEDS_DROP = FALSE
  MaxAlloc = 12
  MaxItems = 2
  MaxArg = 5
SYMMETRY Symmetry
PROPERTY ImplementsDeque

SPECIFICATION ConversionSpec
CONSTANTS
  AG = 4
  SIZE = 3
  ALIGN = 1
  Elem = {e1, e2, e3, e4}
  Junk = Junk
  None = None
  DEQS = {d1}
  NEEDS_DROP = FALSE
  MaxAlloc = 24
  MaxItems = 2
  MaxArg = 5
  USIZE_MAX = 255
  BUF_GROW = 1
SYMMETRY Symmetry
PROPERTY ImplementsDeque

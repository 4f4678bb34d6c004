SPECIFICATION IntoSpec
CONSTANTS
  AG = 1
  SIZE = 1
  ALIGN = 1
  Elem = {e1, e2}
  Junk = Junk
  None = None
  DEQS = {d1}
  ITERS = {i1, i2}
  NEEDS_DROP = TRUE
  MaxAlloc = 6
  MaxItems = 1
  MaxArg = 2
  USIZE_MAX = 255
  BUF_GROW = 1
SYMMETRY Symmetry
INVARIANT NoInvalidDrop

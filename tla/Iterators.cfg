SPECIFICATION ProgramSpec
CONSTANTS
  AG = 4
  SIZE = 3
  ALIGN = 1
  Elem = {e1, e2, e3, e4, e5}
  Junk = Junk
  None = None
  DEQS = {d1}
  ITERS = {i1}
  NEEDS_DROP = TRUE
  MaxAlloc = 24
  MaxItems = 2
  MaxArg = 4
  USIZE_MAX = 255
  BUF_GROW = 1
SYMMETRY Symmetry
INVARIANTS NoInvalidDrop LeakSafe NothingLost IntoIterInBuffer FreedAsAllocated
PROPERTIES DrainRestores FilterKeeps YieldsInOrder

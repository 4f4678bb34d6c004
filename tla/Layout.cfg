SPECIFICATION FullSpec
CONSTANTS
  AG = 8
  SIZE = 6
  ALIGN = 2
  Elem = {e1, e2, e3}
  Junk = Junk
  None = None
  DEQS = {d1}
  NEEDS_DROP = FALSE
  MaxAlloc = 32
  MaxItems = 2
  MaxArg = 3
SYMMETRY Symmetry
INVARIANTS TypeOK InMappedMemory NoAliasing FreedAsAllocated Aligned IteratorInBuffer

SPECIFICATION AllocSpec
CONSTANTS
  THREADS = {t1, t2}
  OBJECTS = {m1, m2}
  Free = Free
  Foreign = Foreign
  NoPtr = NoPtr
  SPACE = 5
  MAX_NO_ITERS = 2
  MAX_NO_ALLOC_ITERS = 1
INVARIANT Mirrored
PROPERTIES ErrorsRelease KeepsPromise Returns

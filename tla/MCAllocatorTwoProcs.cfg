\* Two processes sharing the pool, no failures: the ignored LockExclusive
\* result lets both read the same counter.
CONSTANTS
  p1 = p1
  p2 = p2
  Nil = Nil
  Procs <- MCTwoProcs
  Handles <- MCOneHandle
  ObjSize = 1
  LockSize = 2
  ReadFails = FALSE
  MaxSends = 2
  MaxCrashes = 0
SPECIFICATION Spec
PROPERTY AllocRefines
CHECK_DEADLOCK FALSE

\* One process whose counter reads may fail: after a failed read in
\* provideAllocs it continues from address 0, a range it does not own.
\* MaxSends ends the behaviours, so deadlock is not checked.
CONSTANTS
  p1 = p1
  p2 = p2
  Nil = Nil
  Procs <- MCOneProc
  Handles <- MCOneHandle
  ObjSize = 1
  LockSize = 2
  ReadFails = TRUE
  MaxSends = 5
  MaxCrashes = 2
SPECIFICATION Spec
PROPERTY AllocRefines
CHECK_DEADLOCK FALSE

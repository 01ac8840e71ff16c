\* One process, restarted up to twice, whose counter reads succeed, with one
\* read handle that obtainBaseAddress and the process's other rados calls
\* contend for: across lock ranges and restarts no address is handed out
\* twice, each handle is in one place, and every wait for a handle ends.
\* A state in which a goroutine waits for a handle for good violates
\* HandleGranted, which says more than the deadlock check; MaxSends stops the
\* allocator, so the deadlock check is off.
CONSTANTS
  p1 = p1
  p2 = p2
  Nil = Nil
  Procs <- MCOneProc
  Handles <- MCOneHandle
  ObjSize = 1
  LockSize = 2
  ReadFails = FALSE
  MaxSends = 5
  MaxCrashes = 2
SPECIFICATION FairSpec
INVARIANT HandlesExclusive
PROPERTY AllocRefines
PROPERTY HandleGranted
CHECK_DEADLOCK FALSE

\* One process, two clients, one crash or panic: a stream with a version is
\* fully catalogued, and concurrent SetStreamAnnotation calls never lose an
\* update.  Clients can always call again, so deadlock is checked.
CONSTANTS
  p1 = p1
  p2 = p2
  c1 = c1
  c2 = c2
  u1 = u1
  u2 = u2
  k1 = k1
  Nil = Nil
  Procs <- MCOneProc
  Clients = {c1, c2}
  ProcOf <- MCOneProcOf
  Owner <- MCOneOwner
  Uuids <- MCUuids
  Collections <- MCCollections
  TagMaps <- MCTagMaps
  SpecialVersionCreated = 1
  MaxAnnSets = 2
  MaxVersion = 2
  MaxCrashes = 1
SPECIFICATION Spec
INVARIANT CreatedStreamComplete
INVARIANT AnnotationVersionCount


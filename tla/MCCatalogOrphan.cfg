\* A crash between the catalog entry and the version xattr of CreateStream.
CONSTANTS
  p1 = p1
  p2 = p2
  c1 = c1
  c2 = c2
  u1 = u1
  u2 = u2
  k1 = k1
  Nil = Nil
  Procs <- MCOneProc
  Clients = {c1, c2}
  ProcOf <- MCOneProcOf
  Owner <- MCOneOwner
  Uuids <- MCUuids
  Collections <- MCCollections
  TagMaps <- MCTagMaps
  SpecialVersionCreated = 1
  MaxAnnSets = 2
  MaxVersion = 2
  MaxCrashes = 1
SPECIFICATION Spec
INVARIANT NoOrphanedEntry


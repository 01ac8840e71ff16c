\* Two processes creating streams with the same tags in one collection.
CONSTANTS
  p1 = p1
  p2 = p2
  c1 = c1
  c2 = c2
  u1 = u1
  u2 = u2
  k1 = k1
  Nil = Nil
  Procs <- MCTwoProcs
  Clients = {c1, c2}
  ProcOf <- MCTwoProcOf
  Owner <- MCTwoOwner
  Uuids <- MCUuids
  Collections <- MCCollections
  TagMaps <- MCTagMaps
  SpecialVersionCreated = 1
  MaxAnnSets = 2
  MaxVersion = 2
  MaxCrashes = 0
SPECIFICATION Spec
INVARIANT CreatedStreamComplete


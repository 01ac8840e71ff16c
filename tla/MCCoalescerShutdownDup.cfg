\* Shutdown commits a tree without its mutex, racing the timeout commit.
CONSTANTS
  c1 = c1
  c2 = c2
  s1 = s1
  s2 = s2
  Shutdown = Shutdown
  Nil = Nil
  Clients <- MCClients
  Streams <- MCStreams
  ExistingStreams <- MCExisting
  OwnedStreams <- MCStreams
  CoalesceMaxPoints = 2
  BatchSizes = {1, 2}
  MaxRecords = 3
SPECIFICATION Spec
INVARIANT NoDuplicateCommit
CHECK_DEADLOCK FALSE

\* InitiateShutdown sends on a batch channel nobody will receive from again.
CONSTANTS
  c1 = c1
  c2 = c2
  s1 = s1
  s2 = s2
  Shutdown = Shutdown
  Nil = Nil
  Clients <- MCClients
  Streams <- MCOneStream
  ExistingStreams <- MCOneStream
  OwnedStreams <- MCOneStream
  CoalesceMaxPoints = 2
  BatchSizes = {1, 2}
  MaxRecords = 2
SPECIFICATION Spec
PROPERTY ShutdownCompletes
CHECK_DEADLOCK FALSE

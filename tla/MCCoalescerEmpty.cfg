\* InsertValues with an empty record slice: the batch loses its timer.
CONSTANTS
  c1 = c1
  c2 = c2
  s1 = s1
  s2 = s2
  Shutdown = Shutdown
  Nil = Nil
  Clients <- MCClients
  Streams <- MCOneStream
  ExistingStreams <- MCOneStream
  OwnedStreams <- MCOneStream
  CoalesceMaxPoints = 2
  BatchSizes = {0, 1}
  MaxRecords = 2
SPECIFICATION CoalesceSpec
PROPERTY RecordsEventuallyCommitted

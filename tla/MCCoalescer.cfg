\* Coalescing without shutdown, two streams (one never created): safety,
\* and every appended record is eventually committed.
CONSTANTS
  c1 = c1
  c2 = c2
  s1 = s1
  s2 = s2
  Shutdown = Shutdown
  Nil = Nil
  Clients <- MCClients
  Streams <- MCStreams
  ExistingStreams <- MCExisting
  OwnedStreams <- MCStreams
  CoalesceMaxPoints = 2
  BatchSizes = {1, 2}
  MaxRecords = 2
SPECIFICATION CoalesceSpec
INVARIANT NoLostRecord
INVARIANT NoDuplicateCommit
INVARIANT SingleTreeWriter
PROPERTY RecordsEventuallyCommitted

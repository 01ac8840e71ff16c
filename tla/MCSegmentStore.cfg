\* One stream written in objects of two chunks while two readers read it:
\* addressing and packing of blobs, and every Read returns.
\* The allocation bound ends behaviours, so deadlock is not checked.
CONSTANTS
  u1 = u1
  u2 = u2
  r1 = r1
  r2 = r2
  Nil = Nil
  Streams <- MCOneStream
  Readers <- MCTwoReaders
  ObjSize = 12
  LockSize = 12
  ChunkSize = 6
  MaxObj = 3
  DataLens = {1, 3}
  SegCacheSize = 1
  MaxAllocs = 2
  AllocReadFails = FALSE
  MaxReads = 1
SPECIFICATION FairSpec
INVARIANT TypeOK
INVARIANT BlobInOneObject
INVARIANT NoOverlap
PROPERTY ReadsComplete
CHECK_DEADLOCK FALSE

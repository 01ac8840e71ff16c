\* A fetch's cachePut after a flush's invalidation leaves a stale chunk.
CONSTANTS
  u1 = u1
  u2 = u2
  r1 = r1
  r2 = r2
  Nil = Nil
  Streams <- MCOneStream
  Readers <- MCReaders
  ObjSize = 16
  LockSize = 32
  ChunkSize = 8
  MaxObj = 3
  DataLens = {1, 3}
  SegCacheSize = 1
  MaxAllocs = 2
  AllocReadFails = FALSE
  MaxReads = 2
SPECIFICATION Spec
INVARIANT ReadYourWrites
CHECK_DEADLOCK FALSE

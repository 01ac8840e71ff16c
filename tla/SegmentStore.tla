---------------------------- MODULE SegmentStore ----------------------------
(***************************************************************************)
(* The block store of one process in cephprovider.go: the address          *)
(* allocator (provideAllocs, obtainBaseAddress), per-stream segments       *)
(* (LockSegment, Write, flushWrite, Flush, Unlock, the segment-address      *)
(* cache) and the read side (Read, obtainChunk's single-flight gate,        *)
(* rawObtainChunk and the chunk cache rcache).                             *)
(*                                                                         *)
(* Sizes are scaled down: ObjSize stands for ADDR_OBJ_SIZE (16 MiB),        *)
(* ChunkSize for R_CHUNKSIZE and WCACHE_SIZE (1 MiB), MaxObj for            *)
(* MAX_EXPECTED_OBJECT_SIZE, LockSize for ADDR_LOCK_SIZE.  Bytes are not    *)
(* modelled: objects are written contiguously, each byte once, so an        *)
(* object is its extent (bytes written so far) and a cached chunk is the   *)
(* number of bytes the object read returned.  A blob is [u, a, n]: n data   *)
(* bytes after a 2-byte length prefix at address a of stream u.             *)
(***************************************************************************)
EXTENDS Naturals, FiniteSets

CONSTANTS
  Streams,        \* stream UUIDs, each written by at most one segment at a time
  Readers,        \* goroutines calling Read
  ObjSize,        \* ADDR_OBJ_SIZE
  LockSize,       \* ADDR_LOCK_SIZE
  ChunkSize,      \* R_CHUNKSIZE = WCACHE_SIZE
  MaxObj,         \* MAX_EXPECTED_OBJECT_SIZE
  DataLens,       \* possible len(data) of a Write
  SegCacheSize,   \* SEGCACHE_SIZE
  MaxAllocs,      \* bound: allocations taken from sp.alloc
  AllocReadFails, \* whether the allocator object read may fail
  MaxReads,       \* bound: Read calls per reader
  Nil

ASSUME /\ ChunkSize > MaxObj + 2 /\ ObjSize % ChunkSize = 0
       /\ LockSize % ObjSize = 0 /\ DataLens \subseteq 1..MaxObj
       /\ AllocReadFails \in BOOLEAN

OFFSET_MASK == ObjSize - 1
WORTH_CACHING == OFFSET_MASK - MaxObj
\* CreateDatabase writes 0x1000000, one object size, into the allocator.
InitialCounter == ObjSize
MaxAddr == InitialCounter + (MaxAllocs + 1) * LockSize
Addrs == 0..MaxAddr
ObjIds == 0..(MaxAddr \div ObjSize)
ChunkAddrs == {k * ChunkSize : k \in 0..(MaxAddr \div ChunkSize)}
Blobs == [u : Streams, a : Addrs, n : DataLens]

VARIABLES
  counter,    \* the 8-byte counter in the "allocator" object
  allocPtr,   \* sp.ptr: next allocation provideAllocs hands out
  allocBase,  \* provideAllocs' base: start of the current lock range
  nallocs,    \* allocations taken so far
  seg,        \* seg[u]: the CephSegment locked for u, or Nil
  segaddrcache, \* segaddrcache[u]: cached naddr, or Nil
  extent,     \* extent[u][o]: bytes written to object "<u><o>"
  written,    \* blobs passed to Write
  rcache,     \* rcache[x]: bytes of the chunk cached at address x, or Nil
  chunkgate,  \* chunkgate[u][x]: an in-flight chunk fetch, or Nil
  promised,   \* blobs written before a Flush of their segment returned
  rd,         \* rd[r]: Read in progress by reader r
  failed,     \* blobs a completed Read did not return the bytes of
  nreads      \* nreads[r]: Read calls reader r has begun

vars == <<counter, allocPtr, allocBase, nallocs, seg, segaddrcache,
          extent, written, rcache, chunkgate, promised, rd, failed, nreads>>

Segments == [ptr : Addrs, base : Addrs, naddr : Addrs,
              wbase : Addrs, wlen : 0..ChunkSize]
Gates == [st : {"new", "put", "ready"}, val : 0..ChunkSize,
          waiters : SUBSET Readers]
Reads == [pc : {"idle", "obtain", "gate", "wait", "got"}, b : Blobs \cup {Nil},
          x : ChunkAddrs, got : 0..ChunkSize]

TypeOK ==
  /\ counter \in Nat /\ allocPtr \in Addrs /\ allocBase \in Addrs
  /\ nallocs \in 0..MaxAllocs
  /\ seg \in [Streams -> Segments \cup {Nil}]
  /\ segaddrcache \in [Streams -> Addrs \cup {Nil}]
  /\ extent \in [Streams -> [ObjIds -> Nat]]
  /\ written \subseteq Blobs
  /\ rcache \in [ChunkAddrs -> 0..ChunkSize \cup {Nil}]
  /\ chunkgate \in [Streams -> [ChunkAddrs -> Gates \cup {Nil}]]
  /\ promised \subseteq written
  /\ rd \in [Readers -> Reads]
  /\ failed \subseteq Blobs
  /\ nreads \in [Readers -> 0..MaxReads]

\* A blob's bytes are in the object store once its object extends past it.
End(b) == b.a + b.n + 2
EndOff(b) == End(b) - (b.a \div ObjSize) * ObjSize
Durable(b) == extent[b.u][b.a \div ObjSize] >= EndOff(b)

\* Initialize: obtainBaseAddress reads InitialCounter and writes it back
\* increased by one lock range; provideAllocs starts from it.
Init ==
  /\ counter = InitialCounter + LockSize
  /\ allocPtr = InitialCounter /\ allocBase = InitialCounter
  /\ nallocs = 0
  /\ seg = [u \in Streams |-> Nil] /\ segaddrcache = [u \in Streams |-> Nil]
  /\ extent = [u \in Streams |-> [o \in ObjIds |-> 0]]
  /\ written = {} /\ rcache = [x \in ChunkAddrs |-> Nil]
  /\ chunkgate = [u \in Streams |-> [x \in ChunkAddrs |-> Nil]]
  /\ promised = {}
  /\ rd = [r \in Readers |-> [pc |-> "idle", b |-> Nil, x |-> 0, got |-> 0]]
  /\ failed = {} /\ nreads = [r \in Readers |-> 0]

-----------------------------------------------------------------------------
(* The allocator.  provideAllocs sends sp.ptr on sp.alloc, adds one object *)
(* and, at the end of the lock range, calls obtainBaseAddress.  The channel *)
(* is buffered, but the sequence of addresses it carries is this one.       *)
(* obtainBaseAddress returns 0 when reading the counter fails.             *)

\* The (ptr, base, counter) obtainBaseAddress may leave after one allocation.
AllocSteps ==
  LET p == allocPtr + ObjSize IN
  IF p < allocBase + LockSize
  THEN {[ptr |-> p, base |-> allocBase, counter |-> counter]}
  ELSE {[ptr |-> counter, base |-> counter, counter |-> counter + LockSize]}
       \cup (IF AllocReadFails THEN {[ptr |-> 0, base |-> 0, counter |-> counter]}
             ELSE {})

\* Take one address from sp.alloc (a receive, so it blocks at the bound).
TakeAlloc(nxt) ==
  /\ nallocs < MaxAllocs
  /\ nxt \in AllocSteps
  /\ nallocs' = nallocs + 1
  /\ allocPtr' = nxt.ptr /\ allocBase' = nxt.base /\ counter' = nxt.counter

NoAlloc == UNCHANGED <<counter, allocPtr, allocBase, nallocs>>

-----------------------------------------------------------------------------
(* The chunk cache (rcache, the CephCache type).  Eviction is not modelled: *)
(* the cache holds at least 2 * NUM_RHANDLES chunks, more than the model    *)
(* ever touches.                                                           *)

cacheInvalidate(rc, x) == [rc EXCEPT ![x] = Nil]
cachePut(rc, x, v) == [rc EXCEPT ![x] = v]

-----------------------------------------------------------------------------
(* Segments.                                                               *)

ChunkOf(x) == (x \div ChunkSize) * ChunkSize
MaxOf(x, y) == IF x > y THEN x ELSE y

\* flushWrite on segment s of stream u, against object extents ext and chunk
\* cache rc: write wcache at wcache_base, invalidate (i + wcache_base) &
\* R_ADDRMASK for i = 0, R_CHUNKSIZE, ... below len(wcache) -- one chunk,
\* as len(wcache) <= WCACHE_SIZE = R_CHUNKSIZE -- and restart the write
\* cache at seg.naddr.  Returns the new [seg, ext, rc].
flushWrite(s, u, ext, rc) ==
  IF s.wlen = 0 THEN [seg |-> s, ext |-> ext, rc |-> rc]
  ELSE LET o == s.wbase \div ObjSize
           off == s.wbase % ObjSize
       IN [seg |-> [s EXCEPT !.wbase = s.naddr, !.wlen = 0],
           ext |-> [ext EXCEPT ![u][o] = MaxOf(@, off + s.wlen)],
           rc  |-> cacheInvalidate(rc, ChunkOf(s.wbase))]

\* LockSegment: take a write handle and an allocation; continue at the
\* cached naddr of u if there is one (deleting it), else at the allocation.
LockSegment(u) ==
  /\ seg[u] = Nil
  /\ \E nxt \in AllocSteps : TakeAlloc(nxt)
  /\ LET cached == segaddrcache[u]
         base   == IF cached # Nil THEN cached ELSE allocPtr
     IN seg' = [seg EXCEPT ![u] = [ptr |-> allocPtr, base |-> base,
                                   naddr |-> base, wbase |-> base, wlen |-> 0]]
  /\ segaddrcache' = [segaddrcache EXCEPT ![u] = Nil]
  /\ UNCHANGED <<extent, written, rcache, chunkgate, promised, rd, failed, nreads>>

\* Mutant: naddr advances by len(data), forgetting the length prefix.
WriteAdvanceNoPrefix(u, n) ==
  LET s0      == seg[u]
      address == s0.naddr
      f1      == IF s0.wlen + n + 2 > ChunkSize
                 THEN flushWrite(s0, u, extent, rcache)
                 ELSE [seg |-> s0, ext |-> extent, rc |-> rcache]
      s2      == [f1.seg EXCEPT !.wlen = @ + n + 2]
      naddr   == address + n
      newObj  == ((naddr + MaxObj + 2) \div ObjSize) # (address \div ObjSize)
      f3      == flushWrite([s2 EXCEPT !.naddr = allocPtr], u, f1.ext, f1.rc)
  IN
  /\ seg[u] # Nil
  /\ written' = written \cup {[u |-> u, a |-> address, n |-> n]}
  /\ \/ /\ newObj
        /\ \E nxt \in AllocSteps : TakeAlloc(nxt)
        /\ seg' = [seg EXCEPT ![u] = f3.seg]
        /\ extent' = f3.ext /\ rcache' = f3.rc
     \/ /\ ~newObj
        /\ seg' = [seg EXCEPT ![u] = [s2 EXCEPT !.naddr = naddr]]
        /\ extent' = f1.ext /\ rcache' = f1.rc
        /\ NoAlloc
  /\ UNCHANGED <<segaddrcache, chunkgate, promised, rd, failed, nreads>>

\* Mutant: the object-boundary test without MAX_EXPECTED_OBJECT_SIZE, as in
\* the code's "OLD NOTE".
WriteNoMargin(u, n) ==
  LET s0      == seg[u]
      address == s0.naddr
      f1      == IF s0.wlen + n + 2 > ChunkSize
                 THEN flushWrite(s0, u, extent, rcache)
                 ELSE [seg |-> s0, ext |-> extent, rc |-> rcache]
      s2      == [f1.seg EXCEPT !.wlen = @ + n + 2]
      naddr   == address + n + 2
      newObj  == ((naddr + 2) \div ObjSize) # (address \div ObjSize)
      f3      == flushWrite([s2 EXCEPT !.naddr = allocPtr], u, f1.ext, f1.rc)
  IN
  /\ seg[u] # Nil
  /\ written' = written \cup {[u |-> u, a |-> address, n |-> n]}
  /\ \/ /\ newObj
        /\ \E nxt \in AllocSteps : TakeAlloc(nxt)
        /\ seg' = [seg EXCEPT ![u] = f3.seg]
        /\ extent' = f3.ext /\ rcache' = f3.rc
     \/ /\ ~newObj
        /\ seg' = [seg EXCEPT ![u] = [s2 EXCEPT !.naddr = naddr]]
        /\ extent' = f1.ext /\ rcache' = f1.rc
        /\ NoAlloc
  /\ UNCHANGED <<segaddrcache, chunkgate, promised, rd, failed, nreads>>

\* Write(uuid, address, data) with address = seg.naddr (anything else
\* panics "Non-sequential write").  Flush first if the blob does not fit
\* in wcache; append it; if a worst-case next blob could cross the object
\* boundary, take a new allocation, make it naddr and flush.
Write(u, n) ==
  LET s0      == seg[u]
      address == s0.naddr
      f1      == IF s0.wlen + n + 2 > ChunkSize
                 THEN flushWrite(s0, u, extent, rcache)
                 ELSE [seg |-> s0, ext |-> extent, rc |-> rcache]
      s2      == [f1.seg EXCEPT !.wlen = @ + n + 2]
      naddr   == address + n + 2
      newObj  == ((naddr + MaxObj + 2) \div ObjSize) # (address \div ObjSize)
      f3      == flushWrite([s2 EXCEPT !.naddr = allocPtr], u, f1.ext, f1.rc)
  IN
  /\ seg[u] # Nil
  /\ written' = written \cup {[u |-> u, a |-> address, n |-> n]}
  /\ \/ /\ newObj
        /\ \E nxt \in AllocSteps : TakeAlloc(nxt)
        /\ seg' = [seg EXCEPT ![u] = f3.seg]
        /\ extent' = f3.ext /\ rcache' = f3.rc
     \/ /\ ~newObj
        /\ seg' = [seg EXCEPT ![u] = [s2 EXCEPT !.naddr = naddr]]
        /\ extent' = f1.ext /\ rcache' = f1.rc
        /\ NoAlloc
  /\ UNCHANGED <<segaddrcache, chunkgate, promised, rd, failed, nreads>>

\* Unlock: flushWrite, return the handle, and remember naddr for u when a
\* worst-case blob still fits in its object, emptying the whole cache
\* first if it holds SEGCACHE_SIZE entries (pruneSegCache).
Unlock(u) ==
  LET f     == flushWrite(seg[u], u, extent, rcache)
      naddr == seg[u].naddr
      full  == Cardinality({v \in Streams : segaddrcache[v] # Nil})
                 >= SegCacheSize
      pruned == IF full THEN [v \in Streams |-> Nil] ELSE segaddrcache
  IN
  /\ seg[u] # Nil
  /\ seg' = [seg EXCEPT ![u] = Nil]
  /\ extent' = f.ext /\ rcache' = f.rc
  /\ segaddrcache' = IF naddr % ObjSize < WORTH_CACHING
                     THEN [pruned EXCEPT ![u] = naddr] ELSE segaddrcache
  /\ NoAlloc
  /\ UNCHANGED <<written, chunkgate, promised, rd, failed, nreads>>

\* Flush: "Not sure we need to do stuff here, we can do it in unlock" -- it
\* returns at once.  promised records what the caller may now assume durable.
Flush(u) ==
  /\ seg[u] # Nil
  /\ promised' = promised \cup {b \in written : b.u = u}
  /\ NoAlloc
  /\ UNCHANGED <<seg, segaddrcache, extent, written, rcache, chunkgate, rd,
                 failed, nreads>>

-----------------------------------------------------------------------------
(* Read(uuid, address, buffer).  Readers read blobs of published tree      *)
(* generations, i.e. blobs already in the object store.  The chunk at      *)
(* address & R_ADDRMASK is obtained; the blob continues into the next      *)
(* chunk when it ends past it.  A chunk shorter than the bytes the blob    *)
(* has there yields a slice-bounds panic or wrong bytes: the read fails.   *)

\* Mutant: the read returns the rest of the object, not at most R_CHUNKSIZE.
ChunkLenUncapped(u, x) ==
  LET have == extent[u][x \div ObjSize] - (x % ObjSize)
  IN IF have <= 0 THEN 0 ELSE have

\* Bytes rados returns for the R_CHUNKSIZE read at chunk address x of u.
ChunkLen(u, x) ==
  LET have == extent[u][x \div ObjSize] - (x % ObjSize)
  IN IF have <= 0 THEN 0 ELSE IF have < ChunkSize THEN have ELSE ChunkSize

ReadUnchanged == UNCHANGED <<seg, segaddrcache, extent, written, promised>>

ReadBegin(r, b) ==
  /\ rd[r].pc = "idle" /\ nreads[r] < MaxReads /\ b \in written /\ Durable(b)
  /\ nreads' = [nreads EXCEPT ![r] = @ + 1]
  /\ rd' = [rd EXCEPT ![r] = [pc |-> "obtain", b |-> b, x |-> ChunkOf(b.a),
                              got |-> 0]]
  /\ NoAlloc /\ ReadUnchanged /\ UNCHANGED <<rcache, chunkgate, failed>>

\* obtainChunk: a cacheGet hit returns the chunk ...
obtainChunk(r) ==
  LET x == rd[r].x IN
  /\ rd[r].pc = "obtain"
  /\ rd' = [rd EXCEPT ![r].pc = IF rcache[x] # Nil THEN "got" ELSE "gate",
                      ![r].got = IF rcache[x] # Nil THEN rcache[x] ELSE 0]
  /\ NoAlloc /\ ReadUnchanged /\ UNCHANGED <<rcache, chunkgate, failed, nreads>>

\* ... a miss, under chunklock, joins the fetch of (uuid, address) in flight
\* or starts one.
chunkGate(r) ==
  LET u == rd[r].b.u
      x == rd[r].x
  IN
  /\ rd[r].pc = "gate"
  /\ chunkgate' = [chunkgate EXCEPT ![u][x] =
        IF @ = Nil THEN [st |-> "new", val |-> 0, waiters |-> {r}]
        ELSE [@ EXCEPT !.waiters = @ \cup {r}]]
  /\ rd' = [rd EXCEPT ![r].pc = "wait"]
  /\ NoAlloc /\ ReadUnchanged /\ UNCHANGED <<rcache, failed, nreads>>

\* The fetch goroutine, rawObtainChunk: cacheGet again; on a miss read the
\* object (this step) and cachePut the result (next step).
rawObtainChunk(u, x) ==
  LET g == chunkgate[u][x] IN
  /\ g # Nil /\ g.st = "new"
  /\ chunkgate' = [chunkgate EXCEPT ![u][x] =
        IF rcache[x] # Nil THEN [g EXCEPT !.st = "ready", !.val = rcache[x]]
        ELSE [g EXCEPT !.st = "put", !.val = ChunkLen(u, x)]]
  /\ NoAlloc /\ ReadUnchanged /\ UNCHANGED <<rcache, rd, failed, nreads>>

ChunkPut(u, x) ==
  LET g == chunkgate[u][x] IN
  /\ g # Nil /\ g.st = "put"
  /\ rcache' = cachePut(rcache, x, g.val)
  /\ chunkgate' = [chunkgate EXCEPT ![u][x].st = "ready"]
  /\ NoAlloc /\ ReadUnchanged /\ UNCHANGED <<rd, failed, nreads>>

\* Mutant: only one waiter is sent the chunk before the entry is deleted.
ChunkDeliverOne(u, x) ==
  LET g == chunkgate[u][x] IN
  /\ g # Nil /\ g.st = "ready"
  /\ \E w \in g.waiters :
        rd' = [rd EXCEPT ![w] = [@ EXCEPT !.pc = "got", !.got = g.val]]
  /\ chunkgate' = [chunkgate EXCEPT ![u][x] = Nil]
  /\ NoAlloc /\ ReadUnchanged /\ UNCHANGED <<rcache, failed, nreads>>

\* Under chunklock: send the chunk to every waiter, delete the gate entry.
ChunkDeliver(u, x) ==
  LET g == chunkgate[u][x] IN
  /\ g # Nil /\ g.st = "ready"
  /\ rd' = [r \in Readers |->
              IF r \in g.waiters THEN [rd[r] EXCEPT !.pc = "got", !.got = g.val]
              ELSE rd[r]]
  /\ chunkgate' = [chunkgate EXCEPT ![u][x] = Nil]
  /\ NoAlloc /\ ReadUnchanged /\ UNCHANGED <<rcache, failed, nreads>>

\* Use the chunk: the first chunk must hold the blob up to its end or the
\* chunk's end; the second chunk the rest.
ReadChunk(r) ==
  LET b     == rd[r].b
      first == ChunkOf(b.a)
      need  == IF rd[r].x = first
               THEN (IF End(b) < first + ChunkSize THEN End(b) ELSE first + ChunkSize)
                    - b.a
               ELSE End(b) - rd[r].x
      ok    == rd[r].got - (IF rd[r].x = first THEN b.a - first ELSE 0) >= need
      more  == rd[r].x = first /\ End(b) > first + ChunkSize
  IN
  /\ rd[r].pc = "got"
  /\ \/ /\ ok /\ more
        /\ rd' = [rd EXCEPT ![r].pc = "obtain", ![r].x = first + ChunkSize]
        /\ UNCHANGED failed
     \/ /\ ~(ok /\ more)
        /\ rd' = [rd EXCEPT ![r].pc = "idle"]
        /\ failed' = IF ok THEN failed ELSE failed \cup {b}
  /\ NoAlloc /\ ReadUnchanged /\ UNCHANGED <<rcache, chunkgate, nreads>>

-----------------------------------------------------------------------------
Next ==
  \/ \E u \in Streams :
        \/ LockSegment(u) \/ Unlock(u) \/ Flush(u)
        \/ \E n \in DataLens : Write(u, n)
        \/ \E x \in ChunkAddrs : rawObtainChunk(u, x) \/ ChunkPut(u, x)
                                 \/ ChunkDeliver(u, x)
  \/ \E r \in Readers :
        \/ obtainChunk(r) \/ chunkGate(r) \/ ReadChunk(r)
        \/ \E b \in written : ReadBegin(r, b)

Spec == Init /\ [][Next]_vars

(* Readers and the fetch goroutines keep running once started: a goroutine *)
(* blocked on a channel or chunklock is woken when it is sent to or freed. *)
ReadFairness ==
  /\ \A r \in Readers :
        WF_vars(obtainChunk(r)) /\ WF_vars(chunkGate(r)) /\ WF_vars(ReadChunk(r))
  /\ \A u \in Streams, x \in ChunkAddrs :
        WF_vars(rawObtainChunk(u, x)) /\ WF_vars(ChunkPut(u, x))
        /\ WF_vars(ChunkDeliver(u, x))

FairSpec == Spec /\ ReadFairness

-----------------------------------------------------------------------------
(* Properties *)

\* Every blob Write packs lies inside one object, also when a segment
\* continues at an naddr taken from the segment-address cache.
BlobInOneObject ==
  \A b \in written : b.a \div ObjSize = (End(b) - 1) \div ObjSize

\* No two blobs of a stream share a byte: segments of a stream, including
\* ones continuing a cached naddr, never write over earlier blobs.
NoOverlap ==
  \A b1, b2 \in written :
     (b1.u = b2.u /\ b1 # b2) => (End(b1) <= b2.a \/ End(b2) <= b1.a)

\* A Read of a blob already in the object store returns its bytes
\* (spec: Read after Write returns the data once Flush or Unlock was called).
ReadYourWrites == failed = {}

\* Every Read returns: a reader that joins a chunk fetch in flight is sent
\* the chunk, never left waiting after the fetch's waiters were served.
ReadsComplete == \A r \in Readers : (rd[r].pc # "idle") ~> (rd[r].pc = "idle")
==============================================================================

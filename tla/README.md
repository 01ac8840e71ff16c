# TLA+ models of BTrDB's write path, block store and stream catalog

This directory holds TLA+ models of the Go code under `src/`, and the TLC
configurations that check them. `PROJECT.json` records the following:
- every component, and whether it is modelled;
- every run and its mutants;
- the map from each definition to the source lines it translates;
- the findings, and the hazards the code is exposed to.

## The system

| Part | Source | State | Operations | Interacts with |
|------|--------|-------|------------|----------------|
| C1 Transaction coalescer | `src/quasar.go` | `globlock`; per stream `treelocks[s]` and `openTrees[s]`. An open tree holds `store` (a nil or non-nil slice of records) and `sigEC` (a 1-slot abort channel). | `getTree`, `InsertValues`, `Flush`, `DeleteRange`, `openTree.commit`, `InitiateShutdown`. Each batch has one coalesce-timeout goroutine. | qtree (not in `src/`), which writes through C3 |
| C2 Query API | `src/quasar.go` | none of its own | `Query*` | qtree |
| C3 Address allocator | `cephprovider.go` `provideAllocs`, `obtainBaseAddress`, `Initialize`, `CreateDatabase` | `sp.ptr`, the provider's `base`, the `allocator` object's counter, the buffered `sp.alloc` channel | one allocation per receive on `sp.alloc`; a new lock range per `ADDR_LOCK_SIZE` | C4 |
| C4 Segments | `cephprovider.go` `LockSegment`, `Write`, `flushWrite`, `Flush`, `Unlock`, `pruneSegCache` | per segment `naddr`, `wcache`, `wcache_base`; per provider `segaddrcache` | lock, append blob, flush, unlock | C3 (allocations), C5 (invalidations), rados objects |
| C5 Chunk read path | `cephprovider.go` `Read`, `obtainChunk`, `rawObtainChunk` | `rcache` (keyed by address alone), `chunkgate` (in-flight fetches keyed by uuid and address) | cache lookup, single-flight fetch goroutine, cachePut, delivery to waiters | C4 (objects and invalidations) |
| C6 Handle pools | `provideReadHandles`, `provideWriteHandles`, `GetRH` | availability flags, `rhidx`/`whidx` channels | hand out and take back handles; `GetRH` panics after 10 s | every rados call |
| C7 Stream metadata and catalog | `CreateStream`, `Get/SetStreamVersion`, `GetStreamInfo`, `ListCollections`, `ListStreams`, `Set/GetStreamAnnotation`, superblocks | rados xattrs and omaps | multi-step creation, version set, annotation compare-and-set | C1 (`StreamExists`) |
| C8 CSV HTTP interface | `src/httpinterface/csv.go` | per request | parses requests; merges window streams into rows | C1, C2 |
| C9 gRPC definition | `src/unnamed/part_000` | none | message and service declarations | none |

The hard behaviours are these:
- **Coalescer goroutines.** The coalescer runs many goroutines: clients, one timer per batch, and the shutdown goroutine. They meet on a per-stream mutex and on a 1-slot channel.
- **Block store.** The block store keeps three caches: the write cache, the segment-address cache and the chunk cache. It has a single-flight fetch whose put can land after a writer's invalidation.
- **Allocator.** The allocator's state is shared with other processes through one rados object.
- **Catalog.** Creating a stream takes five rados writes with no transaction, and a process can die between any two of them. `annotationMu` serialises the writes of one process only.

## Modules

### `Coalescer.tla`: C1

**Variables**

| Variable | Models |
|---|---|
| `treelock[s]` | who holds `q.treelocks[s]` |
| `store[s]` | `Nil` for a nil slice, otherwise a set of record ids |
| `sigEC[s]` | the id of the current batch's channel |
| `chanBuf[b]` | its buffer |
| `globlock` | `q.globlock` |
| `openTrees` | `q.openTrees` |
| `todo` | the trees InitiateShutdown has still to visit |
| `pc[a]`, `stream[a]`, `op[c]` | the program counter of each goroutine, its stream and its current call |
| `snap`, `writers`, `committed` | the tree engine: a commit hands `snap` to qtree, `writers` is who is between `NewWriteQTree` and `Commit`, `committed[r]` counts writes of record r |
| `accepted` | the records InsertValues appended |

**Actions**

| Action | Code |
|---|---|
| `InsertValues`, `Flush`, `DeleteRange` | the entry points. A call on a stream we do not own returns before touching any state, so the entry actions are guarded by `OwnedStreams`. |
| `getTree` | `getTree` (found, created, or NoSuchStream) |
| `InsertLocked` | the whole body under `mtx`: batch start, timer spawn, append, and the early-trip test |
| `FlushLocked` | `Flush`'s test of `len(tr.store)` |
| `DeleteLocked` | `DeleteRange`'s commit of pending records |
| `SendAbort` | `tr.sigEC <- true`, which blocks while the slot is full |
| `commit` / `commitDone` | `openTree.commit`: the early return on an empty store, the hand-over to qtree, then `tr.Commit(); t.store = nil` |
| `AfterCommit` | what each caller does after `commit` returns |
| `DeleteBegin` / `DeleteEnd` | DeleteRange's own tree write |
| `TimerTimeout`, `TimerAbort`, `TimerLock` | the timer goroutine's `select` and its locked commit |
| `ShutdownLock`, `ShutdownVisit`, `ShutdownDone` | InitiateShutdown's goroutine, which commits trees without their mutex |

**Fairness**
- Starting a call is not fair, because clients may stop calling.
- A call in progress and the shutdown goroutine are weakly fair.
- `time.After` eventually fires, so `TimerTimeout` is weakly fair.
- Acquiring a mutex is strongly fair. Go's `sync.Mutex` switches to starvation mode and hands the lock to a waiter that has waited 1 ms.

**Specifications.** `CoalesceNext` and `CoalesceSpec` are the API with no call of InitiateShutdown: clients, their timers and their commits. `Next` and `Spec` add the shutdown goroutine. coalescer_safety checks `CoalesceSpec`. The two shutdown runs check `Spec`, and both find it violating a property.

### `SegmentStore.tla`: C3, C4, C5

The sizes are scaled down:

| Constant | Stands for |
|---|---|
| `ObjSize` | `ADDR_OBJ_SIZE` |
| `ChunkSize` | `R_CHUNKSIZE` = `WCACHE_SIZE` |
| `MaxObj` | `MAX_EXPECTED_OBJECT_SIZE` |
| `LockSize` | `ADDR_LOCK_SIZE` |
| `OFFSET_MASK`, `WORTH_CACHING` | derived from the above as in the code |

Bytes are abstracted:
- An object is its extent. Writes are contiguous and no byte is written twice.
- A cached chunk is the number of bytes the rados read returned.
- A blob is `[u, a, n]`.

**Variables**

| Variable | Models |
|---|---|
| `counter`, `allocPtr`, `allocBase`, `nallocs`, `allocated` | the allocator |
| `seg[u]` | the locked `CephSegment` of stream u: `naddr`, `wcache_base` as `wbase`, `len(wcache)` as `wlen` |
| `segaddrcache` | `sp.segaddrcache` |
| `extent[u][o]` | the rados objects |
| `rcache` | the chunk cache |
| `chunkgate[u][x]` | an in-flight fetch: `new` is before the object read, `put` is read but not yet put, `ready` is put and not yet delivered |
| `rd[r]` | a Read in progress |
| `written`, `promised`, `failed` | history: the blobs written, the blobs written before a Flush returned, and the Reads that got too few bytes |

**Actions**

| Action | Code |
|---|---|
| `LockSegment` | `LockSegment` |
| `Write` | the whole of `CephSegment.Write`: the fit test, the flush, the append, and the object-boundary test with its allocation and flush |
| `Unlock` | flush, `pruneSegCache`, and caching naddr |
| `Flush` | the empty `CephSegment.Flush` |
| `TakeAlloc` / `AllocSteps` | one receive from `sp.alloc` and the loop step of `provideAllocs`, including `obtainBaseAddress` |
| `ReadBegin`, `obtainChunk`, `chunkGate`, `rawObtainChunk`, `ChunkPut`, `ChunkDeliver`, `ReadChunk` | Read and the fetch goroutine, split at each lock and each rados call |

`cacheInvalidate` and `cachePut` model the cache type, which is not in `src/`. They are spec_modelled, and eviction is left out: the cache holds at least `2 * NUM_RHANDLES` chunks.

The fairness in `ReadFairness` is weak fairness of readers and fetch goroutines once started. Writers get none, so a read cannot depend on a writer doing anything.

### `Catalog.tla`: C7

This module models stream creation and annotations in `cephprovider.go`. Client goroutines of one or more BTrDB processes share the rados objects, and a process may crash between any two rados calls. A crash loses the process's goroutines and its `annotationMu`; the rados objects survive.

| Variable | Code |
|---|---|
| `colmap` | the omap objects `col.<collection>`: entries of collection, tag key and UUID |
| `ann` | the version prefix of `ann<uuid>`, or Nil when the object is missing |
| `indexed` | collections with an entry in an `index.<hh>` omap |
| `streamx`, `version` | the `stream` and `version` xattrs of `meta<uuid>` (version 0 when absent) |
| `mu` | each process's `annotationMu` |
| `pc`, `args` | each client's position in its call, and what it has read |
| `asets`, `nacalls`, `crashes` | history and bounds |

The tag map's key `tlkey` is the sorted sequence of its items. `ListOmapValues`' string-prefix filter is then the sequence prefix test, because every item string ends in `@` and tags cannot contain `@`.

`CreateStream` is one action per rados call, in the order of the code: `csLock`, `csCheckVersion` (`StreamExists`), `csScan` (`SameStream` or `AmbiguousStream`), `csSetOmap`, `csWriteAnn`, `csIndex`, `csStreamXattr` and `csSetVersion`. `SetStreamAnnotation` is `saLock`, `saRead` (`NoSuchStream`, version mismatch, or read) and `saWrite`. As in the code, it checks no ownership: any client may call it for any uuid. `CreateStream` starts only at the owner, because of its `WrongEndpoint` check. `GetStreamAnnotation` of a missing object panics on `rvarr[:8]`, which ends the process. Reading an existing annotation changes nothing. `SetStreamVersion` writes any version to a stream that has one. `GetStreamInfo` takes no lock; its one state change is the panic of `Uint64` on a meta object that has a `stream` xattr and no `version` xattr, which ends the process. `Crash` ends a process that has a call in progress.

### `Allocator.tla` and `AddressAllocator.tla`: C3 across processes

`SegmentStore` models one process's allocator. `Allocator` models what happens when several BTrDB processes share one pool. The `allocator` object's counter is shared, and `alloc_lock` is a lease that rados holds for 5 s.

| Variable | Models |
|---|---|
| `counter` | the 8-byte `allocator` object; `CreateDatabase` writes one `ADDR_OBJ_SIZE` |
| `lock` | the holder of `alloc_lock`: a process incarnation `[p, inc]`, or `Nil` |
| `pc[p]`, `caller[p]` | where process p is in `obtainBaseAddress`, and whether `Initialize` or `provideAllocs` called it |
| `le[p]`, `ptr[p]`, `base[p]` | the counter value read, `sp.ptr`, and `provideAllocs`' `base` |
| `inc`, `crashes` | restarts |
| `issued` | history: every address sent on any `sp.alloc`, in order |

| Action | Code |
|---|---|
| `LockExclusive` | the lock call, whose error is ignored: a process that does not get the lock goes on |
| `ReadCounter` | `Read`; on an error it does `Unlock` and returns 0, and `Initialize` then panics |
| `WriteCounter`, `UnlockReturn` | `WriteFull` of counter + `ADDR_LOCK_SIZE`, then `Unlock` and return the old counter |
| `Send` | one iteration of `provideAllocs`: send `sp.ptr`, advance by `ADDR_OBJ_SIZE`, and call `obtainBaseAddress` at the end of the lock range |
| `LeaseExpires` | the 5 s lease running out |
| `Restart` | a crash or panic and a new `Initialize` |

`AddressAllocator` is the abstract allocator. It hands out any pool address not handed out before, and `issued` is its only variable. `Allocator` instantiates it with `Addresses` set to the object addresses the counter can reach, and maps `issued` to `issued`. The property `AllocRefines` is `Abstract!Spec`. TLC checks it as a temporal property, so every step of `Allocator` must be a step of `AddressAllocator` or leave `issued` unchanged.

### `HandlePool.tla`: C6, composed with the allocator

Each process has one pool of read handles. `provideReadHandles` owns `rh_avail`. Users take indices from channel `rhidx` and send them back on `rhidx_ret`. Both channels hold `NUM_RHANDLES + 1` indices.

| Variable | Models |
|---|---|
| `avail[p]` | the indices with `rh_avail[i] = true` |
| `rhidx[p]`, `rhret[p]` | the buffers of `sp.rhidx` and `sp.rhidx_ret` |
| `ppc[p]` | the goroutine is at the top of its loop (`drain`) or in its blocking receive (`block`) |
| `rdr[p]` | one other user of the pool, standing for the process's rados calls (`rawObtainChunk`, the catalog calls): idle, waiting in `GetRH`, or holding an index |

| Action | Code |
|---|---|
| `Drain` | the `ldretfir` loop: one returned index marked available |
| `Scan` | the `default` branch, then the `for` loop: every available index sent on `rhidx` in index order and cleared; with none found, go to the blocking receive |
| `Block` | `idx := <-sp.rhidx_ret`, mark it available, back to the top |
| `GetRHBegin`, `GetRH`, `ReturnRH` | a rados call: `GetRH`, its use of the handle, `sp.rhidx_ret <- hi` |

`Allocator` extends `HandlePool`, and this is where the two components meet. `obtainBaseAddress` starts with `TakeHandle`, a bare `<-sp.rhidx` with no timeout. It gives the handle back on both of its return paths. The other user starts only once `Initialize` has returned (`Serving`). `Restart` gives the new process a fresh pool. `GetRH`'s 10 s timer is not a separate action: the model has no clock, and its panic is one of the crashes `Restart` already covers.

`provideWriteHandles` is the same loop over `whidx` and `wh_avail`. Its users are `LockSegment`, `Unlock` and `WriteSuperBlock`, and they are not composed with a pool, so C6 is partly modelled.

### `CsvMerge.tla`: C8, the CSV handlers

`request_post_MULTICSV_IMPL` (the plotter's export) and `request_post_MULTI_ALIGNED_CSV_IMPL` open one query channel per UUID. They prime `chanHead` with one `reload` per stream. They then walk the windows `t = st, st+w, ...` while `t < et`, writing one row per window. The multi handler uses `w = 1 << pw` and first aligns `st` down to `w`. The aligned handler uses `w = WindowWidth` from `st`.

The model starts from the parsed request, with times already in ns. JSON and unit parsing are conversions that no property is about. A record is abstracted to its time. A row is a record `[t, cells]`. A cell is the position of the record in its channel, so a repeated window is told apart, or 0 for `emitb`'s `,,,,`. A blank line (the time columns only) has no cells.

The channels deliver what the query can deliver:
- `StatWindows`: `QueryStatisticalValuesStream` aligns start and end down to `1 << pw` (`quasar.go`).
- `AlignedWindows`: `QueryWindow`'s windows `st + k*wt` below `et`. `quasar.go` only forwards to `qtree.QueryWindow`, so this grid is the tree's contract and not a translation of code under `src/`.
- `Deliveries`: each channel carries windows of that grid in time order, and a window may come twice. The tree code that produces them is not in `src/`.

A channel that is closed, or that sends an error, sets `chanBad`. A stream that does not exist delivers nothing to the multi handler. For the aligned handler it is a `doError` (generation 0).

`request_get_CSV` (`handler = "single"`) rejects `et <= st` with a `doError`. It then copies the one stream's `rvchan`, one line per record, until `rvchan` closes. It stops earlier with an `!ABORT ERROR` line when `echan` delivers an error. Its `select` may take that error while records are still pending. `fail` says whether the query errors; a missing stream only errors.

| Variable | Models |
|---|---|
| `handler`, `st`, `et`, `w` | the request and its window width |
| `data[c]` | the record times `chanVs[c]` delivers |
| `pos[c]` | how many records `reload` has taken; `chanHead[c]` is `data[c][pos[c]]` |
| `bad`, `t`, `min` | `chanBad`, the loop's window, and the earliest live head |
| `out` | the rows written after the heading row |
| `fail` | the single handler's `echan` delivers an error |
| `pc` | `prime`, `scan`, `catchup` (single: `copy`), then `done`, `error` or `panic` |

| Action | Code |
|---|---|
| `Prime` | `reload` of every stream, then `t := st` (aligned, in the multi handler) |
| `Return` | the loop condition `t < et` fails |
| `Scan` | per stream, the "discarding duplicate time" reloads of heads before `t`, then the min over live heads; with no live stream the handler returns |
| `CatchUp` | one blank line, then `t += w` |
| `Emit` | `t != min` is `log.Panic`. Otherwise: the row of window `t`, with `emit` and `reload` for the heads at `min` and `emitb` for the rest, then `t += w` |
| `Copy` | single: a record received on `rvchan` and its line written |
| `Finish` | single: `rvchan` closed, or an error on `echan` and the abort line |

`RefRows` is the CSV the handler should write: one row per window, from the query's first window to the last window with a record. The row of a window with records shows each stream's first record of that window, or a blank. A window with no records is a blank line. For the single handler, `Expected` is every record in order. If the query failed, it is instead some prefix of them followed by the abort line.

`MCCoalescer.tla`, `MCSegmentStore.tla`, `MCAllocator.tla`, `MCCatalog.tla` and `MCCsvMerge.tla` declare the model values and the small sets that the `.cfg` files use.

## Runs

| Run | cfg | Expect | What it shows |
|-----|-----|--------|---------------|
| coalescer_safety | MCCoalescer.cfg | pass | See note 1. Checks `NoLostRecord`, `NoDuplicateCommit`, `SingleTreeWriter`, and `RecordsEventuallyCommitted`: every accepted record is committed. |
| coalescer_shutdown_dup | MCCoalescerShutdownDup.cfg | violation | Shutdown's unlocked commit and the timeout commit both write the same records. |
| coalescer_shutdown_hang | MCCoalescerShutdownHang.cfg | violation | See note 3. |
| segments_safety | MCSegmentStore.cfg | pass | See notes 4 and 5. Checks `TypeOK`, `BlobInOneObject`, `NoOverlap` and `ReadsComplete`. |
| segments_stale_chunk | MCSegmentStoreStale.cfg | violation | See note 6. |
| catalog_annotations | MCCatalog.cfg | pass | See note 7. Checks `CreatedStreamComplete` and `AnnotationVersionCount`. |
| catalog_orphan | MCCatalogOrphan.cfg | violation | See note 8. |
| catalog_two_procs | MCCatalogTwoProcs.cfg | violation | See note 9. |
| catalog_stream_info | MCCatalogStreamInfo.cfg | violation | See note 12. |
| allocator_refines | MCAllocator.cfg | pass | See note 10. Checks `HandlesExclusive`, `AllocRefines` and `HandleGranted`. |
| allocator_two_procs | MCAllocatorTwoProcs.cfg | violation | See note 11. |
| csv_merge | MCCsvMerge.cfg | pass | See note 13. Checks `MergeCorrect` and `Completes`. |

Notes on the runs:
1. coalescer_safety uses 2 clients and 2 streams (one of them never created), 2 records, batches of 1 or 2, and an early trip at 2. No record is lost or committed twice, and at most one goroutine writes a tree. The run checks `CoalesceSpec`, in which InitiateShutdown is never called: with shutdown, records are committed twice (coalescer_shutdown_dup).
2. `MCCoalescerEmpty.cfg` is not a run. It lets `InsertValues` be called with no records, and TLC then finds `RecordsEventuallyCommitted` violated. The call leaves a non-nil empty store, and its timer commits nothing. The next records then get no timer, and they stay pending until an early trip or a `Flush`.
3. coalescer_shutdown_hang: an early trip fills the channel after the timer took its timeout branch. InitiateShutdown then blocks on its send while holding `globlock`, and `rv` is never closed.
4. segments_safety: one stream and two allocations, with the second crossing a lock range. Blobs lie inside one object, and blobs never overlap, including blobs of a segment that resumes at the cached `naddr`.
5. segments_safety, under `FairSpec`: two readers share fetches through `chunkgate` while the writer writes. Every Read returns.
6. segments_stale_chunk: a fetch reads chunk 16 while it holds 5 bytes. `Unlock` then flushes the blob at 21 and invalidates chunk 16, and the fetch's `cachePut` stores the 5 bytes afterwards. The next Read of the blob at 21 gets too few bytes: it panics on the slice bounds, or returns wrong data.
7. catalog_annotations: one process with two clients and one crash or panic, which may happen between any two rados calls. A stream that has a version xattr is fully catalogued: it has an annotation, a `stream` xattr, its collection is indexed, and `col.<collection>` maps its tags to it. This holds because `CreateStream` writes the version last. Concurrent `SetStreamAnnotation` calls raise the annotation version once each, because `annotationMu` covers the read and the write.
8. catalog_orphan: a crash after `CreateStream`'s `SetOmap` leaves a catalog entry for a stream with no version. A retry with the same tags answers `SameStream`, so the stream can never be created, and nothing removes the entry.
9. catalog_two_procs: two processes, each owning one UUID, create streams with the same collection and tags. Both pass the `ListOmapValues` scan, since `annotationMu` is per process. The second `SetOmap` replaces the first stream's entry, so a stream with a version is missing from its collection.
10. allocator_refines: one process that restarts up to twice, with a lease that may expire at any time. It has one read handle, which `obtainBaseAddress` and the process's other rados calls contend for. Every address sent is new, across lock ranges, crashes and restarts. Every read handle is in exactly one place: `rh_avail`, a channel, or one goroutine. Every wait for a handle ends, both the allocator's bare receive and `GetRH`'s. With `ReadFails = TRUE` (`MCAllocatorReadFail.cfg`, not a run) the same property fails: after a failed read, `provideAllocs` starts again at address 0 and repeats it.
11. allocator_two_procs: two processes call `obtainBaseAddress` together. The first takes `alloc_lock`. The second's `LockExclusive` fails, but its error is ignored, so both read the same counter. Both processes then hand out the same lock range, and two streams write into the same objects.
12. catalog_stream_info: with no crash, client c1's `CreateStream` has set the `stream` xattr but not yet the `version` xattr. A `GetStreamInfo` of that UUID in this window, from any other goroutine, panics in `Uint64` and ends the process. After a crash in the same window, every `GetStreamInfo` of the UUID panics until `CreateStream` is retried.
13. csv_merge: all three handlers, every request with start and end in -2..3 ns, point widths 0 and 1, and window widths 1 and 2. Each of two channels carries up to three records: none, one window repeated, or windows spread so that one stream is ahead of the other. Every request ends, either by the handler returning or by a `doError`, and never in `log.Panic`. When a multi handler returns, the rows it wrote are exactly `RefRows`. When the single handler returns, it has written its records in order, and it has written the abort line exactly when the query failed.

The violation runs record what the code does against what its comments, or the spec, say. They are listed under "findings" in `PROJECT.json`.

Every property of a passing run has a mutant: a plausible bug in the code it is about, under which the run fails. The mutant operators are defined in the modules just before the definition they replace.

| Mutant | Definition it replaces | Bug | Property that catches it |
|---|---|---|---|
| `InsertLockedReplace` | `InsertLocked` | the call's records replace the store instead of being appended | `NoLostRecord` |
| `commitDoneKeepStore` | `commitDone` | `t.store = nil` is missing | `NoDuplicateCommit` |
| `TimerLockNoMutex` | `TimerLock` | the timeout commit does not take `mtx` | `SingleTreeWriter` |
| `TimerTimeoutReturn` | `TimerTimeout` | the timer returns without committing | `RecordsEventuallyCommitted` |
| `ScanKeepAvail` | `Scan` | a handle is sent on `rhidx` without clearing `rh_avail[i]` | `HandlesExclusive` |
| `BlockStay` | `Block` | after its blocking receive the goroutine waits for another return before scanning | `HandleGranted` |
| `ChunkLenUncapped` | `ChunkLen` | the chunk read returns the rest of the object, not at most `R_CHUNKSIZE` | `TypeOK` |
| `WriteNoMargin` | `Write` | the boundary test of the "OLD NOTE", without `MAX_EXPECTED_OBJECT_SIZE` | `BlobInOneObject` |
| `WriteAdvanceNoPrefix` | `Write` | naddr advances without the prefix | `NoOverlap` |
| `ChunkDeliverOne` | `ChunkDeliver` | only one waiter is sent the chunk | `ReadsComplete` |
| `csSetOmapWithVersion` | `csSetOmap` | the version xattr is written with the catalog entry, not last | `CreatedStreamComplete` |
| `saLockNoMutex` | `saLock` | `SetStreamAnnotation` does not take `annotationMu` | `AnnotationVersionCount` |
| `SendThresholdLate` | `SendThreshold` | the end of the lock range is detected one object late | `AllocRefines` |
| `EmitAllLive` | `Emit` | the row writes every live head, not only those at `min` | `MergeCorrect` |
| `FirstWindowUnaligned` | `FirstWindow` | the multi handler loops from `st` without `st &^ ((1 << pw) - 1)` | `Completes` |

### Bounds and why they are enough

**Coalescer**
- With 2 clients, each coalescer interleaving needs at most two concurrent callers beside the timer and shutdown goroutines: a client and the timer on one store, or two clients on one store.
- 2 records with an early trip at 2 give a batch that trips and a batch that times out. All four mutants of coalescer_safety are caught at this bound; 3 records with the liveness property do not finish within minutes.
- The shutdown runs use 3 records (dup, where the timeout commit and shutdown's commit need a batch each) and 2 records (hang).

**Segment store**
- In segments_safety, objects of 12 and chunks of 6 give objects with two chunks each. Blobs of 3 or 5 bytes cross chunk boundaries, and a second blob fills the write cache.
- A lock range of one object is used up on the second allocation, so `obtainBaseAddress` runs.
- At this geometry, `Write`'s object-boundary test always flushes the write cache before the cache could overflow. The fit test is therefore not exercised; the hazard list says so.
- The stale-chunk run uses objects of 16 and chunks of 8, and lock ranges of two objects.
- segments_safety has one stream. Two streams with two readers and `FairSpec` did not finish within 10 minutes. Streams share only the allocator and the address cache. The allocator's uniqueness is checked by `AllocRefines` in allocator_refines, with crashes, restarts and more allocations.
- Each reader reads at most `MaxReads` times. The stale-chunk run needs `MaxReads = 2`, because one Read creates the stale entry and the next one uses it.

**Allocator**
- With `ObjSize = 1` and `LockSize = 2`, every second send needs a new lock range. Five sends and two restarts give lock ranges taken by `Initialize` and by `provideAllocs`, and leases that run out in the middle of each.
- Two processes with two sends are enough for the race on the counter.
- One read handle shared by `obtainBaseAddress` and one other user is the smallest pool in which a goroutine must wait for a handle. With two handles, two users never wait.
- Fairness in allocator_refines: every rados call returns, and every goroutine that can run does run, so these steps are weakly fair. A Go channel serves waiting receivers in FIFO order, so the two receives on `rhidx` are strongly fair. Crashes, lease expiry, sends on `sp.alloc` and new rados calls are not forced.

**Catalog**
- Two tag maps, `{1}` and `{1, 2}`, where one key is a prefix of the other, give both `AmbiguousStream` and a fresh create. Two UUIDs and one collection give `SameStream`, a tag collision and a second stream.
- One crash is enough to stop `CreateStream` between any two of its rados calls. Two `SetStreamAnnotation` calls are enough for two calls to race on one version.

**CSV merge**
- Two streams are enough for a row where one column has a record and the other a blank, and for streams that end at different times.
- Three records per channel give a repeated window followed by a later one, which exercises the discard loop after a row.
- Times -2..3 with widths up to 2 put requests on and off the grid, including negative times, and leave room for blank lines before the first record and between records.
- Every step is the handler goroutine's, and the query goroutines that fill the channels keep running, so `WF_vars(Next)` is justified.

**Deadlock checking**
- The segment runs set `CHECK_DEADLOCK FALSE` because `MaxAllocs` ends the behaviours. allocator_refines sets it because `MaxSends` stops the allocator. A goroutine left waiting for a handle is a violation of `HandleGranted`.
- csv_merge sets it because a request ends when the handler returns.
- The shutdown runs set it because after InitiateShutdown every call blocks on `globlock` for good. The process is meant to exit at that point.

### Findings on the way

`CephSegment.Flush` is empty, although callers treat it as "earlier writes are persisted". Only `Unlock` writes `wcache` out. This is plain in the source, so it has no run. `ReadBegin` only reads blobs that `Durable` says are in the object store.

A `CreateStream` retried after a crash, with tags that do not collide with the orphaned entry, rewrites the annotation object at version 1. `asets` counts the successful `SetStreamAnnotation` calls since that write, so `AnnotationVersionCount` is about lost concurrent updates and not about this reset.

The segment address cache check `naddr & OFFSET_MASK < WORTH_CACHING` in `Unlock` never fails. `Write` already moves `naddr` to a fresh object whenever `naddr + MAX_EXPECTED_OBJECT_SIZE + 2` would cross the object. A mutant removing the check was therefore equivalent to the original, and was replaced.

## Not modelled, and the plan

| Component | Why not modelled | Plan |
|---|---|---|
| C2 Query API (partly) | Only reads through qtree, which is not in `src/`. `CsvMerge` takes the alignment of `QueryStatisticalValuesStream` and `QueryWindow`'s window grid as what the CSV channels can deliver. | — |
| C6 Handle pools (partly) | The write pool's users (`LockSegment`, `Unlock`, `WriteSuperBlock`) are not composed with a pool. `GetRH`'s timer needs a clock. | Compose `HandlePool` with the segment store's write handles. |
| C7 Stream metadata and catalog (partly) | `ListCollections` and `ListStreams` only read. Superblocks are one rados call each, and only the tree engine (not in `src/`) orders them against version writes. | `ListCollections` paging over 256 index partitions, as an operator checked against a reference listing. |
| C8 CSV interface (partly) | Not modelled: request parsing and unit conversion, and the `outstandingHttpReqs` counter. The aligned handler's loop (lines 165-250) is the multi loop with `wt` in place of `1 << pw`, and is modelled by the same actions. Three cases depend on qtree's channels, which are not in `src/`, and are listed as hazards without a property: `WindowWidth = 0` (`t += 0`), a `reload` that takes the closed-error branch, and `request_get_CSV`'s `select` taking `rvchan`'s close before a queued error. | — |
| C9 gRPC definition | Declarations only, with no behaviour. | — |
| Logging, metrics goroutines, configuration | No effect on the modelled state. | — |

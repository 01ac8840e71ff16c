--------------------------- MODULE MCSegmentStore ---------------------------
(* Model-checking instance of SegmentStore.  MCSegmentStore.cfg: objects *)
(* of 12 bytes holding two chunks (and write caches) of 6, blobs of at most *)
(* 3 data bytes, lock ranges of one object, so the allocation bound crosses *)
(* a lock range.  MCSegmentStoreStale.cfg: objects of 16, chunks of 8.      *)
EXTENDS SegmentStore

CONSTANTS u1, u2, r1, r2

MCOneStream == {u1}
MCReaders == {r1}
MCTwoReaders == {r1, r2}
==============================================================================

----------------------------- MODULE HandlePool -----------------------------
(***************************************************************************)
(* The read-handle pool of one CephStorageProvider per process:            *)
(* provideReadHandles, the goroutine that owns rh_avail, hands handle      *)
(* indices out on the channel rhidx and takes them back on rhidx_ret; a    *)
(* user takes one with GetRH (or a bare <-sp.rhidx) and gives it back with *)
(* sp.rhidx_ret <- hi.  Both channels hold NUM_RHANDLES+1 indices.         *)
(* provideWriteHandles is the same loop over whidx, whidx_ret, wh_avail.   *)
(*                                                                         *)
(* Besides the allocator, every rados call of a process takes a handle:    *)
(* rawObtainChunk, the catalog calls, SetStreamVersion.  They are one user *)
(* per process here, rdr[p], that takes a handle, uses it and returns it.  *)
(***************************************************************************)
EXTENDS Naturals, Sequences, SequencesExt

CONSTANTS
  Procs,      \* BTrDB processes, each with its own pool
  Handles     \* handle indices 0..NUM_RHANDLES-1, as a set of naturals

ASSUME Handles \subseteq Nat /\ Handles # {}

\* make(chan int, NUM_RHANDLES+1)
Cap == Cardinality(Handles) + 1

VARIABLES
  avail,   \* avail[p]: the indices i with sp.rh_avail[i] = true
  rhidx,   \* rhidx[p]: the buffer of channel sp.rhidx
  rhret,   \* rhret[p]: the buffer of channel sp.rhidx_ret
  ppc,     \* ppc[p]: provideReadHandles is at the top of its loop ("drain")
           \* or in its blocking receive ("block")
  rdr      \* rdr[p]: the other user: st "idle", "wait" (in GetRH) or
           \* "hold", and h the index it holds

poolVars == <<avail, rhidx, rhret, ppc, rdr>>

Idle == [st |-> "idle", h |-> CHOOSE h \in Handles : TRUE]

\* Initialize: every rh_avail[i] = true, empty channels, goroutine started.
PoolInit ==
  /\ avail = [p \in Procs |-> Handles]
  /\ rhidx = [p \in Procs |-> <<>>] /\ rhret = [p \in Procs |-> <<>>]
  /\ ppc = [p \in Procs |-> "drain"] /\ rdr = [p \in Procs |-> Idle]

\* The pool of a process that crashed and restarts, as Initialize makes it.
PoolReset(p) ==
  /\ avail' = [avail EXCEPT ![p] = Handles]
  /\ rhidx' = [rhidx EXCEPT ![p] = <<>>] /\ rhret' = [rhret EXCEPT ![p] = <<>>]
  /\ ppc' = [ppc EXCEPT ![p] = "drain"] /\ rdr' = [rdr EXCEPT ![p] = Idle]

\* A user receives the index at the head of rhidx.
TakeRH(p) ==
  /\ rhidx[p] # <<>>
  /\ rhidx' = [rhidx EXCEPT ![p] = Tail(@)]

\* A user sends index h back on rhidx_ret (blocking while it is full).
GiveRH(p, h) ==
  /\ Len(rhret[p]) < Cap
  /\ rhret' = [rhret EXCEPT ![p] = Append(@, h)]

-----------------------------------------------------------------------------
(* provideReadHandles *)

\* The ldretfir loop: a returned index is received and marked available.
Drain(p) ==
  /\ ppc[p] = "drain" /\ rhret[p] # <<>>
  /\ avail' = [avail EXCEPT ![p] = @ \cup {Head(rhret[p])}]
  /\ rhret' = [rhret EXCEPT ![p] = Tail(@)]
  /\ UNCHANGED <<rhidx, ppc, rdr>>

\* Mutant: the scan sends an available index without clearing rh_avail[i].
ScanKeepAvail(p) ==
  /\ ppc[p] = "drain" /\ rhret[p] = <<>>
  /\ Len(rhidx[p]) + Cardinality(avail[p]) <= Cap
  /\ rhidx' = [rhidx EXCEPT ![p] = @ \o SetToSortSeq(avail[p], <)]
  /\ ppc' = [ppc EXCEPT ![p] = IF avail[p] = {} THEN "block" ELSE "drain"]
  /\ UNCHANGED <<avail, rhret, rdr>>

\* The default branch ends the drain; the for loop sends every available
\* index, in index order, on rhidx and clears it; with none found the
\* goroutine goes to its blocking receive.  The sends never block: the
\* channel has room for every index.
Scan(p) ==
  /\ ppc[p] = "drain" /\ rhret[p] = <<>>
  /\ Len(rhidx[p]) + Cardinality(avail[p]) <= Cap
  /\ rhidx' = [rhidx EXCEPT ![p] = @ \o SetToSortSeq(avail[p], <)]
  /\ avail' = [avail EXCEPT ![p] = {}]
  /\ ppc' = [ppc EXCEPT ![p] = IF avail[p] = {} THEN "block" ELSE "drain"]
  /\ UNCHANGED <<rhret, rdr>>

\* Mutant: after the blocking receive the goroutine keeps waiting for a
\* second returned index before it scans again.
BlockStay(p) ==
  /\ ppc[p] = "block" /\ rhret[p] # <<>>
  /\ avail' = [avail EXCEPT ![p] = @ \cup {Head(rhret[p])}]
  /\ rhret' = [rhret EXCEPT ![p] = Tail(@)]
  /\ UNCHANGED <<rhidx, ppc, rdr>>

\* idx := <-sp.rhidx_ret; sp.rh_avail[idx] = true; back to the top.
Block(p) ==
  /\ ppc[p] = "block" /\ rhret[p] # <<>>
  /\ avail' = [avail EXCEPT ![p] = @ \cup {Head(rhret[p])}]
  /\ rhret' = [rhret EXCEPT ![p] = Tail(@)]
  /\ ppc' = [ppc EXCEPT ![p] = "drain"]
  /\ UNCHANGED <<rhidx, rdr>>

-----------------------------------------------------------------------------
(* The other users of the pool *)

\* A rados call begins: it calls GetRH.
GetRHBegin(p) ==
  /\ rdr[p].st = "idle"
  /\ rdr' = [rdr EXCEPT ![p].st = "wait"]
  /\ UNCHANGED <<avail, rhidx, rhret, ppc>>

\* GetRH's select receives a handle.  (Its other case, the 10 s timer,
\* panics and ends the process: a crash.)
GetRH(p) ==
  /\ rdr[p].st = "wait" /\ TakeRH(p)
  /\ rdr' = [rdr EXCEPT ![p] = [st |-> "hold", h |-> Head(rhidx[p])]]
  /\ UNCHANGED <<avail, rhret, ppc>>

\* The call is done with the handle: sp.rhidx_ret <- hi.
ReturnRH(p) ==
  /\ rdr[p].st = "hold" /\ GiveRH(p, rdr[p].h)
  /\ rdr' = [rdr EXCEPT ![p] = Idle]
  /\ UNCHANGED <<avail, rhidx, ppc>>
==============================================================================

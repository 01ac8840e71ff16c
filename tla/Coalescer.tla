------------------------------ MODULE Coalescer ------------------------------
(***************************************************************************)
(* Transaction coalescence of quasar.go: InsertValues, Flush, DeleteRange, *)
(* the coalesce-timeout goroutine spawned per batch, openTree.commit and   *)
(* InitiateShutdown.                                                       *)
(*                                                                         *)
(* Actors are client goroutines (Clients), one timer goroutine per batch   *)
(* (TimerIds, the id doubles as the id of the batch's abort channel        *)
(* sigEC) and the shutdown goroutine.  A record is a natural number; the   *)
(* tree engine is abstracted to "the records it was handed" (committed).   *)
(* A commit is two steps: handing tr.store to qtree (snap, writers) and     *)
(* tr.Commit() followed by t.store = nil, so that an actor that does not    *)
(* hold the tree lock can interleave with it.                              *)
(***************************************************************************)
EXTENDS Naturals, FiniteSets

CONSTANTS
  Clients,           \* client goroutines calling the Quasar API
  Streams,           \* stream UUIDs
  ExistingStreams,   \* streams for which q.bs.StreamExists holds
  OwnedStreams,      \* streams for which WeHoldWriteLockFor holds
  CoalesceMaxPoints, \* q.cfg.CoalesceMaxPoints()
  BatchSizes,        \* possible len(r) of one InsertValues call
  MaxRecords,        \* bound: records inserted over a behaviour
  Shutdown,          \* the shutdown goroutine (model value)
  Nil                \* nil slice / no holder (model value)

ASSUME /\ ExistingStreams \subseteq Streams /\ OwnedStreams \subseteq Streams
       /\ CoalesceMaxPoints \in Nat \ {0} /\ BatchSizes \subseteq Nat
       /\ MaxRecords \in Nat

RecIds == 1..MaxRecords
\* A new batch (and timer) needs a nil store, and the store only becomes nil
\* by committing at least one record: MaxRecords + 1 batches at most.
TimerIds == 1..(MaxRecords + 1)
Actors == Clients \cup TimerIds \cup {Shutdown}

VARIABLES
  openTrees, \* streams with an entry in q.openTrees and q.treelocks
  treelock,  \* treelock[s]: actor holding q.treelocks[s], or Nil
  store,     \* store[s]: tr.store, Nil for a nil slice, else its record set
  sigEC,     \* sigEC[s]: tr.sigEC, the abort channel of s's batch (0: none)
  chanBuf,   \* chanBuf[b]: values buffered in channel b (capacity 1)
  pc,        \* pc[a]: where actor a is
  stream,    \* stream[a]: the stream actor a works on
  op,        \* op[c]: the API call client c is executing
  snap,      \* snap[a]: records actor a handed to tr.InsertValues
  writers,   \* writers[s]: actors between NewWriteQTree and tr.Commit on s
  committed, \* committed[r]: times record r was written to a tree (max 2)
  accepted,  \* records of InsertValues calls that appended them
  nextRec,   \* last record id handed to a client
  nbatch,    \* last batch (timer, channel) id used
  globlock,  \* holder of q.globlock, or Nil
  todo       \* streams InitiateShutdown has still to visit

vars == <<openTrees, treelock, store, sigEC, chanBuf, pc, stream, op, snap,
          writers, committed, accepted, nextRec, nbatch, globlock, todo>>

\* len(tr.store): a nil slice has length 0
Len(st) == IF st = Nil THEN 0 ELSE Cardinality(st)

\* NewQuasar: empty maps; no goroutine running but the clients.
Init ==
  /\ openTrees = {} /\ treelock = [s \in Streams |-> Nil]
  /\ store = [s \in Streams |-> Nil] /\ sigEC = [s \in Streams |-> 0]
  /\ chanBuf = [b \in TimerIds |-> 0]
  /\ pc = [a \in Actors |-> IF a \in TimerIds THEN "none" ELSE "idle"]
  /\ stream = [a \in Actors |-> Nil]
  /\ op = [c \in Clients |-> [kind |-> "flush", recs |-> {}]]
  /\ snap = [a \in Actors |-> {}] /\ writers = [s \in Streams |-> {}]
  /\ committed = [r \in RecIds |-> 0] /\ accepted = {}
  /\ nextRec = 0 /\ nbatch = 0 /\ globlock = Nil /\ todo = {}

-----------------------------------------------------------------------------
(* API entry points.  A call for a stream we do not own returns            *)
(* WrongEndpoint before touching any state, so a call starts only on an    *)
(* owned stream.                                                           *)

Call(c, s, o) ==
  /\ pc[c] = "idle" /\ s \in OwnedStreams
  /\ pc' = [pc EXCEPT ![c] = "getTree"]
  /\ stream' = [stream EXCEPT ![c] = s]
  /\ op' = [op EXCEPT ![c] = o]

InsertValues(c, s, n) ==
  /\ nextRec + n <= MaxRecords
  /\ Call(c, s, [kind |-> "insert", recs |-> (nextRec + 1)..(nextRec + n)])
  /\ nextRec' = nextRec + n
  /\ UNCHANGED <<openTrees, treelock, store, sigEC, chanBuf, snap, writers,
                 committed, accepted, nbatch, globlock, todo>>

Flush(c, s) ==
  /\ Call(c, s, [kind |-> "flush", recs |-> {}])
  /\ UNCHANGED <<openTrees, treelock, store, sigEC, chanBuf, snap, writers,
                 committed, accepted, nextRec, nbatch, globlock, todo>>

DeleteRange(c, s) ==
  /\ Call(c, s, [kind |-> "delete", recs |-> {}])
  /\ UNCHANGED <<openTrees, treelock, store, sigEC, chanBuf, snap, writers,
                 committed, accepted, nextRec, nbatch, globlock, todo>>

\* getTree: under q.globlock, find or create the open tree; NoSuchStream if
\* the stream was never created.
getTree(c) ==
  LET s == stream[c] IN
  /\ pc[c] = "getTree" /\ globlock = Nil
  /\ \/ /\ s \in openTrees
        /\ pc' = [pc EXCEPT ![c] = "lock"] /\ UNCHANGED openTrees
     \/ /\ s \notin openTrees /\ s \in ExistingStreams
        /\ openTrees' = openTrees \cup {s}
        /\ pc' = [pc EXCEPT ![c] = "lock"]
     \/ /\ s \notin openTrees /\ s \notin ExistingStreams
        /\ pc' = [pc EXCEPT ![c] = "idle"] /\ UNCHANGED openTrees
  /\ UNCHANGED <<treelock, store, sigEC, chanBuf, stream, op, snap, writers,
                 committed, accepted, nextRec, nbatch, globlock, todo>>

\* Mutant: the call's records replace the store instead of being appended.
InsertLockedReplace(c) ==
  LET s     == stream[c]
      fresh == store[s] = Nil
      b     == nbatch + 1
      new   == op[c].recs
      trip  == Cardinality(new) >= CoalesceMaxPoints
  IN
  /\ pc[c] = "lock" /\ op[c].kind = "insert" /\ treelock[s] = Nil
  /\ store' = [store EXCEPT ![s] = new]
  /\ accepted' = accepted \cup op[c].recs
  /\ nbatch' = IF fresh THEN b ELSE nbatch
  /\ sigEC' = IF fresh THEN [sigEC EXCEPT ![s] = b] ELSE sigEC
  /\ stream' = IF fresh THEN [stream EXCEPT ![b] = s] ELSE stream
  /\ pc' = [a \in Actors |->
              CASE a = c              -> IF trip THEN "send" ELSE "idle"
                [] fresh /\ a = b     -> "wait"
                [] OTHER              -> pc[a]]
  /\ treelock' = IF trip THEN [treelock EXCEPT ![s] = c] ELSE treelock
  /\ UNCHANGED <<openTrees, chanBuf, op, snap, writers, committed, nextRec,
                 globlock, todo>>

(* InsertValues under mtx: a nil store starts a batch (store, sigEC and the  *)
(* timeout goroutine), the records are appended, and at CoalesceMaxPoints   *)
(* the call goes on to abort the timer and commit synchronously.  Below     *)
(* the threshold the lock is released in the same step.                     *)
InsertLocked(c) ==
  LET s     == stream[c]
      fresh == store[s] = Nil
      b     == nbatch + 1
      new   == (IF fresh THEN {} ELSE store[s]) \cup op[c].recs
      trip  == Cardinality(new) >= CoalesceMaxPoints
  IN
  /\ pc[c] = "lock" /\ op[c].kind = "insert" /\ treelock[s] = Nil
  /\ store' = [store EXCEPT ![s] = new]
  /\ accepted' = accepted \cup op[c].recs
  /\ nbatch' = IF fresh THEN b ELSE nbatch
  /\ sigEC' = IF fresh THEN [sigEC EXCEPT ![s] = b] ELSE sigEC
  /\ stream' = IF fresh THEN [stream EXCEPT ![b] = s] ELSE stream
  /\ pc' = [a \in Actors |->
              CASE a = c              -> IF trip THEN "send" ELSE "idle"
                [] fresh /\ a = b     -> "wait"
                [] OTHER              -> pc[a]]
  /\ treelock' = IF trip THEN [treelock EXCEPT ![s] = c] ELSE treelock
  /\ UNCHANGED <<openTrees, chanBuf, op, snap, writers, committed, nextRec,
                 globlock, todo>>

\* Flush under mtx: commit if there is anything pending.
FlushLocked(c) ==
  LET s == stream[c] IN
  /\ pc[c] = "lock" /\ op[c].kind = "flush" /\ treelock[s] = Nil
  /\ \/ /\ Len(store[s]) # 0
        /\ treelock' = [treelock EXCEPT ![s] = c]
        /\ pc' = [pc EXCEPT ![c] = "send"]
     \/ /\ Len(store[s]) = 0
        /\ pc' = [pc EXCEPT ![c] = "idle"] /\ UNCHANGED treelock
  /\ UNCHANGED <<openTrees, store, sigEC, chanBuf, stream, op, snap, writers,
                 committed, accepted, nextRec, nbatch, globlock, todo>>

\* DeleteRange under mtx: commit anything pending, then delete.
DeleteLocked(c) ==
  LET s == stream[c] IN
  /\ pc[c] = "lock" /\ op[c].kind = "delete" /\ treelock[s] = Nil
  /\ treelock' = [treelock EXCEPT ![s] = c]
  /\ pc' = [pc EXCEPT ![c] = IF Len(store[s]) # 0 THEN "send" ELSE "delete"]
  /\ UNCHANGED <<openTrees, store, sigEC, chanBuf, stream, op, snap, writers,
                 committed, accepted, nextRec, nbatch, globlock, todo>>

\* tr.sigEC <- true: blocks while the 1-slot channel is full.
SendAbort(a) ==
  LET ch == sigEC[stream[a]] IN
  /\ pc[a] = "send" /\ chanBuf[ch] = 0
  /\ chanBuf' = [chanBuf EXCEPT ![ch] = 1]
  /\ pc' = [pc EXCEPT ![a] = "commit"]
  /\ UNCHANGED <<openTrees, treelock, store, sigEC, stream, op, snap, writers,
                 committed, accepted, nextRec, nbatch, globlock, todo>>

\* What the caller of commit does once commit returns.
AfterCommit(a) ==
  LET s == stream[a] IN
  CASE a \in Clients /\ op[a].kind = "delete" ->
         /\ pc' = [pc EXCEPT ![a] = "delete"] /\ UNCHANGED <<treelock, todo>>
    [] a \in Clients ->
         /\ pc' = [pc EXCEPT ![a] = "idle"]
         /\ treelock' = [treelock EXCEPT ![s] = Nil] /\ UNCHANGED todo
    [] a \in TimerIds ->
         /\ pc' = [pc EXCEPT ![a] = "done"]
         /\ treelock' = [treelock EXCEPT ![s] = Nil] /\ UNCHANGED todo
    [] a = Shutdown ->
         /\ pc' = [pc EXCEPT ![a] = "loop"]
         /\ todo' = todo \ {s} /\ UNCHANGED treelock

\* openTree.commit, first half: return if the store is empty ("might happen
\* with a race in the timeout commit"), else hand the store to the tree.
commit(a) ==
  LET s == stream[a] IN
  /\ pc[a] = "commit"
  /\ \/ /\ Len(store[s]) = 0
        /\ AfterCommit(a)
        /\ UNCHANGED <<snap, writers>>
     \/ /\ Len(store[s]) # 0
        /\ snap' = [snap EXCEPT ![a] = store[s]]
        /\ writers' = [writers EXCEPT ![s] = @ \cup {a}]
        /\ pc' = [pc EXCEPT ![a] = "write"]
        /\ UNCHANGED <<treelock, todo>>
  /\ UNCHANGED <<openTrees, store, sigEC, chanBuf, stream, op, committed,
                 accepted, nextRec, nbatch, globlock>>

\* Mutant: the t.store = nil after tr.Commit() is missing.
commitDoneKeepStore(a) ==
  LET s == stream[a] IN
  /\ pc[a] = "write"
  /\ committed' = [r \in RecIds |->
                     IF r \in snap[a] THEN IF committed[r] < 2
                                           THEN committed[r] + 1 ELSE 2
                     ELSE committed[r]]
  /\ writers' = [writers EXCEPT ![s] = @ \ {a}]
  /\ snap' = [snap EXCEPT ![a] = {}]
  /\ AfterCommit(a)
  /\ UNCHANGED <<openTrees, store, sigEC, chanBuf, stream, op, accepted,
                 nextRec, nbatch, globlock>>

\* openTree.commit, second half: tr.Commit(); t.store = nil.
commitDone(a) ==
  LET s == stream[a] IN
  /\ pc[a] = "write"
  /\ committed' = [r \in RecIds |->
                     IF r \in snap[a] THEN IF committed[r] < 2
                                           THEN committed[r] + 1 ELSE 2
                     ELSE committed[r]]
  /\ store' = [store EXCEPT ![s] = Nil]
  /\ writers' = [writers EXCEPT ![s] = @ \ {a}]
  /\ snap' = [snap EXCEPT ![a] = {}]
  /\ AfterCommit(a)
  /\ UNCHANGED <<openTrees, sigEC, chanBuf, stream, op, accepted, nextRec,
                 nbatch, globlock>>

\* DeleteRange: NewWriteQTree, wtr.DeleteRange ...
DeleteBegin(c) ==
  /\ pc[c] = "delete"
  /\ writers' = [writers EXCEPT ![stream[c]] = @ \cup {c}]
  /\ pc' = [pc EXCEPT ![c] = "deleteCommit"]
  /\ UNCHANGED <<openTrees, treelock, store, sigEC, chanBuf, stream, op, snap,
                 committed, accepted, nextRec, nbatch, globlock, todo>>

\* ... wtr.Commit(); mtx.Unlock()
DeleteEnd(c) ==
  /\ pc[c] = "deleteCommit"
  /\ writers' = [writers EXCEPT ![stream[c]] = @ \ {c}]
  /\ treelock' = [treelock EXCEPT ![stream[c]] = Nil]
  /\ pc' = [pc EXCEPT ![c] = "idle"]
  /\ UNCHANGED <<openTrees, store, sigEC, chanBuf, stream, op, snap,
                 committed, accepted, nextRec, nbatch, globlock, todo>>

-----------------------------------------------------------------------------
(* The coalesce-timeout goroutine of batch b: select on time.After and on  *)
(* the abort channel; on timeout, lock mtx and commit.                      *)

\* Mutant: on timeout the goroutine returns without committing.
TimerTimeoutReturn(b) ==
  /\ pc[b] = "wait"
  /\ pc' = [pc EXCEPT ![b] = "done"]
  /\ UNCHANGED <<openTrees, treelock, store, sigEC, chanBuf, stream, op, snap,
                 writers, committed, accepted, nextRec, nbatch, globlock, todo>>

TimerTimeout(b) ==
  /\ pc[b] = "wait"
  /\ pc' = [pc EXCEPT ![b] = "lock"]
  /\ UNCHANGED <<openTrees, treelock, store, sigEC, chanBuf, stream, op, snap,
                 writers, committed, accepted, nextRec, nbatch, globlock, todo>>

TimerAbort(b) ==
  /\ pc[b] = "wait" /\ chanBuf[b] = 1
  /\ chanBuf' = [chanBuf EXCEPT ![b] = 0]
  /\ pc' = [pc EXCEPT ![b] = "done"]
  /\ UNCHANGED <<openTrees, treelock, store, sigEC, stream, op, snap,
                 writers, committed, accepted, nextRec, nbatch, globlock, todo>>

\* Mutant: the timeout commit does not take mtx.
TimerLockNoMutex(b) ==
  /\ pc[b] = "lock"
  /\ pc' = [pc EXCEPT ![b] = "commit"]
  /\ UNCHANGED <<openTrees, treelock, store, sigEC, chanBuf, stream, op, snap,
                 writers, committed, accepted, nextRec, nbatch, globlock, todo>>

TimerLock(b) ==
  /\ pc[b] = "lock" /\ treelock[stream[b]] = Nil
  /\ treelock' = [treelock EXCEPT ![stream[b]] = b]
  /\ pc' = [pc EXCEPT ![b] = "commit"]
  /\ UNCHANGED <<openTrees, store, sigEC, chanBuf, stream, op, snap,
                 writers, committed, accepted, nextRec, nbatch, globlock, todo>>

-----------------------------------------------------------------------------
(* InitiateShutdown's goroutine: take q.globlock for good, then commit      *)
(* every open tree that has pending records, without taking its treelock.  *)

ShutdownLock ==
  /\ pc[Shutdown] = "idle" /\ globlock = Nil
  /\ globlock' = Shutdown /\ todo' = openTrees
  /\ pc' = [pc EXCEPT ![Shutdown] = "loop"]
  /\ UNCHANGED <<openTrees, treelock, store, sigEC, chanBuf, stream, op, snap,
                 writers, committed, accepted, nextRec, nbatch>>

ShutdownVisit(s) ==
  /\ pc[Shutdown] = "loop" /\ s \in todo
  /\ \/ /\ Len(store[s]) # 0
        /\ stream' = [stream EXCEPT ![Shutdown] = s]
        /\ pc' = [pc EXCEPT ![Shutdown] = "send"] /\ UNCHANGED todo
     \/ /\ Len(store[s]) = 0
        /\ todo' = todo \ {s} /\ UNCHANGED <<pc, stream>>
  /\ UNCHANGED <<openTrees, treelock, store, sigEC, chanBuf, op, snap,
                 writers, committed, accepted, nextRec, nbatch, globlock>>

\* close(rv)
ShutdownDone ==
  /\ pc[Shutdown] = "loop" /\ todo = {}
  /\ pc' = [pc EXCEPT ![Shutdown] = "done"]
  /\ UNCHANGED <<openTrees, treelock, store, sigEC, chanBuf, stream, op, snap,
                 writers, committed, accepted, nextRec, nbatch, globlock, todo>>

-----------------------------------------------------------------------------
\* The API's goroutines: clients, their batches' timers and commits.
CoalesceNext ==
  \/ \E c \in Clients, s \in Streams :
        \/ \E n \in BatchSizes : InsertValues(c, s, n)
        \/ Flush(c, s) \/ DeleteRange(c, s)
  \/ \E c \in Clients :
        \/ getTree(c) \/ InsertLocked(c) \/ FlushLocked(c) \/ DeleteLocked(c)
        \/ DeleteBegin(c) \/ DeleteEnd(c)
  \/ \E a \in Actors : SendAbort(a) \/ commit(a) \/ commitDone(a)
  \/ \E b \in TimerIds : TimerTimeout(b) \/ TimerAbort(b) \/ TimerLock(b)

\* The same, with a call of InitiateShutdown racing them.
Next ==
  \/ CoalesceNext
  \/ ShutdownLock \/ ShutdownDone \/ \E s \in Streams : ShutdownVisit(s)

(* Fairness.  A client may stop calling the API, so starting a call is not *)
(* fair; a call in progress keeps running.  time.After eventually fires.   *)
(* sync.Mutex hands the lock to a waiter that has starved for 1ms, so lock *)
(* acquisition is strongly fair.  The shutdown goroutine, once started,    *)
(* keeps running.                                                          *)
CoalesceFairness ==
  /\ \A c \in Clients :
        /\ WF_vars(getTree(c)) /\ SF_vars(InsertLocked(c))
        /\ SF_vars(FlushLocked(c)) /\ SF_vars(DeleteLocked(c))
        /\ WF_vars(DeleteBegin(c)) /\ WF_vars(DeleteEnd(c))
  /\ \A a \in Actors :
        WF_vars(SendAbort(a)) /\ WF_vars(commit(a)) /\ WF_vars(commitDone(a))
  /\ \A b \in TimerIds :
        WF_vars(TimerTimeout(b)) /\ WF_vars(TimerAbort(b)) /\ SF_vars(TimerLock(b))

Fairness ==
  /\ CoalesceFairness
  /\ WF_vars(ShutdownDone) /\ \A s \in Streams : WF_vars(ShutdownVisit(s))

\* A run of the API in which InitiateShutdown is never called.
CoalesceSpec == Init /\ [][CoalesceNext]_vars /\ CoalesceFairness

Spec == Init /\ [][Next]_vars /\ Fairness

-----------------------------------------------------------------------------
(* Properties *)

\* Every record an InsertValues call appended is still pending in its
\* stream's store or has been handed to the tree: a commit never discards
\* records another goroutine appended meanwhile (quasar.go commit/InsertValues).
NoLostRecord ==
  \A r \in accepted :
     committed[r] > 0 \/ \E s \in Streams : store[s] # Nil /\ r \in store[s]

\* No record is written to the tree twice: a batch never spans two commits,
\* even when the timeout goroutine, a synchronous commit and shutdown race.
NoDuplicateCommit == \A r \in RecIds : committed[r] <= 1

\* At most one goroutine writes a stream's tree at a time (the per-stream
\* mutex serialises commit, the timeout commit and DeleteRange).
SingleTreeWriter == \A s \in Streams : Cardinality(writers[s]) <= 1

\* Every appended record is eventually committed: below CoalesceMaxPoints the
\* batch's coalesce-timeout goroutine commits it.
RecordsEventuallyCommitted ==
  \A r \in RecIds : (r \in accepted) ~> (committed[r] > 0)

\* InitiateShutdown's goroutine, once it holds q.globlock, gets through every
\* open tree and closes rv: the caller waiting on rv is not blocked forever.
ShutdownCompletes == (pc[Shutdown] = "loop") ~> (pc[Shutdown] = "done")
==============================================================================

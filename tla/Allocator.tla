------------------------------ MODULE Allocator ------------------------------
(***************************************************************************)
(* The address allocator of cephprovider.go as run by several BTrDB        *)
(* processes sharing one pool.  Each process's provideAllocs goroutine     *)
(* hands out sp.ptr, advances it by ADDR_OBJ_SIZE and, at the end of its   *)
(* lock range, calls obtainBaseAddress: LockExclusive on the "allocator"   *)
(* object (its result ignored), read the 8-byte counter, write counter +   *)
(* ADDR_LOCK_SIZE, Unlock, return the old counter.  Initialize calls       *)
(* obtainBaseAddress first and panics when it returns 0.  A process may    *)
(* crash at any step and restart; the lock is a 5 s lease that may run out *)
(* while its holder is between two calls.                                  *)
(*                                                                         *)
(* obtainBaseAddress runs on a read handle of its process's pool, taken    *)
(* with a bare <-sp.rhidx (no timeout) and given back before it returns;   *)
(* the module composes the allocator with HandlePool, whose other user     *)
(* stands for the process's rados calls once Initialize is done.           *)
(***************************************************************************)
EXTENDS Naturals, Sequences, SequencesExt, HandlePool

CONSTANTS
  ObjSize,        \* ADDR_OBJ_SIZE
  LockSize,       \* ADDR_LOCK_SIZE
  ReadFails,      \* whether the counter read may fail
  MaxSends,       \* bound: addresses handed out in all
  MaxCrashes,     \* bound: crashes and restarts
  Nil

ASSUME /\ ObjSize > 0 /\ LockSize % ObjSize = 0 /\ LockSize > ObjSize
       /\ ReadFails \in BOOLEAN

\* CreateDatabase writes 0x1000000, one ADDR_OBJ_SIZE, into the allocator.
InitialCounter == ObjSize

VARIABLES
  counter,   \* the "allocator" object
  lock,      \* holder of "alloc_lock": [p, inc] of a process incarnation, or Nil
  pc,        \* pc[p]: the step process p is at
  caller,    \* caller[p]: "init" (Initialize) or "provide" (provideAllocs)
  le,        \* le[p]: the counter value obtainBaseAddress read
  ptr,       \* ptr[p]: sp.ptr
  base,      \* base[p]: provideAllocs' base
  inc,       \* inc[p]: restarts of process p
  issued,    \* history: every address sent on any sp.alloc, in order
  crashes,
  hnd        \* hnd[p]: the read handle index obtainBaseAddress took

allocVars == <<counter, lock, pc, caller, le, ptr, base, inc, issued, crashes,
               hnd>>
vars == <<allocVars, poolVars>>

Me(p) == [p |-> p, inc |-> inc[p]]

Init ==
  /\ counter = InitialCounter /\ lock = Nil
  /\ pc = [p \in Procs |-> "handle"] /\ caller = [p \in Procs |-> "init"]
  /\ le = [p \in Procs |-> 0] /\ ptr = [p \in Procs |-> 0]
  /\ base = [p \in Procs |-> 0] /\ inc = [p \in Procs |-> 0]
  /\ issued = <<>> /\ crashes = 0 /\ hnd = [p \in Procs |-> Nil]
  /\ PoolInit

\* obtainBaseAddress holds its read handle between these steps.
HoldsRH(p) == pc[p] \in {"lock", "read", "write", "unlock"}

\* Process p is up: not ended by Initialize's panic.
Alive(p) == pc[p] # "dead"

\* Initialize has returned, so the process serves other rados calls.
Serving(p) == Alive(p) /\ ~(caller[p] = "init" /\ pc[p] # "send")

-----------------------------------------------------------------------------
(* obtainBaseAddress *)

\* hi := <-sp.rhidx
TakeHandle(p) ==
  /\ pc[p] = "handle" /\ TakeRH(p)
  /\ hnd' = [hnd EXCEPT ![p] = Head(rhidx[p])]
  /\ pc' = [pc EXCEPT ![p] = "lock"]
  /\ UNCHANGED <<counter, lock, caller, le, ptr, base, inc, issued, crashes,
                 avail, rhret, ppc, rdr>>

\* LockExclusive: takes the lock when it is free; the error otherwise
\* returned is ignored and the call goes on.
LockExclusive(p) ==
  /\ pc[p] = "lock"
  /\ lock' = IF lock = Nil THEN Me(p) ELSE lock
  /\ pc' = [pc EXCEPT ![p] = "read"]
  /\ UNCHANGED <<counter, caller, le, ptr, base, inc, issued, crashes, hnd>>
  /\ UNCHANGED poolVars

\* obtainBaseAddress returns v to its caller: Initialize panics on 0
\* (the process is down until restarted); provideAllocs sets sp.ptr and base.
Return(p, v) ==
  /\ pc' = [pc EXCEPT ![p] = IF caller[p] = "init" /\ v = 0 THEN "dead"
                                                        ELSE "send"]
  /\ ptr' = [ptr EXCEPT ![p] = v] /\ base' = [base EXCEPT ![p] = v]

\* Unlock succeeds only for the incarnation holding the lock.
Release(p) == lock' = IF lock = Me(p) THEN Nil ELSE lock

\* Read("allocator"): on an error or a short read, Unlock, give the handle
\* back and return 0.
ReadCounter(p) ==
  /\ pc[p] = "read"
  /\ \E ok \in IF ReadFails THEN BOOLEAN ELSE {TRUE} :
       IF ok
       THEN /\ le' = [le EXCEPT ![p] = counter]
            /\ pc' = [pc EXCEPT ![p] = "write"]
            /\ UNCHANGED <<lock, ptr, base, rhret>>
       ELSE /\ Release(p) /\ GiveRH(p, hnd[p]) /\ Return(p, 0) /\ UNCHANGED le
  /\ UNCHANGED <<counter, caller, inc, issued, crashes, hnd>>
  /\ UNCHANGED <<avail, rhidx, ppc, rdr>>

\* WriteFull("allocator", le + ADDR_LOCK_SIZE); its failure panics (Crash).
WriteCounter(p) ==
  /\ pc[p] = "write"
  /\ counter' = le[p] + LockSize
  /\ pc' = [pc EXCEPT ![p] = "unlock"]
  /\ UNCHANGED <<lock, caller, le, ptr, base, inc, issued, crashes, hnd>>
  /\ UNCHANGED poolVars

\* Unlock, give the handle back and return le.
UnlockReturn(p) ==
  /\ pc[p] = "unlock"
  /\ Release(p) /\ GiveRH(p, hnd[p]) /\ Return(p, le[p])
  /\ UNCHANGED <<counter, caller, le, inc, issued, crashes, hnd>>
  /\ UNCHANGED <<avail, rhidx, ppc, rdr>>

-----------------------------------------------------------------------------
(* provideAllocs *)

\* Mutant: the end of the lock range is detected one object late.
SendThresholdLate(p, nptr) == nptr > base[p] + LockSize

\* provideAllocs' test sp.ptr >= base + ADDR_LOCK_SIZE.
SendThreshold(p, nptr) == nptr >= base[p] + LockSize

\* sp.alloc <- sp.ptr; sp.ptr += ADDR_OBJ_SIZE; at the end of the lock
\* range obtain a new base.
Send(p) ==
  LET nptr == ptr[p] + ObjSize IN
  /\ pc[p] = "send" /\ Len(issued) < MaxSends
  /\ issued' = Append(issued, ptr[p])
  /\ ptr' = [ptr EXCEPT ![p] = nptr]
  /\ IF SendThreshold(p, nptr)
     THEN pc' = [pc EXCEPT ![p] = "handle"] /\ caller' = [caller EXCEPT ![p] = "provide"]
     ELSE UNCHANGED <<pc, caller>>
  /\ UNCHANGED <<counter, lock, le, base, inc, crashes, hnd>>
  /\ UNCHANGED poolVars

-----------------------------------------------------------------------------
(* Environment *)

\* The 5 s lease of alloc_lock runs out.
LeaseExpires ==
  /\ lock # Nil
  /\ lock' = Nil
  /\ UNCHANGED <<counter, pc, caller, le, ptr, base, inc, issued, crashes, hnd>>
  /\ UNCHANGED poolVars

\* Process p crashes (or a panic ends it) and restarts: Initialize runs
\* obtainBaseAddress again.  Addresses buffered in sp.alloc are lost, and
\* the new provider has a fresh pool.  GetRH's 10 s panic is one such crash.
Restart(p) ==
  /\ crashes < MaxCrashes
  /\ crashes' = crashes + 1
  /\ inc' = [inc EXCEPT ![p] = @ + 1]
  /\ pc' = [pc EXCEPT ![p] = "handle"] /\ caller' = [caller EXCEPT ![p] = "init"]
  /\ hnd' = [hnd EXCEPT ![p] = Nil]
  /\ PoolReset(p)
  /\ UNCHANGED <<counter, lock, le, ptr, base, issued>>

\* A step of process p's pool goroutine or of its other pool user.
PoolStep(p, A) == Alive(p) /\ A /\ UNCHANGED allocVars

Next ==
  \/ \E p \in Procs :
       \/ TakeHandle(p) \/ LockExclusive(p) \/ ReadCounter(p)
       \/ WriteCounter(p) \/ UnlockReturn(p) \/ Send(p) \/ Restart(p)
       \/ PoolStep(p, Drain(p)) \/ PoolStep(p, Scan(p))
       \/ PoolStep(p, Block(p)) \/ PoolStep(p, Serving(p) /\ GetRHBegin(p))
       \/ PoolStep(p, GetRH(p)) \/ PoolStep(p, ReturnRH(p))
  \/ LeaseExpires

Spec == Init /\ [][Next]_vars

\* rados calls return and goroutines that can run do run: weak fairness.
\* Two receivers on rhidx are served in the order they began to wait (a Go
\* channel's queue of receivers is FIFO): strong fairness of each receive.
\* Crashes, lease expiry, sends and new rados calls are not forced.
Fairness ==
  \A p \in Procs :
    /\ SF_vars(TakeHandle(p)) /\ SF_vars(PoolStep(p, GetRH(p)))
    /\ WF_vars(LockExclusive(p)) /\ WF_vars(ReadCounter(p))
    /\ WF_vars(WriteCounter(p)) /\ WF_vars(UnlockReturn(p))
    /\ WF_vars(PoolStep(p, Drain(p))) /\ WF_vars(PoolStep(p, Scan(p)))
    /\ WF_vars(PoolStep(p, Block(p))) /\ WF_vars(PoolStep(p, ReturnRH(p)))

FairSpec == Spec /\ Fairness

-----------------------------------------------------------------------------
(* Properties *)

\* The object addresses any process can hand out: multiples of ADDR_OBJ_SIZE
\* from CreateDatabase's counter up to the highest counter reachable.
AllocAddrs ==
  LET top == InitialCounter
             + (MaxSends + Cardinality(Procs) * (MaxCrashes + 1)) * LockSize
  IN {a \in InitialCounter..top : (a - InitialCounter) % ObjSize = 0}

Abstract == INSTANCE AddressAllocator WITH Addresses <- AllocAddrs

\* The allocators of all processes together implement AddressAllocator:
\* every address sent on any sp.alloc is a pool object address never sent
\* before, across lock ranges, crashes and restarts.
AllocRefines == Abstract!Spec

\* How many places of process p's pool hold read handle h: rh_avail, either
\* channel, obtainBaseAddress, the other user.
Copies(p, h) ==
  LET InSeq(q) == Cardinality({i \in DOMAIN q : q[i] = h}) IN
  (IF h \in avail[p] THEN 1 ELSE 0) + InSeq(rhidx[p]) + InSeq(rhret[p])
  + (IF HoldsRH(p) /\ hnd[p] = h THEN 1 ELSE 0)
  + (IF rdr[p] = [st |-> "hold", h |-> h] THEN 1 ELSE 0)

\* provideReadHandles' bookkeeping keeps every read handle of a process in
\* exactly one place at a time: no two goroutines ever use one rados
\* IOContext at once, and no handle is lost to the pool.
HandlesExclusive == \A p \in Procs, h \in Handles : Copies(p, h) = 1

\* A goroutine waiting on rhidx eventually gets a handle: obtainBaseAddress,
\* whose bare receive has no timeout (a stall here stalls provideAllocs and
\* every LockSegment), and GetRH, which would otherwise panic after 10 s.
HandleGranted ==
  \A p \in Procs : /\ pc[p] = "handle" ~> pc[p] # "handle"
                   /\ rdr[p].st = "wait" ~> rdr[p].st # "wait"
==============================================================================

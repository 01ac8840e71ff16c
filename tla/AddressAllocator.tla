-------------------------- MODULE AddressAllocator --------------------------
(***************************************************************************)
(* What the block store's allocator promises its users (LockSegment takes   *)
(* its base addresses from sp.alloc): every address it hands out is an      *)
(* object address of the pool that no one, in this or any other process,   *)
(* was handed before.  issued is the history of hand-outs, in order.        *)
(***************************************************************************)
EXTENDS Naturals, Sequences, SequencesExt

CONSTANT Addresses   \* the object addresses the allocator may hand out

VARIABLE issued

Init == issued = <<>>

\* Hand out address a.
Allocate(a) ==
  /\ a \notin ToSet(issued)
  /\ issued' = Append(issued, a)

Next == \E a \in Addresses : Allocate(a)

Spec == Init /\ [][Next]_issued
==============================================================================

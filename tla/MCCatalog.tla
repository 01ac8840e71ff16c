----------------------------- MODULE MCCatalog -----------------------------
(* Model-checking instance of Catalog: streams u1, u2 in one collection,   *)
(* tag maps over the items 1 and 2 (so that one key is a prefix of another *)
(* and two streams can ask for the same key).                              *)
EXTENDS Catalog

CONSTANTS p1, p2, c1, c2, u1, u2, k1

MCCollections == {k1}
MCUuids == {u1, u2}
MCTagMaps == {{1}, {1, 2}}
\* One process running both clients and owning both streams.
MCOneProc == {p1}
MCOneProcOf == (c1 :> p1 @@ c2 :> p1)
MCOneOwner == (u1 :> p1 @@ u2 :> p1)
\* Two processes, one client each, each owning one stream.
MCTwoProcs == {p1, p2}
MCTwoProcOf == (c1 :> p1 @@ c2 :> p2)
MCTwoOwner == (u1 :> p1 @@ u2 :> p2)
==============================================================================

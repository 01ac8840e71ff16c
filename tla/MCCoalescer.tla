---------------------------- MODULE MCCoalescer ----------------------------
(* Model-checking instance of Coalescer: two client goroutines, one stream *)
(* that exists and one that was never created (the NoSuchStream path).    *)
EXTENDS Coalescer

CONSTANTS c1, c2, s1, s2

MCClients == {c1, c2}
MCStreams == {s1, s2}
MCExisting == {s1}
MCOneStream == {s1}
==============================================================================

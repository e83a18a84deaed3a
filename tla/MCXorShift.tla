------------------------------ MODULE MCXorShift -----------------------------
(* Instance of XorShift for TLC: words of eight bits. *)
EXTENDS XorShift

Fallback == [i \in Bits |-> i % 2 = 0]
==============================================================================

----------------------------- MODULE MCSpscRing -----------------------------
(* SpscRing with two item values, a ring of two slots and five pushes: the *)
(* indices go round the buffer more than twice.                            *)
EXTENDS SpscRing
=============================================================================

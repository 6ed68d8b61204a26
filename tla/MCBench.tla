------------------------------ MODULE MCBench -------------------------------
(* Bench with two symbols, rings that fill up, and enough events for a     *)
(* narrow one to follow the orders.                                        *)
EXTENDS Bench
=============================================================================

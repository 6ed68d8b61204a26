---------------------------- MODULE FillHistory -----------------------------
(***************************************************************************)
(* What "trade/holdings history" (src/storage/lmdb_persister.hpp:3) asks   *)
(* of the store: fills are added at the end, in the order in which they    *)
(* happened, and what has been stored is never changed or removed.  Fills  *)
(* are numbered as they happen; stored maps a key's sequence number to the *)
(* fill kept there.                                                        *)
(***************************************************************************)
EXTENDS Naturals

VARIABLE stored

Init == stored = [k \in {} |-> 0]

\* A batch is committed.
AddBatch ==
  /\ DOMAIN stored \subseteq DOMAIN stored'
  /\ \A k \in DOMAIN stored : stored'[k] = stored[k]
  /\ \A k \in DOMAIN stored, j \in DOMAIN stored' \ DOMAIN stored : k < j
  /\ \A j, k \in DOMAIN stored' : j < k => stored'[j] < stored'[k]

Spec == Init /\ [][AddBatch]_stored
=============================================================================

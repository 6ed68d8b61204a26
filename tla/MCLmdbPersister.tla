-------------------------- MODULE MCLmdbPersister ---------------------------
(* LmdbPersister with two symbols and a few fills and book snapshots.      *)
EXTENDS LmdbPersister
=============================================================================

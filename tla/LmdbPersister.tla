--------------------------- MODULE LmdbPersister ----------------------------
(***************************************************************************)
(* src/storage/lmdb_persister.hpp: the thread that drains the snapshot and *)
(* trade rings into LMDB, with the strategy thread as far as it pushes     *)
(* into them, the shutdown flag of src/main.cpp, and restarts.             *)
(*                                                                         *)
(* A fill is its number in the order of execution, a snapshot likewise; a  *)
(* key is <<"tr", seq>> or <<"ob", symbol, seq>>.  LMDB (external) makes   *)
(* the writes of a transaction visible at the commit, all or none.  It is  *)
(* opened with MDB_NOSYNC, so a commit survives the process, which is what *)
(* Restart ends, but not always the machine, which is not modelled.        *)
(***************************************************************************)
EXTENDS Naturals, Sequences

CONSTANTS Symbols,
          SnapCap, TradeCap,   \* capacities of the two rings (1 << 12)
          MaxFills,            \* bound: fills executed
          MaxSnaps,            \* bound: book snapshots taken
          MaxFaults,           \* bound: LMDB calls that fail
          MaxRestarts          \* bound: processes after the first

ASSUME PersisterBounds ==
  /\ {SnapCap, TradeCap} \subseteq Nat \ {0}
  /\ {MaxFills, MaxSnaps, MaxFaults, MaxRestarts} \subseteq Nat

VARIABLES running,               \* g_running
          strat,                 \* where the strategy thread is
          fills, snaps,          \* how many there have been
          snap_ring, trade_ring,
          pc,                    \* where the LMDB thread is
          txn_open, txn,         \* txn, and what has been put into it
          snap_seq, trade_seq,
          db,                    \* the committed database
          faults, restarts,
          owed                   \* fills in the ring before the shutdown

queues == <<snap_ring, trade_ring>>
strategy == <<strat, fills, snaps, owed>>
persister == <<pc, txn_open, txn, snap_seq, trade_seq, db, faults>>
vars == <<running, strategy, queues, persister, restarts>>

nothing == [k \in {} |-> 0]

Init ==
  /\ running = TRUE
  /\ strat = "test" /\ fills = 0 /\ snaps = 0
  /\ snap_ring = <<>> /\ trade_ring = <<>>
  /\ pc = "test"
  /\ txn_open = FALSE /\ txn = nothing
  /\ snap_seq = 0 /\ trade_seq = 0
  /\ db = nothing
  /\ faults = 0 /\ restarts = 0
  /\ owed = {}
-----------------------------------------------------------------------------
(* The strategy thread, as the LMDB thread meets it.                       *)

\* Mutated form: one item too many.
can_push_one_more(ring, cap) == Len(ring) <= cap

\* What try_push returns.
can_push(ring, cap) == Len(ring) < cap

try_push(ring, cap, x) == IF can_push(ring, cap) THEN Append(ring, x) ELSE ring

\* while (running)
StrategyTest ==
  /\ strat = "test"
  /\ strat' = IF running THEN "drain" ELSE "stopped"
  /\ UNCHANGED <<running, fills, snaps, owed, queues, persister, restarts>>

\* A fill is popped from the ExecRing: push_trade, its result ignored.  The
\* drain loop does not look at running.
PushTrade ==
  /\ strat = "drain"
  /\ fills < MaxFills
  /\ fills' = fills + 1
  /\ trade_ring' = try_push(trade_ring, TradeCap, fills')
  /\ owed' = IF running /\ can_push(trade_ring, TradeCap)
             THEN owed \cup {fills'} ELSE owed
  /\ UNCHANGED <<running, strat, snaps, snap_ring, persister, restarts>>

ExecDrained ==
  /\ strat = "drain"
  /\ strat' = "md"
  /\ UNCHANGED <<running, fills, snaps, owed, queues, persister, restarts>>

\* One turn of the loop of push_snapshots().
PushSnapshot(sym) ==
  /\ strat = "md"
  /\ snaps < MaxSnaps
  /\ snaps' = snaps + 1
  /\ snap_ring' = try_push(snap_ring, SnapCap, [symbol_id |-> sym, no |-> snaps'])
  /\ UNCHANGED <<running, strat, fills, owed, trade_ring, persister, restarts>>

EndOfTurn ==
  /\ strat = "md"
  /\ strat' = "test"
  /\ UNCHANGED <<running, fills, snaps, owed, queues, persister, restarts>>

Strategy ==
  \/ StrategyTest \/ PushTrade \/ ExecDrained
  \/ \E sym \in Symbols : PushSnapshot(sym)
  \/ EndOfTurn
-----------------------------------------------------------------------------
(* The LMDB thread.  The loop condition is three reads.                    *)

\* Mutated form: the rings are not looked at.
TestRunning_only ==
  /\ pc = "test"
  /\ pc' = IF running THEN "snaps" ELSE "done"
  /\ UNCHANGED <<txn_open, txn, snap_seq, trade_seq, db, faults, queues>>

TestRunning ==
  /\ pc = "test"
  /\ pc' = IF running THEN "snaps" ELSE "snap_size"
  /\ UNCHANGED <<txn_open, txn, snap_seq, trade_seq, db, faults, queues>>

TestSnaps ==
  /\ pc = "snap_size"
  /\ pc' = IF snap_ring # <<>> THEN "snaps" ELSE "trade_size"
  /\ UNCHANGED <<txn_open, txn, snap_seq, trade_seq, db, faults, queues>>

TestTrades ==
  /\ pc = "trade_size"
  /\ pc' = IF trade_ring # <<>> THEN "snaps" ELSE "done"
  /\ UNCHANGED <<txn_open, txn, snap_seq, trade_seq, db, faults, queues>>

\* mdb_put into the transaction.
put(key, v) ==
  txn' = [k \in DOMAIN txn \cup {key} |-> IF k = key THEN v ELSE txn[k]]

\* mdb_txn_begin fails: the item just popped is lost, the loop is left.
BeginFails(next) ==
  /\ ~txn_open
  /\ faults < MaxFaults
  /\ faults' = faults + 1
  /\ pc' = next
  /\ UNCHANGED <<txn_open, txn, snap_seq, trade_seq>>

PopSnap ==
  /\ pc = "snaps"
  /\ snap_ring # <<>>
  /\ snap_ring' = Tail(snap_ring)
  /\ \/ BeginFails("trades")
     \/ /\ txn_open' = TRUE
        /\ put(<<"ob", Head(snap_ring).symbol_id, snap_seq>>, Head(snap_ring).no)
        /\ snap_seq' = snap_seq + 1
        /\ UNCHANGED <<pc, trade_seq, faults>>
  /\ UNCHANGED <<db, trade_ring>>

\* Mutated form: without a transaction the trades are not looked at.
SnapsDrained_needs_txn ==
  /\ pc = "snaps"
  /\ snap_ring = <<>>
  /\ pc' = IF txn_open THEN "trades" ELSE "commit"
  /\ UNCHANGED <<txn_open, txn, snap_seq, trade_seq, db, faults, queues>>

SnapsDrained ==
  /\ pc = "snaps"
  /\ snap_ring = <<>>
  /\ pc' = "trades"
  /\ UNCHANGED <<txn_open, txn, snap_seq, trade_seq, db, faults, queues>>

\* Mutated form: the sequence number is not advanced.
PopTrade_same_seq ==
  /\ pc = "trades"
  /\ trade_ring # <<>>
  /\ trade_ring' = Tail(trade_ring)
  /\ txn_open' = TRUE
  /\ put(<<"tr", trade_seq>>, Head(trade_ring))
  /\ UNCHANGED <<pc, snap_seq, trade_seq, faults, db, snap_ring>>

PopTrade ==
  /\ pc = "trades"
  /\ trade_ring # <<>>
  /\ trade_ring' = Tail(trade_ring)
  /\ \/ BeginFails("commit")
     \/ /\ txn_open' = TRUE
        /\ put(<<"tr", trade_seq>>, Head(trade_ring))
        /\ trade_seq' = trade_seq + 1
        /\ UNCHANGED <<pc, snap_seq, faults>>
  /\ UNCHANGED <<db, snap_ring>>

TradesDrained ==
  /\ pc = "trades"
  /\ trade_ring = <<>>
  /\ pc' = "commit"
  /\ UNCHANGED <<txn_open, txn, snap_seq, trade_seq, db, faults, queues>>

\* The database with what the transaction has put.
with_txn ==
  [k \in DOMAIN db \cup DOMAIN txn |-> IF k \in DOMAIN txn THEN txn[k] ELSE db[k]]

\* Mutated form: a round that the shutdown has overtaken is abandoned.
Commit_unless_stopping ==
  /\ pc = "commit"
  /\ db' = IF running THEN with_txn ELSE db
  /\ txn_open' = FALSE
  /\ txn' = nothing
  /\ pc' = "test"
  /\ UNCHANGED <<snap_seq, trade_seq, faults, queues>>

\* if (txn) mdb_txn_commit(txn): the result is ignored, as are those of the
\* puts, whose failure makes the commit fail.
Commit ==
  /\ pc = "commit"
  /\ \/ /\ db' = with_txn
        /\ UNCHANGED faults
     \/ /\ txn_open
        /\ faults < MaxFaults
        /\ faults' = faults + 1
        /\ UNCHANGED db
  /\ txn_open' = FALSE
  /\ txn' = nothing
  /\ pc' = "test"
  /\ UNCHANGED <<snap_seq, trade_seq, queues>>

PersisterStep ==
  \/ TestRunning \/ TestSnaps \/ TestTrades
  \/ PopSnap \/ SnapsDrained
  \/ PopTrade \/ TradesDrained
  \/ Commit

Persister == PersisterStep /\ UNCHANGED <<running, strategy, restarts>>
-----------------------------------------------------------------------------
\* on_signal()
Stop ==
  /\ running
  /\ running' = FALSE
  /\ UNCHANGED <<strategy, queues, persister, restarts>>

\* The process ends, by itself or killed at any point, and is started again
\* on the same database.
Restart ==
  /\ restarts < MaxRestarts
  /\ restarts' = restarts + 1
  /\ running' = TRUE
  /\ strat' = "test"
  /\ snap_ring' = <<>> /\ trade_ring' = <<>>
  /\ pc' = "test"
  /\ txn_open' = FALSE /\ txn' = nothing
  /\ snap_seq' = 0 /\ trade_seq' = 0
  /\ owed' = {}
  /\ UNCHANGED <<fills, snaps, db, faults>>

\* One process.
Next == Strategy \/ Persister \/ Stop

Spec == Init /\ [][Next]_vars

\* Both threads are loops that never block for ever.
Fairness == WF_vars(Strategy) /\ WF_vars(Persister)

FairSpec == Spec /\ Fairness

\* A process and those that follow it on the same database.
RestartSpec == Init /\ [][Next \/ Restart]_vars /\ Fairness
-----------------------------------------------------------------------------
Keys ==
  {<<"tr", k>> : k \in 0 .. MaxFills} \cup
  {<<"ob", sym, k>> : sym \in Symbols, k \in 0 .. MaxSnaps}

Fill == 1 .. MaxFills

Snap == [symbol_id : Symbols, no : 1 .. MaxSnaps]

TypeOK ==
  /\ running \in BOOLEAN /\ txn_open \in BOOLEAN
  /\ strat \in {"test", "drain", "md", "stopped"}
  /\ pc \in {"test", "snap_size", "trade_size", "snaps", "trades", "commit", "done"}
  /\ fills \in 0 .. MaxFills /\ snaps \in 0 .. MaxSnaps
  /\ trade_ring \in Seq(Fill) /\ Len(trade_ring) <= TradeCap
  /\ snap_ring \in Seq(Snap) /\ Len(snap_ring) <= SnapCap
  /\ snap_seq \in 0 .. MaxSnaps /\ trade_seq \in 0 .. MaxFills
  /\ DOMAIN txn \subseteq Keys /\ DOMAIN db \subseteq Keys
  /\ faults \in 0 .. MaxFaults /\ restarts \in 0 .. MaxRestarts
  /\ owed \subseteq Fill

\* The fills in the database, by sequence number.
trades == [k \in {k \in 0 .. MaxFills : <<"tr", k>> \in DOMAIN db} |-> db[<<"tr", k>>]]

StoredFills == {trades[k] : k \in DOMAIN trades}

History == INSTANCE FillHistory WITH stored <- trades

\* "trade/holdings history" (lmdb_persister.hpp:3): a fill that is stored
\* stays, under its key, and later fills get later keys, whatever LMDB call
\* fails in between (run() and put() of lmdb_persister.hpp:47-81).
KeepsHistory == History!Spec

\* Shutdown loses nothing that is in the ring when it begins: the thread does
\* not leave its loop before every such fill is committed, unless LMDB
\* failed (the loop condition, lmdb_persister.hpp:49-50).
DrainedAtExit ==
  pc = "done" /\ faults = 0 => owed \subseteq StoredFills

-----------------------------------------------------------------------------
(* The inductive invariants behind KeepsHistory and DrainedAtExit.         *)

\* The sequence numbers there is room for.
Seqs == 0 .. MaxFills

\* The ring holds fills in the order in which they happened, and every number
\* drawn stands for an item that has been popped.
RingInOrder ==
  /\ \A i, j \in 1 .. Len(trade_ring) : i < j => trade_ring[i] < trade_ring[j]
  /\ \A i \in 1 .. Len(trade_ring) : trade_ring[i] <= fills
  /\ trade_seq + Len(trade_ring) <= fills
  /\ snap_seq + Len(snap_ring) <= snaps

\* What is stored or being stored came before what is in the ring.
StoredBeforeRing ==
  \A k \in Seqs :
    <<"tr", k>> \in DOMAIN with_txn =>
      /\ k < trade_seq
      /\ with_txn[<<"tr", k>>] \in 1 .. fills
      /\ \A i \in 1 .. Len(trade_ring) : with_txn[<<"tr", k>>] < trade_ring[i]

\* Keys follow fills, those of the transaction after the committed ones.
KeysInOrder ==
  \A j, k \in Seqs :
    /\ <<"tr", j>> \in DOMAIN with_txn /\ <<"tr", k>> \in DOMAIN with_txn /\ j < k =>
         with_txn[<<"tr", j>>] < with_txn[<<"tr", k>>]
    /\ <<"tr", j>> \in DOMAIN db /\ <<"tr", k>> \in DOMAIN txn => j < k

\* The order of fills survives ring, transaction and database: what makes
\* every commit add at the end (lmdb_persister.hpp:52-81).
HistoryInv == RingInOrder /\ StoredBeforeRing /\ KeysInOrder

\* A transaction is open only while the rings are drained, and the rings are
\* sized up only after the shutdown has begun.
LoopInv ==
  /\ ~txn_open => txn = nothing
  /\ pc \in {"test", "snap_size", "trade_size", "done"} => ~txn_open
  /\ pc \in {"snap_size", "trade_size", "done"} => ~running

\* A fill that was in the ring before the shutdown is still there, or put or
\* stored under a number of this process.
Accounted ==
  \A x \in owed :
    \/ \E i \in 1 .. Len(trade_ring) : trade_ring[i] = x
    \/ \E k \in Seqs : /\ k < trade_seq /\ <<"tr", k>> \in DOMAIN with_txn
                       /\ with_txn[<<"tr", k>>] = x

\* Until an LMDB call fails no fill that was in the ring before the shutdown
\* is lost between ring, transaction and database, at any point of any round
\* and whenever the shutdown comes (lmdb_persister.hpp:49-81).
OwedInv == faults = 0 => Accounted

\* The thread ends after a shutdown, so that the join of main.cpp:229
\* returns, even when LMDB calls fail.
JoinReturns == ~running ~> pc = "done"
=============================================================================

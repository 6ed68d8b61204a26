------------------------ MODULE LmdbPersisterProofs -------------------------
(***************************************************************************)
(* Proofs about the LMDB thread: what it stores is a history, as           *)
(* FillHistory defines it, and a shutdown drains what is owed.  Types, the *)
(* order in the ring and the drain are preserved by restarts as well; the  *)
(* history is that of one process.                                         *)
(***************************************************************************)
EXTENDS LmdbPersister, TLAPS

\* What the assumptions say of each constant.
LEMMA PersisterConstants ==
  /\ SnapCap \in Nat /\ TradeCap \in Nat /\ SnapCap >= 1 /\ TradeCap >= 1
  /\ MaxFills \in Nat /\ MaxSnaps \in Nat /\ MaxFaults \in Nat /\ MaxRestarts \in Nat
  BY PersisterBounds

\* Head and Tail of a queue, elementwise.
LEMMA TailFacts ==
  ASSUME NEW S, NEW q \in Seq(S), q # <<>>
  PROVE  /\ Len(q) \in Nat /\ 1 \in 1 .. Len(q)
         /\ Head(q) = q[1] /\ Head(q) \in S
         /\ Tail(q) \in Seq(S) /\ Len(Tail(q)) = Len(q) - 1
         /\ \A k \in 1 .. Len(Tail(q)) :
              k + 1 \in 1 .. Len(q) /\ Tail(q)[k] = q[k + 1]
  OBVIOUS

\* The item pushed is the last one.
LEMMA AppendFacts ==
  ASSUME NEW S, NEW q \in Seq(S), NEW x \in S
  PROVE  /\ Len(q) \in Nat /\ Len(Append(q, x)) = Len(q) + 1
         /\ Append(q, x)[Len(q) + 1] = x
  OBVIOUS

\* A push that does not fit changes nothing.
LEMMA PushFacts ==
  ASSUME NEW S, NEW q \in Seq(S), NEW x \in S, NEW cap \in Nat, Len(q) <= cap
  PROVE  /\ try_push(q, cap, x) \in Seq(S) /\ Len(try_push(q, cap, x)) <= cap
         /\ Len(q) \in Nat /\ Len(try_push(q, cap, x)) <= Len(q) + 1
         /\ \A i \in 1 .. Len(try_push(q, cap, x)) :
              \/ i \in 1 .. Len(q) /\ try_push(q, cap, x)[i] = q[i]
              \/ i = Len(q) + 1 /\ try_push(q, cap, x)[i] = x
         /\ \A i \in 1 .. Len(q) :
              i \in 1 .. Len(try_push(q, cap, x)) /\ try_push(q, cap, x)[i] = q[i]
  BY DEF try_push, can_push

\* The keys of fills and of books do not collide.
LEMMA KeyFacts ==
  /\ \A j, k : <<"tr", j>> = <<"tr", k>> => j = k
  /\ \A j, k, sym : <<"tr", j>> # <<"ob", sym, k>>
  /\ \A k \in Seqs : <<"tr", k>> \in Keys
  /\ \A sym \in Symbols, k \in 0 .. MaxSnaps : <<"ob", sym, k>> \in Keys
  BY DEF Keys, Seqs
-----------------------------------------------------------------------------
(* Types.                                                                  *)

\* The first process starts with empty rings and an empty database.
LEMMA InitTypes == Init => TypeOK /\ RingInOrder
  <1> SUFFICES ASSUME Init PROVE TypeOK /\ RingInOrder
    OBVIOUS
  <1>1. DOMAIN nothing = {}
    BY DEF nothing
  <1>2. /\ trade_ring = <<>> /\ snap_ring = <<>> /\ txn = nothing /\ db = nothing
        /\ fills = 0 /\ snaps = 0 /\ trade_seq = 0 /\ snap_seq = 0
    BY DEF Init
  <1>3. RingInOrder
    BY <1>2 DEF RingInOrder
  <1>4. running \in BOOLEAN /\ txn_open \in BOOLEAN
    BY DEF Init
  <1>5. /\ trade_ring \in Seq(Fill) /\ Len(trade_ring) <= TradeCap
        /\ snap_ring \in Seq(Snap) /\ Len(snap_ring) <= SnapCap
    BY <1>2, PersisterConstants
  <1>6. DOMAIN txn \subseteq Keys /\ DOMAIN db \subseteq Keys /\ owed \subseteq Fill
    BY <1>1, <1>2 DEF Init
  <1>7. TypeOK
    BY <1>2, <1>4, <1>5, <1>6, PersisterConstants DEF Init, TypeOK
  <1> QED BY <1>3, <1>7

\* The types of the rings and counters by themselves.
LEMMA RingTypes ==
  ASSUME TypeOK, RingInOrder
  PROVE  /\ trade_ring \in Seq(Fill) /\ Len(trade_ring) \in Nat
         /\ Len(trade_ring) <= TradeCap
         /\ \A i \in 1 .. Len(trade_ring) : trade_ring[i] \in Nat
         /\ snap_ring \in Seq(Snap) /\ Len(snap_ring) \in Nat
         /\ Len(snap_ring) <= SnapCap
         /\ fills \in Nat /\ fills <= MaxFills /\ snaps \in Nat /\ snaps <= MaxSnaps
         /\ trade_seq \in Nat /\ snap_seq \in Nat
         /\ trade_seq + Len(trade_ring) <= fills
         /\ snap_seq + Len(snap_ring) <= snaps
  <1>1. trade_ring \in Seq(Fill) /\ snap_ring \in Seq(Snap)
    BY DEF TypeOK
  <1>2. Len(trade_ring) \in Nat /\ Len(snap_ring) \in Nat
    BY <1>1
  <1>3. \A i \in 1 .. Len(trade_ring) : trade_ring[i] \in Fill
    BY <1>1
  <1>4. Fill \subseteq Nat
    BY DEF Fill
  <1>5. Len(trade_ring) <= TradeCap /\ Len(snap_ring) <= SnapCap
    BY DEF TypeOK
  <1>6. /\ fills \in Nat /\ fills <= MaxFills /\ snaps \in Nat /\ snaps <= MaxSnaps
        /\ trade_seq \in Nat /\ snap_seq \in Nat
    <2>1. /\ fills \in 0 .. MaxFills /\ snaps \in 0 .. MaxSnaps
          /\ trade_seq \in 0 .. MaxFills /\ snap_seq \in 0 .. MaxSnaps
      BY DEF TypeOK
    <2> QED BY <2>1, PersisterConstants
  <1>7. trade_seq + Len(trade_ring) <= fills /\ snap_seq + Len(snap_ring) <= snaps
    BY DEF RingInOrder
  <1> QED BY <1>1, <1>2, <1>3, <1>4, <1>5, <1>6, <1>7

\* The strategy's pushes keep types and order.
LEMMA StrategyTypes ==
  ASSUME TypeOK, RingInOrder, Strategy
  PROVE  TypeOK' /\ RingInOrder'
  <1>1. CASE StrategyTest \/ ExecDrained \/ EndOfTurn
    BY <1>1 DEF StrategyTest, ExecDrained, EndOfTurn, TypeOK, RingInOrder, queues,
                persister
  <1>2. CASE PushTrade
    <2> DEFINE n == fills + 1
    <2>1. /\ n \in Fill /\ n \in Nat /\ fills' = n /\ n <= MaxFills /\ fills < n
          /\ trade_ring' = try_push(trade_ring, TradeCap, n)
      BY <1>2, RingTypes, PersisterConstants DEF PushTrade, Fill
    <2> HIDE DEF n
    <2>2. /\ trade_ring' \in Seq(Fill) /\ Len(trade_ring') <= TradeCap
          /\ Len(trade_ring') <= Len(trade_ring) + 1
          /\ \A i \in 1 .. Len(trade_ring') :
               \/ i \in 1 .. Len(trade_ring) /\ trade_ring'[i] = trade_ring[i]
               \/ i = Len(trade_ring) + 1 /\ trade_ring'[i] = n
      <3>1. trade_ring \in Seq(Fill) /\ Len(trade_ring) <= TradeCap /\ TradeCap \in Nat
        BY RingTypes, PersisterConstants
      <3>2. n \in Fill /\ trade_ring' = try_push(trade_ring, TradeCap, n)
        BY <2>1
      <3> QED BY ONLY <3>1, <3>2, PushFacts
    <2>3. owed' \subseteq Fill
      BY <1>2, <2>1 DEF PushTrade, TypeOK
    <2>4. TypeOK'
      BY <1>2, <2>1, <2>2, <2>3 DEF PushTrade, TypeOK, persister
    <2>5. \A i \in 1 .. Len(trade_ring) : trade_ring[i] \in Nat /\ trade_ring[i] <= fills
      BY RingTypes DEF RingInOrder
    <2>6. \A i, j \in 1 .. Len(trade_ring') : i < j => trade_ring'[i] < trade_ring'[j]
      <3> SUFFICES ASSUME NEW i \in 1 .. Len(trade_ring'),
                          NEW j \in 1 .. Len(trade_ring'), i < j
                   PROVE  trade_ring'[i] < trade_ring'[j]
        OBVIOUS
      <3>1. Len(trade_ring) \in Nat /\ Len(trade_ring') \in Nat /\ fills \in Nat
        BY <2>2, RingTypes
      <3>2. i \in 1 .. Len(trade_ring) /\ trade_ring'[i] = trade_ring[i]
        BY <2>2, <3>1
      <3>3. CASE j \in 1 .. Len(trade_ring) /\ trade_ring'[j] = trade_ring[j]
        BY <3>2, <3>3 DEF RingInOrder
      <3>4. CASE trade_ring'[j] = n
        BY <2>1, <2>5, <3>1, <3>2, <3>4
      <3> QED BY <2>2, <3>3, <3>4
    <2>7. \A i \in 1 .. Len(trade_ring') : trade_ring'[i] <= fills'
      <3>1. fills' = n /\ n \in Nat /\ fills \in Nat /\ fills < n
        BY <2>1, RingTypes
      <3> QED BY ONLY <2>2, <2>5, <3>1
    <2>8. /\ trade_seq' + Len(trade_ring') <= fills'
          /\ snap_seq' + Len(snap_ring') <= snaps'
      <3>1. UNCHANGED <<trade_seq, snap_seq, snaps, snap_ring>> /\ fills' = fills + 1
        BY <1>2 DEF PushTrade, persister
      <3>2. Len(trade_ring') \in Nat
        BY <2>2
      <3> QED BY <2>2, <3>1, <3>2, RingTypes
    <2> QED BY <2>4, <2>6, <2>7, <2>8 DEF RingInOrder
  <1>3. ASSUME NEW sym \in Symbols, PushSnapshot(sym)
        PROVE  TypeOK' /\ RingInOrder'
    <2> DEFINE n == snaps + 1
               x == [symbol_id |-> sym, no |-> n]
    <2>1. /\ n \in Nat /\ n >= 1 /\ n <= MaxSnaps /\ snaps' = n
          /\ snap_ring' = try_push(snap_ring, SnapCap, x)
      BY <1>3, RingTypes, PersisterConstants DEF PushSnapshot
    <2>2. x \in Snap
      BY <2>1, PersisterConstants DEF Snap
    <2> HIDE DEF x
    <2>3. /\ snap_ring' \in Seq(Snap) /\ Len(snap_ring') <= SnapCap
          /\ Len(snap_ring') <= Len(snap_ring) + 1
      <3>1. snap_ring \in Seq(Snap) /\ Len(snap_ring) <= SnapCap /\ SnapCap \in Nat
        BY RingTypes, PersisterConstants
      <3>2. snap_ring' = try_push(snap_ring, SnapCap, x)
        BY <2>1
      <3> QED BY ONLY <2>2, <3>1, <3>2, PushFacts
    <2>4. TypeOK'
      BY <1>3, <2>1, <2>3, PersisterConstants DEF PushSnapshot, TypeOK, persister
    <2>5. snap_seq' + Len(snap_ring') <= snaps'
      <3>1. Len(snap_ring') \in Nat /\ snap_seq' = snap_seq
        BY <1>3, <2>3 DEF PushSnapshot, persister
      <3> QED BY <2>1, <2>3, <3>1, RingTypes
    <2> QED BY <1>3, <2>4, <2>5 DEF PushSnapshot, RingInOrder, persister
  <1> QED BY <1>1, <1>2, <1>3 DEF Strategy

\* The LMDB thread keeps types and order.
LEMMA PersisterTypes ==
  ASSUME TypeOK, RingInOrder, Persister
  PROVE  TypeOK' /\ RingInOrder'
  <1>0. UNCHANGED <<running, strat, fills, snaps, owed, restarts>>
    BY DEF Persister, strategy
  <1>1. CASE TestRunning \/ TestSnaps \/ TestTrades \/ SnapsDrained \/ TradesDrained
    BY <1>0, <1>1 DEF TestRunning, TestSnaps, TestTrades, SnapsDrained, TradesDrained,
                      TypeOK, RingInOrder, queues
  <1>2. CASE PopSnap
    <2>1. /\ snap_ring' \in Seq(Snap) /\ Len(snap_ring) >= 1
          /\ Len(snap_ring') = Len(snap_ring) - 1
          /\ Head(snap_ring) \in Snap
      BY <1>2, RingTypes, TailFacts DEF PopSnap
    <2>2. /\ UNCHANGED <<db, trade_ring, trade_seq>>
          /\ DOMAIN txn' \subseteq Keys /\ txn_open' \in BOOLEAN
          /\ pc' \in {"snaps", "trades"} /\ faults' \in 0 .. MaxFaults
          /\ snap_seq' \in {snap_seq, snap_seq + 1}
      <3>1. CASE BeginFails("trades")
        BY <1>2, <3>1, PersisterConstants DEF PopSnap, BeginFails, TypeOK
      <3>2. CASE /\ txn_open' = TRUE
                 /\ put(<<"ob", Head(snap_ring).symbol_id, snap_seq>>,
                        Head(snap_ring).no)
                 /\ snap_seq' = snap_seq + 1
                 /\ UNCHANGED <<pc, trade_seq, faults>>
        <4>1. Head(snap_ring).symbol_id \in Symbols /\ snap_seq \in 0 .. MaxSnaps
          BY <2>1 DEF Snap, TypeOK
        <4>2. <<"ob", Head(snap_ring).symbol_id, snap_seq>> \in Keys
          BY <4>1, KeyFacts
        <4>3. DOMAIN txn' \subseteq Keys
          BY <3>2, <4>2 DEF put, TypeOK
        <4> QED BY <1>2, <3>2, <4>3 DEF PopSnap, TypeOK
      <3> QED BY <1>2, <3>1, <3>2 DEF PopSnap
    <2>3. snap_seq' \in Nat /\ snap_seq' + Len(snap_ring') <= snaps
      BY <2>1, <2>2, RingTypes
    <2>4. RingInOrder'
      BY <1>0, <2>2, <2>3 DEF RingInOrder
    <2>5. snap_seq' <= MaxSnaps /\ Len(snap_ring') <= SnapCap
      <3>1. /\ Len(snap_ring) \in Nat /\ Len(snap_ring) <= SnapCap
            /\ snaps \in Nat /\ snaps <= MaxSnaps
        BY RingTypes
      <3>2. Len(snap_ring') \in Nat
        BY <2>1, <3>1
      <3>3. snap_seq' <= MaxSnaps
        BY <2>3, <3>1, <3>2, PersisterConstants
      <3> QED BY <2>1, <3>1, <3>3, PersisterConstants
    <2>6. TypeOK'
      BY <1>0, <2>1, <2>2, <2>3, <2>5, PersisterConstants DEF TypeOK
    <2> QED BY <2>4, <2>6
  <1>3. CASE PopTrade
    <2>1. /\ trade_ring' \in Seq(Fill) /\ Len(trade_ring) >= 1
          /\ Len(trade_ring') = Len(trade_ring) - 1
          /\ \A k \in 1 .. Len(trade_ring') :
               k + 1 \in 1 .. Len(trade_ring) /\ trade_ring'[k] = trade_ring[k + 1]
      BY <1>3, RingTypes, TailFacts DEF PopTrade
    <2>2. /\ UNCHANGED <<db, snap_ring, snap_seq>>
          /\ DOMAIN txn' \subseteq Keys /\ txn_open' \in BOOLEAN
          /\ pc' \in {"trades", "commit"} /\ faults' \in 0 .. MaxFaults
          /\ trade_seq' \in {trade_seq, trade_seq + 1}
      <3>1. CASE BeginFails("commit")
        BY <1>3, <3>1, PersisterConstants DEF PopTrade, BeginFails, TypeOK
      <3>2. CASE /\ txn_open' = TRUE
                 /\ put(<<"tr", trade_seq>>, Head(trade_ring))
                 /\ trade_seq' = trade_seq + 1
                 /\ UNCHANGED <<pc, snap_seq, faults>>
        <4>1. <<"tr", trade_seq>> \in Keys
          BY KeyFacts DEF TypeOK, Seqs
        <4>2. DOMAIN txn' \subseteq Keys
          BY <3>2, <4>1 DEF put, TypeOK
        <4> QED BY <1>3, <3>2, <4>2 DEF PopTrade, TypeOK
      <3> QED BY <1>3, <3>1, <3>2 DEF PopTrade
    <2>3. trade_seq' \in Nat /\ trade_seq' + Len(trade_ring') <= fills
      BY <2>1, <2>2, RingTypes
    <2>4. \A i, j \in 1 .. Len(trade_ring') : i < j => trade_ring'[i] < trade_ring'[j]
      <3> SUFFICES ASSUME NEW i \in 1 .. Len(trade_ring'),
                          NEW j \in 1 .. Len(trade_ring'), i < j
                   PROVE  trade_ring'[i] < trade_ring'[j]
        OBVIOUS
      <3>1. i + 1 < j + 1
        BY <2>1, RingTypes
      <3> QED BY <2>1, <3>1 DEF RingInOrder
    <2>5. \A i \in 1 .. Len(trade_ring') : trade_ring'[i] <= fills
      BY <2>1 DEF RingInOrder
    <2>6. RingInOrder'
      BY <1>0, <2>2, <2>3, <2>4, <2>5 DEF RingInOrder
    <2>7. trade_seq' <= MaxFills /\ Len(trade_ring') <= TradeCap
      <3>1. Len(trade_ring') \in Nat /\ Len(trade_ring') <= Len(trade_ring)
        BY <2>1, RingTypes
      <3> QED BY <2>3, <3>1, RingTypes, PersisterConstants
    <2>8. TypeOK'
      BY <1>0, <2>1, <2>2, <2>3, <2>7, PersisterConstants DEF TypeOK
    <2> QED BY <2>6, <2>8
  <1>4. CASE Commit
    <2>1. /\ UNCHANGED <<snap_seq, trade_seq, snap_ring, trade_ring>>
          /\ txn_open' = FALSE /\ pc' = "test" /\ faults' \in 0 .. MaxFaults
      BY <1>4, PersisterConstants DEF Commit, queues, TypeOK
    <2>2. DOMAIN db' \subseteq Keys /\ DOMAIN txn' \subseteq Keys
      BY <1>4 DEF Commit, with_txn, nothing, TypeOK
    <2>3. TypeOK'
      BY <1>0, <2>1, <2>2 DEF TypeOK
    <2> QED BY <1>0, <2>1, <2>3 DEF RingInOrder
  <1> QED BY <1>1, <1>2, <1>3, <1>4 DEF Persister, PersisterStep

\* Every step of a process, and the start of the next one.
LEMMA NextTypes ==
  ASSUME TypeOK, RingInOrder, [Next \/ Restart]_vars
  PROVE  TypeOK' /\ RingInOrder'
  <1>1. CASE Stop
    BY <1>1 DEF Stop, TypeOK, RingInOrder, strategy, queues, persister
  <1>2. CASE Restart
    <2>1. DOMAIN txn' = {}
      BY <1>2 DEF Restart, nothing
    <2>4. /\ trade_ring' \in Seq(Fill) /\ Len(trade_ring') <= TradeCap
          /\ snap_ring' \in Seq(Snap) /\ Len(snap_ring') <= SnapCap
      BY <1>2, PersisterConstants DEF Restart
    <2>5. running' \in BOOLEAN /\ txn_open' \in BOOLEAN
      BY <1>2 DEF Restart
    <2>6. DOMAIN txn' \subseteq Keys /\ DOMAIN db' \subseteq Keys /\ owed' \subseteq Fill
      BY <1>2, <2>1 DEF Restart, TypeOK
    <2>2. TypeOK'
      BY <1>2, <2>4, <2>5, <2>6, PersisterConstants DEF Restart, TypeOK
    <2>3. RingInOrder'
      BY <1>2, RingTypes DEF Restart, RingInOrder
    <2> QED BY <2>2, <2>3
  <1>3. CASE UNCHANGED vars
    BY <1>3 DEF vars, TypeOK, RingInOrder, strategy, queues, persister
  <1> QED BY <1>1, <1>2, <1>3, StrategyTypes, PersisterTypes DEF Next

\* The rings stay within their capacities and the sequence numbers within
\* what has been popped, in one process and over restarts.
THEOREM PersisterTypeCorrect ==
  /\ Spec => []TypeOK
  /\ RestartSpec => []TypeOK
  <1> DEFINE Inv == TypeOK /\ RingInOrder
  <1>1. Inv /\ [Next \/ Restart]_vars => Inv'
    BY NextTypes
  <1>2. Init => Inv
    BY InitTypes
  <1>3. Inv => TypeOK
    OBVIOUS
  <1> HIDE DEF Inv
  <1>4. [Next]_vars => [Next \/ Restart]_vars
    OBVIOUS
  <1>5. Spec => []TypeOK
    BY <1>1, <1>2, <1>3, <1>4, PTL DEF Spec
  <1>6. RestartSpec => []TypeOK
    BY <1>1, <1>2, <1>3, PTL DEF RestartSpec
  <1> QED BY <1>5, <1>6
-----------------------------------------------------------------------------
(* The drain at shutdown.                                                  *)

\* A put changes one key of what a commit would leave.
LEMMA PutFacts ==
  ASSUME NEW key, NEW v, put(key, v), UNCHANGED db
  PROVE  /\ DOMAIN with_txn' = DOMAIN with_txn \cup {key}
         /\ with_txn'[key] = v
         /\ \A k \in DOMAIN with_txn : k # key => with_txn'[k] = with_txn[k]
  BY DEF put, with_txn

\* A commit that succeeds leaves just that.
LEMMA CommitFacts ==
  ASSUME db' = with_txn, txn' = nothing
  PROVE  with_txn' = with_txn
  BY DEF with_txn, nothing

\* Without a transaction there is nothing but the database.
LEMMA NoTxnFacts ==
  ASSUME txn = nothing
  PROVE  /\ DOMAIN with_txn = DOMAIN db
         /\ \A k \in DOMAIN db : with_txn[k] = db[k]
  BY DEF with_txn, nothing

\* The fills of the database, by the keys that are there.
LEMMA StoredFacts ==
  ASSUME NEW k \in Seqs, <<"tr", k>> \in DOMAIN db
  PROVE  db[<<"tr", k>>] \in StoredFills
  BY DEF StoredFills, trades, Seqs

\* Which steps leave the loop's own variables alone.
LEMMA StrategyFrame ==
  ASSUME Strategy
  PROVE  /\ UNCHANGED <<running, pc, txn_open, txn, snap_seq, trade_seq, db, faults>>
         /\ PushTrade \/ UNCHANGED <<fills, owed, trade_ring>>
  BY DEF Strategy, StrategyTest, PushTrade, ExecDrained, PushSnapshot, EndOfTurn,
         queues, persister

\* The loop of run() keeps to its order, failed calls included.
LEMMA LoopStep ==
  ASSUME TypeOK, LoopInv, [Next \/ Restart]_vars
  PROVE  LoopInv'
  <1>1. CASE Strategy
    BY <1>1, StrategyFrame DEF LoopInv, nothing
  <1>2. CASE Persister
    <2>0. running' = running
      BY <1>2 DEF Persister
    <2>1. CASE TestRunning \/ TestSnaps \/ TestTrades \/ SnapsDrained \/ TradesDrained
      BY <2>0, <2>1 DEF LoopInv, TestRunning, TestSnaps, TestTrades, SnapsDrained,
                        TradesDrained, nothing
    <2>2. CASE PopSnap
      BY <2>0, <2>2 DEF LoopInv, PopSnap, BeginFails, nothing
    <2>3. CASE PopTrade
      BY <2>0, <2>3 DEF LoopInv, PopTrade, BeginFails, nothing
    <2>4. CASE Commit
      BY <2>0, <2>4 DEF LoopInv, Commit, nothing
    <2> QED BY <1>2, <2>1, <2>2, <2>3, <2>4 DEF Persister, PersisterStep
  <1>3. CASE Stop
    BY <1>3 DEF Stop, LoopInv, persister, nothing
  <1>4. CASE Restart
    BY <1>4 DEF Restart, LoopInv, nothing
  <1>5. CASE UNCHANGED vars
    BY <1>5 DEF vars, persister, LoopInv, nothing
  <1> QED BY <1>1, <1>2, <1>3, <1>4, <1>5 DEF Next

\* A fill is accounted for until an LMDB call fails.
LEMMA AccountedStep ==
  ASSUME TypeOK, RingInOrder, Accounted, [Next \/ Restart]_vars,
         faults = 0, faults' = 0
  PROVE  Accounted'
  <1>1. CASE UNCHANGED <<owed, trade_ring, trade_seq, db, txn>>
    BY <1>1 DEF Accounted, with_txn
  <1>2. CASE PushTrade
    <2> DEFINE n == fills + 1
    <2>1. n \in Fill /\ trade_ring' = try_push(trade_ring, TradeCap, n)
      BY <1>2, RingTypes, PersisterConstants DEF PushTrade, Fill
    <2>2. owed' = owed \/ (owed' = owed \cup {n} /\ can_push(trade_ring, TradeCap))
      BY <1>2 DEF PushTrade
    <2>3. UNCHANGED <<trade_seq, with_txn>>
      BY <1>2 DEF PushTrade, persister, with_txn
    <2> HIDE DEF n
    <2>4. \A i \in 1 .. Len(trade_ring) :
            i \in 1 .. Len(trade_ring') /\ trade_ring'[i] = trade_ring[i]
      BY <2>1, PushFacts, RingTypes, PersisterConstants
    <2>5. ASSUME can_push(trade_ring, TradeCap)
          PROVE  \E i \in 1 .. Len(trade_ring') : trade_ring'[i] = n
      <3>1. trade_ring' = Append(trade_ring, n) /\ trade_ring \in Seq(Fill)
        BY <2>1, <2>5, RingTypes DEF try_push
      <3>2. n \in Fill
        BY <2>1
      <3>3. /\ Len(trade_ring) \in Nat
            /\ Len(Append(trade_ring, n)) = Len(trade_ring) + 1
            /\ Append(trade_ring, n)[Len(trade_ring) + 1] = n
        BY <3>1, <3>2, AppendFacts
      <3>4. /\ Len(trade_ring) + 1 \in 1 .. Len(trade_ring')
            /\ trade_ring'[Len(trade_ring) + 1] = n
        BY <3>1, <3>3
      <3> QED BY <3>4
    <2> SUFFICES ASSUME NEW x \in owed'
                 PROVE  \/ \E i \in 1 .. Len(trade_ring') : trade_ring'[i] = x
                        \/ \E k \in Seqs : /\ k < trade_seq'
                                           /\ <<"tr", k>> \in DOMAIN with_txn'
                                           /\ with_txn'[<<"tr", k>>] = x
      BY DEF Accounted
    <2>6. CASE x \in owed
      BY <2>3, <2>4, <2>6 DEF Accounted
    <2> QED BY <2>2, <2>5, <2>6
  <1>3. CASE PopTrade /\ Persister
    <2>1. /\ put(<<"tr", trade_seq>>, Head(trade_ring)) /\ trade_seq' = trade_seq + 1
          /\ UNCHANGED <<db, owed>>
      BY <1>3 DEF PopTrade, BeginFails, Persister, strategy
    <2>2. /\ trade_ring # <<>> /\ trade_ring' = Tail(trade_ring)
      BY <1>3 DEF PopTrade
    <2>3. /\ Head(trade_ring) = trade_ring[1] /\ Len(trade_ring) \in Nat
          /\ Len(trade_ring') = Len(trade_ring) - 1
          /\ \A k \in 1 .. Len(trade_ring') : trade_ring'[k] = trade_ring[k + 1]
      BY <2>2, TailFacts, RingTypes
    <2>4. /\ DOMAIN with_txn' = DOMAIN with_txn \cup {<<"tr", trade_seq>>}
          /\ with_txn'[<<"tr", trade_seq>>] = Head(trade_ring)
          /\ \A k \in DOMAIN with_txn :
               k # <<"tr", trade_seq>> => with_txn'[k] = with_txn[k]
      BY <2>1, PutFacts
    <2>5. trade_seq \in Seqs /\ trade_seq \in Nat
      BY RingTypes DEF TypeOK, Seqs
    <2> SUFFICES ASSUME NEW x \in owed
                 PROVE  \/ \E i \in 1 .. Len(trade_ring') : trade_ring'[i] = x
                        \/ \E k \in Seqs : /\ k < trade_seq'
                                           /\ <<"tr", k>> \in DOMAIN with_txn'
                                           /\ with_txn'[<<"tr", k>>] = x
      BY <2>1 DEF Accounted
    <2>6. CASE \E i \in 1 .. Len(trade_ring) : trade_ring[i] = x
      <3>1. PICK i \in 1 .. Len(trade_ring) : trade_ring[i] = x
        BY <2>6
      <3>2. CASE i = 1
        <4>1. /\ trade_seq < trade_seq' /\ <<"tr", trade_seq>> \in DOMAIN with_txn'
              /\ with_txn'[<<"tr", trade_seq>>] = x
          BY <2>1, <2>3, <2>4, <2>5, <3>1, <3>2
        <4> QED BY <4>1, <2>5
      <3>3. CASE i # 1
        <4>1. i - 1 \in 1 .. Len(trade_ring') /\ (i - 1) + 1 = i
          BY <2>3, <3>3
        <4>2. trade_ring'[i - 1] = x
          BY <2>3, <3>1, <4>1
        <4> QED BY <4>1, <4>2
      <3> QED BY <3>2, <3>3
    <2>7. CASE \E k \in Seqs : /\ k < trade_seq /\ <<"tr", k>> \in DOMAIN with_txn
                               /\ with_txn[<<"tr", k>>] = x
      <3>1. PICK k \in Seqs : /\ k < trade_seq /\ <<"tr", k>> \in DOMAIN with_txn
                              /\ with_txn[<<"tr", k>>] = x
        BY <2>7
      <3>2. k < trade_seq' /\ k # trade_seq
        BY <2>1, <2>5, <3>1, PersisterConstants DEF Seqs
      <3>3. <<"tr", k>> \in DOMAIN with_txn' /\ with_txn'[<<"tr", k>>] = x
        BY <2>4, <3>1, <3>2, KeyFacts
      <3> QED BY <3>2, <3>3
    <2> QED BY <2>6, <2>7 DEF Accounted
  <1>4. CASE PopSnap /\ Persister
    <2>1. /\ put(<<"ob", Head(snap_ring).symbol_id, snap_seq>>, Head(snap_ring).no)
          /\ UNCHANGED <<db, owed, trade_ring, trade_seq>>
      BY <1>4 DEF PopSnap, BeginFails, Persister, strategy
    <2> DEFINE key == <<"ob", Head(snap_ring).symbol_id, snap_seq>>
               v == Head(snap_ring).no
    <2>3. \A k : <<"tr", k>> # key
      BY KeyFacts
    <2> HIDE DEF key, v
    <2>4. put(key, v) /\ UNCHANGED db
      BY <2>1 DEF key, v
    <2>2. \A k \in Seqs : <<"tr", k>> \in DOMAIN with_txn =>
            /\ <<"tr", k>> \in DOMAIN with_txn'
            /\ with_txn'[<<"tr", k>>] = with_txn[<<"tr", k>>]
      <3>1. /\ DOMAIN with_txn' = DOMAIN with_txn \cup {key}
            /\ \A k \in DOMAIN with_txn : k # key => with_txn'[k] = with_txn[k]
        BY <2>4, PutFacts
      <3> QED BY <2>3, <3>1
    <2> QED BY <2>1, <2>2 DEF Accounted
  <1>5. CASE Commit /\ Persister
    <2>1. db' = with_txn /\ txn' = nothing /\ UNCHANGED <<trade_seq, trade_ring, owed>>
      BY <1>5 DEF Commit, Persister, queues, strategy
    <2> QED BY <2>1, CommitFacts DEF Accounted
  <1>6. CASE Restart
    BY <1>6 DEF Restart, Accounted
  <1>7. CASE Persister /\ ~PopTrade /\ ~PopSnap /\ ~Commit
    <2>1. UNCHANGED <<owed, trade_ring, trade_seq, db, txn>>
      BY <1>7 DEF Persister, PersisterStep, TestRunning, TestSnaps, TestTrades,
                  SnapsDrained, TradesDrained, queues, strategy
    <2> QED BY <1>1, <2>1
  <1>8. CASE Strategy /\ ~PushTrade
    BY <1>1, <1>8, StrategyFrame
  <1>9. CASE Stop \/ UNCHANGED vars
    BY <1>1, <1>9 DEF Stop, vars, strategy, queues, persister
  <1> QED BY <1>2, <1>3, <1>4, <1>5, <1>6, <1>7, <1>8, <1>9 DEF Next

\* After the loop nothing owed is outside the database.
LEMMA DrainStep ==
  ASSUME TypeOK, RingInOrder, LoopInv, OwedInv, DrainedAtExit, [Next \/ Restart]_vars
  PROVE  OwedInv' /\ DrainedAtExit'
  <1> SUFFICES ASSUME faults' = 0
               PROVE  Accounted' /\ (pc' = "done" => owed' \subseteq StoredFills')
    BY DEF OwedInv, DrainedAtExit
  <1>1. faults = 0
    <2>1. \/ faults' = faults
          \/ faults' = faults + 1
      BY StrategyFrame DEF Next, Persister, PersisterStep, TestRunning, TestSnaps,
           TestTrades, PopSnap, SnapsDrained, PopTrade, TradesDrained, Commit,
           BeginFails, Stop, Restart, vars, persister
    <2>2. faults \in Nat
      BY PersisterConstants DEF TypeOK
    <2> QED BY <2>1, <2>2
  <1>2. Accounted
    BY <1>1 DEF OwedInv
  <1>3. Accounted'
    BY <1>1, <1>2, AccountedStep
  <1>4. ASSUME pc' = "done" PROVE owed' \subseteq StoredFills'
    <2>1. CASE pc = "done"
      <3>1. ~running
        BY <2>1 DEF LoopInv
      <3>2. UNCHANGED <<db, owed>>
        <4>1. CASE Strategy
          <5>1. PushTrade => owed' = owed
            BY <3>1 DEF PushTrade
          <5> QED BY <4>1, <5>1, StrategyFrame
        <4>2. CASE Persister
          BY <2>1, <4>2 DEF Persister, PersisterStep, TestRunning, TestSnaps, TestTrades,
                  PopSnap, SnapsDrained, PopTrade, TradesDrained, Commit
        <4>3. CASE Restart
          BY <1>4, <4>3 DEF Restart
        <4>4. CASE Stop \/ UNCHANGED vars
          BY <4>4 DEF Stop, vars, strategy, persister
        <4> QED BY <4>1, <4>2, <4>3, <4>4 DEF Next
      <3>3. StoredFills' = StoredFills
        BY <3>2 DEF StoredFills, trades
      <3> QED BY <1>1, <2>1, <3>2, <3>3 DEF DrainedAtExit
    <2>2. CASE pc # "done"
      <3>1. TestTrades /\ Persister
        BY <1>4, <2>2, StrategyFrame DEF Next, Persister, PersisterStep, TestRunning,
             TestSnaps, TestTrades, PopSnap, SnapsDrained, PopTrade, TradesDrained, Commit,
             BeginFails, Stop, Restart, vars, persister
      <3>2. pc = "trade_size" /\ trade_ring = <<>> /\ UNCHANGED <<db, owed>>
        BY <1>4, <3>1 DEF TestTrades, Persister, strategy
      <3>3. txn = nothing
        BY <3>2 DEF LoopInv
      <3>4. StoredFills' = StoredFills
        BY <3>2 DEF StoredFills, trades
      <3>5. ASSUME NEW x \in owed PROVE x \in StoredFills
        <4>1. PICK k \in Seqs : /\ k < trade_seq /\ <<"tr", k>> \in DOMAIN with_txn
                                /\ with_txn[<<"tr", k>>] = x
          <5>1. ~\E i \in 1 .. Len(trade_ring) : trade_ring[i] = x
            BY <3>2
          <5> QED BY <1>2, <3>5, <5>1 DEF Accounted
        <4> QED BY <3>3, <4>1, NoTxnFacts, StoredFacts
      <3> QED BY <3>2, <3>4, <3>5
    <2> QED BY <2>1, <2>2
  <1> QED BY <1>3, <1>4

\* DrainedAtExit: when the LMDB thread has left its loop, every fill that was
\* in the ring when the shutdown began is in the database, unless an LMDB
\* call failed (the loop condition, lmdb_persister.hpp:49-50); over restarts
\* as well.
THEOREM ShutdownDrains ==
  /\ Spec => [](OwedInv /\ DrainedAtExit)
  /\ RestartSpec => [](OwedInv /\ DrainedAtExit)
  <1> DEFINE Inv == TypeOK /\ RingInOrder /\ LoopInv /\ OwedInv /\ DrainedAtExit
  <1>1. Inv /\ [Next \/ Restart]_vars => Inv'
    BY NextTypes, LoopStep, DrainStep
  <1>2. Init => Inv
    <2> SUFFICES ASSUME Init PROVE Inv
      OBVIOUS
    <2>1. LoopInv
      BY DEF Init, LoopInv
    <2>2. OwedInv /\ DrainedAtExit
      BY DEF Init, OwedInv, DrainedAtExit, Accounted
    <2> QED BY <2>1, <2>2, InitTypes
  <1>3. Inv => OwedInv /\ DrainedAtExit
    OBVIOUS
  <1> HIDE DEF Inv
  <1>4. [Next]_vars => [Next \/ Restart]_vars
    OBVIOUS
  <1>5. Spec => [](OwedInv /\ DrainedAtExit)
    BY <1>1, <1>2, <1>3, <1>4, PTL DEF Spec
  <1>6. RestartSpec => [](OwedInv /\ DrainedAtExit)
    BY <1>1, <1>2, <1>3, PTL DEF RestartSpec
  <1> QED BY <1>5, <1>6
-----------------------------------------------------------------------------
(* The history of one process.                                             *)

\* Keys of the database and of the transaction are those of with_txn, and a
\* committed fill is not written again.
LEMMA CommittedFacts ==
  ASSUME KeysInOrder, NEW k \in Seqs
  PROVE  /\ <<"tr", k>> \in DOMAIN db => /\ <<"tr", k>> \in DOMAIN with_txn
                                         /\ with_txn[<<"tr", k>>] = db[<<"tr", k>>]
         /\ <<"tr", k>> \in DOMAIN with_txn =>
              <<"tr", k>> \in DOMAIN db \/ <<"tr", k>> \in DOMAIN txn
  <1>1. <<"tr", k>> \in DOMAIN db => <<"tr", k>> \notin DOMAIN txn
    <2>1. k \in Nat
      BY PersisterConstants DEF Seqs
    <2> QED BY <2>1 DEF KeysInOrder
  <1> QED BY <1>1 DEF with_txn

\* What a pop of the snapshot ring leaves alone.
LEMMA PopSnapFrame ==
  ASSUME PopSnap
  PROVE  /\ UNCHANGED <<db, trade_ring, trade_seq>>
         /\ \A k : <<"tr", k>> \in DOMAIN txn' <=> <<"tr", k>> \in DOMAIN txn
         /\ \A k : /\ <<"tr", k>> \in DOMAIN with_txn' <=> <<"tr", k>> \in DOMAIN with_txn
                   /\ <<"tr", k>> \in DOMAIN with_txn =>
                        with_txn'[<<"tr", k>>] = with_txn[<<"tr", k>>]
  <1> DEFINE key == <<"ob", Head(snap_ring).symbol_id, snap_seq>>
             v == Head(snap_ring).no
  <1>1. UNCHANGED <<db, trade_ring, trade_seq>>
    BY DEF PopSnap, BeginFails
  <1>2. UNCHANGED txn \/ put(key, v)
    BY DEF PopSnap, BeginFails
  <1>3. \A k : <<"tr", k>> # key
    BY KeyFacts
  <1> HIDE DEF key, v
  <1>4. CASE UNCHANGED txn
    BY <1>1, <1>4 DEF with_txn
  <1>5. CASE put(key, v)
    <2>1. /\ DOMAIN with_txn' = DOMAIN with_txn \cup {key}
          /\ \A k \in DOMAIN with_txn : k # key => with_txn'[k] = with_txn[k]
      BY <1>1, <1>5, PutFacts
    <2>2. DOMAIN txn' = DOMAIN txn \cup {key}
      BY <1>5 DEF put
    <2> QED BY <1>1, <1>3, <2>1, <2>2
  <1> QED BY <1>2, <1>4, <1>5

\* What a pop of the trade ring does: the fill is lost, or put last.
LEMMA PopTradeFacts ==
  ASSUME TypeOK, RingInOrder, PopTrade
  PROVE  /\ UNCHANGED db
         /\ Len(trade_ring) \in Nat /\ 1 \in 1 .. Len(trade_ring)
         /\ Len(trade_ring') \in Nat
         /\ \A i \in 1 .. Len(trade_ring') :
              i + 1 \in 1 .. Len(trade_ring) /\ trade_ring'[i] = trade_ring[i + 1]
         /\ \/ UNCHANGED <<txn, trade_seq>>
            \/ /\ trade_seq' = trade_seq + 1
               /\ DOMAIN txn' = DOMAIN txn \cup {<<"tr", trade_seq>>}
               /\ DOMAIN with_txn' = DOMAIN with_txn \cup {<<"tr", trade_seq>>}
               /\ with_txn'[<<"tr", trade_seq>>] = trade_ring[1]
               /\ \A k \in DOMAIN with_txn :
                    k # <<"tr", trade_seq>> => with_txn'[k] = with_txn[k]
  <1> DEFINE key == <<"tr", trade_seq>>
             v == Head(trade_ring)
  <1>1. /\ UNCHANGED db /\ trade_ring # <<>> /\ trade_ring' = Tail(trade_ring)
        /\ UNCHANGED <<txn, trade_seq>> \/ (put(key, v) /\ trade_seq' = trade_seq + 1)
    BY DEF PopTrade, BeginFails
  <1>2. /\ Len(trade_ring) \in Nat /\ 1 \in 1 .. Len(trade_ring) /\ v = trade_ring[1]
        /\ trade_ring' \in Seq(Fill)
        /\ \A i \in 1 .. Len(trade_ring') :
             i + 1 \in 1 .. Len(trade_ring) /\ trade_ring'[i] = trade_ring[i + 1]
    BY <1>1, TailFacts, RingTypes
  <1>3. Len(trade_ring') \in Nat
    BY <1>2
  <1> HIDE DEF key, v
  <1>4. CASE put(key, v) /\ trade_seq' = trade_seq + 1
    <2>1. /\ DOMAIN with_txn' = DOMAIN with_txn \cup {key}
          /\ with_txn'[key] = v
          /\ \A k \in DOMAIN with_txn : k # key => with_txn'[k] = with_txn[k]
      BY <1>1, <1>4, PutFacts
    <2>2. DOMAIN txn' = DOMAIN txn \cup {key}
      BY <1>4 DEF put
    <2> QED BY <1>1, <1>2, <1>3, <1>4, <2>1, <2>2 DEF key
  <1> QED BY <1>1, <1>2, <1>3, <1>4

\* The steps that touch the ring of trades, the transaction or the database.
LEMMA HistoryCases ==
  ASSUME [Next]_vars
  PROVE  \/ UNCHANGED <<fills, trade_ring, trade_seq, db, txn>>
         \/ PushTrade /\ UNCHANGED <<trade_seq, db, txn>>
         \/ UNCHANGED fills /\ (PopSnap \/ PopTrade \/ Commit)
  <1>1. CASE Strategy
    BY <1>1, StrategyFrame
  <1>2. CASE Persister
    BY <1>2 DEF Persister, PersisterStep, TestRunning, TestSnaps, TestTrades,
                SnapsDrained, TradesDrained, strategy, queues
  <1>3. CASE Stop \/ UNCHANGED vars
    BY <1>3 DEF Stop, vars, strategy, queues, persister
  <1> QED BY <1>1, <1>2, <1>3 DEF Next

\* A commit leaves no transaction, and of with_txn all or the database.
LEMMA CommitCases ==
  ASSUME Commit
  PROVE  /\ UNCHANGED <<trade_seq, trade_ring>> /\ txn' = nothing /\ DOMAIN txn' = {}
         /\ \/ db' = with_txn /\ with_txn' = with_txn
            \/ /\ UNCHANGED db
               /\ DOMAIN with_txn' = DOMAIN db
               /\ \A k \in DOMAIN db : with_txn'[k] = db[k]
  <1>1. UNCHANGED <<trade_seq, trade_ring>> /\ txn' = nothing /\ DOMAIN txn' = {}
    BY DEF Commit, queues, nothing
  <1>2. db' = with_txn \/ db' = db
    BY DEF Commit
  <1>3. CASE db' = with_txn
    BY <1>1, <1>3, CommitFacts
  <1>4. CASE db' = db
    BY <1>1, <1>4 DEF with_txn
  <1> QED BY <1>1, <1>2, <1>3, <1>4

\* What is stored stays ahead of what is in the ring.
LEMMA StoredStep ==
  ASSUME TypeOK, RingInOrder, StoredBeforeRing, KeysInOrder, [Next]_vars
  PROVE  StoredBeforeRing'
  <1> DEFINE In(k) == <<"tr", k>> \in DOMAIN with_txn
             At(k) == with_txn[<<"tr", k>>]
  <1>0. /\ Len(trade_ring) \in Nat /\ fills \in Nat /\ trade_seq \in Nat
        /\ \A i \in 1 .. Len(trade_ring) :
             trade_ring[i] \in Nat /\ trade_ring[i] <= fills /\ trade_ring[i] >= 1
    <2>1. trade_ring \in Seq(Fill) /\ Len(trade_ring) \in Nat
      BY RingTypes
    <2>2. \A i \in 1 .. Len(trade_ring) : trade_ring[i] \in Fill
      BY <2>1
    <2>3. \A i \in 1 .. Len(trade_ring) : trade_ring[i] >= 1
      BY <2>2 DEF Fill
    <2> QED BY <2>3, RingTypes DEF RingInOrder
  <1>1. \A k \in Seqs : In(k) =>
          /\ k \in Nat /\ k < trade_seq /\ At(k) \in Nat /\ At(k) >= 1 /\ At(k) <= fills
          /\ \A i \in 1 .. Len(trade_ring) : At(k) < trade_ring[i]
    <2>1. \A k \in Seqs : k \in Nat
      BY PersisterConstants DEF Seqs
    <2>2. \A k \in Seqs : In(k) =>
          /\ k < trade_seq /\ At(k) \in 1 .. fills
          /\ \A i \in 1 .. Len(trade_ring) : At(k) < trade_ring[i]
      BY DEF StoredBeforeRing
    <2>3. \A v \in 1 .. fills : v \in Nat /\ v >= 1 /\ v <= fills
      BY <1>0
    <2> HIDE DEF In, At
    <2> QED BY <2>1, <2>2, <2>3
  <1>2. CASE UNCHANGED <<fills, trade_ring, trade_seq, db, txn>>
    BY <1>2 DEF StoredBeforeRing, with_txn
  <1>3. CASE PushTrade /\ UNCHANGED <<trade_seq, db, txn>>
    <2>1. fills' = fills + 1 /\ fills + 1 \in Fill /\ fills < MaxFills
          /\ trade_ring' = try_push(trade_ring, TradeCap, fills + 1)
      BY <1>0, <1>3, PersisterConstants DEF PushTrade, Fill
    <2>2. with_txn' = with_txn /\ trade_seq' = trade_seq
      BY <1>3 DEF with_txn
    <2>3. \A i \in 1 .. Len(trade_ring') :
            \/ i \in 1 .. Len(trade_ring) /\ trade_ring'[i] = trade_ring[i]
            \/ trade_ring'[i] = fills + 1
      <3>1. /\ trade_ring \in Seq(Fill) /\ Len(trade_ring) <= TradeCap
            /\ TradeCap \in Nat
        BY RingTypes, PersisterConstants
      <3> HIDE DEF In, At
      <3>2. \A i \in 1 .. Len(try_push(trade_ring, TradeCap, fills + 1)) :
              \/ /\ i \in 1 .. Len(trade_ring)
                 /\ try_push(trade_ring, TradeCap, fills + 1)[i] = trade_ring[i]
              \/ try_push(trade_ring, TradeCap, fills + 1)[i] = fills + 1
        BY <2>1, <3>1, PushFacts
      <3> QED BY <2>1, <3>2
    <2> SUFFICES ASSUME NEW k \in Seqs, In(k)
                 PROVE  /\ k < trade_seq' /\ At(k) \in 1 .. fills'
                        /\ \A i \in 1 .. Len(trade_ring') : At(k) < trade_ring'[i]
      BY <2>2 DEF StoredBeforeRing
    <2>4. k < trade_seq' /\ At(k) \in 1 .. fills'
      BY <1>0, <1>1, <2>1, <2>2
    <2>5. ASSUME NEW i \in 1 .. Len(trade_ring') PROVE At(k) < trade_ring'[i]
      <3>1. At(k) \in Nat /\ At(k) < fills + 1
        BY <1>0, <1>1
      <3> QED BY <1>1, <2>3, <3>1
    <2> QED BY <2>4, <2>5
  <1>4. CASE UNCHANGED fills /\ PopSnap
    BY <1>4, PopSnapFrame DEF StoredBeforeRing
  <1>5. CASE UNCHANGED fills /\ PopTrade
    <2>1. /\ Len(trade_ring) \in Nat /\ 1 \in 1 .. Len(trade_ring)
          /\ \A i \in 1 .. Len(trade_ring') :
               /\ i + 1 \in 1 .. Len(trade_ring) /\ 1 < i + 1
               /\ trade_ring'[i] = trade_ring[i + 1]
      <3>1. Len(trade_ring') \in Nat
        BY <1>5, PopTradeFacts
      <3>2. \A i \in 1 .. Len(trade_ring') : 1 < i + 1
        BY <3>1
      <3> QED BY <1>5, <3>2, PopTradeFacts
    <2>2. CASE UNCHANGED <<db, txn, trade_seq>>
      <3>1. with_txn' = with_txn
        BY <2>2 DEF with_txn
      <3> SUFFICES ASSUME NEW k \in Seqs, In(k)
                   PROVE  /\ k < trade_seq' /\ At(k) \in 1 .. fills'
                          /\ \A i \in 1 .. Len(trade_ring') : At(k) < trade_ring'[i]
        BY <3>1 DEF StoredBeforeRing
      <3>2. k < trade_seq /\ At(k) \in 1 .. fills
        BY DEF StoredBeforeRing
      <3>3. \A i \in 1 .. Len(trade_ring') : At(k) < trade_ring'[i]
        BY <1>1, <2>1
      <3> QED BY <1>5, <2>2, <3>2, <3>3
    <2>3. CASE trade_seq' = trade_seq + 1
      <3>1. /\ DOMAIN with_txn' = DOMAIN with_txn \cup {<<"tr", trade_seq>>}
            /\ with_txn'[<<"tr", trade_seq>>] = trade_ring[1]
            /\ \A k \in DOMAIN with_txn :
                 k # <<"tr", trade_seq>> => with_txn'[k] = with_txn[k]
        <4>1. trade_seq' # trade_seq
          BY <1>0, <2>3
        <4> QED BY <1>5, <4>1, PopTradeFacts
      <3> SUFFICES ASSUME NEW k \in Seqs, <<"tr", k>> \in DOMAIN with_txn'
                   PROVE  /\ k < trade_seq' /\ with_txn'[<<"tr", k>>] \in 1 .. fills'
                          /\ \A i \in 1 .. Len(trade_ring') :
                               with_txn'[<<"tr", k>>] < trade_ring'[i]
        BY DEF StoredBeforeRing
      <3>2. CASE k = trade_seq
        <4>1. with_txn'[<<"tr", k>>] = trade_ring[1]
          BY <3>1, <3>2
        <4>2. trade_ring[1] \in 1 .. fills
          BY <1>0, <2>1
        <4>3. \A i \in 1 .. Len(trade_ring') : trade_ring[1] < trade_ring'[i]
          BY <2>1 DEF RingInOrder
        <4>4. k < trade_seq'
          BY <1>0, <2>3, <3>2
        <4> QED BY <1>5, <4>1, <4>2, <4>3, <4>4
      <3>3. CASE k # trade_seq
        <4>1. In(k) /\ with_txn'[<<"tr", k>>] = At(k)
          BY <3>1, <3>3, KeyFacts
        <4>2. k < trade_seq'
          BY <1>0, <1>1, <2>3, <4>1
        <4>3. At(k) \in 1 .. fills
          BY <4>1 DEF StoredBeforeRing
        <4>4. \A i \in 1 .. Len(trade_ring') : At(k) < trade_ring'[i]
          BY <1>1, <2>1, <4>1
        <4> QED BY <1>5, <4>1, <4>2, <4>3, <4>4
      <3> QED BY <3>2, <3>3
    <2>4. UNCHANGED <<db, txn, trade_seq>> \/ trade_seq' = trade_seq + 1
      BY <1>5, PopTradeFacts
    <2> QED BY <2>2, <2>3, <2>4
  <1>6. CASE UNCHANGED fills /\ Commit
    <2>1. CASE with_txn' = with_txn
      BY <1>6, <2>1, CommitCases DEF StoredBeforeRing
    <2>2. CASE /\ DOMAIN with_txn' = DOMAIN db
               /\ \A k \in DOMAIN db : with_txn'[k] = db[k]
      <3>1. \A k \in Seqs : <<"tr", k>> \in DOMAIN with_txn' =>
              In(k) /\ with_txn'[<<"tr", k>>] = At(k)
        BY <2>2, CommittedFacts
      <3> QED BY <1>6, <3>1, CommitCases DEF StoredBeforeRing
    <2> QED BY <1>6, <2>1, <2>2, CommitCases
  <1> QED BY <1>2, <1>3, <1>4, <1>5, <1>6, HistoryCases

\* A fill is stored under the next number, after all that are there.
LEMMA KeysStep ==
  ASSUME TypeOK, RingInOrder, StoredBeforeRing, KeysInOrder, [Next]_vars
  PROVE  KeysInOrder'
  <1> DEFINE In(k) == <<"tr", k>> \in DOMAIN with_txn
             At(k) == with_txn[<<"tr", k>>]
  <1>0. \A k \in Seqs : k \in Nat
    BY PersisterConstants DEF Seqs
  <1>1. CASE UNCHANGED <<db, txn>>
    BY <1>1 DEF KeysInOrder, with_txn
  <1>2. CASE PopSnap
    <2>1. /\ UNCHANGED db
          /\ \A k : <<"tr", k>> \in DOMAIN txn' <=> <<"tr", k>> \in DOMAIN txn
          /\ \A k : /\ <<"tr", k>> \in DOMAIN with_txn' <=> In(k)
                    /\ In(k) => with_txn'[<<"tr", k>>] = At(k)
      BY <1>2, PopSnapFrame
    <2>2. ASSUME NEW j \in Seqs, NEW k \in Seqs, j < k,
                 <<"tr", j>> \in DOMAIN with_txn', <<"tr", k>> \in DOMAIN with_txn'
          PROVE  with_txn'[<<"tr", j>>] < with_txn'[<<"tr", k>>]
      <3>1. In(j) /\ In(k)
        BY <2>1, <2>2
      <3>2. At(j) < At(k)
        BY <2>2, <3>1 DEF KeysInOrder
      <3> QED BY <2>1, <3>1, <3>2
    <2>3. ASSUME NEW j \in Seqs, NEW k \in Seqs,
                 <<"tr", j>> \in DOMAIN db', <<"tr", k>> \in DOMAIN txn'
          PROVE  j < k
      BY <2>1, <2>3 DEF KeysInOrder
    <2> QED BY <2>2, <2>3 DEF KeysInOrder
  <1>3. CASE PopTrade /\ ~UNCHANGED <<db, txn>>
    <2>1. /\ DOMAIN txn' = DOMAIN txn \cup {<<"tr", trade_seq>>}
          /\ DOMAIN with_txn' = DOMAIN with_txn \cup {<<"tr", trade_seq>>}
          /\ with_txn'[<<"tr", trade_seq>>] = trade_ring[1]
          /\ \A k \in DOMAIN with_txn :
               k # <<"tr", trade_seq>> => with_txn'[k] = with_txn[k]
          /\ UNCHANGED db /\ 1 \in 1 .. Len(trade_ring)
      BY <1>3, PopTradeFacts
    <2>2. trade_seq \in Nat
      BY RingTypes
    <2>3. \A k \in Seqs : In(k) => /\ k < trade_seq /\ k # trade_seq
                                   /\ At(k) < trade_ring[1]
      <3>1. \A k \in Seqs : In(k) => k < trade_seq /\ At(k) < trade_ring[1]
        BY <2>1 DEF StoredBeforeRing
      <3> QED BY <1>0, <2>2, <3>1
    <2>4. \A k \in Seqs : <<"tr", k>> \in DOMAIN with_txn' =>
            \/ In(k) /\ with_txn'[<<"tr", k>>] = At(k)
            \/ k = trade_seq /\ with_txn'[<<"tr", k>>] = trade_ring[1]
      BY <2>1, <2>3, KeyFacts
    <2>5. ASSUME NEW j \in Seqs, NEW k \in Seqs, j < k,
                 <<"tr", j>> \in DOMAIN with_txn', <<"tr", k>> \in DOMAIN with_txn'
          PROVE  with_txn'[<<"tr", j>>] < with_txn'[<<"tr", k>>]
      <3>1. j \in Nat /\ k \in Nat
        BY <1>0
      <3>2. CASE j = trade_seq
        <4>1. ~(k < trade_seq) /\ k # trade_seq
          BY <2>2, <2>5, <3>1, <3>2
        <4> QED BY <2>3, <2>4, <2>5, <4>1
      <3>3. CASE In(j) /\ with_txn'[<<"tr", j>>] = At(j)
        <4>1. CASE k = trade_seq /\ with_txn'[<<"tr", k>>] = trade_ring[1]
          BY <2>3, <3>3, <4>1
        <4>2. CASE In(k) /\ with_txn'[<<"tr", k>>] = At(k)
          BY <2>5, <3>3, <4>2 DEF KeysInOrder
        <4> QED BY <2>4, <2>5, <4>1, <4>2
      <3> QED BY <2>4, <2>5, <3>2, <3>3
    <2>6. ASSUME NEW j \in Seqs, NEW k \in Seqs,
                 <<"tr", j>> \in DOMAIN db, <<"tr", k>> \in DOMAIN txn'
          PROVE  j < k
      <3>1. j < trade_seq
        BY <2>3, <2>6, CommittedFacts
      <3>2. k = trade_seq \/ <<"tr", k>> \in DOMAIN txn
        BY <2>1, <2>6, KeyFacts
      <3> QED BY <2>6, <3>1, <3>2 DEF KeysInOrder
    <2> QED BY <2>1, <2>5, <2>6 DEF KeysInOrder
  <1>4. CASE Commit
    <2>1. DOMAIN txn' = {}
      BY <1>4, CommitCases
    <2>2. \A k \in Seqs : <<"tr", k>> \in DOMAIN with_txn' =>
            In(k) /\ with_txn'[<<"tr", k>>] = At(k)
      <3>1. CASE with_txn' = with_txn
        BY <3>1
      <3>2. CASE /\ DOMAIN with_txn' = DOMAIN db
                 /\ \A k \in DOMAIN db : with_txn'[k] = db[k]
        BY <3>2, CommittedFacts
      <3> QED BY <1>4, <3>1, <3>2, CommitCases
    <2> QED BY <2>1, <2>2 DEF KeysInOrder
  <1> QED BY <1>1, <1>2, <1>3, <1>4, HistoryCases

\* The three orders are kept together.
LEMMA HistoryStep ==
  ASSUME TypeOK, HistoryInv, [Next]_vars
  PROVE  HistoryInv'
  <1>1. RingInOrder /\ StoredBeforeRing /\ KeysInOrder
    BY DEF HistoryInv
  <1>2. [Next]_vars => [Next \/ Restart]_vars
    OBVIOUS
  <1>3. RingInOrder'
    BY <1>1, <1>2, NextTypes
  <1>4. StoredBeforeRing'
    BY <1>1, StoredStep
  <1>5. KeysInOrder'
    BY <1>1, KeysStep
  <1> QED BY <1>3, <1>4, <1>5 DEF HistoryInv

\* A step of the process adds a batch at the end of the history or leaves it.
LEMMA HistoryImplements ==
  ASSUME TypeOK, HistoryInv, [Next]_vars
  PROVE  [History!AddBatch]_trades
  <1>1. CASE UNCHANGED db
    BY <1>1 DEF trades
  <1>2. CASE Commit /\ ~UNCHANGED db
    <2>1. db' = with_txn
      BY <1>2, CommitCases
    <2>2. /\ DOMAIN trades = {k \in Seqs : <<"tr", k>> \in DOMAIN db}
          /\ \A k \in DOMAIN trades : trades[k] = db[<<"tr", k>>]
          /\ DOMAIN trades' = {k \in Seqs : <<"tr", k>> \in DOMAIN with_txn}
          /\ \A k \in DOMAIN trades' : trades'[k] = with_txn[<<"tr", k>>]
      BY <2>1 DEF trades, Seqs
    <2>3. KeysInOrder
      BY DEF HistoryInv
    <2>4. /\ DOMAIN trades \subseteq DOMAIN trades'
          /\ \A k \in DOMAIN trades : trades'[k] = trades[k]
      BY <2>2, <2>3, CommittedFacts
    <2>5. \A k \in DOMAIN trades, j \in DOMAIN trades' \ DOMAIN trades : k < j
      <3> SUFFICES ASSUME NEW k \in DOMAIN trades, NEW j \in DOMAIN trades' \ DOMAIN trades
                   PROVE  k < j
        OBVIOUS
      <3>1. k \in Seqs /\ j \in Seqs /\ <<"tr", k>> \in DOMAIN db
        BY <2>2
      <3>2. <<"tr", j>> \in DOMAIN txn
        BY <2>2, <2>3, <3>1, CommittedFacts
      <3> QED BY <2>3, <3>1, <3>2 DEF KeysInOrder
    <2>6. \A j, k \in DOMAIN trades' : j < k => trades'[j] < trades'[k]
      BY <2>2, <2>3 DEF KeysInOrder
    <2> QED BY <2>4, <2>5, <2>6 DEF History!AddBatch
  <1>3. PopSnap \/ PopTrade => UNCHANGED db
    BY DEF PopSnap, PopTrade
  <1> QED BY <1>1, <1>2, <1>3, HistoryCases

\* Spec implements FillHistory: what one process stores of its fills is
\* extended at the end by every commit, in the order of execution, and is
\* never changed, whatever LMDB call fails in between (run() and put() of
\* lmdb_persister.hpp:47-81).
THEOREM StoresHistory ==
  Spec => []HistoryInv /\ KeepsHistory
  <1> DEFINE Inv == TypeOK /\ HistoryInv
  <1>1. Inv /\ [Next]_vars => Inv'
    BY HistoryStep, NextTypes DEF HistoryInv
  <1>2. Init => Inv /\ History!Init
    <2> SUFFICES ASSUME Init PROVE Inv /\ History!Init
      OBVIOUS
    <2>1. DOMAIN db = {} /\ DOMAIN txn = {}
      BY DEF Init, nothing
    <2>2. DOMAIN with_txn = {}
      BY <2>1 DEF with_txn
    <2>3. StoredBeforeRing /\ KeysInOrder
      BY <2>1, <2>2 DEF StoredBeforeRing, KeysInOrder
    <2>4. History!Init
      BY <2>1 DEF trades, History!Init
    <2> QED BY <2>3, <2>4, InitTypes DEF HistoryInv
  <1>3. Inv /\ [Next]_vars => [History!AddBatch]_trades
    BY HistoryImplements
  <1>4. Inv => HistoryInv
    OBVIOUS
  <1> HIDE DEF Inv
  <1> QED BY <1>1, <1>2, <1>3, <1>4, PTL DEF Spec, KeepsHistory, History!Spec

\* HistoryInv: ring, transaction and database hold the fills in the order of
\* execution, whichever LMDB calls fail (lmdb_persister.hpp:52-81).
THEOREM HistoryAlways == Spec => []HistoryInv
  BY StoresHistory

\* OwedInv: until an LMDB call fails, every fill that was in the ring when the
\* shutdown began is there, in the open transaction or stored, restarts on the
\* same database included (lmdb_persister.hpp:49-81).
THEOREM OwedAlways ==
  /\ Spec => []OwedInv
  /\ RestartSpec => []OwedInv
  <1>1. OwedInv /\ DrainedAtExit => OwedInv
    OBVIOUS
  <1> QED BY <1>1, ShutdownDrains, PTL
=============================================================================

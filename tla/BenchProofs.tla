---------------------------- MODULE BenchProofs -----------------------------
(***************************************************************************)
(* Proofs about Bench, for every number of symbols and of events, every    *)
(* ring capacity and every configuration of the strategy.                  *)
(***************************************************************************)
EXTENDS Bench, MarketMakerProofs, FiniteSetTheorems

-----------------------------------------------------------------------------
(* What is in a sequence.                                                  *)

\* A pop takes nothing but the first element away, a push adds its own.
LEMMA RangeFacts ==
  ASSUME NEW S, NEW q \in Seq(S)
  PROVE  /\ Range(<<>>) = {}
         /\ q # <<>> => Range(q) \subseteq {Head(q)} \cup Range(Tail(q))
         /\ \A x \in S : Range(Append(q, x)) = Range(q) \cup {x}
         /\ \A r \in Seq(S) : Range(q) \cup Range(r) \subseteq Range(q \o r)
  <1>1. Range(<<>>) = {}
    BY DEF Range
  <1>2. ASSUME q # <<>> PROVE Range(q) \subseteq {Head(q)} \cup Range(Tail(q))
    <2> SUFFICES ASSUME NEW i \in 1 .. Len(q), i # 1
                 PROVE  q[i] \in Range(Tail(q))
      BY <1>2 DEF Range
    <2>1. i - 1 \in 1 .. Len(Tail(q)) /\ Tail(q)[i - 1] = q[i]
      BY <1>2
    <2>2. DOMAIN Tail(q) = 1 .. Len(Tail(q))
      BY <1>2
    <2> QED BY <2>1, <2>2 DEF Range
  <1>3. ASSUME NEW x \in S PROVE Range(Append(q, x)) = Range(q) \cup {x}
    <2>1. /\ DOMAIN q = 1 .. Len(q) /\ Len(q) \in Nat
          /\ DOMAIN Append(q, x) = 1 .. Len(q) + 1
          /\ \A i \in 1 .. Len(q) : Append(q, x)[i] = q[i]
          /\ Append(q, x)[Len(q) + 1] = x
      BY AppendFacts
    <2>2. ASSUME NEW i \in 1 .. Len(q) + 1 PROVE i \in 1 .. Len(q) \/ i = Len(q) + 1
      BY <2>1
    <2>3. Len(q) + 1 \in 1 .. Len(q) + 1 /\ 1 .. Len(q) \subseteq 1 .. Len(q) + 1
      BY <2>1
    <2> QED BY <2>1, <2>2, <2>3 DEF Range
  <1>4. ASSUME NEW r \in Seq(S) PROVE Range(q) \cup Range(r) \subseteq Range(q \o r)
    <2>1. /\ DOMAIN q = 1 .. Len(q) /\ Len(q) \in Nat
          /\ DOMAIN r = 1 .. Len(r) /\ Len(r) \in Nat
          /\ DOMAIN (q \o r) = 1 .. Len(q) + Len(r)
          /\ \A i \in 1 .. Len(q) : (q \o r)[i] = q[i]
          /\ \A i \in 1 .. Len(r) : (q \o r)[Len(q) + i] = r[i]
      OBVIOUS
    <2>2. ASSUME NEW i \in 1 .. Len(q) PROVE i \in 1 .. Len(q) + Len(r)
      BY <2>1
    <2>3. ASSUME NEW i \in 1 .. Len(r) PROVE Len(q) + i \in 1 .. Len(q) + Len(r)
      BY <2>1
    <2> QED BY <2>1, <2>2, <2>3 DEF Range
  <1> QED BY <1>1, <1>2, <1>3, <1>4
-----------------------------------------------------------------------------
(* What the strategy thread does when nobody answers it.                   *)

\* It leaves slots and commands alone, or it places a new order in an empty
\* slot.  It takes at most one event.
LEMMA StrategyEffect ==
  ASSUME MarketMakerTypeOK, RingsTypeOK, Unanswered, StrategyStep,
         \A s \in Syms, d \in Sides : oms[s][d].state \in {"None", "PendingNew"}
  PROVE  /\ UNCHANGED <<execRing, tradeRing>>
         /\ mdRing' = mdRing \/ (mdRing # <<>> /\ mdRing' = Tail(mdRing))
         /\ \/ UNCHANGED <<oms, ordRing>>
            \/ \E s \in Syms, d \in Sides, c \in OrderCmd, quote \in Quote :
                 /\ oms[s][d].state = "None" /\ quote.state = "PendingNew"
                 /\ c.type = "New" /\ c.symbol_id = s /\ c.side = d
                 /\ oms' = [oms EXCEPT ![s][d] = quote]
                 /\ ordRing' = Append(ordRing, c)
  <1>1. ASSUME NEW side \in Sides, NEW px \in Int, act(side, px)
        PROVE  \/ UNCHANGED <<oms, ordRing>>
               \/ \E s \in Syms, d \in Sides, c \in OrderCmd, quote \in Quote :
                    /\ oms[s][d].state = "None" /\ quote.state = "PendingNew"
                    /\ c.type = "New" /\ c.symbol_id = s /\ c.side = d
                    /\ oms' = [oms EXCEPT ![s][d] = quote]
                    /\ ordRing' = Append(ordRing, c)
    <2> DEFINE sym == plan.symbol_id
               c == [type |-> "New", side |-> side, symbol_id |-> sym,
                     price |-> px, qty |-> order_qty, cl_ord_id |-> next_id,
                     orig_cl_ord_id |-> 0]
               quote == [state |-> "PendingNew", cl_ord_id |-> next_id,
                         price |-> px, qty |-> order_qty]
    <2>1. sym \in Syms
      BY DEF MarketMakerTypeOK, Plan
    <2>2. next_id \in Nat /\ order_qty \in Nat
      BY ConfigAssumption DEF MarketMakerTypeOK
    <2>3. c \in OrderCmd /\ c.type = "New" /\ c.symbol_id = sym /\ c.side = side
      BY <2>1, <2>2 DEF OrderCmd
    <2>4. quote \in Quote /\ quote.state = "PendingNew"
      BY <2>1, <2>2 DEF Quote, QuoteStates
    <2>5. oms[sym][side].state \in {"None", "PendingNew"}
      BY <2>1
    <2>6. cancel_side(sym, side) => no_command
      BY <2>5 DEF cancel_side
    <2>7. requote(sym, side, px) =>
            no_command \/ (oms[sym][side].state = "None" /\ emit(c, quote))
      BY <2>5 DEF requote, place
    <2>8. no_command \/ (oms[sym][side].state = "None" /\ emit(c, quote))
      BY <1>1, <2>6, <2>7 DEF act
    <2> HIDE DEF c, quote
    <2>9. no_command => UNCHANGED <<oms, ordRing>>
      BY DEF no_command
    <2>10. emit(c, quote) => \/ UNCHANGED <<oms, ordRing>>
                             \/ /\ oms' = [oms EXCEPT ![sym][side] = quote]
                                /\ ordRing' = Append(ordRing, c)
      BY <2>3 DEF emit
    <2> QED BY <2>1, <2>3, <2>4, <2>8, <2>9, <2>10
  <1>2. plan.bid \in Int /\ plan.ask \in Int
    BY DEF MarketMakerTypeOK, Plan
  <1>3. ~PopExec
    BY DEF PopExec, Unanswered
  <1>4. CASE ActBuy
    BY <1>1, <1>2, <1>4 DEF ActBuy, Sides
  <1>5. CASE ActSell
    BY <1>1, <1>2, <1>5 DEF ActSell, Sides
  <1>6. CASE PopMd
    BY <1>6 DEF PopMd
  <1>7. CASE \/ ExecDrained \/ MdEmpty \/ SnapshotDue \/ SnapshotNotDue
             \/ PushSnapshot
    BY <1>7 DEF ExecDrained, MdEmpty, SnapshotDue, SnapshotNotDue, PushSnapshot,
                rings
  <1> QED BY <1>3, <1>4, <1>5, <1>6, <1>7 DEF StrategyStep
-----------------------------------------------------------------------------
(* The invariant, thread by thread.                                        *)

\* There are finitely many slots.
LEMMA InFlightFinite ==
  /\ IsFiniteSet(InFlight) /\ Cardinality(InFlight) \in Nat
  <1>1. IsFiniteSet(Syms)
    BY ConstantTypes, FS_Interval DEF Syms
  <1>2. IsFiniteSet(Sides)
    <2>1. IsFiniteSet({}) /\ IsFiniteSet({} \cup {"Buy"})
      BY FS_EmptySet, FS_AddElement
    <2>2. IsFiniteSet(({} \cup {"Buy"}) \cup {"Sell"})
      BY <2>1, FS_AddElement
    <2>3. Sides = ({} \cup {"Buy"}) \cup {"Sell"}
      BY DEF Sides
    <2> QED BY <2>2, <2>3
  <1>3. IsFiniteSet(Syms \X Sides)
    BY <1>1, <1>2, FS_Product
  <1>4. InFlight \in SUBSET (Syms \X Sides)
    BY DEF InFlight
  <1>5. IsFiniteSet(InFlight)
    BY <1>3, <1>4, FS_Subset
  <1> QED BY <1>5, FS_CardinalityType

\* The numbers of the bench, and that the counters fit.
LEMMA Numbers ==
  ASSUME TypeOK
  PROVE  /\ msgs \in Nat /\ processed \in Nat /\ given_up \in Nat
         /\ msgs <= n_msgs /\ processed <= n_msgs /\ given_up <= n_msgs
         /\ n_msgs \in Nat /\ Len(mdRing) \in Nat /\ Len(ordRing) \in Nat
         /\ running \in BOOLEAN
         /\ sunk \in [{"New", "Cancel"} -> Nat]
         /\ MarketMakerTypeOK /\ RingsTypeOK /\ LoggerTypeOK
         /\ ev \in MdEvent
  <1>1. /\ mdRing \in Seq(MdEvent) /\ ordRing \in Seq(OrderCmd)
    BY DEF TypeOK, RingsTypeOK
  <1>2. {msgs, processed, given_up} \subseteq 0 .. n_msgs
    BY DEF TypeOK
  <1>3. n_msgs \in Nat
    BY BenchAssumption
  <1>4. Len(mdRing) \in Nat /\ Len(ordRing) \in Nat
    BY <1>1
  <1>5. /\ msgs \in Nat /\ processed \in Nat /\ given_up \in Nat
        /\ msgs <= n_msgs /\ processed <= n_msgs /\ given_up <= n_msgs
    BY <1>2, <1>3
  <1> QED BY <1>3, <1>4, <1>5 DEF TypeOK, LoggerTypeOK

\* The constructors and the start of run_bench() establish the invariant.
LEMMA InitInv == Init => TypeOK /\ BenchInv
  <1> SUFFICES ASSUME Init PROVE TypeOK /\ BenchInv
    OBVIOUS
  <1> USE ConstantTypes
  <1>1. RingsTypeOK /\ MarketMakerTypeOK
    BY ConfigAssumption
       DEF Init, RingsInit, RingsTypeOK, MarketMakerInit, MarketMakerTypeOK
  <1>2. LoggerTypeOK
    BY LogCapAssumption DEF Init, LoggerInit, LoggerTypeOK
  <1>3. NoEvent \in MdEvent
    BY DEF NoEvent, MdEvent
  <1>4. TypeOK
    BY <1>1, <1>2, <1>3, BenchAssumption DEF Init, TypeOK
  <1>5. NothingDropped /\ GaveUpOnce /\ Unanswered
    BY DEF Init, RingsInit, NothingDropped, GaveUpOnce, Unanswered
  <1>6. LogAccounted /\ LogDrained
    BY DEF Init, LoggerInit, LogAccounted, LogDrained
  <1>7. \A sym \in Syms, side \in Sides : oms[sym][side].state = "None"
    BY DEF Init, MarketMakerInit, NoQuote
  <1>8. InFlight = {}
    BY <1>7 DEF InFlight
  <1>9. Cardinality(InFlight) = 0
    BY <1>8, FS_EmptySet
  <1>10. OneOrderPerSlot
    BY <1>7, <1>9 DEF Init, RingsInit, OneOrderPerSlot
  <1> QED BY <1>4, <1>5, <1>6, <1>10 DEF BenchInv

\* Slots and commands: a new order in an empty slot is one more in flight and
\* one more command; where neither changes nothing has to be shown.
LEMMA PlacedKeeps ==
  ASSUME TypeOK, OneOrderPerSlot, Unanswered,
         UNCHANGED <<execRing, tradeRing, sunk>>,
         NEW s \in Syms, NEW d \in Sides, NEW c \in OrderCmd, NEW quote \in Quote,
         oms[s][d].state = "None", quote.state = "PendingNew", c.type = "New",
         oms' = [oms EXCEPT ![s][d] = quote], ordRing' = Append(ordRing, c)
  PROVE  OneOrderPerSlot' /\ Unanswered'
  <1>1. oms \in [Syms -> [Sides -> Quote]] /\ ordRing \in Seq(OrderCmd)
    BY DEF TypeOK, MarketMakerTypeOK, RingsTypeOK
  <1>2. \A x \in Syms, y \in Sides :
          oms'[x][y] = IF x = s /\ y = d THEN quote ELSE oms[x][y]
    BY <1>1
  <1>3. InFlight' = InFlight \cup {<<s, d>>} /\ <<s, d>> \notin InFlight
    BY <1>2 DEF InFlight
  <1>4. Cardinality(InFlight') = Cardinality(InFlight) + 1
    BY <1>3, InFlightFinite, FS_AddElement
  <1>5. /\ Len(ordRing) \in Nat /\ Len(ordRing') = Len(ordRing) + 1
        /\ \A k \in 1 .. Len(ordRing) : ordRing'[k] = ordRing[k]
        /\ ordRing'[Len(ordRing) + 1] = c
    BY <1>1, AppendFacts
  <1>6. ASSUME NEW k \in 1 .. Len(ordRing') PROVE ordRing'[k].type = "New"
    <2>1. k \in 1 .. Len(ordRing) \/ k = Len(ordRing) + 1
      BY <1>5
    <2> QED BY <1>5, <2>1 DEF Unanswered
  <1>7. \A x \in Syms, y \in Sides : oms'[x][y].state \in {"None", "PendingNew"}
    BY <1>2 DEF OneOrderPerSlot
  <1>8. sunk["New"] \in Nat
    BY Numbers
  <1>9. sunk["New"] + Len(ordRing') = Cardinality(InFlight')
    BY <1>4, <1>5, <1>8, InFlightFinite DEF OneOrderPerSlot
  <1> QED BY <1>6, <1>7, <1>9 DEF OneOrderPerSlot, Unanswered

\* log(): a record that fits is owed and in the ring, one that does not is
\* neither; after the shutdown nothing becomes owed.
LEMMA LogKeeps ==
  ASSUME LoggerTypeOK, LogAccounted, LogDrained, NEW r \in Nat, log(r),
         UNCHANGED <<logger, running>>
  PROVE  LoggerTypeOK' /\ LogAccounted' /\ LogDrained'
  <1>1. logRing \in Seq(Nat) /\ Len(logRing) <= LogCap /\ owed \subseteq Nat
    BY DEF LoggerTypeOK
  <1>2. logRing' \in Seq(Nat) /\ Len(logRing') <= LogCap
    BY <1>1, LogCapAssumption, PushType DEF log
  <1>3. owed' \subseteq Nat
    BY <1>1 DEF log
  <1>4. Range(Append(logRing, r)) = Range(logRing) \cup {r}
    BY <1>1, RangeFacts
  <1>5. /\ Range(logRing) \subseteq Range(logRing')
        /\ owed' \subseteq owed \cup Range(logRing')
        /\ ~running => owed' = owed
    BY <1>4 DEF log, try_push
  <1>6. lpc' = lpc /\ buffered' = buffered /\ file' = file /\ running' = running
    BY DEF logger
  <1>7. LoggerTypeOK'
    BY <1>2, <1>3, <1>6 DEF LoggerTypeOK
  <1> HIDE DEF log
  <1>8. LogAccounted'
    BY <1>5, <1>6 DEF LogAccounted
  <1>9. LogDrained'
    BY <1>5, <1>6 DEF LogDrained, LogAccounted
  <1> QED BY <1>7, <1>8, <1>9

\* The strategy thread: what it takes from the ring it has processed, and a
\* command it pushed is logged.
LEMMA StrategyKeeps ==
  ASSUME TypeOK, BenchInv, Strategy
  PROVE  TypeOK' /\ BenchInv'
  <1>1. /\ UNCHANGED <<ppc, ev, msgs, given_up, kpc, sunk, dpc, running>>
        /\ UNCHANGED logger /\ StrategyStep
        /\ processed' = processed + (Len(mdRing) - Len(mdRing'))
    BY DEF Strategy, producer, sink
  <1>2. /\ MarketMakerTypeOK /\ RingsTypeOK /\ LoggerTypeOK /\ Unanswered
        /\ LogAccounted /\ LogDrained /\ OneOrderPerSlot /\ NothingDropped
        /\ GaveUpOnce
        /\ \A s \in Syms, d \in Sides : oms[s][d].state \in {"None", "PendingNew"}
    BY Numbers DEF BenchInv, OneOrderPerSlot
  <1>3. MarketMakerTypeOK' /\ RingsTypeOK'
    BY <1>1, <1>2, StrategyType
  <1>4. mdRing \in Seq(MdEvent) /\ ordRing \in Seq(OrderCmd)
    BY <1>2 DEF RingsTypeOK
  <1> DEFINE Placed(s, d, c, quote) ==
               /\ oms[s][d].state = "None" /\ quote.state = "PendingNew"
               /\ c.type = "New" /\ c.symbol_id = s /\ c.side = d
               /\ oms' = [oms EXCEPT ![s][d] = quote]
               /\ ordRing' = Append(ordRing, c)
  <1>5. /\ UNCHANGED <<execRing, tradeRing>>
        /\ mdRing' = mdRing \/ (mdRing # <<>> /\ mdRing' = Tail(mdRing))
        /\ \/ UNCHANGED <<oms, ordRing>>
           \/ \E s \in Syms, d \in Sides, c \in OrderCmd, quote \in Quote :
                Placed(s, d, c, quote)
    BY <1>1, <1>2, StrategyEffect
  <1>6. OneOrderPerSlot' /\ Unanswered' /\ LoggerTypeOK' /\ LogAccounted' /\ LogDrained'
    <2>1. CASE UNCHANGED <<oms, ordRing>>
      <3>1. ~(Len(ordRing') > Len(ordRing))
        BY <2>1, Numbers
      <3>2. UNCHANGED <<logRing, owed>>
        BY <3>1 DEF Strategy
      <3>3. LoggerTypeOK' /\ LogAccounted' /\ LogDrained'
        BY <1>1, <1>2, <3>2 DEF logger, LoggerTypeOK, LogAccounted, LogDrained
      <3>4. InFlight' = InFlight
        BY <2>1 DEF InFlight
      <3>5. OneOrderPerSlot' /\ Unanswered'
        BY <1>1, <1>2, <1>5, <2>1, <3>4 DEF OneOrderPerSlot, Unanswered
      <3> QED BY <3>3, <3>5
    <2>2. ASSUME NEW s \in Syms, NEW d \in Sides, NEW c \in OrderCmd,
                 NEW quote \in Quote, Placed(s, d, c, quote)
          PROVE  /\ OneOrderPerSlot' /\ Unanswered'
                 /\ LoggerTypeOK' /\ LogAccounted' /\ LogDrained'
      <3>0. UNCHANGED <<execRing, tradeRing, sunk>>
        BY <1>1, <1>5
      <3>1. OneOrderPerSlot' /\ Unanswered'
        BY ONLY TypeOK, <1>2, <2>2, <3>0, PlacedKeeps
      <3>2. /\ Len(ordRing) \in Nat /\ Len(ordRing') = Len(ordRing) + 1
            /\ ordRing'[Len(ordRing) + 1] = c
        BY <1>4, <2>2, AppendFacts
      <3>3. Len(ordRing') > Len(ordRing) /\ Last(ordRing') = c
        BY <3>2 DEF Last
      <3>4. log(logged_id(c))
        BY <3>3 DEF Strategy
      <3>5. logged_id(c) \in Nat
        BY DEF logged_id, OrderCmd
      <3> QED BY <1>1, <1>2, <3>1, <3>4, <3>5, LogKeeps
    <2> QED BY <1>5, <2>1, <2>2
  <1> HIDE DEF Placed
  <1>7. /\ Len(mdRing) \in Nat /\ Len(mdRing') \in Nat /\ Len(mdRing') <= Len(mdRing)
    <2>1. CASE mdRing' = mdRing
      BY <2>1, Numbers
    <2>2. CASE mdRing # <<>> /\ mdRing' = Tail(mdRing)
      BY <1>4, <2>2, TailFacts
    <2> QED BY <1>5, <2>1, <2>2
  <1>8. processed' \in Nat /\ processed' + Len(mdRing') = processed + Len(mdRing)
    BY <1>1, <1>7, Numbers
  <1>9. NothingDropped' /\ GaveUpOnce'
    BY <1>1, <1>2, <1>7, <1>8, Numbers DEF NothingDropped, GaveUpOnce
  <1>10. processed' <= n_msgs
    <2> DEFINE held == IF ppc = "push" THEN 1 ELSE 0
    <2>1. held \in Nat
      OBVIOUS
    <2>2. processed + Len(mdRing) + given_up + held = msgs
      BY <1>2 DEF NothingDropped
    <2> HIDE DEF held
    <2>3. /\ processed \in Nat /\ given_up \in Nat /\ msgs \in Nat /\ n_msgs \in Nat
          /\ msgs <= n_msgs
      BY Numbers
    <2> QED BY ONLY <1>7, <1>8, <2>1, <2>2, <2>3
  <1>11. TypeOK'
    <2>0. /\ msgs' = msgs /\ given_up' = given_up /\ processed' \in Nat
          /\ msgs \in Nat /\ given_up \in Nat /\ n_msgs \in Nat
          /\ msgs <= n_msgs /\ given_up <= n_msgs
      BY <1>1, <1>8, Numbers
    <2>1. {msgs', processed', given_up'} \subseteq 0 .. n_msgs
      BY ONLY <1>10, <2>0
    <2> QED BY <1>1, <1>3, <1>6, <2>1 DEF TypeOK
  <1> QED BY <1>6, <1>9, <1>11 DEF BenchInv

\* The producer: an event it generates is pushed or, once, given up.
LEMMA ProducerKeeps ==
  ASSUME TypeOK, BenchInv, Producer
  PROVE  TypeOK' /\ BenchInv'
  <1>1. UNCHANGED <<strategy, logger, logRing, owed, kpc, sunk, dpc, processed>>
    BY DEF Producer, sink
  <1>2. /\ UNCHANGED <<execRing, ordRing, tradeRing, snapRing>>
        /\ running' = running \/ running' = FALSE
    BY DEF Producer, Generate, Push, GiveUp, StopAll, Join, rings
  <1>3. MarketMakerTypeOK'
    BY <1>1, Numbers DEF MarketMakerTypeOK, strategy
  <1>4. LoggerTypeOK' /\ LogAccounted' /\ LogDrained'
    <2>1. UNCHANGED <<lpc, buffered, file, logRing, owed>>
      BY <1>1 DEF logger
    <2>2. LoggerTypeOK'
      BY <1>2, <2>1, Numbers DEF LoggerTypeOK
    <2>3. LogAccounted'
      BY <1>2, <2>1 DEF LogAccounted, BenchInv
    <2>4. LogDrained'
      BY <2>1 DEF LogDrained, BenchInv
    <2> QED BY <2>2, <2>3, <2>4
  <1>5. OneOrderPerSlot' /\ Unanswered'
    <2>1. oms' = oms
      BY <1>1 DEF strategy
    <2>2. InFlight' = InFlight
      BY <2>1 DEF InFlight
    <2> QED BY <1>1, <1>2, <2>1, <2>2 DEF OneOrderPerSlot, Unanswered, BenchInv
  <1>6. NoEvent \in MdEvent
    BY ConstantTypes DEF NoEvent, MdEvent
  <1>7. NothingDropped /\ GaveUpOnce
    BY DEF BenchInv
  <1>8. /\ mdRing' \in Seq(MdEvent) /\ Len(mdRing') <= MdCap
        /\ ev' \in MdEvent /\ ppc' \in {"loop", "push", "join", "report"}
        /\ msgs' \in Nat /\ msgs' <= n_msgs /\ given_up' \in Nat
        /\ NothingDropped' /\ GaveUpOnce'
    <2>0. mdRing \in Seq(MdEvent) /\ Len(mdRing) <= MdCap /\ Len(mdRing) \in Nat
      BY Numbers DEF RingsTypeOK
    <2>1. CASE Generate
      <3>1. PICK mid \in Mids :
              ev' = [symbol_id |-> msgs % NSyms, n_bids |-> kMaxDepth,
                     n_asks |-> kMaxDepth, bid_px |-> mid - half(msgs),
                     ask_px |-> mid + half(msgs)]
        BY <2>1 DEF Generate
      <3>2. half(msgs) \in Int /\ mid \in Int
        BY BenchAssumption DEF half
      <3>3. msgs % NSyms \in Syms
        BY Numbers, ConstantTypes DEF Syms
      <3>4. ev' \in MdEvent
        BY <3>1, <3>2, <3>3 DEF MdEvent, kMaxDepth
      <3>5. /\ mdRing' = mdRing /\ msgs' = msgs + 1 /\ msgs < n_msgs /\ running
            /\ given_up' = given_up /\ ppc = "loop" /\ ppc' = "push"
            /\ running' = running
        BY <2>1 DEF Generate, rings
      <3>6. given_up = 0
        BY <1>7, <3>5, Numbers DEF NothingDropped
      <3>7. msgs' = processed' + Len(mdRing') + given_up' + 1
        BY <1>1, <1>7, <3>5, Numbers DEF NothingDropped
      <3> QED
        BY <2>0, <3>4, <3>5, <3>6, <3>7, Numbers DEF NothingDropped, GaveUpOnce
    <2>2. CASE Push
      <3>1. /\ mdRing' = Append(mdRing, ev) /\ Len(mdRing) < MdCap
            /\ msgs' = msgs /\ given_up' = given_up /\ running' = running
            /\ ppc = "push" /\ ppc' = "loop" /\ ev' = NoEvent
        BY <2>2 DEF Push, can_push
      <3>2. mdRing' \in Seq(MdEvent) /\ Len(mdRing') = Len(mdRing) + 1
        BY <2>0, <3>1, Numbers, AppendFacts
      <3>3. msgs' = processed' + Len(mdRing') + given_up'
        BY <1>1, <1>7, <3>1, <3>2, Numbers DEF NothingDropped
      <3>4. given_up' <= (IF running' THEN 0 ELSE 1)
        BY <1>7, <3>1 DEF NothingDropped
      <3>5. Len(mdRing') <= MdCap
        BY <2>0, <3>1, <3>2, ConstantTypes
      <3> QED
        BY <1>6, <3>1, <3>2, <3>3, <3>4, <3>5, Numbers DEF NothingDropped, GaveUpOnce
    <2>3. CASE GiveUp
      <3>1. /\ mdRing' = mdRing /\ msgs' = msgs /\ given_up' = given_up + 1
            /\ ~running /\ running' = running
            /\ ppc = "push" /\ ppc' = "loop" /\ ev' = NoEvent
        BY <2>3 DEF GiveUp, rings
      <3>2. given_up = 0
        BY <1>7, <3>1 DEF GaveUpOnce
      <3>3. msgs' = processed' + Len(mdRing') + given_up'
        BY <1>1, <1>7, <3>1, Numbers DEF NothingDropped
      <3> QED
        BY <1>6, <2>0, <3>1, <3>2, <3>3, Numbers DEF NothingDropped, GaveUpOnce
    <2>4. CASE StopAll \/ Join
      <3>1. /\ mdRing' = mdRing /\ msgs' = msgs /\ given_up' = given_up /\ ev' = ev
            /\ ppc \in {"loop", "join"} /\ ppc' \in {"join", "report"}
        BY <2>4 DEF StopAll, Join, rings
      <3>2. msgs' = processed' + Len(mdRing') + given_up'
        BY <1>1, <1>7, <3>1, Numbers DEF NothingDropped
      <3>3. given_up' <= (IF running' THEN 0 ELSE 1)
        BY <1>2, <1>7, <3>1, Numbers DEF NothingDropped
      <3> QED BY <2>0, <3>1, <3>2, <3>3, Numbers DEF NothingDropped, GaveUpOnce
    <2> QED BY <2>1, <2>2, <2>3, <2>4 DEF Producer
  <1>9. RingsTypeOK'
    BY <1>2, <1>8, Numbers DEF RingsTypeOK
  <1>10. given_up' <= n_msgs
    <2>1. msgs' = processed + Len(mdRing') + given_up' + (IF ppc' = "push" THEN 1 ELSE 0)
      BY <1>1, <1>8 DEF NothingDropped
    <2>2. Len(mdRing') \in Nat
      BY <1>8
    <2> QED BY <1>8, <2>1, <2>2, Numbers
  <1>11. {msgs', processed', given_up'} \subseteq 0 .. n_msgs
    BY <1>1, <1>8, <1>10, Numbers
  <1>12. TypeOK'
    BY <1>1, <1>3, <1>4, <1>8, <1>9, <1>11 DEF TypeOK
  <1> QED BY <1>4, <1>5, <1>8, <1>12 DEF BenchInv

\* The sink: a command it pops is one it has counted.
LEMMA SinkKeeps ==
  ASSUME TypeOK, BenchInv, Sink
  PROVE  TypeOK' /\ BenchInv'
  <1>1. /\ UNCHANGED <<strategy, mdRing, execRing, tradeRing, snapRing, logger,
                       logRing, owed, running, ppc, ev, msgs, given_up, dpc,
                       processed>>
    BY DEF Sink, producer
  <1>2. /\ ordRing \in Seq(OrderCmd) /\ Len(ordRing) <= OrdCap
        /\ sunk \in [{"New", "Cancel"} -> Nat] /\ Len(ordRing) \in Nat
        /\ OneOrderPerSlot /\ Unanswered
    BY Numbers DEF RingsTypeOK, BenchInv
  <1>3. oms' = oms /\ InFlight' = InFlight
    BY <1>1 DEF strategy, InFlight
  <1>4. /\ ordRing' \in Seq(OrderCmd) /\ Len(ordRing') <= OrdCap
        /\ sunk' \in [{"New", "Cancel"} -> Nat]
        /\ kpc' \in {"test", "drain", "ended"}
        /\ OneOrderPerSlot' /\ Unanswered'
    <2>1. CASE SinkTest \/ SinkDrained
      <3>1. UNCHANGED <<sunk, ordRing>> /\ kpc' \in {"test", "drain", "ended"}
        BY <2>1 DEF SinkTest, SinkDrained
      <3> QED BY <1>1, <1>2, <1>3, <3>1 DEF OneOrderPerSlot, Unanswered
    <2>2. CASE SinkPop
      <3>1. /\ ordRing # <<>> /\ ordRing' = Tail(ordRing) /\ kpc' = kpc
            /\ sunk' = [sunk EXCEPT ![Head(ordRing).type] = @ + 1]
        BY <2>2 DEF SinkPop
      <3>2. /\ Head(ordRing) = ordRing[1] /\ 1 \in 1 .. Len(ordRing)
            /\ ordRing' \in Seq(OrderCmd) /\ Len(ordRing') = Len(ordRing) - 1
            /\ \A k \in 1 .. Len(ordRing') :
                 k + 1 \in 2 .. Len(ordRing) /\ ordRing'[k] = ordRing[k + 1]
        BY <1>2, <3>1, TailFacts
      <3>3. Head(ordRing).type = "New"
        BY <1>2, <3>2 DEF Unanswered
      <3>4. /\ sunk' \in [{"New", "Cancel"} -> Nat]
            /\ sunk'["New"] = sunk["New"] + 1 /\ sunk'["Cancel"] = sunk["Cancel"]
        BY <1>2, <3>1, <3>3
      <3>5. sunk["New"] \in Nat
        BY <1>2
      <3>6. sunk'["New"] + Len(ordRing') = Cardinality(InFlight)
        BY <1>2, <3>2, <3>4, <3>5, InFlightFinite DEF OneOrderPerSlot
      <3>7. OneOrderPerSlot'
        BY <1>2, <1>3, <3>4, <3>6 DEF OneOrderPerSlot
      <3>8. ASSUME NEW k \in 1 .. Len(ordRing') PROVE ordRing'[k].type = "New"
        <4>1. k + 1 \in 1 .. Len(ordRing) /\ ordRing'[k] = ordRing[k + 1]
          BY <1>2, <3>2
        <4> QED BY <1>2, <4>1 DEF Unanswered
      <3>9. Unanswered'
        BY <1>1, <1>2, <3>8 DEF Unanswered
      <3>10. Len(ordRing') <= OrdCap
        BY <1>2, <3>2, ConstantTypes
      <3>11. kpc' \in {"test", "drain", "ended"}
        BY <3>1 DEF TypeOK
      <3> QED BY <3>2, <3>4, <3>7, <3>9, <3>10, <3>11
    <2> QED BY <2>1, <2>2 DEF Sink
  <1>5. MarketMakerTypeOK' /\ RingsTypeOK'
    BY <1>1, <1>4, Numbers DEF MarketMakerTypeOK, RingsTypeOK, strategy
  <1>6. LoggerTypeOK' /\ LogAccounted' /\ LogDrained'
    BY <1>1, Numbers DEF LoggerTypeOK, LogAccounted, LogDrained, logger, BenchInv
  <1>7. NothingDropped' /\ GaveUpOnce'
    BY <1>1 DEF NothingDropped, GaveUpOnce, BenchInv
  <1>8. TypeOK'
    BY <1>1, <1>4, <1>5, <1>6 DEF TypeOK
  <1> QED BY <1>4, <1>6, <1>7, <1>8 DEF BenchInv

\* The LMDB thread touches nothing the properties speak of.
LEMMA PersisterKeeps ==
  ASSUME TypeOK, BenchInv, Persister
  PROVE  TypeOK' /\ BenchInv'
  <1>1. UNCHANGED <<strategy, mdRing, execRing, ordRing, tradeRing, logger,
                    logRing, owed, running, ppc, ev, msgs, given_up, kpc, sunk,
                    processed>>
    BY DEF Persister, producer, sink
  <1>2. snapRing \in Seq(Syms) /\ Len(snapRing) <= SnapCap
    BY Numbers DEF RingsTypeOK
  <1>3. /\ snapRing' \in Seq(Syms) /\ Len(snapRing') <= SnapCap
        /\ dpc' \in {"drain", "ended"}
    <2>1. CASE Persist
      <3>1. snapRing # <<>> /\ snapRing' = Tail(snapRing) /\ dpc' = "drain"
        BY <2>1 DEF Persist
      <3>2. /\ snapRing' \in Seq(Syms) /\ Len(snapRing') = Len(snapRing) - 1
            /\ Len(snapRing) \in Nat
        BY <1>2, <3>1, TailFacts
      <3> QED BY <1>2, <3>1, <3>2, ConstantTypes
    <2>2. CASE PersistEnd
      BY <1>2, <2>2 DEF PersistEnd
    <2> QED BY <2>1, <2>2 DEF Persister
  <1>4. MarketMakerTypeOK' /\ RingsTypeOK'
    BY <1>1, <1>3, Numbers DEF MarketMakerTypeOK, RingsTypeOK, strategy
  <1>5. LoggerTypeOK' /\ LogAccounted' /\ LogDrained'
    BY <1>1, Numbers DEF LoggerTypeOK, LogAccounted, LogDrained, logger, BenchInv
  <1>6. NothingDropped' /\ GaveUpOnce'
    BY <1>1 DEF NothingDropped, GaveUpOnce, BenchInv
  <1>7. oms' = oms /\ InFlight' = InFlight
    BY <1>1 DEF strategy, InFlight
  <1>8. OneOrderPerSlot' /\ Unanswered'
    BY <1>1, <1>7 DEF OneOrderPerSlot, Unanswered, BenchInv
  <1>9. TypeOK'
    BY <1>1, <1>3, <1>4, <1>5 DEF TypeOK
  <1> QED BY <1>5, <1>6, <1>8, <1>9 DEF BenchInv

\* The logger: a record moves from the ring to the buffer and from there to
\* the file; the thread ends when it has seen the flag gone and then the ring
\* empty, with an empty buffer.
LEMMA LoggerKeeps ==
  ASSUME TypeOK, BenchInv, Logger
  PROVE  TypeOK' /\ BenchInv'
  <1>1. UNCHANGED <<strategy, rings, owed, running, ppc, ev, msgs, given_up,
                    kpc, sunk, dpc, processed>>
    BY DEF Logger, producer, sink
  <1>2. /\ logRing \in Seq(Nat) /\ Len(logRing) <= LogCap /\ Len(logRing) \in Nat
        /\ buffered \in Seq(Nat) /\ file \in Seq(Nat) /\ owed \subseteq Nat
        /\ running \in BOOLEAN /\ LogAccounted /\ LogDrained
    BY Numbers DEF LoggerTypeOK, BenchInv
  <1>3. LoggerTypeOK' /\ LogAccounted' /\ LogDrained'
    <2>1. CASE LoggerTest
      <3>1. /\ UNCHANGED <<logRing, buffered, file>> /\ lpc = "test"
            /\ lpc' = IF running THEN "drain" ELSE "size"
        BY <2>1 DEF LoggerTest
      <3> QED BY <1>1, <1>2, <3>1 DEF LoggerTypeOK, LogAccounted, LogDrained
    <2>2. CASE LoggerSize
      <3>1. /\ UNCHANGED <<logRing, buffered, file>> /\ lpc = "size"
            /\ lpc' = IF logRing # <<>> THEN "drain" ELSE "ended"
        BY <2>2 DEF LoggerSize
      <3>2. Range(<<>>) = {}
        BY <1>2, RangeFacts
      <3>3. LoggerTypeOK' /\ LogAccounted'
        BY <1>1, <1>2, <3>1 DEF LoggerTypeOK, LogAccounted
      <3>4. LogDrained'
        BY <1>1, <1>2, <3>1, <3>2 DEF LogAccounted, LogDrained
      <3> QED BY <3>3, <3>4
    <2>3. CASE LoggerPop
      <3>1. /\ lpc = "drain" /\ lpc' = "drain" /\ logRing # <<>> /\ file' = file
            /\ buffered' = Append(buffered, Head(logRing))
            /\ logRing' = Tail(logRing)
        BY <2>3 DEF LoggerPop
      <3>2. /\ Head(logRing) \in Nat /\ logRing' \in Seq(Nat)
            /\ Len(logRing') = Len(logRing) - 1
        BY <1>2, <3>1, TailFacts
      <3>3. buffered' \in Seq(Nat)
        BY <1>2, <3>1, <3>2
      <3>4. Range(logRing) \subseteq {Head(logRing)} \cup Range(logRing')
        BY <1>2, <3>1, RangeFacts
      <3>5. Range(buffered') = Range(buffered) \cup {Head(logRing)}
        BY <1>2, <3>1, <3>2, RangeFacts
      <3>6. Len(logRing') <= LogCap
        BY <1>2, <3>2, LogCapAssumption
      <3>7. LoggerTypeOK'
        BY <1>1, <1>2, <3>1, <3>2, <3>3, <3>6 DEF LoggerTypeOK
      <3>8. LogAccounted'
        BY <1>1, <1>2, <3>1, <3>4, <3>5 DEF LogAccounted
      <3> QED BY <3>1, <3>7, <3>8 DEF LogDrained
    <2>4. CASE LoggerDrained
      <3>1. /\ lpc' = "test" /\ logRing = <<>> /\ logRing' = logRing
            /\ file' = file \o buffered /\ buffered' = <<>>
        BY <2>4 DEF LoggerDrained
      <3>2. Range(<<>>) = {} /\ Range(file) \cup Range(buffered) \subseteq Range(file')
        BY <1>2, <3>1, RangeFacts
      <3>3. file' \in Seq(Nat) /\ buffered' \in Seq(Nat)
        BY <1>2, <3>1
      <3>4. LoggerTypeOK'
        BY <1>1, <1>2, <3>1, <3>3 DEF LoggerTypeOK
      <3>5. LogAccounted'
        BY <1>1, <1>2, <3>1, <3>2 DEF LogAccounted
      <3> QED BY <3>1, <3>4, <3>5 DEF LogDrained
    <2> QED BY <2>1, <2>2, <2>3, <2>4 DEF Logger, LoggerStep
  <1>4. MarketMakerTypeOK' /\ RingsTypeOK'
    BY <1>1, Numbers DEF MarketMakerTypeOK, RingsTypeOK, strategy, rings
  <1>5. NothingDropped' /\ GaveUpOnce'
    BY <1>1 DEF NothingDropped, GaveUpOnce, BenchInv, rings
  <1>6. oms' = oms /\ InFlight' = InFlight
    BY <1>1 DEF strategy, InFlight
  <1>7. OneOrderPerSlot' /\ Unanswered'
    BY <1>1, <1>6 DEF OneOrderPerSlot, Unanswered, BenchInv, rings
  <1>8. TypeOK'
    BY <1>1, <1>3, <1>4 DEF TypeOK
  <1> QED BY <1>3, <1>5, <1>7, <1>8 DEF BenchInv

\* A signal, or a step that changes nothing here.
LEMMA SignalKeeps ==
  ASSUME TypeOK, BenchInv,
         UNCHANGED <<strategy, rings, logger, logRing, owed, producer, sink, dpc,
                     processed>>,
         running' = running \/ running' = FALSE
  PROVE  TypeOK' /\ BenchInv'
  <1>1. UNCHANGED <<ppc, ev, msgs, given_up, kpc, sunk, dpc, processed, mdRing,
                    execRing, ordRing, tradeRing, snapRing, lpc, buffered, file,
                    logRing, owed, oms>>
    BY DEF producer, sink, rings, logger, strategy
  <1>2. MarketMakerTypeOK' /\ RingsTypeOK'
    BY <1>1, Numbers DEF MarketMakerTypeOK, RingsTypeOK, strategy
  <1>3. LoggerTypeOK'
    BY <1>1, Numbers DEF LoggerTypeOK
  <1>4. LogAccounted' /\ LogDrained'
    BY <1>1 DEF LogAccounted, LogDrained, BenchInv
  <1>5. NothingDropped'
    <2>1. NothingDropped
      BY DEF BenchInv
    <2>2. given_up <= (IF running' THEN 0 ELSE 1)
      BY <2>1, Numbers DEF NothingDropped
    <2> QED BY <1>1, <2>1, <2>2 DEF NothingDropped
  <1>6. InFlight' = InFlight
    BY <1>1 DEF InFlight
  <1>7. OneOrderPerSlot' /\ Unanswered' /\ GaveUpOnce'
    BY <1>1, <1>6 DEF OneOrderPerSlot, Unanswered, GaveUpOnce, BenchInv
  <1>8. TypeOK'
    BY <1>1, <1>2, <1>3 DEF TypeOK
  <1> QED BY <1>4, <1>5, <1>7, <1>8 DEF BenchInv
-----------------------------------------------------------------------------
(* The theorems.                                                           *)

\* run_bench() keeps its types and, at every moment, the account of where each
\* event, each order and each log record is.
THEOREM BenchAlways == Spec => [](TypeOK /\ BenchInv)
  <1>1. TypeOK /\ BenchInv /\ [Next]_vars => (TypeOK /\ BenchInv)'
    <2> SUFFICES ASSUME TypeOK, BenchInv, [Next]_vars
                 PROVE  TypeOK' /\ BenchInv'
      OBVIOUS
    <2>1. CASE Producer BY <2>1, ProducerKeeps
    <2>2. CASE Strategy BY <2>2, StrategyKeeps
    <2>3. CASE Sink BY <2>3, SinkKeeps
    <2>4. CASE Persister BY <2>4, PersisterKeeps
    <2>5. CASE Logger BY <2>5, LoggerKeeps
    <2>6. CASE Signal BY <2>6, SignalKeeps DEF Signal
    <2>7. CASE UNCHANGED vars BY <2>7, SignalKeeps DEF vars
    <2> QED BY <2>1, <2>2, <2>3, <2>4, <2>5, <2>6, <2>7 DEF Next
  <1> QED BY InitInv, <1>1, PTL DEF Spec

\* The producer's spin of main.cpp:125-127 loses no event but the one a signal
\* makes it give up.
THEOREM BenchDropsNothing == Spec => []NothingDropped
  <1>1. TypeOK /\ BenchInv => NothingDropped
    BY DEF BenchInv
  <1> QED BY <1>1, BenchAlways, PTL

\* With a sink that answers nothing the strategy places one order per slot and
\* never cancels, for every number of events.
THEOREM BenchQuotesOnce == Spec => []OneOrderPerSlot
  <1>1. TypeOK /\ BenchInv => OneOrderPerSlot
    BY DEF BenchInv
  <1> QED BY <1>1, BenchAlways, PTL

\* The loop condition of AsyncLogger::run() leaves no record behind that was
\* in its ring when the shutdown began.
THEOREM LoggerDrains == Spec => []LogDrained
  <1>1. TypeOK /\ BenchInv => LogDrained
    BY DEF BenchInv
  <1> QED BY <1>1, BenchAlways, PTL

\* LogAccounted: at every moment a record of before the shutdown is in the
\* ring, in the buffer or in the file, and only a drain in progress leaves
\* records unflushed (async_logger.hpp:49-59).
THEOREM RecordsAccounted == Spec => []LogAccounted
  <1>1. TypeOK /\ BenchInv => LogAccounted
    BY DEF BenchInv
  <1> QED BY <1>1, BenchAlways, PTL

\* TypeOK: the rings of the bench stay within their capacities and the
\* slots, counts and places of its five threads within their types
\* (main.cpp:62-156).
THEOREM BenchTypeCorrect == Spec => []TypeOK
  <1>1. TypeOK /\ BenchInv => TypeOK
    OBVIOUS
  <1> QED BY <1>1, BenchAlways, PTL
=============================================================================

---------------------------- MODULE EngineProofs ----------------------------
(***************************************************************************)
(* Proofs about Engine, for every number of symbols, every ring capacity,  *)
(* every bound and every configuration of the strategy.                    *)
(***************************************************************************)
EXTENDS EngineInvariant, MarketMakerProofs

-----------------------------------------------------------------------------
(* Types.                                                                  *)

\* The sender's register starts with a command of its type.
LEMMA NoCmdType == NoCmd \in OrderCmd
  BY ConstantTypes DEF NoCmd, OrderCmd, Sides

\* The state the constructors leave behind is of its type.
LEMMA InitTypeOK == Init => TypeOK
  BY ConstantTypes, NoCmdType, WireBounds, ConfigAssumption, RestartBound
     DEF Init, RingsInit, MarketMakerInit, WireInit, FixAppInit, ExchangeInit,
         TypeOK, RingsTypeOK, MarketMakerTypeOK, WireTypeOK, FixAppTypeOK,
         ExchangeTypeOK

\* The reader thread keeps the types: a report of a configured symbol becomes
\* an event of that symbol, a snapshot of another one is discarded.
LEMMA ReaderType ==
  ASSUME TypeOK, ReaderStep
  PROVE  RingsTypeOK' /\ WireTypeOK' /\ FixAppTypeOK'
  <1>1. ASSUME NEW w \in Snapshots, OnMarketData(w)
        PROVE  RingsTypeOK' /\ WireTypeOK' /\ FixAppTypeOK'
    <2>1. w \in WMessage
      BY SnapshotsAssumption
    <2>2. /\ mdRing \in Seq(MdEvent) /\ Len(mdRing) <= MdCap /\ MdCap \in Nat
          /\ mdCount \in 0 .. MaxMd /\ MaxMd \in Nat
      BY ConstantTypes, WireBounds DEF TypeOK, RingsTypeOK, WireTypeOK
    <2>3. mdRing' \in Seq(MdEvent) /\ Len(mdRing') <= MdCap
      <3>1. CASE symbol_id(w.Symbol) = UINT32_MAX
        BY <1>1, <2>2, <3>1 DEF OnMarketData
      <3>2. CASE symbol_id(w.Symbol) # UINT32_MAX
        <4>1. symbol_id(w.Symbol) \in Syms
          BY <3>2 DEF symbol_id
        <4>2. w.bids \in Nat /\ w.asks \in Nat
          BY <2>1 DEF WMessage
        <4>3. kept(w.bids) \in Nat /\ kept(w.asks) \in Nat
          BY ONLY <4>2 DEF kept, kMaxDepth
        <4>4. md_event(w) \in MdEvent
          BY <2>1, <4>1, <4>3 DEF WMessage, md_event, MdEvent
        <4>5. mdRing' = try_push(mdRing, MdCap, md_event(w))
          BY <1>1, <3>2 DEF OnMarketData
        <4> QED BY ONLY <2>2, <4>4, <4>5, PushType
      <3> QED BY <3>1, <3>2
    <2>4. mdCount' \in 0 .. MaxMd
      <3>1. mdCount < MaxMd /\ mdCount' = mdCount + 1
        BY <1>1 DEF OnMarketData
      <3> QED BY ONLY <2>2, <3>1
    <2>5. RingsTypeOK'
      BY <1>1, <2>3 DEF OnMarketData, TypeOK, RingsTypeOK
    <2>6. WireTypeOK' /\ FixAppTypeOK'
      BY <1>1, <2>4 DEF OnMarketData, TypeOK, WireTypeOK, FixAppTypeOK, fixapp
    <2> QED BY <2>5, <2>6
  <1> USE ConstantTypes DEF TypeOK, RingsTypeOK, WireTypeOK, FixAppTypeOK
  <1>2. CASE FromApp
    <2> DEFINE m == Head(from_exch)
    <2>1. m \in ReportMessage /\ Tail(from_exch) \in Seq(ReportMessage)
      BY <1>2, TailFacts DEF FromApp
    <2>2. exec_kind(m) \in ExecKinds
      BY DEF exec_kind, ExecKinds
    <2>3. symbol_id(m.Symbol) = m.Symbol
      BY <2>1 DEF symbol_id, ReportMessage
    <2>4. exec_event(m) \in ExecEvent
      BY <2>1, <2>2, <2>3 DEF exec_event, ExecEvent, ReportMessage
    <2>5. execRing' \in Seq(ExecEvent) /\ Len(execRing') <= ExecCap
      BY <1>2, <2>4, PushType DEF FromApp
    <2> QED BY <1>2, <2>1, <2>5 DEF FromApp, fixapp
  <1>3. CASE OnLogon
    BY <1>3 DEF OnLogon, subscribe_market_data, rings
  <1>4. CASE OnLogout
    BY <1>4 DEF OnLogout, rings, wire
  <1> QED BY <1>1, <1>2, <1>3, <1>4 DEF ReaderStep

\* send_order_cmd() makes an order message of a command.
LEMMA MessageType ==
  ASSUME NEW c \in OrderCmd
  PROVE  fix_message(c) \in OrderMessage
  BY DEF OrderCmd, OrderMessage, fix_message

\* The sender thread keeps the types of what it writes.
LEMMA SenderType ==
  ASSUME TypeOK, SenderStep
  PROVE  RingsTypeOK' /\ WireTypeOK' /\ FixAppTypeOK'
  <1> USE ConstantTypes, NoCmdType DEF TypeOK, RingsTypeOK, WireTypeOK, FixAppTypeOK
  <1>1. CASE SenderPop
    <2>1. /\ Head(ordRing) \in OrderCmd /\ Tail(ordRing) \in Seq(OrderCmd)
          /\ Len(Tail(ordRing)) <= OrdCap
      BY <1>1, TailFacts DEF SenderPop
    <2> QED BY <1>1, <2>1 DEF SenderPop, wire
  <1>2. CASE SenderSend
    <2>0. to_exch' = to_exch \/ to_exch' = Append(to_exch, fix_message(sent_cmd))
      BY <1>2 DEF SenderSend, sendToTarget
    <2>1. to_exch' \in Seq(OrderMessage)
      <3>1. fix_message(sent_cmd) \in OrderMessage
        BY MessageType
      <3>2. to_exch \in Seq(OrderMessage)
        OBVIOUS
      <3>3. Append(to_exch, fix_message(sent_cmd)) \in Seq(OrderMessage)
        BY <3>1, <3>2, AppendFacts
      <3> QED BY <2>0, <3>2, <3>3
    <2> QED BY <1>2, <2>1 DEF SenderSend, rings
  <1> QED BY <1>1, <1>2 DEF SenderStep

\* A report about an order, or a cancel reject, is a report message.
LEMMA ReportTypes ==
  /\ \A o \in Order, id \in Nat, et \in ExecTypes, st \in OrdStatuses, n \in Nat :
       ReportOn(o, id, et, st, n) \in ReportMessage
  /\ \A m \in OrderMessage : CancelReject(m) \in ReportMessage
  /\ \A m \in OrderMessage : OrderOf(m) \in Order
  BY DEF ReportOn, CancelReject, OrderOf, Order, OrderMessage, ReportMessage,
         ExecTypes, OrdStatuses

\* The venue and the session keep the types of what they write.
LEMMA VenueType ==
  ASSUME TypeOK, Answer \/ Market
  PROVE  WireTypeOK' /\ ExchangeTypeOK'
  <1> USE DEF TypeOK, WireTypeOK, ExchangeTypeOK
  <1>0. ASSUME NEW r \in ReportMessage, report(r)
        PROVE  from_exch' \in Seq(ReportMessage)
    BY <1>0, AppendFacts DEF report
  <1>1. ASSUME NEW t, Receive(t)
        PROVE  Head(to_exch) \in OrderMessage /\ to_exch' \in Seq(OrderMessage)
    BY <1>1, TailFacts DEF Receive
  <1>2. CASE AcceptNew
    <2> DEFINE o == OrderOf(Head(to_exch))
    <2>1. Head(to_exch) \in OrderMessage /\ to_exch' \in Seq(OrderMessage)
      BY <1>1, <1>2 DEF AcceptNew
    <2>2. o \in Order
      BY <2>1, ReportTypes
    <2>3. ReportOn(o, o.cl_ord_id, "NEW", "NEW", o.leaves) \in ReportMessage
      BY <2>2, ReportTypes DEF Order, ExecTypes, OrdStatuses
    <2> QED BY <1>0, <1>2, <2>1, <2>2, <2>3 DEF AcceptNew, sessionUnchanged
  <1>3. CASE RejectNew
    <2> DEFINE o == OrderOf(Head(to_exch))
    <2>1. Head(to_exch) \in OrderMessage /\ to_exch' \in Seq(OrderMessage)
      BY <1>1, <1>3 DEF RejectNew
    <2>2. o \in Order
      BY <2>1, ReportTypes
    <2>3. ReportOn(o, o.cl_ord_id, "REJECTED", "REJECTED", 0) \in ReportMessage
      BY <2>2, ReportTypes DEF Order, ExecTypes, OrdStatuses
    <2> QED BY <1>0, <1>3, <2>1, <2>2, <2>3 DEF RejectNew, sessionUnchanged
  <1>4. CASE ExecuteCancel
    <2> DEFINE m == Head(to_exch)
    <2>1. m \in OrderMessage /\ to_exch' \in Seq(OrderMessage)
      BY <1>1, <1>4 DEF ExecuteCancel
    <2>2. PICK o \in working, id \in AckIds(m) :
            /\ working' = working \ {o}
            /\ report(ReportOn(o, id, "CANCELED", "CANCELED", 0))
      BY <1>4 DEF ExecuteCancel
    <2>3. id \in Nat
      BY <2>1, <2>2 DEF AckIds, OrderMessage
    <2>4. ReportOn(o, id, "CANCELED", "CANCELED", 0) \in ReportMessage
      BY <2>2, <2>3, ReportTypes DEF ExecTypes, OrdStatuses
    <2> QED BY <1>0, <1>4, <2>1, <2>2, <2>4 DEF ExecuteCancel, sessionUnchanged
  <1>5. CASE RefuseCancel
    <2>1. Head(to_exch) \in OrderMessage /\ to_exch' \in Seq(OrderMessage)
      BY <1>1, <1>5 DEF RefuseCancel
    <2> QED BY <1>0, <1>5, <2>1, ReportTypes DEF RefuseCancel, sessionUnchanged
  <1>6. CASE BlindAck
    <2> DEFINE m == Head(to_exch)
    <2>1. m \in OrderMessage /\ to_exch' \in Seq(OrderMessage)
      BY <1>1, <1>6 DEF BlindAck
    <2>2. ReportOn(OrderOf(m), m.ClOrdID, "CANCELED", "CANCELED", 0) \in ReportMessage
      BY <2>1, ReportTypes DEF OrderMessage, ExecTypes, OrdStatuses
    <2> QED BY <1>0, <1>6, <2>1, <2>2 DEF BlindAck, sessionUnchanged
  <1>7. ASSUME NEW o \in working, Fill(o)
        PROVE  WireTypeOK' /\ ExchangeTypeOK'
    <2>1. ReportOn(o, o.cl_ord_id, "TRADE", "FILLED", 0) \in ReportMessage
      BY ReportTypes DEF Order, ExecTypes, OrdStatuses
    <2> QED BY <1>0, <1>7, <2>1 DEF Fill, sessionUnchanged
  <1>8. ASSUME NEW o \in working, PartialFill(o)
        PROVE  WireTypeOK' /\ ExchangeTypeOK'
    <2>1. o \in Order
      OBVIOUS
    <2>2. PICK left \in 1 .. o.leaves - 1, st \in PartialStatuses(o) :
            /\ working' = (working \ {o}) \cup {[o EXCEPT !.leaves = left]}
            /\ report(ReportOn(o, o.cl_ord_id, "TRADE", st, left))
      BY <1>8 DEF PartialFill
    <2>3. left \in Nat /\ st \in OrdStatuses
      BY <2>1, <2>2 DEF Order, PartialStatuses, OrdStatuses
    <2>4. [o EXCEPT !.leaves = left] \in Order
      BY <2>1, <2>3 DEF Order
    <2>5. ReportOn(o, o.cl_ord_id, "TRADE", st, left) \in ReportMessage
      BY <2>1, <2>3, ReportTypes DEF Order, ExecTypes
    <2> QED BY <1>0, <1>8, <2>2, <2>4, <2>5 DEF PartialFill, sessionUnchanged
  <1>9. ASSUME NEW o \in working, NEW b, NEW et \in {"CANCELED", "EXPIRED"},
               GoAway(o, b, et)
        PROVE  WireTypeOK' /\ ExchangeTypeOK'
    <2>1. ReportOn(o, o.cl_ord_id, et, et, 0) \in ReportMessage
      BY ReportTypes DEF Order, ExecTypes, OrdStatuses
    <2> QED BY <1>0, <1>9, <2>1 DEF GoAway, sessionUnchanged
  <1>10. CASE Stray
    <2>1. PICK sym \in Syms, k \in StrayKinds :
            report([MsgType |-> "8", ClOrdID |-> 0, ExecType |-> k[1],
                    OrdStatus |-> k[2], Side |-> "Buy", Symbol |-> sym,
                    LeavesQty |-> 0])
      BY <1>10 DEF Stray
    <2>2. k[1] \in ExecTypes /\ k[2] \in OrdStatuses
      BY <2>1 DEF StrayKinds, ExecTypes, OrdStatuses
    <2>3. [MsgType |-> "8", ClOrdID |-> 0, ExecType |-> k[1],
           OrdStatus |-> k[2], Side |-> "Buy", Symbol |-> sym,
           LeavesQty |-> 0] \in ReportMessage
      BY <2>1, <2>2 DEF ReportMessage, Sides
    <2> QED BY <1>0, <1>10, <2>1, <2>3 DEF Stray, sessionUnchanged
  <1> QED
    BY <1>2, <1>3, <1>4, <1>5, <1>6, <1>7, <1>8, <1>9, <1>10 DEF Answer, Market

\* A new process starts with values of their types.
LEMMA RestartType ==
  ASSUME TypeOK, Restart
  PROVE  TypeOK'
  <1>1. RingsTypeOK'
    BY ConstantTypes, NoCmdType DEF Restart, RingsTypeOK
  <1>2. MarketMakerTypeOK'
    BY ConstantTypes, NoCmdType DEF Restart, TypeOK, MarketMakerTypeOK
  <1>3. WireTypeOK'
    <2>1. PICK n \in 0 .. Len(to_exch) : to_exch' = SubSeq(to_exch, 1, n)
      BY DEF Restart
    <2>2. to_exch' \in Seq(OrderMessage)
      BY <2>1, PrefixFacts DEF TypeOK, WireTypeOK
    <2>3. /\ session_up' = FALSE /\ subscribed' = FALSE /\ from_exch' = <<>>
          /\ mdCount' = mdCount /\ logouts' = logouts
      BY DEF Restart
    <2>4. from_exch' \in Seq(ReportMessage)
      BY <2>3
    <2> QED BY <2>2, <2>3, <2>4 DEF TypeOK, WireTypeOK
  <1>4. FixAppTypeOK' /\ ExchangeTypeOK'
    BY ConstantTypes, NoCmdType DEF Restart, TypeOK, FixAppTypeOK, ExchangeTypeOK
  <1>5. first_id' \in Nat \ {0} /\ restarts' \in 0 .. MaxRestarts
    BY RestartBound DEF Restart, TypeOK, MarketMakerTypeOK
  <1> QED BY <1>1, <1>2, <1>3, <1>4, <1>5 DEF TypeOK

\* Every step of every actor keeps the types.
LEMMA NextTypeOK == TypeOK /\ [Next]_vars => TypeOK'
  <1> SUFFICES ASSUME TypeOK, [Next]_vars PROVE TypeOK'
    OBVIOUS
  <1>1. CASE Strategy
    BY <1>1, StrategyType
       DEF Strategy, TypeOK, fixapp, wire, process, WireTypeOK, FixAppTypeOK,
           ExchangeTypeOK
  <1>2. CASE Reader
    BY <1>2, ReaderType
       DEF Reader, TypeOK, strategy, process, MarketMakerTypeOK, ExchangeTypeOK
  <1>3. CASE Sender
    BY <1>3, SenderType
       DEF Sender, TypeOK, strategy, process, MarketMakerTypeOK, ExchangeTypeOK
  <1>4. CASE Network
    <2>1. PICK n \in 0 .. Len(to_exch) : to_exch' = SubSeq(to_exch, 1, n)
      BY <1>4 DEF Network, Disconnect
    <2>2. to_exch' \in Seq(OrderMessage)
      BY <2>1, PrefixFacts DEF TypeOK, WireTypeOK
    <2>3. /\ session_up' = FALSE /\ subscribed' = FALSE /\ from_exch' = <<>>
          /\ mdCount' = mdCount /\ logouts < MaxLogouts /\ logouts' = logouts + 1
      BY <1>4 DEF Network, Disconnect
    <2>4. WireTypeOK'
      <3>1. logouts' \in 0 .. MaxLogouts
        BY <2>3, WireBounds DEF TypeOK, WireTypeOK
      <3>2. from_exch' \in Seq(ReportMessage)
        BY <2>3
      <3> QED BY <2>2, <2>3, <3>1, <3>2 DEF TypeOK, WireTypeOK
    <2> QED
      BY <1>4, <2>4
         DEF Network, TypeOK, strategy, rings, fixapp, process, MarketMakerTypeOK,
             RingsTypeOK, FixAppTypeOK, ExchangeTypeOK
  <1>5. CASE VenueAnswers \/ VenueTrades
    BY <1>5, VenueType
       DEF VenueAnswers, VenueTrades, TypeOK, strategy, rings, fixapp, process,
           MarketMakerTypeOK, RingsTypeOK, FixAppTypeOK
  <1>6. CASE Persister
    <2>0. RingsTypeOK
      BY DEF TypeOK
    <2>1. RingsTypeOK'
      <3>1. CASE TakeSnapshot
        <4>1. snapRing' \in Seq(Syms) /\ Len(snapRing') <= SnapCap
          BY <3>1, <2>0, TailFacts, ConstantTypes DEF TakeSnapshot, RingsTypeOK
        <4> QED BY <3>1, <2>0, <4>1 DEF TakeSnapshot, RingsTypeOK
      <3>2. CASE TakeTrade
        <4>1. tradeRing' \in Seq(ExecEvent) /\ Len(tradeRing') <= TradeCap
          BY <3>2, <2>0, TailFacts, ConstantTypes DEF TakeTrade, RingsTypeOK
        <4> QED BY <3>2, <2>0, <4>1 DEF TakeTrade, RingsTypeOK
      <3> QED BY <1>6, <3>1, <3>2 DEF Persister
    <2> QED
      BY <1>6, <2>1
         DEF Persister, TypeOK, strategy, fixapp, wire, process, MarketMakerTypeOK,
             WireTypeOK, FixAppTypeOK, ExchangeTypeOK
  <1>7. CASE UNCHANGED vars
    BY <1>7
       DEF vars, TypeOK, strategy, rings, fixapp, wire, process, MarketMakerTypeOK,
           RingsTypeOK, WireTypeOK, FixAppTypeOK, ExchangeTypeOK
  <1>8. CASE Restart
    BY <1>8, RestartType
  <1> QED BY <1>1, <1>2, <1>3, <1>4, <1>5, <1>6, <1>7, <1>8 DEF Next

\* Every ring stays within its capacity and every message, slot and index
\* within its type, for all interleavings of the engine's threads.
THEOREM TypeCorrect == Spec => []TypeOK
  <1>1. TypeOK /\ [Next]_vars => TypeOK'
    BY NextTypeOK
  <1> QED BY InitTypeOK, <1>1, PTL DEF Spec
-----------------------------------------------------------------------------
(* The life of an order id.                                                *)

\* The variables OrderIdsInv is about.
core == <<oms, next_id, first_id, ordRing, sent_cmd, to_exch, from_exch, execRing,
          working>>

\* What TypeOK says of the variables the invariant is about.
LEMMA CoreTypes ==
  ASSUME TypeOK
  PROVE  /\ oms \in [Syms -> [Sides -> Quote]]
         /\ next_id \in Nat \ {0}
         /\ first_id \in Nat
         /\ ordRing \in Seq(OrderCmd)
         /\ execRing \in Seq(ExecEvent)
         /\ to_exch \in Seq(OrderMessage)
         /\ from_exch \in Seq(ReportMessage)
         /\ sent_cmd \in OrderCmd
         /\ working \in SUBSET Order
  BY DEF TypeOK, RingsTypeOK, MarketMakerTypeOK, WireTypeOK, FixAppTypeOK,
         ExchangeTypeOK

\* Queue elements carry ids that are natural numbers.
LEMMA ElementTypes ==
  ASSUME TypeOK
  PROVE  /\ \A k \in 1 .. Len(ordRing) :
              /\ ordRing[k].symbol_id \in Syms /\ ordRing[k].side \in Sides
              /\ ordRing[k].orig_cl_ord_id \in Nat
         /\ \A k \in 1 .. Len(to_exch) :
              /\ to_exch[k].Symbol \in Syms /\ to_exch[k].Side \in Sides
              /\ to_exch[k].OrigClOrdID \in Nat
  <1>1. \A k \in 1 .. Len(ordRing) : ordRing[k] \in OrderCmd
    BY CoreTypes
  <1>2. \A k \in 1 .. Len(to_exch) : to_exch[k] \in OrderMessage
    BY CoreTypes
  <1> QED BY <1>1, <1>2 DEF OrderCmd, OrderMessage

\* With every queue empty and every slot free there are no ids to speak of.
LEMMA InitOrderIds == Init => OrderIdsInv
  <1> SUFFICES ASSUME Init PROVE OrderIdsInv
    OBVIOUS
  <1>1. /\ ordRing = <<>> /\ to_exch = <<>> /\ from_exch = <<>>
        /\ execRing = <<>> /\ working = {} /\ sent_cmd = NoCmd /\ next_id = 1
        /\ oms = [x \in Syms |-> [y \in Sides |-> NoQuote]]
    BY DEF Init, RingsInit, MarketMakerInit, WireInit, FixAppInit, ExchangeInit
  <1>2. \A x \in Syms, y \in Sides :
          oms[x][y].cl_ord_id = 0 /\ oms[x][y].state = "None"
    BY <1>1 DEF NoQuote
  <1> QED
    BY <1>1, <1>2
       DEF OrderIdsInv, IdsKnown, PipeDistinct, Answered, WorkingDistinct,
           TerminalIsGone, Owned, CancelsAnswered

\* Steps that touch none of its variables keep the invariant.
LEMMA CoreStutter ==
  ASSUME OrderIdsInv, UNCHANGED core
  PROVE  OrderIdsInv'
  <1>1. PipeIds' = PipeIds
    BY DEF core, PipeIds
  <1>2. Drawn' = Drawn
    BY DEF core, Drawn
  <1>4. IdsKnown'
    BY <1>2 DEF OrderIdsInv, IdsKnown, core
  <1>5. PipeDistinct'
    BY DEF OrderIdsInv, PipeDistinct, core
  <1>6. Answered'
    BY <1>1 DEF OrderIdsInv, Answered, core
  <1>7. WorkingDistinct' /\ TerminalIsGone'
    BY DEF OrderIdsInv, WorkingDistinct, TerminalIsGone, core
  <1>8. Owned'
    BY DEF OrderIdsInv, Owned, Owns, core
  <1>9. CancelsAnswered'
    BY <1>1 DEF OrderIdsInv, CancelsAnswered, core
  <1> QED BY <1>4, <1>5, <1>6, <1>7, <1>8, <1>9 DEF OrderIdsInv

\* Taking a message off the wire takes its id out of the pipeline and puts
\* no other id in.
LEMMA ReceivedLeaves ==
  ASSUME TypeOK, OrderIdsInv, to_exch # <<>>, to_exch' = Tail(to_exch),
         UNCHANGED <<ordRing, sent_cmd>>
  PROVE  /\ Head(to_exch).ClOrdID \notin PipeIds'
         /\ PipeIds' \subseteq PipeIds
         /\ Head(to_exch).ClOrdID \in PipeIds
  <1>1. /\ Len(to_exch) \in Nat /\ 1 \in 1 .. Len(to_exch)
        /\ Head(to_exch) = to_exch[1]
        /\ Len(Tail(to_exch)) = Len(to_exch) - 1
        /\ \A k \in 1 .. Len(Tail(to_exch)) :
             k + 1 \in 2 .. Len(to_exch) /\ Tail(to_exch)[k] = to_exch[k + 1]
    BY CoreTypes, TailFacts
  <1>2. PipeIds' \subseteq PipeIds
    BY <1>1 DEF PipeIds
  <1>3. to_exch[1].ClOrdID \in PipeIds
    BY <1>1 DEF PipeIds
  <1>4. to_exch[1].ClOrdID \notin PipeIds'
    <2>1. PipeDistinct
      BY DEF OrderIdsInv
    <2>2. \A k \in 1 .. Len(ordRing) : ordRing[k].cl_ord_id # to_exch[1].ClOrdID
      BY <1>1, <2>1 DEF PipeDistinct
    <2>3. sent_cmd # NoCmd => sent_cmd.cl_ord_id # to_exch[1].ClOrdID
      BY <1>1, <2>1 DEF PipeDistinct
    <2>4. \A k \in 1 .. Len(Tail(to_exch)) :
            Tail(to_exch)[k].ClOrdID # to_exch[1].ClOrdID
      BY <1>1, <2>1 DEF PipeDistinct
    <2> QED BY <2>2, <2>3, <2>4 DEF PipeIds
  <1> QED BY <1>1, <1>2, <1>3, <1>4

\* A venue step: it may take the next message off the wire, it says something
\* true in a report about an id that has left the pipeline, and the orders
\* working after it worked before or were just received.
LEMMA VenueKeeps ==
  ASSUME TypeOK, OrderIdsInv,
         NEW r \in ReportMessage,
         UNCHANGED <<oms, next_id, first_id, ordRing, sent_cmd, execRing>>,
         \/ to_exch' = to_exch
         \/ to_exch # <<>> /\ to_exch' = Tail(to_exch),
         from_exch' = from_exch \/ from_exch' = Append(from_exch, r),
         r.ClOrdID \in Drawn \cup {0}, r.ClOrdID \notin PipeIds',
         \A o \in working' : /\ o.cl_ord_id \in Drawn
                             /\ o.cl_ord_id \notin PipeIds'
                             /\ Owns(o.cl_ord_id, o.symbol_id, o.side)
                             /\ \/ o.cl_ord_id \in PipeIds
                                \/ \E p \in working : p.cl_ord_id = o.cl_ord_id,
         WorkingDistinct',
         r.MsgType = "8" /\ exec_kind(r) \in Terminal =>
           \A o \in working' : o.cl_ord_id # r.ClOrdID
  PROVE  OrderIdsInv'
  <1> USE CoreTypes
  <1>1. PipeIds' \subseteq PipeIds
    BY ReceivedLeaves DEF PipeIds
  <1>2. \A k \in 1 .. Len(to_exch') :
          \E j \in 1 .. Len(to_exch) : to_exch'[k] = to_exch[j]
    <2>1. CASE to_exch' = to_exch
      BY <2>1
    <2>2. CASE to_exch # <<>> /\ to_exch' = Tail(to_exch)
      <3>1. \A k \in 1 .. Len(to_exch') :
              k + 1 \in 2 .. Len(to_exch) /\ to_exch'[k] = to_exch[k + 1]
        BY <2>2, TailFacts
      <3> QED BY <3>1
    <2> QED BY <2>1, <2>2
  <1>3. \A k \in 1 .. Len(from_exch') :
          \/ from_exch'[k] = r
          \/ \E j \in 1 .. Len(from_exch) : from_exch'[k] = from_exch[j]
    BY AppendFacts
  <1>4. Drawn' = Drawn
    BY DEF Drawn
  <1>6. IdsKnown'
    BY <1>2, <1>3, <1>4 DEF OrderIdsInv, IdsKnown
  <1>7. PipeDistinct'
    <2>1. CASE to_exch' = to_exch
      BY <2>1 DEF OrderIdsInv, PipeDistinct
    <2>2. CASE to_exch # <<>> /\ to_exch' = Tail(to_exch)
      <3>1. /\ Len(to_exch) \in Nat
            /\ Len(to_exch') = Len(to_exch) - 1
            /\ \A k \in 1 .. Len(to_exch') :
                 k + 1 \in 1 .. Len(to_exch) /\ to_exch'[k] = to_exch[k + 1]
        BY <2>2, TailFacts
      <3>2. ASSUME NEW j \in 1 .. Len(to_exch'), NEW k \in 1 .. Len(to_exch'),
                   to_exch'[j].ClOrdID = to_exch'[k].ClOrdID
            PROVE  j = k
        <4>1. /\ j + 1 \in 1 .. Len(to_exch) /\ k + 1 \in 1 .. Len(to_exch)
              /\ to_exch[j + 1].ClOrdID = to_exch[k + 1].ClOrdID
          BY <3>1, <3>2
        <4>2. \A a, b \in 1 .. Len(to_exch) :
                to_exch[a].ClOrdID = to_exch[b].ClOrdID => a = b
          BY DEF OrderIdsInv, PipeDistinct
        <4>3. j + 1 = k + 1
          BY <4>1, <4>2
        <4> QED BY <4>3
      <3>3. PipeDistinct
        BY DEF OrderIdsInv
      <3>4. \A j \in 1 .. Len(ordRing'), k \in 1 .. Len(to_exch') :
              ordRing'[j].cl_ord_id # to_exch'[k].ClOrdID
        <4>1. \A j \in 1 .. Len(ordRing), k \in 1 .. Len(to_exch) :
                ordRing[j].cl_ord_id # to_exch[k].ClOrdID
          BY <3>3 DEF PipeDistinct
        <4> QED BY <1>2, <4>1
      <3>5. sent_cmd' # NoCmd =>
              \A k \in 1 .. Len(to_exch') : to_exch'[k].ClOrdID # sent_cmd'.cl_ord_id
        BY <1>2, <3>3 DEF PipeDistinct
      <3> QED BY <3>2, <3>3, <3>4, <3>5 DEF PipeDistinct
    <2> QED BY <2>1, <2>2
  <1>8. Answered'
    <2>1. \A k \in 1 .. Len(from_exch') : from_exch'[k].ClOrdID \notin PipeIds'
      BY <1>1, <1>3 DEF OrderIdsInv, Answered
    <2> QED BY <1>1, <2>1 DEF OrderIdsInv, Answered
  <1>9. TerminalIsGone'
    <2>1. \A id : id \notin PipeIds /\ (\A p \in working : p.cl_ord_id # id)
                    => \A o \in working' : o.cl_ord_id # id
      OBVIOUS
    <2>2. ASSUME NEW k \in 1 .. Len(from_exch'),
                 from_exch'[k].MsgType = "8",
                 exec_kind(from_exch'[k]) \in Terminal,
                 NEW o \in working'
          PROVE  o.cl_ord_id # from_exch'[k].ClOrdID
      <3>1. CASE from_exch'[k] = r
        BY <2>2, <3>1
      <3>2. ASSUME NEW j \in 1 .. Len(from_exch), from_exch'[k] = from_exch[j]
            PROVE  o.cl_ord_id # from_exch'[k].ClOrdID
        <4>1. from_exch[j].ClOrdID \notin PipeIds
          BY DEF OrderIdsInv, Answered
        <4>2. \A p \in working : p.cl_ord_id # from_exch[j].ClOrdID
          BY <2>2, <3>2 DEF OrderIdsInv, TerminalIsGone
        <4> QED BY <2>1, <3>2, <4>1, <4>2
      <3> QED BY <1>3, <3>1, <3>2
    <2>3. ASSUME NEW k \in 1 .. Len(execRing'),
                 execRing'[k].kind \in Terminal,
                 NEW o \in working'
          PROVE  o.cl_ord_id # execRing'[k].cl_ord_id
      BY <2>1, <2>3 DEF OrderIdsInv, Answered, TerminalIsGone
    <2> QED BY <2>2, <2>3 DEF TerminalIsGone, exec_kind
  <1>10. Owned'
    <2>1. Owned
      BY DEF OrderIdsInv
    <2>2. ASSUME NEW k \in 1 .. Len(to_exch'), to_exch'[k].MsgType = "D"
          PROVE  Owns(to_exch'[k].ClOrdID, to_exch'[k].Symbol, to_exch'[k].Side)
      BY <1>2, <2>1, <2>2 DEF Owned
    <2> QED BY <2>1, <2>2 DEF Owned, Owns
  <1>11. CancelsAnswered'
    BY <1>1, <1>2 DEF OrderIdsInv, CancelsAnswered
  <1> QED BY <1>6, <1>7, <1>8, <1>9, <1>10, <1>11 DEF OrderIdsInv

\* What the invariant says of the message the venue takes next.
LEMMA NextMessage ==
  ASSUME TypeOK, OrderIdsInv, NEW t, Receive(t), UNCHANGED <<ordRing, sent_cmd>>
  PROVE  /\ Head(to_exch) \in OrderMessage
         /\ Head(to_exch).ClOrdID \in Drawn
         /\ Head(to_exch).ClOrdID \in PipeIds
         /\ Head(to_exch).ClOrdID \notin PipeIds'
         /\ \A o \in working : o.cl_ord_id # Head(to_exch).ClOrdID
         /\ Head(to_exch).MsgType = "D" =>
              Owns(Head(to_exch).ClOrdID, Head(to_exch).Symbol, Head(to_exch).Side)
         /\ PipeIds' \subseteq PipeIds
         /\ to_exch # <<>> /\ to_exch' = Tail(to_exch)
  <1>1. to_exch # <<>> /\ to_exch' = Tail(to_exch)
    BY DEF Receive
  <1>2. /\ 1 \in 1 .. Len(to_exch) /\ Head(to_exch) = to_exch[1]
        /\ Head(to_exch) \in OrderMessage
    BY <1>1, CoreTypes, TailFacts
  <1>3. /\ Head(to_exch).ClOrdID \in PipeIds
        /\ Head(to_exch).ClOrdID \notin PipeIds'
        /\ PipeIds' \subseteq PipeIds
    BY <1>1, ReceivedLeaves
  <1>4. Head(to_exch).ClOrdID \in Drawn
    BY <1>2 DEF OrderIdsInv, IdsKnown
  <1>5. \A o \in working : o.cl_ord_id # Head(to_exch).ClOrdID
    BY <1>3 DEF OrderIdsInv, Answered
  <1>6. Head(to_exch).MsgType = "D" =>
          Owns(Head(to_exch).ClOrdID, Head(to_exch).Symbol, Head(to_exch).Side)
    BY <1>2 DEF OrderIdsInv, Owned
  <1> QED BY <1>1, <1>2, <1>3, <1>4, <1>5, <1>6

\* What it says of an order at the venue while PipeIds does not grow.
LEMMA RestingOrder ==
  ASSUME TypeOK, OrderIdsInv, PipeIds' \subseteq PipeIds, NEW o \in working
  PROVE  /\ o \in Order
         /\ o.cl_ord_id \in Nat
         /\ o.cl_ord_id \in Drawn
         /\ o.cl_ord_id \notin PipeIds'
         /\ Owns(o.cl_ord_id, o.symbol_id, o.side)
         /\ \A p \in working : p.cl_ord_id = o.cl_ord_id => p = o
  <1>1. o \in Order
    BY CoreTypes
  <1>2. o.cl_ord_id \in Drawn
    BY DEF OrderIdsInv, IdsKnown
  <1>3. o.cl_ord_id \notin PipeIds'
    BY DEF OrderIdsInv, Answered
  <1>4. Owns(o.cl_ord_id, o.symbol_id, o.side)
    BY DEF OrderIdsInv, Owned
  <1>5. \A p \in working : p.cl_ord_id = o.cl_ord_id => p = o
    BY DEF OrderIdsInv, WorkingDistinct
  <1>6. o.cl_ord_id \in Nat
    BY <1>1 DEF Order
  <1> QED BY <1>1, <1>2, <1>3, <1>4, <1>5, <1>6

\* Orders that only leave stay distinct.
LEMMA StillDistinct ==
  ASSUME OrderIdsInv, working' \subseteq working
  PROVE  WorkingDistinct'
  BY DEF OrderIdsInv, WorkingDistinct

\* The venue answers an order or a cancel: the id leaves the pipeline, and the
\* order is at the venue, gone, or was never there.
LEMMA AnswerKeeps ==
  ASSUME TypeOK, OrderIdsInv, Answer, UNCHANGED <<strategy, rings, fixapp, process>>
  PROVE  OrderIdsInv'
  <1>0. UNCHANGED <<oms, next_id, first_id, ordRing, sent_cmd, execRing>>
    BY DEF strategy, rings, fixapp, process
  <1> DEFINE m == Head(to_exch)
             o == OrderOf(m)
  <1>1. CASE AcceptNew
    <2> DEFINE r == ReportOn(o, o.cl_ord_id, "NEW", "NEW", o.leaves)
    <2>1. /\ Receive("D") /\ report(r) /\ working' = working \cup {o}
      BY <1>1 DEF AcceptNew
    <2>2. /\ m \in OrderMessage /\ m.ClOrdID \in Drawn /\ m.ClOrdID \in PipeIds
          /\ m.ClOrdID \notin PipeIds' /\ PipeIds' \subseteq PipeIds
          /\ \A p \in working : p.cl_ord_id # m.ClOrdID
          /\ m.MsgType = "D" => Owns(m.ClOrdID, m.Symbol, m.Side)
          /\ to_exch # <<>> /\ to_exch' = Tail(to_exch)
      BY <1>0, <2>1, NextMessage
    <2>3. /\ o \in Order /\ o.cl_ord_id = m.ClOrdID
          /\ o.symbol_id = m.Symbol /\ o.side = m.Side
      BY <2>2, ReportTypes DEF OrderOf
    <2>4. r \in ReportMessage /\ r.ClOrdID = m.ClOrdID
      BY <2>3, ReportTypes DEF Order, ExecTypes, OrdStatuses, ReportOn
    <2>5. exec_kind(r) \notin Terminal
      BY DEF exec_kind, ReportOn, Terminal
    <2>6. Owns(m.ClOrdID, m.Symbol, m.Side)
      BY <2>1, <2>2 DEF Receive
    <2>7. WorkingDistinct'
      BY <2>1, <2>2, <2>3 DEF OrderIdsInv, WorkingDistinct
    <2>8. ASSUME NEW p \in working'
          PROVE  /\ p.cl_ord_id \in Drawn
                 /\ p.cl_ord_id \notin PipeIds'
                 /\ Owns(p.cl_ord_id, p.symbol_id, p.side)
                 /\ \/ p.cl_ord_id \in PipeIds
                    \/ \E q \in working : q.cl_ord_id = p.cl_ord_id
      <3>1. CASE p \in working
        BY <2>2, <3>1, RestingOrder
      <3>2. CASE p = o
        BY <2>2, <2>3, <2>6, <3>2
      <3> QED BY <2>1, <3>1, <3>2
    <2>9. from_exch' = from_exch \/ from_exch' = Append(from_exch, r)
      BY <2>1 DEF report
    <2> HIDE DEF m, o, r
    <2> QED BY <1>0, <2>2, <2>4, <2>5, <2>7, <2>8, <2>9, VenueKeeps
  <1>2. CASE RejectNew
    <2> DEFINE r == ReportOn(o, o.cl_ord_id, "REJECTED", "REJECTED", 0)
    <2>1. /\ Receive("D") /\ report(r) /\ working' = working
      BY <1>2 DEF RejectNew
    <2>2. /\ m \in OrderMessage /\ m.ClOrdID \in Drawn
          /\ m.ClOrdID \notin PipeIds' /\ PipeIds' \subseteq PipeIds
          /\ \A p \in working : p.cl_ord_id # m.ClOrdID
          /\ to_exch # <<>> /\ to_exch' = Tail(to_exch)
      BY <1>0, <2>1, NextMessage
    <2>3. o \in Order /\ o.cl_ord_id = m.ClOrdID
      BY <2>2, ReportTypes DEF OrderOf
    <2>4. r \in ReportMessage /\ r.ClOrdID = m.ClOrdID
      BY <2>3, ReportTypes DEF Order, ExecTypes, OrdStatuses, ReportOn
    <2>5. WorkingDistinct'
      BY <2>1, StillDistinct
    <2>6. \A p \in working' : /\ p.cl_ord_id \in Drawn
                              /\ p.cl_ord_id \notin PipeIds'
                              /\ Owns(p.cl_ord_id, p.symbol_id, p.side)
      BY <2>1, <2>2, RestingOrder
    <2>7. from_exch' = from_exch \/ from_exch' = Append(from_exch, r)
      BY <2>1 DEF report
    <2> HIDE DEF m, o, r
    <2> QED BY <1>0, <2>1, <2>2, <2>4, <2>5, <2>6, <2>7, VenueKeeps
  <1>3. CASE ExecuteCancel
    <2>0. Receive("F")
      BY <1>3 DEF ExecuteCancel
    <2>1. /\ m \in OrderMessage /\ m.ClOrdID \in Drawn
          /\ m.ClOrdID \notin PipeIds' /\ PipeIds' \subseteq PipeIds
          /\ \A p \in working : p.cl_ord_id # m.ClOrdID
          /\ to_exch # <<>> /\ to_exch' = Tail(to_exch)
      BY <1>0, <2>0, NextMessage
    <2>2. PICK x \in working, id \in AckIds(m) :
            /\ x.cl_ord_id = m.OrigClOrdID
            /\ working' = working \ {x}
            /\ report(ReportOn(x, id, "CANCELED", "CANCELED", 0))
      BY <1>3 DEF ExecuteCancel
    <2>3. /\ x \in Order /\ x.cl_ord_id \in Drawn /\ x.cl_ord_id \notin PipeIds'
          /\ \A p \in working : p.cl_ord_id = x.cl_ord_id => p = x
      BY <2>1, RestingOrder
    <2>4. id \in {m.ClOrdID, x.cl_ord_id}
      BY <2>2 DEF AckIds
    <2>5. id \in Nat
      BY <2>1, <2>3, <2>4 DEF OrderMessage, Order
    <2> DEFINE r == ReportOn(x, id, "CANCELED", "CANCELED", 0)
    <2>6. r \in ReportMessage /\ r.ClOrdID = id
      BY <2>3, <2>5, ReportTypes DEF ExecTypes, OrdStatuses, ReportOn
    <2>7. id \in Drawn /\ id \notin PipeIds' /\ \A p \in working' : p.cl_ord_id # id
      BY <2>1, <2>2, <2>3, <2>4
    <2>8. WorkingDistinct'
      BY <2>2, StillDistinct
    <2>9. \A p \in working' : /\ p.cl_ord_id \in Drawn
                              /\ p.cl_ord_id \notin PipeIds'
                              /\ Owns(p.cl_ord_id, p.symbol_id, p.side)
                              /\ p \in working
      BY <2>1, <2>2, RestingOrder
    <2>10. from_exch' = from_exch \/ from_exch' = Append(from_exch, r)
      BY <2>2 DEF report
    <2> HIDE DEF m, r
    <2> QED BY <1>0, <2>1, <2>6, <2>7, <2>8, <2>9, <2>10, VenueKeeps
  <1>4. CASE RefuseCancel
    <2> DEFINE r == CancelReject(m)
    <2>1. /\ Receive("F") /\ report(r) /\ working' = working
      BY <1>4 DEF RefuseCancel
    <2>2. /\ m \in OrderMessage /\ m.ClOrdID \in Drawn
          /\ m.ClOrdID \notin PipeIds' /\ PipeIds' \subseteq PipeIds
          /\ \A p \in working : p.cl_ord_id # m.ClOrdID
          /\ to_exch # <<>> /\ to_exch' = Tail(to_exch)
      BY <1>0, <2>1, NextMessage
    <2>3. r \in ReportMessage /\ r.ClOrdID = m.ClOrdID
      BY <2>2, ReportTypes DEF CancelReject
    <2>4. WorkingDistinct'
      BY <2>1, StillDistinct
    <2>5. \A p \in working' : /\ p.cl_ord_id \in Drawn
                              /\ p.cl_ord_id \notin PipeIds'
                              /\ Owns(p.cl_ord_id, p.symbol_id, p.side)
      BY <2>1, <2>2, RestingOrder
    <2>6. from_exch' = from_exch \/ from_exch' = Append(from_exch, r)
      BY <2>1 DEF report
    <2> HIDE DEF m, r
    <2> QED BY <1>0, <2>1, <2>2, <2>3, <2>4, <2>5, <2>6, VenueKeeps
  <1>5. CASE BlindAck
    <2> DEFINE r == ReportOn(o, m.ClOrdID, "CANCELED", "CANCELED", 0)
    <2>1. /\ Receive("F") /\ report(r) /\ working' = working
      BY <1>5 DEF BlindAck
    <2>2. /\ m \in OrderMessage /\ m.ClOrdID \in Drawn
          /\ m.ClOrdID \notin PipeIds' /\ PipeIds' \subseteq PipeIds
          /\ \A p \in working : p.cl_ord_id # m.ClOrdID
          /\ to_exch # <<>> /\ to_exch' = Tail(to_exch)
      BY <1>0, <2>1, NextMessage
    <2>3. o \in Order /\ m.ClOrdID \in Nat
      BY <2>2, ReportTypes DEF OrderMessage
    <2>4. r \in ReportMessage /\ r.ClOrdID = m.ClOrdID
      BY <2>3, ReportTypes DEF ExecTypes, OrdStatuses, ReportOn
    <2>5. WorkingDistinct'
      BY <2>1, StillDistinct
    <2>6. \A p \in working' : /\ p.cl_ord_id \in Drawn
                              /\ p.cl_ord_id \notin PipeIds'
                              /\ Owns(p.cl_ord_id, p.symbol_id, p.side)
      BY <2>1, <2>2, RestingOrder
    <2>7. from_exch' = from_exch \/ from_exch' = Append(from_exch, r)
      BY <2>1 DEF report
    <2> HIDE DEF m, o, r
    <2> QED BY <1>0, <2>1, <2>2, <2>4, <2>5, <2>6, <2>7, VenueKeeps
  <1> QED BY <1>1, <1>2, <1>3, <1>4, <1>5 DEF Answer

\* A trade or a withdrawal removes an order or reduces it, and says so.  This
\* is where the engine depends on the venue: a partial fill must not be
\* reported with another status than PARTIALLY_FILLED.
LEMMA MarketKeeps ==
  ASSUME TypeOK, OrderIdsInv, "pending_status" \notin VenueMay,
         Market, UNCHANGED <<strategy, rings, fixapp, process>>
  PROVE  OrderIdsInv'
  <1>0. UNCHANGED <<oms, next_id, first_id, ordRing, sent_cmd, execRing>>
    BY DEF strategy, rings, fixapp, process
  <1>1. ASSUME NEW o \in working, NEW et \in ExecTypes, NEW st \in OrdStatuses,
               working' = working \ {o}, UNCHANGED to_exch,
               report(ReportOn(o, o.cl_ord_id, et, st, 0))
        PROVE  OrderIdsInv'
    <2> DEFINE r == ReportOn(o, o.cl_ord_id, et, st, 0)
    <2>1. PipeIds' \subseteq PipeIds
      BY <1>0, <1>1 DEF PipeIds
    <2>2. /\ o \in Order /\ o.cl_ord_id \in Nat /\ o.cl_ord_id \in Drawn
          /\ o.cl_ord_id \notin PipeIds'
          /\ \A p \in working : p.cl_ord_id = o.cl_ord_id => p = o
      BY <2>1, RestingOrder
    <2>3. r \in ReportMessage /\ r.ClOrdID = o.cl_ord_id
      BY <2>2, ReportTypes DEF ReportOn
    <2>4. WorkingDistinct'
      BY <1>1, StillDistinct
    <2>5. \A p \in working' : /\ p.cl_ord_id \in Drawn
                              /\ p.cl_ord_id \notin PipeIds'
                              /\ Owns(p.cl_ord_id, p.symbol_id, p.side)
                              /\ p \in working
                              /\ p.cl_ord_id # o.cl_ord_id
      BY <1>1, <2>1, <2>2, RestingOrder
    <2>6. from_exch' = from_exch \/ from_exch' = Append(from_exch, r)
      BY <1>1 DEF report
    <2> HIDE DEF r
    <2> QED BY <1>0, <1>1, <2>2, <2>3, <2>4, <2>5, <2>6, VenueKeeps
  <1>2. ASSUME NEW o \in working, PartialFill(o)
        PROVE  OrderIdsInv'
    <2>0. to_exch' = to_exch
      BY <1>2 DEF PartialFill
    <2>1. PipeIds' \subseteq PipeIds
      BY <1>0, <2>0 DEF PipeIds
    <2>2. /\ o \in Order /\ o.cl_ord_id \in Nat /\ o.cl_ord_id \in Drawn
          /\ o.cl_ord_id \notin PipeIds'
          /\ Owns(o.cl_ord_id, o.symbol_id, o.side)
          /\ \A p \in working : p.cl_ord_id = o.cl_ord_id => p = o
      BY <2>1, RestingOrder
    <2>3. PICK left \in 1 .. o.leaves - 1 :
            /\ working' = (working \ {o}) \cup {[o EXCEPT !.leaves = left]}
            /\ report(ReportOn(o, o.cl_ord_id, "TRADE", "PARTIALLY_FILLED", left))
      BY <1>2 DEF PartialFill, PartialStatuses
    <2> DEFINE n == [o EXCEPT !.leaves = left]
               r == ReportOn(o, o.cl_ord_id, "TRADE", "PARTIALLY_FILLED", left)
    <2>4. /\ n.cl_ord_id = o.cl_ord_id /\ n.symbol_id = o.symbol_id
          /\ n.side = o.side
      BY <2>2 DEF Order
    <2>5. left \in Nat
      BY <2>2, <2>3 DEF Order
    <2>6. r \in ReportMessage /\ r.ClOrdID = o.cl_ord_id
      BY <2>2, <2>5, ReportTypes DEF ReportOn, ExecTypes, OrdStatuses
    <2>7. exec_kind(r) \notin Terminal
      BY DEF exec_kind, ReportOn, Terminal
    <2> HIDE DEF n, r
    <2>8. working' = (working \ {o}) \cup {n}
      BY <2>3 DEF n
    <2>9. WorkingDistinct'
      BY <2>2, <2>4, <2>8 DEF OrderIdsInv, WorkingDistinct
    <2>10. ASSUME NEW p \in working'
           PROVE  /\ p.cl_ord_id \in Drawn
                  /\ p.cl_ord_id \notin PipeIds'
                  /\ Owns(p.cl_ord_id, p.symbol_id, p.side)
                  /\ \E q \in working : q.cl_ord_id = p.cl_ord_id
      <3>1. CASE p \in working
        BY <2>1, <3>1, RestingOrder
      <3>2. CASE p = n
        BY <2>2, <2>4, <3>2
      <3> QED BY <2>8, <3>1, <3>2
    <2>11. from_exch' = from_exch \/ from_exch' = Append(from_exch, r)
      BY <2>3 DEF report, r
    <2> QED BY <1>0, <2>0, <2>2, <2>6, <2>7, <2>9, <2>10, <2>11, VenueKeeps
  <1>3. ASSUME NEW o \in working, Fill(o) PROVE OrderIdsInv'
    BY <1>1, <1>3 DEF Fill, ExecTypes, OrdStatuses
  <1>4. ASSUME NEW o \in working, NEW b, NEW et \in {"CANCELED", "EXPIRED"},
               GoAway(o, b, et)
        PROVE  OrderIdsInv'
    BY <1>1, <1>4 DEF GoAway, ExecTypes, OrdStatuses
  <1>5. CASE Stray
    <2>1. PICK sym \in Syms, k \in StrayKinds :
            report([MsgType |-> "8", ClOrdID |-> 0, ExecType |-> k[1],
                    OrdStatus |-> k[2], Side |-> "Buy", Symbol |-> sym,
                    LeavesQty |-> 0])
      BY <1>5 DEF Stray
    <2> DEFINE r == [MsgType |-> "8", ClOrdID |-> 0, ExecType |-> k[1],
                     OrdStatus |-> k[2], Side |-> "Buy", Symbol |-> sym,
                     LeavesQty |-> 0]
    <2>2. r \in ReportMessage /\ r.ClOrdID = 0
      BY <2>1 DEF StrayKinds, ExecTypes, OrdStatuses, ReportMessage, Sides
    <2>3. working' = working /\ to_exch' = to_exch
      BY <1>5 DEF Stray
    <2>4. PipeIds' \subseteq PipeIds
      BY <1>0, <2>3 DEF PipeIds
    <2>5. 0 \notin PipeIds /\ \A p \in working : p.cl_ord_id # 0
      BY DEF OrderIdsInv, IdsKnown, PipeIds, Drawn
    <2>6. WorkingDistinct'
      BY <2>3, StillDistinct
    <2>7. \A p \in working' : /\ p.cl_ord_id \in Drawn
                              /\ p.cl_ord_id \notin PipeIds'
                              /\ Owns(p.cl_ord_id, p.symbol_id, p.side)
                              /\ p \in working
                              /\ p.cl_ord_id # 0
      BY <2>3, <2>4, <2>5, RestingOrder
    <2>8. from_exch' = from_exch \/ from_exch' = Append(from_exch, r)
      BY <2>1 DEF report
    <2> HIDE DEF r
    <2> QED BY <1>0, <2>2, <2>3, <2>4, <2>5, <2>6, <2>7, <2>8, VenueKeeps
  <1> QED BY <1>2, <1>3, <1>4, <1>5 DEF Market

\* The reader: a report moves from the wire to the ring, or is dropped.
LEMMA FromAppKeeps ==
  ASSUME TypeOK, OrderIdsInv, FromApp, UNCHANGED <<strategy, working, process>>
  PROVE  OrderIdsInv'
  <1> DEFINE m == Head(from_exch)
             e == exec_event(m)
  <1>0. UNCHANGED <<oms, next_id, first_id, ordRing, sent_cmd, to_exch, working>>
    BY DEF FromApp, strategy, fixapp, process
  <1>1. PipeIds' = PipeIds /\ Drawn' = Drawn
    BY <1>0 DEF PipeIds, Drawn
  <1>2. /\ 1 \in 1 .. Len(from_exch) /\ m = from_exch[1] /\ m \in ReportMessage
        /\ \A k \in 1 .. Len(from_exch') :
             k + 1 \in 1 .. Len(from_exch) /\ from_exch'[k] = from_exch[k + 1]
    BY CoreTypes, TailFacts DEF FromApp
  <1>3. e \in ExecEvent
    <2>1. exec_kind(m) \in ExecKinds
      BY DEF exec_kind, ExecKinds
    <2>2. symbol_id(m.Symbol) \in Syms
      BY <1>2 DEF symbol_id, ReportMessage
    <2> QED BY <1>2, <2>1, <2>2 DEF exec_event, ExecEvent, ReportMessage
  <1>4. e.cl_ord_id = from_exch[1].ClOrdID /\ e.kind = exec_kind(from_exch[1])
    BY <1>2 DEF exec_event
  <1>5. \/ execRing' = execRing
        \/ from_exch[1].MsgType = "8" /\ execRing' = Append(execRing, e)
    BY <1>2 DEF FromApp, try_push
  <1>6. ASSUME NEW k \in 1 .. Len(execRing')
        PROVE  \/ \E j \in 1 .. Len(execRing) : execRing'[k] = execRing[j]
               \/ from_exch[1].MsgType = "8" /\ execRing'[k] = e
    <2> HIDE DEF e
    <2> QED BY <1>3, <1>5, CoreTypes, AppendFacts
  <1> HIDE DEF m, e
  <1>7. IdsKnown'
    <2>1. IdsKnown
      BY DEF OrderIdsInv
    <2>2. \A k \in 1 .. Len(execRing') : execRing'[k].cl_ord_id \in Drawn \cup {0}
      BY <1>2, <1>4, <1>6, <2>1 DEF IdsKnown
    <2>3. \A k \in 1 .. Len(from_exch') : from_exch'[k].ClOrdID \in Drawn \cup {0}
      BY <1>2, <2>1 DEF IdsKnown
    <2> QED BY <1>0, <1>1, <2>1, <2>2, <2>3 DEF IdsKnown
  <1>8. Answered'
    <2>1. Answered
      BY DEF OrderIdsInv
    <2>2. \A k \in 1 .. Len(execRing') : execRing'[k].cl_ord_id \notin PipeIds
      BY <1>2, <1>4, <1>6, <2>1 DEF Answered
    <2>3. \A k \in 1 .. Len(from_exch') : from_exch'[k].ClOrdID \notin PipeIds
      BY <1>2, <2>1 DEF Answered
    <2> QED BY <1>0, <1>1, <2>1, <2>2, <2>3 DEF Answered
  <1>9. TerminalIsGone'
    <2>1. TerminalIsGone
      BY DEF OrderIdsInv
    <2>2. \A k \in 1 .. Len(execRing') :
            execRing'[k].kind \in Terminal =>
              \A o \in working : o.cl_ord_id # execRing'[k].cl_ord_id
      BY <1>2, <1>4, <1>6, <2>1 DEF TerminalIsGone
    <2>3. \A k \in 1 .. Len(from_exch') :
            from_exch'[k].MsgType = "8" /\ exec_kind(from_exch'[k]) \in Terminal =>
              \A o \in working : o.cl_ord_id # from_exch'[k].ClOrdID
      BY <1>2, <2>1 DEF TerminalIsGone
    <2> QED BY <1>0, <2>2, <2>3 DEF TerminalIsGone
  <1>10. PipeDistinct' /\ WorkingDistinct'
    BY <1>0 DEF OrderIdsInv, PipeDistinct, WorkingDistinct
  <1>11. Owned'
    BY <1>0 DEF OrderIdsInv, Owned, Owns
  <1>12. CancelsAnswered'
    BY <1>0, <1>1 DEF OrderIdsInv, CancelsAnswered
  <1> QED BY <1>7, <1>8, <1>9, <1>10, <1>11, <1>12 DEF OrderIdsInv

\* The pipeline only loses commands: enough for the parts of the invariant
\* that say where an id is not.
LEMMA PipeShrinks ==
  ASSUME OrderIdsInv, PipeIds' \subseteq PipeIds,
         UNCHANGED <<oms, next_id, execRing, working>>,
         from_exch' = from_exch \/ from_exch' = <<>>
  PROVE  Answered' /\ WorkingDistinct' /\ TerminalIsGone'
  <1>1. CASE from_exch' = from_exch
    BY <1>1 DEF OrderIdsInv, Answered, WorkingDistinct, TerminalIsGone
  <1>2. CASE from_exch' = <<>>
    BY <1>2 DEF OrderIdsInv, Answered, WorkingDistinct, TerminalIsGone
  <1> QED BY <1>1, <1>2

\* The sender takes a command: its id moves from the ring to the sender.
LEMMA SenderPopKeeps ==
  ASSUME TypeOK, OrderIdsInv, SenderPop, UNCHANGED <<strategy, working, process>>
  PROVE  OrderIdsInv'
  <1>0. /\ UNCHANGED <<oms, next_id, first_id, to_exch, from_exch, execRing, working>>
        /\ sent_cmd = NoCmd /\ sent_cmd' = ordRing[1]
    BY CoreTypes, TailFacts DEF SenderPop, strategy, wire, process
  <1>1. /\ 1 \in 1 .. Len(ordRing) /\ Len(ordRing) \in Nat
        /\ \A k \in 1 .. Len(ordRing') :
             k + 1 \in 2 .. Len(ordRing) /\ ordRing'[k] = ordRing[k + 1]
    BY CoreTypes, TailFacts DEF SenderPop
  <1>2. PipeIds' \subseteq PipeIds
    <2>1. \A k \in 1 .. Len(ordRing) : ordRing[k].cl_ord_id \in PipeIds
      BY DEF PipeIds
    <2>2. \A k \in 1 .. Len(to_exch) : to_exch[k].ClOrdID \in PipeIds
      BY DEF PipeIds
    <2>3. \A k \in 1 .. Len(ordRing') : ordRing'[k].cl_ord_id \in PipeIds
      BY <1>1, <2>1
    <2>4. ordRing[1].cl_ord_id \in PipeIds
      BY <1>1, <2>1
    <2>5. PipeIds' \subseteq {ordRing'[k].cl_ord_id : k \in 1 .. Len(ordRing')}
                       \cup {to_exch[k].ClOrdID : k \in 1 .. Len(to_exch)}
                       \cup {ordRing[1].cl_ord_id}
      BY <1>0 DEF PipeIds
    <2> QED BY <2>2, <2>3, <2>4, <2>5
  <1>3. Drawn' = Drawn
    BY <1>0 DEF Drawn
  <1>4. IdsKnown'
    BY <1>0, <1>1, <1>3 DEF OrderIdsInv, IdsKnown
  <1>5. PipeDistinct'
    <2>1. PipeDistinct
      BY DEF OrderIdsInv
    <2>2. ASSUME NEW j \in 1 .. Len(ordRing'), NEW k \in 1 .. Len(ordRing'),
                 ordRing'[j].cl_ord_id = ordRing'[k].cl_ord_id
          PROVE  j = k
      <3>1. j + 1 = k + 1
        BY <1>1, <2>1, <2>2 DEF PipeDistinct
      <3> QED BY <3>1
    <2>3. \A j \in 1 .. Len(ordRing') : ordRing'[j].cl_ord_id # ordRing[1].cl_ord_id
      BY <1>1, <2>1 DEF PipeDistinct
    <2>4. \A j \in 1 .. Len(ordRing'), k \in 1 .. Len(to_exch) :
            ordRing'[j].cl_ord_id # to_exch[k].ClOrdID
      BY <1>1, <2>1 DEF PipeDistinct
    <2>5. \A k \in 1 .. Len(to_exch) : to_exch[k].ClOrdID # ordRing[1].cl_ord_id
      BY <1>1, <2>1 DEF PipeDistinct
    <2> QED BY <1>0, <2>1, <2>2, <2>3, <2>4, <2>5 DEF PipeDistinct
  <1>6. Answered' /\ WorkingDistinct' /\ TerminalIsGone'
    BY <1>0, <1>2, PipeShrinks
  <1>7. Owned'
    BY <1>0, <1>1 DEF OrderIdsInv, Owned, Owns
  <1>8. CancelsAnswered'
    BY <1>0, <1>1, <1>2 DEF OrderIdsInv, CancelsAnswered
  <1> QED BY <1>4, <1>5, <1>6, <1>7, <1>8 DEF OrderIdsInv

\* The sender sends or drops it: the id moves to the wire or is forgotten.
LEMMA SenderSendKeeps ==
  ASSUME TypeOK, OrderIdsInv, SenderSend, UNCHANGED <<strategy, working, process>>
  PROVE  OrderIdsInv'
  <1> DEFINE m == fix_message(sent_cmd)
  <1>0. /\ UNCHANGED <<oms, next_id, first_id, ordRing, from_exch, execRing, working>>
        /\ sent_cmd # NoCmd /\ sent_cmd' = NoCmd
    BY DEF SenderSend, strategy, rings, process
  <1>1. to_exch' = to_exch \/ to_exch' = Append(to_exch, m)
    BY DEF SenderSend, sendToTarget
  <1>2. /\ m \in OrderMessage /\ m.ClOrdID = sent_cmd.cl_ord_id
        /\ m.MsgType = "D" => sent_cmd.type = "New"
        /\ m.MsgType = "F" =>
             sent_cmd.type = "Cancel" /\ m.OrigClOrdID = sent_cmd.orig_cl_ord_id
        /\ m.Symbol = sent_cmd.symbol_id /\ m.Side = sent_cmd.side
    BY CoreTypes, MessageType DEF fix_message, OrderCmd
  <1> HIDE DEF m
  <1>3. \A k \in 1 .. Len(to_exch') :
          \/ k \in 1 .. Len(to_exch) /\ to_exch'[k] = to_exch[k]
          \/ k = Len(to_exch) + 1 /\ to_exch'[k] = m
    <2>1. to_exch \in Seq(OrderMessage)
      BY CoreTypes
    <2>2. CASE to_exch' = to_exch
      BY <2>1, <2>2
    <2>3. CASE to_exch' = Append(to_exch, m)
      BY <1>2, <2>1, <2>3, AppendFacts
    <2> QED BY <1>1, <2>2, <2>3
  <1>4. PipeIds' \subseteq PipeIds
    <2>1. sent_cmd.cl_ord_id \in PipeIds
      BY <1>0 DEF PipeIds
    <2>2. \A k \in 1 .. Len(to_exch') : to_exch'[k].ClOrdID \in PipeIds
      <3>1. \A k \in 1 .. Len(to_exch) : to_exch[k].ClOrdID \in PipeIds
        BY DEF PipeIds
      <3> QED BY <1>2, <1>3, <2>1, <3>1
    <2>3. \A k \in 1 .. Len(ordRing') : ordRing'[k].cl_ord_id \in PipeIds
      BY <1>0 DEF PipeIds
    <2>4. PipeIds' = {ordRing'[k].cl_ord_id : k \in 1 .. Len(ordRing')}
                       \cup {to_exch'[k].ClOrdID : k \in 1 .. Len(to_exch')}
      BY <1>0 DEF PipeIds, NoCmd
    <2> QED BY <2>2, <2>3, <2>4
  <1>5. Drawn' = Drawn
    BY <1>0 DEF Drawn
  <1>6. IdsKnown'
    BY <1>0, <1>2, <1>3, <1>5 DEF OrderIdsInv, IdsKnown, NoCmd
  <1>7. PipeDistinct'
    <2>1. PipeDistinct
      BY DEF OrderIdsInv
    <2>2. \A j, k \in 1 .. Len(to_exch') :
            to_exch'[j].ClOrdID = to_exch'[k].ClOrdID => j = k
      BY <1>0, <1>2, <1>3, <2>1 DEF PipeDistinct
    <2>3. \A j \in 1 .. Len(ordRing), k \in 1 .. Len(to_exch') :
            ordRing[j].cl_ord_id # to_exch'[k].ClOrdID
      BY <1>0, <1>2, <1>3, <2>1 DEF PipeDistinct
    <2> QED BY <1>0, <2>1, <2>2, <2>3 DEF PipeDistinct, NoCmd
  <1>8. Answered' /\ WorkingDistinct' /\ TerminalIsGone'
    BY <1>0, <1>4, PipeShrinks
  <1>9. Owned'
    <2>1. Owned
      BY DEF OrderIdsInv
    <2>2. ASSUME NEW k \in 1 .. Len(to_exch'), to_exch'[k].MsgType = "D"
          PROVE  Owns(to_exch'[k].ClOrdID, to_exch'[k].Symbol, to_exch'[k].Side)
      BY <1>0, <1>2, <1>3, <2>1, <2>2 DEF Owned
    <2> QED BY <1>0, <2>1, <2>2 DEF Owned, Owns, NoCmd
  <1>10. CancelsAnswered'
    <2>1. CancelsAnswered
      BY DEF OrderIdsInv
    <2>2. ASSUME NEW k \in 1 .. Len(to_exch'), to_exch'[k].MsgType = "F"
          PROVE  /\ to_exch'[k].OrigClOrdID \notin PipeIds
                 /\ to_exch'[k].OrigClOrdID < next_id
      BY <1>0, <1>2, <1>3, <2>1, <2>2 DEF CancelsAnswered
    <2> QED BY <1>0, <1>4, <2>1, <2>2 DEF CancelsAnswered, NoCmd
  <1> QED BY <1>6, <1>7, <1>8, <1>9, <1>10 DEF OrderIdsInv

\* A disconnect cuts the wire short and loses reports.
LEMMA DisconnectKeeps ==
  ASSUME TypeOK, OrderIdsInv, Disconnect,
         UNCHANGED <<strategy, rings, fixapp, working, process>>
  PROVE  OrderIdsInv'
  <1>0. /\ UNCHANGED <<oms, next_id, first_id, ordRing, sent_cmd, execRing, working>>
        /\ from_exch' = <<>>
    BY DEF Disconnect, strategy, rings, fixapp, process
  <1>1. \A k \in 1 .. Len(to_exch') :
          k \in 1 .. Len(to_exch) /\ to_exch'[k] = to_exch[k]
    BY CoreTypes, PrefixFacts DEF Disconnect
  <1>2. PipeIds' \subseteq PipeIds
    BY <1>0, <1>1 DEF PipeIds
  <1>3. Drawn' = Drawn
    BY <1>0 DEF Drawn
  <1>4. IdsKnown'
    BY <1>0, <1>1, <1>3 DEF OrderIdsInv, IdsKnown
  <1>5. PipeDistinct'
    BY <1>0, <1>1 DEF OrderIdsInv, PipeDistinct
  <1>6. Answered' /\ WorkingDistinct' /\ TerminalIsGone'
    BY <1>0, <1>2, PipeShrinks
  <1>7. Owned'
    BY <1>0, <1>1 DEF OrderIdsInv, Owned, Owns
  <1>8. CancelsAnswered'
    BY <1>0, <1>1, <1>2 DEF OrderIdsInv, CancelsAnswered
  <1> QED BY <1>4, <1>5, <1>6, <1>7, <1>8 DEF OrderIdsInv

\* A new process: what is left of the old one, at the venue and on the wire,
\* has ids below the new seed, so its slots owe it nothing.
LEMMA RestartKeeps ==
  ASSUME TypeOK, OrderIdsInv, Restart
  PROVE  OrderIdsInv'
  <1>0. /\ next_id' = next_id /\ first_id' = next_id /\ working' = working
        /\ ordRing' = <<>> /\ execRing' = <<>> /\ from_exch' = <<>>
        /\ sent_cmd' = NoCmd
        /\ oms' = [s \in Syms |-> [d \in Sides |-> NoQuote]]
    BY DEF Restart
  <1>1. \A k \in 1 .. Len(to_exch') :
          k \in 1 .. Len(to_exch) /\ to_exch'[k] = to_exch[k]
    BY CoreTypes, PrefixFacts DEF Restart
  <1>2. \A k \in 1 .. Len(to_exch) : to_exch[k].ClOrdID \in PipeIds
    BY DEF PipeIds
  <1>3. PipeIds' \subseteq PipeIds
    BY <1>0, <1>1, <1>2 DEF PipeIds
  <1>4. Drawn' = Drawn
    BY <1>0 DEF Drawn
  <1>5. \A s \in Syms, d \in Sides :
          oms'[s][d].cl_ord_id = 0 /\ oms'[s][d].state = "None"
    BY <1>0 DEF NoQuote
  <1>6. IdsKnown'
    <2>1. next_id > 0
      BY CoreTypes
    <2> QED BY <1>0, <1>1, <1>4, <1>5, <2>1 DEF OrderIdsInv, IdsKnown
  <1>7. PipeDistinct'
    BY <1>0, <1>1 DEF OrderIdsInv, PipeDistinct
  <1>8. Answered' /\ WorkingDistinct' /\ TerminalIsGone'
    BY <1>0, <1>3, <1>5
       DEF OrderIdsInv, Answered, WorkingDistinct, TerminalIsGone
  <1>9. Owned'
    <2>1. \A id \in Drawn : ~(id >= next_id)
      BY CoreTypes DEF Drawn
    <2>2. \A k \in 1 .. Len(to_exch') : to_exch'[k].ClOrdID \in Drawn
      BY <1>1 DEF OrderIdsInv, IdsKnown
    <2>3. \A o \in working : o.cl_ord_id \in Drawn
      BY DEF OrderIdsInv, IdsKnown
    <2> QED BY <1>0, <2>1, <2>2, <2>3 DEF Owned, Owns
  <1>10. CancelsAnswered'
    BY <1>0, <1>1, <1>3 DEF OrderIdsInv, CancelsAnswered
  <1> QED BY <1>6, <1>7, <1>8, <1>9, <1>10 DEF OrderIdsInv

\* The strategy takes a report: a slot is freed only for an order that is gone,
\* and made Live only for one the venue has answered.
LEMMA PopExecKeeps ==
  ASSUME TypeOK, OrderIdsInv, PopExec, UNCHANGED <<fixapp, wire, working, process>>
  PROVE  OrderIdsInv'
  <1> DEFINE e == execRing[1]
  <1>0. /\ UNCHANGED <<next_id, first_id, ordRing, sent_cmd, to_exch, from_exch, working>>
        /\ oms' = on_exec(oms, e)
    BY CoreTypes, TailFacts DEF PopExec, fixapp, wire, process
  <1>1. /\ 1 \in 1 .. Len(execRing) /\ e \in ExecEvent
        /\ \A k \in 1 .. Len(execRing') :
             k + 1 \in 1 .. Len(execRing) /\ execRing'[k] = execRing[k + 1]
    BY CoreTypes, TailFacts DEF PopExec
  <1>2. PipeIds' = PipeIds /\ Drawn' = Drawn
    BY <1>0 DEF PipeIds, Drawn
  <1>3. /\ e.cl_ord_id \notin PipeIds
        /\ e.kind \in Terminal => \A o \in working : o.cl_ord_id # e.cl_ord_id
    BY <1>1 DEF OrderIdsInv, Answered, TerminalIsGone
  <1> HIDE DEF e
  <1>4. ASSUME NEW x \in Syms, NEW y \in Sides
        PROVE  \/ oms'[x][y] = oms[x][y]
               \/ /\ oms[x][y].cl_ord_id = e.cl_ord_id
                  /\ \/ e.kind \in Terminal /\ oms'[x][y] = NoQuote
                     \/ /\ oms'[x][y].cl_ord_id = oms[x][y].cl_ord_id
                        /\ oms'[x][y].state = "Live"
                     \/ /\ oms'[x][y].cl_ord_id = oms[x][y].cl_ord_id
                        /\ oms'[x][y].state = oms[x][y].state
    <2>1. oms \in [Syms -> [Sides -> Quote]]
      BY CoreTypes
    <2> QED BY <1>0, <1>1, <2>1, OnExecSlot
  <1>5. IdsKnown'
    <2>1. IdsKnown
      BY DEF OrderIdsInv
    <2>2. \A x \in Syms, y \in Sides : oms'[x][y].cl_ord_id < next_id
      <3>1. next_id \in Nat /\ 0 < next_id
        BY CoreTypes
      <3>2. ASSUME NEW x \in Syms, NEW y \in Sides
            PROVE  oms'[x][y].cl_ord_id \in {0, oms[x][y].cl_ord_id}
        BY <1>4 DEF NoQuote
      <3> QED BY <2>1, <3>1, <3>2 DEF IdsKnown
    <2>3. \A k \in 1 .. Len(execRing') : execRing'[k].cl_ord_id \in Drawn \cup {0}
      BY <1>1, <2>1 DEF IdsKnown
    <2> QED BY <1>0, <1>2, <2>1, <2>2, <2>3 DEF IdsKnown
  <1>6. Answered'
    <2>1. Answered
      BY DEF OrderIdsInv
    <2>2. ASSUME NEW x \in Syms, NEW y \in Sides,
                 oms'[x][y].state \in {"Live", "PendingCancel"}
          PROVE  oms'[x][y].cl_ord_id \notin PipeIds
      BY <1>3, <1>4, <2>1, <2>2 DEF Answered, NoQuote
    <2>3. \A k \in 1 .. Len(execRing') : execRing'[k].cl_ord_id \notin PipeIds
      BY <1>1, <2>1 DEF Answered
    <2> QED BY <1>0, <1>2, <2>1, <2>2, <2>3 DEF Answered
  <1>7. PipeDistinct' /\ WorkingDistinct'
    BY <1>0 DEF OrderIdsInv, PipeDistinct, WorkingDistinct
  <1>8. TerminalIsGone'
    BY <1>0, <1>1 DEF OrderIdsInv, TerminalIsGone
  <1>9. Owned'
    <2>1. ASSUME NEW id, NEW x \in Syms, NEW y \in Sides, Owns(id, x, y),
                 id \in PipeIds \/ \E o \in working : o.cl_ord_id = id
          PROVE  id >= first_id =>
                   oms'[x][y].cl_ord_id = id /\ oms'[x][y].state # "None"
      BY <1>3, <1>4, <2>1 DEF Owns
    <2>2. Owned
      BY DEF OrderIdsInv
    <2>3. ASSUME NEW k \in 1 .. Len(ordRing'), ordRing'[k].type = "New"
          PROVE  LET x == ordRing'[k].symbol_id
                     y == ordRing'[k].side
                 IN ordRing'[k].cl_ord_id >= first_id =>
                      /\ oms'[x][y].cl_ord_id = ordRing'[k].cl_ord_id
                      /\ oms'[x][y].state # "None"
      <3>1. /\ ordRing[k].cl_ord_id \in PipeIds
            /\ ordRing[k].symbol_id \in Syms /\ ordRing[k].side \in Sides
        <4>1. k \in 1 .. Len(ordRing) /\ ordRing[k] \in OrderCmd
          BY <1>0, CoreTypes
        <4> QED BY <4>1 DEF PipeIds, OrderCmd
      <3> QED BY <1>0, <2>1, <2>2, <2>3, <3>1 DEF Owned
    <2>4. ASSUME sent_cmd' # NoCmd, sent_cmd'.type = "New"
          PROVE  LET x == sent_cmd'.symbol_id
                     y == sent_cmd'.side
                 IN sent_cmd'.cl_ord_id >= first_id =>
                      /\ oms'[x][y].cl_ord_id = sent_cmd'.cl_ord_id
                      /\ oms'[x][y].state # "None"
      <3>1. /\ sent_cmd.cl_ord_id \in PipeIds
            /\ sent_cmd.symbol_id \in Syms /\ sent_cmd.side \in Sides
        BY <1>0, <2>4, CoreTypes DEF PipeIds, OrderCmd
      <3> QED BY <1>0, <2>1, <2>2, <2>4, <3>1 DEF Owned
    <2>5. ASSUME NEW k \in 1 .. Len(to_exch'), to_exch'[k].MsgType = "D"
          PROVE  LET x == to_exch'[k].Symbol
                     y == to_exch'[k].Side
                 IN to_exch'[k].ClOrdID >= first_id =>
                      /\ oms'[x][y].cl_ord_id = to_exch'[k].ClOrdID
                      /\ oms'[x][y].state # "None"
      <3>1. /\ to_exch[k].ClOrdID \in PipeIds
            /\ to_exch[k].Symbol \in Syms /\ to_exch[k].Side \in Sides
        <4>1. k \in 1 .. Len(to_exch) /\ to_exch[k] \in OrderMessage
          BY <1>0, CoreTypes
        <4> QED BY <4>1 DEF PipeIds, OrderMessage
      <3> QED BY <1>0, <2>1, <2>2, <2>5, <3>1 DEF Owned
    <2>6. ASSUME NEW o \in working'
          PROVE  o.cl_ord_id >= first_id =>
                   /\ oms'[o.symbol_id][o.side].cl_ord_id = o.cl_ord_id
                   /\ oms'[o.symbol_id][o.side].state # "None"
      <3>1. o.symbol_id \in Syms /\ o.side \in Sides
        BY <1>0, CoreTypes DEF Order
      <3> QED BY <1>0, <2>1, <2>2, <3>1 DEF Owned
    <2> QED BY <1>0, <2>3, <2>4, <2>5, <2>6 DEF Owned, Owns
  <1>10. CancelsAnswered'
    BY <1>0, <1>2 DEF OrderIdsInv, CancelsAnswered
  <1> QED BY <1>5, <1>6, <1>7, <1>8, <1>9, <1>10 DEF OrderIdsInv

\* A command goes into the ring under a fresh id: a cancel of a Live quote, or
\* an order for an empty slot.
LEMMA EmitKeeps ==
  ASSUME TypeOK, OrderIdsInv, NEW c \in OrderCmd, NEW quote \in Quote,
         emit(c, quote), c.cl_ord_id = next_id,
         UNCHANGED <<sent_cmd, to_exch, from_exch, execRing, working, first_id>>,
         \/ /\ c.type = "New"
            /\ oms[c.symbol_id][c.side].state = "None"
            /\ quote.cl_ord_id = next_id /\ quote.state = "PendingNew"
         \/ /\ c.type = "Cancel"
            /\ oms[c.symbol_id][c.side].state = "Live"
            /\ c.orig_cl_ord_id = oms[c.symbol_id][c.side].cl_ord_id
            /\ quote.cl_ord_id = oms[c.symbol_id][c.side].cl_ord_id
            /\ quote.state = "PendingCancel"
  PROVE  OrderIdsInv'
  <1> DEFINE x == c.symbol_id
             y == c.side
  <1>0. x \in Syms /\ y \in Sides
    BY DEF OrderCmd
  <1>1. next_id \in Nat /\ next_id > 0 /\ next_id' = next_id + 1
    BY CoreTypes DEF emit
  <1>2. Drawn \subseteq Drawn' /\ next_id \in Drawn' /\ next_id \notin Drawn
    BY <1>1 DEF Drawn
  <1>3. /\ IdsKnown /\ PipeDistinct /\ Answered /\ WorkingDistinct
        /\ TerminalIsGone /\ Owned /\ CancelsAnswered
    BY DEF OrderIdsInv
  <1>4. \A id \in PipeIds : id \in Drawn
    BY <1>3 DEF IdsKnown, PipeIds
  <1>5. CASE UNCHANGED <<ordRing, oms>>
    <2>1. PipeIds' = PipeIds
      BY <1>5 DEF PipeIds
    <2>2. IdsKnown'
      <3>1. \A p \in Syms, d \in Sides : oms[p][d].cl_ord_id < next_id + 1
        <4>1. \A p \in Syms, d \in Sides : oms[p][d].cl_ord_id \in Nat
          BY CoreTypes DEF Quote
        <4> QED BY <1>1, <1>3, <4>1 DEF IdsKnown
      <3> QED BY <1>1, <1>2, <1>3, <1>5, <3>1 DEF IdsKnown
    <2>3. PipeDistinct' /\ WorkingDistinct' /\ TerminalIsGone'
      BY <1>3, <1>5 DEF PipeDistinct, WorkingDistinct, TerminalIsGone
    <2>4. Answered'
      BY <1>3, <1>5, <2>1 DEF Answered
    <2>5. Owned'
      BY <1>3, <1>5 DEF Owned, Owns
    <2>6. CancelsAnswered'
      <3>1. \A n \in Nat : n < next_id => n < next_id'
        BY <1>1
      <3>2. \A k \in 1 .. Len(ordRing) : ordRing[k].orig_cl_ord_id \in Nat
        BY ElementTypes
      <3>3. sent_cmd.orig_cl_ord_id \in Nat
        BY CoreTypes DEF OrderCmd
      <3>4. \A k \in 1 .. Len(to_exch) : to_exch[k].OrigClOrdID \in Nat
        BY ElementTypes
      <3> QED BY <1>3, <1>5, <2>1, <3>1, <3>2, <3>3, <3>4 DEF CancelsAnswered
    <2> QED BY <2>2, <2>3, <2>4, <2>5, <2>6 DEF OrderIdsInv
  <1>6. CASE /\ ordRing' = Append(ordRing, c)
             /\ oms' = [oms EXCEPT ![x][y] = quote]
    <2>1. \A k \in 1 .. Len(ordRing') :
            \/ k \in 1 .. Len(ordRing) /\ ordRing'[k] = ordRing[k]
            \/ k = Len(ordRing) + 1 /\ ordRing'[k] = c
      BY <1>6, CoreTypes, AppendFacts
    <2>2. \A id \in PipeIds' : id \in PipeIds \/ id = next_id
      <3>1. \A k \in 1 .. Len(ordRing) : ordRing[k].cl_ord_id \in PipeIds
        BY DEF PipeIds
      <3>2. \A k \in 1 .. Len(ordRing') :
              ordRing'[k].cl_ord_id \in PipeIds \/ ordRing'[k].cl_ord_id = next_id
        BY <2>1, <3>1
      <3>3. \A id \in PipeIds' : \/ \E k \in 1 .. Len(ordRing') : ordRing'[k].cl_ord_id = id
                                 \/ id \in PipeIds
        BY DEF PipeIds
      <3> QED BY <3>2, <3>3
    <2>3. \A id \in Drawn \cup {0} : id \notin PipeIds => id \notin PipeIds'
      BY <1>1, <1>2, <2>2
    <2>4. \A n \in Nat : n < next_id /\ n \notin PipeIds => n \notin PipeIds'
      BY <1>1, <2>2
    <2>5. oms'[x][y] = quote
      BY <1>0, <1>6, CoreTypes
    <2>6. \A p \in Syms, d \in Sides :
            oms'[p][d] = IF p = x /\ d = y THEN quote ELSE oms[p][d]
      BY <1>0, <1>6, CoreTypes
    <2>7. \A p \in Syms, d \in Sides : oms[p][d].cl_ord_id \in Nat
      BY CoreTypes DEF Quote
    <2>8. IdsKnown'
      <3>1. \A p \in Syms, d \in Sides : oms'[p][d].cl_ord_id < next_id'
        <4>1. \A p \in Syms, d \in Sides : oms[p][d].cl_ord_id < next_id
          BY <1>3 DEF IdsKnown
        <4>2. quote.cl_ord_id < next_id'
          BY <1>0, <1>1, <2>7, <4>1
        <4> QED BY <1>1, <2>6, <2>7, <4>1, <4>2
      <3>2. \A k \in 1 .. Len(ordRing') : ordRing'[k].cl_ord_id \in Drawn'
        BY <1>2, <1>3, <2>1 DEF IdsKnown
      <3> QED BY <1>2, <1>3, <3>1, <3>2 DEF IdsKnown
    <2>9. PipeDistinct'
      <3>1. \A k \in 1 .. Len(ordRing) : ordRing[k].cl_ord_id # next_id
        BY <1>2, <1>3 DEF IdsKnown
      <3>2. \A k \in 1 .. Len(to_exch) : to_exch[k].ClOrdID # next_id
        BY <1>2, <1>3 DEF IdsKnown
      <3>3. sent_cmd # NoCmd => sent_cmd.cl_ord_id # next_id
        BY <1>2, <1>3 DEF IdsKnown
      <3>4. \A j, k \in 1 .. Len(ordRing') :
              ordRing'[j].cl_ord_id = ordRing'[k].cl_ord_id => j = k
        BY <1>3, <2>1, <3>1 DEF PipeDistinct
      <3>5. \A j \in 1 .. Len(ordRing'), k \in 1 .. Len(to_exch) :
              ordRing'[j].cl_ord_id # to_exch[k].ClOrdID
        BY <1>3, <2>1, <3>2 DEF PipeDistinct
      <3>6. sent_cmd # NoCmd =>
              \A j \in 1 .. Len(ordRing') : ordRing'[j].cl_ord_id # sent_cmd.cl_ord_id
        BY <1>3, <2>1, <3>3 DEF PipeDistinct
      <3> QED BY <1>3, <3>4, <3>5, <3>6 DEF PipeDistinct
    <2>10. Answered'
      <3>1. ASSUME NEW p \in Syms, NEW d \in Sides,
                   oms'[p][d].state \in {"Live", "PendingCancel"}
            PROVE  oms'[p][d].cl_ord_id \notin PipeIds'
        <4>1. /\ oms[p][d].state \in {"Live", "PendingCancel"}
              /\ oms'[p][d].cl_ord_id = oms[p][d].cl_ord_id
          BY <2>6, <3>1
        <4>2. oms[p][d].cl_ord_id \notin PipeIds /\ oms[p][d].cl_ord_id < next_id
          BY <1>3, <4>1 DEF Answered, IdsKnown
        <4> QED BY <2>4, <2>7, <4>1, <4>2
      <3>2. \A o \in working : o.cl_ord_id \notin PipeIds'
        BY <1>3, <2>3 DEF Answered, IdsKnown
      <3>3. \A k \in 1 .. Len(from_exch) : from_exch[k].ClOrdID \notin PipeIds'
        BY <1>3, <2>3 DEF Answered, IdsKnown
      <3>4. \A k \in 1 .. Len(execRing) : execRing[k].cl_ord_id \notin PipeIds'
        BY <1>3, <2>3 DEF Answered, IdsKnown
      <3> QED BY <3>1, <3>2, <3>3, <3>4 DEF Answered
    <2>11. WorkingDistinct' /\ TerminalIsGone'
      BY <1>3 DEF WorkingDistinct, TerminalIsGone
    <2>12. Owned'
      <3>1. ASSUME NEW id, NEW p \in Syms, NEW d \in Sides, Owns(id, p, d)
            PROVE  id >= first_id =>
                     oms'[p][d].cl_ord_id = id /\ oms'[p][d].state # "None"
        BY <2>6, <3>1 DEF Owns
      <3>2. ASSUME NEW k \in 1 .. Len(ordRing'), ordRing'[k].type = "New"
            PROVE  ordRing'[k].cl_ord_id >= first_id =>
                     /\ oms'[ordRing'[k].symbol_id][ordRing'[k].side].cl_ord_id
                          = ordRing'[k].cl_ord_id
                     /\ oms'[ordRing'[k].symbol_id][ordRing'[k].side].state # "None"
        <4>1. CASE k \in 1 .. Len(ordRing) /\ ordRing'[k] = ordRing[k]
          <5>1. ordRing[k].symbol_id \in Syms /\ ordRing[k].side \in Sides
            BY <4>1, ElementTypes
          <5> QED BY <1>3, <3>1, <3>2, <4>1, <5>1 DEF Owned
        <4>2. CASE ordRing'[k] = c
          BY <2>5, <3>2, <4>2
        <4> QED BY <2>1, <4>1, <4>2
      <3>3. ASSUME sent_cmd # NoCmd, sent_cmd.type = "New"
            PROVE  sent_cmd.cl_ord_id >= first_id =>
                     /\ oms'[sent_cmd.symbol_id][sent_cmd.side].cl_ord_id
                          = sent_cmd.cl_ord_id
                     /\ oms'[sent_cmd.symbol_id][sent_cmd.side].state # "None"
        <4>1. sent_cmd.symbol_id \in Syms /\ sent_cmd.side \in Sides
          BY CoreTypes DEF OrderCmd
        <4> QED BY <1>3, <3>1, <3>3, <4>1 DEF Owned
      <3>4. ASSUME NEW k \in 1 .. Len(to_exch), to_exch[k].MsgType = "D"
            PROVE  to_exch[k].ClOrdID >= first_id =>
                     /\ oms'[to_exch[k].Symbol][to_exch[k].Side].cl_ord_id
                          = to_exch[k].ClOrdID
                     /\ oms'[to_exch[k].Symbol][to_exch[k].Side].state # "None"
        <4>1. to_exch[k].Symbol \in Syms /\ to_exch[k].Side \in Sides
          BY ElementTypes
        <4> QED BY <1>3, <3>1, <3>4, <4>1 DEF Owned
      <3>5. ASSUME NEW o \in working
            PROVE  o.cl_ord_id >= first_id =>
                     /\ oms'[o.symbol_id][o.side].cl_ord_id = o.cl_ord_id
                     /\ oms'[o.symbol_id][o.side].state # "None"
        <4>1. o.symbol_id \in Syms /\ o.side \in Sides
          BY CoreTypes DEF Order
        <4> QED BY <1>3, <3>1, <4>1 DEF Owned
      <3> QED BY <3>2, <3>3, <3>4, <3>5 DEF Owned, Owns
    <2>13. CancelsAnswered'
      <3>1. \A n \in Nat : n < next_id => n < next_id'
        BY <1>1
      <3>2. ASSUME NEW k \in 1 .. Len(ordRing'), ordRing'[k].type = "Cancel"
            PROVE  /\ ordRing'[k].orig_cl_ord_id \notin PipeIds'
                   /\ ordRing'[k].orig_cl_ord_id < next_id'
        <4>1. CASE k \in 1 .. Len(ordRing) /\ ordRing'[k] = ordRing[k]
          <5>1. ordRing[k].orig_cl_ord_id \in Nat
            BY <4>1, ElementTypes
          <5> QED BY <1>3, <2>4, <3>1, <3>2, <4>1, <5>1 DEF CancelsAnswered
        <4>2. CASE ordRing'[k] = c
          <5>1. /\ c.orig_cl_ord_id = oms[x][y].cl_ord_id
                /\ oms[x][y].state = "Live" /\ oms[x][y].cl_ord_id \in Nat
            BY <1>0, <2>7, <3>2, <4>2
          <5>2. oms[x][y].cl_ord_id \notin PipeIds /\ oms[x][y].cl_ord_id < next_id
            BY <1>0, <1>3, <5>1 DEF Answered, IdsKnown
          <5> QED BY <2>4, <3>1, <4>2, <5>1, <5>2
        <4> QED BY <2>1, <4>1, <4>2
      <3>3. ASSUME sent_cmd # NoCmd, sent_cmd.type = "Cancel"
            PROVE  /\ sent_cmd.orig_cl_ord_id \notin PipeIds'
                   /\ sent_cmd.orig_cl_ord_id < next_id'
        <4>1. sent_cmd.orig_cl_ord_id \in Nat
          BY CoreTypes DEF OrderCmd
        <4> QED BY <1>3, <2>4, <3>1, <3>3, <4>1 DEF CancelsAnswered
      <3>4. ASSUME NEW k \in 1 .. Len(to_exch), to_exch[k].MsgType = "F"
            PROVE  /\ to_exch[k].OrigClOrdID \notin PipeIds'
                   /\ to_exch[k].OrigClOrdID < next_id'
        <4>1. to_exch[k].OrigClOrdID \in Nat
          BY ElementTypes
        <4> QED BY <1>3, <2>4, <3>1, <3>4, <4>1 DEF CancelsAnswered
      <3> QED BY <3>2, <3>3, <3>4 DEF CancelsAnswered
    <2> QED BY <2>8, <2>9, <2>10, <2>11, <2>12, <2>13 DEF OrderIdsInv
  <1> QED BY <1>5, <1>6 DEF emit

\* The strategy acts on one side of the book: at most one command.
LEMMA ActKeeps ==
  ASSUME TypeOK, OrderIdsInv, NEW side \in Sides, NEW px \in Int, act(side, px),
         UNCHANGED <<sent_cmd, to_exch, from_exch, execRing, working, first_id>>
  PROVE  OrderIdsInv'
  <1> DEFINE sym == plan.symbol_id
             quote == oms[sym][side]
             cancel == [type |-> "Cancel", side |-> side, symbol_id |-> sym,
                        price |-> 0, qty |-> quote.qty, cl_ord_id |-> next_id,
                        orig_cl_ord_id |-> quote.cl_ord_id]
             cancelled == [quote EXCEPT !.state = "PendingCancel"]
             order == [type |-> "New", side |-> side, symbol_id |-> sym,
                       price |-> px, qty |-> order_qty, cl_ord_id |-> next_id,
                       orig_cl_ord_id |-> 0]
             placed == [state |-> "PendingNew", cl_ord_id |-> next_id,
                        price |-> px, qty |-> order_qty]
  <1>1. sym \in Syms /\ quote \in Quote /\ next_id \in Nat /\ order_qty \in Nat
    BY ConfigAssumption DEF TypeOK, MarketMakerTypeOK, Plan
  <1>2. cancel \in OrderCmd /\ order \in OrderCmd
    BY <1>1 DEF OrderCmd, Quote
  <1>3. cancelled \in Quote /\ placed \in Quote
    BY <1>1 DEF Quote, QuoteStates
  <1>4. /\ cancelled.cl_ord_id = quote.cl_ord_id
        /\ cancelled.state = "PendingCancel"
    BY <1>1 DEF Quote
  <1>5. \/ no_command
        \/ quote.state = "Live" /\ emit(cancel, cancelled)
        \/ quote.state = "None" /\ emit(order, placed)
    BY DEF act, requote, cancel_side, cancel_cmd, place
  <1>6. CASE no_command
    BY <1>6, CoreStutter DEF no_command, core
  <1>7. CASE quote.state = "Live" /\ emit(cancel, cancelled)
    <2> HIDE DEF cancelled
    <2>1. /\ cancel.type = "Cancel" /\ cancel.cl_ord_id = next_id
          /\ cancel.symbol_id = sym /\ cancel.side = side
          /\ cancel.orig_cl_ord_id = quote.cl_ord_id
      OBVIOUS
    <2> HIDE DEF cancel
    <2> QED BY <1>2, <1>3, <1>4, <1>7, <2>1, EmitKeeps
  <1>8. CASE quote.state = "None" /\ emit(order, placed)
    <2>1. /\ order.type = "New" /\ order.cl_ord_id = next_id
          /\ order.symbol_id = sym /\ order.side = side
          /\ placed.cl_ord_id = next_id /\ placed.state = "PendingNew"
      OBVIOUS
    <2> HIDE DEF order, placed
    <2> QED BY <1>2, <1>3, <1>8, <2>1, EmitKeeps
  <1> QED BY <1>5, <1>6, <1>7, <1>8

\* Every step of the strategy thread preserves the invariant.
LEMMA StrategyKeeps ==
  ASSUME TypeOK, OrderIdsInv, StrategyStep, UNCHANGED <<fixapp, wire, working, process>>
  PROVE  OrderIdsInv'
  <1>0. UNCHANGED <<sent_cmd, to_exch, from_exch, working, first_id>>
    BY DEF fixapp, wire, process
  <1>1. CASE PopExec
    BY <1>1, PopExecKeeps
  <1>2. CASE ActBuy
    <2>1. plan.bid \in Int
      BY DEF TypeOK, MarketMakerTypeOK, Plan
    <2> QED BY <1>0, <1>2, <2>1, ActKeeps DEF ActBuy, Sides
  <1>3. CASE ActSell
    <2>1. plan.ask \in Int
      BY DEF TypeOK, MarketMakerTypeOK, Plan
    <2> QED BY <1>0, <1>3, <2>1, ActKeeps DEF ActSell, Sides
  <1>4. CASE ExecDrained \/ MdEmpty \/ SnapshotDue \/ SnapshotNotDue
    BY <1>0, <1>4, CoreStutter
       DEF ExecDrained, MdEmpty, SnapshotDue, SnapshotNotDue, rings, core
  <1>5. CASE PopMd \/ PushSnapshot
    BY <1>0, <1>5, CoreStutter DEF PopMd, PushSnapshot, core
  <1> QED BY <1>1, <1>2, <1>3, <1>4, <1>5 DEF StrategyStep

\* Every step of the engine, the session and the venue preserves the life of
\* the ids.
LEMMA NextOrderIds ==
  ASSUME "pending_status" \notin VenueMay, TypeOK, OrderIdsInv, [Next]_vars
  PROVE  OrderIdsInv'
  <1>1. CASE Strategy
    BY <1>1, StrategyKeeps DEF Strategy
  <1>2. CASE Reader
    <2>0. UNCHANGED <<strategy, working, process>>
      BY <1>2 DEF Reader
    <2>1. ASSUME NEW w \in Snapshots, OnMarketData(w) PROVE OrderIdsInv'
      BY <2>0, <2>1, CoreStutter DEF OnMarketData, strategy, fixapp, process, core
    <2>2. CASE FromApp
      BY <2>0, <2>2, FromAppKeeps
    <2>3. CASE OnLogon \/ OnLogout
      BY <2>0, <2>3, CoreStutter
         DEF OnLogon, subscribe_market_data, OnLogout, strategy, rings, wire, process, core
    <2> QED BY <1>2, <2>1, <2>2, <2>3 DEF Reader, ReaderStep
  <1>3. CASE Sender
    BY <1>3, SenderPopKeeps, SenderSendKeeps DEF Sender, SenderStep
  <1>4. CASE Network
    BY <1>4, DisconnectKeeps DEF Network
  <1>5. CASE VenueAnswers
    BY <1>5, AnswerKeeps DEF VenueAnswers
  <1>6. CASE VenueTrades
    BY <1>6, MarketKeeps DEF VenueTrades
  <1>7. CASE Persister
    BY <1>7, CoreStutter
       DEF Persister, TakeSnapshot, TakeTrade, strategy, fixapp, wire, process,
           core
  <1>8. CASE UNCHANGED vars
    BY <1>8, CoreStutter DEF vars, strategy, rings, fixapp, wire, process, core
  <1>9. CASE Restart
    BY <1>9, RestartKeeps
  <1> QED BY <1>1, <1>2, <1>3, <1>4, <1>5, <1>6, <1>7, <1>8, <1>9 DEF Next

\* The inductive invariant holds in every behaviour of the engine, provided
\* the venue reports partial fills as PARTIALLY_FILLED.
THEOREM OrderIdsAlways ==
  ASSUME "pending_status" \notin VenueMay
  PROVE  Spec => []OrderIdsInv
  <1>1. TypeOK /\ OrderIdsInv /\ [Next]_vars => OrderIdsInv'
    BY NextOrderIds
  <1> QED BY InitOrderIds, TypeCorrect, <1>1, PTL DEF Spec

\* The id of an order that this process opened is held by its slot.
LEMMA OpenIsOwned ==
  ASSUME OrderIdsInv, NEW id, NEW sym, NEW side, Open(id, sym, side),
         id >= first_id
  PROVE  oms[sym][side].cl_ord_id = id /\ oms[sym][side].state # "None"
  <1>1. CASE UnderWay("New", id, sym, side)
    BY <1>1 DEF OrderIdsInv, Owned, Owns, UnderWay, CmdIs, MsgIs
  <1>2. CASE Working(id, sym, side)
    BY <1>2 DEF OrderIdsInv, Owned, Owns, Working
  <1> QED BY <1>1, <1>2 DEF Open

\* The ids of this process are those from its seed on.
LEMMA OwnIds == TypeOK => \A id \in Ids : id >= first_id
  BY DEF TypeOK, MarketMakerTypeOK, Ids

\* No order is ever forgotten while it can still trade: its slot holds its id
\* until the venue has said that the order is gone, whatever is lost or
\* dropped in between.
THEOREM NeverOrphaned ==
  ASSUME "pending_status" \notin VenueMay
  PROVE  Spec => []NoOrphanOrder
  <1>1. TypeOK /\ OrderIdsInv => NoOrphanOrder
    BY OpenIsOwned, OwnIds DEF NoOrphanOrder
  <1> QED BY <1>1, TypeCorrect, OrderIdsAlways, PTL

\* The engine never has two orders open for one symbol and side, for any
\* number of symbols, ring capacities, disconnects and lost messages.
THEOREM NeverDoubleQuotes ==
  ASSUME "pending_status" \notin VenueMay
  PROVE  Spec => []OneWorkingOrder
  <1>1. TypeOK /\ OrderIdsInv => OneWorkingOrder
    <2> SUFFICES ASSUME TypeOK, OrderIdsInv, NEW sym \in Syms, NEW side \in Sides,
                        NEW i \in Ids, NEW j \in Ids,
                        Open(i, sym, side), Open(j, sym, side)
                 PROVE  i = j
      BY DEF OneWorkingOrder
    <2>1. oms[sym][side].cl_ord_id = i
      BY OpenIsOwned, OwnIds
    <2>2. oms[sym][side].cl_ord_id = j
      BY OpenIsOwned, OwnIds
    <2> QED BY <2>1, <2>2
  <1> QED BY <1>1, TypeCorrect, OrderIdsAlways, PTL

\* A cancel is never under way together with the order it cancels.
THEOREM CancelAlwaysFollowsAck ==
  ASSUME "pending_status" \notin VenueMay
  PROVE  Spec => []CancelFollowsAck
  <1>1. OrderIdsInv => CancelFollowsAck
    <2> SUFFICES ASSUME OrderIdsInv, NEW id, NEW sym, NEW side,
                        UnderWay("Cancel", id, sym, side),
                        UnderWay("New", id, sym, side)
                 PROVE  FALSE
      BY DEF CancelFollowsAck
    <2>1. id \in PipeIds
      BY DEF UnderWay, CmdIs, MsgIs, PipeIds
    <2>2. id \notin PipeIds
      BY DEF OrderIdsInv, CancelsAnswered, UnderWay, CmdIs, MsgIs
    <2> QED BY <2>1, <2>2
  <1> QED BY <1>1, OrderIdsAlways, PTL
=============================================================================

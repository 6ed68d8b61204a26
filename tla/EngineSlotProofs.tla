-------------------------- MODULE EngineSlotProofs --------------------------
(***************************************************************************)
(* Proofs about the slots of the order manager: none goes back to a state  *)
(* it has left while it holds the same order, and no order is cancelled    *)
(* twice.  SlotsInv is preserved by every step that starts in a state of   *)
(* TypeOK and OrderIdsInv, both proved in EngineProofs.                    *)
(***************************************************************************)
EXTENDS EngineProofs

\* With no report and no command under way and every slot free, nothing waits.
LEMMA InitSlots == Init => SlotsInv
  <1> SUFFICES ASSUME Init PROVE SlotsInv
    OBVIOUS
  <1>1. /\ ordRing = <<>> /\ to_exch = <<>> /\ from_exch = <<>>
        /\ execRing = <<>> /\ sent_cmd = NoCmd /\ next_id = 1 /\ first_id = 1
        /\ oms = [x \in Syms |-> [y \in Sides |-> NoQuote]]
    BY DEF Init, RingsInit, MarketMakerInit, WireInit, FixAppInit
  <1>2. \A x \in Syms, y \in Sides : oms[x][y].cl_ord_id = 0
    BY <1>1 DEF NoQuote
  <1> QED
    BY <1>1, <1>2 DEF SlotsInv, SlotIds, AckPending, AckOnce, CancelPending

\* Steps that leave the slots and the ring of reports alone, and of the
\* reports on the wire keep all or none.
LEMMA SameReports ==
  ASSUME SlotsInv, UNCHANGED <<oms, next_id, first_id, execRing>>,
         from_exch' = from_exch \/ from_exch' = <<>>
  PROVE  SlotIds' /\ AckPending' /\ AckOnce'
  <1>1. SlotIds'
    BY DEF SlotsInv, SlotIds
  <1>2. CASE from_exch' = from_exch
    BY <1>1, <1>2
       DEF SlotsInv, AckPending, AckOnce, Unacknowledged, IsAck, IsAckEvent, exec_kind
  <1>3. CASE from_exch' = <<>>
    BY <1>1, <1>3
       DEF SlotsInv, AckPending, AckOnce, Unacknowledged, IsAckEvent
  <1> QED BY <1>2, <1>3

\* Steps that touch neither slots nor queues.
LEMMA SlotsStutter ==
  ASSUME SlotsInv, UNCHANGED core
  PROVE  SlotsInv'
  <1>1. SlotIds' /\ AckPending' /\ AckOnce'
    BY SameReports DEF core
  <1>2. CancelPending'
    BY DEF SlotsInv, CancelPending, BeingCancelled, core
  <1> QED BY <1>1, <1>2 DEF SlotsInv

\* A venue step: it may take a message off the wire, and what it reports is
\* no acknowledgement, or that of an order it has just received.
LEMMA VenueKeepsSlots ==
  ASSUME TypeOK, OrderIdsInv, SlotsInv,
         NEW r \in ReportMessage,
         UNCHANGED <<oms, next_id, first_id, ordRing, sent_cmd, execRing>>,
         \/ to_exch' = to_exch
         \/ to_exch # <<>> /\ to_exch' = Tail(to_exch),
         from_exch' = from_exch \/ from_exch' = Append(from_exch, r),
         IsAck(r) => r.ClOrdID \in PipeIds
  PROVE  SlotsInv'
  <1>1. CancelPending'
    <2>1. \A k \in 1 .. Len(to_exch') :
            \E j \in 1 .. Len(to_exch) : to_exch'[k] = to_exch[j]
      <3>1. to_exch \in Seq(OrderMessage)
        BY CoreTypes
      <3>2. CASE to_exch' = to_exch
        BY <3>2
      <3>3. CASE to_exch # <<>> /\ to_exch' = Tail(to_exch)
        <4>1. ASSUME NEW k \in 1 .. Len(to_exch')
              PROVE  k + 1 \in 1 .. Len(to_exch) /\ to_exch'[k] = to_exch[k + 1]
          BY <3>1, <3>3, TailFacts
        <4> QED BY <4>1
      <3> QED BY <3>2, <3>3
    <2> QED BY <2>1 DEF SlotsInv, CancelPending, BeingCancelled
  <1>2. CASE from_exch' = from_exch
    BY <1>1, <1>2, SameReports DEF SlotsInv
  <1>3. CASE from_exch' = Append(from_exch, r)
    <2>1. /\ Len(from_exch) \in Nat /\ Len(from_exch') = Len(from_exch) + 1
          /\ \A k \in 1 .. Len(from_exch) : from_exch'[k] = from_exch[k]
          /\ from_exch'[Len(from_exch) + 1] = r
      BY <1>3, CoreTypes, AppendFacts
    <2>2. SlotIds'
      BY DEF SlotsInv, SlotIds
    <2>3. ASSUME IsAck(r)
          PROVE  /\ Unacknowledged(r.ClOrdID)
                 /\ \A k \in 1 .. Len(from_exch) : from_exch[k].ClOrdID # r.ClOrdID
                 /\ \A k \in 1 .. Len(execRing) : execRing[k].cl_ord_id # r.ClOrdID
      <3>1. r.ClOrdID \in PipeIds /\ r.ClOrdID # 0
        BY <2>3 DEF IsAck
      <3>2. ASSUME NEW s \in Syms, NEW d \in Sides, oms[s][d].cl_ord_id = r.ClOrdID
            PROVE  oms[s][d].state = "PendingNew"
        <4>1. oms[s][d].state \in QuoteStates
          BY CoreTypes DEF Quote
        <4> QED BY <3>1, <3>2, <4>1
                DEF SlotsInv, SlotIds, OrderIdsInv, Answered, QuoteStates
      <3> QED BY <3>1, <3>2 DEF Unacknowledged, OrderIdsInv, Answered
    <2>4. ASSUME NEW k \in 1 .. Len(from_exch')
          PROVE  \/ k \in 1 .. Len(from_exch) /\ from_exch'[k] = from_exch[k]
                 \/ k = Len(from_exch) + 1 /\ from_exch'[k] = r
      BY <2>1
    <2>5. AckPending'
      <3>1. ASSUME NEW k \in 1 .. Len(from_exch'), IsAck(from_exch'[k])
            PROVE  Unacknowledged(from_exch'[k].ClOrdID)
        BY <2>3, <2>4, <3>1 DEF SlotsInv, AckPending
      <3> QED BY <3>1 DEF SlotsInv, AckPending, Unacknowledged, IsAck, IsAckEvent,
                          exec_kind
    <2>6. AckOnce'
      <3>1. \A j, k \in 1 .. Len(from_exch') :
              IsAck(from_exch'[j]) /\ IsAck(from_exch'[k])
                /\ from_exch'[j].ClOrdID = from_exch'[k].ClOrdID => j = k
        BY <2>3, <2>4 DEF SlotsInv, AckOnce
      <3>2. \A j \in 1 .. Len(from_exch'), k \in 1 .. Len(execRing) :
              IsAck(from_exch'[j]) /\ IsAckEvent(execRing[k]) =>
                from_exch'[j].ClOrdID # execRing[k].cl_ord_id
        BY <2>3, <2>4 DEF SlotsInv, AckOnce
      <3> QED BY <3>1, <3>2 DEF SlotsInv, AckOnce, IsAck, IsAckEvent, exec_kind
    <2> QED BY <1>1, <2>2, <2>5, <2>6 DEF SlotsInv
  <1> QED BY <1>2, <1>3

\* The venue answers a message: only the acceptance of an order, whose id was
\* in the pipeline until now, acknowledges anything.
LEMMA AnswerKeepsSlots ==
  ASSUME TypeOK, OrderIdsInv, SlotsInv, Answer,
         UNCHANGED <<strategy, rings, fixapp, process>>
  PROVE  SlotsInv'
  <1>0. UNCHANGED <<oms, next_id, first_id, ordRing, sent_cmd, execRing>>
    BY DEF strategy, rings, fixapp, process
  <1> DEFINE m == Head(to_exch)
  <1>1. ASSUME NEW t, Receive(t)
        PROVE  /\ m \in OrderMessage /\ m.ClOrdID \in PipeIds
               /\ OrderOf(m) \in Order /\ OrderOf(m).cl_ord_id = m.ClOrdID
               /\ to_exch # <<>> /\ to_exch' = Tail(to_exch)
    BY <1>0, <1>1, NextMessage, ReportTypes DEF OrderOf
  <1>2. CASE AcceptNew
    <2> DEFINE o == OrderOf(m)
               r == ReportOn(o, o.cl_ord_id, "NEW", "NEW", o.leaves)
    <2>1. Receive("D") /\ report(r)
      BY <1>2 DEF AcceptNew
    <2>2. r \in ReportMessage /\ r.ClOrdID \in PipeIds
      BY <1>1, <2>1, ReportTypes DEF Order, ExecTypes, OrdStatuses, ReportOn
    <2>3. from_exch' = from_exch \/ from_exch' = Append(from_exch, r)
      BY <2>1 DEF report
    <2> HIDE DEF r
    <2> QED BY <1>0, <1>1, <2>1, <2>2, <2>3, VenueKeepsSlots
  <1>3. ASSUME NEW r \in ReportMessage, report(r), ~IsAck(r),
               to_exch # <<>>, to_exch' = Tail(to_exch)
        PROVE  SlotsInv'
    BY <1>0, <1>3, VenueKeepsSlots DEF report
  <1>4. CASE RejectNew
    <2> DEFINE o == OrderOf(m)
               r == ReportOn(o, o.cl_ord_id, "REJECTED", "REJECTED", 0)
    <2>1. Receive("D") /\ report(r)
      BY <1>4 DEF RejectNew
    <2>2. r \in ReportMessage /\ ~IsAck(r)
      BY <1>1, <2>1, ReportTypes
         DEF Order, ExecTypes, OrdStatuses, ReportOn, IsAck, exec_kind
    <2> HIDE DEF r
    <2> QED BY <1>1, <1>3, <2>1, <2>2
  <1>5. CASE ExecuteCancel
    <2>1. PICK o \in working, id \in AckIds(m) :
            report(ReportOn(o, id, "CANCELED", "CANCELED", 0))
      BY <1>5 DEF ExecuteCancel
    <2>2. Receive("F")
      BY <1>5 DEF ExecuteCancel
    <2> DEFINE r == ReportOn(o, id, "CANCELED", "CANCELED", 0)
    <2>3. o \in Order /\ id \in Nat
      BY <1>1, <2>1, <2>2, CoreTypes DEF AckIds, OrderMessage
    <2>4. r \in ReportMessage /\ ~IsAck(r)
      BY <2>3, ReportTypes DEF ExecTypes, OrdStatuses, ReportOn, IsAck, exec_kind
    <2>5. report(r)
      BY <2>1
    <2> HIDE DEF r
    <2> QED BY <1>1, <1>3, <2>2, <2>4, <2>5
  <1>6. CASE RefuseCancel
    <2>1. Receive("F") /\ report(CancelReject(m))
      BY <1>6 DEF RefuseCancel
    <2>2. CancelReject(m) \in ReportMessage /\ ~IsAck(CancelReject(m))
      BY <1>1, <2>1, ReportTypes DEF CancelReject, IsAck
    <2> QED BY <1>1, <1>3, <2>1, <2>2
  <1>7. CASE BlindAck
    <2> DEFINE r == ReportOn(OrderOf(m), m.ClOrdID, "CANCELED", "CANCELED", 0)
    <2>1. Receive("F") /\ report(r)
      BY <1>7 DEF BlindAck
    <2>2. r \in ReportMessage /\ ~IsAck(r)
      BY <1>1, <2>1, ReportTypes
         DEF OrderMessage, ExecTypes, OrdStatuses, ReportOn, IsAck, exec_kind
    <2> HIDE DEF r
    <2> QED BY <1>1, <1>3, <2>1, <2>2
  <1> QED BY <1>2, <1>4, <1>5, <1>6, <1>7 DEF Answer

\* Trades, cancels by the venue and expiries acknowledge nothing, and a stray
\* report carries the id 0.
LEMMA MarketKeepsSlots ==
  ASSUME TypeOK, OrderIdsInv, SlotsInv, Market,
         UNCHANGED <<strategy, rings, fixapp, process>>
  PROVE  SlotsInv'
  <1>0. UNCHANGED <<oms, next_id, first_id, ordRing, sent_cmd, execRing>>
    BY DEF strategy, rings, fixapp, process
  <1>1. ASSUME NEW r \in ReportMessage, report(r), ~IsAck(r), UNCHANGED to_exch
        PROVE  SlotsInv'
    BY <1>0, <1>1, VenueKeepsSlots DEF report
  <1>2. ASSUME NEW o \in working, NEW et \in ExecTypes \ {"NEW"},
               NEW st \in OrdStatuses, NEW n \in Nat,
               report(ReportOn(o, o.cl_ord_id, et, st, n)), UNCHANGED to_exch
        PROVE  SlotsInv'
    <2> DEFINE r == ReportOn(o, o.cl_ord_id, et, st, n)
    <2>1. o \in Order /\ o.cl_ord_id \in Nat
      BY CoreTypes DEF Order
    <2>2. r \in ReportMessage
      BY <2>1, ReportTypes
    <2>3. ~IsAck(r)
      BY DEF ExecTypes, ReportOn, IsAck, exec_kind
    <2>4. report(r)
      BY <1>2
    <2> HIDE DEF r
    <2> QED BY <1>1, <1>2, <2>2, <2>3, <2>4
  <1>3. ASSUME NEW o \in working, Fill(o) PROVE SlotsInv'
    BY <1>2, <1>3 DEF Fill, ExecTypes, OrdStatuses
  <1>4. ASSUME NEW o \in working, PartialFill(o) PROVE SlotsInv'
    <2>1. PICK left \in 1 .. o.leaves - 1, status \in PartialStatuses(o) :
            report(ReportOn(o, o.cl_ord_id, "TRADE", status, left))
      BY <1>4 DEF PartialFill
    <2>2. o.leaves \in Nat
      BY CoreTypes DEF Order
    <2>3. left \in Nat /\ status \in OrdStatuses
      BY <2>1, <2>2 DEF PartialStatuses, OrdStatuses
    <2> QED BY <1>2, <1>4, <2>1, <2>3 DEF PartialFill, ExecTypes
  <1>5. ASSUME NEW o \in working, NEW b, NEW et \in {"CANCELED", "EXPIRED"},
               GoAway(o, b, et)
        PROVE  SlotsInv'
    BY <1>2, <1>5 DEF GoAway, ExecTypes, OrdStatuses
  <1>6. CASE Stray
    <2>1. PICK sym \in Syms, k \in StrayKinds :
            report([MsgType |-> "8", ClOrdID |-> 0, ExecType |-> k[1],
                    OrdStatus |-> k[2], Side |-> "Buy", Symbol |-> sym,
                    LeavesQty |-> 0])
      BY <1>6 DEF Stray
    <2> DEFINE r == [MsgType |-> "8", ClOrdID |-> 0, ExecType |-> k[1],
                     OrdStatus |-> k[2], Side |-> "Buy", Symbol |-> sym,
                     LeavesQty |-> 0]
    <2>2. r \in ReportMessage /\ ~IsAck(r)
      BY <2>1 DEF StrayKinds, ExecTypes, OrdStatuses, ReportMessage, Sides, IsAck
    <2>3. report(r) /\ to_exch' = to_exch
      BY <1>6, <2>1 DEF Stray
    <2> HIDE DEF r
    <2> QED BY <1>1, <2>2, <2>3
  <1> QED BY <1>3, <1>4, <1>5, <1>6 DEF Market

\* The reader: an acknowledgement moves from the wire to the ring, or is
\* dropped; it is never in both.
LEMMA FromAppKeepsSlots ==
  ASSUME TypeOK, SlotsInv, FromApp, UNCHANGED <<strategy, working, process>>
  PROVE  SlotsInv'
  <1> DEFINE e == exec_event(from_exch[1])
  <1>0. UNCHANGED <<oms, next_id, first_id, ordRing, sent_cmd, to_exch>>
    BY DEF FromApp, strategy, fixapp, process
  <1>1. /\ 1 \in 1 .. Len(from_exch) /\ Head(from_exch) = from_exch[1]
        /\ Len(from_exch) \in Nat /\ from_exch[1] \in ReportMessage
        /\ \A k \in 1 .. Len(from_exch') :
             /\ k + 1 \in 1 .. Len(from_exch) /\ k + 1 # 1
             /\ from_exch'[k] = from_exch[k + 1]
    <2>1. from_exch \in Seq(ReportMessage) /\ from_exch # <<>>
          /\ from_exch' = Tail(from_exch)
      BY CoreTypes DEF FromApp
    <2> QED BY <2>1, TailFacts
  <1>2. e \in ExecEvent
    <2>1. exec_kind(from_exch[1]) \in ExecKinds
      BY DEF exec_kind, ExecKinds
    <2>2. symbol_id(from_exch[1].Symbol) \in Syms
      BY <1>1 DEF symbol_id, ReportMessage
    <2> QED BY <1>1, <2>1, <2>2 DEF exec_event, ExecEvent, ReportMessage
  <1>3. /\ e.cl_ord_id = from_exch[1].ClOrdID
        /\ from_exch[1].MsgType = "8" /\ IsAckEvent(e) => IsAck(from_exch[1])
    BY <1>1 DEF exec_event, IsAck, IsAckEvent
  <1>4. \/ execRing' = execRing
        \/ from_exch[1].MsgType = "8" /\ execRing' = Append(execRing, e)
    BY <1>1 DEF FromApp, try_push
  <1> HIDE DEF e
  <1>5. ASSUME NEW k \in 1 .. Len(execRing')
        PROVE  \/ k \in 1 .. Len(execRing) /\ execRing'[k] = execRing[k]
               \/ /\ from_exch[1].MsgType = "8"
                  /\ k = Len(execRing) + 1 /\ execRing'[k] = e
    <2>1. execRing \in Seq(ExecEvent)
      BY CoreTypes
    <2> QED BY <1>2, <1>4, <2>1, AppendFacts
  <1>6. SlotIds' /\ CancelPending'
    BY <1>0 DEF SlotsInv, SlotIds, CancelPending, BeingCancelled
  <1>7. AckPending'
    <2>1. AckPending
      BY DEF SlotsInv
    <2>2. ASSUME NEW k \in 1 .. Len(from_exch'), IsAck(from_exch'[k])
          PROVE  Unacknowledged(from_exch'[k].ClOrdID)
      BY <1>1, <2>1, <2>2 DEF AckPending
    <2>3. ASSUME NEW k \in 1 .. Len(execRing'), IsAckEvent(execRing'[k])
          PROVE  Unacknowledged(execRing'[k].cl_ord_id)
      BY <1>1, <1>3, <1>5, <2>1, <2>3 DEF AckPending
    <2> QED BY <1>0, <2>2, <2>3
            DEF AckPending, Unacknowledged, IsAck, IsAckEvent, exec_kind
  <1>8. AckOnce'
    <2>1. AckOnce
      BY DEF SlotsInv
    <2>2. ASSUME NEW j \in 1 .. Len(from_exch'), NEW k \in 1 .. Len(from_exch'),
                 IsAck(from_exch'[j]), IsAck(from_exch'[k]),
                 from_exch'[j].ClOrdID = from_exch'[k].ClOrdID
          PROVE  j = k
      <3>1. j + 1 = k + 1
        BY <1>1, <2>1, <2>2 DEF AckOnce
      <3> QED BY <3>1
    <2>3. ASSUME NEW j \in 1 .. Len(execRing'), NEW k \in 1 .. Len(execRing'),
                 IsAckEvent(execRing'[j]), IsAckEvent(execRing'[k]),
                 execRing'[j].cl_ord_id = execRing'[k].cl_ord_id
          PROVE  j = k
      BY <1>1, <1>3, <1>5, <2>1, <2>3 DEF AckOnce
    <2>4. ASSUME NEW j \in 1 .. Len(from_exch'), NEW k \in 1 .. Len(execRing'),
                 IsAck(from_exch'[j]), IsAckEvent(execRing'[k])
          PROVE  from_exch'[j].ClOrdID # execRing'[k].cl_ord_id
      <3>1. /\ j + 1 \in 1 .. Len(from_exch) /\ j + 1 # 1
            /\ from_exch'[j] = from_exch[j + 1]
        BY <1>1
      <3>2. CASE k \in 1 .. Len(execRing) /\ execRing'[k] = execRing[k]
        BY <2>1, <2>4, <3>1, <3>2 DEF AckOnce
      <3>3. CASE from_exch[1].MsgType = "8" /\ execRing'[k] = e
        BY <1>1, <1>3, <2>1, <2>4, <3>1, <3>3 DEF AckOnce
      <3> QED BY <1>5, <3>2, <3>3
    <2> QED BY <2>2, <2>3, <2>4 DEF AckOnce, IsAck, IsAckEvent, exec_kind
  <1> QED BY <1>6, <1>7, <1>8 DEF SlotsInv

\* The sender and the connection carry or lose cancels and make none.
LEMMA PipeKeepsSlots ==
  ASSUME TypeOK, SlotsInv,
         \/ SenderPop /\ UNCHANGED <<strategy, working, process>>
         \/ SenderSend /\ UNCHANGED <<strategy, working, process>>
         \/ Disconnect /\ UNCHANGED <<strategy, rings, fixapp, working, process>>
  PROVE  SlotsInv'
  <1>0. /\ UNCHANGED <<oms, next_id, first_id, execRing>>
        /\ from_exch' = from_exch \/ from_exch' = <<>>
    BY DEF SenderPop, SenderSend, Disconnect, strategy, rings, wire, process
  <1>1. SlotIds' /\ AckPending' /\ AckOnce'
    BY <1>0, SameReports
  <1>2. CancelPending
    BY DEF SlotsInv
  <1>3. CASE SenderPop
    <2>1. /\ UNCHANGED to_exch /\ sent_cmd' = ordRing[1] /\ 1 \in 1 .. Len(ordRing)
          /\ \A k \in 1 .. Len(ordRing') :
               k + 1 \in 1 .. Len(ordRing) /\ ordRing'[k] = ordRing[k + 1]
      <3>1. /\ ordRing \in Seq(OrderCmd) /\ ordRing # <<>> /\ ordRing' = Tail(ordRing)
            /\ sent_cmd' = Head(ordRing) /\ to_exch' = to_exch
        BY <1>3, CoreTypes DEF SenderPop, wire
      <3> QED BY <3>1, TailFacts
    <2>2. CancelPending'
      BY <1>0, <1>2, <2>1 DEF CancelPending, BeingCancelled
    <2> QED BY <1>1, <2>2 DEF SlotsInv
  <1>4. CASE SenderSend
    <2> DEFINE m == fix_message(sent_cmd)
    <2>1. /\ UNCHANGED ordRing /\ sent_cmd # NoCmd /\ sent_cmd' = NoCmd
          /\ to_exch' = to_exch \/ to_exch' = Append(to_exch, m)
      BY <1>4 DEF SenderSend, sendToTarget, rings
    <2>2. /\ m \in OrderMessage
          /\ m.MsgType = "F" => sent_cmd.type = "Cancel"
          /\ m.MsgType = "F" => m.OrigClOrdID = sent_cmd.orig_cl_ord_id
          /\ m.Symbol = sent_cmd.symbol_id /\ m.Side = sent_cmd.side
      BY CoreTypes, MessageType DEF fix_message, OrderCmd
    <2> HIDE DEF m
    <2>3. ASSUME NEW k \in 1 .. Len(to_exch')
          PROVE  \/ k \in 1 .. Len(to_exch) /\ to_exch'[k] = to_exch[k]
                 \/ to_exch'[k] = m
      <3>1. to_exch \in Seq(OrderMessage)
        BY CoreTypes
      <3> QED BY <2>1, <2>2, <3>1, AppendFacts
    <2>4. CancelPending'
      BY <1>0, <1>2, <2>1, <2>2, <2>3 DEF CancelPending, BeingCancelled
    <2> QED BY <1>1, <2>4 DEF SlotsInv
  <1>5. CASE Disconnect /\ UNCHANGED <<strategy, rings, fixapp, working, process>>
    <2>1. UNCHANGED <<ordRing, sent_cmd>>
      BY <1>5 DEF rings, fixapp
    <2>2. \A k \in 1 .. Len(to_exch') :
            k \in 1 .. Len(to_exch) /\ to_exch'[k] = to_exch[k]
      <3>1. PICK n \in 0 .. Len(to_exch) : to_exch' = SubSeq(to_exch, 1, n)
        BY <1>5 DEF Disconnect
      <3>2. to_exch \in Seq(OrderMessage)
        BY CoreTypes
      <3> QED BY <3>1, <3>2, PrefixFacts
    <2>3. CancelPending'
      BY <1>0, <1>2, <2>1, <2>2 DEF CancelPending, BeingCancelled
    <2> QED BY <1>1, <2>3 DEF SlotsInv
  <1> QED BY <1>3, <1>4, <1>5

\* A new process begins with free slots; the cancels of the one before that
\* are still on the wire wait for nothing.
LEMMA RestartKeepsSlots ==
  ASSUME TypeOK, SlotsInv, Restart
  PROVE  SlotsInv'
  <1>1. /\ from_exch' = <<>> /\ execRing' = <<>> /\ ordRing' = <<>>
        /\ sent_cmd' = NoCmd /\ first_id' = next_id' /\ next_id' \in Nat
        /\ oms' = [s \in Syms |-> [d \in Sides |-> NoQuote]]
    BY CoreTypes DEF Restart
  <1>2. \A s \in Syms, d \in Sides : oms'[s][d].cl_ord_id = 0
    BY <1>1 DEF NoQuote
  <1>3. \A k \in 1 .. Len(to_exch') :
          to_exch'[k].Symbol \in Syms /\ to_exch'[k].Side \in Sides
    <2>1. to_exch' \in Seq(OrderMessage)
      BY RestartType, CoreTypes DEF TypeOK, WireTypeOK
    <2>2. \A k \in 1 .. Len(to_exch') : to_exch'[k] \in OrderMessage
      BY <2>1
    <2> QED BY <2>2 DEF OrderMessage
  <1>4. CancelPending'
    BY <1>1, <1>2, <1>3 DEF CancelPending, BeingCancelled
  <1> QED BY <1>1, <1>2, <1>4 DEF SlotsInv, SlotIds, AckPending, AckOnce

\* The strategy takes a report.  A slot becomes Live only at the one
\* acknowledgement of its order, which finds it PendingNew.
LEMMA PopExecSlots ==
  ASSUME TypeOK, SlotsInv, PopExec, NEW x \in Syms, NEW y \in Sides
  PROVE  \/ oms'[x][y] = oms[x][y]
         \/ oms'[x][y] = NoQuote
         \/ /\ oms'[x][y].cl_ord_id = oms[x][y].cl_ord_id
            /\ oms'[x][y].state = oms[x][y].state
         \/ /\ oms'[x][y].cl_ord_id = oms[x][y].cl_ord_id
            /\ oms[x][y].cl_ord_id = 0
            /\ oms'[x][y].state = "Live"
         \/ /\ oms'[x][y].cl_ord_id = oms[x][y].cl_ord_id
            /\ IsAckEvent(execRing[1])
            /\ execRing[1].cl_ord_id = oms[x][y].cl_ord_id
            /\ oms[x][y].state = "PendingNew" /\ oms'[x][y].state = "Live"
  <1> DEFINE e == execRing[1]
  <1>1. /\ 1 \in 1 .. Len(execRing) /\ e \in ExecEvent /\ oms' = on_exec(oms, e)
        /\ oms \in [Syms -> [Sides -> Quote]]
    BY CoreTypes, TailFacts DEF PopExec
  <1>2. IsAckEvent(e) => Unacknowledged(e.cl_ord_id)
    BY <1>1 DEF SlotsInv, AckPending
  <1> HIDE DEF e
  <1>3. \/ oms'[x][y] = oms[x][y]
        \/ /\ oms[x][y].cl_ord_id = e.cl_ord_id
           /\ \/ e.kind \in Terminal /\ oms'[x][y] = NoQuote
              \/ /\ e.kind = "New"
                 /\ oms'[x][y].cl_ord_id = oms[x][y].cl_ord_id
                 /\ oms'[x][y].state = "Live"
              \/ /\ oms'[x][y].cl_ord_id = oms[x][y].cl_ord_id
                 /\ oms'[x][y].state = oms[x][y].state
    BY <1>1, OnExecSlot
  <1>4. e.kind = "New" /\ oms[x][y].cl_ord_id = e.cl_ord_id =>
          oms[x][y].cl_ord_id = 0 \/ (IsAckEvent(e) /\ oms[x][y].state = "PendingNew")
    BY <1>2 DEF Unacknowledged, IsAckEvent
  <1> QED BY <1>3, <1>4 DEF e

\* Taking a report keeps the life of the slots.
LEMMA PopExecKeepsSlots ==
  ASSUME TypeOK, SlotsInv, PopExec, UNCHANGED <<fixapp, wire, working, process>>
  PROVE  SlotsInv'
  <1>0. UNCHANGED <<next_id, first_id, ordRing, sent_cmd, to_exch, from_exch>>
    BY DEF PopExec, fixapp, wire, process
  <1>1. /\ 1 \in 1 .. Len(execRing)
        /\ \A k \in 1 .. Len(execRing') :
             /\ k + 1 \in 1 .. Len(execRing) /\ k + 1 # 1
             /\ execRing'[k] = execRing[k + 1]
    <2>1. execRing \in Seq(ExecEvent) /\ execRing # <<>> /\ execRing' = Tail(execRing)
      BY CoreTypes DEF PopExec
    <2> QED BY <2>1, TailFacts
  <1>2. NoQuote.cl_ord_id = 0 /\ NoQuote.state = "None"
    BY DEF NoQuote
  <1>3. SlotIds'
    <2>1. ASSUME NEW x \in Syms, NEW y \in Sides
          PROVE  /\ oms'[x][y].state = "None" => oms'[x][y].cl_ord_id = 0
                 /\ oms'[x][y].cl_ord_id # 0 => oms'[x][y].cl_ord_id >= first_id
      BY <1>2, PopExecSlots DEF SlotsInv, SlotIds
    <2> QED BY <1>0, <2>1 DEF SlotsInv, SlotIds
  <1>4. ASSUME NEW id, id # 0, Unacknowledged(id),
               IsAckEvent(execRing[1]) => execRing[1].cl_ord_id # id
        PROVE  \A x \in Syms, y \in Sides :
                 oms'[x][y].cl_ord_id = id => oms'[x][y].state = "PendingNew"
    <2> SUFFICES ASSUME NEW x \in Syms, NEW y \in Sides, oms'[x][y].cl_ord_id = id
                 PROVE  oms'[x][y].state = "PendingNew"
      OBVIOUS
    <2> QED BY <1>2, <1>4, PopExecSlots DEF Unacknowledged
  <1>5. AckPending'
    <2>1. ASSUME NEW k \in 1 .. Len(from_exch), IsAck(from_exch[k])
          PROVE  \A x \in Syms, y \in Sides :
                   oms'[x][y].cl_ord_id = from_exch[k].ClOrdID =>
                     oms'[x][y].state = "PendingNew"
      <3>1. Unacknowledged(from_exch[k].ClOrdID) /\ from_exch[k].ClOrdID # 0
        BY <2>1 DEF SlotsInv, AckPending, IsAck
      <3>2. IsAckEvent(execRing[1]) => execRing[1].cl_ord_id # from_exch[k].ClOrdID
        BY <1>1, <2>1 DEF SlotsInv, AckOnce
      <3> QED BY <1>4, <3>1, <3>2
    <2>2. ASSUME NEW k \in 1 .. Len(execRing'), IsAckEvent(execRing'[k])
          PROVE  \A x \in Syms, y \in Sides :
                   oms'[x][y].cl_ord_id = execRing'[k].cl_ord_id =>
                     oms'[x][y].state = "PendingNew"
      <3>1. /\ Unacknowledged(execRing'[k].cl_ord_id) /\ execRing'[k].cl_ord_id # 0
        BY <1>1, <2>2 DEF SlotsInv, AckPending, IsAckEvent
      <3>2. IsAckEvent(execRing[1]) => execRing[1].cl_ord_id # execRing'[k].cl_ord_id
        BY <1>1, <2>2 DEF SlotsInv, AckOnce
      <3> QED BY <1>4, <3>1, <3>2
    <2> QED BY <1>0, <2>1, <2>2
            DEF AckPending, Unacknowledged, IsAck, IsAckEvent, exec_kind
  <1>6. AckOnce'
    <2>1. AckOnce
      BY DEF SlotsInv
    <2>2. ASSUME NEW j \in 1 .. Len(execRing'), NEW k \in 1 .. Len(execRing'),
                 IsAckEvent(execRing'[j]), IsAckEvent(execRing'[k]),
                 execRing'[j].cl_ord_id = execRing'[k].cl_ord_id
          PROVE  j = k
      <3>1. j + 1 = k + 1
        BY <1>1, <2>1, <2>2 DEF AckOnce
      <3> QED BY <3>1
    <2>3. \A j \in 1 .. Len(from_exch), k \in 1 .. Len(execRing') :
            IsAck(from_exch[j]) /\ IsAckEvent(execRing'[k]) =>
              from_exch[j].ClOrdID # execRing'[k].cl_ord_id
      BY <1>1, <2>1 DEF AckOnce
    <2> QED BY <1>0, <2>1, <2>2, <2>3 DEF AckOnce, IsAck, IsAckEvent, exec_kind
  <1>7. ASSUME NEW id, NEW x \in Syms, NEW y \in Sides, BeingCancelled(id, x, y)
        PROVE  id # 0 /\ oms'[x][y].cl_ord_id = id =>
                 oms'[x][y].state = "PendingCancel"
    BY <1>2, <1>7, PopExecSlots DEF BeingCancelled
  <1>8. CancelPending'
    <2>1. sent_cmd.symbol_id \in Syms /\ sent_cmd.side \in Sides
      BY CoreTypes DEF OrderCmd
    <2>2. CancelPending
      BY DEF SlotsInv
    <2>3. ASSUME NEW k \in 1 .. Len(ordRing'), ordRing'[k].type = "Cancel"
          PROVE  BeingCancelled(ordRing[k].orig_cl_ord_id, ordRing[k].symbol_id,
                                ordRing[k].side)'
      BY <1>0, <1>7, <2>2, <2>3, ElementTypes DEF CancelPending, BeingCancelled
    <2>4. ASSUME sent_cmd' # NoCmd, sent_cmd'.type = "Cancel"
          PROVE  BeingCancelled(sent_cmd.orig_cl_ord_id, sent_cmd.symbol_id,
                                sent_cmd.side)'
      BY <1>0, <1>7, <2>1, <2>2, <2>4 DEF CancelPending, BeingCancelled
    <2>5. ASSUME NEW k \in 1 .. Len(to_exch'), to_exch'[k].MsgType = "F"
          PROVE  BeingCancelled(to_exch[k].OrigClOrdID, to_exch[k].Symbol,
                                to_exch[k].Side)'
      BY <1>0, <1>7, <2>2, <2>5, ElementTypes DEF CancelPending, BeingCancelled
    <2> QED BY <2>3, <2>4, <2>5 DEF CancelPending
  <1> QED BY <1>3, <1>5, <1>6, <1>8 DEF SlotsInv

\* What the strategy does for one side of the book: nothing, the cancel of a
\* Live quote, or an order for a free slot.  The command goes into the ring,
\* and the slot changes, only if the ring has room.
LEMMA ActSlots ==
  ASSUME TypeOK, NEW side \in Sides, NEW px \in Int, act(side, px)
  PROVE  /\ next_id' \in {next_id, next_id + 1}
         /\ \/ UNCHANGED <<oms, ordRing>>
            \/ \E c \in OrderCmd, quote \in Quote :
              /\ ordRing' = Append(ordRing, c)
              /\ oms' = [oms EXCEPT ![c.symbol_id][c.side] = quote]
              /\ \/ /\ c.type = "New"
                    /\ oms[c.symbol_id][c.side].state = "None"
                    /\ c.cl_ord_id = next_id
                    /\ quote.cl_ord_id = next_id /\ quote.state = "PendingNew"
                    /\ quote.price = c.price /\ quote.qty = c.qty
                    /\ c.qty = order_qty
                 \/ /\ c.type = "Cancel"
                    /\ oms[c.symbol_id][c.side].state = "Live"
                    /\ c.orig_cl_ord_id = oms[c.symbol_id][c.side].cl_ord_id
                    /\ quote.cl_ord_id = oms[c.symbol_id][c.side].cl_ord_id
                    /\ quote.state = "PendingCancel"
                    /\ quote.price = oms[c.symbol_id][c.side].price
                    /\ quote.qty = oms[c.symbol_id][c.side].qty
  <1> DEFINE sym == plan.symbol_id
             was == oms[sym][side]
             cancel == cancel_cmd(sym, side, was)
             cancelled == [was EXCEPT !.state = "PendingCancel"]
             order == [type |-> "New", side |-> side, symbol_id |-> sym,
                       price |-> px, qty |-> order_qty, cl_ord_id |-> next_id,
                       orig_cl_ord_id |-> 0]
             placed == [state |-> "PendingNew", cl_ord_id |-> next_id,
                        price |-> px, qty |-> order_qty]
  <1>1. sym \in Syms /\ was \in Quote /\ next_id \in Nat /\ order_qty \in Nat
    BY ConfigAssumption DEF TypeOK, MarketMakerTypeOK, Plan
  <1>2. \/ no_command
        \/ was.state = "Live" /\ emit(cancel, cancelled)
        \/ was.state = "None" /\ emit(order, placed)
    BY DEF act, requote, cancel_side, place
  <1>3. CASE no_command
    BY <1>1, <1>3 DEF no_command
  <1>4. CASE was.state = "Live" /\ emit(cancel, cancelled)
    <2>1. cancel \in OrderCmd /\ cancelled \in Quote
      BY <1>1 DEF cancel_cmd, OrderCmd, Quote, QuoteStates
    <2>2. /\ cancel.type = "Cancel" /\ cancel.symbol_id = sym /\ cancel.side = side
          /\ cancel.orig_cl_ord_id = was.cl_ord_id
      BY DEF cancel_cmd
    <2>3. /\ cancelled.cl_ord_id = was.cl_ord_id /\ cancelled.state = "PendingCancel"
          /\ cancelled.price = was.price /\ cancelled.qty = was.qty
      BY <1>1 DEF Quote
    <2> HIDE DEF cancel, cancelled
    <2> QED BY <1>4, <2>1, <2>2, <2>3 DEF emit
  <1>5. CASE was.state = "None" /\ emit(order, placed)
    <2>1. order \in OrderCmd /\ placed \in Quote
      BY <1>1 DEF OrderCmd, Quote, QuoteStates
    <2>2. /\ order.type = "New" /\ order.symbol_id = sym /\ order.side = side
          /\ order.cl_ord_id = next_id
          /\ placed.cl_ord_id = next_id /\ placed.state = "PendingNew"
          /\ placed.price = order.price /\ placed.qty = order.qty
          /\ order.qty = order_qty
      OBVIOUS
    <2> HIDE DEF order, placed
    <2> QED BY <1>5, <2>1, <2>2 DEF emit
  <1> QED BY <1>2, <1>3, <1>4, <1>5

\* A new order draws an id no report and no cancel carries yet, and a cancel
\* finds its slot Live, so that no acknowledgement is still to come.
LEMMA ActKeepsSlots ==
  ASSUME TypeOK, OrderIdsInv, SlotsInv,
         NEW side \in Sides, NEW px \in Int, act(side, px),
         UNCHANGED <<sent_cmd, to_exch, from_exch, execRing, first_id>>
  PROVE  SlotsInv'
  <1>0. /\ oms \in [Syms -> [Sides -> Quote]] /\ next_id \in Nat \ {0}
        /\ first_id \in Nat /\ ordRing \in Seq(OrderCmd)
        /\ next_id' \in Nat /\ next_id <= next_id'
    BY CoreTypes, ActSlots
  <1>1. CASE UNCHANGED <<oms, ordRing>>
    <2>1. SlotIds' /\ AckPending' /\ AckOnce'
      BY <1>0, <1>1
         DEF SlotsInv, SlotIds, AckPending, AckOnce, Unacknowledged, IsAck,
             IsAckEvent, exec_kind
    <2>2. CancelPending'
      BY <1>1 DEF SlotsInv, CancelPending, BeingCancelled
    <2> QED BY <2>1, <2>2 DEF SlotsInv
  <1>2. ASSUME NEW c \in OrderCmd, NEW quote \in Quote,
               ordRing' = Append(ordRing, c),
               oms' = [oms EXCEPT ![c.symbol_id][c.side] = quote],
               \/ /\ c.type = "New"
                  /\ oms[c.symbol_id][c.side].state = "None"
                  /\ quote.cl_ord_id = next_id /\ quote.state = "PendingNew"
               \/ /\ c.type = "Cancel"
                  /\ oms[c.symbol_id][c.side].state = "Live"
                  /\ c.orig_cl_ord_id = oms[c.symbol_id][c.side].cl_ord_id
                  /\ quote.cl_ord_id = oms[c.symbol_id][c.side].cl_ord_id
                  /\ quote.state = "PendingCancel"
        PROVE  SlotsInv'
    <2>1. c.symbol_id \in Syms /\ c.side \in Sides
      BY DEF OrderCmd
    <2>2. ASSUME NEW x \in Syms, NEW y \in Sides
          PROVE  \/ oms'[x][y] = oms[x][y]
                 \/ x = c.symbol_id /\ y = c.side /\ oms'[x][y] = quote
      BY <1>0, <1>2, <2>1
    <2>3. SlotIds'
      <3>1. ASSUME NEW x \in Syms, NEW y \in Sides
            PROVE  /\ oms'[x][y].state = "None" => oms'[x][y].cl_ord_id = 0
                   /\ oms'[x][y].cl_ord_id # 0 => oms'[x][y].cl_ord_id >= first_id
        BY <1>0, <1>2, <2>1, <2>2 DEF SlotsInv, SlotIds
      <3> QED BY <1>0, <3>1 DEF SlotsInv, SlotIds
    <2>4. ASSUME NEW id, Unacknowledged(id), id # next_id
          PROVE  \A x \in Syms, y \in Sides :
                   oms'[x][y].cl_ord_id = id => oms'[x][y].state = "PendingNew"
      BY <1>2, <2>1, <2>2, <2>4 DEF Unacknowledged
    <2>5. AckPending'
      <3>1. ASSUME NEW k \in 1 .. Len(from_exch), IsAck(from_exch[k])
            PROVE  from_exch[k].ClOrdID # next_id
        BY <1>0, <3>1 DEF OrderIdsInv, IdsKnown, Drawn, IsAck
      <3>2. ASSUME NEW k \in 1 .. Len(execRing), IsAckEvent(execRing[k])
            PROVE  execRing[k].cl_ord_id # next_id
        BY <1>0, <3>2 DEF OrderIdsInv, IdsKnown, Drawn, IsAckEvent
      <3>3. AckPending
        BY DEF SlotsInv
      <3>4. ASSUME NEW k \in 1 .. Len(from_exch), IsAck(from_exch[k])
            PROVE  \A x \in Syms, y \in Sides :
                     oms'[x][y].cl_ord_id = from_exch[k].ClOrdID =>
                       oms'[x][y].state = "PendingNew"
        BY <2>4, <3>1, <3>3, <3>4 DEF AckPending
      <3>5. ASSUME NEW k \in 1 .. Len(execRing), IsAckEvent(execRing[k])
            PROVE  \A x \in Syms, y \in Sides :
                     oms'[x][y].cl_ord_id = execRing[k].cl_ord_id =>
                       oms'[x][y].state = "PendingNew"
        BY <2>4, <3>2, <3>3, <3>5 DEF AckPending
      <3> QED BY <3>4, <3>5
              DEF AckPending, Unacknowledged, IsAck, IsAckEvent, exec_kind
    <2>6. AckOnce'
      BY DEF SlotsInv, AckOnce, IsAck, IsAckEvent, exec_kind
    <2>7. ASSUME NEW id \in Nat, NEW x \in Syms, NEW y \in Sides, id < next_id,
                 BeingCancelled(id, x, y)
          PROVE  id # 0 /\ oms'[x][y].cl_ord_id = id =>
                   oms'[x][y].state = "PendingCancel"
      BY <1>0, <1>2, <2>2, <2>7 DEF BeingCancelled
    <2>8. CancelPending'
      <3>1. CancelPending /\ CancelsAnswered
        BY DEF SlotsInv, OrderIdsInv
      <3>2. ASSUME NEW k \in 1 .. Len(ordRing'), ordRing'[k].type = "Cancel"
            PROVE  BeingCancelled(ordRing[k].orig_cl_ord_id, ordRing[k].symbol_id,
                                  ordRing[k].side)'
        <4>1. \/ k \in 1 .. Len(ordRing) /\ ordRing'[k] = ordRing[k]
              \/ ordRing'[k] = c
          BY <1>0, <1>2, AppendFacts
        <4>2. CASE k \in 1 .. Len(ordRing) /\ ordRing'[k] = ordRing[k]
          <5> DEFINE old == ordRing[k]
          <5>1. /\ old.symbol_id \in Syms /\ old.side \in Sides
                /\ old.orig_cl_ord_id \in Nat /\ old.type = "Cancel"
            BY <3>2, <4>2, ElementTypes
          <5>2. /\ BeingCancelled(old.orig_cl_ord_id, old.symbol_id, old.side)
                /\ old.orig_cl_ord_id < next_id
            BY <3>1, <4>2, <5>1 DEF CancelPending, CancelsAnswered
          <5>3. ordRing'[k] = old
            BY <4>2
          <5> HIDE DEF old
          <5>4. old.orig_cl_ord_id # 0
                  /\ oms'[old.symbol_id][old.side].cl_ord_id = old.orig_cl_ord_id =>
                oms'[old.symbol_id][old.side].state = "PendingCancel"
            BY <2>7, <5>1, <5>2
          <5> QED BY <5>3, <5>4 DEF BeingCancelled
        <4>3. CASE ordRing'[k] = c
          <5>1. oms'[c.symbol_id][c.side] = quote
            BY <1>0, <1>2, <2>1
          <5> QED BY <1>2, <3>2, <4>3, <5>1 DEF BeingCancelled
        <4> QED BY <4>1, <4>2, <4>3
      <3>3. ASSUME sent_cmd' # NoCmd, sent_cmd'.type = "Cancel"
            PROVE  BeingCancelled(sent_cmd.orig_cl_ord_id, sent_cmd.symbol_id,
                                  sent_cmd.side)'
        <4>1. /\ sent_cmd.symbol_id \in Syms /\ sent_cmd.side \in Sides
              /\ sent_cmd.orig_cl_ord_id \in Nat
          BY CoreTypes DEF OrderCmd
        <4> QED BY <2>7, <3>1, <3>3, <4>1
                DEF CancelPending, CancelsAnswered, BeingCancelled
      <3>4. ASSUME NEW k \in 1 .. Len(to_exch'), to_exch'[k].MsgType = "F"
            PROVE  BeingCancelled(to_exch[k].OrigClOrdID, to_exch[k].Symbol,
                                  to_exch[k].Side)'
        BY <2>7, <3>1, <3>4, ElementTypes
           DEF CancelPending, CancelsAnswered, BeingCancelled
      <3> QED BY <3>2, <3>3, <3>4 DEF CancelPending
    <2> QED BY <2>3, <2>5, <2>6, <2>8 DEF SlotsInv
  <1> QED BY <1>1, <1>2, ActSlots

\* Every step of the engine, the session and the venue preserves the life of
\* the slots.
LEMMA NextSlots ==
  ASSUME TypeOK, OrderIdsInv, SlotsInv, [Next]_vars
  PROVE  SlotsInv'
  <1>1. CASE Strategy
    <2>0. StrategyStep /\ UNCHANGED <<fixapp, wire, working, process>>
      BY <1>1 DEF Strategy
    <2>1. UNCHANGED <<sent_cmd, to_exch, from_exch, working, first_id>>
      BY <2>0 DEF fixapp, wire, process
    <2>2. CASE PopExec
      BY <2>0, <2>2, PopExecKeepsSlots
    <2>3. plan.bid \in Int /\ plan.ask \in Int
      BY DEF TypeOK, MarketMakerTypeOK, Plan
    <2>4. CASE ActBuy
      BY <2>1, <2>3, <2>4, ActKeepsSlots DEF ActBuy, Sides
    <2>5. CASE ActSell
      BY <2>1, <2>3, <2>5, ActKeepsSlots DEF ActSell, Sides
    <2>6. CASE ExecDrained \/ MdEmpty \/ SnapshotDue \/ SnapshotNotDue
      BY <2>1, <2>6, SlotsStutter
         DEF ExecDrained, MdEmpty, SnapshotDue, SnapshotNotDue, rings, core
    <2>7. CASE PopMd \/ PushSnapshot
      BY <2>1, <2>7, SlotsStutter DEF PopMd, PushSnapshot, core
    <2> QED BY <2>0, <2>2, <2>4, <2>5, <2>6, <2>7 DEF StrategyStep
  <1>2. CASE Reader
    <2>0. UNCHANGED <<strategy, working, process>>
      BY <1>2 DEF Reader
    <2>1. ASSUME NEW w \in Snapshots, OnMarketData(w) PROVE SlotsInv'
      BY <2>0, <2>1, SlotsStutter DEF OnMarketData, strategy, fixapp, process, core
    <2>2. CASE FromApp
      BY <2>0, <2>2, FromAppKeepsSlots
    <2>3. CASE OnLogon \/ OnLogout
      BY <2>0, <2>3, SlotsStutter
         DEF OnLogon, OnLogout, strategy, rings, wire, process, core
    <2> QED BY <1>2, <2>1, <2>2, <2>3 DEF Reader, ReaderStep
  <1>3. CASE Sender
    BY <1>3, PipeKeepsSlots DEF Sender, SenderStep
  <1>4. CASE Network
    BY <1>4, PipeKeepsSlots DEF Network
  <1>5. CASE VenueAnswers
    BY <1>5, AnswerKeepsSlots DEF VenueAnswers
  <1>6. CASE VenueTrades
    BY <1>6, MarketKeepsSlots DEF VenueTrades
  <1>7. CASE Persister
    BY <1>7, SlotsStutter
       DEF Persister, TakeSnapshot, TakeTrade, strategy, fixapp, wire, process,
           core
  <1>8. CASE UNCHANGED vars
    BY <1>8, SlotsStutter DEF vars, strategy, rings, fixapp, wire, process, core
  <1>9. CASE Restart
    BY <1>9, RestartKeepsSlots
  <1> QED BY <1>1, <1>2, <1>3, <1>4, <1>5, <1>6, <1>7, <1>8, <1>9 DEF Next

\* In every behaviour each order is acknowledged at most once, to a slot that
\* waits for it, and a slot with a cancel under way waits for its end.
THEOREM SlotsAlways ==
  ASSUME "pending_status" \notin VenueMay
  PROVE  Spec => []SlotsInv
  <1>1. TypeOK /\ OrderIdsInv /\ SlotsInv /\ [Next]_vars => SlotsInv'
    BY NextSlots
  <1> QED BY InitSlots, TypeCorrect, OrderIdsAlways, <1>1, PTL DEF Spec

\* The engine never asks twice for the cancel of an order: a slot whose cancel
\* is under way is PendingCancel, and cancel_side() passes it over.
THEOREM NeverCancelsTwice ==
  ASSUME "pending_status" \notin VenueMay
  PROVE  Spec => []NoRepeatedCancel
  <1>1. TypeOK /\ SlotsInv => NoRepeatedCancel
    <2> SUFFICES ASSUME TypeOK, SlotsInv, NEW sym \in Syms, NEW side \in Sides,
                        NEW i \in Ids, UnderWay("Cancel", i, sym, side),
                        oms[sym][side].cl_ord_id = i
                 PROVE  oms[sym][side].state = "PendingCancel"
      BY DEF NoRepeatedCancel
    <2>1. i # 0
      BY DEF TypeOK, MarketMakerTypeOK, Ids
    <2> QED BY <2>1 DEF SlotsInv, CancelPending, BeingCancelled, UnderWay, CmdIs, MsgIs
  <1> QED BY <1>1, TypeCorrect, SlotsAlways, PTL

\* What one step may do to a slot.
LEMMA NextSlotStep ==
  ASSUME TypeOK, SlotsInv, Next, NEW x \in Syms, NEW y \in Sides
  PROVE  \/ oms'[x][y].state = oms[x][y].state
              /\ oms'[x][y].cl_ord_id = oms[x][y].cl_ord_id
         \/ oms[x][y].cl_ord_id = 0 /\ oms'[x][y].cl_ord_id = 0
         \/ oms[x][y].state = "None" /\ oms'[x][y].state = "PendingNew"
         \/ /\ \/ oms[x][y].state = "PendingNew" /\ oms'[x][y].state = "Live"
               \/ oms[x][y].state = "Live" /\ oms'[x][y].state = "PendingCancel"
            /\ oms'[x][y].cl_ord_id = oms[x][y].cl_ord_id
         \/ oms'[x][y].state = "None"
  <1>0. NoQuote.state = "None"
    BY DEF NoQuote
  <1>1. CASE PopExec
    BY <1>0, <1>1, PopExecSlots
  <1>2. ASSUME NEW side \in Sides, NEW px \in Int, act(side, px)
        PROVE  \/ oms'[x][y] = oms[x][y]
               \/ oms[x][y].state = "None" /\ oms'[x][y].state = "PendingNew"
               \/ /\ oms[x][y].state = "Live" /\ oms'[x][y].state = "PendingCancel"
                  /\ oms'[x][y].cl_ord_id = oms[x][y].cl_ord_id
    <2>1. oms \in [Syms -> [Sides -> Quote]]
      BY CoreTypes
    <2>2. CASE UNCHANGED <<oms, ordRing>>
      BY <2>2
    <2>3. ASSUME NEW c \in OrderCmd, NEW quote \in Quote,
                 oms' = [oms EXCEPT ![c.symbol_id][c.side] = quote],
                 \/ /\ oms[c.symbol_id][c.side].state = "None"
                    /\ quote.state = "PendingNew"
                 \/ /\ oms[c.symbol_id][c.side].state = "Live"
                    /\ quote.cl_ord_id = oms[c.symbol_id][c.side].cl_ord_id
                    /\ quote.state = "PendingCancel"
          PROVE  \/ oms'[x][y] = oms[x][y]
                 \/ oms[x][y].state = "None" /\ oms'[x][y].state = "PendingNew"
                 \/ /\ oms[x][y].state = "Live" /\ oms'[x][y].state = "PendingCancel"
                    /\ oms'[x][y].cl_ord_id = oms[x][y].cl_ord_id
      <3>1. c.symbol_id \in Syms /\ c.side \in Sides
        BY DEF OrderCmd
      <3>2. \/ oms'[x][y] = oms[x][y]
            \/ x = c.symbol_id /\ y = c.side /\ oms'[x][y] = quote
        BY <2>1, <2>3, <3>1
      <3> QED BY <2>3, <3>2
    <2> QED BY <1>2, <2>2, <2>3, ActSlots
  <1>3. CASE ActBuy \/ ActSell
    <2>1. plan.bid \in Int /\ plan.ask \in Int
      BY DEF TypeOK, MarketMakerTypeOK, Plan
    <2> QED BY <1>2, <1>3, <2>1 DEF ActBuy, ActSell, Sides
  <1>4. CASE Restart
    BY <1>0, <1>4 DEF Restart
  <1>5. CASE /\ Strategy
             /\ ExecDrained \/ PopMd \/ MdEmpty \/ SnapshotDue
                \/ SnapshotNotDue \/ PushSnapshot
    BY <1>5 DEF ExecDrained, PopMd, MdEmpty, SnapshotDue, SnapshotNotDue,
                PushSnapshot
  <1>6. CASE Reader \/ Sender \/ Network \/ VenueAnswers \/ VenueTrades \/ Persister
    BY <1>6 DEF Reader, Sender, Network, VenueAnswers, VenueTrades, Persister,
                strategy
  <1> QED BY <1>1, <1>3, <1>4, <1>5, <1>6 DEF Next, Strategy, StrategyStep

\* No report revives a slot that is being cancelled, makes a free one Live, or
\* hands a slot from one order to the next, in any order of reports,
\* disconnects and restarts.
THEOREM SlotsNeverGoBack ==
  ASSUME "pending_status" \notin VenueMay
  PROVE  Spec => SlotLifecycle
  <1>1. TypeOK /\ SlotsInv /\ [Next]_vars =>
          [\A sym \in Syms, side \in Sides :
             LET before == oms[sym][side]
                 after == oms'[sym][side]
             IN \/ after.state = before.state /\ after.cl_ord_id = before.cl_ord_id
                \/ before.cl_ord_id = 0 /\ after.cl_ord_id = 0
                \/ before.state = "None" /\ after.state = "PendingNew"
                \/ /\ <<before.state, after.state>> \in
                        {<<"PendingNew", "Live">>, <<"Live", "PendingCancel">>}
                   /\ after.cl_ord_id = before.cl_ord_id
                \/ after.state = "None"]_vars
    BY NextSlotStep
  <1> QED BY <1>1, TypeCorrect, SlotsAlways, PTL DEF SlotLifecycle, Spec
=============================================================================

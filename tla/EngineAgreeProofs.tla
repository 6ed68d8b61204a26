-------------------------- MODULE EngineAgreeProofs --------------------------
(***************************************************************************)
(* How many reports wait for the strategy, and that engine and venue agree *)
(* when nothing is in flight, for every number of symbols, every quantity  *)
(* and every market.  The second holds provided that nothing is lost: the  *)
(* session stays up once it is, the ring has room for the reports that can *)
(* wait, and the venue answers what it is asked.                           *)
(***************************************************************************)
EXTENDS EngineSlotProofs, FiniteSetTheorems

-----------------------------------------------------------------------------
(* The two directions, Sent and Reports, under the steps of their queues.  *)

\* What is on its way is of the type of its queue.
LEMMA FlightTypes ==
  ASSUME TypeOK
  PROVE  /\ Sent \subseteq OrderMessage
         /\ Reports \subseteq ExecEvent
         /\ \A k \in 1 .. Len(from_exch) :
              from_exch[k] \in ReportMessage /\ exec_event(from_exch[k]) \in ExecEvent
         /\ \A k \in 1 .. Len(execRing) : execRing[k] \in ExecEvent
  <1>1. /\ \A k \in 1 .. Len(ordRing) : ordRing[k] \in OrderCmd
        /\ sent_cmd \in OrderCmd
        /\ \A k \in 1 .. Len(to_exch) : to_exch[k] \in OrderMessage
        /\ \A k \in 1 .. Len(from_exch) : from_exch[k] \in ReportMessage
        /\ \A k \in 1 .. Len(execRing) : execRing[k] \in ExecEvent
    BY CoreTypes
  <1>2. \A c \in OrderCmd : fix_message(c) \in OrderMessage
    BY MessageType
  <1>3. \A r \in ReportMessage : exec_event(r) \in ExecEvent
    <2> SUFFICES ASSUME NEW r \in ReportMessage PROVE exec_event(r) \in ExecEvent
      OBVIOUS
    <2>1. exec_kind(r) \in ExecKinds
      BY DEF exec_kind, ExecKinds
    <2>2. symbol_id(r.Symbol) = r.Symbol
      BY DEF symbol_id, ReportMessage
    <2> QED BY <2>1, <2>2 DEF exec_event, ExecEvent, ReportMessage
  <1>4. Sent \subseteq OrderMessage
    BY <1>1, <1>2 DEF Sent
  <1>5. Reports \subseteq ExecEvent
    BY <1>1, <1>3 DEF Reports
  <1> QED BY <1>1, <1>3, <1>4, <1>5

\* A command the strategy pushes is on its way.
LEMMA SentByEmit ==
  ASSUME TypeOK, NEW c \in OrderCmd, ordRing' = Append(ordRing, c),
         UNCHANGED <<sent_cmd, to_exch>>
  PROVE  Sent' = Sent \cup {fix_message(c)}
  <1>1. /\ Len(ordRing) \in Nat /\ Len(ordRing') = Len(ordRing) + 1
        /\ \A k \in 1 .. Len(ordRing) : ordRing'[k] = ordRing[k]
        /\ ordRing'[Len(ordRing) + 1] = c
    BY CoreTypes, AppendFacts
  <1> DEFINE old == {fix_message(ordRing[k]) : k \in 1 .. Len(ordRing)}
             new == {fix_message(ordRing'[k]) : k \in 1 .. Len(ordRing')}
  <1>2. new \subseteq old \cup {fix_message(c)}
    <2> SUFFICES ASSUME NEW k \in 1 .. Len(ordRing')
                 PROVE  fix_message(ordRing'[k]) \in old \cup {fix_message(c)}
      OBVIOUS
    <2>1. k \in 1 .. Len(ordRing) \/ k = Len(ordRing) + 1
      BY <1>1
    <2> QED BY <1>1, <2>1
  <1>3. old \cup {fix_message(c)} \subseteq new
    <2>1. \A k \in 1 .. Len(ordRing) : k \in 1 .. Len(ordRing')
      BY <1>1
    <2>2. Len(ordRing) + 1 \in 1 .. Len(ordRing')
      BY <1>1
    <2> QED BY <1>1, <2>1, <2>2
  <1>4. new = old \cup {fix_message(c)}
    BY <1>2, <1>3
  <1> HIDE DEF old, new
  <1> QED BY <1>4 DEF Sent, old, new

\* The sender takes a command out of the ring: it stays on its way.
LEMMA SentByPop ==
  ASSUME TypeOK, OrderIdsInv, SenderPop
  PROVE  Sent' = Sent
  <1>1. /\ 1 \in 1 .. Len(ordRing) /\ Len(ordRing) \in Nat
        /\ Len(ordRing') = Len(ordRing) - 1
        /\ sent_cmd' = ordRing[1]
        /\ \A k \in 1 .. Len(ordRing') :
             k + 1 \in 1 .. Len(ordRing) /\ ordRing'[k] = ordRing[k + 1]
    <2>1. /\ ordRing \in Seq(OrderCmd) /\ ordRing # <<>> /\ ordRing' = Tail(ordRing)
          /\ sent_cmd' = Head(ordRing)
      BY CoreTypes DEF SenderPop
    <2> QED BY <2>1, TailFacts
  <1>2. sent_cmd = NoCmd /\ to_exch' = to_exch
    BY DEF SenderPop, wire
  <1>3. sent_cmd' # NoCmd
    <2>1. ordRing[1].cl_ord_id \in Drawn
      BY <1>1 DEF OrderIdsInv, IdsKnown
    <2>2. ordRing[1].cl_ord_id # 0
      BY <2>1, CoreTypes DEF Drawn
    <2> QED BY <1>1, <2>2 DEF NoCmd
  <1> DEFINE old == {fix_message(ordRing[k]) : k \in 1 .. Len(ordRing)}
             new == {fix_message(ordRing'[k]) : k \in 1 .. Len(ordRing')}
  <1>4. new \cup {fix_message(ordRing[1])} \subseteq old
    BY <1>1
  <1>5. old \subseteq new \cup {fix_message(ordRing[1])}
    <2> SUFFICES ASSUME NEW k \in 1 .. Len(ordRing)
                 PROVE  fix_message(ordRing[k]) \in new \cup {fix_message(ordRing[1])}
      OBVIOUS
    <2>1. CASE k = 1
      BY <2>1
    <2>2. CASE k # 1
      <3>1. k - 1 \in 1 .. Len(ordRing')
        BY <1>1, <2>2
      <3>2. ordRing'[k - 1] = ordRing[k]
        BY <1>1, <3>1
      <3> QED BY <3>1, <3>2
    <2> QED BY <2>1, <2>2
  <1>6. old = new \cup {fix_message(ordRing[1])}
    BY <1>4, <1>5
  <1> HIDE DEF old, new
  <1> QED BY <1>1, <1>2, <1>3, <1>6 DEF Sent, old, new

\* The sender sends it, logged on and with the session up.
LEMMA SentBySend ==
  ASSUME TypeOK, SenderSend, logged_on, session_up
  PROVE  Sent' = Sent
  <1>1. /\ sent_cmd # NoCmd /\ sent_cmd' = NoCmd /\ ordRing' = ordRing
        /\ to_exch' = Append(to_exch, fix_message(sent_cmd))
    BY DEF SenderSend, sendToTarget, rings
  <1>2. /\ Len(to_exch) \in Nat /\ Len(to_exch') = Len(to_exch) + 1
        /\ \A k \in 1 .. Len(to_exch) : to_exch'[k] = to_exch[k]
        /\ to_exch'[Len(to_exch) + 1] = fix_message(sent_cmd)
    BY <1>1, CoreTypes, MessageType, AppendFacts
  <1> DEFINE old == {to_exch[k] : k \in 1 .. Len(to_exch)}
             new == {to_exch'[k] : k \in 1 .. Len(to_exch')}
  <1>3. new \subseteq old \cup {fix_message(sent_cmd)}
    <2> SUFFICES ASSUME NEW k \in 1 .. Len(to_exch')
                 PROVE  to_exch'[k] \in old \cup {fix_message(sent_cmd)}
      OBVIOUS
    <2>1. k \in 1 .. Len(to_exch) \/ k = Len(to_exch) + 1
      BY <1>2
    <2> QED BY <1>2, <2>1
  <1>4. old \cup {fix_message(sent_cmd)} \subseteq new
    <2>1. \A k \in 1 .. Len(to_exch) : k \in 1 .. Len(to_exch')
      BY <1>2
    <2>2. Len(to_exch) + 1 \in 1 .. Len(to_exch')
      BY <1>2
    <2> QED BY <1>2, <2>1, <2>2
  <1>5. new = old \cup {fix_message(sent_cmd)}
    BY <1>3, <1>4
  <1> HIDE DEF old, new
  <1> QED BY <1>1, <1>5 DEF Sent, old, new

\* The venue takes the next message: all but that one are still on their way.
LEMMA SentByReceive ==
  ASSUME TypeOK, to_exch # <<>>, to_exch' = Tail(to_exch),
         UNCHANGED <<ordRing, sent_cmd>>
  PROVE  /\ Sent' \subseteq Sent /\ Sent \subseteq Sent' \cup {Head(to_exch)}
         /\ Head(to_exch) \in Sent /\ Head(to_exch) \in OrderMessage
  <1>1. /\ 1 \in 1 .. Len(to_exch) /\ Len(to_exch) \in Nat
        /\ Head(to_exch) = to_exch[1] /\ Head(to_exch) \in OrderMessage
        /\ Len(to_exch') = Len(to_exch) - 1
        /\ \A k \in 1 .. Len(to_exch') :
             k + 1 \in 1 .. Len(to_exch) /\ to_exch'[k] = to_exch[k + 1]
    BY CoreTypes, TailFacts
  <1> DEFINE old == {to_exch[k] : k \in 1 .. Len(to_exch)}
             new == {to_exch'[k] : k \in 1 .. Len(to_exch')}
  <1>2. new \subseteq old /\ to_exch[1] \in old
    BY <1>1
  <1>3. old \subseteq new \cup {to_exch[1]}
    <2> SUFFICES ASSUME NEW k \in 1 .. Len(to_exch)
                 PROVE  to_exch[k] \in new \cup {to_exch[1]}
      OBVIOUS
    <2>1. CASE k = 1
      BY <2>1
    <2>2. CASE k # 1
      <3>1. k - 1 \in 1 .. Len(to_exch')
        BY <1>1, <2>2
      <3>2. to_exch'[k - 1] = to_exch[k]
        BY <1>1, <3>1
      <3> QED BY <3>1, <3>2
    <2> QED BY <2>1, <2>2
  <1> HIDE DEF old, new
  <1> QED BY <1>1, <1>2, <1>3 DEF Sent, old, new
\* The reports on the wire, as the strategy will see them.
Inbound == {exec_event(from_exch[k]) :
              k \in {i \in 1 .. Len(from_exch) : IsReport(from_exch[i])}}

\* The strategy takes a report: the others are still to come, and those on the
\* same order leave less.
LEMMA ReportsByPop ==
  ASSUME TypeOK, execRing # <<>>, execRing' = Tail(execRing), UNCHANGED from_exch
  PROVE  /\ Reports' \subseteq Reports /\ Reports \subseteq Reports' \cup {execRing[1]}
         /\ execRing[1] \in Reports
         /\ LeavesFall => /\ LeavesFall'
                          /\ \A f \in Reports' : LeavesLess(execRing[1], f)
  <1>1. /\ 1 \in 1 .. Len(execRing) /\ Len(execRing) \in Nat
        /\ Len(execRing') = Len(execRing) - 1
        /\ \A k \in 1 .. Len(execRing') :
             k + 1 \in 2 .. Len(execRing) /\ execRing'[k] = execRing[k + 1]
    BY CoreTypes, TailFacts
  <1>2. \A k \in 1 .. Len(execRing') : k + 1 \in 1 .. Len(execRing) /\ 1 < k + 1
    BY <1>1
  <1> DEFINE old == {execRing[k] : k \in 1 .. Len(execRing)}
             new == {execRing'[k] : k \in 1 .. Len(execRing')}
  <1>3. new \subseteq old /\ execRing[1] \in old
    BY <1>1, <1>2
  <1>4. old \subseteq new \cup {execRing[1]}
    <2> SUFFICES ASSUME NEW k \in 1 .. Len(execRing)
                 PROVE  execRing[k] \in new \cup {execRing[1]}
      OBVIOUS
    <2>1. CASE k = 1
      BY <2>1
    <2>2. CASE k # 1
      <3>1. k - 1 \in 1 .. Len(execRing')
        BY <1>1, <2>2
      <3>2. execRing'[k - 1] = execRing[k]
        BY <1>1, <3>1
      <3> QED BY <3>1, <3>2
    <2> QED BY <2>1, <2>2
  <1>5. Reports = old \cup Inbound /\ Reports' = new \cup Inbound
    BY DEF Reports, Inbound
  <1>6. ASSUME LeavesFall
        PROVE  LeavesFall' /\ \A f \in Reports' : LeavesLess(execRing[1], f)
    <2>1. \A j, k \in 1 .. Len(execRing) : j < k => LeavesLess(execRing[j], execRing[k])
      BY <1>6 DEF LeavesFall
    <2>2. \A f \in new : LeavesLess(execRing[1], f)
      BY <1>1, <1>2, <2>1
    <2>3. \A f \in Inbound : LeavesLess(execRing[1], f)
      BY <1>1, <1>6 DEF LeavesFall, Inbound
    <2>4. \A j, k \in 1 .. Len(execRing') :
            j < k => LeavesLess(execRing'[j], execRing'[k])
      <3> SUFFICES ASSUME NEW j \in 1 .. Len(execRing'), NEW k \in 1 .. Len(execRing'),
                          j < k
                   PROVE  LeavesLess(execRing'[j], execRing'[k])
        OBVIOUS
      <3>1. j + 1 < k + 1
        OBVIOUS
      <3>2. LeavesLess(execRing[j + 1], execRing[k + 1])
        BY <1>2, <2>1, <3>1
      <3> QED BY <1>1, <3>2
    <2>5. \A j \in 1 .. Len(execRing'), k \in 1 .. Len(from_exch) :
            IsReport(from_exch[k]) => LeavesLess(execRing'[j], exec_event(from_exch[k]))
      BY <1>1, <1>2, <1>6 DEF LeavesFall
    <2>6. LeavesFall'
      BY <1>6, <2>4, <2>5 DEF LeavesFall
    <2> QED BY <1>5, <2>2, <2>3, <2>6
  <1> HIDE DEF old, new
  <1> QED BY <1>3, <1>4, <1>5, <1>6

\* Whenever the next message is a report, the ring takes it.
RoomForReport ==
  from_exch # <<>> /\ IsReport(Head(from_exch)) => Len(execRing) < ExecCap

\* The reader passes a report on, drops it if the ring is full, or discards
\* what is none: nothing overtakes, and with room in the ring nothing is lost.
LEMMA ReportsByReader ==
  ASSUME TypeOK, FromApp
  PROVE  /\ Reports' \subseteq Reports /\ (LeavesFall => LeavesFall')
         /\ RoomForReport => Reports' = Reports
  <1> DEFINE m == from_exch[1]
             e == exec_event(m)
  <1>0. /\ execRing \in Seq(ExecEvent) /\ from_exch \in Seq(ReportMessage)
        /\ from_exch # <<>> /\ from_exch' = Tail(from_exch)
    BY CoreTypes DEF FromApp
  <1>1. /\ 1 \in 1 .. Len(from_exch) /\ Len(from_exch) \in Nat /\ Head(from_exch) = m
        /\ Len(from_exch') = Len(from_exch) - 1
        /\ \A k \in 1 .. Len(from_exch') :
             k + 1 \in 2 .. Len(from_exch) /\ from_exch'[k] = from_exch[k + 1]
    BY <1>0, TailFacts
  <1>2. \A k \in 1 .. Len(from_exch') : k + 1 \in 1 .. Len(from_exch) /\ 1 < k + 1
    BY <1>1
  <1>3. e \in ExecEvent
    BY <1>1, FlightTypes
  <1>4. Inbound' \subseteq Inbound
    <2> SUFFICES ASSUME NEW k \in 1 .. Len(from_exch'), IsReport(from_exch'[k])
                 PROVE  exec_event(from_exch'[k]) \in Inbound
      BY DEF Inbound, IsReport, exec_event, exec_kind
    <2> QED BY <1>1, <1>2 DEF Inbound, IsReport
  <1>5. Inbound \subseteq Inbound' \cup {e}
    <2> SUFFICES ASSUME NEW k \in 1 .. Len(from_exch), IsReport(from_exch[k]), k # 1
                 PROVE  exec_event(from_exch[k]) \in Inbound'
      BY DEF Inbound
    <2>1. k - 1 \in 1 .. Len(from_exch')
      BY <1>1
    <2>2. from_exch'[k - 1] = from_exch[k]
      BY <1>1, <2>1
    <2> QED BY <2>1, <2>2 DEF Inbound, IsReport, exec_event, exec_kind
  <1> DEFINE old == {execRing[k] : k \in 1 .. Len(execRing)}
             new == {execRing'[k] : k \in 1 .. Len(execRing')}
  <1>6. Reports = old \cup Inbound /\ Reports' = new \cup Inbound'
    BY DEF Reports, Inbound
  <1>7. ASSUME LeavesFall
        PROVE  /\ \A j, k \in 1 .. Len(from_exch') :
                    IsReport(from_exch'[j]) /\ IsReport(from_exch'[k]) /\ j < k =>
                      LeavesLess(exec_event(from_exch'[j]), exec_event(from_exch'[k]))
               /\ \A j \in 1 .. Len(execRing), k \in 1 .. Len(from_exch') :
                    IsReport(from_exch'[k]) =>
                      LeavesLess(execRing[j], exec_event(from_exch'[k]))
               /\ IsReport(m) =>
                    \A k \in 1 .. Len(from_exch') :
                      IsReport(from_exch'[k]) => LeavesLess(e, exec_event(from_exch'[k]))
    <2>1. \A j, k \in 1 .. Len(from_exch) :
            IsReport(from_exch[j]) /\ IsReport(from_exch[k]) /\ j < k =>
              LeavesLess(exec_event(from_exch[j]), exec_event(from_exch[k]))
      BY <1>7 DEF LeavesFall
    <2>2. \A j \in 1 .. Len(execRing), k \in 1 .. Len(from_exch) :
            IsReport(from_exch[k]) => LeavesLess(execRing[j], exec_event(from_exch[k]))
      BY <1>7 DEF LeavesFall
    <2>3. ASSUME NEW j \in 1 .. Len(from_exch'), NEW k \in 1 .. Len(from_exch'),
                 IsReport(from_exch'[j]), IsReport(from_exch'[k]), j < k
          PROVE  LeavesLess(exec_event(from_exch'[j]), exec_event(from_exch'[k]))
      <3>1. j + 1 < k + 1 /\ j + 1 \in 1 .. Len(from_exch) /\ k + 1 \in 1 .. Len(from_exch)
        BY <1>2, <2>3
      <3>2. from_exch'[j] = from_exch[j + 1] /\ from_exch'[k] = from_exch[k + 1]
        BY <1>1
      <3> QED BY <2>1, <2>3, <3>1, <3>2
    <2>4. ASSUME NEW j \in 1 .. Len(execRing), NEW k \in 1 .. Len(from_exch'),
                 IsReport(from_exch'[k])
          PROVE  LeavesLess(execRing[j], exec_event(from_exch'[k]))
      BY <1>1, <1>2, <2>2, <2>4
    <2>5. ASSUME IsReport(m), NEW k \in 1 .. Len(from_exch'), IsReport(from_exch'[k])
          PROVE  LeavesLess(e, exec_event(from_exch'[k]))
      <3>1. 1 < k + 1 /\ k + 1 \in 1 .. Len(from_exch)
        BY <1>2
      <3> QED BY <1>1, <2>1, <2>5, <3>1
    <2> QED BY <2>3, <2>4, <2>5
  <1>8. CASE IsReport(m) /\ Len(execRing) < ExecCap
    <2>1. execRing' = Append(execRing, e)
      BY <1>1, <1>8 DEF FromApp, try_push, can_push, IsReport
    <2>2. /\ Len(execRing) \in Nat /\ Len(execRing') = Len(execRing) + 1
          /\ \A k \in 1 .. Len(execRing) : execRing'[k] = execRing[k]
          /\ execRing'[Len(execRing) + 1] = e
      BY <1>0, <1>3, <2>1, AppendFacts
    <2>3. \A k \in 1 .. Len(execRing') :
            (k \in 1 .. Len(execRing) /\ execRing'[k] = execRing[k])
              \/ (k = Len(execRing) + 1 /\ execRing'[k] = e)
      BY <2>2
    <2>4. /\ \A k \in 1 .. Len(execRing) : k \in 1 .. Len(execRing')
          /\ Len(execRing) + 1 \in 1 .. Len(execRing')
      BY <2>2
    <2>5. new = old \cup {e}
      BY <2>2, <2>3, <2>4
    <2>6. e \in Inbound
      BY <1>1, <1>8 DEF Inbound
    <2>7. Reports' = Reports
      <3> HIDE DEF old, new, e
      <3> QED BY <1>4, <1>5, <1>6, <2>5, <2>6
    <2>8. ASSUME LeavesFall PROVE LeavesFall'
      <3>1. \A j, k \in 1 .. Len(execRing) :
              j < k => LeavesLess(execRing[j], execRing[k])
        BY <2>8 DEF LeavesFall
      <3>2. \A j \in 1 .. Len(execRing) : LeavesLess(execRing[j], e)
        BY <1>1, <1>8, <2>8 DEF LeavesFall
      <3>3. ASSUME NEW j \in 1 .. Len(execRing'), NEW k \in 1 .. Len(execRing'), j < k
            PROVE  LeavesLess(execRing'[j], execRing'[k])
        <4>1. j \in 1 .. Len(execRing)
          BY <2>2, <3>3
        <4> HIDE DEF e
        <4> QED BY <2>3, <3>1, <3>2, <3>3, <4>1
      <3>4. \A j \in 1 .. Len(execRing'), k \in 1 .. Len(from_exch') :
              IsReport(from_exch'[k]) =>
                LeavesLess(execRing'[j], exec_event(from_exch'[k]))
        <4> HIDE DEF e, m
        <4> QED BY <1>7, <1>8, <2>3, <2>8
      <3> QED BY <1>7, <2>8, <3>3, <3>4 DEF LeavesFall, IsReport, exec_event, exec_kind
    <2> QED BY <2>7, <2>8
  <1>9. CASE ~(IsReport(m) /\ Len(execRing) < ExecCap)
    <2>1. execRing' = execRing
      BY <1>1, <1>9 DEF FromApp, try_push, can_push, IsReport
    <2>2. ASSUME ~IsReport(m) PROVE Inbound \subseteq Inbound'
      <3> SUFFICES ASSUME NEW k \in 1 .. Len(from_exch), IsReport(from_exch[k])
                   PROVE  exec_event(from_exch[k]) \in Inbound'
        BY DEF Inbound
      <3>0. k # 1
        BY <2>2
      <3>1. k - 1 \in 1 .. Len(from_exch')
        BY <1>1, <3>0
      <3>2. from_exch'[k - 1] = from_exch[k]
        BY <1>1, <3>1
      <3> QED BY <3>1, <3>2 DEF Inbound, IsReport, exec_event, exec_kind
    <2>3. Reports' \subseteq Reports
      BY <1>4, <1>6, <2>1
    <2>4. RoomForReport => ~IsReport(m)
      BY <1>0, <1>1, <1>9 DEF RoomForReport
    <2>5. RoomForReport => Reports' = Reports
      BY <1>4, <1>6, <2>1, <2>2, <2>4
    <2>6. ASSUME LeavesFall PROVE LeavesFall'
      BY <1>7, <2>1, <2>6 DEF LeavesFall, IsReport, exec_event, exec_kind
    <2> QED BY <2>3, <2>5, <2>6
  <1> QED BY <1>8, <1>9

\* The venue sends an execution report, which leaves less of its order than
\* the earlier reports do.
LEMMA ReportsByVenue ==
  ASSUME TypeOK, NEW r \in ReportMessage, from_exch' = Append(from_exch, r),
         UNCHANGED execRing
  PROVE  /\ IsReport(r) => Reports' = Reports \cup {exec_event(r)}
         /\ ~IsReport(r) => Reports' = Reports
         /\ /\ LeavesFall
            /\ IsReport(r) => \A f \in Reports : LeavesLess(f, exec_event(r))
            => LeavesFall'
  <1>1. /\ Len(from_exch) \in Nat /\ Len(from_exch') = Len(from_exch) + 1
        /\ \A k \in 1 .. Len(from_exch) : from_exch'[k] = from_exch[k]
        /\ from_exch'[Len(from_exch) + 1] = r
    BY CoreTypes, AppendFacts
  <1>2. \A k \in 1 .. Len(from_exch') :
          (k \in 1 .. Len(from_exch) /\ from_exch'[k] = from_exch[k])
            \/ (k = Len(from_exch) + 1 /\ from_exch'[k] = r)
    BY <1>1
  <1>3. /\ \A k \in 1 .. Len(from_exch) : k \in 1 .. Len(from_exch')
        /\ Len(from_exch) + 1 \in 1 .. Len(from_exch')
    BY <1>1
  <1> DEFINE E(x) == exec_event(x)
             R(x) == IsReport(x)
             In == {E(from_exch[k]) : k \in {i \in 1 .. Len(from_exch) : R(from_exch[i])}}
             In1 == {E(from_exch'[k]) :
                       k \in {i \in 1 .. Len(from_exch') : R(from_exch'[i])}}
             old == {execRing[k] : k \in 1 .. Len(execRing)}
  <1>4. Reports = old \cup In /\ Reports' = old \cup In1
    BY DEF Reports, IsReport, exec_event, exec_kind
  <1>5. LeavesFall =>
          /\ \A j, k \in 1 .. Len(execRing) : j < k => LeavesLess(execRing[j], execRing[k])
          /\ \A j \in 1 .. Len(execRing), k \in 1 .. Len(from_exch) :
               R(from_exch[k]) => LeavesLess(execRing[j], E(from_exch[k]))
          /\ \A j, k \in 1 .. Len(from_exch) :
               R(from_exch[j]) /\ R(from_exch[k]) /\ j < k =>
                 LeavesLess(E(from_exch[j]), E(from_exch[k]))
    BY DEF LeavesFall
  <1>6. /\ \A j, k \in 1 .. Len(execRing) : j < k => LeavesLess(execRing[j], execRing[k])
        /\ \A j \in 1 .. Len(execRing), k \in 1 .. Len(from_exch') :
             R(from_exch'[k]) => LeavesLess(execRing[j], E(from_exch'[k]))
        /\ \A j, k \in 1 .. Len(from_exch') :
             R(from_exch'[j]) /\ R(from_exch'[k]) /\ j < k =>
               LeavesLess(E(from_exch'[j]), E(from_exch'[k]))
        => LeavesFall'
    BY DEF LeavesFall, IsReport, exec_event, exec_kind
  <1> HIDE DEF E, R
  <1>7. R(r) => In1 = In \cup {E(r)}
    BY <1>1, <1>2, <1>3
  <1>8. ~R(r) => In1 = In
    BY <1>1, <1>2, <1>3
  <1>9. ASSUME LeavesFall, R(r) => \A f \in Reports : LeavesLess(f, E(r))
        PROVE  LeavesFall'
    <2>1. /\ R(r) => \A j \in 1 .. Len(execRing) : LeavesLess(execRing[j], E(r))
          /\ R(r) => \A j \in 1 .. Len(from_exch) :
                       R(from_exch[j]) => LeavesLess(E(from_exch[j]), E(r))
      BY <1>4, <1>9
    <2>2. \A j \in 1 .. Len(execRing), k \in 1 .. Len(from_exch') :
            R(from_exch'[k]) => LeavesLess(execRing[j], E(from_exch'[k]))
      BY <1>2, <1>5, <1>9, <2>1
    <2>3. ASSUME NEW j \in 1 .. Len(from_exch'), NEW k \in 1 .. Len(from_exch'),
                 R(from_exch'[j]), R(from_exch'[k]), j < k
          PROVE  LeavesLess(E(from_exch'[j]), E(from_exch'[k]))
      <3>1. j \in 1 .. Len(from_exch) /\ from_exch'[j] = from_exch[j]
        BY <1>1, <2>3
      <3>2. CASE k \in 1 .. Len(from_exch) /\ from_exch'[k] = from_exch[k]
        BY <1>5, <1>9, <2>3, <3>1, <3>2
      <3>3. CASE from_exch'[k] = r
        BY <2>1, <2>3, <3>1, <3>3
      <3> QED BY <1>2, <3>2, <3>3
    <2> QED BY <1>5, <1>6, <1>9, <2>2, <2>3
  <1> HIDE DEF In, In1, old
  <1> QED BY <1>4, <1>7, <1>8, <1>9 DEF E, R
-----------------------------------------------------------------------------
(* The life of ids, as OrderIdsInv and SlotsInv tell it of Sent, Reports,  *)
(* slots and orders in the only process there is.                          *)

\* The slot is in use for the order with this id.
Holds(sym, side, id) == oms[sym][side].cl_ord_id = id /\ oms[sym][side].state # "None"

IdFacts ==
  /\ \A m \in Sent :
       /\ m.MsgType = "D" => Holds(m.Symbol, m.Side, m.ClOrdID) /\ m.ClOrdID # 0
       /\ m.MsgType = "F" => \A n \in Sent : n.ClOrdID # m.OrigClOrdID
  /\ \A e \in Reports :
       /\ e.cl_ord_id < next_id
       /\ \A m \in Sent : m.ClOrdID # e.cl_ord_id
       /\ e.kind \in Terminal => \A o \in working : o.cl_ord_id # e.cl_ord_id
  /\ \A o \in working :
       /\ Holds(o.symbol_id, o.side, o.cl_ord_id) /\ o.cl_ord_id # 0
       /\ \A m \in Sent : m.ClOrdID # o.cl_ord_id
       /\ \A p \in working : p.cl_ord_id = o.cl_ord_id => p = o
  /\ \A s \in Syms, d \in Sides :
       /\ oms[s][d].cl_ord_id < next_id
       /\ oms[s][d].state = "None" => oms[s][d].cl_ord_id = 0

\* They follow from the life of an order id and of a slot.
LEMMA IdsInFlight ==
  ASSUME TypeOK, OrderIdsInv, SlotsInv, first_id = 1
  PROVE  IdFacts
  <1>1. next_id \in Nat \ {0}
    BY CoreTypes
  <1>2. \A id \in Drawn : id \in Nat /\ id # 0 /\ id >= first_id /\ id < next_id
    BY <1>1 DEF Drawn
  <1>3. {m.ClOrdID : m \in Sent} \subseteq PipeIds
    BY DEF Sent, PipeIds, fix_message
  <1>4. PipeIds \subseteq Drawn
    BY DEF PipeIds, OrderIdsInv, IdsKnown
  <1>5. ASSUME NEW m \in Sent
        PROVE  /\ m.MsgType = "D" => Owns(m.ClOrdID, m.Symbol, m.Side)
               /\ m.MsgType = "F" => m.OrigClOrdID \notin PipeIds
    <2>1. ASSUME NEW k \in 1 .. Len(ordRing), m = fix_message(ordRing[k])
          PROVE  /\ m.MsgType = "D" => Owns(m.ClOrdID, m.Symbol, m.Side)
                 /\ m.MsgType = "F" => m.OrigClOrdID \notin PipeIds
      <3>1. ordRing[k] \in OrderCmd
        BY CoreTypes
      <3>2. ordRing[k].type \in {"New", "Cancel"}
        BY <3>1 DEF OrderCmd
      <3> QED BY <2>1, <3>2 DEF fix_message, OrderIdsInv, Owned, CancelsAnswered
    <2>2. ASSUME sent_cmd # NoCmd, m = fix_message(sent_cmd)
          PROVE  /\ m.MsgType = "D" => Owns(m.ClOrdID, m.Symbol, m.Side)
                 /\ m.MsgType = "F" => m.OrigClOrdID \notin PipeIds
      <3>2. sent_cmd.type \in {"New", "Cancel"}
        BY CoreTypes DEF OrderCmd
      <3> QED BY <2>2, <3>2 DEF fix_message, OrderIdsInv, Owned, CancelsAnswered
    <2>3. ASSUME NEW k \in 1 .. Len(to_exch), m = to_exch[k]
          PROVE  /\ m.MsgType = "D" => Owns(m.ClOrdID, m.Symbol, m.Side)
                 /\ m.MsgType = "F" => m.OrigClOrdID \notin PipeIds
      BY <2>3 DEF OrderIdsInv, Owned, CancelsAnswered
    <2> QED BY <2>1, <2>2, <2>3 DEF Sent
  <1>6. ASSUME NEW m \in Sent
        PROVE  /\ m.MsgType = "D" => Holds(m.Symbol, m.Side, m.ClOrdID) /\ m.ClOrdID # 0
               /\ m.MsgType = "F" => \A n \in Sent : n.ClOrdID # m.OrigClOrdID
    <2>1. m.ClOrdID >= first_id /\ m.ClOrdID # 0
      BY <1>2, <1>3, <1>4
    <2> QED BY <1>3, <1>5, <2>1 DEF Owns, Holds
  <1>7. ASSUME NEW e \in Reports
        PROVE  /\ e.cl_ord_id \in Drawn \cup {0} /\ e.cl_ord_id \notin PipeIds
               /\ e.kind \in Terminal => \A o \in working : o.cl_ord_id # e.cl_ord_id
    <2>1. ASSUME NEW k \in 1 .. Len(execRing), e = execRing[k]
          PROVE  /\ e.cl_ord_id \in Drawn \cup {0} /\ e.cl_ord_id \notin PipeIds
                 /\ e.kind \in Terminal => \A o \in working : o.cl_ord_id # e.cl_ord_id
      BY <2>1 DEF OrderIdsInv, IdsKnown, Answered, TerminalIsGone
    <2>2. ASSUME NEW k \in 1 .. Len(from_exch), IsReport(from_exch[k]),
                 e = exec_event(from_exch[k])
          PROVE  /\ e.cl_ord_id \in Drawn \cup {0} /\ e.cl_ord_id \notin PipeIds
                 /\ e.kind \in Terminal => \A o \in working : o.cl_ord_id # e.cl_ord_id
      <3>1. /\ e.cl_ord_id = from_exch[k].ClOrdID /\ e.kind = exec_kind(from_exch[k])
            /\ from_exch[k].MsgType = "8"
        BY <2>2 DEF exec_event, IsReport
      <3> QED BY <3>1 DEF OrderIdsInv, IdsKnown, Answered, TerminalIsGone
    <2> QED BY <2>1, <2>2 DEF Reports
  <1>8. ASSUME NEW e \in Reports
        PROVE  /\ e.cl_ord_id < next_id
               /\ \A m \in Sent : m.ClOrdID # e.cl_ord_id
               /\ e.kind \in Terminal => \A o \in working : o.cl_ord_id # e.cl_ord_id
    <2>1. e.cl_ord_id < next_id
      BY <1>1, <1>2, <1>7
    <2> QED BY <1>3, <1>7, <2>1
  <1>9. ASSUME NEW o \in working
        PROVE  /\ Holds(o.symbol_id, o.side, o.cl_ord_id) /\ o.cl_ord_id # 0
               /\ \A m \in Sent : m.ClOrdID # o.cl_ord_id
               /\ \A p \in working : p.cl_ord_id = o.cl_ord_id => p = o
    <2>1. o.cl_ord_id \in Drawn /\ o.cl_ord_id \notin PipeIds
      BY DEF OrderIdsInv, IdsKnown, Answered
    <2>2. o.cl_ord_id >= first_id /\ o.cl_ord_id # 0
      BY <1>2, <2>1
    <2>3. Owns(o.cl_ord_id, o.symbol_id, o.side)
      BY DEF OrderIdsInv, Owned
    <2>4. \A p \in working : p.cl_ord_id = o.cl_ord_id => p = o
      BY DEF OrderIdsInv, WorkingDistinct
    <2> QED BY <1>3, <2>1, <2>2, <2>3, <2>4 DEF Owns, Holds
  <1>10. \A s \in Syms, d \in Sides :
           /\ oms[s][d].cl_ord_id < next_id
           /\ oms[s][d].state = "None" => oms[s][d].cl_ord_id = 0
    BY DEF OrderIdsInv, IdsKnown, SlotsInv, SlotIds
  <1> QED BY <1>6, <1>8, <1>9, <1>10 DEF IdFacts
-----------------------------------------------------------------------------
(* What each kind of step does to the agreement.                           *)

Agreement == ReportsFindSlot /\ TermsKept /\ LeavesReported /\ AnswersComing

\* Steps that only move things along change nothing.
LEMMA AgreementStutter ==
  ASSUME Agreement, UNCHANGED <<oms, working>>, Sent' = Sent, Reports' = Reports
  PROVE  Agreement'
  <1>1. ReportsFindSlot'
    BY DEF Agreement, ReportsFindSlot
  <1>2. TermsKept'
    BY DEF Agreement, TermsKept
  <1>3. LeavesReported'
    BY DEF Agreement, LeavesReported
  <1>4. AnswersComing'
    BY DEF Agreement, AnswersComing
  <1> QED BY <1>1, <1>2, <1>3, <1>4 DEF Agreement

\* Whatever a report says, on_exec applies it to the one slot that holds its
\* id, and to no other.
LEMMA OnExecFinds ==
  ASSUME TypeOK, ReportsFindSlot, NEW e \in Reports, oms' = on_exec(oms, e),
         NEW x \in Syms, NEW y \in Sides
  PROVE  oms'[x][y] = IF oms[x][y].cl_ord_id = e.cl_ord_id
                      THEN slot_after(oms[x][y], e) ELSE oms[x][y]
  <1>1. oms \in [Syms -> [Sides -> Quote]] /\ e \in ExecEvent
    BY CoreTypes, FlightTypes
  <1>2. e.symbol_id \in Syms /\ "Buy" \in Sides
    BY <1>1 DEF ExecEvent, Sides
  <1>3. oms'[x] = IF x = e.symbol_id
                  THEN [side \in Sides |-> IF matches(oms, e, side)
                                           THEN slot_after(oms[e.symbol_id][side], e)
                                           ELSE oms[e.symbol_id][side]]
                  ELSE oms[x]
    BY <1>1, <1>2 DEF on_exec
  <1>4. CASE oms[x][y].cl_ord_id = e.cl_ord_id
    <2>1. x = e.symbol_id /\ e.cl_ord_id # 0
      BY <1>4 DEF ReportsFindSlot
    <2>2. y = "Sell" => oms[x]["Buy"].cl_ord_id # e.cl_ord_id
      BY <1>2, <1>4, <2>1 DEF ReportsFindSlot
    <2>3. matches(oms, e, y)
      BY <1>4, <2>1, <2>2 DEF matches
    <2> QED BY <1>3, <1>4, <2>1, <2>3
  <1>5. CASE oms[x][y].cl_ord_id # e.cl_ord_id
    <2>1. x = e.symbol_id => ~matches(oms, e, y)
      BY <1>5 DEF matches
    <2> QED BY <1>3, <1>5, <2>1
  <1> QED BY <1>4, <1>5
\* The strategy takes the next report: what it says the slot says from now on.
LEMMA PopExecAgrees ==
  ASSUME TypeOK, IdFacts, Agreement, LeavesFall, PopExec,
         UNCHANGED <<fixapp, wire, working, process>>
  PROVE  Agreement' /\ Sent' = Sent
  <1> DEFINE e == execRing[1]
  <1>0. /\ execRing # <<>> /\ execRing' = Tail(execRing) /\ oms' = on_exec(oms, e)
        /\ UNCHANGED <<from_exch, to_exch, ordRing, sent_cmd, working>>
    <2>1. execRing \in Seq(ExecEvent) /\ execRing # <<>>
      BY CoreTypes DEF PopExec
    <2>2. Head(execRing) = e
      BY <2>1, TailFacts
    <2> QED BY <2>1, <2>2 DEF PopExec, fixapp, wire
  <1>1. /\ Reports' \subseteq Reports /\ Reports \subseteq Reports' \cup {e}
        /\ e \in Reports
        /\ \A f \in Reports' : LeavesLess(e, f)
    BY <1>0, ReportsByPop
  <1>2. Sent' = Sent
    BY <1>0 DEF Sent
  <1>3. /\ e \in ExecEvent /\ e.kind \in ExecKinds /\ e.leaves_qty \in Nat
        /\ e.cl_ord_id # 0
    BY <1>1, FlightTypes DEF ExecEvent, Agreement, ReportsFindSlot
  <1> HIDE DEF e
  <1>4. \A x \in Syms, y \in Sides :
          oms'[x][y] = IF oms[x][y].cl_ord_id = e.cl_ord_id
                       THEN slot_after(oms[x][y], e) ELSE oms[x][y]
    BY <1>0, <1>1, OnExecFinds DEF Agreement
  <1>5. /\ NoQuote.cl_ord_id = 0 /\ NoQuote.state = "None"
        /\ \A x \in Syms, y \in Sides : oms[x][y] \in Quote
    BY CoreTypes DEF NoQuote
  <1>6. ASSUME NEW x \in Syms, NEW y \in Sides
        PROVE  \/ oms'[x][y] = oms[x][y] /\ oms[x][y].cl_ord_id # e.cl_ord_id
               \/ /\ oms[x][y].cl_ord_id = e.cl_ord_id
                  /\ \/ e.kind \in Terminal /\ oms'[x][y] = NoQuote
                     \/ /\ e.kind \notin Terminal
                        /\ oms'[x][y].cl_ord_id = oms[x][y].cl_ord_id
                        /\ oms'[x][y].price = oms[x][y].price
                        /\ e.kind = "PartFill" => oms'[x][y].qty = e.leaves_qty
                        /\ e.kind # "PartFill" => oms'[x][y].qty = oms[x][y].qty
                        /\ e.kind = "New" => oms'[x][y].state = "Live"
                        /\ e.kind # "New" => oms'[x][y].state = oms[x][y].state
    <2>1. CASE oms[x][y].cl_ord_id # e.cl_ord_id
      BY <1>4, <2>1
    <2>2. CASE oms[x][y].cl_ord_id = e.cl_ord_id
      <3>1. oms'[x][y] = slot_after(oms[x][y], e) /\ oms[x][y] \in Quote
        BY <1>4, <1>5, <2>2
      <3>2. CASE e.kind \in Terminal
        BY <2>2, <3>1, <3>2 DEF slot_after, Terminal
      <3>3. CASE e.kind \notin Terminal
        BY <2>2, <3>1, <3>3 DEF slot_after, Terminal, Quote
      <3> QED BY <3>2, <3>3
    <2> QED BY <2>1, <2>2
  <1>7. \A x \in Syms, y \in Sides :
          oms'[x][y].cl_ord_id # 0 \/ oms'[x][y].state # "None" =>
            oms'[x][y].cl_ord_id = oms[x][y].cl_ord_id
    BY <1>5, <1>6
  <1>8. ReportsFindSlot'
    <2>1. ReportsFindSlot
      BY DEF Agreement
    <2> QED BY <1>1, <1>7, <2>1 DEF ReportsFindSlot
  <1>9. TermsKept'
    <2>1. ASSUME NEW m \in Sent, m.MsgType = "D"
          PROVE  oms'[m.Symbol][m.Side] = oms[m.Symbol][m.Side]
      <3>1. m.Symbol \in Syms /\ m.Side \in Sides
        BY FlightTypes DEF OrderMessage
      <3>2. oms[m.Symbol][m.Side].cl_ord_id # e.cl_ord_id
        BY <1>1, <2>1 DEF IdFacts, Holds
      <3> QED BY <1>6, <3>1, <3>2
    <2>2. ASSUME NEW o \in working
          PROVE  oms'[o.symbol_id][o.side].price = oms[o.symbol_id][o.side].price
      <3>1. o.symbol_id \in Syms /\ o.side \in Sides
        BY CoreTypes DEF Order
      <3>2. oms[o.symbol_id][o.side].cl_ord_id = e.cl_ord_id => e.kind \notin Terminal
        BY <1>1 DEF IdFacts, Holds
      <3> QED BY <1>6, <3>1, <3>2
    <2>3. TermsKept
      BY DEF Agreement
    <2> QED BY <1>0, <1>2, <2>1, <2>2, <2>3 DEF TermsKept
  <1>10. LeavesReported'
    <2>0. LeavesReported
      BY DEF Agreement
    <2>1. ASSUME NEW f \in Reports', NEW s \in Syms, NEW d \in Sides,
                 f.kind = "PartFill", oms'[s][d].cl_ord_id = f.cl_ord_id
          PROVE  f.leaves_qty <= oms'[s][d].qty
      <3>1. f \in Reports /\ f.cl_ord_id # 0
        BY <1>1 DEF Agreement, ReportsFindSlot
      <3>2. oms[s][d].cl_ord_id = f.cl_ord_id
        BY <1>7, <2>1, <3>1
      <3>3. f.leaves_qty <= oms[s][d].qty
        BY <2>0, <2>1, <3>1, <3>2 DEF LeavesReported
      <3>4. LeavesLess(e, f)
        BY <1>1
      <3>5. CASE oms'[s][d].qty = oms[s][d].qty
        BY <3>3, <3>5
      <3>6. CASE e.kind = "PartFill" /\ oms'[s][d].qty = e.leaves_qty
                   /\ oms[s][d].cl_ord_id = e.cl_ord_id
        <4>1. f.leaves_qty < e.leaves_qty
          BY <2>1, <3>2, <3>4, <3>6 DEF LeavesLess
        <4>2. f.leaves_qty \in Nat
          BY <3>1, FlightTypes DEF ExecEvent
        <4> QED BY <1>3, <3>6, <4>1, <4>2
      <3>7. oms'[s][d] # NoQuote
        BY <1>5, <2>1, <3>1
      <3> QED BY <1>6, <3>5, <3>6, <3>7
    <2>2. ASSUME NEW o \in working, NEW f \in Reports',
                 f.kind = "PartFill", f.cl_ord_id = o.cl_ord_id
          PROVE  o.leaves <= f.leaves_qty
      BY <1>1, <2>0, <2>2 DEF LeavesReported
    <2>3. ASSUME NEW o \in working
          PROVE  \/ o.leaves = oms'[o.symbol_id][o.side].qty
                 \/ \E f \in Reports' : /\ f.kind = "PartFill"
                                        /\ f.cl_ord_id = o.cl_ord_id
                                        /\ f.leaves_qty = o.leaves
      <3> DEFINE q == oms[o.symbol_id][o.side]
      <3>1. o.symbol_id \in Syms /\ o.side \in Sides /\ o.leaves \in Nat
        BY CoreTypes DEF Order
      <3>2. q.cl_ord_id = o.cl_ord_id /\ q \in Quote /\ q.qty \in Nat
        BY <1>5, <3>1 DEF IdFacts, Holds, Quote
      <3>3. CASE e.cl_ord_id # o.cl_ord_id \/ e.kind # "PartFill"
        <4>1. oms'[o.symbol_id][o.side].qty = q.qty
          <5>1. e.cl_ord_id = o.cl_ord_id => e.kind \notin Terminal
            BY <1>1 DEF IdFacts
          <5> QED BY <1>6, <3>1, <3>2, <3>3, <5>1
        <4>2. \A f \in Reports :
                f.kind = "PartFill" /\ f.cl_ord_id = o.cl_ord_id => f \in Reports'
          BY <1>1, <3>3
        <4> QED BY <2>0, <4>1, <4>2 DEF LeavesReported
      <3>4. CASE e.cl_ord_id = o.cl_ord_id /\ e.kind = "PartFill"
        <4>1. oms'[o.symbol_id][o.side].qty = e.leaves_qty
          <5>1. e.kind \notin Terminal
            BY <3>4 DEF Terminal
          <5> QED BY <1>6, <3>1, <3>2, <3>4, <5>1
        <4>2. o.leaves <= e.leaves_qty /\ e.leaves_qty <= q.qty
          BY <1>1, <2>0, <3>1, <3>2, <3>4 DEF LeavesReported
        <4>3. CASE o.leaves = q.qty
          BY <1>3, <3>1, <3>2, <4>1, <4>2, <4>3
        <4>4. CASE \E f \in Reports : /\ f.kind = "PartFill" /\ f.cl_ord_id = o.cl_ord_id
                                      /\ f.leaves_qty = o.leaves
          BY <1>1, <4>1, <4>4
        <4> QED BY <2>0, <4>3, <4>4 DEF LeavesReported
      <3> QED BY <3>3, <3>4
    <2> QED BY <1>0, <2>1, <2>2, <2>3 DEF LeavesReported
  <1>11. AnswersComing'
    <2> SUFFICES ASSUME NEW s \in Syms, NEW d \in Sides, oms'[s][d].state # "None"
                 PROVE  AnswerComes(oms'[s][d], s, d, Sent', working', Reports')
      <3>1. ASSUME NEW s \in Syms, NEW d \in Sides, oms'[s][d].state = "None"
            PROVE  AnswerComes(oms'[s][d], s, d, Sent', working', Reports')
        BY <3>1 DEF AnswerComes
      <3> QED BY <3>1 DEF AnswersComing
    <2> DEFINE id == oms[s][d].cl_ord_id
    <2>1. oms'[s][d].cl_ord_id = id
      BY <1>7
    <2>2. id = e.cl_ord_id => e.kind \notin Terminal
      BY <1>5, <1>6
    <2>3. /\ oms'[s][d].state = "PendingNew" =>
               /\ oms[s][d].state = "PendingNew"
               /\ id = e.cl_ord_id => e.kind # "New"
          /\ oms'[s][d].state = "PendingCancel" => oms[s][d].state = "PendingCancel"
      BY <1>5, <1>6
    <2>4. oms[s][d].state # "None"
      <3>1. oms[s][d].state = "None" => id = 0
        BY DEF IdFacts
      <3>2. oms[s][d].state = "None" => oms'[s][d] = oms[s][d]
        BY <1>3, <1>6, <3>1
      <3> QED BY <3>2
    <2>5. AnswerComes(oms[s][d], s, d, Sent, working, Reports)
      BY DEF Agreement, AnswersComing
    <2> HIDE DEF id
    <2>6. Reported(Reports, id, Terminal) => Reported(Reports', id, Terminal)
      BY <1>1, <2>2 DEF Reported
    <2>7. oms'[s][d].state = "PendingNew" /\ Reported(Reports, id, {"New"}) =>
            Reported(Reports', id, {"New"})
      BY <1>1, <2>3 DEF Reported
    <2> QED BY <1>0, <1>2, <2>1, <2>3, <2>4, <2>5, <2>6, <2>7 DEF AnswerComes, id
  <1> QED BY <1>1, <1>2, <1>8, <1>9, <1>10, <1>11 DEF Agreement
\* The strategy decides: a fresh order for a free slot, whose id nothing
\* carries yet, or the cancel of a Live quote.
LEMMA ActAgrees ==
  ASSUME TypeOK, IdFacts, Agreement,
         NEW side \in Sides, NEW px \in Int, act(side, px),
         UNCHANGED <<sent_cmd, to_exch, from_exch, execRing, working>>
  PROVE  Agreement'
  <1>1. Reports' = Reports
    BY DEF Reports, IsReport, exec_event, exec_kind
  <1>2. CASE UNCHANGED <<oms, ordRing>>
    <2>1. Sent' = Sent
      BY <1>2 DEF Sent
    <2> QED BY <1>1, <1>2, <2>1, AgreementStutter
  <1>3. ASSUME NEW c \in OrderCmd, NEW quote \in Quote,
               ordRing' = Append(ordRing, c),
               oms' = [oms EXCEPT ![c.symbol_id][c.side] = quote],
               \/ /\ c.type = "New"
                  /\ oms[c.symbol_id][c.side].state = "None"
                  /\ c.cl_ord_id = next_id
                  /\ quote.cl_ord_id = next_id /\ quote.state = "PendingNew"
                  /\ quote.price = c.price /\ quote.qty = c.qty
               \/ /\ c.type = "Cancel"
                  /\ oms[c.symbol_id][c.side].state = "Live"
                  /\ c.orig_cl_ord_id = oms[c.symbol_id][c.side].cl_ord_id
                  /\ quote.cl_ord_id = oms[c.symbol_id][c.side].cl_ord_id
                  /\ quote.state = "PendingCancel"
                  /\ quote.price = oms[c.symbol_id][c.side].price
                  /\ quote.qty = oms[c.symbol_id][c.side].qty
        PROVE  Agreement'
    <2> DEFINE x == c.symbol_id
               y == c.side
               msg == fix_message(c)
    <2>1. x \in Syms /\ y \in Sides /\ oms \in [Syms -> [Sides -> Quote]]
      BY CoreTypes DEF OrderCmd
    <2>2. /\ oms'[x][y] = quote
          /\ \A s \in Syms, d \in Sides : s # x \/ d # y => oms'[s][d] = oms[s][d]
      BY <1>3, <2>1
    <2>3. Sent' = Sent \cup {msg}
      BY <1>3, SentByEmit
    <2>4. /\ msg.Symbol = x /\ msg.Side = y /\ msg.ClOrdID = c.cl_ord_id
          /\ c.type = "New" => /\ msg.MsgType = "D" /\ msg.Price = c.price
                               /\ msg.OrderQty = c.qty
          /\ c.type = "Cancel" => msg.MsgType = "F" /\ msg.OrigClOrdID = c.orig_cl_ord_id
      BY DEF fix_message
    <2>5. next_id \in Nat \ {0} /\ \A s \in Syms, d \in Sides : oms[s][d].cl_ord_id \in Nat
      BY <2>1, CoreTypes DEF Quote
    <2>6. /\ \A s \in Syms, d \in Sides : oms[s][d].cl_ord_id # next_id
          /\ \A e \in Reports : e.cl_ord_id # next_id
      <3>1. \A e \in Reports : e.cl_ord_id \in Nat
        BY FlightTypes DEF ExecEvent
      <3> QED BY <2>5, <3>1 DEF IdFacts
    <2>7. /\ \A m \in Sent : m.Symbol \in Syms /\ m.Side \in Sides
          /\ \A o \in working : o.symbol_id \in Syms /\ o.side \in Sides
      BY CoreTypes, FlightTypes DEF OrderMessage, Order
    <2> HIDE DEF msg, x, y
    <2>8. CASE /\ c.type = "New" /\ oms[x][y].state = "None" /\ c.cl_ord_id = next_id
               /\ quote.cl_ord_id = next_id /\ quote.state = "PendingNew"
               /\ quote.price = c.price /\ quote.qty = c.qty
      <3>1. ReportsFindSlot'
        <4>1. ReportsFindSlot
          BY DEF Agreement
        <4>2. \A s, t \in Syms, b, d \in Sides :
                oms'[s][b].cl_ord_id = oms'[t][d].cl_ord_id /\ oms'[s][b].cl_ord_id # 0 =>
                  s = t /\ b = d
          BY <2>2, <2>6, <2>8, <4>1 DEF ReportsFindSlot
        <4>3. ASSUME NEW e \in Reports, NEW s \in Syms, NEW d \in Sides,
                     oms'[s][d].cl_ord_id = e.cl_ord_id
              PROVE  s = e.symbol_id
          BY <2>2, <2>6, <2>8, <4>1, <4>3 DEF ReportsFindSlot
        <4> QED BY <1>1, <4>1, <4>2, <4>3 DEF ReportsFindSlot
      <3>2. /\ \A m \in Sent : m.MsgType = "D" =>
                 oms'[m.Symbol][m.Side] = oms[m.Symbol][m.Side]
            /\ \A o \in working : oms'[o.symbol_id][o.side] = oms[o.symbol_id][o.side]
        BY <2>2, <2>7, <2>8 DEF IdFacts, Holds
      <3>3. TermsKept'
        BY <2>2, <2>3, <2>4, <2>8, <3>2 DEF Agreement, TermsKept
      <3>4. LeavesReported'
        <4>0. LeavesReported
          BY DEF Agreement
        <4>1. \A e \in Reports, s \in Syms, d \in Sides :
                e.kind = "PartFill" /\ oms'[s][d].cl_ord_id = e.cl_ord_id =>
                  e.leaves_qty <= oms'[s][d].qty
          BY <2>2, <2>6, <2>8, <4>0 DEF LeavesReported
        <4> QED BY <1>1, <3>2, <4>0, <4>1 DEF LeavesReported
      <3>5. ASSUME NEW s \in Syms, NEW d \in Sides
            PROVE  AnswerComes(oms'[s][d], s, d, Sent', working', Reports')
        <4>1. CASE s = x /\ d = y
          <5>1. MsgIs(msg, "New", next_id, s, d)
            BY <2>4, <2>8, <4>1 DEF MsgIs
          <5>2. Requested(Sent', "New", next_id, s, d)
            BY <2>3, <5>1 DEF Requested
          <5> QED BY <2>2, <2>8, <4>1, <5>2 DEF AnswerComes
        <4>2. CASE s # x \/ d # y
          <5>1. AnswerComes(oms[s][d], s, d, Sent, working, Reports)
            BY DEF Agreement, AnswersComing
          <5>2. \A t, id : Requested(Sent, t, id, s, d) => Requested(Sent', t, id, s, d)
            BY <2>3 DEF Requested
          <5> QED BY <1>1, <2>2, <4>2, <5>1, <5>2 DEF AnswerComes
        <4> QED BY <4>1, <4>2
      <3> QED BY <3>1, <3>3, <3>4, <3>5 DEF Agreement, AnswersComing
    <2>9. CASE /\ c.type = "Cancel" /\ oms[x][y].state = "Live"
               /\ c.orig_cl_ord_id = oms[x][y].cl_ord_id
               /\ quote.cl_ord_id = oms[x][y].cl_ord_id
               /\ quote.state = "PendingCancel"
               /\ quote.price = oms[x][y].price /\ quote.qty = oms[x][y].qty
      <3>0. \A s \in Syms, d \in Sides :
              /\ oms'[s][d].cl_ord_id = oms[s][d].cl_ord_id
              /\ oms'[s][d].price = oms[s][d].price
              /\ oms'[s][d].qty = oms[s][d].qty
        BY <2>2, <2>9
      <3>1. ReportsFindSlot'
        BY <1>1, <3>0 DEF Agreement, ReportsFindSlot
      <3>2. TermsKept'
        BY <2>3, <2>4, <2>7, <2>9, <3>0 DEF Agreement, TermsKept
      <3>3. LeavesReported'
        BY <1>1, <2>7, <3>0 DEF Agreement, LeavesReported
      <3>4. ASSUME NEW s \in Syms, NEW d \in Sides
            PROVE  AnswerComes(oms'[s][d], s, d, Sent', working', Reports')
        <4>0. AnswerComes(oms[s][d], s, d, Sent, working, Reports)
          BY DEF Agreement, AnswersComing
        <4>1. \A t, id : Requested(Sent, t, id, s, d) => Requested(Sent', t, id, s, d)
          BY <2>3 DEF Requested
        <4>2. CASE s = x /\ d = y
          <5>1. MsgIs(msg, "Cancel", oms[x][y].cl_ord_id, s, d)
            BY <2>4, <2>9, <4>2 DEF MsgIs
          <5>2. Requested(Sent', "Cancel", oms[x][y].cl_ord_id, s, d)
            BY <2>3, <5>1 DEF Requested
          <5> QED BY <1>1, <2>2, <2>9, <4>0, <4>1, <4>2, <5>2 DEF AnswerComes
        <4>3. CASE s # x \/ d # y
          BY <1>1, <2>2, <4>0, <4>1, <4>3 DEF AnswerComes
        <4> QED BY <4>2, <4>3
      <3> QED BY <3>1, <3>2, <3>3, <3>4 DEF Agreement, AnswersComing
    <2> QED BY <1>3, <2>8, <2>9 DEF x, y
  <1> QED BY <1>2, <1>3, ActSlots
\* Only one slot holds the id of an order.
LEMMA SlotOfOrder ==
  ASSUME ReportsFindSlot, NEW x \in Syms, NEW y \in Sides, NEW id, id # 0,
         Holds(x, y, id)
  PROVE  \A s \in Syms, d \in Sides : oms[s][d].cl_ord_id = id => s = x /\ d = y
  BY DEF ReportsFindSlot, Holds

\* The venue ends an order, refuses it or cancels it, and reports that: the
\* slot that holds it need not wait for anything else.
LEMMA EndAgrees ==
  ASSUME Agreement, NEW e, e.cl_ord_id # 0, e.kind \in Terminal,
         \A s \in Syms, d \in Sides :
           oms[s][d].cl_ord_id = e.cl_ord_id => s = e.symbol_id,
         UNCHANGED oms, Reports' = Reports \cup {e},
         working' \subseteq working,
         \A o \in working : o.cl_ord_id # e.cl_ord_id => o \in working',
         Sent' \subseteq Sent,
         \A m \in Sent :
           \/ m \in Sent'
           \/ \A id, s, d : \A t \in {"New", "Cancel"} :
                MsgIs(m, t, id, s, d) => id = e.cl_ord_id
  PROVE  Agreement'
  <1>0. e.kind # "PartFill"
    BY DEF Terminal
  <1>1. ReportsFindSlot'
    BY DEF Agreement, ReportsFindSlot
  <1>2. TermsKept'
    BY DEF Agreement, TermsKept
  <1>3. LeavesReported'
    BY <1>0 DEF Agreement, LeavesReported
  <1>4. ASSUME NEW s \in Syms, NEW d \in Sides
        PROVE  AnswerComes(oms[s][d], s, d, Sent', working', Reports')
    <2> DEFINE id == oms[s][d].cl_ord_id
    <2>1. CASE id = e.cl_ord_id
      <3>1. Reported(Reports', id, Terminal)
        BY <2>1 DEF Reported
      <3> QED BY <3>1 DEF AnswerComes
    <2>2. CASE id # e.cl_ord_id
      <3>1. AnswerComes(oms[s][d], s, d, Sent, working, Reports)
        BY DEF Agreement, AnswersComing
      <3> HIDE DEF id
      <3>2. \A t \in {"New", "Cancel"} :
              Requested(Sent, t, id, s, d) => Requested(Sent', t, id, s, d)
        BY <2>2 DEF Requested
      <3>3. Rests(working, id, s, d) => Rests(working', id, s, d)
        BY <2>2 DEF Rests
      <3>4. \A kinds : Reported(Reports, id, kinds) => Reported(Reports', id, kinds)
        BY DEF Reported
      <3> QED BY <3>1, <3>2, <3>3, <3>4 DEF AnswerComes, id
    <2> QED BY <2>1, <2>2
  <1> QED BY <1>1, <1>2, <1>3, <1>4 DEF Agreement, AnswersComing

\* The venue accepts an order: it rests as its slot describes it, and the
\* acknowledgement is on its way.
LEMMA AcceptAgrees ==
  ASSUME TypeOK, IdFacts, Agreement, NEW m \in Sent, m.MsgType = "D", NEW e \in ExecEvent,
         e.cl_ord_id = m.ClOrdID, e.kind = "New", e.symbol_id = m.Symbol,
         UNCHANGED oms, Reports' = Reports \cup {e},
         working' = working \cup {OrderOf(m)},
         Sent' \subseteq Sent, Sent \subseteq Sent' \cup {m}
  PROVE  Agreement'
  <1> DEFINE o == OrderOf(m)
  <1>1. /\ m.Symbol \in Syms /\ m.Side \in Sides /\ m.ClOrdID # 0
        /\ Holds(m.Symbol, m.Side, m.ClOrdID)
    BY FlightTypes DEF OrderMessage, IdFacts
  <1>2. /\ o.cl_ord_id = m.ClOrdID /\ o.symbol_id = m.Symbol /\ o.side = m.Side
        /\ o.price = m.Price /\ o.leaves = m.OrderQty
    BY DEF OrderOf
  <1> HIDE DEF o
  <1>3. \A s \in Syms, d \in Sides :
          oms[s][d].cl_ord_id = m.ClOrdID => s = m.Symbol /\ d = m.Side
    BY <1>1, SlotOfOrder DEF Agreement
  <1>4. ReportsFindSlot'
    BY <1>1, <1>3 DEF Agreement, ReportsFindSlot
  <1>5. TermsKept'
    BY <1>2 DEF Agreement, TermsKept, o
  <1>6. LeavesReported'
    <2>0. LeavesReported
      BY DEF Agreement
    <2>1. \A f \in Reports : f.cl_ord_id # o.cl_ord_id
      BY <1>2 DEF IdFacts
    <2>2. o.leaves = oms[o.symbol_id][o.side].qty
      BY <1>2 DEF Agreement, TermsKept
    <2>3. e.kind # "PartFill"
      OBVIOUS
    <2>4. working' = working \cup {o}
      BY DEF o
    <2> QED BY <2>0, <2>1, <2>2, <2>3, <2>4 DEF LeavesReported
  <1>7. ASSUME NEW s \in Syms, NEW d \in Sides
        PROVE  AnswerComes(oms[s][d], s, d, Sent', working', Reports')
    <2> DEFINE id == oms[s][d].cl_ord_id
    <2>0. AnswerComes(oms[s][d], s, d, Sent, working, Reports)
      BY DEF Agreement, AnswersComing
    <2>1. /\ \A kinds : Reported(Reports, id, kinds) => Reported(Reports', id, kinds)
          /\ Rests(working, id, s, d) => Rests(working', id, s, d)
      BY DEF Reported, Rests
    <2>2. Requested(Sent, "Cancel", id, s, d) => Requested(Sent', "Cancel", id, s, d)
      BY DEF Requested, MsgIs
    <2>3. CASE id = m.ClOrdID
      <3>1. Rests(working', id, s, d)
        BY <1>2, <1>3, <2>3 DEF Rests, o
      <3>2. Reported(Reports', id, {"New"})
        BY <2>3 DEF Reported
      <3> QED BY <2>0, <2>1, <2>2, <3>1, <3>2 DEF AnswerComes
    <2>4. CASE id # m.ClOrdID
      <3>1. Requested(Sent, "New", id, s, d) => Requested(Sent', "New", id, s, d)
        BY <2>4 DEF Requested, MsgIs
      <3> QED BY <2>0, <2>1, <2>2, <3>1 DEF AnswerComes
    <2> QED BY <2>3, <2>4
  <1> QED BY <1>4, <1>5, <1>6, <1>7 DEF Agreement, AnswersComing

\* The venue refuses to cancel what no longer works: the end of that order
\* has been reported, since the cancel came after the order itself.
LEMMA RefuseAgrees ==
  ASSUME TypeOK, IdFacts, Agreement, NEW m \in Sent, m.MsgType = "F",
         \A o \in working : o.cl_ord_id # m.OrigClOrdID,
         UNCHANGED <<oms, working>>, Reports' = Reports,
         Sent' \subseteq Sent, Sent \subseteq Sent' \cup {m}
  PROVE  Agreement'
  <1>1. ReportsFindSlot'
    BY DEF Agreement, ReportsFindSlot
  <1>2. TermsKept'
    BY DEF Agreement, TermsKept
  <1>3. LeavesReported'
    BY DEF Agreement, LeavesReported
  <1>4. ASSUME NEW s \in Syms, NEW d \in Sides
        PROVE  AnswerComes(oms[s][d], s, d, Sent', working, Reports)
    <2> DEFINE id == oms[s][d].cl_ord_id
    <2>0. AnswerComes(oms[s][d], s, d, Sent, working, Reports)
      BY DEF Agreement, AnswersComing
    <2>1. Requested(Sent, "New", id, s, d) => Requested(Sent', "New", id, s, d)
      BY DEF Requested, MsgIs
    <2>2. CASE id = m.OrigClOrdID
      <3>1. ~Rests(working, id, s, d)
        BY <2>2 DEF Rests
      <3>2. ~Requested(Sent, "New", id, s, d)
        BY <2>2 DEF IdFacts, Requested, MsgIs
      <3>3. oms[s][d].state # "None" => Reported(Reports, id, Terminal)
        BY <2>0, <3>1, <3>2 DEF AnswerComes
      <3> QED BY <2>0, <2>1, <3>3 DEF AnswerComes
    <2>3. CASE id # m.OrigClOrdID
      <3>1. Requested(Sent, "Cancel", id, s, d) => Requested(Sent', "Cancel", id, s, d)
        BY <2>3 DEF Requested, MsgIs
      <3> QED BY <2>0, <2>1, <3>1 DEF AnswerComes
    <2> QED BY <2>2, <2>3
  <1> QED BY <1>1, <1>2, <1>3, <1>4 DEF Agreement, AnswersComing

\* An order trades in part: the venue has less of it than the slot says, by
\* what the report on its way says.
LEMMA PartialAgrees ==
  ASSUME TypeOK, IdFacts, Agreement, NEW o \in working, NEW left \in Nat, left < o.leaves,
         NEW e \in ExecEvent, e.cl_ord_id = o.cl_ord_id, e.kind = "PartFill",
         e.symbol_id = o.symbol_id, e.leaves_qty = left,
         UNCHANGED oms, Sent' = Sent, Reports' = Reports \cup {e},
         working' = (working \ {o}) \cup {[o EXCEPT !.leaves = left]}
  PROVE  Agreement'
  <1> DEFINE p == [o EXCEPT !.leaves = left]
             q == oms[o.symbol_id][o.side]
  <1>1. /\ o \in Order /\ o.symbol_id \in Syms /\ o.side \in Sides /\ o.leaves \in Nat
        /\ o.cl_ord_id # 0 /\ Holds(o.symbol_id, o.side, o.cl_ord_id)
    BY CoreTypes DEF Order, IdFacts
  <1>2. /\ p.cl_ord_id = o.cl_ord_id /\ p.symbol_id = o.symbol_id /\ p.side = o.side
        /\ p.price = o.price /\ p.leaves = left
    BY <1>1 DEF Order
  <1>3. \A s \in Syms, d \in Sides :
          oms[s][d].cl_ord_id = o.cl_ord_id => s = o.symbol_id /\ d = o.side
    BY <1>1, SlotOfOrder DEF Agreement
  <1>4. q.qty \in Nat /\ \A f \in Reports : f.leaves_qty \in Nat
    BY <1>1, CoreTypes, FlightTypes DEF Quote, ExecEvent
  <1> HIDE DEF p, q
  <1>5. LeavesReported
    BY DEF Agreement
  <1>6. \A f \in Reports : f.kind = "PartFill" /\ f.cl_ord_id = o.cl_ord_id =>
          o.leaves <= f.leaves_qty
    BY <1>5 DEF LeavesReported
  <1>8. o.leaves <= q.qty
    <2>1. CASE o.leaves = q.qty
      BY <1>1, <1>4, <2>1
    <2>2. ASSUME NEW f \in Reports, f.kind = "PartFill", f.cl_ord_id = o.cl_ord_id,
                 f.leaves_qty = o.leaves
          PROVE  o.leaves <= q.qty
      <3>1. oms[o.symbol_id][o.side].cl_ord_id = f.cl_ord_id
        BY <1>1, <2>2 DEF Holds
      <3> QED BY <1>1, <1>5, <2>2, <3>1 DEF LeavesReported, q
    <2> QED BY <1>5, <2>1, <2>2 DEF LeavesReported, q
  <1>9. ReportsFindSlot'
    BY <1>1, <1>3 DEF Agreement, ReportsFindSlot
  <1>10. working' = (working \ {o}) \cup {p}
    BY DEF p
  <1>11. TermsKept'
    BY <1>2, <1>10 DEF Agreement, TermsKept
  <1>12. LeavesReported'
    <2>1. ASSUME NEW s \in Syms, NEW d \in Sides, oms[s][d].cl_ord_id = e.cl_ord_id
          PROVE  e.leaves_qty <= oms[s][d].qty
      <3>1. oms[s][d] = q
        BY <1>3, <2>1 DEF q
      <3> QED BY <1>1, <1>4, <1>8, <3>1
    <2>2. \A r \in working \ {o} : r.cl_ord_id # e.cl_ord_id
      BY DEF IdFacts
    <2>3. ASSUME NEW f \in Reports', f.kind = "PartFill", f.cl_ord_id = p.cl_ord_id
          PROVE  p.leaves <= f.leaves_qty
      BY <1>1, <1>2, <1>4, <1>6, <2>3
    <2>4. e.kind = "PartFill" /\ e.cl_ord_id = p.cl_ord_id /\ e.leaves_qty = p.leaves
      BY <1>2
    <2>5. \A f \in Reports', s \in Syms, d \in Sides :
            f.kind = "PartFill" /\ oms[s][d].cl_ord_id = f.cl_ord_id =>
              f.leaves_qty <= oms[s][d].qty
      BY <1>5, <2>1 DEF LeavesReported
    <2>6. ASSUME NEW r \in working \ {o}
          PROVE  /\ \A f \in Reports' : f.kind = "PartFill" /\ f.cl_ord_id = r.cl_ord_id =>
                      r.leaves <= f.leaves_qty
                 /\ \/ r.leaves = oms[r.symbol_id][r.side].qty
                    \/ \E f \in Reports' :
                         /\ f.kind = "PartFill" /\ f.cl_ord_id = r.cl_ord_id
                         /\ f.leaves_qty = r.leaves
      BY <1>5, <2>2, <2>6 DEF LeavesReported
    <2> QED BY <1>10, <2>3, <2>4, <2>5, <2>6 DEF LeavesReported
  <1>13. ASSUME NEW s \in Syms, NEW d \in Sides
         PROVE  AnswerComes(oms[s][d], s, d, Sent, working', Reports')
    <2> DEFINE id == oms[s][d].cl_ord_id
    <2>0. AnswerComes(oms[s][d], s, d, Sent, working, Reports)
      BY DEF Agreement, AnswersComing
    <2> HIDE DEF id
    <2>1. \A kinds : Reported(Reports, id, kinds) => Reported(Reports', id, kinds)
      BY DEF Reported
    <2>2. Rests(working, id, s, d) => Rests(working', id, s, d)
      BY <1>2, <1>10 DEF Rests
    <2> QED BY <2>0, <2>1, <2>2 DEF AnswerComes, id
  <1> QED BY <1>9, <1>11, <1>12, <1>13 DEF Agreement, AnswersComing
-----------------------------------------------------------------------------
(* The steps of the engine.                                                *)

\* The conditions under which nothing is lost: the venue names the order in
\* every report, confirms or refuses every cancel according to what works,
\* reports partial fills as such, lets no order expire and reports on nobody
\* else's orders; the session does not go down, nor does the process.
NothingLost ==
  /\ VenueMay \subseteq {"ack_orig", "reject_new", "fill", "unsolicited"}
  /\ MaxLogouts = 0 /\ MaxRestarts = 0

\* What the strategy will see of a report of the venue.
LEMMA EventOfReport ==
  ASSUME NEW o \in Order, NEW id \in Nat, NEW et \in ExecTypes, NEW st \in OrdStatuses,
         NEW n \in Nat
  PROVE  LET r == ReportOn(o, id, et, st, n)
             e == exec_event(r)
         IN /\ r \in ReportMessage /\ IsReport(r) /\ e \in ExecEvent
            /\ e.cl_ord_id = id /\ e.symbol_id = o.symbol_id /\ e.leaves_qty = n
            /\ et = "NEW" => e.kind = "New"
            /\ et = "CANCELED" => e.kind = "Canceled"
            /\ et = "REJECTED" => e.kind = "Rejected"
            /\ et = "TRADE" /\ st = "FILLED" => e.kind = "Filled"
            /\ et = "TRADE" /\ st = "PARTIALLY_FILLED" => e.kind = "PartFill"
  <1> DEFINE r == ReportOn(o, id, et, st, n)
  <1>1. r \in ReportMessage
    BY ReportTypes
  <1>2. /\ r.MsgType = "8" /\ r.ClOrdID = id /\ r.ExecType = et /\ r.OrdStatus = st
        /\ r.Symbol = o.symbol_id /\ r.LeavesQty = n /\ r.Side \in Sides
        /\ o.symbol_id \in Syms
    BY DEF ReportOn, Order
  <1> HIDE DEF r
  <1>3. symbol_id(r.Symbol) = o.symbol_id
    BY <1>2 DEF symbol_id
  <1>4. /\ exec_kind(r) \in ExecKinds
        /\ et = "NEW" => exec_kind(r) = "New"
        /\ et = "CANCELED" => exec_kind(r) = "Canceled"
        /\ et = "REJECTED" => exec_kind(r) = "Rejected"
        /\ et = "TRADE" /\ st = "FILLED" => exec_kind(r) = "Filled"
        /\ et = "TRADE" /\ st = "PARTIALLY_FILLED" => exec_kind(r) = "PartFill"
    BY <1>2 DEF exec_kind, ExecKinds
  <1>5. /\ exec_event(r).cl_ord_id = id /\ exec_event(r).symbol_id = o.symbol_id
        /\ exec_event(r).leaves_qty = n /\ exec_event(r).kind = exec_kind(r)
    BY <1>2, <1>3 DEF exec_event
  <1>6. exec_event(r) \in ExecEvent
    BY <1>2, <1>3, <1>4 DEF exec_event, ExecEvent
  <1> QED BY <1>1, <1>2, <1>4, <1>5, <1>6 DEF IsReport, r

\* A report sent while the session is up is on its way, one sent while it is
\* down is lost.
LEMMA ReportIsComing ==
  ASSUME TypeOK, UNCHANGED execRing, NEW r \in ReportMessage, report(r)
  PROVE  /\ \/ Reports' = Reports
            \/ IsReport(r) /\ Reports' = Reports \cup {exec_event(r)}
         /\ IsReport(r) /\ session_up => Reports' = Reports \cup {exec_event(r)}
         /\ /\ LeavesFall
            /\ IsReport(r) => \A f \in Reports : LeavesLess(f, exec_event(r))
            => LeavesFall'
  <1>1. CASE session_up
    <2>1. from_exch' = Append(from_exch, r)
      BY <1>1 DEF report
    <2> DEFINE e == exec_event(r)
    <2>2. /\ IsReport(r) => Reports' = Reports \cup {e}
          /\ ~IsReport(r) => Reports' = Reports
          /\ LeavesFall /\ (IsReport(r) => \A f \in Reports : LeavesLess(f, e))
             => LeavesFall'
      BY <2>1, ReportsByVenue
    <2> HIDE DEF e
    <2> QED BY <2>2 DEF e
  <1>2. CASE ~session_up
    <2>1. from_exch' = from_exch
      BY <1>2 DEF report
    <2>2. Reports' = Reports /\ (LeavesFall => LeavesFall')
      BY <2>1 DEF Reports, LeavesFall, IsReport, exec_event, exec_kind
    <2> QED BY <1>2, <2>2
  <1> QED BY <1>1, <1>2

\* While anything is on its way to the venue, or works there, the session is
\* up, and a step of the venue leaves it up.
LEMMA StaysConnected ==
  ASSUME Connected, Sent # {} \/ working # {},
         UNCHANGED <<first_id, logged_on, session_up>>
  PROVE  session_up /\ Connected'
  BY DEF Connected

\* The venue answers a message.
LEMMA AnswerAgrees ==
  ASSUME NothingLost, TypeOK, IdFacts, AgreeInv, Answer,
         UNCHANGED <<strategy, rings, fixapp, process>>
  PROVE  AgreeInv'
  <1>0. /\ UNCHANGED <<oms, ordRing, sent_cmd, execRing, first_id, logged_on, session_up>>
        /\ Agreement /\ Connected
    BY DEF strategy, rings, fixapp, process, Answer, AcceptNew, RejectNew, ExecuteCancel,
           RefuseCancel, BlindAck, sessionUnchanged, AgreeInv, Agreement
  <1> DEFINE m == Head(to_exch)
             o == OrderOf(m)
  <1>1. ASSUME NEW t, Receive(t)
        PROVE  /\ m \in Sent /\ m \in OrderMessage /\ m.MsgType = t /\ o \in Order
               /\ Sent' \subseteq Sent /\ Sent \subseteq Sent' \cup {m}
               /\ session_up /\ Connected'
    <2>1. to_exch # <<>> /\ to_exch' = Tail(to_exch) /\ m.MsgType = t
      BY <1>1 DEF Receive
    <2>2. /\ m \in Sent /\ m \in OrderMessage
          /\ Sent' \subseteq Sent /\ Sent \subseteq Sent' \cup {m}
      BY <1>0, <2>1, SentByReceive
    <2>3. o \in Order
      BY <2>2, ReportTypes
    <2> QED BY <1>0, <2>1, <2>2, <2>3, StaysConnected
  <1>2. /\ o.cl_ord_id = m.ClOrdID /\ o.symbol_id = m.Symbol /\ o.leaves = m.OrderQty
    BY DEF OrderOf
  <1> HIDE DEF m, o
  <1>3. ASSUME m \in OrderMessage
        PROVE  /\ m.ClOrdID \in Nat /\ m.Symbol \in Syms /\ m.Side \in Sides
               /\ m.OrderQty \in Nat
               /\ o.cl_ord_id \in Nat /\ o.leaves \in Nat
    BY <1>2, <1>3 DEF OrderMessage
  <1>9. /\ "NEW" \in ExecTypes /\ "REJECTED" \in ExecTypes /\ 0 \in Nat
        /\ "NEW" \in OrdStatuses /\ "REJECTED" \in OrdStatuses
    BY DEF ExecTypes, OrdStatuses
  <1>4. CASE AcceptNew
    <2> DEFINE r == ReportOn(o, o.cl_ord_id, "NEW", "NEW", o.leaves)
    <2>1. Receive("D") /\ report(r) /\ working' = working \cup {o}
      BY <1>4 DEF AcceptNew, m, o
    <2>2. m \in Sent /\ m \in OrderMessage /\ m.MsgType = "D" /\ o \in Order /\ session_up
      BY <1>1, <2>1
    <2>3. /\ r \in ReportMessage /\ IsReport(r) /\ exec_event(r) \in ExecEvent
          /\ exec_event(r).cl_ord_id = m.ClOrdID /\ exec_event(r).symbol_id = m.Symbol
          /\ exec_event(r).kind = "New"
      BY <1>2, <1>3, <1>9, <2>2, EventOfReport
    <2> HIDE DEF r
    <2>4. Reports' = Reports \cup {exec_event(r)}
      BY <1>0, <2>1, <2>2, <2>3, ReportIsComing
    <2>5. Agreement'
      BY <1>0, <1>1, <2>1, <2>2, <2>3, <2>4, AcceptAgrees DEF o
    <2> QED BY <1>1, <2>1, <2>4, <2>5 DEF AgreeInv, Agreement
  <1>5. CASE RejectNew
    <2> DEFINE r == ReportOn(o, o.cl_ord_id, "REJECTED", "REJECTED", 0)
               e == exec_event(r)
    <2>1. Receive("D") /\ report(r) /\ working' = working
      BY <1>5 DEF RejectNew, m, o
    <2>2. m \in Sent /\ m \in OrderMessage /\ m.MsgType = "D" /\ o \in Order /\ session_up
      BY <1>1, <2>1
    <2>3. /\ r \in ReportMessage /\ IsReport(r)
          /\ e.cl_ord_id = m.ClOrdID /\ e.symbol_id = m.Symbol
          /\ e.kind = "Rejected"
      BY <1>2, <1>3, <1>9, <2>2, EventOfReport
    <2> HIDE DEF r
    <2>4. Reports' = Reports \cup {e}
      BY <1>0, <2>1, <2>2, <2>3, ReportIsComing
    <2>5. m.ClOrdID # 0 /\ Holds(m.Symbol, m.Side, m.ClOrdID)
      BY <2>2 DEF IdFacts
    <2>6. \A s \in Syms, d \in Sides :
            oms[s][d].cl_ord_id = m.ClOrdID => s = m.Symbol /\ d = m.Side
      BY <1>0, <1>3, <2>2, <2>5, SlotOfOrder DEF Agreement
    <2>7. \A id, s, d : \A t \in {"New", "Cancel"} :
            MsgIs(m, t, id, s, d) => id = m.ClOrdID
      BY <2>2 DEF MsgIs
    <2> HIDE DEF e
    <2>8. Agreement'
      BY <1>0, <1>1, <2>1, <2>3, <2>4, <2>5, <2>6, <2>7, EndAgrees DEF Terminal
    <2> QED BY <1>1, <2>1, <2>4, <2>8 DEF AgreeInv, Agreement
  <1>6. CASE ExecuteCancel
    <2>1. PICK p \in working, id \in AckIds(m) :
            /\ p.cl_ord_id = m.OrigClOrdID
            /\ working' = working \ {p}
            /\ report(ReportOn(p, id, "CANCELED", "CANCELED", 0))
      BY <1>6 DEF ExecuteCancel, m
    <2> DEFINE r == ReportOn(p, id, "CANCELED", "CANCELED", 0)
               e == exec_event(r)
    <2>2. Receive("F")
      BY <1>6 DEF ExecuteCancel
    <2>3. m \in Sent /\ m \in OrderMessage /\ m.MsgType = "F" /\ session_up
      BY <1>1, <2>2
    <2>4. id = p.cl_ord_id
      BY <2>1 DEF AckIds, NothingLost
    <2>5. /\ p \in Order /\ p.cl_ord_id \in Nat /\ p.symbol_id \in Syms /\ p.side \in Sides
          /\ p.cl_ord_id # 0 /\ Holds(p.symbol_id, p.side, p.cl_ord_id)
          /\ \A q \in working : q.cl_ord_id = p.cl_ord_id => q = p
      BY CoreTypes DEF Order, IdFacts
    <2>6. /\ r \in ReportMessage /\ IsReport(r)
          /\ e.cl_ord_id = p.cl_ord_id /\ e.symbol_id = p.symbol_id
          /\ e.kind = "Canceled"
      BY <2>4, <2>5, EventOfReport DEF ExecTypes, OrdStatuses
    <2> HIDE DEF r
    <2>7. Reports' = Reports \cup {e}
      BY <1>0, <2>1, <2>3, <2>6, ReportIsComing DEF r
    <2>8. \A s \in Syms, d \in Sides :
            oms[s][d].cl_ord_id = p.cl_ord_id => s = p.symbol_id /\ d = p.side
      BY <1>0, <2>5, SlotOfOrder DEF Agreement
    <2>9. \A i, s, d : \A t \in {"New", "Cancel"} :
            MsgIs(m, t, i, s, d) => i = p.cl_ord_id
      BY <2>1, <2>3 DEF MsgIs
    <2>10. /\ working' \subseteq working
           /\ \A q \in working : q.cl_ord_id # p.cl_ord_id => q \in working'
      BY <2>1
    <2> HIDE DEF e
    <2>11. Agreement'
      BY <1>0, <1>1, <2>2, <2>5, <2>6, <2>7, <2>8, <2>9, <2>10, EndAgrees DEF Terminal
    <2> QED BY <1>1, <2>2, <2>7, <2>11 DEF AgreeInv, Agreement
  <1>7. CASE RefuseCancel
    <2> DEFINE r == CancelReject(m)
    <2>1. /\ Receive("F") /\ report(r) /\ working' = working
          /\ \A p \in working : p.cl_ord_id # m.OrigClOrdID
      BY <1>7 DEF RefuseCancel, NothingLost, m
    <2>2. m \in Sent /\ m \in OrderMessage /\ m.MsgType = "F" /\ session_up
      BY <1>1, <2>1
    <2>3. r \in ReportMessage /\ ~IsReport(r)
      BY <2>2, ReportTypes DEF CancelReject, IsReport
    <2> HIDE DEF r
    <2>4. Reports' = Reports
      BY <1>0, <2>1, <2>2, <2>3, ReportIsComing
    <2>5. Agreement'
      BY <1>0, <1>1, <2>1, <2>2, <2>4, RefuseAgrees
    <2> QED BY <1>1, <2>1, <2>4, <2>5 DEF AgreeInv, Agreement
  <1>8. CASE BlindAck
    BY <1>8 DEF BlindAck, NothingLost
  <1> QED BY <1>4, <1>5, <1>6, <1>7, <1>8 DEF Answer

\* An order trades, or the venue takes it away.
LEMMA MarketAgrees ==
  ASSUME NothingLost, TypeOK, IdFacts, AgreeInv, Market,
         UNCHANGED <<strategy, rings, fixapp, process>>
  PROVE  AgreeInv'
  <1>0. /\ UNCHANGED <<oms, ordRing, sent_cmd, execRing, first_id, logged_on>>
        /\ Agreement /\ Connected
    BY DEF strategy, rings, fixapp, process, AgreeInv, Agreement
  <1>1. ASSUME NEW o \in working
        PROVE  /\ o \in Order /\ o.cl_ord_id \in Nat /\ o.symbol_id \in Syms
               /\ o.side \in Sides /\ o.leaves \in Nat
               /\ o.cl_ord_id # 0 /\ Holds(o.symbol_id, o.side, o.cl_ord_id)
               /\ \A s \in Syms, d \in Sides :
                    oms[s][d].cl_ord_id = o.cl_ord_id => s = o.symbol_id /\ d = o.side
               /\ session_up /\ (UNCHANGED session_up => Connected')
    <2>1. /\ o \in Order /\ o.cl_ord_id \in Nat /\ o.symbol_id \in Syms
          /\ o.side \in Sides /\ o.leaves \in Nat
          /\ o.cl_ord_id # 0 /\ Holds(o.symbol_id, o.side, o.cl_ord_id)
      BY CoreTypes DEF Order, IdFacts
    <2>2. \A s \in Syms, d \in Sides :
            oms[s][d].cl_ord_id = o.cl_ord_id => s = o.symbol_id /\ d = o.side
      BY <1>0, <2>1, SlotOfOrder DEF Agreement
    <2>3. session_up /\ (UNCHANGED session_up => Connected')
      BY <1>0 DEF Connected
    <2> QED BY <2>1, <2>2, <2>3
  <1>2. ASSUME NEW o \in working, NEW et \in ExecTypes, NEW st \in OrdStatuses,
               \/ et = "TRADE" /\ st = "FILLED"
               \/ et = "CANCELED",
               working' = working \ {o}, UNCHANGED <<to_exch, session_up>>,
               report(ReportOn(o, o.cl_ord_id, et, st, 0))
        PROVE  AgreeInv'
    <2> DEFINE r == ReportOn(o, o.cl_ord_id, et, st, 0)
               e == exec_event(r)
    <2>1. /\ r \in ReportMessage /\ IsReport(r)
          /\ e.cl_ord_id = o.cl_ord_id /\ e.symbol_id = o.symbol_id
          /\ e.kind \in {"Filled", "Canceled"}
      BY <1>1, <1>2, EventOfReport
    <2> HIDE DEF r
    <2>2. Reports' = Reports \cup {e}
      BY <1>0, <1>1, <1>2, <2>1, ReportIsComing DEF r
    <2>3. Sent' = Sent
      BY <1>0, <1>2 DEF Sent
    <2>4. /\ working' \subseteq working
          /\ \A q \in working : q.cl_ord_id # o.cl_ord_id => q \in working'
      BY <1>2
    <2> HIDE DEF e
    <2>5. Agreement'
      BY <1>0, <1>1, <2>1, <2>2, <2>3, <2>4, EndAgrees DEF Terminal
    <2> QED BY <1>1, <1>2, <2>2, <2>5 DEF AgreeInv, Agreement
  <1>3. ASSUME NEW o \in working, Fill(o) PROVE AgreeInv'
    <2>1. "TRADE" \in ExecTypes /\ "FILLED" \in OrdStatuses
      BY DEF ExecTypes, OrdStatuses
    <2> QED BY <1>2, <1>3, <2>1 DEF Fill, sessionUnchanged
  <1>4. ASSUME NEW o \in working, GoAway(o, "unsolicited", "CANCELED") PROVE AgreeInv'
    <2>1. "CANCELED" \in ExecTypes /\ "CANCELED" \in OrdStatuses
      BY DEF ExecTypes, OrdStatuses
    <2> QED BY <1>2, <1>4, <2>1 DEF GoAway, sessionUnchanged
  <1>5. ASSUME NEW o \in working, PartialFill(o) PROVE AgreeInv'
    <2>0. o.leaves \in Nat
      BY <1>1
    <2>1. PICK left \in 1 .. o.leaves - 1 :
            /\ working' = (working \ {o}) \cup {[o EXCEPT !.leaves = left]}
            /\ report(ReportOn(o, o.cl_ord_id, "TRADE", "PARTIALLY_FILLED", left))
      BY <1>5 DEF PartialFill, PartialStatuses, NothingLost
    <2>2. left \in Nat /\ left < o.leaves
      BY <2>0
    <2> DEFINE r == ReportOn(o, o.cl_ord_id, "TRADE", "PARTIALLY_FILLED", left)
               e == exec_event(r)
    <2>3. /\ r \in ReportMessage /\ IsReport(r) /\ e \in ExecEvent
          /\ e.cl_ord_id = o.cl_ord_id /\ e.symbol_id = o.symbol_id
          /\ e.kind = "PartFill" /\ e.leaves_qty = left
      <3>1. "TRADE" \in ExecTypes /\ "PARTIALLY_FILLED" \in OrdStatuses
        BY DEF ExecTypes, OrdStatuses
      <3> QED BY <1>1, <2>2, <3>1, EventOfReport
    <2>4. UNCHANGED <<to_exch, session_up>>
      BY <1>5 DEF PartialFill, sessionUnchanged
    <2>5. Sent' = Sent
      BY <1>0, <2>4 DEF Sent
    <2> HIDE DEF r
    <2>6. Reports' = Reports \cup {e}
      BY <1>0, <1>1, <2>1, <2>3, ReportIsComing DEF r
    <2> HIDE DEF e
    <2>7. Agreement'
      BY <1>0, <2>1, <2>2, <2>3, <2>5, <2>6, PartialAgrees
    <2> QED BY <1>1, <2>4, <2>7 DEF AgreeInv, Agreement
  <1>6. ASSUME NEW o \in working, GoAway(o, "expire", "EXPIRED") PROVE AgreeInv'
    BY <1>6 DEF GoAway, NothingLost
  <1>7. ASSUME Stray PROVE AgreeInv'
    BY <1>7 DEF Stray, NothingLost
  <1> QED BY <1>3, <1>4, <1>5, <1>6, <1>7 DEF Market
-----------------------------------------------------------------------------
(* The steps of the engine's own threads.                                  *)

\* Steps that leave both directions, the slots and the venue alone.
LEMMA AgreeStutter ==
  ASSUME AgreeInv, Connected',
         UNCHANGED <<oms, working, ordRing, sent_cmd, to_exch, from_exch, execRing>>
  PROVE  AgreeInv'
  <1>1. Sent' = Sent /\ Reports' = Reports
    BY DEF Sent, Reports
  <1>2. Agreement'
    BY <1>1, AgreementStutter DEF AgreeInv, Agreement
  <1> QED BY <1>2 DEF AgreeInv, Agreement

\* A step that keeps session and market data keeps the session's part.
LEMMA ConnectedStutter ==
  ASSUME Connected, Sent' = Sent,
         UNCHANGED <<first_id, logged_on, session_up, working>>,
         mdRing' = mdRing \/ session_up,
         spc' = spc \/ spc' \notin {"buy", "sell"} \/ session_up
  PROVE  Connected'
  BY DEF Connected

\* The strategy thread.
LEMMA StrategyAgrees ==
  ASSUME TypeOK, IdFacts, LeavesFall, AgreeInv, Strategy
  PROVE  AgreeInv'
  <1>0. /\ StrategyStep /\ UNCHANGED <<fixapp, wire, working, process>>
        /\ Agreement /\ Connected
    BY DEF Strategy, AgreeInv, Agreement
  <1>1. UNCHANGED <<sent_cmd, to_exch, from_exch, working, first_id, logged_on, session_up>>
    BY <1>0 DEF fixapp, wire, process
  <1>2. CASE PopExec
    <2>1. Agreement' /\ Sent' = Sent
      BY <1>0, <1>2, PopExecAgrees
    <2>2. Connected'
      BY <1>0, <1>1, <1>2, <2>1, ConnectedStutter DEF PopExec
    <2> QED BY <2>1, <2>2 DEF AgreeInv, Agreement
  <1>3. ASSUME NEW side \in Sides, NEW px \in Int, act(side, px), session_up,
               UNCHANGED execRing
        PROVE  AgreeInv'
    <2>1. Agreement'
      BY <1>0, <1>1, <1>3, ActAgrees
    <2>2. Connected'
      BY <1>0, <1>1, <1>3 DEF Connected
    <2> QED BY <2>1, <2>2 DEF AgreeInv, Agreement
  <1>4. CASE ActBuy \/ ActSell
    <2>1. plan.bid \in Int /\ plan.ask \in Int /\ "Buy" \in Sides /\ "Sell" \in Sides
      BY DEF TypeOK, MarketMakerTypeOK, Plan, Sides
    <2>2. spc \in {"buy", "sell"} /\ UNCHANGED execRing
          /\ (act("Buy", plan.bid) \/ act("Sell", plan.ask))
      BY <1>4 DEF ActBuy, ActSell
    <2>3. session_up
      BY <1>0, <2>2 DEF Connected
    <2> QED BY <1>3, <2>1, <2>2, <2>3
  <1>5. CASE ExecDrained \/ MdEmpty \/ SnapshotDue \/ SnapshotNotDue \/ PushSnapshot \/ PopMd
    <2>1. UNCHANGED <<oms, ordRing, execRing>>
      BY <1>5 DEF ExecDrained, MdEmpty, SnapshotDue, SnapshotNotDue, PushSnapshot,
                  PopMd, rings
    <2>2. Sent' = Sent
      BY <1>1, <2>1 DEF Sent
    <2>3. CASE mdRing' = mdRing /\ spc' \notin {"buy", "sell"}
      BY <1>0, <1>1, <2>1, <2>2, <2>3, ConnectedStutter, AgreeStutter
    <2>4. CASE PopMd
      <3>1. session_up
        BY <1>0, <2>4 DEF PopMd, Connected
      <3> QED BY <1>0, <1>1, <2>1, <2>2, <3>1, ConnectedStutter, AgreeStutter
    <2>5. CASE ~PopMd
      <3>1. mdRing' = mdRing /\ spc' \notin {"buy", "sell"}
        BY <1>5, <2>5 DEF ExecDrained, MdEmpty, SnapshotDue, SnapshotNotDue,
                          PushSnapshot, rings
      <3> QED BY <2>3, <3>1
    <2> QED BY <2>4, <2>5
  <1> QED BY <1>0, <1>2, <1>4, <1>5 DEF StrategyStep

\* The reader thread.
LEMMA ReaderAgrees ==
  ASSUME TypeOK, AgreeInv, Reader, RoomForReport
  PROVE  AgreeInv'
  <1>0. /\ ReaderStep /\ UNCHANGED <<oms, spc, working, first_id>>
        /\ Agreement /\ Connected
    BY DEF Reader, strategy, process, AgreeInv, Agreement
  <1>1. ASSUME NEW w \in Snapshots, OnMarketData(w) PROVE AgreeInv'
    <2>1. /\ session_up
          /\ UNCHANGED <<logged_on, session_up, ordRing, sent_cmd, to_exch, from_exch,
                         execRing>>
      BY <1>1 DEF OnMarketData, fixapp
    <2>2. Sent' = Sent
      BY <2>1 DEF Sent
    <2> QED BY <1>0, <2>1, <2>2, ConnectedStutter, AgreeStutter
  <1>2. CASE FromApp
    <2>1. UNCHANGED <<logged_on, session_up, mdRing, ordRing, sent_cmd, to_exch>>
      BY <1>2 DEF FromApp, fixapp
    <2>2. Sent' = Sent
      BY <2>1 DEF Sent
    <2>3. Reports' = Reports
      BY <1>0, <1>2, ReportsByReader
    <2>4. Agreement'
      BY <1>0, <2>2, <2>3, AgreementStutter
    <2>5. Connected'
      BY <1>0, <2>1, <2>2, ConnectedStutter
    <2> QED BY <2>3, <2>4, <2>5 DEF AgreeInv, Agreement
  <1>3. CASE OnLogon
    <2>1. /\ session_up' = TRUE /\ logged_on' = TRUE
          /\ UNCHANGED <<ordRing, sent_cmd, to_exch, from_exch, execRing>>
      BY <1>3 DEF OnLogon, rings
    <2>2. Connected'
      BY <1>0, <2>1 DEF Connected
    <2> QED BY <1>0, <2>1, <2>2, AgreeStutter
  <1>4. CASE OnLogout
    BY <1>0, <1>4 DEF OnLogout, Connected
  <1> QED BY <1>0, <1>1, <1>2, <1>3, <1>4 DEF ReaderStep

\* The sender thread: the session is up whenever it has something to send.
LEMMA SenderAgrees ==
  ASSUME TypeOK, OrderIdsInv, AgreeInv, Sender
  PROVE  AgreeInv'
  <1>0. /\ SenderStep /\ UNCHANGED <<oms, spc, working, first_id>>
        /\ Agreement /\ Connected
    BY DEF Sender, strategy, process, AgreeInv, Agreement
  <1>1. UNCHANGED <<logged_on, session_up, mdRing, execRing, from_exch>>
    BY <1>0 DEF SenderStep, SenderPop, SenderSend, rings, wire
  <1>2. Sent' = Sent
    <2>1. CASE SenderPop
      BY <2>1, SentByPop
    <2>2. CASE SenderSend
      <3>1. fix_message(sent_cmd) \in Sent
        BY <2>2 DEF SenderSend, Sent
      <3>2. session_up /\ logged_on
        BY <1>0, <3>1 DEF Connected
      <3> QED BY <2>2, <3>2, SentBySend
    <2> QED BY <1>0, <2>1, <2>2 DEF SenderStep
  <1>3. Reports' = Reports
    BY <1>0, <1>1 DEF Reports
  <1>4. Agreement'
    BY <1>0, <1>2, <1>3, AgreementStutter
  <1>5. Connected'
    BY <1>0, <1>1, <1>2, ConnectedStutter
  <1> QED BY <1>3, <1>4, <1>5 DEF AgreeInv, Agreement

-----------------------------------------------------------------------------
(* How many reports wait for the strategy.                                 *)

\* Every report names an order of this process by its own id: the venue does
\* not answer a cancel under the id of the request nor report on other
\* orders, partial fills have the status of one, and there has been no other
\* process.  The session may go down, rings may overflow, cancels may be
\* refused and orders may expire.
ReportsNamed ==
  /\ VenueMay \cap {"ack_request", "blind_ack", "pending_status", "stray"} = {}
  /\ MaxRestarts = 0

\* Before the first order there is nothing to report.
LEMMA InitReports == Init => ReportsInv
  <1> SUFFICES ASSUME Init PROVE ReportsInv
    OBVIOUS
  <1>1. /\ ordRing = <<>> /\ to_exch = <<>> /\ from_exch = <<>>
        /\ execRing = <<>> /\ sent_cmd = NoCmd /\ working = {}
    BY DEF Init, RingsInit, WireInit, FixAppInit, ExchangeInit
  <1>2. Len(ordRing) = 0 /\ Len(to_exch) = 0 /\ Len(from_exch) = 0 /\ Len(execRing) = 0
    BY <1>1
  <1>3. Sent = {} /\ Reports = {}
    BY <1>1, <1>2 DEF Sent, Reports
  <1>4. LeavesFall
    BY <1>2 DEF LeavesFall
  <1> QED BY <1>1, <1>3, <1>4 DEF ReportsInv, LeavesBounded, Awaited

\* Steps that take reports or messages away, or move them along.
LEMMA FewerReports ==
  ASSUME ReportsInv, LeavesFall', Reports' \subseteq Reports, Sent' \subseteq Sent,
         UNCHANGED <<oms, working>>
  PROVE  ReportsInv'
  <1>1. LeavesBounded'
    BY DEF ReportsInv, LeavesBounded
  <1>2. Awaited'
    BY DEF ReportsInv, Awaited
  <1> QED BY <1>1, <1>2 DEF ReportsInv

\* Steps that leave the queues alone.
LEMMA QueuesStutter ==
  ASSUME UNCHANGED <<ordRing, sent_cmd, to_exch, from_exch, execRing>>
  PROVE  Sent' = Sent /\ Reports' = Reports /\ (LeavesFall => LeavesFall')
  BY DEF Sent, Reports, LeavesFall, IsReport, exec_event, exec_kind

\* A report of the venue may follow those on their way if its slot waits for
\* it and it leaves less of its order than they do, and no less than works.
LEMMA OneMoreReport ==
  ASSUME TypeOK, ReportsInv, UNCHANGED <<oms, execRing>>, Sent' \subseteq Sent,
         NEW r \in ReportMessage, report(r), NEW e, e = exec_event(r),
         e.cl_ord_id # 0,
         \E s \in Syms, d \in Sides : oms[s][d].cl_ord_id = e.cl_ord_id,
         \A f \in Reports : LeavesLess(f, e),
         e.leaves_qty <= order_qty, e.kind \in Terminal => e.leaves_qty = 0,
         \A o \in working' :
           /\ o.leaves \in 1 .. order_qty
           /\ o.cl_ord_id = e.cl_ord_id => o.leaves <= e.leaves_qty
           /\ \A f \in Reports : f.cl_ord_id = o.cl_ord_id => o.leaves <= f.leaves_qty
  PROVE  ReportsInv'
  <1>1. LeavesFall' /\ Reports' \subseteq Reports \cup {e}
    BY ReportIsComing DEF ReportsInv
  <1>2. LeavesBounded'
    BY <1>1 DEF ReportsInv, LeavesBounded
  <1>3. Awaited'
    BY <1>1 DEF ReportsInv, Awaited
  <1> QED BY <1>1, <1>2, <1>3 DEF ReportsInv

\* What the steps of the venue know of a resting order.
LEMMA RestingReports ==
  ASSUME TypeOK, IdFacts, ReportsInv, NEW o \in working
  PROVE  /\ o \in Order /\ o.cl_ord_id \in Nat /\ o.cl_ord_id # 0
         /\ o.leaves \in Nat /\ o.leaves \in 1 .. order_qty /\ order_qty \in Nat
         /\ \E s \in Syms, d \in Sides : oms[s][d].cl_ord_id = o.cl_ord_id
         /\ \A f \in Reports : /\ f.leaves_qty \in Nat
                               /\ f.cl_ord_id = o.cl_ord_id => o.leaves <= f.leaves_qty
         /\ \A p \in working : p.cl_ord_id = o.cl_ord_id => p = o
         /\ \A p \in working : /\ p.leaves \in 1 .. order_qty
                               /\ \A f \in Reports :
                                    f.cl_ord_id = p.cl_ord_id => p.leaves <= f.leaves_qty
  <1>1. o \in Order /\ order_qty \in Nat
    BY CoreTypes, ConfigAssumption
  <1>2. o.symbol_id \in Syms /\ o.side \in Sides /\ o.cl_ord_id \in Nat /\ o.leaves \in Nat
    BY <1>1 DEF Order
  <1>3. /\ o.cl_ord_id # 0 /\ oms[o.symbol_id][o.side].cl_ord_id = o.cl_ord_id
        /\ \A p \in working : p.cl_ord_id = o.cl_ord_id => p = o
    BY DEF IdFacts, Holds
  <1>4. \A f \in Reports : f.leaves_qty \in Nat
    BY FlightTypes DEF ExecEvent
  <1>5. \A p \in working :
          /\ p.leaves \in 1 .. order_qty
          /\ \A f \in Reports : f.cl_ord_id = p.cl_ord_id => p.leaves <= f.leaves_qty
    BY DEF ReportsInv, LeavesBounded
  <1> QED BY <1>1, <1>2, <1>3, <1>4, <1>5

\* The end of an order leaves nothing of it, and there is nothing after it.
LEMMA EndReported ==
  ASSUME TypeOK, IdFacts, ReportsInv, UNCHANGED <<oms, execRing>>, Sent' \subseteq Sent,
         NEW o \in working, working' = working \ {o},
         NEW et \in ExecTypes, NEW st \in OrdStatuses,
         report(ReportOn(o, o.cl_ord_id, et, st, 0))
  PROVE  ReportsInv'
  <1> DEFINE r == ReportOn(o, o.cl_ord_id, et, st, 0)
             e == exec_event(r)
  <1>1. /\ o \in Order /\ o.cl_ord_id \in Nat /\ o.cl_ord_id # 0 /\ o.leaves \in Nat
        /\ o.leaves \in 1 .. order_qty /\ order_qty \in Nat
        /\ \E s \in Syms, d \in Sides : oms[s][d].cl_ord_id = o.cl_ord_id
        /\ \A f \in Reports : /\ f.leaves_qty \in Nat
                              /\ f.cl_ord_id = o.cl_ord_id => o.leaves <= f.leaves_qty
        /\ \A p \in working : p.cl_ord_id = o.cl_ord_id => p = o
        /\ \A p \in working : /\ p.leaves \in 1 .. order_qty
                              /\ \A f \in Reports :
                                   f.cl_ord_id = p.cl_ord_id => p.leaves <= f.leaves_qty
    BY RestingReports
  <1>2. r \in ReportMessage /\ e.cl_ord_id = o.cl_ord_id /\ e.leaves_qty = 0
    <2>1. 0 \in Nat
      OBVIOUS
    <2> QED BY <1>1, <2>1, EventOfReport
  <1> HIDE DEF r
  <1>3. report(r) /\ e = exec_event(r)
    BY DEF r
  <1> HIDE DEF e
  <1>4. \A f \in Reports : LeavesLess(f, e)
    <2> SUFFICES ASSUME NEW f \in Reports, f.cl_ord_id = o.cl_ord_id
                 PROVE  0 < f.leaves_qty
      BY <1>2 DEF LeavesLess
    <2>1. o.leaves <= f.leaves_qty /\ f.leaves_qty \in Nat
      BY <1>1
    <2> QED BY <1>1, <2>1
  <1>5. ASSUME NEW p \in working'
        PROVE  /\ p.leaves \in 1 .. order_qty
               /\ p.cl_ord_id # e.cl_ord_id
               /\ \A f \in Reports : f.cl_ord_id = p.cl_ord_id => p.leaves <= f.leaves_qty
    BY <1>1, <1>2
  <1>6. e.leaves_qty <= order_qty
    BY <1>1, <1>2
  <1> QED BY <1>1, <1>2, <1>3, <1>4, <1>5, <1>6, OneMoreReport

\* The venue answers a message.
LEMMA AnswerReports ==
  ASSUME ReportsNamed, TypeOK, IdFacts, ReportsInv, Answer,
         UNCHANGED <<strategy, rings, fixapp, process>>
  PROVE  ReportsInv'
  <1>0. UNCHANGED <<oms, ordRing, sent_cmd, execRing>>
    BY DEF strategy, rings, fixapp
  <1> DEFINE m == Head(to_exch)
             o == OrderOf(m)
  <1>1. ASSUME NEW t, Receive(t)
        PROVE  /\ m \in Sent /\ m \in OrderMessage /\ m.MsgType = t /\ o \in Order
               /\ Sent' \subseteq Sent
    <2>1. to_exch # <<>> /\ to_exch' = Tail(to_exch) /\ m.MsgType = t
      BY <1>1 DEF Receive
    <2>2. m \in Sent /\ m \in OrderMessage /\ Sent' \subseteq Sent
      BY <1>0, <2>1, SentByReceive
    <2> QED BY <2>1, <2>2, ReportTypes
  <1>2. o.cl_ord_id = m.ClOrdID /\ o.leaves = m.OrderQty
    BY DEF OrderOf
  <1> HIDE DEF m, o
  <1>3. ASSUME m \in Sent, m \in OrderMessage, m.MsgType = "D"
        PROVE  /\ o.cl_ord_id \in Nat /\ o.leaves \in Nat /\ o.cl_ord_id # 0
               /\ o.leaves \in 1 .. order_qty /\ order_qty \in Nat
               /\ \E s \in Syms, d \in Sides : oms[s][d].cl_ord_id = o.cl_ord_id
               /\ \A f \in Reports : f.cl_ord_id # o.cl_ord_id
               /\ \A p \in working :
                    /\ p.cl_ord_id # o.cl_ord_id /\ p.leaves \in 1 .. order_qty
                    /\ \A f \in Reports :
                         f.cl_ord_id = p.cl_ord_id => p.leaves <= f.leaves_qty
    <2>1. /\ m.ClOrdID \in Nat /\ m.OrderQty \in Nat /\ m.Symbol \in Syms
          /\ m.Side \in Sides
      BY <1>3 DEF OrderMessage
    <2>2. /\ m.ClOrdID # 0 /\ oms[m.Symbol][m.Side].cl_ord_id = m.ClOrdID
          /\ \A f \in Reports : f.cl_ord_id # m.ClOrdID
          /\ \A p \in working : p.cl_ord_id # m.ClOrdID
      BY <1>3 DEF IdFacts, Holds
    <2>3. m.OrderQty \in 1 .. order_qty /\ order_qty \in Nat
      BY <1>3, ConfigAssumption DEF ReportsInv, LeavesBounded
    <2>4. \A p \in working :
            /\ p.leaves \in 1 .. order_qty
            /\ \A f \in Reports : f.cl_ord_id = p.cl_ord_id => p.leaves <= f.leaves_qty
      BY DEF ReportsInv, LeavesBounded
    <2> QED BY <1>2, <2>1, <2>2, <2>3, <2>4
  <1>4. /\ "NEW" \in ExecTypes /\ "REJECTED" \in ExecTypes /\ "CANCELED" \in ExecTypes
        /\ "NEW" \in OrdStatuses /\ "REJECTED" \in OrdStatuses
        /\ "CANCELED" \in OrdStatuses /\ 0 \in Nat
    BY DEF ExecTypes, OrdStatuses
  <1>5. CASE AcceptNew
    <2> DEFINE r == ReportOn(o, o.cl_ord_id, "NEW", "NEW", o.leaves)
               e == exec_event(r)
    <2>1. Receive("D") /\ report(r) /\ working' = working \cup {o}
      BY <1>5 DEF AcceptNew, m, o
    <2>2. m \in Sent /\ m \in OrderMessage /\ m.MsgType = "D" /\ o \in Order
      BY <1>1, <2>1
    <2>3. /\ r \in ReportMessage /\ e.cl_ord_id = o.cl_ord_id /\ e.leaves_qty = o.leaves
          /\ e.kind = "New"
      BY <1>3, <1>4, <2>2, EventOfReport
    <2> HIDE DEF r
    <2>4. e = exec_event(r) /\ report(r) /\ Sent' \subseteq Sent
      BY <1>1, <2>1
    <2> HIDE DEF e
    <2>5. \A f \in Reports : LeavesLess(f, e)
      BY <1>3, <2>2, <2>3 DEF LeavesLess
    <2>6. e.leaves_qty <= order_qty /\ e.kind \notin Terminal
      BY <1>3, <2>2, <2>3 DEF Terminal
    <2>7. ASSUME NEW p \in working'
          PROVE  /\ p.leaves \in 1 .. order_qty
                 /\ p.cl_ord_id = e.cl_ord_id => p.leaves <= e.leaves_qty
                 /\ \A f \in Reports : f.cl_ord_id = p.cl_ord_id => p.leaves <= f.leaves_qty
      <3>1. CASE p = o
        BY <1>3, <2>2, <2>3, <3>1
      <3>2. CASE p \in working
        BY <1>3, <2>2, <2>3, <3>2
      <3> QED BY <2>1, <3>1, <3>2
    <2> QED BY <1>0, <1>3, <2>2, <2>3, <2>4, <2>5, <2>6, <2>7, OneMoreReport
  <1>6. CASE RejectNew
    <2> DEFINE r == ReportOn(o, o.cl_ord_id, "REJECTED", "REJECTED", 0)
               e == exec_event(r)
    <2>1. Receive("D") /\ report(r) /\ working' = working
      BY <1>6 DEF RejectNew, m, o
    <2>2. m \in Sent /\ m \in OrderMessage /\ m.MsgType = "D" /\ o \in Order
      BY <1>1, <2>1
    <2>3. r \in ReportMessage /\ e.cl_ord_id = o.cl_ord_id /\ e.leaves_qty = 0
      BY <1>3, <1>4, <2>2, EventOfReport
    <2> HIDE DEF r
    <2>4. e = exec_event(r) /\ report(r) /\ Sent' \subseteq Sent
      BY <1>1, <2>1
    <2> HIDE DEF e
    <2>5. \A f \in Reports : LeavesLess(f, e)
      BY <1>3, <2>2, <2>3 DEF LeavesLess
    <2>6. e.leaves_qty <= order_qty
      BY <1>3, <2>2, <2>3
    <2>7. \A p \in working' :
            /\ p.leaves \in 1 .. order_qty
            /\ p.cl_ord_id = e.cl_ord_id => p.leaves <= e.leaves_qty
            /\ \A f \in Reports : f.cl_ord_id = p.cl_ord_id => p.leaves <= f.leaves_qty
      BY <1>3, <2>1, <2>2, <2>3
    <2> QED BY <1>0, <1>3, <2>2, <2>3, <2>4, <2>5, <2>6, <2>7, OneMoreReport
  <1>7. CASE ExecuteCancel
    <2>1. PICK p \in working, id \in AckIds(m) :
            /\ p.cl_ord_id = m.OrigClOrdID
            /\ working' = working \ {p}
            /\ report(ReportOn(p, id, "CANCELED", "CANCELED", 0))
      BY <1>7 DEF ExecuteCancel, m
    <2>2. Sent' \subseteq Sent
      BY <1>1, <1>7 DEF ExecuteCancel
    <2>3. id = p.cl_ord_id
      BY <2>1 DEF AckIds, ReportsNamed
    <2> QED BY <1>0, <1>4, <2>1, <2>2, <2>3, EndReported
  <1>8. CASE RefuseCancel
    <2> DEFINE r == CancelReject(m)
    <2>1. Receive("F") /\ report(r) /\ working' = working
      BY <1>8 DEF RefuseCancel, m
    <2>2. m \in OrderMessage /\ Sent' \subseteq Sent
      BY <1>1, <2>1
    <2>3. r \in ReportMessage /\ ~IsReport(r)
      BY <2>2, ReportTypes DEF CancelReject, IsReport
    <2> HIDE DEF r
    <2>4. Reports' = Reports /\ LeavesFall'
      BY <1>0, <2>1, <2>3, ReportIsComing DEF ReportsInv
    <2> QED BY <1>0, <2>1, <2>2, <2>4, FewerReports
  <1>9. CASE BlindAck
    BY <1>9 DEF BlindAck, ReportsNamed
  <1> QED BY <1>5, <1>6, <1>7, <1>8, <1>9 DEF Answer

\* An order trades, or the venue takes it away: a partial fill leaves less
\* than works, and at least one lot.
LEMMA MarketReports ==
  ASSUME ReportsNamed, TypeOK, IdFacts, ReportsInv, Market,
         UNCHANGED <<strategy, rings, fixapp, process>>
  PROVE  ReportsInv'
  <1>0. UNCHANGED <<oms, ordRing, sent_cmd, execRing>>
    BY DEF strategy, rings, fixapp
  <1>1. to_exch' = to_exch => Sent' = Sent
    BY <1>0 DEF Sent
  <1>2. ASSUME NEW o \in working,
               \/ Fill(o) \/ GoAway(o, "unsolicited", "CANCELED")
               \/ GoAway(o, "expire", "EXPIRED")
        PROVE  ReportsInv'
    <2>1. /\ working' = working \ {o} /\ to_exch' = to_exch
          /\ \/ report(ReportOn(o, o.cl_ord_id, "TRADE", "FILLED", 0))
             \/ report(ReportOn(o, o.cl_ord_id, "CANCELED", "CANCELED", 0))
             \/ report(ReportOn(o, o.cl_ord_id, "EXPIRED", "EXPIRED", 0))
      BY <1>2 DEF Fill, GoAway
    <2>2. /\ {"TRADE", "CANCELED", "EXPIRED"} \subseteq ExecTypes
          /\ {"FILLED", "CANCELED", "EXPIRED"} \subseteq OrdStatuses
      BY DEF ExecTypes, OrdStatuses
    <2>3. PICK et \in ExecTypes, st \in OrdStatuses :
            report(ReportOn(o, o.cl_ord_id, et, st, 0))
      BY <2>1, <2>2
    <2> QED BY <1>0, <1>1, <2>1, <2>3, EndReported
  <1>3. ASSUME NEW o \in working, PartialFill(o) PROVE ReportsInv'
    <2>0. /\ o \in Order /\ o.cl_ord_id \in Nat /\ o.cl_ord_id # 0 /\ o.leaves \in Nat
          /\ o.leaves \in 1 .. order_qty /\ order_qty \in Nat
          /\ \E s \in Syms, d \in Sides : oms[s][d].cl_ord_id = o.cl_ord_id
          /\ \A f \in Reports : /\ f.leaves_qty \in Nat
                                /\ f.cl_ord_id = o.cl_ord_id => o.leaves <= f.leaves_qty
          /\ \A p \in working : p.cl_ord_id = o.cl_ord_id => p = o
          /\ \A p \in working : /\ p.leaves \in 1 .. order_qty
                                /\ \A f \in Reports :
                                     f.cl_ord_id = p.cl_ord_id => p.leaves <= f.leaves_qty
      BY RestingReports
    <2>1. PICK left \in 1 .. o.leaves - 1 :
            /\ working' = (working \ {o}) \cup {[o EXCEPT !.leaves = left]}
            /\ report(ReportOn(o, o.cl_ord_id, "TRADE", "PARTIALLY_FILLED", left))
      BY <1>3 DEF PartialFill, PartialStatuses, ReportsNamed
    <2>2. left \in Nat /\ left < o.leaves /\ left \in 1 .. order_qty
      BY <2>0
    <2> DEFINE r == ReportOn(o, o.cl_ord_id, "TRADE", "PARTIALLY_FILLED", left)
               e == exec_event(r)
               now == [o EXCEPT !.leaves = left]
    <2>3. /\ r \in ReportMessage /\ e.cl_ord_id = o.cl_ord_id /\ e.leaves_qty = left
          /\ e.kind = "PartFill"
      <3>1. "TRADE" \in ExecTypes /\ "PARTIALLY_FILLED" \in OrdStatuses
        BY DEF ExecTypes, OrdStatuses
      <3> QED BY <2>0, <2>2, <3>1, EventOfReport
    <2>4. now.cl_ord_id = o.cl_ord_id /\ now.leaves = left
      BY <2>0 DEF Order
    <2>5. working' = (working \ {o}) \cup {now} /\ report(r) /\ e = exec_event(r)
      BY <2>1
    <2>6. Sent' = Sent
      BY <1>1, <1>3 DEF PartialFill
    <2> HIDE DEF r, e, now
    <2>7. \A f \in Reports : f.cl_ord_id = o.cl_ord_id => left < f.leaves_qty
      BY <2>0, <2>2
    <2>8. \A f \in Reports : LeavesLess(f, e)
      BY <2>3, <2>7 DEF LeavesLess
    <2>9. e.leaves_qty <= order_qty /\ e.kind \notin Terminal
      BY <2>0, <2>2, <2>3 DEF Terminal
    <2>10. ASSUME NEW p \in working'
           PROVE  /\ p.leaves \in 1 .. order_qty
                  /\ p.cl_ord_id = e.cl_ord_id => p.leaves <= e.leaves_qty
                  /\ \A f \in Reports : f.cl_ord_id = p.cl_ord_id => p.leaves <= f.leaves_qty
      <3>1. CASE p = now
        <4>1. \A f \in Reports : f.cl_ord_id = o.cl_ord_id => left <= f.leaves_qty
          BY <2>0, <2>2, <2>7
        <4> QED BY <2>2, <2>3, <2>4, <3>1, <4>1
      <3>2. CASE p \in working \ {o}
        BY <2>0, <2>3, <3>2
      <3> QED BY <2>5, <3>1, <3>2
    <2> QED BY <1>0, <2>0, <2>3, <2>5, <2>6, <2>8, <2>9, <2>10, OneMoreReport
  <1>4. CASE Stray
    BY <1>4 DEF Stray, ReportsNamed
  <1> QED BY <1>2, <1>3, <1>4 DEF Market

\* The strategy takes a report.  If it frees the slot, it was the last one on
\* that order, since it leaves nothing.
LEMMA PopExecReports ==
  ASSUME TypeOK, ReportsInv, PopExec, UNCHANGED <<fixapp, wire, working, process>>
  PROVE  ReportsInv'
  <1> DEFINE e == execRing[1]
  <1>0. /\ execRing # <<>> /\ execRing' = Tail(execRing) /\ oms' = on_exec(oms, e)
        /\ UNCHANGED <<from_exch, to_exch, ordRing, sent_cmd, working>>
    <2>1. execRing \in Seq(ExecEvent) /\ execRing # <<>>
      BY CoreTypes DEF PopExec
    <2>2. Head(execRing) = e
      BY <2>1, TailFacts
    <2> QED BY <2>1, <2>2 DEF PopExec, fixapp, wire
  <1>1. /\ Reports' \subseteq Reports /\ e \in Reports /\ LeavesFall'
        /\ \A f \in Reports' : LeavesLess(e, f)
    BY <1>0, ReportsByPop DEF ReportsInv
  <1>2. Sent' = Sent
    BY <1>0 DEF Sent
  <1>3. e \in ExecEvent /\ \A f \in Reports : f.leaves_qty \in Nat
    BY <1>1, FlightTypes DEF ExecEvent
  <1> HIDE DEF e
  <1>4. \A f \in Reports' : f.cl_ord_id = e.cl_ord_id => e.kind \notin Terminal
    <2> SUFFICES ASSUME NEW f \in Reports', f.cl_ord_id = e.cl_ord_id,
                        e.kind \in Terminal
                 PROVE  FALSE
      OBVIOUS
    <2>1. f.leaves_qty < e.leaves_qty
      BY <1>1 DEF LeavesLess
    <2>2. e.leaves_qty = 0
      BY <1>1 DEF ReportsInv, LeavesBounded
    <2> QED BY <1>1, <1>3, <2>1, <2>2
  <1>5. ASSUME NEW s \in Syms, NEW d \in Sides,
               oms[s][d].cl_ord_id # e.cl_ord_id \/ e.kind \notin Terminal
        PROVE  oms'[s][d].cl_ord_id = oms[s][d].cl_ord_id
    <2>1. oms \in [Syms -> [Sides -> Quote]] /\ e.symbol_id \in Syms
      BY <1>3, CoreTypes DEF ExecEvent
    <2>2. oms'[s][d] = IF s = e.symbol_id /\ matches(oms, e, d)
                       THEN slot_after(oms[s][d], e) ELSE oms[s][d]
      BY <1>0, <2>1 DEF on_exec
    <2>3. CASE s = e.symbol_id /\ matches(oms, e, d)
      <3>1. e.kind \notin Terminal
        BY <1>5, <2>3 DEF matches
      <3>2. oms[s][d] \in Quote
        BY <2>1
      <3>3. slot_after(oms[s][d], e).cl_ord_id = oms[s][d].cl_ord_id
        BY <3>1, <3>2 DEF slot_after, Quote
      <3> QED BY <2>2, <2>3, <3>3
    <2> QED BY <2>2, <2>3
  <1>6. LeavesBounded'
    BY <1>0, <1>1, <1>2 DEF ReportsInv, LeavesBounded
  <1>7. ASSUME NEW f \in Reports'
        PROVE  /\ f.cl_ord_id # 0
               /\ \E s \in Syms, d \in Sides : oms'[s][d].cl_ord_id = f.cl_ord_id
    <2>1. PICK s \in Syms, d \in Sides : oms[s][d].cl_ord_id = f.cl_ord_id
      BY <1>1 DEF ReportsInv, Awaited
    <2>2. f.cl_ord_id # 0
      BY <1>1 DEF ReportsInv, Awaited
    <2>3. oms'[s][d].cl_ord_id = oms[s][d].cl_ord_id
      BY <1>4, <1>5, <2>1
    <2> QED BY <2>1, <2>2, <2>3
  <1> QED BY <1>1, <1>6, <1>7 DEF ReportsInv, Awaited

\* The strategy places an order of the configured quantity in a free slot,
\* for which no report can be waiting, or keeps the id of the slot.
LEMMA ActReports ==
  ASSUME TypeOK, IdFacts, ReportsInv, NEW side \in Sides, NEW px \in Int, act(side, px),
         UNCHANGED <<sent_cmd, to_exch, from_exch, execRing, working>>
  PROVE  ReportsInv'
  <1>1. Reports' = Reports
    BY DEF Reports, IsReport, exec_event, exec_kind
  <1>2. LeavesFall'
    BY DEF ReportsInv, LeavesFall, IsReport, exec_event, exec_kind
  <1>3. CASE UNCHANGED <<oms, ordRing>>
    <2>1. Sent' = Sent
      BY <1>3 DEF Sent
    <2> QED BY <1>1, <1>2, <1>3, <2>1, FewerReports
  <1>4. ASSUME NEW c \in OrderCmd, NEW quote \in Quote,
               ordRing' = Append(ordRing, c),
               oms' = [oms EXCEPT ![c.symbol_id][c.side] = quote],
               \/ c.type = "New" /\ c.qty = order_qty
                    /\ oms[c.symbol_id][c.side].state = "None"
               \/ c.type = "Cancel"
                    /\ quote.cl_ord_id = oms[c.symbol_id][c.side].cl_ord_id
        PROVE  ReportsInv'
    <2>1. /\ c.symbol_id \in Syms /\ c.side \in Sides
          /\ oms \in [Syms -> [Sides -> Quote]]
      BY CoreTypes DEF OrderCmd
    <2>2. Sent' = Sent \cup {fix_message(c)}
      BY <1>4, SentByEmit
    <2>3. fix_message(c).MsgType = "D" => fix_message(c).OrderQty \in 1 .. order_qty
      <3>1. c.type = "Cancel" => fix_message(c).MsgType = "F"
        BY DEF fix_message
      <3>2. c.type = "New" => c.qty = order_qty /\ fix_message(c).OrderQty = c.qty
        BY <1>4 DEF fix_message
      <3>3. order_qty \in Nat \ {0}
        BY ConfigAssumption
      <3> QED BY <1>4, <3>1, <3>2, <3>3
    <2>4. LeavesBounded'
      BY <1>1, <2>2, <2>3 DEF ReportsInv, LeavesBounded
    <2>5. ASSUME NEW s \in Syms, NEW d \in Sides, oms[s][d].cl_ord_id # 0
          PROVE  oms'[s][d].cl_ord_id = oms[s][d].cl_ord_id
      <3>1. CASE s = c.symbol_id /\ d = c.side
        <4>1. oms[s][d].state # "None"
          BY <2>5 DEF IdFacts
        <4> QED BY <1>4, <2>1, <3>1, <4>1
      <3>2. CASE s # c.symbol_id \/ d # c.side
        BY <1>4, <2>1, <3>2
      <3> QED BY <3>1, <3>2
    <2>6. Awaited'
      <3> SUFFICES ASSUME NEW f \in Reports
                   PROVE  /\ f.cl_ord_id # 0
                          /\ \E s \in Syms, d \in Sides :
                               oms'[s][d].cl_ord_id = f.cl_ord_id
        BY <1>1 DEF Awaited
      <3>1. PICK s \in Syms, d \in Sides : oms[s][d].cl_ord_id = f.cl_ord_id
        BY DEF ReportsInv, Awaited
      <3>2. f.cl_ord_id # 0
        BY DEF ReportsInv, Awaited
      <3> QED BY <2>5, <3>1, <3>2
    <2> QED BY <1>2, <2>4, <2>6 DEF ReportsInv
  <1> QED BY <1>3, <1>4, ActSlots

\* The strategy thread.
LEMMA StrategyReports ==
  ASSUME TypeOK, IdFacts, ReportsInv, Strategy
  PROVE  ReportsInv'
  <1>0. StrategyStep /\ UNCHANGED <<fixapp, wire, working, process>>
    BY DEF Strategy
  <1>1. UNCHANGED <<sent_cmd, to_exch, from_exch, working>>
    BY <1>0 DEF fixapp, wire
  <1>2. CASE PopExec
    BY <1>0, <1>2, PopExecReports
  <1>3. CASE ActBuy \/ ActSell
    <2>1. plan.bid \in Int /\ plan.ask \in Int /\ "Buy" \in Sides /\ "Sell" \in Sides
      BY DEF TypeOK, MarketMakerTypeOK, Plan, Sides
    <2>2. UNCHANGED execRing /\ (act("Buy", plan.bid) \/ act("Sell", plan.ask))
      BY <1>3 DEF ActBuy, ActSell
    <2> QED BY <1>1, <2>1, <2>2, ActReports
  <1>4. CASE ExecDrained \/ MdEmpty \/ SnapshotDue \/ SnapshotNotDue \/ PushSnapshot \/ PopMd
    <2>1. UNCHANGED <<oms, ordRing, execRing>>
      BY <1>4 DEF ExecDrained, MdEmpty, SnapshotDue, SnapshotNotDue, PushSnapshot,
                  PopMd, rings
    <2> QED BY <1>1, <2>1, QueuesStutter, FewerReports DEF ReportsInv
  <1> QED BY <1>0, <1>2, <1>3, <1>4 DEF StrategyStep

\* The reader thread: a full ring drops the report.
LEMMA ReaderReports ==
  ASSUME TypeOK, ReportsInv, Reader
  PROVE  ReportsInv'
  <1>0. ReaderStep /\ UNCHANGED <<oms, working>>
    BY DEF Reader, strategy
  <1>1. CASE FromApp
    <2>1. UNCHANGED <<ordRing, sent_cmd, to_exch>>
      BY <1>1 DEF FromApp, fixapp
    <2>2. Sent' = Sent
      BY <2>1 DEF Sent
    <2>3. Reports' \subseteq Reports /\ LeavesFall'
      BY <1>1, ReportsByReader DEF ReportsInv
    <2> QED BY <1>0, <2>2, <2>3, FewerReports
  <1>2. CASE (\E w \in Snapshots : OnMarketData(w)) \/ OnLogon \/ OnLogout
    <2>1. UNCHANGED <<ordRing, sent_cmd, to_exch, from_exch, execRing>>
      BY <1>2 DEF OnMarketData, OnLogon, OnLogout, fixapp, rings, wire
    <2> QED BY <1>0, <2>1, QueuesStutter, FewerReports DEF ReportsInv
  <1> QED BY <1>0, <1>1, <1>2 DEF ReaderStep

\* The sender thread: what it cannot send is gone.
LEMMA SenderReports ==
  ASSUME TypeOK, OrderIdsInv, ReportsInv, Sender
  PROVE  ReportsInv'
  <1>0. SenderStep /\ UNCHANGED <<oms, working>>
    BY DEF Sender, strategy
  <1>1. UNCHANGED <<execRing, from_exch>>
    BY <1>0 DEF SenderStep, SenderPop, SenderSend, rings, wire
  <1>2. Reports' = Reports /\ LeavesFall'
    BY <1>1 DEF Reports, ReportsInv, LeavesFall, IsReport, exec_event, exec_kind
  <1>3. Sent' \subseteq Sent
    <2>1. CASE SenderPop
      BY <2>1, SentByPop
    <2>2. CASE SenderSend /\ logged_on /\ session_up
      BY <2>2, SentBySend
    <2>3. CASE SenderSend /\ ~(logged_on /\ session_up)
      <3>1. ordRing' = ordRing /\ to_exch' = to_exch /\ sent_cmd' = NoCmd
        BY <2>3 DEF SenderSend, sendToTarget, rings
      <3> QED BY <3>1 DEF Sent
    <2> QED BY <1>0, <2>1, <2>2, <2>3 DEF SenderStep
  <1> QED BY <1>0, <1>2, <1>3, FewerReports

\* The session goes down: every report on the wire is lost, and some messages.
LEMMA DisconnectReports ==
  ASSUME TypeOK, ReportsInv, Network
  PROVE  ReportsInv'
  <1>0. /\ UNCHANGED <<oms, working, execRing, ordRing, sent_cmd>> /\ from_exch' = <<>>
    BY DEF Network, Disconnect, strategy, rings, fixapp
  <1>1. PICK n \in 0 .. Len(to_exch) : to_exch' = SubSeq(to_exch, 1, n)
    BY DEF Network, Disconnect
  <1>2. to_exch \in Seq(OrderMessage) /\ Len(to_exch) \in Nat
    BY CoreTypes
  <1>3. /\ Len(to_exch') = n
        /\ \A k \in 1 .. n : to_exch'[k] = to_exch[k] /\ k \in 1 .. Len(to_exch)
    BY <1>1, <1>2
  <1>4. Sent' \subseteq Sent
    <2>1. {to_exch'[k] : k \in 1 .. Len(to_exch')} \subseteq
            {to_exch[k] : k \in 1 .. Len(to_exch)}
      BY <1>3
    <2> QED BY <1>0, <2>1 DEF Sent
  <1>5. Len(from_exch') = 0
    BY <1>0
  <1>6. Reports' \subseteq Reports
    BY <1>0, <1>5 DEF Reports
  <1>7. LeavesFall'
    BY <1>0, <1>5 DEF ReportsInv, LeavesFall
  <1> QED BY <1>0, <1>4, <1>6, <1>7, FewerReports

\* Every step keeps what is known of the reports.
LEMMA NextReports ==
  ASSUME ReportsNamed, TypeOK, OrderIdsInv, SlotsInv, first_id = 1, ReportsInv,
         [Next]_vars
  PROVE  ReportsInv'
  <1>0. IdFacts
    BY IdsInFlight
  <1>1. CASE Strategy
    BY <1>0, <1>1, StrategyReports
  <1>2. CASE Reader
    BY <1>2, ReaderReports
  <1>3. CASE Sender
    BY <1>3, SenderReports
  <1>4. CASE Network
    BY <1>4, DisconnectReports
  <1>5. CASE VenueAnswers
    BY <1>0, <1>5, AnswerReports DEF VenueAnswers
  <1>6. CASE VenueTrades
    BY <1>0, <1>6, MarketReports DEF VenueTrades
  <1>7. CASE Persister \/ UNCHANGED vars
    <2>1. UNCHANGED <<oms, working, ordRing, sent_cmd, to_exch, from_exch, execRing>>
      BY <1>7 DEF Persister, TakeSnapshot, TakeTrade, vars, strategy, rings, fixapp, wire
    <2> QED BY <2>1, QueuesStutter, FewerReports DEF ReportsInv
  <1>8. CASE Restart
    <2>1. restarts \in 0 .. 0
      BY DEF TypeOK, ReportsNamed
    <2> QED BY <1>8, <2>1 DEF Restart, ReportsNamed
  <1> QED BY <1>1, <1>2, <1>3, <1>4, <1>5, <1>6, <1>7, <1>8 DEF Next

\* Without restarts the ids start from 1 and stay those of the only process.
LEMMA FirstProcess ==
  ASSUME MaxRestarts = 0
  PROVE  Spec => [](first_id = 1)
  <1>1. Init => first_id = 1
    BY DEF Init, MarketMakerInit
  <1>2. TypeOK /\ first_id = 1 /\ [Next]_vars => (first_id = 1)'
    <2> SUFFICES ASSUME TypeOK, first_id = 1, [Next]_vars PROVE first_id' = 1
      OBVIOUS
    <2>1. restarts \in 0 .. 0
      BY DEF TypeOK
    <2>2. ~Restart
      BY <2>1 DEF Restart
    <2> QED BY <2>2 DEF Next, vars, process, Strategy, Reader, Sender, Network,
                        VenueAnswers, VenueTrades, Persister
  <1> QED BY <1>1, <1>2, TypeCorrect, PTL DEF Spec
-----------------------------------------------------------------------------
(* Counting them: no two waiting reports have both slot and leaves_qty in  *)
(* common.                                                                 *)

\* The reports on the wire, by position.
Incoming == {k \in 1 .. Len(from_exch) : IsReport(from_exch[k])}

\* All that wait, in their order: those in the ring before those on the wire.
Waiting == (1 - Len(execRing) .. 0) \cup Incoming

WaitingReport(i) ==
  IF i <= 0 THEN execRing[i + Len(execRing)] ELSE exec_event(from_exch[i])

\* A slot that holds the id.
Slot(id) == CHOOSE p \in Syms \X Sides : oms[p[1]][p[2]].cl_ord_id = id

\* What can tell two waiting reports apart.
Labels == (Syms \X Sides) \X (0 .. order_qty)

\* There are as many of them as the bound says.
LEMMA LabelCount ==
  IsFiniteSet(Labels) /\ Cardinality(Labels) = 2 * NSyms * (order_qty + 1)
  <1>1. NSyms \in Nat \ {0} /\ order_qty \in Nat \ {0}
    BY NSymsAssumption, ConfigAssumption
  <1>2. IsFiniteSet(Syms) /\ Cardinality(Syms) = NSyms
    <2>1. IsFiniteSet(0 .. NSyms - 1) /\ Cardinality(0 .. NSyms - 1) = NSyms - 1 - 0 + 1
      BY <1>1, FS_Interval
    <2> QED BY <1>1, <2>1 DEF Syms
  <1>3. IsFiniteSet(Sides) /\ Cardinality(Sides) = 2
    <2>1. IsFiniteSet({"Buy"}) /\ Cardinality({"Buy"}) = 1
      BY FS_Singleton
    <2>2. /\ IsFiniteSet({"Buy"} \cup {"Sell"})
          /\ Cardinality({"Buy"} \cup {"Sell"}) = Cardinality({"Buy"}) + 1
      <3>1. "Sell" \notin {"Buy"}
        OBVIOUS
      <3> QED BY <2>1, <3>1, FS_AddElement
    <2>3. Sides = {"Buy"} \cup {"Sell"}
      BY DEF Sides
    <2> QED BY <2>1, <2>2, <2>3
  <1>4. IsFiniteSet(0 .. order_qty) /\ Cardinality(0 .. order_qty) = order_qty + 1
    <2>1. IsFiniteSet(0 .. order_qty) /\ Cardinality(0 .. order_qty) = order_qty - 0 + 1
      BY <1>1, FS_Interval
    <2> QED BY <1>1, <2>1
  <1>5. IsFiniteSet(Syms \X Sides) /\ Cardinality(Syms \X Sides) = 2 * NSyms
    <2>1. IsFiniteSet(Syms \X Sides) /\ Cardinality(Syms \X Sides) = NSyms * 2
      BY <1>2, <1>3, FS_Product
    <2> QED BY <1>1, <2>1
  <1> DEFINE slots == Syms \X Sides
             lots == 0 .. order_qty
  <1>6. /\ IsFiniteSet(slots) /\ IsFiniteSet(lots)
        /\ Cardinality(slots) = 2 * NSyms /\ Cardinality(lots) = order_qty + 1
    BY <1>4, <1>5
  <1>7. Labels = slots \X lots
    BY DEF Labels
  <1> HIDE DEF slots, lots
  <1>8. /\ IsFiniteSet(slots \X lots)
        /\ Cardinality(slots \X lots) = Cardinality(slots) * Cardinality(lots)
    BY <1>6, FS_Product
  <1> QED BY <1>6, <1>7, <1>8, Zenon

\* The waiting reports, counted.
LEMMA WaitingCount ==
  ASSUME TypeOK
  PROVE  /\ IsFiniteSet(Waiting)
         /\ Cardinality(Waiting) = Len(execRing) + Cardinality(Incoming)
  <1>1. Len(execRing) \in Nat /\ Len(from_exch) \in Nat
    BY CoreTypes
  <1> DEFINE ring == 1 - Len(execRing) .. 0
  <1>2. IsFiniteSet(ring) /\ Cardinality(ring) = Len(execRing)
    <2>0. 1 - Len(execRing) \in Int /\ 0 \in Int
      BY <1>1
    <2>1. /\ IsFiniteSet(ring)
          /\ Cardinality(ring) = IF 1 - Len(execRing) > 0 THEN 0
                                 ELSE 0 - (1 - Len(execRing)) + 1
      BY <2>0, FS_Interval
    <2> HIDE DEF ring
    <2> QED BY <1>1, <2>1
  <1>3. IsFiniteSet(Incoming) /\ Cardinality(Incoming) \in Nat
    <2>1. IsFiniteSet(1 .. Len(from_exch))
      BY <1>1, FS_Interval
    <2>2. Incoming \in SUBSET (1 .. Len(from_exch))
      BY DEF Incoming
    <2>3. IsFiniteSet(Incoming)
      BY <2>1, <2>2, FS_Subset
    <2> QED BY <2>3, FS_CardinalityType
  <1>4. ring \cap Incoming = {}
    BY <1>1 DEF Incoming
  <1> HIDE DEF ring
  <1>5. /\ IsFiniteSet(ring \cup Incoming)
        /\ Cardinality(ring \cup Incoming) =
             Cardinality(ring) + Cardinality(Incoming) - Cardinality(ring \cap Incoming)
    BY <1>2, <1>3, FS_Union
  <1>6. Cardinality(ring \cap Incoming) = 0
    BY <1>4, FS_EmptySet
  <1>7. Waiting = ring \cup Incoming
    BY DEF Waiting, ring
  <1> QED BY <1>1, <1>2, <1>3, <1>5, <1>6, <1>7

\* Each of them is a report, and of two on one order the later leaves less.
LEMMA WaitingOrdered ==
  ASSUME TypeOK, ReportsInv
  PROVE  /\ \A i \in Waiting : i \in Int /\ WaitingReport(i) \in Reports
         /\ \A i, j \in Waiting :
              i < j => LeavesLess(WaitingReport(i), WaitingReport(j))
  <1>1. Len(execRing) \in Nat /\ Len(from_exch) \in Nat
    BY CoreTypes
  <1>2. ASSUME NEW i \in Waiting, i <= 0
        PROVE  /\ i \in Int /\ i + Len(execRing) \in 1 .. Len(execRing)
               /\ WaitingReport(i) = execRing[i + Len(execRing)]
    BY <1>1, <1>2 DEF Waiting, Incoming, WaitingReport
  <1>3. ASSUME NEW i \in Waiting, ~(i <= 0)
        PROVE  /\ i \in Int /\ i \in 1 .. Len(from_exch) /\ IsReport(from_exch[i])
               /\ WaitingReport(i) = exec_event(from_exch[i])
    BY <1>1, <1>3 DEF Waiting, Incoming, WaitingReport
  <1>4. \A i \in Waiting : i \in Int /\ WaitingReport(i) \in Reports
    BY <1>2, <1>3 DEF Reports
  <1>5. ASSUME NEW i \in Waiting, NEW j \in Waiting, i < j
        PROVE  LeavesLess(WaitingReport(i), WaitingReport(j))
    <2>0. i \in Int /\ j \in Int
      BY <1>4
    <2>1. CASE i <= 0 /\ j <= 0
      <3>1. i + Len(execRing) < j + Len(execRing)
        BY <1>1, <1>5, <2>0
      <3> QED BY <1>2, <2>1, <3>1 DEF ReportsInv, LeavesFall
    <2>2. CASE i <= 0 /\ ~(j <= 0)
      BY <1>2, <1>3, <2>2 DEF ReportsInv, LeavesFall
    <2>3. CASE ~(i <= 0) /\ ~(j <= 0)
      BY <1>3, <1>5, <2>3 DEF ReportsInv, LeavesFall
    <2> QED BY <1>5, <2>0, <2>1, <2>2, <2>3
  <1> QED BY <1>4, <1>5

\* The slot and the quantity left tell waiting reports apart, so there are no
\* more of them than labels.
LEMMA WaitingFits ==
  ASSUME TypeOK, ReportsInv
  PROVE  ReportsFit
  <1> DEFINE id(i) == WaitingReport(i).cl_ord_id
             left(i) == WaitingReport(i).leaves_qty
             f == [i \in Waiting |-> <<Slot(id(i)), left(i)>>]
  <1>1. ASSUME NEW i \in Waiting
        PROVE  /\ i \in Int /\ left(i) \in Nat /\ left(i) \in 0 .. order_qty
               /\ Slot(id(i)) \in Syms \X Sides
               /\ oms[Slot(id(i))[1]][Slot(id(i))[2]].cl_ord_id = id(i)
    <2>1. i \in Int /\ WaitingReport(i) \in Reports
      BY WaitingOrdered
    <2>2. left(i) \in Nat /\ left(i) <= order_qty /\ order_qty \in Nat
      BY <2>1, FlightTypes, ConfigAssumption DEF ReportsInv, LeavesBounded, ExecEvent
    <2>3. PICK s \in Syms, d \in Sides : oms[s][d].cl_ord_id = id(i)
      BY <2>1 DEF ReportsInv, Awaited
    <2> HIDE DEF id, left
    <2>4. \E p \in Syms \X Sides : oms[p[1]][p[2]].cl_ord_id = id(i)
      <3>1. <<s, d>> \in Syms \X Sides /\ <<s, d>>[1] = s /\ <<s, d>>[2] = d
        OBVIOUS
      <3> QED BY <2>3, <3>1
    <2>5. /\ Slot(id(i)) \in Syms \X Sides
          /\ oms[Slot(id(i))[1]][Slot(id(i))[2]].cl_ord_id = id(i)
      BY <2>4 DEF Slot
    <2> QED BY <2>1, <2>2, <2>5
  <1>2. \A i, j \in Waiting : i < j /\ id(i) = id(j) => left(j) < left(i)
    BY WaitingOrdered DEF LeavesLess
  <1> HIDE DEF id, left
  <1>3. f \in [Waiting -> Labels]
    BY <1>1 DEF Labels
  <1>4. ASSUME NEW i \in Waiting, NEW j \in Waiting, f[i] = f[j]
        PROVE  i = j
    <2>1. Slot(id(i)) = Slot(id(j)) /\ left(i) = left(j)
      BY <1>4
    <2>2. id(i) = id(j)
      BY <1>1, <2>1
    <2>3. ~(i < j) /\ ~(j < i)
      <3>1. left(i) \in Nat /\ left(j) \in Nat
        BY <1>1
      <3> QED BY <1>2, <2>1, <2>2, <3>1
    <2> QED BY <1>1, <2>3
  <1>5. f \in Injection(Waiting, Labels)
    BY <1>3, <1>4 DEF Injection, IsInjective
  <1> HIDE DEF f
  <1>6. Cardinality(Waiting) <= Cardinality(Labels)
    BY <1>5, LabelCount, FS_Injection
  <1>7. Incoming = {k \in 1 .. Len(from_exch) : from_exch[k].MsgType = "8"}
    BY DEF Incoming, IsReport
  <1> QED BY <1>6, <1>7, LabelCount, WaitingCount DEF ReportsFit
-----------------------------------------------------------------------------
(* The theorems.                                                           *)

\* Before the first logon there is nothing to agree on.
LEMMA InitAgrees == Init => AgreeInv
  <1> SUFFICES ASSUME Init PROVE AgreeInv
    OBVIOUS
  <1>1. /\ ordRing = <<>> /\ to_exch = <<>> /\ from_exch = <<>> /\ mdRing = <<>>
        /\ execRing = <<>> /\ sent_cmd = NoCmd /\ first_id = 1 /\ spc = "exec"
        /\ logged_on = FALSE /\ session_up = FALSE /\ working = {}
        /\ oms = [x \in Syms |-> [y \in Sides |-> NoQuote]]
    BY DEF Init, RingsInit, MarketMakerInit, WireInit, FixAppInit, ExchangeInit
  <1>2. Len(ordRing) = 0 /\ Len(to_exch) = 0 /\ Len(from_exch) = 0 /\ Len(execRing) = 0
    BY <1>1
  <1>3. Sent = {} /\ Reports = {}
    BY <1>1, <1>2 DEF Sent, Reports
  <1>4. \A x \in Syms, y \in Sides : oms[x][y].cl_ord_id = 0 /\ oms[x][y].state = "None"
    BY <1>1 DEF NoQuote
  <1>5. Connected
    BY <1>1, <1>3 DEF Connected
  <1>6. ReportsFindSlot /\ TermsKept /\ LeavesReported
    BY <1>1, <1>3, <1>4 DEF ReportsFindSlot, TermsKept, LeavesReported
  <1>7. AnswersComing
    BY <1>4 DEF AnswersComing, AnswerComes
  <1> QED BY <1>5, <1>6, <1>7 DEF AgreeInv

\* Every step of a session without losses keeps what differs on its way.
LEMMA NextAgrees ==
  ASSUME NothingLost, TypeOK, OrderIdsInv, SlotsInv, LeavesFall, AgreeInv,
         RoomForReport, [Next]_vars
  PROVE  AgreeInv'
  <1>0. IdFacts
    BY IdsInFlight DEF AgreeInv, Connected
  <1>1. CASE Strategy
    BY <1>0, <1>1, StrategyAgrees
  <1>2. CASE Reader
    BY <1>2, ReaderAgrees
  <1>3. CASE Sender
    BY <1>3, SenderAgrees
  <1>4. CASE Network
    <2>1. logouts \in 0 .. 0
      BY DEF TypeOK, WireTypeOK, NothingLost
    <2> QED BY <1>4, <2>1 DEF Network, Disconnect, NothingLost
  <1>5. CASE VenueAnswers
    BY <1>0, <1>5, AnswerAgrees DEF VenueAnswers
  <1>6. CASE VenueTrades
    BY <1>0, <1>6, MarketAgrees DEF VenueTrades
  <1>7. CASE Persister \/ UNCHANGED vars
    <2>1. UNCHANGED <<oms, spc, working, ordRing, sent_cmd, to_exch, from_exch, execRing,
                      mdRing, first_id, logged_on, session_up>>
      BY <1>7 DEF Persister, TakeSnapshot, TakeTrade, vars, strategy, rings, fixapp,
                  wire, process
    <2>2. Sent' = Sent
      BY <2>1 DEF Sent
    <2>3. Connected'
      BY <2>1, <2>2, ConnectedStutter DEF AgreeInv
    <2> QED BY <2>1, <2>3, AgreeStutter
  <1>8. CASE Restart
    <2>1. restarts \in 0 .. 0
      BY DEF TypeOK, NothingLost
    <2> QED BY <1>8, <2>1 DEF Restart, NothingLost
  <1> QED BY <1>1, <1>2, <1>3, <1>4, <1>5, <1>6, <1>7, <1>8 DEF Next

\* With nothing on its way there is nothing left for slot and order to differ by.
LEMMA QuietAgrees ==
  ASSUME TypeOK, IdFacts, AgreeInv
  PROVE  AgreeWhenQuiet
  <1> SUFFICES ASSUME Quiet, NEW sym \in Syms, NEW side \in Sides
      PROVE  LET quote == oms[sym][side]
                 resting == {o \in working : o.symbol_id = sym /\ o.side = side}
             IN \/ quote.state = "None" /\ resting = {}
                \/ /\ quote.state = "Live"
                   /\ resting = {[cl_ord_id |-> quote.cl_ord_id, symbol_id |-> sym,
                                  side |-> side, price |-> quote.price,
                                  leaves |-> quote.qty]}
    BY DEF AgreeWhenQuiet
  <1> DEFINE quote == oms[sym][side]
             order == [cl_ord_id |-> quote.cl_ord_id, symbol_id |-> sym, side |-> side,
                       price |-> quote.price, leaves |-> quote.qty]
  <1>1. Sent = {} /\ Reports = {}
    BY DEF Quiet, Sent, Reports
  <1>2. quote.state \in QuoteStates
    BY CoreTypes DEF Quote
  <1>3. ASSUME NEW o \in working, o.symbol_id = sym, o.side = side
        PROVE  quote.state # "None" /\ o = order
    <2>1. /\ o = [cl_ord_id |-> o.cl_ord_id, symbol_id |-> o.symbol_id, side |-> o.side,
                  price |-> o.price, leaves |-> o.leaves]
      BY CoreTypes DEF Order
    <2>2. quote.cl_ord_id = o.cl_ord_id /\ quote.state # "None"
      BY <1>3 DEF IdFacts, Holds
    <2>3. o.price = quote.price
      BY <1>3 DEF AgreeInv, TermsKept
    <2>4. o.leaves = quote.qty
      BY <1>1, <1>3 DEF AgreeInv, LeavesReported
    <2> QED BY <1>3, <2>1, <2>2, <2>3, <2>4
  <1>4. AnswerComes(quote, sym, side, {}, working, {})
    BY <1>1 DEF AgreeInv, AnswersComing
  <1>5. CASE quote.state = "None"
    BY <1>3, <1>5
  <1>6. CASE quote.state # "None"
    <2>1. quote.state = "Live"
      BY <1>2, <1>4, <1>6 DEF AnswerComes, Requested, Reported, QuoteStates
    <2>2. PICK o \in working : o.symbol_id = sym /\ o.side = side
      BY <1>4, <1>6 DEF AnswerComes, Requested, Reported, Rests
    <2>3. order \in working /\ order.symbol_id = sym /\ order.side = side
      BY <1>3, <2>2
    <2> QED BY <1>3, <2>1, <2>3
  <1> QED BY <1>5, <1>6

\* The capacity of ExecRing that ReportsFit calls for.
RingIsLarge == ExecCap >= 2 * NSyms * (order_qty + 1)

\* With as many places as reports can wait, the ring takes every report.
LEMMA RingTakesReports ==
  ASSUME RingIsLarge, TypeOK, ReportsFit
  PROVE  RoomForReport
  <1> SUFFICES ASSUME from_exch # <<>>, IsReport(Head(from_exch))
               PROVE  Len(execRing) < ExecCap
    BY DEF RoomForReport
  <1>1. Len(execRing) \in Nat /\ from_exch \in Seq(ReportMessage) /\ ExecCap \in Nat
    BY CoreTypes, CapAssumption
  <1>2. 1 \in Incoming
    <2>1. 1 \in 1 .. Len(from_exch) /\ Head(from_exch) = from_exch[1]
      BY <1>1, TailFacts
    <2> QED BY <2>1 DEF Incoming
  <1>3. IsFiniteSet(Incoming)
    <2>1. Len(from_exch) \in Nat
      BY <1>1
    <2>2. IsFiniteSet(1 .. Len(from_exch))
      BY <2>1, FS_Interval
    <2>3. Incoming \in SUBSET (1 .. Len(from_exch))
      BY DEF Incoming
    <2> QED BY <2>2, <2>3, FS_Subset
  <1>4. Cardinality(Incoming) \in Nat /\ Cardinality(Incoming) # 0
    BY <1>2, <1>3, FS_CardinalityType, FS_EmptySet
  <1>5. Incoming = {k \in 1 .. Len(from_exch) : from_exch[k].MsgType = "8"}
    BY DEF Incoming, IsReport
  <1> DEFINE bound == 2 * NSyms * (order_qty + 1)
  <1>6. Len(execRing) + Cardinality(Incoming) <= bound /\ bound <= ExecCap /\ bound \in Nat
    BY <1>5, NSymsAssumption, ConfigAssumption DEF ReportsFit, RingIsLarge
  <1> HIDE DEF bound
  <1> QED BY <1>1, <1>4, <1>6

\* What is known of ids, slots and reports together, in the first process.
LEMMA InvariantsHold ==
  ASSUME ReportsNamed
  PROVE  Spec => [](TypeOK /\ OrderIdsInv /\ SlotsInv /\ first_id = 1 /\ ReportsInv)
  <1>1. "pending_status" \notin VenueMay /\ MaxRestarts = 0
    BY DEF ReportsNamed
  <1>2. Spec => [](TypeOK /\ OrderIdsInv /\ SlotsInv /\ first_id = 1)
    BY <1>1, TypeCorrect, OrderIdsAlways, SlotsAlways, FirstProcess, PTL
  <1>3. /\ TypeOK /\ OrderIdsInv /\ SlotsInv /\ first_id = 1 /\ ReportsInv
        /\ [Next]_vars
        => ReportsInv'
    BY NextReports
  <1> QED BY <1>2, <1>3, InitReports, PTL DEF Spec

\* Of two waiting reports on one order the second leaves less, none leaves
\* more than was quoted, and each is awaited by a slot, whatever disconnects,
\* full rings and refused cancels lose.
THEOREM ReportsAlways ==
  ASSUME ReportsNamed
  PROVE  Spec => []ReportsInv
  BY InvariantsHold, PTL

\* So the reports that wait for the strategy are at most order_qty + 1 for
\* each side of each symbol, however slow it is.
THEOREM ReportsAlwaysFit ==
  ASSUME ReportsNamed
  PROVE  Spec => []ReportsFit
  <1>1. TypeOK /\ ReportsInv => ReportsFit
    BY WaitingFits
  <1> QED BY <1>1, InvariantsHold, PTL

\* And a ring of that capacity drops no report.
THEOREM NoReportDropped ==
  ASSUME ReportsNamed, RingIsLarge
  PROVE  Spec => []RoomForReport
  <1>1. TypeOK /\ ReportsFit => RoomForReport
    BY RingTakesReports
  <1> QED BY <1>1, TypeCorrect, ReportsAlwaysFit, PTL

\* With a venue that reports what it does, a session that stays up and a ring
\* of that capacity, whatever slot and order differ by is on its way.
THEOREM AgreementAlways ==
  ASSUME NothingLost, RingIsLarge
  PROVE  Spec => []AgreeInv
  <1>1. ReportsNamed
    BY DEF NothingLost, ReportsNamed
  <1>2. Spec => [](TypeOK /\ OrderIdsInv /\ SlotsInv /\ LeavesFall /\ RoomForReport)
    <2>1. ReportsInv => LeavesFall
      BY DEF ReportsInv
    <2> QED BY <1>1, <2>1, InvariantsHold, NoReportDropped, PTL
  <1>3. /\ TypeOK /\ OrderIdsInv /\ SlotsInv /\ LeavesFall /\ AgreeInv
        /\ RoomForReport /\ [Next]_vars
        => AgreeInv'
    BY NextAgrees
  <1> QED BY <1>2, <1>3, InitAgrees, PTL DEF Spec

\* Then engine and venue agree on every slot whenever nothing is in flight:
\* same order, same price, same remaining quantity.
THEOREM AgreesWhenQuiet ==
  ASSUME NothingLost, RingIsLarge
  PROVE  Spec => []AgreeWhenQuiet
  <1>1. ReportsNamed
    BY DEF NothingLost, ReportsNamed
  <1>2. TypeOK /\ OrderIdsInv /\ SlotsInv /\ first_id = 1 /\ AgreeInv => AgreeWhenQuiet
    <2> SUFFICES ASSUME TypeOK, OrderIdsInv, SlotsInv, first_id = 1, AgreeInv
                 PROVE  AgreeWhenQuiet
      OBVIOUS
    <2>1. IdFacts
      BY IdsInFlight
    <2> QED BY <2>1, QuietAgrees
  <1> QED BY <1>1, <1>2, InvariantsHold, AgreementAlways, PTL
=============================================================================

-------------------------- MODULE EngineInvariant ---------------------------
(***************************************************************************)
(* The inductive invariants of the engine.  OrderIdsInv is behind          *)
(* OneWorkingOrder, NoOrphanOrder and CancelFollowsAck, SlotsInv on top of *)
(* it behind NoRepeatedCancel and SlotLifecycle, ReportsInv behind         *)
(* ReportsFit, and AgreeInv behind AgreeWhenQuiet.                         *)
(*                                                                         *)
(* Every command the strategy emits carries an id of its own; follow that  *)
(* id down the pipeline (ring, sender, wire), into the venue, and back in  *)
(* a report.                                                               *)
(***************************************************************************)
EXTENDS Engine

\* The ids of the commands emitted and not yet answered.
PipeIds ==
  {ordRing[k].cl_ord_id : k \in 1 .. Len(ordRing)}
    \cup {to_exch[k].ClOrdID : k \in 1 .. Len(to_exch)}
    \cup (IF sent_cmd # NoCmd THEN {sent_cmd.cl_ord_id} ELSE {})

\* Ids are drawn from a counter that is ahead of all of them, those of earlier
\* processes included; only a stray report carries none.
IdsKnown ==
  /\ \A k \in 1 .. Len(ordRing) : ordRing[k].cl_ord_id \in Drawn
  /\ sent_cmd # NoCmd => sent_cmd.cl_ord_id \in Drawn
  /\ \A k \in 1 .. Len(to_exch) : to_exch[k].ClOrdID \in Drawn
  /\ \A o \in working : o.cl_ord_id \in Drawn
  /\ \A k \in 1 .. Len(from_exch) : from_exch[k].ClOrdID \in Drawn \cup {0}
  /\ \A k \in 1 .. Len(execRing) : execRing[k].cl_ord_id \in Drawn \cup {0}
  /\ \A s \in Syms, d \in Sides : oms[s][d].cl_ord_id < next_id

\* No id is in two places of the pipeline.
PipeDistinct ==
  /\ \A j, k \in 1 .. Len(ordRing) :
       ordRing[j].cl_ord_id = ordRing[k].cl_ord_id => j = k
  /\ \A j, k \in 1 .. Len(to_exch) :
       to_exch[j].ClOrdID = to_exch[k].ClOrdID => j = k
  /\ \A j \in 1 .. Len(ordRing), k \in 1 .. Len(to_exch) :
       ordRing[j].cl_ord_id # to_exch[k].ClOrdID
  /\ sent_cmd # NoCmd =>
       /\ \A j \in 1 .. Len(ordRing) : ordRing[j].cl_ord_id # sent_cmd.cl_ord_id
       /\ \A k \in 1 .. Len(to_exch) : to_exch[k].ClOrdID # sent_cmd.cl_ord_id

\* What the venue has answered has left the pipeline.
Answered ==
  /\ \A o \in working : o.cl_ord_id \notin PipeIds
  /\ \A k \in 1 .. Len(from_exch) : from_exch[k].ClOrdID \notin PipeIds
  /\ \A k \in 1 .. Len(execRing) : execRing[k].cl_ord_id \notin PipeIds
  /\ \A s \in Syms, d \in Sides :
       oms[s][d].state \in {"Live", "PendingCancel"} =>
         oms[s][d].cl_ord_id \notin PipeIds

WorkingDistinct ==
  \A o, p \in working : o.cl_ord_id = p.cl_ord_id => o = p

\* A report that frees a slot is about an order that is gone.
TerminalIsGone ==
  /\ \A k \in 1 .. Len(from_exch) :
       from_exch[k].MsgType = "8" /\ exec_kind(from_exch[k]) \in Terminal =>
         \A o \in working : o.cl_ord_id # from_exch[k].ClOrdID
  /\ \A k \in 1 .. Len(execRing) :
       execRing[k].kind \in Terminal =>
         \A o \in working : o.cl_ord_id # execRing[k].cl_ord_id

\* The slot of an open order of this process holds its id.
Owns(id, sym, side) ==
  id >= first_id =>
    oms[sym][side].cl_ord_id = id /\ oms[sym][side].state # "None"

Owned ==
  /\ \A k \in 1 .. Len(ordRing) :
       ordRing[k].type = "New" =>
         Owns(ordRing[k].cl_ord_id, ordRing[k].symbol_id, ordRing[k].side)
  /\ sent_cmd # NoCmd /\ sent_cmd.type = "New" =>
       Owns(sent_cmd.cl_ord_id, sent_cmd.symbol_id, sent_cmd.side)
  /\ \A k \in 1 .. Len(to_exch) :
       to_exch[k].MsgType = "D" =>
         Owns(to_exch[k].ClOrdID, to_exch[k].Symbol, to_exch[k].Side)
  /\ \A o \in working : Owns(o.cl_ord_id, o.symbol_id, o.side)

\* A cancel under way names an order that has left the pipeline.
CancelsAnswered ==
  /\ \A k \in 1 .. Len(ordRing) :
       ordRing[k].type = "Cancel" =>
         /\ ordRing[k].orig_cl_ord_id \notin PipeIds
         /\ ordRing[k].orig_cl_ord_id < next_id
  /\ sent_cmd # NoCmd /\ sent_cmd.type = "Cancel" =>
         /\ sent_cmd.orig_cl_ord_id \notin PipeIds
         /\ sent_cmd.orig_cl_ord_id < next_id
  /\ \A k \in 1 .. Len(to_exch) :
       to_exch[k].MsgType = "F" =>
         /\ to_exch[k].OrigClOrdID \notin PipeIds
         /\ to_exch[k].OrigClOrdID < next_id

\* The life of an order id: the conjunction that the steps of the engine
\* preserve (market_maker.hpp:107-147 draws and forgets ids,
\* order_manager.hpp:26-47 matches them, main.cpp:215-219 moves them).
OrderIdsInv ==
  /\ IdsKnown
  /\ PipeDistinct
  /\ Answered
  /\ WorkingDistinct
  /\ TerminalIsGone
  /\ Owned
  /\ CancelsAnswered
-----------------------------------------------------------------------------
(* What keeps a slot from going back: the acknowledgement that makes it    *)
(* Live comes once, and no other report does.  A slot holds the id 0 when  *)
(* it holds no order; stray reports, which carry that id, are set apart.   *)

\* A free slot holds no id, and a slot in use one of this process.
SlotIds ==
  /\ first_id <= next_id
  /\ \A s \in Syms, d \in Sides :
       /\ oms[s][d].state = "None" => oms[s][d].cl_ord_id = 0
       /\ oms[s][d].cl_ord_id # 0 => oms[s][d].cl_ord_id >= first_id

\* An execution report that on_exec will take for the acknowledgement.
IsAck(m) == m.MsgType = "8" /\ exec_kind(m) = "New" /\ m.ClOrdID # 0

IsAckEvent(e) == e.kind = "New" /\ e.cl_ord_id # 0

Unacknowledged(id) ==
  \A s \in Syms, d \in Sides :
    oms[s][d].cl_ord_id = id => oms[s][d].state = "PendingNew"

\* As long as an acknowledgement is on its way its slot waits for it.
AckPending ==
  /\ \A k \in 1 .. Len(from_exch) :
       IsAck(from_exch[k]) => Unacknowledged(from_exch[k].ClOrdID)
  /\ \A k \in 1 .. Len(execRing) :
       IsAckEvent(execRing[k]) => Unacknowledged(execRing[k].cl_ord_id)

\* No order is acknowledged twice.
AckOnce ==
  /\ \A j, k \in 1 .. Len(from_exch) :
       IsAck(from_exch[j]) /\ IsAck(from_exch[k])
         /\ from_exch[j].ClOrdID = from_exch[k].ClOrdID => j = k
  /\ \A j, k \in 1 .. Len(execRing) :
       IsAckEvent(execRing[j]) /\ IsAckEvent(execRing[k])
         /\ execRing[j].cl_ord_id = execRing[k].cl_ord_id => j = k
  /\ \A j \in 1 .. Len(from_exch), k \in 1 .. Len(execRing) :
       IsAck(from_exch[j]) /\ IsAckEvent(execRing[k]) =>
         from_exch[j].ClOrdID # execRing[k].cl_ord_id

BeingCancelled(id, sym, side) ==
  id # 0 /\ oms[sym][side].cl_ord_id = id =>
    oms[sym][side].state = "PendingCancel"

\* As long as a cancel is on its way the slot of its order waits.
CancelPending ==
  /\ \A k \in 1 .. Len(ordRing) :
       ordRing[k].type = "Cancel" =>
         BeingCancelled(ordRing[k].orig_cl_ord_id, ordRing[k].symbol_id,
                        ordRing[k].side)
  /\ sent_cmd # NoCmd /\ sent_cmd.type = "Cancel" =>
       BeingCancelled(sent_cmd.orig_cl_ord_id, sent_cmd.symbol_id, sent_cmd.side)
  /\ \A k \in 1 .. Len(to_exch) :
       to_exch[k].MsgType = "F" =>
         BeingCancelled(to_exch[k].OrigClOrdID, to_exch[k].Symbol,
                        to_exch[k].Side)

\* The life of a slot: it becomes Live once and PendingCancel once for each
\* order it holds (order_manager.hpp:26-47 against the order in which
\* market_maker.hpp:107-147 emits commands and fix_app.hpp:151-187 passes
\* reports on).
SlotsInv == SlotIds /\ AckPending /\ AckOnce /\ CancelPending
-----------------------------------------------------------------------------
(* How many reports can wait: each report of an order leaves less of it    *)
(* than the one before, and the slot of the order stays taken until the    *)
(* last of them is seen.                                                   *)

\* The messages that the engine has decided on and the venue has not taken.
Sent ==
  {fix_message(ordRing[k]) : k \in 1 .. Len(ordRing)}
    \cup (IF sent_cmd # NoCmd THEN {fix_message(sent_cmd)} ELSE {})
    \cup {to_exch[k] : k \in 1 .. Len(to_exch)}

\* The execution reports that the strategy has not seen, as it will see them.
IsReport(m) == m.MsgType = "8"

Reports ==
  {execRing[k] : k \in 1 .. Len(execRing)}
    \cup {exec_event(from_exch[k]) :
             k \in {i \in 1 .. Len(from_exch) : IsReport(from_exch[i])}}

\* Of two reports on one order the second leaves less.
LeavesLess(e, f) == e.cl_ord_id = f.cl_ord_id => f.leaves_qty < e.leaves_qty

\* The reports arrive in the order the venue sent them.
LeavesFall ==
  /\ \A j, k \in 1 .. Len(execRing) : j < k => LeavesLess(execRing[j], execRing[k])
  /\ \A j \in 1 .. Len(execRing), k \in 1 .. Len(from_exch) :
       IsReport(from_exch[k]) => LeavesLess(execRing[j], exec_event(from_exch[k]))
  /\ \A j, k \in 1 .. Len(from_exch) :
       IsReport(from_exch[j]) /\ IsReport(from_exch[k]) /\ j < k =>
         LeavesLess(exec_event(from_exch[j]), exec_event(from_exch[k]))

\* What orders and reports say is left is within the quantity the engine
\* quotes, at the venue no more than in the reports, and nothing at the end.
LeavesBounded ==
  /\ \A m \in Sent : m.MsgType = "D" => m.OrderQty \in 1 .. order_qty
  /\ \A o \in working :
       /\ o.leaves \in 1 .. order_qty
       /\ \A e \in Reports : e.cl_ord_id = o.cl_ord_id => o.leaves <= e.leaves_qty
  /\ \A e \in Reports :
       /\ e.leaves_qty <= order_qty
       /\ e.kind \in Terminal => e.leaves_qty = 0

\* A report is awaited by the slot of its order.
Awaited ==
  \A e \in Reports :
    /\ e.cl_ord_id # 0
    /\ \E s \in Syms, d \in Sides : oms[s][d].cl_ord_id = e.cl_ord_id

\* The reports on an order, from the acknowledgement to the end of it
\* (fix_app.hpp:151-187 passes them on, order_manager.hpp:26-47 takes them).
ReportsInv == LeavesFall /\ LeavesBounded /\ Awaited
-----------------------------------------------------------------------------
(* Why engine and venue agree once nothing is in flight, with a venue that *)
(* answers every request and a connection and a ring that lose nothing:    *)
(* whatever one of the two knows more than the other is on its way.        *)

\* The session is up from the first logon on, and before it nothing happens.
Connected ==
  /\ first_id = 1
  /\ logged_on = session_up
  /\ ~session_up => /\ mdRing = <<>> /\ spc \notin {"buy", "sell"}
                    /\ Sent = {} /\ working = {}

\* A report finds the slot that holds its id, if there still is one.
ReportsFindSlot ==
  /\ \A s, t \in Syms, c, d \in Sides :
       oms[s][c].cl_ord_id = oms[t][d].cl_ord_id /\ oms[s][c].cl_ord_id # 0 =>
         s = t /\ c = d
  /\ \A e \in Reports :
       /\ e.cl_ord_id # 0
       /\ \A s \in Syms, d \in Sides :
            oms[s][d].cl_ord_id = e.cl_ord_id => s = e.symbol_id

\* The slot holds the price of its order and, until the venue has the order,
\* its quantity.
TermsKept ==
  /\ \A m \in Sent : m.MsgType = "D" =>
       oms[m.Symbol][m.Side].price = m.Price /\ oms[m.Symbol][m.Side].qty = m.OrderQty
  /\ \A o \in working : oms[o.symbol_id][o.side].price = o.price

\* What is left of an order at the venue is what its slot says or will say
\* after the partial fills that are on their way.
LeavesReported ==
  /\ \A e \in Reports, s \in Syms, d \in Sides :
       e.kind = "PartFill" /\ oms[s][d].cl_ord_id = e.cl_ord_id =>
         e.leaves_qty <= oms[s][d].qty
  /\ \A o \in working :
       /\ \A e \in Reports :
            e.kind = "PartFill" /\ e.cl_ord_id = o.cl_ord_id =>
              o.leaves <= e.leaves_qty
       /\ \/ o.leaves = oms[o.symbol_id][o.side].qty
          \/ \E e \in Reports : /\ e.kind = "PartFill" /\ e.cl_ord_id = o.cl_ord_id
                                /\ e.leaves_qty = o.leaves

Requested(sent, t, id, sym, side) == \E m \in sent : MsgIs(m, t, id, sym, side)

Rests(orders, id, sym, side) ==
  \E o \in orders : o.cl_ord_id = id /\ o.symbol_id = sym /\ o.side = side

Reported(reports, id, kinds) == \E e \in reports : e.cl_ord_id = id /\ e.kind \in kinds

\* A slot in use has an order that is open or whose end is on its way; one
\* that waits has its request or the answer on its way.
AnswerComes(quote, sym, side, sent, orders, reports) ==
  LET id == quote.cl_ord_id
      ended == Reported(reports, id, Terminal)
  IN /\ quote.state # "None" =>
          Requested(sent, "New", id, sym, side) \/ Rests(orders, id, sym, side) \/ ended
     /\ quote.state = "PendingNew" =>
          \/ Requested(sent, "New", id, sym, side)
          \/ Reported(reports, id, {"New"}) \/ ended
     /\ quote.state = "PendingCancel" =>
          Requested(sent, "Cancel", id, sym, side) \/ ended

AnswersComing ==
  \A s \in Syms, d \in Sides : AnswerComes(oms[s][d], s, d, Sent, working, Reports)

\* Slot and order differ by what is on its way, and by nothing else: what the
\* steps of a session without losses preserve (order_manager.hpp:26-47,
\* market_maker.hpp:107-147, fix_app.hpp:151-187, main.cpp:215-219).
AgreeInv ==
  /\ Connected
  /\ ReportsFindSlot
  /\ TermsKept
  /\ LeavesReported
  /\ AnswersComing
=============================================================================

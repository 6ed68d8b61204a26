------------------------------ MODULE Exchange ------------------------------
(***************************************************************************)
(* The venue (external), as the engine's messages meet it: orders are      *)
(* accepted or rejected, cancels executed or refused, and a working order  *)
(* may trade in parts or go away by itself.  VenueMay says which of the    *)
(* behaviours FIX allows this venue shows; scripts/mock_exchange.py is a   *)
(* venue with "ack_request", "blind_ack" and "fill".                       *)
(***************************************************************************)
EXTENDS FixWire

CONSTANT VenueMay

Behaviours ==
  {"ack_orig",        \* a Canceled report carries the order's own ClOrdID
   "ack_request",     \* ... or the ClOrdID of the cancel request
   "blind_ack",       \* a cancel of an order that is gone is confirmed
   "refuse_gone",     \* ... or refused
   "reject_new",      \* an order may be refused
   "reject_cancel",   \* a cancel of a working order may be refused
   "fill",            \* a working order may trade
   "pending_status",  \* a trade ahead of a received cancel: PENDING_CANCEL
   "unsolicited",     \* the venue may cancel an order itself
   "expire",          \* a DAY order may expire
   "stray"}           \* reports of the account's orders from elsewhere, whose
                      \* ClOrdID is absent or not a number

ASSUME VenueAssumption == VenueMay \subseteq Behaviours

VARIABLE working      \* the engine's orders resting at the venue

Order == [cl_ord_id : Nat, symbol_id : Syms, side : Sides, price : Int,
          leaves : Nat]

ExchangeInit == working = {}

ExchangeTypeOK == working \in SUBSET Order

ReportOn(o, id, exec_type, status, leaves) ==
  [MsgType |-> "8", ClOrdID |-> id, ExecType |-> exec_type,
   OrdStatus |-> status, Side |-> o.side, Symbol |-> o.symbol_id,
   LeavesQty |-> leaves]

CancelReject(m) ==
  [MsgType |-> "9", ClOrdID |-> m.ClOrdID, ExecType |-> "REJECTED",
   OrdStatus |-> "REJECTED", Side |-> m.Side, Symbol |-> m.Symbol,
   LeavesQty |-> 0]

\* The order a NewOrderSingle describes.
OrderOf(m) ==
  [cl_ord_id |-> m.ClOrdID, symbol_id |-> m.Symbol, side |-> m.Side,
   price |-> m.Price, leaves |-> m.OrderQty]

Receive(type) ==
  /\ to_exch # <<>>
  /\ Head(to_exch).MsgType = type
  /\ to_exch' = Tail(to_exch)

sessionUnchanged == UNCHANGED <<session_up, subscribed, mdCount, logouts>>

AcceptNew ==
  /\ Receive("D")
  /\ LET o == OrderOf(Head(to_exch))
     IN /\ working' = working \cup {o}
        /\ report(ReportOn(o, o.cl_ord_id, "NEW", "NEW", o.leaves))
  /\ sessionUnchanged

RejectNew ==
  /\ "reject_new" \in VenueMay
  /\ Receive("D")
  /\ LET o == OrderOf(Head(to_exch))
     IN report(ReportOn(o, o.cl_ord_id, "REJECTED", "REJECTED", 0))
  /\ UNCHANGED working
  /\ sessionUnchanged

\* The id a Canceled report carries.
AckIds(m) ==
  (IF "ack_orig" \in VenueMay THEN {m.OrigClOrdID} ELSE {}) \cup
  (IF "ack_request" \in VenueMay THEN {m.ClOrdID} ELSE {})

ExecuteCancel ==
  /\ Receive("F")
  /\ LET m == Head(to_exch)
     IN \E o \in working, id \in AckIds(m) :
          /\ o.cl_ord_id = m.OrigClOrdID
          /\ working' = working \ {o}
          /\ report(ReportOn(o, id, "CANCELED", "CANCELED", 0))
  /\ sessionUnchanged

\* The order is gone, or the venue will not cancel it.
RefuseCancel ==
  /\ Receive("F")
  /\ LET m == Head(to_exch)
     IN /\ \/ /\ "refuse_gone" \in VenueMay
              /\ \A o \in working : o.cl_ord_id # m.OrigClOrdID
           \/ "reject_cancel" \in VenueMay
        /\ report(CancelReject(m))
  /\ UNCHANGED working
  /\ sessionUnchanged

\* mock_exchange.py keeps no orders: every cancel request is answered with a
\* Canceled report made from the request.
BlindAck ==
  /\ "blind_ack" \in VenueMay
  /\ Receive("F")
  /\ LET m == Head(to_exch)
     IN /\ \A o \in working : o.cl_ord_id # m.OrigClOrdID
        /\ report(ReportOn(OrderOf(m), m.ClOrdID, "CANCELED", "CANCELED", 0))
  /\ UNCHANGED working
  /\ sessionUnchanged

Fill(o) ==
  /\ "fill" \in VenueMay
  /\ working' = working \ {o}
  /\ report(ReportOn(o, o.cl_ord_id, "TRADE", "FILLED", 0))
  /\ UNCHANGED to_exch
  /\ sessionUnchanged

\* The venue has a cancel of this order in hand.
CancelReceived(o) ==
  /\ to_exch # <<>>
  /\ Head(to_exch).MsgType = "F"
  /\ Head(to_exch).OrigClOrdID = o.cl_ord_id

\* FIX lets the pending cancel take precedence in OrdStatus.
PartialStatuses(o) ==
  {"PARTIALLY_FILLED"} \cup
  (IF "pending_status" \in VenueMay /\ CancelReceived(o)
   THEN {"PENDING_CANCEL"} ELSE {})

PartialFill(o) ==
  /\ "fill" \in VenueMay
  /\ \E left \in 1 .. o.leaves - 1, status \in PartialStatuses(o) :
       /\ working' = (working \ {o}) \cup {[o EXCEPT !.leaves = left]}
       /\ report(ReportOn(o, o.cl_ord_id, "TRADE", status, left))
  /\ UNCHANGED to_exch
  /\ sessionUnchanged

GoAway(o, behaviour, exec_type) ==
  /\ behaviour \in VenueMay
  /\ working' = working \ {o}
  /\ report(ReportOn(o, o.cl_ord_id, exec_type, exec_type, 0))
  /\ UNCHANGED to_exch
  /\ sessionUnchanged

StrayKinds == {<<"NEW", "NEW">>, <<"TRADE", "PARTIALLY_FILLED">>,
               <<"CANCELED", "CANCELED">>}

\* A report about an order the engine did not send.  strtoull makes 0 of a
\* ClOrdID that is not a number, and an absent one stays 0.  The side of such
\* a report decides nothing: on_exec looks at the symbol and the id.
Stray ==
  /\ "stray" \in VenueMay
  /\ session_up /\ Len(from_exch) < StrayRoom
  /\ \E sym \in Syms, k \in StrayKinds :
       report([MsgType |-> "8", ClOrdID |-> 0, ExecType |-> k[1],
               OrdStatus |-> k[2], Side |-> "Buy", Symbol |-> sym,
               LeavesQty |-> 0])
  /\ UNCHANGED <<to_exch, working>>
  /\ sessionUnchanged

\* The venue answers the next message.
Answer == AcceptNew \/ RejectNew \/ ExecuteCancel \/ RefuseCancel \/ BlindAck

\* The market moves against a resting order, or someone else's order.
Market ==
  \/ \E o \in working :
       \/ Fill(o)
       \/ PartialFill(o)
       \/ GoAway(o, "unsolicited", "CANCELED")
       \/ GoAway(o, "expire", "EXPIRED")
  \/ Stray
=============================================================================

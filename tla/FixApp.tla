------------------------------- MODULE FixApp -------------------------------
(***************************************************************************)
(* src/fix/fix_app.hpp: the callbacks QuickFIX makes on its reader thread, *)
(* and the sender thread of src/main.cpp that pops commands and sends them.*)
(* logged_on_ is the only state the two share.                             *)
(***************************************************************************)
EXTENDS FixWire

CONSTANT Snapshots    \* the W messages the venue may send

ASSUME SnapshotsAssumption == Snapshots \subseteq WMessage

VARIABLES logged_on,   \* logged_on_
          sent_cmd     \* the command the sender holds between pop and send

fixapp == <<logged_on, sent_cmd>>

\* The sender holds no command.
NoCmd == [type |-> "Cancel", side |-> "Buy", symbol_id |-> 0, price |-> 0,
          qty |-> 0, cl_ord_id |-> 0, orig_cl_ord_id |-> 0]

FixAppInit == logged_on = FALSE /\ sent_cmd = NoCmd

FixAppTypeOK == logged_on \in BOOLEAN /\ sent_cmd \in OrderCmd
-----------------------------------------------------------------------------
(* The reader thread.                                                      *)

\* UINT32_MAX is uint32_t(-1); only its difference from every index matters.
UINT32_MAX == -1

\* symbol_id(): the index of a configured symbol.
symbol_id(sym) == IF sym \in Syms THEN sym ELSE UINT32_MAX

\* The loop over the entries keeps at most kMaxDepth of each side.
kept(n) == IF n < kMaxDepth THEN n ELSE kMaxDepth

md_event(w) ==
  [symbol_id |-> symbol_id(w.Symbol), n_bids |-> kept(w.bids),
   n_asks |-> kept(w.asks), bid_px |-> w.bid_px, ask_px |-> w.ask_px]

\* onMessage(MarketDataSnapshotFullRefresh): a snapshot that does not fit is
\* dropped, and the ones already in the ring stay.
OnMarketData(w) ==
  /\ session_up /\ subscribed
  /\ mdCount < MaxMd
  /\ mdRing' = IF symbol_id(w.Symbol) = UINT32_MAX
               THEN mdRing
               ELSE try_push(mdRing, MdCap, md_event(w))
  /\ mdCount' = mdCount + 1
  /\ UNCHANGED <<fixapp, execRing, ordRing, tradeRing, snapRing,
                 session_up, subscribed, to_exch, from_exch, logouts>>

\* Mutated form: no case for CANCELED.
exec_kind_no_canceled(m) ==
  CASE m.ExecType = "NEW"      -> "New"
    [] m.ExecType = "TRADE"    -> IF m.OrdStatus = "PARTIALLY_FILLED"
                                  THEN "PartFill" ELSE "Filled"
    [] m.ExecType = "REJECTED" -> "Rejected"
    [] m.ExecType = "REPLACED" -> "Replaced"
    [] OTHER                   -> "Other"

\* The switch on ExecType and the test of OrdStatus.
exec_kind(m) ==
  CASE m.ExecType = "NEW"      -> "New"
    [] m.ExecType = "CANCELED" -> "Canceled"
    [] m.ExecType = "TRADE"    -> IF m.OrdStatus = "PARTIALLY_FILLED"
                                  THEN "PartFill" ELSE "Filled"
    [] m.ExecType = "REJECTED" -> "Rejected"
    [] m.ExecType = "REPLACED" -> "Replaced"
    [] OTHER                   -> "Other"

exec_event(m) ==
  [cl_ord_id |-> m.ClOrdID, kind |-> exec_kind(m), side |-> m.Side,
   symbol_id |-> symbol_id(m.Symbol), leaves_qty |-> m.LeavesQty]

\* fromApp(): an execution report goes to its ring (the result of the push is
\* ignored); a type that is not cracked, OrderCancelReject among them, throws
\* UnsupportedMessageType and is dropped.
FromApp ==
  /\ session_up
  /\ from_exch # <<>>
  /\ LET m == Head(from_exch)
     IN execRing' = IF m.MsgType = "8"
                    THEN try_push(execRing, ExecCap, exec_event(m))
                    ELSE execRing
  /\ from_exch' = Tail(from_exch)
  /\ UNCHANGED <<fixapp, mdRing, ordRing, tradeRing, snapRing,
                 session_up, subscribed, to_exch, mdCount, logouts>>

\* The request names every configured symbol; from then on the venue sends
\* market data for them.
subscribe_market_data == subscribed' = TRUE

\* onLogon(): set the flag, subscribe.
OnLogon ==
  /\ ~session_up /\ ~logged_on
  /\ session_up' = TRUE
  /\ logged_on' = TRUE
  /\ subscribe_market_data
  /\ UNCHANGED <<sent_cmd, rings, to_exch, from_exch, mdCount, logouts>>

\* onLogout(): the callback that follows a disconnect.
OnLogout ==
  /\ ~session_up /\ logged_on
  /\ logged_on' = FALSE
  /\ UNCHANGED <<sent_cmd, rings, wire>>

ReaderStep ==
  \/ \E w \in Snapshots : OnMarketData(w)
  \/ FromApp
  \/ OnLogon
  \/ OnLogout
-----------------------------------------------------------------------------
(* The sender thread.                                                      *)

\* out.try_pop(c)
SenderPop ==
  /\ sent_cmd = NoCmd
  /\ ordRing # <<>>
  /\ sent_cmd' = Head(ordRing)
  /\ ordRing' = Tail(ordRing)
  /\ UNCHANGED <<logged_on, mdRing, execRing, tradeRing, snapRing, wire>>

\* send_order_cmd(): the FIX message of a command.
fix_message(c) ==
  [MsgType |-> IF c.type = "New" THEN "D" ELSE "F",
   ClOrdID |-> c.cl_ord_id,
   OrigClOrdID |-> IF c.type = "New" THEN 0 ELSE c.orig_cl_ord_id,
   Side |-> c.side, Symbol |-> c.symbol_id, OrderQty |-> c.qty,
   Price |-> IF c.type = "New" THEN c.price ELSE 0]

\* if (app.logged_on()) app.send_order_cmd(c): otherwise the command is
\* dropped.  The session may have gone since the flag was set.
SenderSend ==
  /\ sent_cmd # NoCmd
  /\ IF logged_on THEN sendToTarget(fix_message(sent_cmd)) ELSE UNCHANGED to_exch
  /\ sent_cmd' = NoCmd
  /\ UNCHANGED <<logged_on, rings, session_up, subscribed, from_exch, mdCount,
                 logouts>>

SenderStep == SenderPop \/ SenderSend
=============================================================================

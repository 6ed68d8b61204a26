------------------------------ MODULE FixWire -------------------------------
(***************************************************************************)
(* The FIX session between the engine and the venue, as src/fix/fix_app.hpp*)
(* uses it.  QuickFIX and the network are external: what is modelled is    *)
(* what the engine can observe of them.  Within a session the two          *)
(* directions are FIFO and lossless (TCP); at a disconnect what is in      *)
(* flight may be lost, and nothing is resent afterwards because            *)
(* config/fix_config.cfg sets ResetOnLogon, ResetOnLogout and              *)
(* ResetOnDisconnect.                                                      *)
(***************************************************************************)
EXTENDS Events

CONSTANTS MaxMd,       \* bound: snapshots delivered in a behaviour
          MaxLogouts,  \* bound: disconnects in a behaviour
          StrayRoom    \* bound: reports on the wire when a stray one is sent

ASSUME WireBounds == {MaxMd, MaxLogouts, StrayRoom} \subseteq Nat

\* A symbol on the wire; NSyms stands for any instrument not configured.
WireSymbols == 0 .. NSyms

\* MarketDataSnapshotFullRefresh: the entries of each side, the first one's
\* price (0 when it carries none).
WMessage == [Symbol : WireSymbols, bids : Nat, asks : Nat,
             bid_px : Int, ask_px : Int]

\* NewOrderSingle (D) and OrderCancelRequest (F); 0 is an absent field.
OrderMessage == [MsgType : {"D", "F"}, ClOrdID : Nat, OrigClOrdID : Nat,
                 Side : Sides, Symbol : Syms, OrderQty : Nat, Price : Int]

\* ExecutionReport (8) and OrderCancelReject (9) about the engine's orders.
ExecTypes == {"NEW", "CANCELED", "TRADE", "REJECTED", "REPLACED", "EXPIRED"}

OrdStatuses == {"NEW", "CANCELED", "FILLED", "PARTIALLY_FILLED",
                "PENDING_CANCEL", "REJECTED", "EXPIRED"}

ReportMessage == [MsgType : {"8", "9"}, ClOrdID : Nat, ExecType : ExecTypes,
                  OrdStatus : OrdStatuses, Side : Sides, Symbol : Syms,
                  LeavesQty : Nat]

VARIABLES session_up,  \* QuickFIX considers the session logged on
          subscribed,  \* the venue has the market data request
          to_exch,     \* orders and cancels on their way to the venue
          from_exch,   \* reports on their way to the reader thread
          mdCount,     \* snapshots delivered
          logouts      \* disconnects so far

wire == <<session_up, subscribed, to_exch, from_exch, mdCount, logouts>>

WireInit ==
  /\ session_up = FALSE /\ subscribed = FALSE
  /\ to_exch = <<>> /\ from_exch = <<>>
  /\ mdCount = 0 /\ logouts = 0

WireTypeOK ==
  /\ session_up \in BOOLEAN /\ subscribed \in BOOLEAN
  /\ to_exch \in Seq(OrderMessage)
  /\ from_exch \in Seq(ReportMessage)
  /\ mdCount \in 0 .. MaxMd /\ logouts \in 0 .. MaxLogouts

\* Session::sendToTarget: without a session the message is only stored, and
\* the store is reset at the next logon.
sendToTarget(m) ==
  to_exch' = IF session_up THEN Append(to_exch, m) ELSE to_exch

\* The venue sends a report: it is lost when there is no session.
report(m) ==
  from_exch' = IF session_up THEN Append(from_exch, m) ELSE from_exch

\* The connection drops.  A prefix of what was sent reached the venue; what
\* the reader had not yet been given is gone.
Disconnect ==
  /\ session_up
  /\ logouts < MaxLogouts
  /\ session_up' = FALSE
  /\ subscribed' = FALSE
  /\ \E n \in 0 .. Len(to_exch) : to_exch' = SubSeq(to_exch, 1, n)
  /\ from_exch' = <<>>
  /\ logouts' = logouts + 1
  /\ UNCHANGED mdCount
=============================================================================

------------------------------- MODULE Engine -------------------------------
(***************************************************************************)
(* The live engine of src/main.cpp: strategy thread, sender thread and     *)
(* QuickFIX reader thread joined by the rings, with the FIX session and    *)
(* the venue around them.  Each disjunct of Next is one step of one actor. *)
(* The process may also end, at a signal or in a crash, and start again.   *)
(***************************************************************************)
EXTENDS MarketMaker, FixApp, Exchange, FiniteSets

CONSTANT MaxRestarts   \* bound: processes after the first

ASSUME RestartBound == MaxRestarts \in Nat

VARIABLES first_id,    \* what cl_ord_seed_ started from in this process
          restarts     \* processes that have ended

process == <<first_id, restarts>>

vars == <<strategy, rings, fixapp, wire, working, process>>

Init ==
  /\ RingsInit
  /\ MarketMakerInit
  /\ WireInit
  /\ FixAppInit
  /\ ExchangeInit
  /\ first_id = next_id
  /\ restarts = 0

Strategy == StrategyStep /\ UNCHANGED <<fixapp, wire, working, process>>

Reader == ReaderStep /\ UNCHANGED <<strategy, working, process>>

Sender == SenderStep /\ UNCHANGED <<strategy, working, process>>

Network == Disconnect /\ UNCHANGED <<strategy, rings, fixapp, working, process>>

VenueAnswers == Answer /\ UNCHANGED <<strategy, rings, fixapp, process>>

VenueTrades == Market /\ UNCHANGED <<strategy, rings, fixapp, process>>

\* The LMDB thread pops from the two rings it drains, in any order.  What it
\* writes, and in which transaction, no other thread can see.
TakeSnapshot ==
  /\ snapRing # <<>>
  /\ snapRing' = Tail(snapRing)
  /\ UNCHANGED <<mdRing, execRing, ordRing, tradeRing>>

TakeTrade ==
  /\ tradeRing # <<>>
  /\ tradeRing' = Tail(tradeRing)
  /\ UNCHANGED <<mdRing, execRing, ordRing, snapRing>>

Persister ==
  /\ TakeSnapshot \/ TakeTrade
  /\ UNCHANGED <<strategy, fixapp, wire, working, process>>

\* Mutated form: the seed starts over, as after a reboot.
Restart_same_seed ==
  /\ restarts < MaxRestarts
  /\ restarts' = restarts + 1
  /\ next_id' = 1
  /\ first_id' = 1
  /\ mdRing' = <<>> /\ execRing' = <<>> /\ ordRing' = <<>>
  /\ tradeRing' = <<>> /\ snapRing' = <<>>
  /\ oms' = [s \in Syms |-> [d \in Sides |-> NoQuote]]
  /\ books' = [s \in Syms |-> EmptyBook]
  /\ spc' = "exec" /\ plan' = NoPlan /\ snap_at' = 0
  /\ logged_on' = FALSE /\ sent_cmd' = NoCmd
  /\ session_up' = FALSE /\ subscribed' = FALSE
  /\ \E n \in 0 .. Len(to_exch) : to_exch' = SubSeq(to_exch, 1, n)
  /\ from_exch' = <<>>
  /\ UNCHANGED <<snap_cnt, mdCount, logouts, working>>

\* The process ends, at any point of any thread, and the next one begins with
\* empty rings and slots.  Nothing is cancelled on the way out: the orders at
\* the venue stay, and so may a part of what was on the wire.  The seed is
\* the clock's milliseconds times 1000, so it is past every id drawn before
\* as long as the machine stays up and fewer than 1000 ids a millisecond are
\* drawn; by how much does not matter, since ids are only compared.
Restart ==
  /\ restarts < MaxRestarts
  /\ restarts' = restarts + 1
  /\ first_id' = next_id
  /\ mdRing' = <<>> /\ execRing' = <<>> /\ ordRing' = <<>>
  /\ tradeRing' = <<>> /\ snapRing' = <<>>
  /\ oms' = [s \in Syms |-> [d \in Sides |-> NoQuote]]
  /\ books' = [s \in Syms |-> EmptyBook]
  /\ spc' = "exec" /\ plan' = NoPlan /\ snap_at' = 0
  /\ logged_on' = FALSE /\ sent_cmd' = NoCmd
  /\ session_up' = FALSE /\ subscribed' = FALSE
  /\ \E n \in 0 .. Len(to_exch) : to_exch' = SubSeq(to_exch, 1, n)
  /\ from_exch' = <<>>
  /\ UNCHANGED <<next_id, snap_cnt, mdCount, logouts, working>>

Next ==
  \/ Strategy
  \/ Reader
  \/ Sender
  \/ Network
  \/ VenueAnswers
  \/ VenueTrades
  \/ Persister
  \/ Restart

Spec == Init /\ [][Next]_vars

\* Fairness.  The strategy and sender threads are pinned loops that never
\* block; the reader thread delivers what the session received and makes its
\* callbacks; the initiator reconnects every ReconnectInterval; the venue
\* answers what it receives.  Nothing is assumed of market data, of trades
\* or of the connection.
FairSpec ==
  /\ Spec
  /\ WF_vars(Strategy)
  /\ WF_vars(Sender)
  /\ WF_vars(FromApp /\ UNCHANGED <<strategy, working, process>>)
  /\ WF_vars((OnLogon \/ OnLogout) /\ UNCHANGED <<strategy, working, process>>)
  /\ WF_vars(VenueAnswers)
-----------------------------------------------------------------------------
(* Where an order is.                                                      *)

\* A command of type t about order id, on its way from strategy to sender.
CmdIs(c, t, id, sym, side) ==
  /\ c.type = t
  /\ (IF t = "New" THEN c.cl_ord_id ELSE c.orig_cl_ord_id) = id
  /\ c.symbol_id = sym
  /\ c.side = side

MsgIs(m, t, id, sym, side) ==
  /\ m.MsgType = (IF t = "New" THEN "D" ELSE "F")
  /\ (IF t = "New" THEN m.ClOrdID ELSE m.OrigClOrdID) = id
  /\ m.Symbol = sym
  /\ m.Side = side

\* It has been decided and the venue has not answered it yet.
UnderWay(t, id, sym, side) ==
  \/ \E i \in 1 .. Len(ordRing) : CmdIs(ordRing[i], t, id, sym, side)
  \/ sent_cmd # NoCmd /\ CmdIs(sent_cmd, t, id, sym, side)
  \/ \E i \in 1 .. Len(to_exch) : MsgIs(to_exch[i], t, id, sym, side)

Working(id, sym, side) ==
  \E o \in working :
    o.cl_ord_id = id /\ o.symbol_id = sym /\ o.side = side

\* The order works at the venue or is on its way there.
Open(id, sym, side) == UnderWay("New", id, sym, side) \/ Working(id, sym, side)

\* The ids this process has drawn, and all that have ever been drawn.
Ids == first_id .. next_id - 1

Drawn == 1 .. next_id - 1
-----------------------------------------------------------------------------
TypeOK ==
  /\ RingsTypeOK
  /\ MarketMakerTypeOK
  /\ WireTypeOK
  /\ FixAppTypeOK
  /\ ExchangeTypeOK
  /\ first_id \in Nat \ {0}
  /\ restarts \in 0 .. MaxRestarts

\* "One working quote per (symbol, side)" (order_manager.hpp:4): whatever is
\* lost, delayed or refused on the way, a process never has two orders open
\* for the same symbol and side, not even when late answers to an earlier
\* process's orders reach it.
OneWorkingOrder ==
  \A sym \in Syms, side \in Sides :
    \A i, j \in Ids : Open(i, sym, side) /\ Open(j, sym, side) => i = j

\* No order is forgotten: as long as an order is open its slot remembers its
\* id, so on_exec still recognises its reports and cancel_side can name it
\* (order_manager.hpp:26-47).  A slot freed too early would leave an orphan.
NoOrphanOrder ==
  \A sym \in Syms, side \in Sides :
    \A i \in Ids :
      Open(i, sym, side) =>
        oms[sym][side].cl_ord_id = i /\ oms[sym][side].state # "None"

\* A cancel is decided only after the venue has confirmed the order
\* (market_maker.hpp:133): no cancel is under way together with the order it
\* cancels, in whichever queue either of them waits.
CancelFollowsAck ==
  \A sym \in Syms, side \in Sides :
    \A i \in Ids :
      ~ (UnderWay("Cancel", i, sym, side) /\ UnderWay("New", i, sym, side))

\* An order is cancelled at most once: its slot stays PendingCancel from the
\* cancel until the order is gone, whatever reports arrive in between
\* (market_maker.hpp:109-110, :133 and :141).
NoRepeatedCancel ==
  \A sym \in Syms, side \in Sides :
    \A i \in Ids :
      UnderWay("Cancel", i, sym, side) /\ oms[sym][side].cl_ord_id = i
        => oms[sym][side].state = "PendingCancel"

\* The life of a slot: None, PendingNew, Live, PendingCancel and back to None,
\* skipping forward at most.  No report revives a slot that is being
\* cancelled or makes an empty one Live, and no slot passes to another order
\* without being empty in between (order_manager.hpp:26-47 and
\* market_maker.hpp:107-147 together).  Only a report with the id 0 of an
\* empty slot can do otherwise, and then to a slot that holds no order.
SlotLifecycle ==
  [][\A sym \in Syms, side \in Sides :
       LET before == oms[sym][side]
           after == oms'[sym][side]
       IN \/ after.state = before.state /\ after.cl_ord_id = before.cl_ord_id
          \/ before.cl_ord_id = 0 /\ after.cl_ord_id = 0
          \/ before.state = "None" /\ after.state = "PendingNew"
          \/ /\ <<before.state, after.state>> \in
                  {<<"PendingNew", "Live">>, <<"Live", "PendingCancel">>}
             /\ after.cl_ord_id = before.cl_ord_id
          \/ after.state = "None"]_vars

\* Nothing is in flight between the strategy and the venue.
Quiet ==
  /\ ordRing = <<>> /\ sent_cmd = NoCmd /\ to_exch = <<>>
  /\ from_exch = <<>> /\ execRing = <<>>

\* When nothing is in flight the order manager and the venue agree on every
\* slot: same order, same price, same remaining quantity (on_exec and
\* exec_kind lose nothing a reliable venue reports).
AgreeWhenQuiet ==
  Quiet =>
    \A sym \in Syms, side \in Sides :
      LET quote == oms[sym][side]
          resting == {o \in working : o.symbol_id = sym /\ o.side = side}
      IN \/ quote.state = "None" /\ resting = {}
         \/ /\ quote.state = "Live"
            /\ resting = {[cl_ord_id |-> quote.cl_ord_id, symbol_id |-> sym,
                           side |-> side, price |-> quote.price,
                           leaves |-> quote.qty]}

\* However fast the venue reports and however slow the strategy is, the
\* reports that wait for it, on the wire and in ExecRing, are no more than
\* each slot can cause: an acknowledgement, partial fills and an end, one for
\* each quantity that may be left (requote() places nothing in a slot before
\* on_exec() has seen the end of the last order).
ReportsFit ==
  Len(execRing) + Cardinality({k \in 1 .. Len(from_exch) : from_exch[k].MsgType = "8"})
    <= 2 * NSyms * (order_qty + 1)

\* An answered order does not stay in flight: every slot is again and again
\* None or Live, so requote()'s "in flight, wait" (market_maker.hpp:110) is
\* a wait for something that comes.
PendingResolved ==
  \A sym \in Syms, side \in Sides :
    []<>(oms[sym][side].state \in {"None", "Live"})

\* "spread < MINIMUM_SPREAD -> cancel all active quotes, stand down"
\* (market_maker.hpp:10): once the strategy has handled a narrow snapshot and
\* nothing is in flight, no quote of that symbol works at the venue.
NarrowStandsDown ==
  Quiet /\ mdRing = <<>> /\ spc \in {"exec", "md"} =>
    \A o \in working :
      ~ (has_bba(books[o.symbol_id]) /\ ~wide(books[o.symbol_id]))
=============================================================================

---------------------------- MODULE MarketMaker -----------------------------
(***************************************************************************)
(* src/strategy/market_maker.hpp: the strategy thread.  One turn of its    *)
(* loop drains the execution reports, takes at most one snapshot, decides, *)
(* acts on the buy side and then the sell side, and may push the books to  *)
(* the LMDB thread.  Every ring access is a step of its own, so the other  *)
(* threads run between any two of them.  Operation log records and metrics *)
(* are left out.                                                           *)
(***************************************************************************)
EXTENDS OrderManager, OrderBook

CONSTANTS tick_size, minimum_spread, order_qty, book_depth, dry_run,
          MaxSnapshots   \* bound: how often the snapshot timer expires

ASSUME ConfigAssumption ==
  /\ tick_size \in Nat \ {0}
  /\ minimum_spread \in Nat
  /\ order_qty \in Nat \ {0}
  /\ book_depth \in 1 .. 5
  /\ dry_run \in BOOLEAN
  /\ MaxSnapshots \in Nat

VARIABLES oms,      \* oms_.q_
          books,    \* books_
          next_id,  \* cl_ord_seed_
          spc,      \* where the thread is in its loop
          plan,     \* locals of decide(): what it settled on
          snap_at,  \* the loop variable of push_snapshots()
          snap_cnt  \* how often the snapshot timer has expired

strategy == <<oms, books, next_id, spc, plan, snap_at, snap_cnt>>

Plan == [symbol_id : Syms, act : {"quote", "cancel"}, bid : Int, ask : Int]

NoPlan == [symbol_id |-> 0, act |-> "cancel", bid |-> 0, ask |-> 0]

MarketMakerInit ==
  /\ oms = [s \in Syms |-> [d \in Sides |-> NoQuote]]
  /\ books = [s \in Syms |-> EmptyBook]
  /\ next_id = 1
  /\ spc = "exec"
  /\ plan = NoPlan
  /\ snap_at = 0
  /\ snap_cnt = 0

MarketMakerTypeOK ==
  /\ oms \in [Syms -> [Sides -> Quote]]
  /\ books \in [Syms -> Book]
  /\ next_id \in Nat \ {0}
  /\ spc \in {"exec", "md", "buy", "sell", "due", "snap"}
  /\ plan \in Plan
  /\ snap_at \in Syms
  /\ snap_cnt \in 0 .. MaxSnapshots
-----------------------------------------------------------------------------
(* The decision.                                                           *)

target_bid(ob) == ob.bid_px + tick_size
target_ask(ob) == ob.ask_px - tick_size

wide(ob) == spread(ob) >= minimum_spread

\* ask - bid < tick_size * 0.5: the two new quotes would meet.
would_cross(ob) == 2 * (target_ask(ob) - target_bid(ob)) < tick_size

\* fabs(q.price - px) < tick_size * 0.5
already_there(quote, px) ==
  /\ 2 * (quote.price - px) < tick_size
  /\ 2 * (px - quote.price) < tick_size

\* decide(): is there anything to do for this book, and what.
acts_on(ob) == has_bba(ob) /\ (wide(ob) => ~would_cross(ob))

decide(sym, ob) ==
  IF wide(ob)
  THEN [symbol_id |-> sym, act |-> "quote",
        bid |-> target_bid(ob), ask |-> target_ask(ob)]
  ELSE [symbol_id |-> sym, act |-> "cancel", bid |-> 0, ask |-> 0]

no_command == UNCHANGED <<oms, next_id, ordRing>>

\* Both commands end alike: an id is drawn, and the slot changes only if the
\* command went into the ring.
emit(c, quote) ==
  /\ next_id' = next_id + 1
  /\ IF ~dry_run /\ can_push(ordRing, OrdCap)
     THEN /\ ordRing' = Append(ordRing, c)
          /\ oms' = [oms EXCEPT ![c.symbol_id][c.side] = quote]
     ELSE UNCHANGED <<ordRing, oms>>

\* The OrderCmd cancel_side() fills in.
cancel_cmd(sym, side, quote) ==
  [type |-> "Cancel", side |-> side, symbol_id |-> sym, price |-> 0,
   qty |-> quote.qty, cl_ord_id |-> next_id,
   orig_cl_ord_id |-> quote.cl_ord_id]

\* Mutated form: an unacknowledged order is cancelled.
cancel_side_unacknowledged(sym, side) ==
  LET quote == oms[sym][side]
  IN \/ quote.state \notin {"PendingNew", "Live"} /\ no_command
     \/ /\ quote.state \in {"PendingNew", "Live"}
        /\ emit(cancel_cmd(sym, side, quote),
                [quote EXCEPT !.state = "PendingCancel"])

\* Mutated form: the slot does not become PendingCancel.
cancel_side_stays_live(sym, side) ==
  LET quote == oms[sym][side]
  IN \/ quote.state # "Live" /\ no_command
     \/ quote.state = "Live" /\ emit(cancel_cmd(sym, side, quote), quote)

\* cancel_side(): only a Live quote is cancelled.
cancel_side(sym, side) ==
  LET quote == oms[sym][side]
  IN \/ quote.state # "Live" /\ no_command
     \/ /\ quote.state = "Live"
        /\ emit(cancel_cmd(sym, side, quote),
                [quote EXCEPT !.state = "PendingCancel"])

\* The end of requote(): a new order for an empty slot.
place(sym, side, px) ==
  emit([type |-> "New", side |-> side, symbol_id |-> sym, price |-> px,
        qty |-> order_qty, cl_ord_id |-> next_id, orig_cl_ord_id |-> 0],
       [state |-> "PendingNew", cl_ord_id |-> next_id, price |-> px,
        qty |-> order_qty])

\* Mutated form: places while the cancel is pending.
requote_over_cancel(sym, side, px) ==
  LET quote == oms[sym][side]
  IN \/ quote.state = "PendingNew" /\ no_command
     \/ quote.state = "Live" /\ already_there(quote, px) /\ no_command
     \/ quote.state = "Live" /\ ~already_there(quote, px) /\ cancel_side(sym, side)
     \/ quote.state \in {"None", "PendingCancel"} /\ place(sym, side, px)

\* Mutated form: replaces a Live quote without cancelling.
requote_in_place(sym, side, px) ==
  LET quote == oms[sym][side]
  IN \/ quote.state \in {"PendingNew", "PendingCancel"} /\ no_command
     \/ quote.state = "Live" /\ already_there(quote, px) /\ no_command
     \/ quote.state = "Live" /\ ~already_there(quote, px) /\ place(sym, side, px)
     \/ quote.state = "None" /\ place(sym, side, px)

\* requote(): wait while in flight, keep a quote that is on its target,
\* cancel one that is off it, place one in an empty slot.
requote(sym, side, px) ==
  LET quote == oms[sym][side]
  IN \/ quote.state \in {"PendingNew", "PendingCancel"} /\ no_command
     \/ quote.state = "Live" /\ already_there(quote, px) /\ no_command
     \/ quote.state = "Live" /\ ~already_there(quote, px) /\ cancel_side(sym, side)
     \/ quote.state = "None" /\ place(sym, side, px)
-----------------------------------------------------------------------------
(* The loop of run().                                                      *)

\* exec_.try_pop succeeded: update the slot, hand a fill to the LMDB ring
\* (the result of the push is ignored).
PopExec ==
  /\ spc = "exec"
  /\ execRing # <<>>
  /\ LET e == Head(execRing)
     IN /\ oms' = on_exec(oms, e)
        /\ tradeRing' = IF e.kind \in {"Filled", "PartFill"}
                        THEN try_push(tradeRing, TradeCap, e)
                        ELSE tradeRing
  /\ execRing' = Tail(execRing)
  /\ UNCHANGED <<books, next_id, spc, plan, snap_at, snap_cnt, mdRing, ordRing,
                 snapRing>>

\* exec_.try_pop failed: on to the market data.
ExecDrained ==
  /\ spc = "exec"
  /\ execRing = <<>>
  /\ spc' = "md"
  /\ UNCHANGED <<oms, books, next_id, plan, snap_at, snap_cnt, rings>>

\* md_.try_pop succeeded: replace the book and decide.
PopMd ==
  /\ spc = "md"
  /\ mdRing # <<>>
  /\ LET ev == Head(mdRing)
         ob == apply_snapshot(ev, book_depth)
     IN /\ books' = [books EXCEPT ![ev.symbol_id] = ob]
        /\ \/ /\ acts_on(ob)
              /\ plan' = decide(ev.symbol_id, ob)
              /\ spc' = "buy"
           \/ /\ ~acts_on(ob)
              /\ spc' = "due"
              /\ UNCHANGED plan
  /\ mdRing' = Tail(mdRing)
  /\ UNCHANGED <<oms, next_id, snap_at, snap_cnt, execRing, ordRing,
                 tradeRing, snapRing>>

\* md_.try_pop failed: next turn of the loop.
MdEmpty ==
  /\ spc = "md"
  /\ mdRing = <<>>
  /\ spc' = "exec"
  /\ UNCHANGED <<oms, books, next_id, plan, snap_at, snap_cnt, rings>>

act(side, px) ==
  IF plan.act = "quote" THEN requote(plan.symbol_id, side, px)
                        ELSE cancel_side(plan.symbol_id, side)

ActBuy ==
  /\ spc = "buy"
  /\ act("Buy", plan.bid)
  /\ spc' = "sell"
  /\ UNCHANGED <<books, plan, snap_at, snap_cnt, mdRing, execRing, tradeRing,
                 snapRing>>

ActSell ==
  /\ spc = "sell"
  /\ act("Sell", plan.ask)
  /\ spc' = "due"
  /\ plan' = NoPlan
  /\ UNCHANGED <<books, snap_at, snap_cnt, mdRing, execRing, tradeRing,
                 snapRing>>

\* t_deq >= next_snapshot_ns, or not: the clock decides.
SnapshotDue ==
  /\ spc = "due"
  /\ snap_cnt < MaxSnapshots
  /\ snap_cnt' = snap_cnt + 1
  /\ spc' = "snap"
  /\ UNCHANGED <<oms, books, next_id, plan, snap_at, rings>>

SnapshotNotDue ==
  /\ spc = "due"
  /\ spc' = "exec"
  /\ UNCHANGED <<oms, books, next_id, plan, snap_at, snap_cnt, rings>>

\* One turn of the loop of push_snapshots(): an empty book is skipped, the
\* result of the push is ignored.  Symbols past NSyms have empty books.
PushSnapshot ==
  /\ spc = "snap"
  /\ snapRing' = IF books[snap_at].n_bids = 0 /\ books[snap_at].n_asks = 0
                 THEN snapRing
                 ELSE try_push(snapRing, SnapCap, snap_at)
  /\ snap_at' = (snap_at + 1) % NSyms
  /\ spc' = IF snap_at + 1 = NSyms THEN "exec" ELSE "snap"
  /\ UNCHANGED <<oms, books, next_id, plan, snap_cnt, mdRing, execRing,
                 ordRing, tradeRing>>

StrategyStep ==
  \/ PopExec \/ ExecDrained
  \/ PopMd \/ MdEmpty
  \/ ActBuy \/ ActSell
  \/ SnapshotDue \/ SnapshotNotDue \/ PushSnapshot
=============================================================================

-------------------------- MODULE MarketMakerProofs --------------------------
(***************************************************************************)
(* Facts about the rings and the strategy thread, in whatever system it    *)
(* runs: the proofs of Engine and of Bench rest on them.                   *)
(***************************************************************************)
EXTENDS MarketMaker, TLAPS

-----------------------------------------------------------------------------
(* Sequences.                                                              *)

\* What a pop leaves behind: the first element goes, the others move up.
LEMMA TailFacts ==
  ASSUME NEW S, NEW q \in Seq(S), q # <<>>
  PROVE  /\ Len(q) \in Nat /\ 1 \in 1 .. Len(q)
         /\ Head(q) = q[1] /\ Head(q) \in S
         /\ Tail(q) \in Seq(S)
         /\ Len(Tail(q)) = Len(q) - 1
         /\ \A k \in 1 .. Len(Tail(q)) :
              k + 1 \in 2 .. Len(q) /\ Tail(q)[k] = q[k + 1]
  OBVIOUS

\* What a push adds: one element at the end.
LEMMA AppendFacts ==
  ASSUME NEW S, NEW q \in Seq(S), NEW x \in S
  PROVE  /\ Len(q) \in Nat
         /\ Append(q, x) \in Seq(S)
         /\ Len(Append(q, x)) = Len(q) + 1
         /\ \A k \in 1 .. Len(q) : Append(q, x)[k] = q[k]
         /\ Append(q, x)[Len(q) + 1] = x
  OBVIOUS

\* What a disconnect keeps: a prefix.
LEMMA PrefixFacts ==
  ASSUME NEW S, NEW q \in Seq(S), NEW n \in 0 .. Len(q)
  PROVE  /\ Len(q) \in Nat
         /\ SubSeq(q, 1, n) \in Seq(S)
         /\ Len(SubSeq(q, 1, n)) = n
         /\ \A k \in 1 .. n : SubSeq(q, 1, n)[k] = q[k] /\ k \in 1 .. Len(q)
  OBVIOUS

\* try_push keeps the type of a ring and its bound.
LEMMA PushType ==
  ASSUME NEW S, NEW q \in Seq(S), NEW x \in S, NEW cap \in Nat, Len(q) <= cap
  PROVE  try_push(q, cap, x) \in Seq(S) /\ Len(try_push(q, cap, x)) <= cap
  BY DEF try_push, can_push
-----------------------------------------------------------------------------
(* Types.                                                                  *)

\* The initial values and the constants are of their types.
LEMMA ConstantTypes ==
  /\ NSyms \in Nat /\ NSyms >= 1 /\ 0 \in Syms
  /\ MdCap \in Nat /\ ExecCap \in Nat /\ OrdCap \in Nat
  /\ TradeCap \in Nat /\ SnapCap \in Nat
  /\ NoQuote \in Quote /\ EmptyBook \in Book /\ NoPlan \in Plan
  BY NSymsAssumption, CapAssumption
     DEF kMaxSymbols, Syms, NoQuote, Quote, QuoteStates, EmptyBook, Book,
         NoPlan, Plan, Sides

\* on_exec updates slots, whatever the report says.
LEMMA OnExecType ==
  ASSUME NEW q \in [Syms -> [Sides -> Quote]], NEW e \in ExecEvent
  PROVE  on_exec(q, e) \in [Syms -> [Sides -> Quote]]
  <1>1. e.symbol_id \in Syms /\ e.leaves_qty \in Nat
    BY DEF ExecEvent
  <1>2. ASSUME NEW d \in Sides
        PROVE  slot_after(q[e.symbol_id][d], e) \in Quote
    BY <1>1, ConstantTypes DEF slot_after, Quote, QuoteStates, Terminal
  <1> QED
    BY <1>1, <1>2 DEF on_exec

\* A snapshot in a ring makes a book, and a book a decision.
LEMMA BookType ==
  ASSUME NEW e \in MdEvent
  PROVE  apply_snapshot(e, book_depth) \in Book
  <1>1. /\ e.n_bids \in Nat /\ e.n_asks \in Nat
        /\ e.bid_px \in Int /\ e.ask_px \in Int
    BY DEF MdEvent
  <1>2. capped(e.n_bids, book_depth) \in Nat /\ capped(e.n_asks, book_depth) \in Nat
    BY <1>1, ConfigAssumption DEF capped
  <1> QED BY <1>1, <1>2 DEF apply_snapshot, Book

\* A decision about a book is a plan for its symbol.
LEMMA DecideType ==
  ASSUME NEW sym \in Syms, NEW ob \in Book
  PROVE  decide(sym, ob) \in Plan
  <1>1. target_bid(ob) \in Int /\ target_ask(ob) \in Int
    BY ConfigAssumption DEF Book, target_bid, target_ask
  <1> QED BY <1>1 DEF decide, Plan

\* The strategy keeps the types.
LEMMA EmitType ==
  ASSUME MarketMakerTypeOK, RingsTypeOK,
         NEW c \in OrderCmd, NEW quote \in Quote, emit(c, quote)
  PROVE  /\ oms' \in [Syms -> [Sides -> Quote]]
         /\ next_id' \in Nat \ {0}
         /\ ordRing' \in Seq(OrderCmd) /\ Len(ordRing') <= OrdCap
  <1>1. c.symbol_id \in Syms /\ c.side \in Sides
    BY DEF OrderCmd
  <1>2. /\ oms \in [Syms -> [Sides -> Quote]] /\ next_id \in Nat \ {0}
        /\ ordRing \in Seq(OrderCmd) /\ Len(ordRing) <= OrdCap
    BY DEF MarketMakerTypeOK, RingsTypeOK
  <1>3. CASE ~dry_run /\ can_push(ordRing, OrdCap)
    <2>1. /\ next_id' = next_id + 1 /\ ordRing' = Append(ordRing, c)
          /\ oms' = [oms EXCEPT ![c.symbol_id][c.side] = quote]
      BY <1>3 DEF emit
    <2>2. Len(ordRing) < OrdCap
      BY <1>3 DEF can_push
    <2> QED BY <1>1, <1>2, <2>1, <2>2, ConstantTypes, AppendFacts
  <1>4. CASE ~(~dry_run /\ can_push(ordRing, OrdCap))
    BY <1>2, <1>4 DEF emit
  <1> QED BY <1>3, <1>4

\* cancel_side() keeps the types, whether it emits a cancel or returns early.
LEMMA CancelSideType ==
  ASSUME MarketMakerTypeOK, RingsTypeOK,
         NEW sym \in Syms, NEW side \in Sides, cancel_side(sym, side)
  PROVE  /\ oms' \in [Syms -> [Sides -> Quote]]
         /\ next_id' \in Nat \ {0}
         /\ ordRing' \in Seq(OrderCmd) /\ Len(ordRing') <= OrdCap
  <1> DEFINE quote == oms[sym][side]
             c == [type |-> "Cancel", side |-> side, symbol_id |-> sym,
                   price |-> 0, qty |-> quote.qty, cl_ord_id |-> next_id,
                   orig_cl_ord_id |-> quote.cl_ord_id]
             after == [quote EXCEPT !.state = "PendingCancel"]
  <1>1. quote \in Quote /\ next_id \in Nat
    BY DEF MarketMakerTypeOK
  <1>2. c \in OrderCmd
    BY <1>1 DEF OrderCmd, Quote
  <1>3. after \in Quote
    BY <1>1 DEF Quote, QuoteStates
  <1>4. no_command \/ emit(c, after)
    BY DEF cancel_side, cancel_cmd
  <1>5. CASE no_command
    BY <1>5 DEF no_command, MarketMakerTypeOK, RingsTypeOK
  <1>6. CASE emit(c, after)
    <2> HIDE DEF c, after
    <2> QED BY <1>2, <1>3, <1>6, EmitType
  <1> QED BY <1>4, <1>5, <1>6

\* requote() keeps the types in each of its four outcomes.
LEMMA RequoteType ==
  ASSUME MarketMakerTypeOK, RingsTypeOK,
         NEW sym \in Syms, NEW side \in Sides, NEW px \in Int,
         requote(sym, side, px)
  PROVE  /\ oms' \in [Syms -> [Sides -> Quote]]
         /\ next_id' \in Nat \ {0}
         /\ ordRing' \in Seq(OrderCmd) /\ Len(ordRing') <= OrdCap
  <1> DEFINE c == [type |-> "New", side |-> side, symbol_id |-> sym,
                   price |-> px, qty |-> order_qty, cl_ord_id |-> next_id,
                   orig_cl_ord_id |-> 0]
             quote == [state |-> "PendingNew", cl_ord_id |-> next_id,
                       price |-> px, qty |-> order_qty]
  <1>1. next_id \in Nat /\ order_qty \in Nat
    BY ConfigAssumption DEF MarketMakerTypeOK
  <1>2. c \in OrderCmd
    BY <1>1 DEF OrderCmd
  <1>3. quote \in Quote
    BY <1>1 DEF Quote, QuoteStates
  <1>4. no_command \/ cancel_side(sym, side) \/ emit(c, quote)
    BY DEF requote, place
  <1>5. CASE no_command
    BY <1>5 DEF no_command, MarketMakerTypeOK, RingsTypeOK
  <1>6. CASE cancel_side(sym, side)
    BY <1>6, CancelSideType
  <1>7. CASE emit(c, quote)
    <2> HIDE DEF c, quote
    <2> QED BY <1>2, <1>3, <1>7, EmitType
  <1> QED BY <1>4, <1>5, <1>6, <1>7

\* So does whichever of the two decide() calls.
LEMMA ActType ==
  ASSUME MarketMakerTypeOK, RingsTypeOK,
         NEW side \in Sides, NEW px \in Int, act(side, px)
  PROVE  /\ oms' \in [Syms -> [Sides -> Quote]]
         /\ next_id' \in Nat \ {0}
         /\ ordRing' \in Seq(OrderCmd) /\ Len(ordRing') <= OrdCap
  <1>1. plan.symbol_id \in Syms
    BY DEF MarketMakerTypeOK, Plan
  <1> QED BY <1>1, CancelSideType, RequoteType DEF act

\* Every step of the loop of run() keeps the types of what it writes.
LEMMA StrategyType ==
  ASSUME MarketMakerTypeOK, RingsTypeOK, StrategyStep
  PROVE  MarketMakerTypeOK' /\ RingsTypeOK'
  <1> USE ConstantTypes DEF MarketMakerTypeOK, RingsTypeOK
  <1>1. CASE PopExec
    <2>1. /\ Head(execRing) \in ExecEvent /\ Tail(execRing) \in Seq(ExecEvent)
          /\ Len(Tail(execRing)) <= ExecCap
      BY <1>1, TailFacts DEF PopExec
    <2>2. oms' \in [Syms -> [Sides -> Quote]]
      BY <1>1, <2>1, OnExecType DEF PopExec
    <2>3. tradeRing' \in Seq(ExecEvent) /\ Len(tradeRing') <= TradeCap
      BY <1>1, <2>1, PushType DEF PopExec
    <2> QED BY <1>1, <2>1, <2>2, <2>3 DEF PopExec
  <1>2. CASE ExecDrained
    BY <1>2 DEF ExecDrained, rings
  <1>3. CASE PopMd
    <2> DEFINE ev == Head(mdRing)
               ob == apply_snapshot(ev, book_depth)
    <2>1. /\ ev \in MdEvent /\ Tail(mdRing) \in Seq(MdEvent)
          /\ Len(Tail(mdRing)) <= MdCap
      BY <1>3, TailFacts DEF PopMd
    <2>2. ev.symbol_id \in Syms
      BY <2>1 DEF MdEvent
    <2>3. ob \in Book
      BY <2>1, BookType
    <2>4. decide(ev.symbol_id, ob) \in Plan
      BY <2>2, <2>3, DecideType
    <2>5. books' \in [Syms -> Book]
      BY <1>3, <2>2, <2>3 DEF PopMd
    <2>6. plan' \in Plan /\ spc' \in {"buy", "due"}
      BY <1>3, <2>4 DEF PopMd
    <2> HIDE DEF ev, ob
    <2> QED BY <1>3, <2>1, <2>5, <2>6 DEF PopMd, ev
  <1>4. CASE MdEmpty
    BY <1>4 DEF MdEmpty, rings
  <1>5. CASE ActBuy
    <2>1. plan.bid \in Int
      BY DEF Plan
    <2> QED BY <1>5, <2>1, ActType DEF ActBuy, Sides
  <1>6. CASE ActSell
    <2>1. plan.ask \in Int
      BY DEF Plan
    <2> QED BY <1>6, <2>1, ActType DEF ActSell, Sides
  <1>7. CASE SnapshotDue
    BY <1>7, ConfigAssumption DEF SnapshotDue, rings
  <1>8. CASE SnapshotNotDue
    BY <1>8 DEF SnapshotNotDue, rings
  <1>9. CASE PushSnapshot
    <2>1. snapRing' \in Seq(Syms) /\ Len(snapRing') <= SnapCap
      BY <1>9, PushType DEF PushSnapshot
    <2>2. snap_at' \in Syms
      BY <1>9 DEF PushSnapshot, Syms
    <2> QED BY <1>9, <2>1, <2>2 DEF PushSnapshot
  <1> QED
    BY <1>1, <1>2, <1>3, <1>4, <1>5, <1>6, <1>7, <1>8, <1>9 DEF StrategyStep

\* A report frees the slot of its order only if it is terminal, and makes a
\* slot Live only if it acknowledges that slot's order.
LEMMA OnExecSlot ==
  ASSUME NEW q \in [Syms -> [Sides -> Quote]], NEW e \in ExecEvent,
         NEW x \in Syms, NEW y \in Sides
  PROVE  \/ on_exec(q, e)[x][y] = q[x][y]
         \/ /\ q[x][y].cl_ord_id = e.cl_ord_id
            /\ \/ e.kind \in Terminal /\ on_exec(q, e)[x][y] = NoQuote
               \/ /\ e.kind = "New"
                  /\ on_exec(q, e)[x][y].cl_ord_id = q[x][y].cl_ord_id
                  /\ on_exec(q, e)[x][y].state = "Live"
               \/ /\ on_exec(q, e)[x][y].cl_ord_id = q[x][y].cl_ord_id
                  /\ on_exec(q, e)[x][y].state = q[x][y].state
  <1>1. CASE x = e.symbol_id /\ matches(q, e, y)
    <2>1. on_exec(q, e)[x][y] = slot_after(q[x][y], e)
      BY <1>1 DEF on_exec
    <2>2. q[x][y].cl_ord_id = e.cl_ord_id
      BY <1>1 DEF matches
    <2>3. q[x][y] \in Quote
      OBVIOUS
    <2> QED BY <2>1, <2>2, <2>3 DEF slot_after, Terminal, Quote
  <1>2. CASE ~(x = e.symbol_id /\ matches(q, e, y))
    BY <1>2 DEF on_exec, ExecEvent
  <1> QED BY <1>1, <1>2
=============================================================================

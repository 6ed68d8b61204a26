------------------------------- MODULE Events -------------------------------
(***************************************************************************)
(* The PODs of src/common/events.hpp that cross a thread boundary, and the *)
(* rings they travel in.  Timestamps, last price and quantity, and the     *)
(* exchange's order id steer nothing and are left out; of a book side only *)
(* the number of levels and the best price are kept.  Prices are integers  *)
(* in a unit that divides the tick.                                        *)
(*                                                                         *)
(* A ring is the queue that SpscRing is proved to implement.  Here every   *)
(* call sees the latest index: a stale load makes try_pop report a ring    *)
(* empty, or try_push report it full, a little longer than it is, which is *)
(* the other thread making its step a little later.                        *)
(***************************************************************************)
EXTENDS Integers, Sequences

CONSTANTS NSyms,      \* n_symbols_: configured instruments
          MdCap,      \* capacity of MdRing    (1 << 14)
          ExecCap,    \* capacity of ExecRing  (1 << 12)
          OrdCap,     \* capacity of OrdRing   (1 << 12)
          TradeCap,   \* capacity of trade_ring_ (1 << 12)
          SnapCap     \* capacity of snap_ring_  (1 << 12)

\* kMaxSymbols, kMaxDepth
kMaxSymbols == 8
kMaxDepth == 5

ASSUME NSymsAssumption == NSyms \in 1 .. kMaxSymbols

ASSUME CapAssumption ==
  {MdCap, ExecCap, OrdCap, TradeCap, SnapCap} \subseteq Nat \ {0}

\* Interned symbol ids.
Syms == 0 .. NSyms - 1

Sides == {"Buy", "Sell"}

ExecKinds == {"New", "Canceled", "Filled", "PartFill", "Rejected",
              "Replaced", "Other"}

MdEvent == [symbol_id : Syms, n_bids : Nat, n_asks : Nat,
            bid_px : Int, ask_px : Int]

OrderCmd == [type : {"New", "Cancel"}, side : Sides, symbol_id : Syms,
             price : Int, qty : Nat, cl_ord_id : Nat, orig_cl_ord_id : Nat]

ExecEvent == [cl_ord_id : Nat, kind : ExecKinds, side : Sides,
              symbol_id : Syms, leaves_qty : Nat]

VARIABLES mdRing,      \* QuickFIX reader -> strategy
          execRing,    \* QuickFIX reader -> strategy
          ordRing,     \* strategy -> sender
          tradeRing,   \* strategy -> LMDB thread: fills
          snapRing     \* strategy -> LMDB thread: symbols of pushed books

rings == <<mdRing, execRing, ordRing, tradeRing, snapRing>>

\* Mutated form: one item too many.
can_push_one_more(ring, cap) == Len(ring) <= cap

\* What try_push returns, and the ring it leaves behind.
can_push(ring, cap) == Len(ring) < cap

try_push(ring, cap, x) == IF can_push(ring, cap) THEN Append(ring, x) ELSE ring

RingsInit ==
  /\ mdRing = <<>> /\ execRing = <<>> /\ ordRing = <<>>
  /\ tradeRing = <<>> /\ snapRing = <<>>

RingsTypeOK ==
  /\ mdRing \in Seq(MdEvent) /\ Len(mdRing) <= MdCap
  /\ execRing \in Seq(ExecEvent) /\ Len(execRing) <= ExecCap
  /\ ordRing \in Seq(OrderCmd) /\ Len(ordRing) <= OrdCap
  /\ tradeRing \in Seq(ExecEvent) /\ Len(tradeRing) <= TradeCap
  /\ snapRing \in Seq(Syms) /\ Len(snapRing) <= SnapCap
=============================================================================

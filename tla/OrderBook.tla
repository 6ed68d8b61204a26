----------------------------- MODULE OrderBook ------------------------------
(***************************************************************************)
(* src/book/order_book.hpp as the strategy uses it: a snapshot replaces    *)
(* the book, the best prices are element zero of each side.                *)
(***************************************************************************)
EXTENDS Events

Book == [n_bids : Nat, n_asks : Nat, bid_px : Int, ask_px : Int]

EmptyBook == [n_bids |-> 0, n_asks |-> 0, bid_px |-> 0, ask_px |-> 0]

capped(n, max_depth) == IF n > max_depth THEN max_depth ELSE n

apply_snapshot(e, max_depth) ==
  [n_bids |-> capped(e.n_bids, max_depth),
   n_asks |-> capped(e.n_asks, max_depth),
   bid_px |-> e.bid_px, ask_px |-> e.ask_px]

has_bba(ob) == ob.n_bids > 0 /\ ob.n_asks > 0

spread(ob) == ob.ask_px - ob.bid_px
=============================================================================

---------------------------- MODULE OrderManager ----------------------------
(***************************************************************************)
(* src/oms/order_manager.hpp: one working quote per symbol and side.       *)
(* The exchange's order id (exch_order_id) is stored by the code and never *)
(* read; it is left out.                                                   *)
(***************************************************************************)
EXTENDS Events

QuoteStates == {"None", "PendingNew", "Live", "PendingCancel"}

Quote == [state : QuoteStates, cl_ord_id : Nat, price : Int, qty : Nat]

\* Quote{}
NoQuote == [state |-> "None", cl_ord_id |-> 0, price |-> 0, qty |-> 0]

Terminal == {"Filled", "Canceled", "Rejected"}

\* Mutated form: a partial fill leaves the quantity.
slot_after_same_qty(quote, e) ==
  CASE e.kind = "New"       -> [quote EXCEPT !.state = "Live"]
    [] e.kind \in Terminal  -> NoQuote
    [] OTHER                -> quote

\* One slot after a report that names its order.
slot_after(quote, e) ==
  CASE e.kind = "New"       -> [quote EXCEPT !.state = "Live"]
    [] e.kind = "PartFill"  -> [quote EXCEPT !.qty = e.leaves_qty]
    [] e.kind \in Terminal  -> NoQuote
    [] OTHER                -> quote

\* Mutated form: the comparison of ids is gone.
matches_any_order(q, e, side) == TRUE

\* The loop of on_exec: the first side of the symbol, Buy before Sell, whose
\* cl_ord_id is the report's; a report that names neither changes nothing.
matches(q, e, side) ==
  /\ q[e.symbol_id][side].cl_ord_id = e.cl_ord_id
  /\ side = "Sell" => q[e.symbol_id]["Buy"].cl_ord_id # e.cl_ord_id

on_exec(q, e) ==
  [q EXCEPT ![e.symbol_id] =
     [side \in Sides |-> IF matches(q, e, side)
                         THEN slot_after(q[e.symbol_id][side], e)
                         ELSE q[e.symbol_id][side]]]
=============================================================================

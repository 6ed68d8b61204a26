------------------------------ MODULE MCEngine ------------------------------
(* Small instances of Engine: the market data the venue may send.          *)
EXTENDS EngineInvariant

W(sym, nb, na, b, a) ==
  [Symbol |-> sym, bids |-> nb, asks |-> na, bid_px |-> b, ask_px |-> a]

\* With tick_size 2 and minimum_spread 3: a wide market, the same market one
\* level up, and a narrow one.
MCMoves == {W(0, 1, 1, 10, 20), W(0, 1, 1, 14, 24), W(0, 1, 1, 14, 15)}

\* A wide market, one whose quotes would meet, a book with no offers, a
\* narrow market, and an instrument that is not ours.
MCShapes ==
  {W(0, 1, 1, 10, 20), W(0, 1, 1, 10, 14), W(0, 1, 0, 14, 0),
   W(0, 1, 1, 14, 15), W(NSyms, 1, 1, 10, 20)}

\* One wide market and one narrow one.
MCPhases == {W(0, 1, 1, 10, 20), W(0, 1, 1, 14, 15)}
=============================================================================

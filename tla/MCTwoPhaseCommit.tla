--------------------------- MODULE MCTwoPhaseCommit ---------------------------
(* Two netting workers and one matched pair of two trades.                 *)
EXTENDS TwoPhaseCommit, TLC

CONSTANTS w1, w2, pair1, buyerTrade, sellerTrade

MCWorkers == {w1, w2}
MCMessages == {pair1}
MCTradesOf == (pair1 :> {buyerTrade, sellerTrade})
=============================================================================

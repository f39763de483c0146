--------------------------- MODULE MCTradeMatching ---------------------------
(* Two matching workers and three trades with one key: two buyers' and a   *)
(* seller's, so that a pair can arrive alone, then a third.                *)
EXTENDS TradeMatching, TLC

CONSTANTS w1, w2, buy1, buy2, sell1, eurusd

MCWorkers == {w1, w2}
MCTrades == {buy1, buy2, sell1}
MCKey == [t \in MCTrades |-> eurusd]
MCRole == (buy1 :> "BUYER" @@ buy2 :> "BUYER" @@ sell1 :> "SELLER")
=============================================================================

---------------------------- MODULE MCTradingCycle ----------------------------
(* Instances of the trading cycle for TLC. *)
EXTENDS TradingCycle, TLC

Symmetric == Permutations(Tickers) \cup Permutations(Mids) \cup Permutations(Asks)
==============================================================================

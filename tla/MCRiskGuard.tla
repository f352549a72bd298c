----------------------------- MODULE MCRiskGuard -----------------------------
(* Instances of the risk guards for TLC. *)
EXTENDS RiskGuard, TLC

Symmetric == Permutations(Tickers) \cup Permutations(Cids)
==============================================================================

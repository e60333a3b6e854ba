---------------------------- MODULE MCRiskEngine ----------------------------
(***************************************************************************)
(* Small instances of RiskEngine: one or two operators, one or two checks. *)
(***************************************************************************)
EXTENDS RiskEngine, TLC

CONSTANTS w1, w2, c1, c2, stock, kalshi, none

OneOperator  == {w1}
TwoOperators == {w1, w2}
OneCheck     == {c1}
TwoChecks    == {c1, c2}
OneMarket    == {stock}
TwoMarkets   == {stock, kalshi}
Symmetry == Permutations(Operators) \cup Permutations(Checks) \cup Permutations(Markets)
=============================================================================

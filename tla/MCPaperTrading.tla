--------------------------- MODULE MCPaperTrading ---------------------------
(* Small instances of PaperTrading. *)
EXTENDS PaperTrading, TLC

CONSTANTS r1, r2, r3, s1, s2, k, x

TwoRuns == {r1, r2}
ThreeRuns == {r1, r2, r3}
OneStrategy == {s1}
TwoStrategies == {s1, s2}
KalshiOnly == {k}
StockOnly == {x}
Both == {k, x}
NoTickers == {}
OnePrice == {10}
OneOrTwo == {1, 2}

\* Calls are interchangeable, and so are strategies.
Symmetry == Permutations(Runs) \cup Permutations(Strategies)
=============================================================================

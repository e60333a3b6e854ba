---------------------------- MODULE MCLifecycle ----------------------------
(***************************************************************************)
(* Instance of Lifecycle for TLC: a buy or a sell of two units, partial    *)
(* and full allocations, provider executions of one or two units, enough   *)
(* source events for a lifecycle with two fills and failure evidence.      *)
(***************************************************************************)
EXTENDS Lifecycle, TLC

MCDeltas == {-2, 1, 2}
MCFillSizes == {1, 2}

SourceSymmetry == Permutations(Sources)
=============================================================================

------------------------ MODULE MCFinancialScheduler ------------------------
(* Two runs under one owner identity: the fence alone tells them apart. *)
EXTENDS FinancialScheduler

CONSTANTS r1, r2, o1

MCOwner == [r \in Runners |-> o1]
=============================================================================

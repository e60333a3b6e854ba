-------------------------- MODULE MCLifecycleStore --------------------------
(***************************************************************************)
(* Two writers on one intent to buy two units.  The observations include a *)
(* redelivered execution, one source reported with two quantities, a       *)
(* cancellation racing the fills and a bust.                               *)
(***************************************************************************)
EXTENDS LifecycleStore

CONSTANTS s1, s2, s3, s4, s6, s7, s8, x1

MCDeltas == {2}
MCFillSizes == {1, 2}

Obs(k, s, q, x) == [kind |-> k, source |-> s, quantity |-> q, external |-> x]

MCObservations ==
  { Obs("intent_proposed", s1, 2, NoBinding),
    Obs("intent_allocated", s2, 2, NoBinding),
    Obs("risk_approved", s3, 0, NoBinding),
    Obs("order_routed", s4, 0, NoBinding),
    Obs("fill", s6, 1, x1),
    Obs("fill", s6, 2, x1),
    Obs("fill", s7, 1, x1),
    Obs("order_cancelled", s8, 0, NoBinding),
    Obs("fill_bust_observed", s6, 0, NoBinding) }
=============================================================================

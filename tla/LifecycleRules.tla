--------------------------- MODULE LifecycleRules ---------------------------
(***************************************************************************)
(* The vocabulary of internal/execution/lifecycle: states, event kinds,    *)
(* identities, and the legal transitions.  The database repeats the same   *)
(* table in execution_lifecycle_transition_is_valid.                       *)
(*                                                                         *)
(* Quantities are exact decimals in the code and integers here.  Source    *)
(* evidence, timestamps, actors and policies are carried by the events and *)
(* are abstracted to the identity of the source event.                     *)
(***************************************************************************)
EXTENDS Integers

CONSTANTS Deltas,       \* signed quantities proposed and allocated
          FillSizes,    \* quantities one provider execution may report
          Sources,      \* source event identities
          ExternalIDs,  \* venue order identifiers
          NoBinding     \* the nil binding

ASSUME DeltasAssumption  == Deltas \subseteq Int \ {0}
ASSUME FillsAssumption   == FillSizes \subseteq Nat \ {0}
ASSUME BindingAssumption == NoBinding \notin ExternalIDs

State == {"none", "proposed", "allocated", "risk_approved", "risk_rejected",
          "routed", "working", "partially_filled", "filled", "cancelled",
          "expired", "rejected", "failed_reconciliation"}

EventKind == {"intent_proposed", "intent_allocated", "risk_approved",
              "risk_rejected", "order_routed", "order_working",
              "cancel_requested", "fill_acknowledged", "fill_recorded",
              "order_cancelled", "order_expired", "order_rejected",
              "unknown_venue_state", "contradictory_venue_state",
              "fill_correction_observed", "fill_bust_observed"}

ObservationClass == {"ordinary", "correction", "bust"}

\* The deterministic event ID: class and (original) source event.  The
\* correction discriminator is left out: a lifecycle accepts at most one
\* correction or bust, since either one makes it failed_reconciliation.
EventID == [class : ObservationClass, source : Sources]

Abs(q)  == IF q < 0 THEN -q ELSE q
Sign(q) == IF q < 0 THEN -1 ELSE IF q = 0 THEN 0 ELSE 1

sideForDelta(q) == IF q < 0 THEN "sell" ELSE "buy"

NoOrder == [side |-> "none", quantity |-> 0]

OrderOf(q) == [side |-> sideForDelta(q), quantity |-> Abs(q)]

Fill == [source : Sources, quantity : FillSizes]

(***************************************************************************)
(* The pair of states a kind of event may connect.                         *)
(***************************************************************************)
\* Mutant: a cancelled order still counts as open.
OpenOrCancelled == {"routed", "working", "partially_filled", "cancelled"}

Open == {"routed", "working", "partially_filled"}

TerminalKind == [order_cancelled |-> "cancelled", order_expired |-> "expired",
                 order_rejected |-> "rejected"]

FailureKind == {"unknown_venue_state", "contradictory_venue_state",
                "fill_correction_observed", "fill_bust_observed"}

validEventTransition(kind, class, prior, next) ==
  \/ /\ class \in {"correction", "bust"}
     /\ kind \in {"fill_correction_observed", "fill_bust_observed"}
     /\ prior \notin {"none", "failed_reconciliation"}
     /\ next = "failed_reconciliation"
  \/ /\ class = "ordinary"
     /\ \/ kind = "intent_proposed"  /\ prior = "none"          /\ next = "proposed"
        \/ kind = "intent_allocated" /\ prior = "proposed"      /\ next = "allocated"
        \/ kind = "risk_approved"    /\ prior = "allocated"     /\ next = "risk_approved"
        \/ kind = "risk_rejected"    /\ prior = "allocated"     /\ next = "risk_rejected"
        \/ kind = "order_routed"     /\ prior = "risk_approved" /\ next = "routed"
        \/ kind = "order_working"    /\ prior = "routed"        /\ next = "working"
        \/ kind = "cancel_requested" /\ prior \in {"working", "partially_filled"} /\ next = prior
        \/ kind = "fill_acknowledged" /\ prior = "routed" /\ next \in {"partially_filled", "filled"}
        \/ kind = "fill_recorded" /\ prior \in {"working", "partially_filled"}
                                  /\ next \in {"partially_filled", "filled"}
        \/ kind = "order_cancelled" /\ prior \in Open /\ next = "cancelled"
        \/ kind = "order_expired"   /\ prior \in Open /\ next = "expired"
        \/ kind = "order_rejected"  /\ prior \in Open /\ next = "rejected"
        \/ /\ kind \in {"unknown_venue_state", "contradictory_venue_state"}
           /\ prior \notin {"none", "failed_reconciliation"}
           /\ next = "failed_reconciliation"
=============================================================================

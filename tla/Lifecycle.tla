----------------------------- MODULE Lifecycle -----------------------------
(***************************************************************************)
(* The common execution lifecycle of one intent, as the domain package     *)
(* internal/execution/lifecycle promises it: one proposal, one allocation, *)
(* one risk decision, at most one order, at most one external binding and  *)
(* fills that never exceed the order.  Every action is one constructor of  *)
(* the package (Propose, Allocate, Route, RecordFill, ...) followed by the *)
(* ApplyTransition that accepts what the constructor built.                *)
(***************************************************************************)
EXTENDS LifecycleRules, Functions

VARIABLES state,      \* Aggregate.State
          desired,    \* Intent.DesiredQuantityDelta, 0 before the proposal
          allocated,  \* Aggregate.AllocatedQuantity, 0 for nil
          order,      \* Aggregate.Order, NoOrder for nil
          binding,    \* Aggregate.Binding.ExternalOrderID, NoBinding for nil
          fills,      \* Aggregate.Fills: the executions recorded so far
          filled,     \* CumulativeFillQuantity of the last fill event
          seen,       \* identities of the events recorded so far
          kinds       \* kinds of the events recorded so far

vars == <<state, desired, allocated, order, binding, fills, filled, seen, kinds>>

(***************************************************************************)
(* What every accepted event does: it is new (Replay refuses a repeated    *)
(* event ID), its transition is legal, it moves the state and is           *)
(* remembered.                                                             *)
(***************************************************************************)
\* Mutant: a replayed event identity is not recognised.
RecordRepeat(kind, class, s, next) ==
  /\ validEventTransition(kind, class, state, next)
  /\ state' = next
  /\ seen'  = seen \cup {[class |-> class, source |-> s]}
  /\ kinds' = kinds \cup {kind}

Record(kind, class, s, next) ==
  /\ [class |-> class, source |-> s] \notin seen
  /\ validEventTransition(kind, class, state, next)
  /\ state' = next
  /\ seen'  = seen \cup {[class |-> class, source |-> s]}
  /\ kinds' = kinds \cup {kind}

Init ==
  /\ state = "none"
  /\ desired = 0
  /\ allocated = 0
  /\ order = NoOrder
  /\ binding = NoBinding
  /\ fills = {}
  /\ filled = 0
  /\ seen = {}
  /\ kinds = {}

Propose(d, s) ==
  /\ Record("intent_proposed", "ordinary", s, "proposed")
  /\ desired' = d
  /\ UNCHANGED <<allocated, order, binding, fills, filled>>

\* An allocation may shrink the desired change, never enlarge or reverse it.
Allocate(q, s) ==
  /\ Sign(q) = Sign(desired)
  /\ Abs(q) <= Abs(desired)
  /\ Record("intent_allocated", "ordinary", s, "allocated")
  /\ allocated' = q
  /\ UNCHANGED <<desired, order, binding, fills, filled>>

ApproveRisk(s) ==
  /\ allocated # 0
  /\ Record("risk_approved", "ordinary", s, "risk_approved")
  /\ UNCHANGED <<desired, allocated, order, binding, fills, filled>>

RejectRisk(s) ==
  /\ allocated # 0
  /\ Record("risk_rejected", "ordinary", s, "risk_rejected")
  /\ UNCHANGED <<desired, allocated, order, binding, fills, filled>>

\* Mutant: the order takes the desired quantity, not the allocation.
RouteDesired(s) ==
  /\ allocated # 0
  /\ order = NoOrder
  /\ Record("order_routed", "ordinary", s, "routed")
  /\ order' = OrderOf(desired)
  /\ UNCHANGED <<desired, allocated, binding, fills, filled>>

\* The one order copies the approved allocation exactly.
Route(s) ==
  /\ allocated # 0
  /\ order = NoOrder
  /\ Record("order_routed", "ordinary", s, "routed")
  /\ order' = OrderOf(allocated)
  /\ UNCHANGED <<desired, allocated, binding, fills, filled>>

Acknowledge(x, s) ==
  /\ order # NoOrder
  /\ binding = NoBinding
  /\ Record("order_working", "ordinary", s, "working")
  /\ binding' = x
  /\ UNCHANGED <<desired, allocated, order, fills, filled>>

RequestCancel(s) ==
  /\ order # NoOrder
  /\ binding # NoBinding
  /\ Record("cancel_requested", "ordinary", s, state)
  /\ UNCHANGED <<desired, allocated, order, binding, fills, filled>>

\* A terminal status may precede the binding only straight after the route.
ObserveOrderTerminal(kind, s) ==
  /\ order # NoOrder
  /\ state \in {"working", "partially_filled"} => binding # NoBinding
  /\ Record(kind, "ordinary", s, TerminalKind[kind])
  /\ UNCHANGED <<desired, allocated, order, binding, fills, filled>>

\* Mutant: the cumulative quantity is not compared with the order.
RecordFillUnchecked(q, x, s) ==
  /\ order # NoOrder
  /\ IF state = "routed" THEN binding = NoBinding ELSE x = binding
  /\ Record(IF state = "routed" THEN "fill_acknowledged" ELSE "fill_recorded",
            "ordinary", s,
            IF filled + q >= order.quantity THEN "filled" ELSE "partially_filled")
  /\ binding' = x
  /\ fills' = fills \cup {[source |-> s, quantity |-> q]}
  /\ filled' = filled + q
  /\ UNCHANGED <<desired, allocated, order>>

\* The first observation after the route also establishes the binding.
RecordFill(q, x, s) ==
  LET cumulative == filled + q
      next == IF cumulative = order.quantity THEN "filled" ELSE "partially_filled"
      kind == IF state = "routed" THEN "fill_acknowledged" ELSE "fill_recorded"
  IN /\ order # NoOrder
     /\ allocated # 0
     /\ cumulative <= order.quantity
     /\ IF state = "routed" THEN binding = NoBinding ELSE x = binding
     /\ Record(kind, "ordinary", s, next)
     /\ binding' = x
     /\ fills' = fills \cup {[source |-> s, quantity |-> q]}
     /\ filled' = cumulative
     /\ UNCHANGED <<desired, allocated, order>>

\* Failure evidence changes the state and no economic fact.
FailReconciliation(kind, s) ==
  LET class == CASE kind = "fill_correction_observed" -> "correction"
                 [] kind = "fill_bust_observed" -> "bust"
                 [] OTHER -> "ordinary"
  IN /\ class # "ordinary" => \E f \in fills : f.source = s
     /\ Record(kind, class, s, "failed_reconciliation")
     /\ UNCHANGED <<desired, allocated, order, binding, fills, filled>>

Next ==
  \E s \in Sources :
    \/ \E d \in Deltas : Propose(d, s)
    \/ \E q \in Deltas : Allocate(q, s)
    \/ ApproveRisk(s)
    \/ RejectRisk(s)
    \/ Route(s)
    \/ \E x \in ExternalIDs : Acknowledge(x, s)
    \/ RequestCancel(s)
    \/ \E kind \in DOMAIN TerminalKind : ObserveOrderTerminal(kind, s)
    \/ \E q \in FillSizes, x \in ExternalIDs : RecordFill(q, x, s)
    \/ \E kind \in FailureKind : FailReconciliation(kind, s)

Spec == Init /\ [][Next]_vars

RecoveryEligible == order # NoOrder /\ state \in Open

-----------------------------------------------------------------------------
Closed == {"risk_rejected", "filled", "cancelled", "expired", "rejected",
           "failed_reconciliation"}

\* Every field of the aggregate has its type.
TypeOK ==
  /\ state \in State
  /\ desired \in Deltas \cup {0}
  /\ allocated \in Deltas \cup {0}
  /\ order \in [side : {"none", "buy", "sell"}, quantity : Nat]
  /\ binding \in ExternalIDs \cup {NoBinding}
  /\ fills \subseteq Fill
  /\ filled \in Nat
  /\ seen \subseteq EventID
  /\ kinds \subseteq EventKind

\* RecordFill never overfills the order, whatever executions the provider
\* reports, and the lifecycle is "filled" exactly when the order is complete.
FillsWithinOrder ==
  /\ filled <= order.quantity
  /\ state = "filled" => filled = order.quantity
  /\ state \in Open /\ order # NoOrder => filled < order.quantity
  /\ state \in {"none", "proposed", "allocated", "risk_approved", "risk_rejected"}
       => order = NoOrder

\* What reaches the venue is what risk approved: an order exists only after an
\* approval, never together with a rejection, in the direction of the intent,
\* for exactly the allocated quantity and for no more than was desired.
OrderCarriesApproval ==
  order # NoOrder =>
    /\ "risk_approved" \in kinds
    /\ "risk_rejected" \notin kinds
    /\ order = OrderOf(allocated)
    /\ Sign(allocated) = Sign(desired)
    /\ order.quantity <= Abs(desired)

\* An execution is never recorded without the binding that identifies the
\* external order, and the binding never exists without the order.
FillsAreBound ==
  /\ fills # {} => binding # NoBinding
  /\ binding # NoBinding => order # NoOrder
  /\ state \in {"working", "partially_filled", "filled"} => binding # NoBinding

\* The cumulative quantity the events carry is the sum of the executions
\* recorded, and no provider execution is recorded twice.
CumulativeIsSum ==
  /\ filled = SumFunctionOnSet([f \in fills |-> f.quantity], fills)
  /\ \A f, g \in fills : f.source = g.source => f = g

\* Facts are append-only: no later event, failure evidence included, changes
\* the allocation, the order, the binding or an execution already recorded.
FactsAreImmutable ==
  [][ /\ desired # 0 => desired' = desired
      /\ allocated # 0 => allocated' = allocated
      /\ order # NoOrder => order' = order
      /\ binding # NoBinding => binding' = binding
      /\ fills \subseteq fills'
      /\ filled <= filled'
      /\ seen \subseteq seen' ]_vars

\* A closed lifecycle accepts failure evidence at most, and failed
\* reconciliation is final; only a lifecycle that restart handling would pick
\* up (RecoveryEligible) can still gain an execution.
ClosedIsFinal ==
  [][ /\ state \in Closed => state' = "failed_reconciliation"
      /\ state # "failed_reconciliation"
      /\ fills' # fills => RecoveryEligible ]_vars
=============================================================================

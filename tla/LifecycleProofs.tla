-------------------------- MODULE LifecycleProofs --------------------------
(***************************************************************************)
(* Proofs, for every set of quantities, sources and external identifiers,  *)
(* of the safety properties of Lifecycle.                                  *)
(***************************************************************************)
EXTENDS Lifecycle, SumTheorems, TLAPS

\* What the safety properties need to be inductive: nothing is decided before
\* its state, a decision of the risk step is remembered, and an allocation
\* stays within the intent whether or not it was routed.
Decided ==
  /\ state = "none" => desired = 0
  /\ state \in {"none", "proposed"} => allocated = 0
  /\ state = "risk_approved" => "risk_approved" \in kinds
  /\ state \notin {"risk_rejected", "failed_reconciliation"} => "risk_rejected" \notin kinds
  /\ allocated # 0 => /\ Sign(allocated) = Sign(desired)
                      /\ Abs(allocated) <= Abs(desired)

\* The executions are finitely many, and the event of each is remembered.
FillsAreSeen ==
  /\ IsFiniteSet(fills)
  /\ \A f \in fills : [class |-> "ordinary", source |-> f.source] \in seen

Facts == /\ TypeOK
         /\ FillsWithinOrder
         /\ OrderCarriesApproval
         /\ FillsAreBound
         /\ Decided

IInv == Facts /\ CumulativeIsSum /\ FillsAreSeen

-----------------------------------------------------------------------------
\* An order taken from a nonzero allocation is a real one: it has a side and a
\* positive quantity (sideForDelta, Abs in Route).
LEMMA OrderOfAllocation ==
  ASSUME NEW q \in Deltas
  PROVE  /\ OrderOf(q) \in [side : {"none", "buy", "sell"}, quantity : Nat]
         /\ OrderOf(q) # NoOrder
         /\ OrderOf(q).quantity = Abs(q)
         /\ Abs(q) > 0
BY DeltasAssumption DEF OrderOf, NoOrder, sideForDelta, Abs

\* The initial state satisfies the inductive invariant.
LEMMA InitIInv == Init => IInv
<1> SUFFICES ASSUME Init PROVE IInv
  OBVIOUS
<1>1. Facts
  BY DEF Init, Facts, TypeOK, FillsWithinOrder, OrderCarriesApproval, FillsAreBound,
         Decided, State, NoOrder, Open
<1>2. fills = {} /\ filled = 0
  BY DEF Init
<1>3. CumulativeIsSum
  BY <1>2, SumEmpty DEF CumulativeIsSum
<1>4. FillsAreSeen
  BY <1>2, FS_EmptySet DEF FillsAreSeen
<1> QED
  BY <1>1, <1>3, <1>4 DEF IInv

\* Recording an event keeps the state and the event sets typed.
LEMMA RecordTypes ==
  ASSUME TypeOK, NEW kind \in EventKind, NEW class \in ObservationClass,
         NEW s \in Sources, NEW next \in State, Record(kind, class, s, next)
  PROVE  /\ state' \in State
         /\ seen' \subseteq EventID
         /\ kinds' \subseteq EventKind
BY DEF Record, TypeOK, EventID

\* Every action preserves what is decided, ordered, bound and filled.
LEMMA NextFacts == Facts /\ [Next]_vars => Facts'
<1> SUFFICES ASSUME Facts, [Next]_vars PROVE Facts'
  OBVIOUS
<1> USE DEF Facts
<1>1. ASSUME NEW s \in Sources, NEW d \in Deltas, Propose(d, s) PROVE Facts'
  BY <1>1, DeltasAssumption DEF Propose, Record, validEventTransition, TypeOK, FillsWithinOrder,
     OrderCarriesApproval, FillsAreBound, Decided, State, EventKind, EventID, ObservationClass, Open
<1>2. ASSUME NEW s \in Sources, NEW q \in Deltas, Allocate(q, s) PROVE Facts'
  BY <1>2, DeltasAssumption DEF Allocate, Record, validEventTransition, TypeOK, FillsWithinOrder,
     OrderCarriesApproval, FillsAreBound, Decided, State, EventKind, EventID, ObservationClass, Open
<1>3. ASSUME NEW s \in Sources, ApproveRisk(s) PROVE Facts'
  BY <1>3 DEF ApproveRisk, Record, validEventTransition, TypeOK, FillsWithinOrder,
     OrderCarriesApproval, FillsAreBound, Decided, State, EventKind, EventID, ObservationClass, Open
<1>4. ASSUME NEW s \in Sources, RejectRisk(s) PROVE Facts'
  BY <1>4 DEF RejectRisk, Record, validEventTransition, TypeOK, FillsWithinOrder,
     OrderCarriesApproval, FillsAreBound, Decided, State, EventKind, EventID, ObservationClass, Open
<1>5. ASSUME NEW s \in Sources, Route(s) PROVE Facts'
  <2>1. allocated \in Deltas
    BY <1>5 DEF Route, TypeOK
  <2>2. filled = 0
    BY <1>5 DEF Route, TypeOK, FillsWithinOrder, NoOrder
  <2> QED
    BY <1>5, <2>1, <2>2, OrderOfAllocation DEF Route, Record, validEventTransition, TypeOK, FillsWithinOrder,
     OrderCarriesApproval, FillsAreBound, Decided, State, EventKind, EventID, ObservationClass, Open
<1>6. ASSUME NEW s \in Sources, NEW x \in ExternalIDs, Acknowledge(x, s) PROVE Facts'
  BY <1>6, BindingAssumption DEF Acknowledge, Record, validEventTransition, TypeOK, FillsWithinOrder,
     OrderCarriesApproval, FillsAreBound, Decided, State, EventKind, EventID, ObservationClass, Open
<1>7. ASSUME NEW s \in Sources, RequestCancel(s) PROVE Facts'
  BY <1>7 DEF RequestCancel, Record, validEventTransition, TypeOK, FillsWithinOrder,
     OrderCarriesApproval, FillsAreBound, Decided, State, EventKind, EventID, ObservationClass, Open
<1>8. ASSUME NEW s \in Sources, NEW kind \in DOMAIN TerminalKind, ObserveOrderTerminal(kind, s) PROVE Facts'
  <2>1. /\ kind \in {"order_cancelled", "order_expired", "order_rejected"}
        /\ TerminalKind[kind] \in {"cancelled", "expired", "rejected"}
    BY DEF TerminalKind
  <2>2. /\ Record(kind, "ordinary", s, TerminalKind[kind])
        /\ UNCHANGED <<desired, allocated, order, binding, fills, filled>>
    BY <1>8 DEF ObserveOrderTerminal
  <2>3. TypeOK'
    <3>1. /\ state' \in State
          /\ seen' \subseteq EventID
          /\ kinds' \subseteq EventKind
      BY <2>1, <2>2, RecordTypes DEF EventKind, ObservationClass, State
    <3> QED
      BY <2>2, <3>1 DEF TypeOK
  <2> QED
    BY <2>1, <2>2, <2>3 DEF Record, validEventTransition, FillsWithinOrder,
       OrderCarriesApproval, FillsAreBound, Decided, Open
<1>9. ASSUME NEW s \in Sources, NEW q \in FillSizes, NEW x \in ExternalIDs, RecordFill(q, x, s) PROVE Facts'
  <2> DEFINE next == IF filled + q = order.quantity THEN "filled" ELSE "partially_filled"
             kind == IF state = "routed" THEN "fill_acknowledged" ELSE "fill_recorded"
  <2>1. Record(kind, "ordinary", s, next)
    BY <1>9 DEF RecordFill
  <2>2. /\ order # NoOrder
        /\ filled + q <= order.quantity
        /\ binding' = x
        /\ fills' = fills \cup {[source |-> s, quantity |-> q]}
        /\ filled' = filled + q
        /\ UNCHANGED <<desired, allocated, order>>
    BY <1>9 DEF RecordFill
  <2>3. /\ state' = next
        /\ state \in Open
        /\ kinds' = kinds \cup {kind}
    BY <2>1 DEF Record, validEventTransition, Open
  <2>4. q \in Nat /\ q > 0 /\ filled \in Nat /\ order.quantity \in Nat
    BY FillsAssumption DEF TypeOK
  <2>5. TypeOK'
    <3>1. /\ state' \in State
          /\ seen' \subseteq EventID
          /\ kinds' \subseteq EventKind
      BY <2>1, RecordTypes DEF EventKind, ObservationClass, State
    <3>2. fills' \subseteq Fill
      BY <2>2 DEF TypeOK, Fill
    <3> QED
      BY <2>2, <2>4, <3>1, <3>2 DEF TypeOK
  <2>6. FillsWithinOrder'
    BY <2>2, <2>3, <2>4 DEF FillsWithinOrder, Open
  <2>7. (OrderCarriesApproval /\ Decided)'
    BY <2>2, <2>3 DEF OrderCarriesApproval, Decided, Open
  <2>8. FillsAreBound'
    BY <2>2, BindingAssumption DEF FillsAreBound
  <2> QED
    BY <2>5, <2>6, <2>7, <2>8
<1>10. ASSUME NEW s \in Sources, NEW kind \in FailureKind, FailReconciliation(kind, s) PROVE Facts'
  BY <1>10 DEF FailReconciliation, FailureKind, Record, validEventTransition, TypeOK, FillsWithinOrder,
     OrderCarriesApproval, FillsAreBound, Decided, State, EventKind, EventID, ObservationClass, Open
<1>11. CASE UNCHANGED vars
  BY <1>11 DEF vars, TypeOK, FillsWithinOrder, OrderCarriesApproval, FillsAreBound, Decided
<1> QED
  BY <1>1, <1>2, <1>3, <1>4, <1>5, <1>6, <1>7, <1>8, <1>9, <1>10, <1>11 DEF Next

\* The events of a lifecycle accumulate.
LEMMA SeenGrows ==
  ASSUME NEW kind, NEW class, NEW s, NEW next, Record(kind, class, s, next)
  PROVE  seen \subseteq seen'
BY DEF Record

\* An action that records no execution leaves the sum alone.
LEMMA SameFills ==
  ASSUME CumulativeIsSum, FillsAreSeen, UNCHANGED <<fills, filled>>, seen \subseteq seen'
  PROVE  CumulativeIsSum' /\ FillsAreSeen'
<1>1. fills' = fills /\ filled' = filled
  OBVIOUS
<1>2. CumulativeIsSum'
  BY <1>1 DEF CumulativeIsSum
<1>3. FillsAreSeen'
  BY <1>1 DEF FillsAreSeen
<1> QED
  BY <1>2, <1>3

\* A new execution is one whose event was not seen, so it is not among the
\* executions recorded and adds exactly its quantity to their sum (RecordFill).
LEMMA OneMoreFill ==
  ASSUME Facts, CumulativeIsSum, FillsAreSeen, NEW s \in Sources, NEW q \in FillSizes,
         NEW x \in ExternalIDs, RecordFill(q, x, s)
  PROVE  CumulativeIsSum' /\ FillsAreSeen'
<1> DEFINE n == [source |-> s, quantity |-> q]
           Q == [f \in fills |-> f.quantity]
           R == [f \in fills' |-> f.quantity]
<1>1. /\ fills' = fills \cup {n}
      /\ filled' = filled + q
      /\ [class |-> "ordinary", source |-> s] \notin seen
      /\ seen' = seen \cup {[class |-> "ordinary", source |-> s]}
  BY DEF RecordFill, Record
<1>2. n.source = s /\ n.quantity = q
  OBVIOUS
<1> HIDE DEF n
<1>3. \A f \in fills : f.source # s
  BY <1>1 DEF FillsAreSeen
<1>4. n \notin fills
  BY <1>2, <1>3
<1>5. IsFiniteSet(fills) /\ IsFiniteSet(fills')
  BY <1>1, FS_AddElement DEF FillsAreSeen
<1>6. \A f \in fills' : f.quantity \in Int
  <2>1. \A k \in FillSizes : k \in Int
    BY FillsAssumption
  <2>2. \A f \in fills : f.quantity \in FillSizes
    BY DEF Facts, TypeOK, Fill
  <2> QED
    BY <1>1, <1>2, <2>1, <2>2
<1>7. /\ \A f \in fills : Q[f] \in Int /\ Q[f] = R[f]
      /\ \A f \in fills \cup {n} : R[f] \in Int
      /\ R[n] = q
  BY <1>1, <1>2, <1>6
<1> HIDE DEF Q, R
<1>8. SumFunctionOnSet(R, fills \cup {n}) = SumFunctionOnSet(R, fills) + q
  BY <1>4, <1>5, <1>7, SumInsert, Zenon
<1>9. SumFunctionOnSet(Q, fills) = SumFunctionOnSet(R, fills)
  BY <1>5, <1>7, SumCongruence
<1>10. CumulativeIsSum'
  <2>1. filled = SumFunctionOnSet(Q, fills)
    BY DEF CumulativeIsSum, Q
  <2>2. filled' = SumFunctionOnSet(R, fills')
    BY <1>1, <1>8, <1>9, <2>1
  <2>3. \A f, g \in fills' : f.source = g.source => f = g
    BY <1>1, <1>2, <1>3 DEF CumulativeIsSum
  <2> QED
    BY <2>2, <2>3 DEF CumulativeIsSum, R
<1>11. FillsAreSeen'
  BY <1>1, <1>2, <1>5 DEF FillsAreSeen
<1> QED
  BY <1>10, <1>11

\* Every action preserves the inductive invariant.
LEMMA NextIInv == IInv /\ [Next]_vars => IInv'
<1> SUFFICES ASSUME IInv, [Next]_vars PROVE IInv'
  OBVIOUS
<1>1. Facts'
  BY NextFacts DEF IInv
<1>2. ASSUME NEW s \in Sources, NEW q \in FillSizes, NEW x \in ExternalIDs, RecordFill(q, x, s)
      PROVE  CumulativeIsSum' /\ FillsAreSeen'
  BY <1>2, OneMoreFill DEF IInv
<1>3. ASSUME UNCHANGED <<fills, filled>> /\ seen \subseteq seen'
      PROVE  CumulativeIsSum' /\ FillsAreSeen'
  BY <1>3, SameFills DEF IInv
<1>4. ASSUME NEW s \in Sources, NEW d \in Deltas, Propose(d, s) \/ Allocate(d, s)
      PROVE  UNCHANGED <<fills, filled>> /\ seen \subseteq seen'
  BY <1>4, SeenGrows DEF Propose, Allocate
<1>5. ASSUME NEW s \in Sources, ApproveRisk(s) \/ RejectRisk(s) \/ Route(s) \/ RequestCancel(s)
      PROVE  UNCHANGED <<fills, filled>> /\ seen \subseteq seen'
  BY <1>5, SeenGrows DEF ApproveRisk, RejectRisk, Route, RequestCancel
<1>6. ASSUME NEW s \in Sources, NEW x \in ExternalIDs, Acknowledge(x, s)
      PROVE  UNCHANGED <<fills, filled>> /\ seen \subseteq seen'
  BY <1>6, SeenGrows DEF Acknowledge
<1>7. ASSUME NEW s \in Sources, NEW kind \in DOMAIN TerminalKind, ObserveOrderTerminal(kind, s)
      PROVE  UNCHANGED <<fills, filled>> /\ seen \subseteq seen'
  BY <1>7, SeenGrows DEF ObserveOrderTerminal
<1>8. ASSUME NEW s \in Sources, NEW kind \in FailureKind, FailReconciliation(kind, s)
      PROVE  UNCHANGED <<fills, filled>> /\ seen \subseteq seen'
  BY <1>8, SeenGrows DEF FailReconciliation
<1>9. CumulativeIsSum' /\ FillsAreSeen'
  BY <1>2, <1>3, <1>4, <1>5, <1>6, <1>7, <1>8 DEF Next, vars
<1> QED
  BY <1>1, <1>9 DEF IInv

\* The inductive invariant holds in every reachable state.
THEOREM Invariance == Spec => []IInv
<1>1. Init => IInv
  BY InitIInv
<1>2. IInv /\ [Next]_vars => IInv'
  BY NextIInv
<1> QED
  BY <1>1, <1>2, PTL DEF Spec

\* For every set of quantities and every stream of provider executions, fills
\* never exceed the order and "filled" means complete (RecordFill).
THEOREM FillsNeverExceedOrder == Spec => []FillsWithinOrder
BY Invariance, PTL DEF IInv, Facts

\* Every order that exists carries the approved allocation and nothing else
\* (Allocate, riskTransition, Route).
THEOREM OrdersCarryApproval == Spec => []OrderCarriesApproval
BY Invariance, PTL DEF IInv, Facts

\* Executions are always tied to the one external order (newOrderBinding).
THEOREM ExecutionsAreBound == Spec => []FillsAreBound
BY Invariance, PTL DEF IInv, Facts

\* Whatever is redelivered, the cumulative quantity is the sum of distinct
\* executions (RecordFill, eventIdentitySourceEventID).
THEOREM FillsAreCountedOnce == Spec => []CumulativeIsSum
BY Invariance, PTL DEF IInv

\* No event changes a fact an earlier event established (ApplyTransition).
THEOREM FactsNeverChange == Spec => FactsAreImmutable
<1> DEFINE A == /\ desired # 0 => desired' = desired
                /\ allocated # 0 => allocated' = allocated
                /\ order # NoOrder => order' = order
                /\ binding # NoBinding => binding' = binding
                /\ fills \subseteq fills'
                /\ filled <= filled'
                /\ seen \subseteq seen'
<1>1. ASSUME IInv, [Next]_vars PROVE [A]_vars
  <2>0. filled <= filled /\ \A q \in FillSizes : filled <= filled + q
    BY <1>1, FillsAssumption DEF IInv, Facts, TypeOK
  <2>1. ASSUME NEW s \in Sources, NEW d \in Deltas, Propose(d, s) PROVE A
    BY <1>1, <2>0, <2>1 DEF Propose, Record, validEventTransition, IInv, Facts, Decided
  <2>2. ASSUME NEW s \in Sources, NEW q \in Deltas, Allocate(q, s) PROVE A
    BY <1>1, <2>0, <2>2 DEF Allocate, Record, validEventTransition, IInv, Facts, Decided
  <2>3. ASSUME NEW s \in Sources, ApproveRisk(s) \/ RejectRisk(s) \/ RequestCancel(s) PROVE A
    BY <2>0, <2>3 DEF ApproveRisk, RejectRisk, RequestCancel, Record
  <2>4. ASSUME NEW s \in Sources, Route(s) PROVE A
    BY <2>0, <2>4 DEF Route, Record
  <2>5. ASSUME NEW s \in Sources, NEW x \in ExternalIDs, Acknowledge(x, s) PROVE A
    BY <2>0, <2>5 DEF Acknowledge, Record
  <2>6. ASSUME NEW s \in Sources, NEW kind \in DOMAIN TerminalKind, ObserveOrderTerminal(kind, s) PROVE A
    BY <2>0, <2>6 DEF ObserveOrderTerminal, Record
  <2>7. ASSUME NEW s \in Sources, NEW q \in FillSizes, NEW x \in ExternalIDs, RecordFill(q, x, s) PROVE A
    BY <2>0, <2>7 DEF RecordFill, Record
  <2>8. ASSUME NEW s \in Sources, NEW kind \in FailureKind, FailReconciliation(kind, s) PROVE A
    BY <2>0, <2>8 DEF FailReconciliation, Record
  <2> QED
    BY <1>1, <2>1, <2>2, <2>3, <2>4, <2>5, <2>6, <2>7, <2>8 DEF Next
<1> QED
  BY <1>1, Invariance, PTL DEF Spec, FactsAreImmutable

\* A closed lifecycle takes failure evidence at most, and only an open one with
\* an order gains an execution (validEventTransition, RecoveryEligible).
THEOREM ClosedStaysClosed == Spec => ClosedIsFinal
<1> DEFINE A == /\ state \in Closed => state' = "failed_reconciliation"
                /\ state # "failed_reconciliation"
                /\ fills' # fills => RecoveryEligible
<1>1. ASSUME [Next]_vars PROVE [A]_vars
  <2>1. ASSUME NEW s, NEW kind, NEW class, NEW next, Record(kind, class, s, next)
        PROVE  /\ state \in Closed => state' = "failed_reconciliation"
               /\ state # "failed_reconciliation"
    BY <2>1 DEF Record, validEventTransition, Closed, Open
  <2>2. ASSUME NEW s \in Sources, NEW q \in FillSizes, NEW x \in ExternalIDs, RecordFill(q, x, s) PROVE A
    <3>1. RecoveryEligible
      BY <2>2 DEF RecordFill, Record, validEventTransition, RecoveryEligible, Open
    <3> QED
      BY <2>1, <2>2, <3>1 DEF RecordFill
  <2>3. ASSUME NEW s \in Sources, ApproveRisk(s) \/ RejectRisk(s) \/ RequestCancel(s) \/ Route(s) PROVE A
    BY <2>1, <2>3 DEF ApproveRisk, RejectRisk, RequestCancel, Route
  <2>4. ASSUME NEW s \in Sources, NEW d \in Deltas, Propose(d, s) \/ Allocate(d, s) PROVE A
    BY <2>1, <2>4 DEF Propose, Allocate
  <2>5. ASSUME NEW s \in Sources, NEW x \in ExternalIDs, Acknowledge(x, s) PROVE A
    BY <2>1, <2>5 DEF Acknowledge
  <2>6. ASSUME NEW s \in Sources, NEW kind \in DOMAIN TerminalKind, ObserveOrderTerminal(kind, s) PROVE A
    BY <2>1, <2>6 DEF ObserveOrderTerminal
  <2>7. ASSUME NEW s \in Sources, NEW kind \in FailureKind, FailReconciliation(kind, s) PROVE A
    BY <2>1, <2>7 DEF FailReconciliation
  <2> QED
    BY <1>1, <2>2, <2>3, <2>4, <2>5, <2>6, <2>7 DEF Next
<1> QED
  BY <1>1, PTL DEF Spec, ClosedIsFinal
=============================================================================

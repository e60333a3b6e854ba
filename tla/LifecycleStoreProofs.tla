------------------------ MODULE LifecycleStoreProofs ------------------------
(***************************************************************************)
(* Proofs about LifecycleStore, for every set of writers and observations  *)
(* and every retry limit: what callers are told is true, the restart query *)
(* finds the open orders, and the repository implements the domain         *)
(* lifecycle.                                                              *)
(*                                                                         *)
(* The inductive invariant speaks about the log alone (LogInv: which facts *)
(* it can hold together, and what its latest event says of the earlier     *)
(* ones) and about each call against the log and the row lock (CallInv).   *)
(* Every step appends at most one event, so the first part of the module   *)
(* is about Append: what each projection of the log becomes.               *)
(***************************************************************************)
EXTENDS LifecycleStore, SequenceTheorems, TLAPS

\* The shape of a committed event or of a transition under way, and what the
\* constructors guarantee of it without looking at the log.
Event == [kind : EventKind, class : ObservationClass, source : Sources,
          prior : State, next : State, quantity : Int, cumulative : Int,
          external : ExternalIDs \cup {NoBinding}]

ClassOf(kind) == CASE kind = "fill_correction_observed" -> "correction"
                   [] kind = "fill_bust_observed" -> "bust"
                   [] OTHER -> "ordinary"

FillKind == {"fill_acknowledged", "fill_recorded"}
BindKind == {"order_working", "fill_acknowledged"}

WellBuilt(t) ==
  /\ t \in Event
  /\ t.class = ClassOf(t.kind)
  /\ validEventTransition(t.kind, t.class, t.prior, t.next)
  /\ t.kind \in {"intent_proposed", "intent_allocated"} => t.quantity \in Deltas
  /\ t.kind \in FillKind => t.quantity \in FillSizes
  /\ t.kind \in FillKind \cup BindKind => t.external \in ExternalIDs

\* No event twice, one proposal, one allocation, one binding.
FactsOnce(l) ==
  /\ \A i, j \in DOMAIN l : ID(l[i]) = ID(l[j]) => i = j
  /\ \A e, f \in Range(l) :
       e.kind = f.kind /\ e.kind \in {"intent_proposed", "intent_allocated"} => e = f
  /\ \A e, f \in aBound(l) : e = f
  /\ l # <<>> => l[1].kind = "intent_proposed"

Undecided == {"none", "proposed"}
Unrouted  == Undecided \cup {"allocated", "risk_approved", "risk_rejected"}
Unbound   == Unrouted \cup {"routed"}

\* The state of the latest event says which facts the log holds.
StateExplained(l) ==
  /\ aState(l) = "none" <=> l = <<>>
  /\ aState(l) \in Undecided => ~Has(l, "intent_allocated")
  /\ aState(l) \in Unrouted  => ~Has(l, "order_routed")
  /\ aState(l) \in Unbound   => aBound(l) = {}
  /\ aState(l) \in {"allocated", "risk_approved"} => Has(l, "intent_allocated")
  /\ aState(l) \in Open \cup {"filled"} => Has(l, "order_routed")
  /\ aState(l) \in {"working", "partially_filled", "filled"} => aBound(l) # {}
  /\ Has(l, "order_routed") => Has(l, "intent_allocated")
  /\ aBound(l) = {} => FillEvents(l) = {}

\* The latest fill carries the largest cumulative quantity.
FilledIsLargest(l) ==
  FillEvents(l) # {} =>
    /\ \E m \in FillEvents(l) : aFilled(l) = m.cumulative
    /\ \A e \in FillEvents(l) : e.cumulative <= aFilled(l)

LogInv(l) ==
  /\ l \in Seq(Event)
  /\ \A e \in Range(l) : WellBuilt(e)
  /\ FactsOnce(l)
  /\ StateExplained(l)
  /\ FilledIsLargest(l)

Call == [pc : {"idle", "load", "lock", "check", "commit", "returned"},
         t : Event \cup {<<>>}, snap : Nat, attempt : Nat,
         result : {"none", "applied", "conflict", "error", "refused", "did_not_converge"}]

\* A transition under way is well built; an execution of a bound order names
\* the order that is bound, and everything but a proposal has a log to follow.
BuiltInv(c, l) ==
  c.pc # "idle" =>
    /\ WellBuilt(c.t)
    /\ c.t.kind = "fill_recorded" => aBound(l) # {} /\ c.t.external = aBinding(l)
    /\ c.t.kind # "intent_proposed" => l # <<>>

\* Only the holder of the row is between the lock and the commit, and what it
\* is about to insert applies to the log as it stands.
LockInv(w, c, l, r) ==
  /\ r = w <=> c.pc \in {"check", "commit"}
  /\ c.pc \in {"load", "lock", "check"} => c.t.kind # "intent_proposed"
  /\ c.pc \in {"lock", "check"} => c.snap \in 1 .. Len(l)
  /\ c.pc = "commit" => Applies(l, c.t) /\ ID(c.t) \notin aSeen(l)

\* What a caller was told stays true as the log grows.
ResultInv(c, l) ==
  /\ c.result # "none" => c.pc = "returned"
  /\ c.result = "applied" => c.t \in Range(l)
  /\ c.result = "conflict" =>
       /\ l # <<>>
       /\ c.t \notin Range(l)
       /\ c.t.kind = "intent_proposed" \/ ID(c.t) \in aSeen(l)

CallInv(w, c, l, r) == c \in Call /\ BuiltInv(c, l) /\ LockInv(w, c, l, r) /\ ResultInv(c, l)

IInv ==
  /\ row \in Writers \cup {NoWriter}
  /\ call \in [Writers -> Call]
  /\ LogInv(log)
  /\ \A w \in Writers : CallInv(w, call[w], log, row)

-----------------------------------------------------------------------------
(* Replay of one more event *)

\* Committing an event adds it to the events of the log, at its end.
LEMMA AppendRange ==
  ASSUME NEW S, NEW l \in Seq(S), NEW t \in S
  PROVE  /\ Append(l, t) \in Seq(S)
         /\ Append(l, t) # <<>>
         /\ Len(Append(l, t)) = Len(l) + 1
         /\ Latest(Append(l, t)) = t
         /\ Range(Append(l, t)) = Range(l) \cup {t}
         /\ \A i \in 1 .. Len(l) : Append(l, t)[i] = l[i]
         /\ Append(l, t)[Len(l) + 1] = t
<1>1. /\ Append(l, t) \in Seq(S)
      /\ Append(l, t) # <<>>
      /\ Len(Append(l, t)) = Len(l) + 1
      /\ DOMAIN Append(l, t) = 1 .. (Len(l) + 1)
      /\ DOMAIN l = 1 .. Len(l)
      /\ Len(l) \in Nat
      /\ \A i \in 1 .. Len(l) : Append(l, t)[i] = l[i]
      /\ Append(l, t)[Len(l) + 1] = t
  OBVIOUS
<1>2. Latest(Append(l, t)) = t
  BY <1>1 DEF Latest
<1>3. ASSUME NEW x \in Range(Append(l, t)) PROVE x \in Range(l) \cup {t}
  <2>1. PICK i \in 1 .. (Len(l) + 1) : x = Append(l, t)[i]
    BY <1>1, <1>3 DEF Range
  <2>2. CASE i = Len(l) + 1
    BY <1>1, <2>1, <2>2
  <2>3. CASE i \in 1 .. Len(l)
    BY <1>1, <2>1, <2>3 DEF Range
  <2> QED
    BY <1>1, <2>2, <2>3
<1>4. ASSUME NEW x \in Range(l) \cup {t} PROVE x \in Range(Append(l, t))
  <2>1. CASE x = t
    BY <1>1, <2>1 DEF Range
  <2>2. CASE x \in Range(l)
    <3>1. PICK i \in 1 .. Len(l) : x = l[i]
      BY <1>1, <2>2 DEF Range
    <3>2. i \in DOMAIN Append(l, t) /\ Append(l, t)[i] = x
      BY <1>1, <3>1
    <3> QED
      BY <3>2 DEF Range
  <2> QED
    BY <1>4, <2>1, <2>2
<1> QED
  BY <1>1, <1>2, <1>3, <1>4

\* What one more event does to the state, the kinds, the identities, the
\* executions and the binding events that replay reads off the log.
LEMMA ReplayAppend ==
  ASSUME NEW S, NEW l \in Seq(S), NEW t \in S
  PROVE  /\ aState(Append(l, t)) = t.next
         /\ \A k : Has(Append(l, t), k) <=> Has(l, k) \/ t.kind = k
         /\ aSeen(Append(l, t)) = aSeen(l) \cup {ID(t)}
         /\ aKinds(Append(l, t)) = aKinds(l) \cup {t.kind}
         /\ t.kind \in FillKind => FillEvents(Append(l, t)) = FillEvents(l) \cup {t}
         /\ t.kind \notin FillKind => FillEvents(Append(l, t)) = FillEvents(l)
         /\ t.kind \in BindKind => aBound(Append(l, t)) = aBound(l) \cup {t}
         /\ t.kind \notin BindKind => aBound(Append(l, t)) = aBound(l)
<1>1. Range(Append(l, t)) = Range(l) \cup {t}
  BY AppendRange
<1>2. aState(Append(l, t)) = t.next
  BY AppendRange DEF aState
<1>3. \A k : Has(Append(l, t), k) <=> Has(l, k) \/ t.kind = k
  BY <1>1 DEF Has
<1>4. aSeen(Append(l, t)) = aSeen(l) \cup {ID(t)}
  BY <1>1 DEF aSeen, ID
<1>5. aKinds(Append(l, t)) = aKinds(l) \cup {t.kind}
  BY <1>1 DEF aKinds
<1>6. /\ t.kind \in FillKind => FillEvents(Append(l, t)) = FillEvents(l) \cup {t}
      /\ t.kind \notin FillKind => FillEvents(Append(l, t)) = FillEvents(l)
  BY <1>1 DEF FillEvents, FillKind
<1>7. /\ t.kind \in BindKind => aBound(Append(l, t)) = aBound(l) \cup {t}
      /\ t.kind \notin BindKind => aBound(Append(l, t)) = aBound(l)
  BY <1>1 DEF aBound, BindKind
<1> QED
  BY <1>2, <1>3, <1>4, <1>5, <1>6, <1>7

\* The quantity of a fact that occurs once is the quantity of its event.
LEMMA QuantityOfFact ==
  ASSUME NEW l, FactsOnce(l), NEW k \in {"intent_proposed", "intent_allocated"},
         NEW e \in Range(l), e.kind = k
  PROVE  QuantityOf(l, k) = e.quantity
<1>1. Has(l, k)
  BY DEF Has
<1>2. PICK c \in Range(l) : c.kind = k /\ c = CHOOSE d \in Range(l) : d.kind = k
  OBVIOUS
<1>3. c = e
  BY <1>2 DEF FactsOnce
<1> QED
  BY <1>1, <1>2, <1>3, Zenon DEF QuantityOf

\* An execution reports a positive quantity.
LEMMA FillSizePositive == \A q \in FillSizes : q \in Nat /\ q > 0
BY FillsAssumption

\* The cumulative quantity of a log is an integer.
LEMMA FilledInt ==
  ASSUME NEW l, LogInv(l)
  PROVE  aFilled(l) \in Int
<1>1. CASE FillEvents(l) = {}
  BY <1>1 DEF aFilled
<1>2. CASE FillEvents(l) # {}
  <2>1. PICK m \in FillEvents(l) : aFilled(l) = m.cumulative
    BY <1>2 DEF LogInv, FilledIsLargest
  <2>2. m \in Event
    BY DEF FillEvents, LogInv, WellBuilt
  <2> QED
    BY <2>1, <2>2 DEF Event
<1> QED
  BY <1>1, <1>2

\* An execution becomes the one with the largest cumulative quantity, and
\* other events leave the cumulative quantity alone (maxFillCumulative).
LEMMA FilledAppend ==
  ASSUME NEW l, LogInv(l), NEW t, WellBuilt(t), Applies(l, t)
  PROVE  /\ t.kind \in FillKind => aFilled(Append(l, t)) = t.cumulative
         /\ t.kind \notin FillKind => aFilled(Append(l, t)) = aFilled(l)
         /\ FilledIsLargest(Append(l, t))
<1> DEFINE n == Append(l, t)
<1>1. l \in Seq(Event) /\ t \in Event
  BY DEF LogInv, WellBuilt
<1>2. CASE t.kind \notin FillKind
  <2>1. FillEvents(n) = FillEvents(l)
    BY <1>1, <1>2, ReplayAppend
  <2>2. aFilled(n) = aFilled(l)
    BY <2>1 DEF aFilled
  <2> QED
    BY <1>2, <2>1, <2>2 DEF FilledIsLargest, LogInv
<1>3. CASE t.kind \in FillKind
  <2> DEFINE C == {e.cumulative : e \in FillEvents(n)}
  <2>1. FillEvents(n) = FillEvents(l) \cup {t}
    BY <1>1, <1>3, ReplayAppend
  <2>2. /\ t.cumulative = aFilled(l) + t.quantity
        /\ t.quantity \in Nat /\ t.quantity > 0
        /\ aFilled(l) \in Int
    <3>1. t.cumulative = aFilled(l) + t.quantity
      BY <1>3 DEF Applies, FillKind
    <3>2. t.quantity \in FillSizes
      BY <1>3 DEF WellBuilt
    <3>3. t.quantity \in Nat /\ t.quantity > 0
      BY <3>2, FillSizePositive
    <3>4. aFilled(l) \in Int
      BY FilledInt
    <3> QED
      BY <3>1, <3>3, <3>4
  <2>3. \A e \in FillEvents(n) : e.cumulative \in Int /\ e.cumulative <= t.cumulative
    <3>1. ASSUME NEW e \in FillEvents(l) PROVE e.cumulative \in Int /\ e.cumulative <= aFilled(l)
      <4>1. e \in Event
        BY DEF FillEvents, LogInv, WellBuilt
      <4> QED
        BY <4>1 DEF LogInv, FilledIsLargest, Event
    <3> QED
      BY <2>1, <2>2, <3>1
  <2>4. t.cumulative \in C /\ \A y \in C : t.cumulative >= y /\ y \in Int
    BY <2>1, <2>2, <2>3
  <2>5. PICK m \in C : m = Max(C) /\ \A y \in C : m >= y
    <3> HIDE DEF C
    <3> QED
      BY <2>4 DEF Max
  <2>6. Max(C) = t.cumulative
    <3> HIDE DEF C
    <3> QED
      BY <2>4, <2>5
  <2>7. aFilled(n) = t.cumulative
    BY <2>1, <2>6 DEF aFilled
  <2> QED
    BY <1>3, <2>1, <2>3, <2>7 DEF FilledIsLargest
<1> QED
  BY <1>2, <1>3

\* An event with a new identity that the aggregate accepts keeps every fact
\* single (ApplyTransition, the unique keys of the event table).
LEMMA FactsOnceAppend ==
  ASSUME NEW l, LogInv(l), NEW t, WellBuilt(t), Applies(l, t), ID(t) \notin aSeen(l)
  PROVE  FactsOnce(Append(l, t))
<1> DEFINE n == Append(l, t)
<1>1. l \in Seq(Event) /\ t \in Event
  BY DEF LogInv, WellBuilt
<1>2. /\ Len(n) = Len(l) + 1
      /\ Range(n) = Range(l) \cup {t}
      /\ \A i \in 1 .. Len(l) : n[i] = l[i]
      /\ n[Len(l) + 1] = t
      /\ n \in Seq(Event)
  BY <1>1, AppendRange
<1>3. DOMAIN n = 1 .. (Len(l) + 1) /\ DOMAIN l = 1 .. Len(l) /\ Len(l) \in Nat
  BY <1>1, <1>2
<1>4. \A i \in DOMAIN l : ID(l[i]) # ID(t)
  BY DEF aSeen, ID, Range
<1>5. \A i, j \in DOMAIN n : ID(n[i]) = ID(n[j]) => i = j
  <2> SUFFICES ASSUME NEW i \in DOMAIN n, NEW j \in DOMAIN n, ID(n[i]) = ID(n[j]) PROVE i = j
    OBVIOUS
  <2>1. CASE i \in DOMAIN l /\ j \in DOMAIN l
    BY <1>2, <1>3, <2>1 DEF LogInv, FactsOnce
  <2>2. CASE i \notin DOMAIN l /\ j \notin DOMAIN l
    BY <1>3, <2>2
  <2>3. CASE i \in DOMAIN l /\ j \notin DOMAIN l
    BY <1>2, <1>3, <1>4, <2>3
  <2>4. CASE i \notin DOMAIN l /\ j \in DOMAIN l
    BY <1>2, <1>3, <1>4, <2>4
  <2> QED
    BY <2>1, <2>2, <2>3, <2>4
<1>6. /\ t.prior = aState(l)
      /\ validEventTransition(t.kind, t.class, t.prior, t.next)
      /\ StateExplained(l)
  BY DEF Applies, LogInv
<1>7. \A e \in Range(l) : t.kind \in {"intent_proposed", "intent_allocated"} => e.kind # t.kind
  <2>1. CASE t.kind = "intent_proposed"
    <3>1. l = <<>>
      BY <1>6, <2>1 DEF validEventTransition, StateExplained
    <3> QED
      BY <3>1 DEF Range
  <2>2. CASE t.kind = "intent_allocated"
    BY <1>6, <2>2 DEF validEventTransition, StateExplained, Has, Undecided
  <2> QED
    BY <2>1, <2>2
<1>8. \A e, f \in Range(n) :
        e.kind = f.kind /\ e.kind \in {"intent_proposed", "intent_allocated"} => e = f
  BY <1>2, <1>7 DEF LogInv, FactsOnce
<1>9. \A e, f \in aBound(n) : e = f
  <2>1. CASE t.kind \in BindKind
    <3>1. aBound(l) = {}
      BY <1>6, <2>1 DEF validEventTransition, StateExplained, BindKind, Unbound
    <3> QED
      BY <1>1, <2>1, <3>1, ReplayAppend
  <2>2. CASE t.kind \notin BindKind
    BY <1>1, <2>2, ReplayAppend DEF LogInv, FactsOnce
  <2> QED
    BY <2>1, <2>2
<1>10. n # <<>> => n[1].kind = "intent_proposed"
  <2>1. CASE l = <<>>
    <3>1. t.kind = "intent_proposed"
      BY <1>6, <2>1 DEF validEventTransition, StateExplained, Open
    <3>2. n[1] = t
      BY <1>2, <2>1
    <3> QED
      BY <3>1, <3>2
  <2>2. CASE l # <<>>
    <3>1. 1 \in 1 .. Len(l)
      BY <1>1, <2>2
    <3> QED
      BY <1>2, <2>2, <3>1 DEF LogInv, FactsOnce
  <2> QED
    BY <2>1, <2>2
<1> QED
  BY <1>5, <1>8, <1>9, <1>10 DEF FactsOnce

\* The state the event moves to still says which facts the log holds.
LEMMA StateExplainedAppend ==
  ASSUME NEW l, LogInv(l), NEW t, WellBuilt(t), Applies(l, t)
  PROVE  StateExplained(Append(l, t))
<1> DEFINE n == Append(l, t)
<1>1. l \in Seq(Event) /\ t \in Event
  BY DEF LogInv, WellBuilt
<1>2. /\ t.prior = aState(l)
      /\ validEventTransition(t.kind, t.class, t.prior, t.next)
      /\ StateExplained(l)
  BY DEF Applies, LogInv
<1>3. /\ n # <<>>
      /\ aState(n) = t.next
      /\ \A k : Has(n, k) <=> Has(l, k) \/ t.kind = k
      /\ t.kind \in FillKind => FillEvents(n) = FillEvents(l) \cup {t}
      /\ t.kind \notin FillKind => FillEvents(n) = FillEvents(l)
      /\ t.kind \in BindKind => aBound(n) = aBound(l) \cup {t}
      /\ t.kind \notin BindKind => aBound(n) = aBound(l)
  BY <1>1, AppendRange, ReplayAppend
<1>4. /\ Has(n, "intent_allocated") <=> Has(l, "intent_allocated") \/ t.kind = "intent_allocated"
      /\ Has(n, "order_routed") <=> Has(l, "order_routed") \/ t.kind = "order_routed"
      /\ aBound(n) = {} <=> aBound(l) = {} /\ t.kind \notin BindKind
      /\ FillEvents(n) = {} <=> FillEvents(l) = {} /\ t.kind \notin FillKind
  BY <1>3
<1> HIDE DEF n
<1>5. /\ aState(n) = "none" <=> n = <<>>
      /\ aState(n) \in Undecided => ~Has(n, "intent_allocated")
  BY <1>2, <1>3, <1>4 DEF validEventTransition, StateExplained, Undecided, Open
<1>6. aState(n) \in Unrouted  => ~Has(n, "order_routed")
  BY <1>2, <1>3, <1>4 DEF validEventTransition, StateExplained, Undecided, Unrouted, Open
<1>7. aState(n) \in Unbound   => aBound(n) = {}
  BY <1>2, <1>3, <1>4 DEF validEventTransition, StateExplained, Undecided, Unrouted, Unbound, Open, BindKind
<1>8. /\ aState(n) \in {"allocated", "risk_approved"} => Has(n, "intent_allocated")
      /\ aState(n) \in Open \cup {"filled"} => Has(n, "order_routed")
  BY <1>2, <1>3, <1>4 DEF validEventTransition, StateExplained, Open
<1>9. aState(n) \in {"working", "partially_filled", "filled"} => aBound(n) # {}
  BY <1>2, <1>3, <1>4 DEF validEventTransition, StateExplained, Open, BindKind
<1>10. Has(n, "order_routed") => Has(n, "intent_allocated")
  BY <1>2, <1>3, <1>4 DEF validEventTransition, StateExplained
<1>11. aBound(n) = {} => FillEvents(n) = {}
  BY <1>2, <1>3, <1>4 DEF validEventTransition, StateExplained, BindKind, FillKind
<1> QED
  BY <1>5, <1>6, <1>7, <1>8, <1>9, <1>10, <1>11 DEF StateExplained, n

\* Committing what the aggregate accepts keeps the log well formed.
LEMMA LogInvAppend ==
  ASSUME NEW l, LogInv(l), NEW t, WellBuilt(t), Applies(l, t), ID(t) \notin aSeen(l)
  PROVE  LogInv(Append(l, t))
<1>1. l \in Seq(Event) /\ t \in Event
  BY DEF LogInv, WellBuilt
<1>2. Append(l, t) \in Seq(Event) /\ Range(Append(l, t)) = Range(l) \cup {t}
  BY <1>1, AppendRange
<1>3. \A e \in Range(Append(l, t)) : WellBuilt(e)
  BY <1>2 DEF LogInv
<1> QED
  BY <1>2, <1>3, FactsOnceAppend, StateExplainedAppend, FilledAppend DEF LogInv

\* A proposal or an allocation sets its quantity; nothing else changes it.
LEMMA QuantityAppend ==
  ASSUME NEW l, LogInv(l), NEW t, WellBuilt(t), Applies(l, t), ID(t) \notin aSeen(l),
         NEW k \in {"intent_proposed", "intent_allocated"}
  PROVE  QuantityOf(Append(l, t), k) = IF t.kind = k THEN t.quantity ELSE QuantityOf(l, k)
<1> DEFINE n == Append(l, t)
<1>1. l \in Seq(Event) /\ t \in Event
  BY DEF LogInv, WellBuilt
<1>2. Range(n) = Range(l) \cup {t} /\ (Has(n, k) <=> Has(l, k) \/ t.kind = k)
  BY <1>1, AppendRange, ReplayAppend
<1>3. FactsOnce(n) /\ FactsOnce(l)
  BY FactsOnceAppend DEF LogInv
<1> HIDE DEF n
<1>4. CASE t.kind = k
  <2>1. t \in Range(n)
    BY <1>2
  <2> QED
    BY <1>3, <1>4, <2>1, QuantityOfFact DEF n
<1>5. CASE t.kind # k /\ Has(l, k)
  <2>1. PICK e \in Range(l) : e.kind = k
    BY <1>5 DEF Has
  <2>2. QuantityOf(l, k) = e.quantity /\ QuantityOf(n, k) = e.quantity
    BY <1>2, <1>3, <2>1, QuantityOfFact
  <2> QED
    BY <1>5, <2>2 DEF n
<1>6. CASE t.kind # k /\ ~Has(l, k)
  BY <1>2, <1>6 DEF QuantityOf, n
<1> QED
  BY <1>4, <1>5, <1>6

\* The external order is the one any binding event names.
LEMMA BindingOfFact ==
  ASSUME NEW l, \A e, f \in aBound(l) : e = f, NEW e \in aBound(l)
  PROVE  aBinding(l) = e.external
<1>1. PICK c \in aBound(l) : c = CHOOSE d \in aBound(l) : TRUE
  OBVIOUS
<1>2. c = e
  OBVIOUS
<1> QED
  BY <1>1, <1>2 DEF aBinding

\* The first observation of the venue's order binds it for good.
LEMMA BindingAppend ==
  ASSUME NEW l, LogInv(l), NEW t, WellBuilt(t), Applies(l, t)
  PROVE  /\ t.kind \in BindKind => aBinding(Append(l, t)) = t.external /\ aBound(l) = {}
         /\ t.kind \notin BindKind => aBinding(Append(l, t)) = aBinding(l)
<1>1. l \in Seq(Event) /\ t \in Event
  BY DEF LogInv, WellBuilt
<1>2. CASE t.kind \in BindKind
  <2>1. aBound(l) = {}
    BY <1>2 DEF Applies, LogInv, validEventTransition, StateExplained, BindKind, Unbound
  <2>2. aBound(Append(l, t)) = {t}
    BY <1>1, <1>2, <2>1, ReplayAppend
  <2> QED
    BY <1>2, <2>1, <2>2 DEF aBinding
<1>3. CASE t.kind \notin BindKind
  <2>1. aBound(Append(l, t)) = aBound(l)
    BY <1>1, <1>3, ReplayAppend
  <2>2. aBinding(Append(l, t)) = aBinding(l)
    BY <2>1, BindingOfFact DEF aBinding, LogInv, FactsOnce
  <2> QED
    BY <1>3, <2>2
<1> QED
  BY <1>2, <1>3

-----------------------------------------------------------------------------
(* The inductive invariant *)

\* The state of a well-formed log is a lifecycle state.
LEMMA StateOfLog ==
  ASSUME NEW l, LogInv(l)
  PROVE  aState(l) \in State
<1>1. CASE l = <<>>
  BY <1>1 DEF aState, State
<1>2. CASE l # <<>>
  <2>1. l \in Seq(Event) /\ Len(l) \in 1 .. Len(l)
    BY <1>2 DEF LogInv
  <2>2. l[Len(l)] \in Event
    BY <2>1
  <2> QED
    BY <1>2, <2>2 DEF aState, Latest, Event
<1> QED
  BY <1>1, <1>2

\* What every constructor of the domain package returns, when ApplyTransition
\* accepts it on the aggregate it was built from.
LEMMA BuildWellBuilt ==
  ASSUME NEW l, LogInv(l), NEW o \in Observations, Applies(l, Build(l, o))
  PROVE  WellBuilt(Build(l, o))
<1> DEFINE t == Build(l, o)
           k == IF o.kind # "fill" THEN o.kind
                ELSE IF aState(l) = "routed" THEN "fill_acknowledged" ELSE "fill_recorded"
<1>1. /\ t.kind = k
      /\ t.class = ClassOf(k)
      /\ t.source = o.source
      /\ t.prior = aState(l)
      /\ t.quantity = o.quantity
      /\ t.cumulative = IF o.kind = "fill" THEN aFilled(l) + o.quantity ELSE 0
      /\ t.external = o.external
  BY DEF Build, ClassOf
<1>2. t = [kind |-> t.kind, class |-> t.class, source |-> t.source, prior |-> t.prior,
           next |-> t.next, quantity |-> t.quantity, cumulative |-> t.cumulative,
           external |-> t.external]
  BY DEF Build
<1> HIDE DEF t
<1>3. validEventTransition(t.kind, t.class, t.prior, t.next)
  BY DEF Applies, t
<1>4. /\ o.kind \in (EventKind \ FillKind) \cup {"fill"}
      /\ o.source \in Sources
      /\ o.quantity \in Int
      /\ o.external \in ExternalIDs \cup {NoBinding}
      /\ o.kind \in {"intent_proposed", "intent_allocated"} => o.quantity \in Deltas
      /\ o.kind = "fill" => o.quantity \in FillSizes
      /\ o.kind \in {"order_working", "fill"} => o.external \in ExternalIDs
  BY ObservationsAssumption DEF FillKind
<1>5. t.kind \in EventKind /\ t.class \in ObservationClass
  BY <1>1, <1>4 DEF EventKind, FillKind, ObservationClass, ClassOf
<1>6. t.prior \in State /\ t.next \in State
  <2>1. t.prior \in State
    BY <1>1, StateOfLog
  <2> QED
    BY <1>3, <2>1 DEF validEventTransition, State
<1>7. t.cumulative \in Int
  BY <1>1, <1>4, FilledInt
<1>8. t \in Event
  BY <1>1, <1>2, <1>4, <1>5, <1>6, <1>7 DEF Event
<1>9. /\ t.kind \in {"intent_proposed", "intent_allocated"} => t.quantity \in Deltas
      /\ t.kind \in FillKind => t.quantity \in FillSizes
      /\ t.kind \in FillKind \cup BindKind => t.external \in ExternalIDs
  BY <1>1, <1>4 DEF FillKind, BindKind
<1>10. t.class = ClassOf(t.kind)
  BY <1>1
<1> QED
  BY <1>3, <1>8, <1>9, <1>10 DEF WellBuilt, t

\* A step of one writer that leaves the log alone keeps the invariant when the
\* writer's own part holds and no other writer gains or loses the row.
LEMMA OneCall ==
  ASSUME IInv, NEW w \in Writers, NEW c,
         log' = log, call' = [call EXCEPT ![w] = c],
         row' \in Writers \cup {NoWriter},
         \A v \in Writers \ {w} : row' = v <=> row = v,
         CallInv(w, c, log, row')
  PROVE  IInv'
<1>1. c \in Call
  BY DEF CallInv
<1>2. call' \in [Writers -> Call]
  BY <1>1 DEF IInv
<1>3. ASSUME NEW v \in Writers PROVE CallInv(v, call'[v], log', row')
  <2>1. CASE v = w
    BY <2>1 DEF IInv
  <2>2. CASE v # w
    <3>1. call'[v] = call[v] /\ CallInv(v, call[v], log, row)
      BY <2>2 DEF IInv
    <3> QED
      BY <2>2, <3>1 DEF CallInv, LockInv
  <2> QED
    BY <2>1, <2>2
<1> QED
  BY <1>2, <1>3 DEF IInv

\* The empty log, before the intent is proposed.
LEMMA EmptyLog == LogInv(<<>>)
<1>1. Range(<<>>) = {} /\ <<>> \in Seq(Event)
  BY DEF Range
<1>2. /\ aState(<<>>) = "none" /\ aBound(<<>>) = {} /\ FillEvents(<<>>) = {}
      /\ \A k : ~Has(<<>>, k)
  BY <1>1 DEF aState, aBound, FillEvents, Has
<1>3. StateExplained(<<>>)
  BY <1>2 DEF StateExplained, Open, Undecided, Unrouted, Unbound
<1> QED
  BY <1>1, <1>2, <1>3 DEF LogInv, FactsOnce, FilledIsLargest

\* An idle writer that does not hold the row satisfies its part.
LEMMA IdleInv ==
  ASSUME NEW w, NEW l, NEW r, r # w
  PROVE  CallInv(w, Idle, l, r)
BY DEF CallInv, Call, BuiltInv, LockInv, ResultInv, Idle

\* Initially no event is committed and nobody calls.
LEMMA InitIInv == Init => IInv
<1> SUFFICES ASSUME Init PROVE IInv
  OBVIOUS
<1>1. LogInv(log)
  BY EmptyLog DEF Init
<1>2. Idle \in Call
  BY DEF Idle, Call
<1>3. \A w \in Writers : CallInv(w, call[w], log, row)
  BY IdleInv, WritersAssumption DEF Init
<1> QED
  BY <1>1, <1>2, <1>3 DEF IInv, Init

\* A caller that reads the aggregate builds a transition that keeps its sense.
LEMMA ObserveIInv ==
  ASSUME IInv, NEW w \in Writers, NEW o \in Observations, Observe(w, o)
  PROVE  IInv'
<1> DEFINE t == Build(log, o)
           c == [Idle EXCEPT !.pc = "load", !.t = t]
<1>1. LogInv(log) /\ CallInv(w, call[w], log, row) /\ row \in Writers \cup {NoWriter}
  BY DEF IInv
<1>2. /\ call[w].pc = "idle" /\ o.kind # "intent_proposed" /\ log # <<>>
      /\ Applies(log, t) /\ (t.kind = "fill_recorded" => o.external = aBinding(log))
      /\ call' = [call EXCEPT ![w] = c] /\ log' = log /\ row' = row
  BY DEF Observe, Constructible
<1>3. WellBuilt(t) /\ t \in Event
  BY <1>1, <1>2, BuildWellBuilt DEF WellBuilt
<1>4. t.external = o.external /\ t.kind # "intent_proposed"
  BY <1>2 DEF Build
<1>5. t.kind = "fill_recorded" => aBound(log) # {}
  BY <1>1, <1>2 DEF Applies, validEventTransition, LogInv, StateExplained
<1> HIDE DEF t
<1>6. /\ c.pc = "load" /\ c.t = t /\ c.result = "none" /\ c.snap = 0 /\ c.attempt = 0 /\ c \in Call
  BY <1>3, Zenon DEF Idle, Call
<1>7. row # w
  BY <1>1, <1>2 DEF CallInv, LockInv
<1> HIDE DEF c
<1>8. CallInv(w, c, log, row')
  BY <1>2, <1>3, <1>4, <1>5, <1>6, <1>7 DEF CallInv, BuiltInv, LockInv, ResultInv
<1> QED
  BY <1>1, <1>2, <1>8, OneCall, Zenon

\* The proposal an empty log gets is accepted by the domain (Propose).
LEMMA ProposalApplies ==
  ASSUME NEW o \in Observations, o.kind = "intent_proposed"
  PROVE  /\ Applies(<<>>, Build(<<>>, o))
         /\ Build(<<>>, o).kind = "intent_proposed"
         /\ WellBuilt(Build(<<>>, o))
<1> DEFINE t == Build(<<>>, o)
<1>1. aState(<<>>) = "none"
  BY DEF aState
<1>2. t.kind = "intent_proposed" /\ t.class = "ordinary" /\ t.prior = "none" /\ t.next = "proposed"
  <2>1. t.kind = "intent_proposed" /\ t.prior = "none"
    BY <1>1 DEF Build
  <2>2. t.class = "ordinary"
    BY DEF Build
  <2>3. t.next = "proposed"
    BY DEF Build, TerminalKind, FailureKind
  <2> QED
    BY <2>1, <2>2, <2>3
<1> HIDE DEF t
<1>3. Applies(<<>>, t)
  BY <1>1, <1>2 DEF Applies, validEventTransition
<1> QED
  BY <1>2, <1>3, EmptyLog, BuildWellBuilt DEF t

\* A proposal is inserted on an empty log or compared with the one stored.
LEMMA ProposeIInv ==
  ASSUME IInv, NEW w \in Writers, NEW o \in Observations, Propose(w, o)
  PROVE  IInv'
<1> DEFINE t == Build(<<>>, o)
<1>1. LogInv(log) /\ CallInv(w, call[w], log, row) /\ row \in Writers \cup {NoWriter}
  BY DEF IInv
<1>2. call[w].pc = "idle" /\ o.kind = "intent_proposed" /\ log' = log
  BY DEF Propose
<1>3. Applies(<<>>, t) /\ t.kind = "intent_proposed" /\ WellBuilt(t) /\ t \in Event
  BY <1>2, ProposalApplies DEF WellBuilt
<1>4. row # w
  BY <1>1, <1>2 DEF CallInv, LockInv
<1>5. CASE log # <<>>
  <2> DEFINE c == [Idle EXCEPT !.pc = "returned", !.t = t,
                      !.result = IF log[1] = t THEN "applied" ELSE "conflict"]
  <2>1. call' = [call EXCEPT ![w] = c] /\ row' = row
    BY <1>5 DEF Propose
  <2>2. log[1] \in Range(log) /\ log[1].kind = "intent_proposed"
    <3>1. 1 \in DOMAIN log
      BY <1>1, <1>5 DEF LogInv
    <3> QED
      BY <1>1, <1>5, <3>1 DEF LogInv, FactsOnce, Range
  <2>3. log[1] # t => t \notin Range(log)
    BY <1>1, <1>3, <2>2 DEF LogInv, FactsOnce
  <2> HIDE DEF t
  <2>4. /\ c.pc = "returned" /\ c.t = t /\ c \in Call
        /\ c.result = IF log[1] = t THEN "applied" ELSE "conflict"
    BY <1>3, Zenon DEF Idle, Call
  <2> HIDE DEF c
  <2>5. CallInv(w, c, log, row')
    BY <1>3, <1>4, <1>5, <2>1, <2>2, <2>3, <2>4 DEF CallInv, BuiltInv, LockInv, ResultInv
  <2> QED
    BY <1>1, <1>2, <2>1, <2>5, OneCall, Zenon
<1>6. CASE log = <<>>
  <2> DEFINE c == [Idle EXCEPT !.pc = "commit", !.t = t]
  <2>1. call' = [call EXCEPT ![w] = c] /\ row' = w /\ row = NoWriter
    BY <1>6 DEF Propose, RowFree
  <2>2. ID(t) \notin aSeen(log)
    BY <1>6 DEF aSeen, Range
  <2> HIDE DEF t
  <2>3. c.pc = "commit" /\ c.t = t /\ c.result = "none" /\ c \in Call
    BY <1>3, Zenon DEF Idle, Call
  <2> HIDE DEF c
  <2>4. CallInv(w, c, log, row')
    BY <1>3, <1>6, <2>1, <2>2, <2>3 DEF CallInv, BuiltInv, LockInv, ResultInv
  <2> QED
    BY <1>1, <1>2, <2>1, <2>4, WritersAssumption, OneCall, Zenon
<1> QED
  BY <1>5, <1>6

\* The reload finds the event, gives up, or remembers how long the log was.
LEMMA LoadIInv ==
  ASSUME IInv, NEW w \in Writers, Load(w)
  PROVE  IInv'
<1>1. /\ LogInv(log) /\ CallInv(w, call[w], log, row) /\ row \in Writers \cup {NoWriter}
      /\ call \in [Writers -> Call]
  BY DEF IInv
<1>2. call[w].pc = "load" /\ log' = log /\ row' = row
  BY DEF Load
<1>3. /\ call[w].t.kind # "intent_proposed" /\ log # <<>> /\ row # w
      /\ WellBuilt(call[w].t) /\ call[w].result = "none"
  BY <1>1, <1>2 DEF CallInv, BuiltInv, LockInv, ResultInv
<1>4. ASSUME NEW r \in {"applied", "conflict", "did_not_converge"}, Return(w, r),
             r = "applied" => call[w].t \in Range(log),
             r = "conflict" => ID(call[w].t) \in aSeen(log) /\ call[w].t \notin Range(log)
      PROVE  IInv'
  <2> DEFINE c == [call[w] EXCEPT !.pc = "returned", !.result = r]
  <2>1. call' = [call EXCEPT ![w] = c]
    BY <1>1, <1>4, Zenon DEF Return
  <2>2. c.pc = "returned" /\ c.t = call[w].t /\ c.result = r /\ c \in Call
    BY <1>1, Zenon DEF Call
  <2> HIDE DEF c
  <2>3. CallInv(w, c, log, row')
    BY <1>1, <1>2, <1>3, <1>4, <2>2 DEF CallInv, BuiltInv, LockInv, ResultInv
  <2> QED
    BY <1>1, <1>2, <2>1, <2>3, OneCall, Zenon
<1>5. CASE call' = [call EXCEPT ![w].pc = "lock", ![w].snap = Len(log)]
  <2> DEFINE c == [call[w] EXCEPT !.pc = "lock", !.snap = Len(log)]
  <2>1. call' = [call EXCEPT ![w] = c]
    BY <1>1, <1>5, Zenon
  <2>2. Len(log) \in Nat /\ Len(log) \in 1 .. Len(log)
    BY <1>1, <1>3 DEF LogInv
  <2>3. c.pc = "lock" /\ c.t = call[w].t /\ c.result = "none" /\ c.snap = Len(log) /\ c \in Call
    BY <1>1, <1>3, <2>2, Zenon DEF Call
  <2> HIDE DEF c
  <2>4. CallInv(w, c, log, row')
    BY <1>1, <1>2, <1>3, <2>2, <2>3 DEF CallInv, BuiltInv, LockInv, ResultInv
  <2> QED
    BY <1>1, <1>2, <2>1, <2>4, OneCall, Zenon
<1>6. CASE call[w].attempt >= MaxAttempts
  BY <1>4, <1>6 DEF Load
<1>7. CASE ~(call[w].attempt >= MaxAttempts) /\ ID(call[w].t) \in aSeen(log)
  <2>1. CASE \E e \in Range(log) : ID(e) = ID(call[w].t) /\ SamePayload(e, call[w].t)
    BY <1>4, <1>7, <2>1 DEF Load, SamePayload
  <2>2. CASE ~\E e \in Range(log) : ID(e) = ID(call[w].t) /\ SamePayload(e, call[w].t)
    BY <1>4, <1>7, <2>2 DEF Load, SamePayload
  <2> QED
    BY <2>1, <2>2
<1>8. CASE ~(call[w].attempt >= MaxAttempts) /\ ID(call[w].t) \notin aSeen(log)
  BY <1>5, <1>8 DEF Load
<1> QED
  BY <1>6, <1>7, <1>8

\* The row lock goes to a writer only while nobody holds it.
LEMMA LockIInv ==
  ASSUME IInv, NEW w \in Writers, Lock(w)
  PROVE  IInv'
<1> DEFINE c == [call[w] EXCEPT !.pc = "check"]
<1>1. CallInv(w, call[w], log, row) /\ call \in [Writers -> Call]
  BY DEF IInv
<1>2. /\ call[w].pc = "lock" /\ log' = log /\ row = NoWriter /\ row' = w
      /\ call' = [call EXCEPT ![w].pc = "check"]
  BY DEF Lock, RowFree, Goto
<1>3. call' = [call EXCEPT ![w] = c]
  BY <1>1, <1>2
<1>4. /\ c.pc = "check" /\ c.t = call[w].t /\ c.snap = call[w].snap
      /\ c.result = call[w].result /\ c \in Call
  BY <1>1 DEF Call
<1> HIDE DEF c
<1>5. CallInv(w, c, log, row')
  BY <1>1, <1>2, <1>4 DEF CallInv, BuiltInv, LockInv, ResultInv
<1> QED
  BY <1>2, <1>3, <1>5, WritersAssumption, OneCall, Zenon

\* While the latest event is the loaded one, the loaded log is the log.
LEMMA LoadedIsLog ==
  ASSUME NEW l, LogInv(l), NEW n \in 1 .. Len(l), Latest(l) = Latest(SubSeq(l, 1, n))
  PROVE  SubSeq(l, 1, n) = l
<1>1. l \in Seq(Event) /\ DOMAIN l = 1 .. Len(l) /\ Len(l) \in Nat
  BY DEF LogInv
<1>2. Len(SubSeq(l, 1, n)) = n /\ \A i \in 1 .. n : SubSeq(l, 1, n)[i] = l[i]
  BY <1>1
<1>3. l[Len(l)] = l[n]
  BY <1>2 DEF Latest
<1>4. Len(l) = n
  <2>1. Len(l) \in DOMAIN l /\ n \in DOMAIN l /\ ID(l[Len(l)]) = ID(l[n])
    BY <1>1, <1>3
  <2>2. \A i, j \in DOMAIN l : ID(l[i]) = ID(l[j]) => i = j
    BY DEF LogInv, FactsOnce
  <2> QED
    BY <2>1, <2>2
<1>5. /\ SubSeq(l, 1, n) \in Seq(Event)
      /\ Len(SubSeq(l, 1, n)) = Len(l)
      /\ \A i \in 1 .. Len(l) : SubSeq(l, 1, n)[i] = l[i]
  BY <1>1, <1>2, <1>4
<1> QED
  BY <1>1, <1>5, SeqEqual, Zenon

\* Giving the row back, or leaving another's alone.
LEMMA UnlockRow ==
  ASSUME IInv, NEW w \in Writers, Unlock(w)
  PROVE  /\ row' \in Writers \cup {NoWriter}
         /\ row' # w
         /\ \A v \in Writers \ {w} : row' = v <=> row = v
BY WritersAssumption DEF Unlock, IInv

\* A call that ends without a commit, told an error or a refusal.
LEMMA ReturnIInv ==
  ASSUME IInv, NEW w \in Writers, NEW r \in {"error", "refused"}, call[w].pc # "idle",
         Return(w, r), Unlock(w), log' = log
  PROVE  IInv'
<1> DEFINE c == [call[w] EXCEPT !.pc = "returned", !.result = r]
<1>1. CallInv(w, call[w], log, row) /\ call \in [Writers -> Call]
  BY DEF IInv
<1>2. call' = [call EXCEPT ![w] = c]
  BY <1>1, Zenon DEF Return
<1>3. c.pc = "returned" /\ c.t = call[w].t /\ c.result = r /\ c \in Call
  BY <1>1, Zenon DEF Call
<1> HIDE DEF c
<1>4. CallInv(w, c, log, row')
  BY <1>1, <1>3, UnlockRow DEF CallInv, BuiltInv, LockInv, ResultInv
<1> QED
  BY <1>2, <1>4, UnlockRow, OneCall, Zenon

\* Under the lock: reload, refuse, or go on to insert what applies.
LEMMA CheckIInv ==
  ASSUME IInv, NEW w \in Writers, Check(w)
  PROVE  IInv'
<1> DEFINE loaded == SubSeq(log, 1, call[w].snap)
<1>1. CallInv(w, call[w], log, row) /\ call \in [Writers -> Call] /\ LogInv(log)
      /\ row \in Writers \cup {NoWriter}
  BY DEF IInv
<1>2. call[w].pc = "check" /\ log' = log
  BY DEF Check
<1>3. CASE /\ call' = [call EXCEPT ![w].pc = "load", ![w].attempt = @ + 1]
           /\ Unlock(w)
  <2> DEFINE c == [call[w] EXCEPT !.pc = "load", !.attempt = @ + 1]
  <2>1. call' = [call EXCEPT ![w] = c]
    BY <1>1, <1>3, Zenon
  <2>2. c.pc = "load" /\ c.t = call[w].t /\ c.result = call[w].result /\ c \in Call
    <3>1. call[w] \in Call /\ call[w].attempt + 1 \in Nat
      BY <1>1 DEF Call
    <3> QED
      BY <3>1, Zenon DEF Call
  <2> HIDE DEF c
  <2>3. CallInv(w, c, log, row')
    BY <1>1, <1>2, <1>3, <2>2, UnlockRow DEF CallInv, BuiltInv, LockInv, ResultInv
  <2> QED
    BY <1>2, <1>3, <2>1, <2>3, UnlockRow, OneCall, Zenon
<1>4. CASE Return(w, "refused") /\ Unlock(w)
  BY <1>2, <1>4, ReturnIInv
<1>5. CASE /\ Latest(log) = Latest(loaded)
           /\ Applies(loaded, call[w].t)
           /\ TriggerAccepts(log, call[w].t)
           /\ Goto(w, "commit")
           /\ UNCHANGED row
  <2> DEFINE c == [call[w] EXCEPT !.pc = "commit"]
  <2>1. call' = [call EXCEPT ![w] = c]
    BY <1>1, <1>5 DEF Goto
  <2>2. c.pc = "commit" /\ c.t = call[w].t /\ c.result = call[w].result /\ c \in Call
    BY <1>1 DEF Call
  <2> HIDE DEF c
  <2>3. call[w].snap \in 1 .. Len(log)
    BY <1>1, <1>2 DEF CallInv, LockInv
  <2>4. loaded = log
    BY <1>1, <1>5, <2>3, LoadedIsLog
  <2>5. Applies(log, c.t) /\ ID(c.t) \notin aSeen(log)
    BY <1>5, <2>2, <2>4, Zenon DEF TriggerAccepts
  <2>6. CallInv(w, c, log, row')
    BY <1>1, <1>2, <1>5, <2>2, <2>5 DEF CallInv, BuiltInv, LockInv, ResultInv
  <2> QED
    BY <1>1, <1>2, <1>5, <2>1, <2>6, OneCall, Zenon
<1> QED
  BY <1>3, <1>4, <1>5 DEF Check

\* A crash and the end of a call leave an idle writer without the row.
LEMMA EndIInv ==
  ASSUME IInv, NEW w \in Writers, Crash(w) \/ Consume(w)
  PROVE  IInv'
<1>1. /\ call' = [call EXCEPT ![w] = Idle] /\ log' = log
      /\ Unlock(w) \/ (row' = row /\ call[w].pc = "returned")
  BY DEF Crash, Consume
<1>2. CallInv(w, call[w], log, row) /\ row \in Writers \cup {NoWriter}
  BY DEF IInv
<1>3. row' # w /\ row' \in Writers \cup {NoWriter} /\ \A v \in Writers \ {w} : row' = v <=> row = v
  BY <1>1, <1>2, UnlockRow DEF CallInv, LockInv
<1> QED
  BY <1>1, <1>3, IdleInv, OneCall, Zenon

\* A transition sent again is the one that was built.
LEMMA ResendIInv ==
  ASSUME IInv, NEW w \in Writers, Resend(w)
  PROVE  IInv'
<1> DEFINE c == [Idle EXCEPT !.pc = "load", !.t = call[w].t]
<1>1. CallInv(w, call[w], log, row) /\ row \in Writers \cup {NoWriter}
  BY DEF IInv
<1>2. /\ call[w].pc = "returned" /\ call[w].t.kind # "intent_proposed"
      /\ call' = [call EXCEPT ![w] = c] /\ log' = log /\ row' = row
  BY DEF Resend
<1>3. c.pc = "load" /\ c.t = call[w].t /\ c.result = "none" /\ c \in Call
  BY <1>1, Zenon DEF Idle, Call, CallInv
<1> HIDE DEF c
<1>4. CallInv(w, c, log, row')
  BY <1>1, <1>2, <1>3 DEF CallInv, BuiltInv, LockInv, ResultInv
<1> QED
  BY <1>1, <1>2, <1>4, OneCall, Zenon

\* A committed event takes nothing from the other writers: what they were
\* told, and the binding they read, stays.
LEMMA CommitIInv ==
  ASSUME IInv, NEW w \in Writers, Commit(w)
  PROVE  IInv'
<1> DEFINE t == call[w].t
<1>1. CallInv(w, call[w], log, row) /\ call \in [Writers -> Call] /\ LogInv(log)
  BY DEF IInv
<1>2. call[w].pc = "commit" /\ log' = Append(log, t) /\ Unlock(w)
  BY DEF Commit
<1>3. PICK r \in {"applied", "error"} : Return(w, r)
  BY DEF Commit
<1>4. WellBuilt(t) /\ Applies(log, t) /\ ID(t) \notin aSeen(log) /\ row = w
  BY <1>1, <1>2 DEF CallInv, BuiltInv, LockInv
<1>5. LogInv(log')
  BY <1>1, <1>2, <1>4, LogInvAppend
<1>6. row' = NoWriter
  BY <1>2, <1>4 DEF Unlock
<1>7. log \in Seq(Event) /\ t \in Event
  BY <1>1, <1>4 DEF LogInv, WellBuilt
<1>8. /\ Range(log') = Range(log) \cup {t} /\ log' # <<>> /\ Len(log') = Len(log) + 1
      /\ aSeen(log') = aSeen(log) \cup {ID(t)} /\ Len(log) \in Nat
  BY <1>2, <1>7, AppendRange, ReplayAppend
<1>9. aBound(log) # {} => aBound(log') # {} /\ aBinding(log') = aBinding(log)
  <2> SUFFICES ASSUME aBound(log) # {} PROVE aBound(log') # {} /\ aBinding(log') = aBinding(log)
    OBVIOUS
  <2>1. t.kind \notin BindKind
    BY <1>1, <1>4, BindingAppend
  <2> QED
    BY <1>1, <1>2, <1>4, <1>7, <2>1, BindingAppend, ReplayAppend
<1>10. ASSUME NEW v \in Writers, NEW c, BuiltInv(c, log) PROVE BuiltInv(c, log')
  BY <1>8, <1>9, <1>10 DEF BuiltInv
<1>11. t.kind = "intent_proposed" => log = <<>>
  BY <1>1, <1>4 DEF Applies, validEventTransition, LogInv, StateExplained
<1>12. ASSUME NEW v \in Writers \ {w} PROVE CallInv(v, call[v], log', row')
  <2> DEFINE c == call[v]
  <2>1. CallInv(v, c, log, row)
    BY <1>12 DEF IInv
  <2> HIDE DEF c
  <2>2. c.pc \notin {"check", "commit"}
    BY <1>4, <2>1 DEF CallInv, LockInv
  <2>3. LockInv(v, c, log', row')
    BY <1>6, <1>8, <2>1, <2>2, WritersAssumption DEF CallInv, LockInv
  <2>4. ResultInv(c, log')
    <3>1. ASSUME c.result = "conflict" PROVE c.t # t
      <4>1. log # <<>> /\ (c.t.kind = "intent_proposed" \/ ID(c.t) \in aSeen(log))
        BY <2>1, <3>1 DEF CallInv, ResultInv
      <4> QED
        BY <1>4, <1>11, <4>1
    <3> QED
      BY <1>8, <2>1, <3>1 DEF CallInv, ResultInv
  <2> QED
    BY <1>10, <2>1, <2>3, <2>4 DEF CallInv, c
<1>13. CallInv(w, call'[w], log', row') /\ call' \in [Writers -> Call]
       /\ \A v \in Writers \ {w} : call'[v] = call[v]
  <2> DEFINE c == [call[w] EXCEPT !.pc = "returned", !.result = r]
  <2>1. call' = [call EXCEPT ![w] = c]
    BY <1>1, <1>3, Zenon DEF Return
  <2>2. c.pc = "returned" /\ c.t = t /\ c.result = r /\ c \in Call
    BY <1>1, Zenon DEF Call
  <2>3. call'[w] = c /\ call' \in [Writers -> Call] /\ \A v \in Writers \ {w} : call'[v] = call[v]
    BY <1>1, <2>1, <2>2
  <2> HIDE DEF c
  <2>4. BuiltInv(c, log)
    BY <1>1, <1>2, <2>2 DEF CallInv, BuiltInv
  <2>5. CallInv(w, c, log', row')
    BY <1>6, <1>8, <1>10, <2>2, <2>4, WritersAssumption DEF CallInv, LockInv, ResultInv
  <2> QED
    BY <2>3, <2>5
<1> QED
  BY <1>5, <1>6, <1>12, <1>13 DEF IInv

\* Every step preserves the inductive invariant.
LEMMA NextIInv == IInv /\ [Next]_vars => IInv'
<1> SUFFICES ASSUME IInv, [Next]_vars PROVE IInv'
  OBVIOUS
<1>1. CASE UNCHANGED vars
  BY <1>1 DEF vars, IInv
<1>2. ASSUME NEW w \in Writers, Fail(w) PROVE IInv'
  BY <1>2, ReturnIInv DEF Fail
<1>3. CASE Next
  BY <1>2, <1>3, ObserveIInv, ProposeIInv, LoadIInv, LockIInv, CheckIInv, CommitIInv,
     EndIInv, ResendIInv DEF Next
<1> QED
  BY <1>1, <1>3

\* The inductive invariant holds in every reachable state.
LEMMA Invariance == Spec => []IInv
BY InitIInv, NextIInv, PTL DEF Spec

\* What callers are told is true, whatever the other writers, crashes, lost
\* replies and resends do (applyExecutionTransition).
THEOREM CallersAreToldTheTruth == Spec => []ResultsAreTrue
<1>1. IInv => ResultsAreTrue
  BY DEF IInv, CallInv, ResultInv, ResultsAreTrue
<1> QED
  BY <1>1, Invariance, PTL

-----------------------------------------------------------------------------
(* The repository implements the lifecycle *)

\* The domain package and the repository read the same rules.
LEMMA SameRules ==
  /\ L!NoOrder = NoOrder
  /\ L!Open = Open
  /\ L!TerminalKind = TerminalKind
  /\ L!FailureKind = FailureKind
  /\ \A q : L!OrderOf(q) = OrderOf(q) /\ L!Abs(q) = Abs(q) /\ L!Sign(q) = Sign(q)
  /\ \A k, c, p, n : L!validEventTransition(k, c, p, n) <=> validEventTransition(k, c, p, n)
BY DEF L!NoOrder, NoOrder, L!Open, Open, L!TerminalKind, TerminalKind, L!FailureKind, FailureKind,
       L!OrderOf, OrderOf, L!sideForDelta, sideForDelta, L!Abs, Abs, L!Sign, Sign,
       L!validEventTransition, validEventTransition

\* A routed log has an order, for the allocation it holds; others have none.
LEMMA RoutedHasOrder ==
  ASSUME NEW l, LogInv(l)
  PROVE  /\ Has(l, "intent_allocated") => QuantityOf(l, "intent_allocated") \in Deltas
         /\ Has(l, "order_routed") => aOrder(l) # NoOrder
         /\ ~Has(l, "order_routed") => aOrder(l) = NoOrder
<1>1. ASSUME Has(l, "intent_allocated") PROVE QuantityOf(l, "intent_allocated") \in Deltas
  <2>1. PICK e \in Range(l) : e.kind = "intent_allocated"
    BY <1>1 DEF Has
  <2>2. FactsOnce(l) /\ WellBuilt(e)
    BY DEF LogInv
  <2>3. QuantityOf(l, "intent_allocated") = e.quantity
    BY <2>1, <2>2, QuantityOfFact
  <2> QED
    BY <2>1, <2>2, <2>3 DEF WellBuilt
<1>2. ASSUME Has(l, "order_routed") PROVE aOrder(l) # NoOrder
  <2>1. Has(l, "intent_allocated")
    BY <1>2 DEF LogInv, StateExplained
  <2>2. OrderOf(QuantityOf(l, "intent_allocated")).side # "none"
    BY DEF OrderOf, sideForDelta
  <2> QED
    BY <1>2, <2>2 DEF aOrder, NoOrder
<1>3. ~Has(l, "order_routed") => aOrder(l) = NoOrder
  BY DEF aOrder
<1> QED
  BY <1>1, <1>2, <1>3

\* A log without a binding event has no binding, one with such an event has.
LEMMA BoundHasBinding ==
  ASSUME NEW l, LogInv(l)
  PROVE  /\ aBound(l) = {} => aBinding(l) = NoBinding
         /\ aBound(l) # {} => aBinding(l) \in ExternalIDs /\ aBinding(l) # NoBinding
<1>1. aBound(l) = {} => aBinding(l) = NoBinding
  BY DEF aBinding
<1>2. ASSUME aBound(l) # {} PROVE aBinding(l) \in ExternalIDs /\ aBinding(l) # NoBinding
  <2>1. PICK e \in aBound(l) : TRUE
    BY <1>2
  <2>2. e \in Range(l) /\ e.kind \in BindKind /\ WellBuilt(e)
    BY DEF aBound, BindKind, LogInv
  <2>3. aBinding(l) = e.external
    BY BindingOfFact DEF LogInv, FactsOnce
  <2> QED
    BY <2>2, <2>3, BindingAssumption DEF WellBuilt
<1> QED
  BY <1>1, <1>2

\* What a commit does to the aggregate that replay computes.
LEMMA CommitReplayed ==
  ASSUME IInv, NEW w \in Writers, Commit(w)
  PROVE  LET t == call[w].t IN
         /\ WellBuilt(t) /\ Applies(log, t)
         /\ t.kind = "fill_recorded" => t.external = aBinding(log)
         /\ L!Record(t.kind, t.class, t.source, t.next)
         /\ aState(log) = t.prior
         /\ QuantityOf(log', "intent_proposed")
              = IF t.kind = "intent_proposed" THEN t.quantity ELSE QuantityOf(log, "intent_proposed")
         /\ QuantityOf(log', "intent_allocated")
              = IF t.kind = "intent_allocated" THEN t.quantity ELSE QuantityOf(log, "intent_allocated")
         /\ aOrder(log') = IF t.kind = "order_routed" THEN OrderOf(QuantityOf(log, "intent_allocated"))
                           ELSE aOrder(log)
         /\ aBinding(log') = IF t.kind \in BindKind THEN t.external ELSE aBinding(log)
         /\ aFills(log') = IF t.kind \in FillKind
                           THEN aFills(log) \cup {[source |-> t.source, quantity |-> t.quantity]}
                           ELSE aFills(log)
         /\ aFilled(log') = IF t.kind \in FillKind THEN t.cumulative ELSE aFilled(log)
<1> DEFINE t == call[w].t
<1>1. CallInv(w, call[w], log, row) /\ LogInv(log)
  BY DEF IInv
<1>2. call[w].pc = "commit" /\ log' = Append(log, t)
  BY DEF Commit
<1>3. /\ WellBuilt(t) /\ Applies(log, t) /\ ID(t) \notin aSeen(log)
      /\ t.kind = "fill_recorded" => t.external = aBinding(log)
  BY <1>1, <1>2 DEF CallInv, BuiltInv, LockInv
<1>4. log \in Seq(Event) /\ t \in Event
  BY <1>1, <1>3 DEF LogInv, WellBuilt
<1> HIDE DEF t
<1>5. t.prior = aState(log) /\ validEventTransition(t.kind, t.class, t.prior, t.next)
  BY <1>3 DEF Applies
<1>6. L!Record(t.kind, t.class, t.source, t.next)
  <2>1. /\ aState(log') = t.next
        /\ aSeen(log') = aSeen(log) \cup {[class |-> t.class, source |-> t.source]}
        /\ aKinds(log') = aKinds(log) \cup {t.kind}
    BY <1>2, <1>4, ReplayAppend DEF ID
  <2>2. [class |-> t.class, source |-> t.source] \notin aSeen(log)
    BY <1>3 DEF ID
  <2> QED
    BY <1>5, <2>1, <2>2, SameRules DEF L!Record
<1>7. /\ QuantityOf(log', "intent_proposed")
           = IF t.kind = "intent_proposed" THEN t.quantity ELSE QuantityOf(log, "intent_proposed")
      /\ QuantityOf(log', "intent_allocated")
           = IF t.kind = "intent_allocated" THEN t.quantity ELSE QuantityOf(log, "intent_allocated")
  BY <1>1, <1>2, <1>3, QuantityAppend
<1>8. aOrder(log') = IF t.kind = "order_routed" THEN OrderOf(QuantityOf(log, "intent_allocated"))
                     ELSE aOrder(log)
  <2>1. Has(log', "order_routed") <=> Has(log, "order_routed") \/ t.kind = "order_routed"
    BY <1>2, <1>4, ReplayAppend
  <2>2. t.kind = "intent_allocated" => ~Has(log, "order_routed")
    BY <1>1, <1>5 DEF validEventTransition, LogInv, StateExplained, Unrouted, Undecided
  <2> QED
    BY <1>7, <2>1, <2>2 DEF aOrder
<1>9. aBinding(log') = IF t.kind \in BindKind THEN t.external ELSE aBinding(log)
  BY <1>1, <1>2, <1>3, BindingAppend
<1>10. aFills(log') = IF t.kind \in FillKind
                      THEN aFills(log) \cup {[source |-> t.source, quantity |-> t.quantity]}
                      ELSE aFills(log)
  <2>1. FillEvents(log') = IF t.kind \in FillKind THEN FillEvents(log) \cup {t} ELSE FillEvents(log)
    BY <1>2, <1>4, ReplayAppend
  <2> QED
    BY <2>1 DEF aFills
<1>11. aFilled(log') = IF t.kind \in FillKind THEN t.cumulative ELSE aFilled(log)
  BY <1>1, <1>2, <1>3, FilledAppend
<1> QED
  BY <1>3, <1>5, <1>6, <1>7, <1>8, <1>9, <1>10, <1>11 DEF t

\* Every commit is one step of the domain lifecycle (ApplyTransition).
LEMMA CommitIsLifecycleStep ==
  ASSUME IInv, NEW w \in Writers, Commit(w)
  PROVE  L!Next
<1> DEFINE t == call[w].t
           s == call[w].t.source
<1>1. /\ WellBuilt(t) /\ Applies(log, t)
      /\ t.kind = "fill_recorded" => t.external = aBinding(log)
      /\ L!Record(t.kind, t.class, t.source, t.next)
      /\ aState(log) = t.prior
      /\ QuantityOf(log', "intent_proposed")
           = IF t.kind = "intent_proposed" THEN t.quantity ELSE QuantityOf(log, "intent_proposed")
      /\ QuantityOf(log', "intent_allocated")
           = IF t.kind = "intent_allocated" THEN t.quantity ELSE QuantityOf(log, "intent_allocated")
      /\ aOrder(log') = IF t.kind = "order_routed" THEN OrderOf(QuantityOf(log, "intent_allocated"))
                        ELSE aOrder(log)
      /\ aBinding(log') = IF t.kind \in BindKind THEN t.external ELSE aBinding(log)
      /\ aFills(log') = IF t.kind \in FillKind
                        THEN aFills(log) \cup {[source |-> t.source, quantity |-> t.quantity]}
                        ELSE aFills(log)
      /\ aFilled(log') = IF t.kind \in FillKind THEN t.cumulative ELSE aFilled(log)
  BY CommitReplayed
<1>2. LogInv(log) /\ StateExplained(log)
  BY DEF IInv, LogInv
<1> HIDE DEF t
<1>3. validEventTransition(t.kind, t.class, t.prior, t.next) /\ t.class = ClassOf(t.kind)
  BY <1>1 DEF WellBuilt
<1>4. t.kind \in EventKind /\ t.source \in Sources
  BY <1>1 DEF WellBuilt, Event
<1>5. /\ aState(log) \in {"allocated", "risk_approved"} \cup Open =>
           QuantityOf(log, "intent_allocated") # 0
      /\ aState(log) \in Open => aOrder(log) # NoOrder
      /\ aState(log) \in Unrouted => aOrder(log) = NoOrder
      /\ aState(log) \in Unbound => aBinding(log) = NoBinding
      /\ aState(log) \in {"working", "partially_filled"} => aBinding(log) # NoBinding
  BY <1>2, RoutedHasOrder, BoundHasBinding, DeltasAssumption DEF StateExplained, Open
<1>6. CASE t.kind = "intent_proposed"
  <2>1. t.quantity \in Deltas /\ t.class = "ordinary" /\ t.next = "proposed"
    BY <1>1, <1>3, <1>6 DEF WellBuilt, validEventTransition
  <2>2. L!Propose(t.quantity, t.source)
    BY <1>1, <1>6, <2>1, SameRules DEF L!Propose, BindKind, FillKind
  <2> QED
    BY <1>4, <2>1, <2>2 DEF L!Next
<1>7. CASE t.kind = "intent_allocated"
  <2>1. t.quantity \in Deltas /\ t.class = "ordinary" /\ t.next = "allocated"
    BY <1>1, <1>3, <1>7 DEF WellBuilt, validEventTransition
  <2>2. /\ Sign(t.quantity) = Sign(QuantityOf(log, "intent_proposed"))
        /\ Abs(t.quantity) <= Abs(QuantityOf(log, "intent_proposed"))
    BY <1>1, <1>7 DEF Applies
  <2>3. L!Allocate(t.quantity, t.source)
    BY <1>1, <1>7, <2>1, <2>2, SameRules DEF L!Allocate, BindKind, FillKind
  <2> QED
    BY <1>4, <2>1, <2>3 DEF L!Next
<1>8. CASE t.kind \in {"risk_approved", "risk_rejected"}
  <2>1. t.prior = "allocated" /\ t.class = "ordinary" /\ t.next = t.kind
    BY <1>3, <1>8 DEF validEventTransition
  <2>2. L!ApproveRisk(t.source) \/ L!RejectRisk(t.source)
    BY <1>1, <1>5, <1>8, <2>1, SameRules DEF L!ApproveRisk, L!RejectRisk, BindKind, FillKind
  <2> QED
    BY <1>4, <2>2 DEF L!Next
<1>9. CASE t.kind = "order_routed"
  <2>1. t.prior = "risk_approved" /\ t.class = "ordinary" /\ t.next = "routed"
    BY <1>3, <1>9 DEF validEventTransition
  <2>2. L!Route(t.source)
    BY <1>1, <1>5, <1>9, <2>1, SameRules DEF L!Route, BindKind, FillKind, Unrouted
  <2> QED
    BY <1>4, <2>2 DEF L!Next
<1>10. CASE t.kind = "order_working"
  <2>1. t.prior = "routed" /\ t.class = "ordinary" /\ t.next = "working"
    BY <1>3, <1>10 DEF validEventTransition
  <2>2. t.external \in ExternalIDs
    BY <1>1, <1>10 DEF WellBuilt, BindKind
  <2>3. L!Acknowledge(t.external, t.source)
    BY <1>1, <1>5, <1>10, <2>1, SameRules DEF L!Acknowledge, BindKind, FillKind, Unbound, Open
  <2> QED
    BY <1>4, <2>2, <2>3 DEF L!Next
<1>11. CASE t.kind = "cancel_requested"
  <2>1. t.prior \in {"working", "partially_filled"} /\ t.class = "ordinary" /\ t.next = t.prior
    BY <1>3, <1>11 DEF validEventTransition
  <2>2. L!RequestCancel(t.source)
    BY <1>1, <1>5, <1>11, <2>1, SameRules DEF L!RequestCancel, BindKind, FillKind, Open
  <2> QED
    BY <1>4, <2>2 DEF L!Next
<1>12. CASE t.kind \in {"order_cancelled", "order_expired", "order_rejected"}
  <2>1. /\ t.prior \in Open /\ t.class = "ordinary"
        /\ t.kind \in DOMAIN TerminalKind /\ t.next = TerminalKind[t.kind]
    BY <1>3, <1>12 DEF validEventTransition, TerminalKind
  <2>2. L!ObserveOrderTerminal(t.kind, t.source)
    BY <1>1, <1>5, <1>12, <2>1, SameRules DEF L!ObserveOrderTerminal, BindKind, FillKind
  <2> QED
    BY <1>4, <2>1, <2>2, SameRules DEF L!Next
<1>13. CASE t.kind \in FillKind
  <2>1. /\ t.class = "ordinary" /\ t.prior \in Open /\ t.next \in {"partially_filled", "filled"}
        /\ t.kind = IF t.prior = "routed" THEN "fill_acknowledged" ELSE "fill_recorded"
    BY <1>3, <1>13 DEF validEventTransition, FillKind, Open
  <2>2. /\ t.cumulative = aFilled(log) + t.quantity
        /\ t.cumulative <= aOrder(log).quantity
        /\ t.next = IF t.cumulative = aOrder(log).quantity THEN "filled" ELSE "partially_filled"
    BY <1>1, <1>13, <2>1 DEF Applies, FillKind
  <2>3. t.quantity \in FillSizes /\ t.external \in ExternalIDs
    BY <1>1, <1>13 DEF WellBuilt
  <2>4. /\ aBinding(log') = t.external
        /\ IF t.prior = "routed" THEN aBinding(log) = NoBinding ELSE t.external = aBinding(log)
    BY <1>1, <1>5, <2>1 DEF BindKind, Unbound
  <2>5. L!RecordFill(t.quantity, t.external, t.source)
    BY <1>1, <1>5, <1>13, <2>1, <2>2, <2>4, SameRules DEF L!RecordFill, FillKind
  <2> QED
    BY <1>4, <2>3, <2>5 DEF L!Next
<1>14. CASE t.kind \in FailureKind
  <2>1. t.next = "failed_reconciliation"
    BY <1>3, <1>14 DEF validEventTransition, FailureKind
  <2>2. t.class # "ordinary" => \E f \in aFills(log) : f.source = t.source
    BY <1>1 DEF Applies
  <2>3. L!FailReconciliation(t.kind, t.source)
    BY <1>1, <1>3, <1>14, <2>1, <2>2, SameRules DEF L!FailReconciliation, ClassOf, FailureKind, BindKind, FillKind
  <2> QED
    BY <1>4, <1>14, <2>3, SameRules DEF L!Next
<1> QED
  BY <1>4, <1>6, <1>7, <1>8, <1>9, <1>10, <1>11, <1>12, <1>13, <1>14 DEF EventKind, FillKind, FailureKind

\* Everything a writer does besides committing leaves the aggregate alone.
LEMMA StepRefines ==
  ASSUME IInv, [Next]_vars
  PROVE  [L!Next]_(L!vars)
<1>1. CASE \E w \in Writers : Commit(w)
  BY <1>1, CommitIsLifecycleStep
<1>2. CASE ~\E w \in Writers : Commit(w)
  <2>1. log' = log
    BY <1>2, Zenon DEF Next, vars, Observe, Propose, Load, Lock, Check, Fail, Crash, Resend, Consume
  <2> QED
    BY <2>1 DEF L!vars
<1> QED
  BY <1>1, <1>2

\* The empty log replays to the initial aggregate.
LEMMA InitRefines == Init => L!Init
<1> SUFFICES ASSUME Init PROVE L!Init
  OBVIOUS
<1>1. log = <<>> /\ Range(<<>>) = {}
  BY DEF Init, Range
<1> QED
  BY <1>1, SameRules DEF L!Init, aState, QuantityOf, Has, aOrder, aBinding, aBound, aFills, aFilled, FillEvents, aSeen, aKinds

\* What concurrent writers commit, with retries, resends and crashes, is a
\* behaviour of the one domain lifecycle.
THEOREM RepositoryImplementsLifecycle == Spec => ImplementsLifecycle
BY InitRefines, StepRefines, Invariance, PTL DEF Spec, ImplementsLifecycle, L!Spec

\* The restart query finds the intent exactly while its order is open.
THEOREM RestartsFindOpenOrders == Spec => []RestartFindsOpenOrder
<1>1. IInv => RestartFindsOpenOrder
  <2> SUFFICES ASSUME IInv PROVE RestartFindsOpenOrder
    OBVIOUS
  <2>1. LogInv(log) /\ StateExplained(log)
    BY DEF IInv, LogInv
  <2>2. aState(log) \in Open => aOrder(log) # NoOrder
    BY <2>1, RoutedHasOrder DEF StateExplained
  <2> QED
    BY <2>1, <2>2, SameRules DEF RestartFindsOpenOrder, RecoveryCandidate, L!RecoveryEligible, aState, Open
<1> QED
  BY <1>1, Invariance, PTL
=============================================================================

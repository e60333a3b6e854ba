--------------------------- MODULE LifecycleStore ---------------------------
(***************************************************************************)
(* The PostgreSQL repository of execution lifecycles, for one intent: the  *)
(* committed event log, the row lock on execution_intents and concurrent   *)
(* writers that build a transition from the aggregate they read, then run  *)
(* applyExecutionTransition: load, look for the event, lock, compare the   *)
(* latest event with the loaded one, validate, insert, commit; reload and  *)
(* retry when the log moved.  Calls fail or crash at every step, the reply *)
(* to a commit may be lost, and callers resend or rebuild.                 *)
(*                                                                         *)
(* The aggregate is never stored: it is replayed from the log, and that    *)
(* replay is the refinement mapping to Lifecycle.                          *)
(***************************************************************************)
EXTENDS LifecycleRules, Sequences, Functions, FiniteSetsExt

CONSTANTS Writers,       \* concurrent callers of the repository
          NoWriter,      \* the row is not locked
          Observations,  \* what callers may have seen: [kind, source, quantity, external]
          MaxAttempts    \* the bound of the reload loop, 16 in the code

ASSUME AttemptsAssumption == MaxAttempts \in Nat \ {0}
ASSUME WritersAssumption  == NoWriter \notin Writers

\* What the constructors' callers pass: an intent or an allocation names a
\* nonzero quantity, an execution a positive one, and an acknowledgement and
\* an execution name the venue's order.
ASSUME ObservationsAssumption ==
  \A o \in Observations :
    /\ o.kind \in (EventKind \ {"fill_acknowledged", "fill_recorded"}) \cup {"fill"}
    /\ o.source \in Sources
    /\ o.quantity \in Int
    /\ o.external \in ExternalIDs \cup {NoBinding}
    /\ o.kind \in {"intent_proposed", "intent_allocated"} => o.quantity \in Deltas
    /\ o.kind = "fill" => o.quantity \in FillSizes
    /\ o.kind \in {"order_working", "fill"} => o.external \in ExternalIDs

VARIABLES log,   \* committed execution_lifecycle_events in ingest order
          row,   \* the transaction that holds FOR UPDATE on the intent
          call   \* per writer: pc, transition, events loaded, attempt, result

vars == <<log, row, call>>

-----------------------------------------------------------------------------
(* Replay: the aggregate of a log *)

Latest(l) == l[Len(l)]

Has(l, kind) == \E e \in Range(l) : e.kind = kind

QuantityOf(l, kind) ==
  IF Has(l, kind) THEN (CHOOSE e \in Range(l) : e.kind = kind).quantity ELSE 0

FillEvents(l) == {e \in Range(l) : e.kind \in {"fill_acknowledged", "fill_recorded"}}

aState(l)   == IF l = <<>> THEN "none" ELSE Latest(l).next
aOrder(l)   == IF Has(l, "order_routed") THEN OrderOf(QuantityOf(l, "intent_allocated")) ELSE NoOrder
aBound(l)   == {e \in Range(l) : e.kind \in {"order_working", "fill_acknowledged"}}
aBinding(l) == IF aBound(l) = {} THEN NoBinding ELSE (CHOOSE e \in aBound(l) : TRUE).external
aFills(l)   == {[source |-> e.source, quantity |-> e.quantity] : e \in FillEvents(l)}
aFilled(l)  == IF FillEvents(l) = {} THEN 0 ELSE Max({e.cumulative : e \in FillEvents(l)})
aSeen(l)    == {[class |-> e.class, source |-> e.source] : e \in Range(l)}
aKinds(l)   == {e.kind : e \in Range(l)}

L == INSTANCE Lifecycle WITH
       state     <- aState(log),
       desired   <- QuantityOf(log, "intent_proposed"),
       allocated <- QuantityOf(log, "intent_allocated"),
       order     <- aOrder(log),
       binding   <- aBinding(log),
       fills     <- aFills(log),
       filled    <- aFilled(log),
       seen      <- aSeen(log),
       kinds     <- aKinds(log)

-----------------------------------------------------------------------------
(* The domain constructors and ApplyTransition on a replayed aggregate *)

\* The transition a constructor builds for an observation from aggregate l.
Build(l, o) ==
  LET st   == aState(l)
      cum  == aFilled(l) + o.quantity
      kind == IF o.kind # "fill" THEN o.kind
              ELSE IF st = "routed" THEN "fill_acknowledged" ELSE "fill_recorded"
      class == CASE kind = "fill_correction_observed" -> "correction"
                 [] kind = "fill_bust_observed" -> "bust"
                 [] OTHER -> "ordinary"
      next == CASE kind = "intent_proposed"  -> "proposed"
                [] kind = "intent_allocated" -> "allocated"
                [] kind = "order_routed"     -> "routed"
                [] kind = "order_working"    -> "working"
                [] kind = "cancel_requested" -> st
                [] kind \in {"risk_approved", "risk_rejected"} -> kind
                [] kind \in DOMAIN TerminalKind -> TerminalKind[kind]
                [] kind \in FailureKind -> "failed_reconciliation"
                [] OTHER -> IF cum = aOrder(l).quantity THEN "filled" ELSE "partially_filled"
  IN [kind |-> kind, class |-> class, source |-> o.source, prior |-> st, next |-> next,
      quantity |-> o.quantity, cumulative |-> IF o.kind = "fill" THEN cum ELSE 0,
      external |-> o.external]

ID(t) == [class |-> t.class, source |-> t.source]

\* ApplyTransition accepts t on aggregate l.
Applies(l, t) ==
  /\ t.prior = aState(l)
  /\ validEventTransition(t.kind, t.class, t.prior, t.next)
  /\ t.kind = "intent_allocated" =>
       /\ Sign(t.quantity) = Sign(QuantityOf(l, "intent_proposed"))
       /\ Abs(t.quantity) <= Abs(QuantityOf(l, "intent_proposed"))
  /\ t.kind \in {"fill_acknowledged", "fill_recorded"} =>
       /\ t.cumulative = aFilled(l) + t.quantity
       /\ t.cumulative <= aOrder(l).quantity
       /\ (t.next = "filled") <=> (t.cumulative = aOrder(l).quantity)
       /\ (t.kind = "fill_acknowledged") <=> (aBinding(l) = NoBinding)
  /\ t.class # "ordinary" => \E f \in aFills(l) : f.source = t.source

\* The constructor for o returns no error on aggregate l; a fill of a bound
\* order must also name the bound external order.
Constructible(l, o) ==
  /\ Applies(l, Build(l, o))
  /\ Build(l, o).kind = "fill_recorded" => o.external = aBinding(l)

\* validate_execution_lifecycle_event, the trigger on every event insert.
TriggerAccepts(l, t) ==
  /\ ID(t) \notin aSeen(l)
  /\ t.prior = aState(l)
  /\ validEventTransition(t.kind, t.class, t.prior, t.next)

-----------------------------------------------------------------------------
Idle == [pc |-> "idle", t |-> <<>>, snap |-> 0, attempt |-> 0, result |-> "none"]

Init ==
  /\ log = <<>>
  /\ row = NoWriter
  /\ call = [w \in Writers |-> Idle]

Goto(w, pc) == call' = [call EXCEPT ![w].pc = pc]

Return(w, result) == call' = [call EXCEPT ![w].pc = "returned", ![w].result = result]

Unlock(w) == row' = IF row = w THEN NoWriter ELSE row

\* Mutant: FOR UPDATE does not exclude the other transactions.
RowFreeAlways(w) == TRUE

RowFree(w) == row = NoWriter

\* The caller reads the aggregate and builds a transition from it.
Observe(w, o) ==
  /\ call[w].pc = "idle"
  /\ o.kind # "intent_proposed"
  /\ log # <<>>
  /\ Constructible(log, o)
  /\ call' = [call EXCEPT ![w] = [Idle EXCEPT !.pc = "load", !.t = Build(log, o)]]
  /\ UNCHANGED <<log, row>>

\* ProposeExecutionIntent: the unique key makes a second insert wait for the
\* first, which is what holding the row models, and then do nothing.
Propose(w, o) ==
  /\ call[w].pc = "idle"
  /\ o.kind = "intent_proposed"
  /\ LET t == Build(<<>>, o)
     IN IF log # <<>>
        THEN /\ call' = [call EXCEPT ![w] = [Idle EXCEPT !.pc = "returned", !.t = t,
                           !.result = IF log[1] = t THEN "applied" ELSE "conflict"]]
             /\ UNCHANGED row
        ELSE /\ RowFree(w)
             /\ row' = w
             /\ call' = [call EXCEPT ![w] = [Idle EXCEPT !.pc = "commit", !.t = t]]
  /\ UNCHANGED log

\* Mutant: an event with the same identity counts as the same transition.
SamePayloadByID(e, t) == ID(e) = ID(t)

\* transitionReplayMatches
SamePayload(e, t) == e = t

\* One turn of the loop starts: reload, and return when the event is there.
Load(w) ==
  /\ call[w].pc = "load"
  /\ IF call[w].attempt >= MaxAttempts
     THEN Return(w, "did_not_converge")
     ELSE IF ID(call[w].t) \in aSeen(log)
     THEN Return(w, IF \E e \in Range(log) : ID(e) = ID(call[w].t) /\ SamePayload(e, call[w].t)
                    THEN "applied" ELSE "conflict")
     ELSE call' = [call EXCEPT ![w].pc = "lock", ![w].snap = Len(log)]
  /\ UNCHANGED <<log, row>>

Lock(w) ==
  /\ call[w].pc = "lock"
  /\ RowFree(w)
  /\ row' = w
  /\ Goto(w, "check")
  /\ UNCHANGED log

\* Mutant: the reload path leaves the transaction open.
CheckLeaking(w) ==
  /\ call[w].pc = "check"
  /\ IF Len(log) # call[w].snap
     THEN /\ call' = [call EXCEPT ![w].pc = "load", ![w].attempt = @ + 1]
          /\ UNCHANGED row
     ELSE /\ Goto(w, "commit")
          /\ UNCHANGED row
  /\ UNCHANGED log

\* Under the lock: reload if the log moved, refuse what does not apply, else
\* insert the event and its child facts (the trigger checks them again).
Check(w) ==
  LET c == call[w]
      loaded == SubSeq(log, 1, c.snap)
  IN /\ c.pc = "check"
     /\ \/ /\ Latest(log) # Latest(loaded)
           /\ call' = [call EXCEPT ![w].pc = "load", ![w].attempt = @ + 1]
           /\ Unlock(w)
        \/ /\ Latest(log) = Latest(loaded)
           /\ ~ (Applies(loaded, c.t) /\ TriggerAccepts(log, c.t))
           /\ Return(w, "refused")
           /\ Unlock(w)
        \/ /\ Latest(log) = Latest(loaded)
           /\ Applies(loaded, c.t)
           /\ TriggerAccepts(log, c.t)
           /\ Goto(w, "commit")
           /\ UNCHANGED row
     /\ UNCHANGED log

\* The commit succeeds; its reply, or the reload that follows it, may be lost.
Commit(w) ==
  /\ call[w].pc = "commit"
  /\ log' = Append(log, call[w].t)
  /\ Unlock(w)
  /\ \E result \in {"applied", "error"} : Return(w, result)

\* The database refuses or the connection drops: the transaction rolls back.
Fail(w) ==
  /\ call[w].pc \in {"load", "lock", "check", "commit"}
  /\ Return(w, "error")
  /\ Unlock(w)
  /\ UNCHANGED log

\* The process dies; PostgreSQL rolls the open transaction back.
Crash(w) ==
  /\ call[w].pc # "idle"
  /\ call' = [call EXCEPT ![w] = Idle]
  /\ Unlock(w)
  /\ UNCHANGED log

\* A caller that got an error sends the same transition again.
Resend(w) ==
  /\ call[w].pc = "returned"
  /\ call[w].result = "error"
  /\ call[w].t.kind # "intent_proposed"
  /\ call' = [call EXCEPT ![w] = [Idle EXCEPT !.pc = "load", !.t = call[w].t]]
  /\ UNCHANGED <<log, row>>

\* The caller takes the result and goes on.
Consume(w) ==
  /\ call[w].pc = "returned"
  /\ call' = [call EXCEPT ![w] = Idle]
  /\ UNCHANGED <<log, row>>

Next ==
  \E w \in Writers :
    \/ \E o \in Observations : Observe(w, o) \/ Propose(w, o)
    \/ Load(w) \/ Lock(w) \/ Check(w) \/ Commit(w)
    \/ Fail(w) \/ Crash(w) \/ Resend(w) \/ Consume(w)

\* A running call keeps running; PostgreSQL grants a contended row lock in
\* turn, so a waiter is not passed over for ever.
Fairness ==
  \A w \in Writers : /\ WF_vars(Load(w) \/ Check(w) \/ Commit(w))
                     /\ SF_vars(Lock(w))

Spec == Init /\ [][Next]_vars /\ Fairness

\* Mutant: orders without an acknowledgement are not listed.
RecoveryCandidateBound == log # <<>> /\ Latest(log).next \in {"working", "partially_filled"}

\* ListExecutionRecoveryCandidates returns the intent.
RecoveryCandidate == log # <<>> /\ Latest(log).next \in Open

-----------------------------------------------------------------------------
\* The repository implements the lifecycle: what concurrent writers commit,
\* with retries, resends and crashes, is a behaviour of one Lifecycle.
ImplementsLifecycle == L!Spec

\* A caller told that its transition is applied finds exactly that transition
\* in the log, and a conflict means that its identity carries other facts.
ResultsAreTrue ==
  \A w \in Writers :
    /\ call[w].result = "applied" => call[w].t \in Range(log)
    /\ call[w].result = "conflict" => call[w].t \notin Range(log) /\ log # <<>>

\* A restart lists the intent exactly while its order is open: nothing routed
\* is forgotten and nothing closed is picked up again.
RestartFindsOpenOrder == RecoveryCandidate <=> L!RecoveryEligible

\* Every call of the repository returns, whatever the other writers do.
CallsReturn ==
  \A w \in Writers : call[w].pc \in {"load", "lock", "check", "commit"}
                       ~> call[w].pc \in {"returned", "idle"}
=============================================================================

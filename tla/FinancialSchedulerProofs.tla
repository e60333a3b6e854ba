---------------------- MODULE FinancialSchedulerProofs ----------------------
(***************************************************************************)
(* Proofs that the safety properties of FinancialScheduler hold for any    *)
(* number of runs, owners, effects and payloads, and any lease duration.   *)
(***************************************************************************)
EXTENDS FinancialScheduler, TLAPS

Holding == Executing \cup {"done"}

\* Fences are issued once: runs that hold one hold different ones, none above
\* the table's, and the current one belongs to the owner the table names.
Fenced ==
  \A r \in Runners : run[r].pc \in Holding =>
    /\ run[r].fence <= lease.fence
    /\ run[r].fence = lease.fence => lease.owner = Owner[r]
    /\ \A q \in Runners \ {r} : run[q].pc \in Holding => run[q].fence # run[r].fence

\* A report of completion carries the terminal event's fence.
Reported ==
  \A r \in Runners : run[r].pc = "done" => Terminal /\ run[r].fence = lease.fence

\* A claim is absent or complete; a run about to perform an effect holds the
\* claimed payload; what was sent is what was claimed.
Claimed ==
  /\ \A e \in Effects : /\ claims[e] = NoClaim \/ claims[e].payload \in Payloads
                        /\ claims[e].fence <= lease.fence
                        /\ sent[e] \subseteq {claims[e].payload}
  /\ \A r \in Runners : run[r].pc = "claimed" =>
       /\ run[r].effect \in Effects
       /\ run[r].payload \in Payloads
       /\ claims[run[r].effect].payload = run[r].payload

IInv == TypeOK /\ Fenced /\ Reported /\ Claimed

LEMMA InitIInv == Init => IInv
  BY TTLAssumption
     DEF Init, IInv, TypeOK, Fenced, Reported, Claimed, Idle, NoClaim, LeaseEvent,
         RunState, Executing, Holding, Terminal

-----------------------------------------------------------------------------
(***************************************************************************)
(* Updates of one run's record and of the latest lease event.              *)
(***************************************************************************)
LEMMA IdleType == Idle \in RunState
  BY DEF Idle, RunState

LEMMA SetSeq ==
  ASSUME NEW x \in RunState, NEW n \in Nat
  PROVE  [x EXCEPT !.seq = n] \in RunState
  BY DEF RunState

LEMMA SetCancelled ==
  ASSUME NEW x \in RunState, NEW b \in BOOLEAN
  PROVE  [x EXCEPT !.cancelled = b] \in RunState
  BY DEF RunState

LEMMA SetRun ==
  ASSUME TypeOK, NEW r \in Runners, NEW v \in RunState, run' = [run EXCEPT ![r] = v]
  PROVE  run' \in [Runners -> RunState]
  BY DEF TypeOK

LEMMA SetLease ==
  ASSUME TypeOK, NEW k \in {"renewed", "succeeded", "failed"}, NEW n \in 0..TTL
  PROVE  [lease EXCEPT !.kind = k, !.seq = @ + 1, !.left = n] \in LeaseEvent
<1>1. lease \in LeaseEvent /\ lease.seq + 1 \in Nat
  BY DEF TypeOK, LeaseEvent
<1> QED BY <1>1 DEF LeaseEvent

LEMMA NextType == ASSUME TypeOK, Claimed, [Next]_vars PROVE TypeOK'
<1>0. \A r \in Runners : run[r] \in RunState
  BY DEF TypeOK
<1>1. ASSUME NEW r \in Runners, Acquire(r) PROVE TypeOK'
  <2>1. lease' \in LeaseEvent
    BY <1>1, TTLAssumption, OwnerAssumption DEF Acquire, StoreAcquire, TypeOK, LeaseEvent
  <2>2. lease.fence + 1 \in Nat /\ lease.seq + 1 \in Nat
    BY DEF TypeOK, LeaseEvent
  <2>3. [Idle EXCEPT !.pc = "running", !.fence = lease.fence + 1,
                     !.seq = lease.seq + 1, !.renewing = TRUE] \in RunState
    BY <2>2 DEF Idle, RunState, Executing
  <2>4. CASE run' = run
    BY <1>1, <2>1, <2>4 DEF Acquire, StoreAcquire, TypeOK
  <2>5. CASE run' # run
    <3>1. run' = [run EXCEPT ![r] = [Idle EXCEPT !.pc = "running", !.fence = lease.fence + 1,
                                       !.seq = lease.seq + 1, !.renewing = TRUE]]
      BY <1>1, <2>5 DEF Acquire, StoreAcquire
    <3>2. run' \in [Runners -> RunState]
      BY <2>3, <3>1, SetRun
    <3> QED BY <1>1, <2>1, <3>2 DEF Acquire, StoreAcquire, TypeOK
  <2> QED BY <2>4, <2>5
<1>2. ASSUME NEW r \in Runners, Renew(r) PROVE TypeOK'
  <2>1. lease' \in LeaseEvent
    <3>1. lease' = lease \/ lease' = [lease EXCEPT !.kind = "renewed", !.seq = @ + 1, !.left = TTL]
      BY <1>2 DEF Renew, StoreRenew
    <3>2. 0 \in 0..TTL /\ TTL \in 0..TTL
      BY TTLAssumption
    <3> QED BY <3>1, <3>2, SetLease DEF TypeOK
  <2>2. [run[r] EXCEPT !.seq = lease'.seq] \in RunState
    BY <1>0, <2>1, SetSeq DEF LeaseEvent
  <2>3. [run[r] EXCEPT !.renewing = FALSE, !.cancelled = TRUE] \in RunState
    BY <1>0 DEF RunState
  <2>4. \/ run' = [run EXCEPT ![r] = [run[r] EXCEPT !.seq = lease'.seq]]
        \/ run' = [run EXCEPT ![r] = [run[r] EXCEPT !.renewing = FALSE, !.cancelled = TRUE]]
    BY <1>2 DEF Renew, StoreRenew, TypeOK
  <2>5. run' \in [Runners -> RunState]
    BY <2>2, <2>3, <2>4, SetRun
  <2> QED BY <1>2, <2>1, <2>5 DEF Renew, StoreRenew, TypeOK
<1>3. ASSUME NEW r \in Runners, Cancel(r) PROVE TypeOK'
  <2>1. [run[r] EXCEPT !.cancelled = TRUE] \in RunState
    BY <1>0, SetCancelled
  <2>2. run' = [run EXCEPT ![r] = [run[r] EXCEPT !.cancelled = TRUE]]
    BY <1>3 DEF Cancel, TypeOK
  <2>3. run' \in [Runners -> RunState]
    BY <2>1, <2>2, SetRun
  <2> QED BY <1>3, <2>3 DEF Cancel, TypeOK
<1>4. ASSUME NEW r \in Runners, NEW e \in Effects, NEW p \in Payloads, ClaimEffect(r, e, p)
      PROVE TypeOK'
  <2>1. [run[r] EXCEPT !.pc = "claimed", !.effect = e, !.payload = p] \in RunState
    BY <1>0 DEF RunState, Executing
  <2>2. \/ run' = run
        \/ run' = [run EXCEPT ![r] = [run[r] EXCEPT !.pc = "claimed", !.effect = e, !.payload = p]]
    BY <1>4 DEF ClaimEffect, StoreClaimEffect, TypeOK
  <2>3. run' \in [Runners -> RunState]
    BY <2>1, <2>2, SetRun DEF TypeOK
  <2>4. run[r].fence \in Nat
    BY <1>0 DEF RunState
  <2>5. claims' \in [Effects -> [payload : Payloads \cup {None}, fence : Nat]]
    BY <1>4, <2>4 DEF ClaimEffect, StoreClaimEffect, TypeOK
  <2> QED BY <1>4, <2>3, <2>5 DEF ClaimEffect, StoreClaimEffect, TypeOK
<1>5. ASSUME NEW r \in Runners, Write(r) PROVE TypeOK'
  <2>1. [run[r] EXCEPT !.pc = "running", !.effect = None, !.payload = None] \in RunState
    BY <1>0 DEF RunState, Executing
  <2>2. run' = [run EXCEPT ![r] =
                  [run[r] EXCEPT !.pc = "running", !.effect = None, !.payload = None]]
    BY <1>5 DEF Write, TypeOK
  <2>3. run' \in [Runners -> RunState]
    BY <2>1, <2>2, SetRun
  <2>4. run[r].effect \in Effects /\ run[r].payload \in Payloads
    BY <1>5 DEF Write, Claimed
  <2>5. sent' \in [Effects -> SUBSET Payloads]
    BY <1>5, <2>4 DEF Write, TypeOK
  <2> QED BY <1>5, <2>3, <2>5 DEF Write, TypeOK
<1>6. ASSUME NEW r \in Runners, NEW ok \in BOOLEAN, JobReturns(r, ok) PROVE TypeOK'
  <2>1. [run[r] EXCEPT !.pc = "returned", !.ok = ok, !.effect = None, !.payload = None]
          \in RunState
    BY <1>0 DEF RunState, Executing
  <2>2. run' = [run EXCEPT ![r] = [run[r] EXCEPT !.pc = "returned", !.ok = ok,
                                                 !.effect = None, !.payload = None]]
    BY <1>6 DEF JobReturns, TypeOK
  <2>3. run' \in [Runners -> RunState]
    BY <2>1, <2>2, SetRun
  <2> QED BY <1>6, <2>3 DEF JobReturns, TypeOK
<1>7. ASSUME NEW r \in Runners, Complete(r) PROVE TypeOK'
  <2>1. lease' \in LeaseEvent
    <3>1. \/ lease' = lease
          \/ \E k \in {"succeeded", "failed"} :
               lease' = [lease EXCEPT !.kind = k, !.seq = @ + 1, !.left = 0]
      BY <1>7 DEF Complete, StoreComplete
    <3>2. 0 \in 0..TTL
      BY TTLAssumption
    <3>3. ASSUME NEW k \in {"succeeded", "failed"},
                 lease' = [lease EXCEPT !.kind = k, !.seq = @ + 1, !.left = 0]
          PROVE  lease' \in LeaseEvent
      BY <3>2, <3>3, SetLease
    <3> QED BY <3>1, <3>3 DEF TypeOK
  <2>2. [Idle EXCEPT !.pc = "done", !.fence = run[r].fence] \in RunState
    BY <1>0 DEF RunState, Idle
  <2>3. run' \in [Runners -> RunState]
    <3>1. \/ run' = [run EXCEPT ![r] = [Idle EXCEPT !.pc = "done", !.fence = run[r].fence]]
          \/ run' = [run EXCEPT ![r] = Idle]
      BY <1>7 DEF Complete, StoreComplete
    <3> QED BY <2>2, <3>1, IdleType, SetRun
  <2> QED BY <1>7, <2>1, <2>3 DEF Complete, StoreComplete, TypeOK
<1>8. ASSUME NEW r \in Runners, Crash(r) PROVE TypeOK'
  BY <1>8, IdleType, SetRun DEF Crash, TypeOK
<1>9. ASSUME Tick PROVE TypeOK'
  BY <1>9, TTLAssumption DEF Tick, TypeOK, LeaseEvent
<1>10. ASSUME UNCHANGED vars PROVE TypeOK'
  BY <1>10 DEF vars, TypeOK
<1> QED BY <1>1, <1>2, <1>3, <1>4, <1>5, <1>6, <1>7, <1>8, <1>9, <1>10 DEF Next

-----------------------------------------------------------------------------
(***************************************************************************)
(* The rest of the invariant.  Only Acquire issues a fence, only Complete  *)
(* makes a terminal event and a report, only ClaimEffect and Write touch   *)
(* the claims and what is sent.                                            *)
(***************************************************************************)
LEMMA AcquireIInv ==
  ASSUME IInv, TypeOK', NEW r \in Runners, Acquire(r) PROVE IInv'
<1> USE DEF IInv
<1>1. /\ lease'.fence = lease.fence + 1
      /\ lease'.owner = Owner[r]
      /\ lease.fence \in Nat
      /\ ~ Terminal
      /\ claims' = claims /\ sent' = sent
  BY DEF Acquire, StoreAcquire, Acquirable, Active, Terminal, TypeOK, LeaseEvent
<1>2. /\ \A q \in Runners \ {r} : run'[q] = run[q]
      /\ run[r].pc = "idle"
      /\ \/ run'[r] = run[r]
         \/ run'[r].pc = "running" /\ run'[r].fence = lease.fence + 1
  BY <1>1 DEF Acquire, TypeOK, Idle
<1>3. \A q \in Runners : run[q].fence \in Nat /\ run'[q].fence \in Nat
  BY DEF TypeOK, RunState
<1>4. Fenced'
  BY <1>1, <1>2, <1>3 DEF Fenced, Holding, Executing
<1>5. Reported'
  BY <1>1, <1>2 DEF Reported
<1>6. \A e \in Effects : claims[e].fence \in Nat
  BY DEF TypeOK
<1>7. Claimed'
  BY <1>1, <1>2, <1>6 DEF Claimed
<1> QED BY <1>4, <1>5, <1>7

\* Steps that keep the fence and the owner of the lease, and give no run a
\* fence or a report.
LEMMA SameFence ==
  ASSUME IInv,
         lease'.fence = lease.fence, lease'.owner = lease.owner,
         \A q \in Runners : run'[q].pc \in Holding =>
             run[q].pc \in Holding /\ run'[q].fence = run[q].fence
  PROVE  Fenced'
  BY DEF IInv, Fenced

LEMMA SameReports ==
  ASSUME IInv, Terminal => lease' = lease,
         \A q \in Runners : run'[q].pc = "done" => run'[q] = run[q]
  PROVE  Reported'
  BY DEF IInv, Reported, Terminal

LEMMA SameClaims ==
  ASSUME IInv, lease'.fence = lease.fence, claims' = claims, sent' = sent,
         \A q \in Runners : run'[q].pc = "claimed" =>
             /\ run[q].pc = "claimed"
             /\ run'[q].effect = run[q].effect
             /\ run'[q].payload = run[q].payload
  PROVE  Claimed'
  BY DEF IInv, Claimed

LEMMA RenewIInv ==
  ASSUME IInv, TypeOK', NEW r \in Runners, Renew(r) PROVE IInv'
<1>1. /\ lease'.fence = lease.fence /\ lease'.owner = lease.owner
      /\ Terminal => lease' = lease
      /\ claims' = claims /\ sent' = sent
  BY DEF Renew, StoreRenew, Authorised, Active, Terminal, IInv, TypeOK, LeaseEvent
<1>2. /\ \A q \in Runners \ {r} : run'[q] = run[q]
      /\ run[r].pc \in Executing
      /\ run'[r].pc = run[r].pc /\ run'[r].fence = run[r].fence
      /\ run'[r].effect = run[r].effect /\ run'[r].payload = run[r].payload
  BY DEF Renew, StoreRenew, IInv, TypeOK, RunState
<1>3. Fenced'
  BY <1>1, <1>2, SameFence
<1>4. Reported'
  BY <1>1, <1>2, SameReports DEF Executing
<1>5. Claimed'
  BY <1>1, <1>2, SameClaims
<1> QED BY <1>3, <1>4, <1>5 DEF IInv

LEMMA CancelIInv ==
  ASSUME IInv, TypeOK', NEW r \in Runners, Cancel(r) PROVE IInv'
<1>1. lease' = lease /\ claims' = claims /\ sent' = sent
  BY DEF Cancel
<1>2. /\ \A q \in Runners \ {r} : run'[q] = run[q]
      /\ run[r].pc \in Executing
      /\ run'[r].pc = run[r].pc /\ run'[r].fence = run[r].fence
      /\ run'[r].effect = run[r].effect /\ run'[r].payload = run[r].payload
  BY DEF Cancel, IInv, TypeOK, RunState
<1>3. Fenced'
  BY <1>1, <1>2, SameFence
<1>4. Reported'
  BY <1>1, <1>2, SameReports DEF Executing
<1>5. Claimed'
  BY <1>1, <1>2, SameClaims
<1> QED BY <1>3, <1>4, <1>5 DEF IInv

LEMMA ClaimIInv ==
  ASSUME IInv, TypeOK', NEW r \in Runners, NEW e \in Effects, NEW p \in Payloads,
         ClaimEffect(r, e, p)
  PROVE  IInv'
<1>1. lease' = lease /\ sent' = sent
  BY DEF ClaimEffect, StoreClaimEffect
<1>2. /\ \A q \in Runners \ {r} : run'[q] = run[q]
      /\ run[r].pc = "running"
      /\ run'[r].fence = run[r].fence
      /\ \/ run'[r] = run[r]
         \/ run'[r].pc = "claimed" /\ run'[r].effect = e /\ run'[r].payload = p
  BY DEF ClaimEffect, StoreClaimEffect, IInv, TypeOK, RunState
<1>3. Fenced'
  BY <1>1, <1>2, SameFence DEF Holding, Executing
<1>4. Reported'
  BY <1>1, <1>2, SameReports
<1>5. /\ \A f \in Effects \ {e} : claims'[f] = claims[f]
      /\ claims'[e].payload = p
      /\ claims'[e].fence <= lease.fence
      /\ claims[e] = NoClaim \/ claims'[e] = claims[e]
  <2>1. run[r].fence <= lease.fence
    BY <1>2 DEF IInv, Fenced, Holding, Executing
  <2>2. claims' = [claims EXCEPT ![e] =
                    IF @ = NoClaim THEN [payload |-> p, fence |-> run[r].fence] ELSE @]
    BY DEF ClaimEffect, StoreClaimEffect
  <2>3. claims[e] = NoClaim \/ claims[e].payload = p
    BY DEF ClaimEffect, StoreClaimEffect
  <2>4. claims[e].fence <= lease.fence
    BY DEF IInv, Claimed
  <2> QED BY <2>1, <2>2, <2>3, <2>4 DEF IInv, TypeOK
<1>6. sent[e] \subseteq {p}
  <2>1. sent[e] \subseteq {claims[e].payload} /\ sent[e] \subseteq Payloads
    BY DEF IInv, Claimed, TypeOK
  <2> QED BY <1>5, <2>1, NoneAssumption DEF NoClaim
<1>7. ASSUME NEW q \in Runners, run[q].pc = "claimed", run[q].effect = e
      PROVE  run[q].payload = p
  BY <1>5, <1>7, NoneAssumption DEF IInv, Claimed, NoClaim
<1>8. Claimed'
  BY <1>1, <1>2, <1>5, <1>6, <1>7 DEF IInv, Claimed
<1> QED BY <1>3, <1>4, <1>8 DEF IInv

LEMMA WriteIInv ==
  ASSUME IInv, TypeOK', NEW r \in Runners, Write(r) PROVE IInv'
<1>1. lease' = lease /\ claims' = claims
  BY DEF Write
<1>2. /\ \A q \in Runners \ {r} : run'[q] = run[q]
      /\ run[r].pc = "claimed"
      /\ run'[r].pc = "running" /\ run'[r].fence = run[r].fence
  BY DEF Write, IInv, TypeOK, RunState
<1>3. Fenced'
  BY <1>1, <1>2, SameFence DEF Holding, Executing
<1>4. Reported'
  BY <1>1, <1>2, SameReports
<1>5. run[r].effect \in Effects /\ claims[run[r].effect].payload = run[r].payload
  BY <1>2 DEF IInv, Claimed
<1>6. \A e \in Effects : sent'[e] \subseteq {claims[e].payload}
  BY <1>5 DEF Write, IInv, TypeOK, Claimed
<1>7. Claimed'
  BY <1>1, <1>2, <1>6 DEF IInv, Claimed
<1> QED BY <1>3, <1>4, <1>7 DEF IInv

LEMMA JobReturnsIInv ==
  ASSUME IInv, TypeOK', NEW r \in Runners, NEW ok \in BOOLEAN, JobReturns(r, ok) PROVE IInv'
<1>1. lease' = lease /\ claims' = claims /\ sent' = sent
  BY DEF JobReturns
<1>2. /\ \A q \in Runners \ {r} : run'[q] = run[q]
      /\ run[r].pc \in {"running", "claimed"}
      /\ run'[r].pc = "returned" /\ run'[r].fence = run[r].fence
  BY DEF JobReturns, IInv, TypeOK, RunState
<1>3. Fenced'
  BY <1>1, <1>2, SameFence DEF Holding, Executing
<1>4. Reported'
  BY <1>1, <1>2, SameReports
<1>5. Claimed'
  BY <1>1, <1>2, SameClaims
<1> QED BY <1>3, <1>4, <1>5 DEF IInv

\* The two ways Run can end: nothing recorded, or the terminal event appended
\* by the authorised run.
LEMMA CompleteCases ==
  ASSUME TypeOK, NEW r \in Runners, Complete(r)
  PROVE  \/ /\ lease' = lease
            /\ run' = [run EXCEPT ![r] = Idle]
         \/ /\ Authorised(r)
            /\ \E k \in {"succeeded", "failed"} :
                 lease' = [lease EXCEPT !.kind = k, !.seq = @ + 1, !.left = 0]
            /\ \/ run' = [run EXCEPT ![r] = [Idle EXCEPT !.pc = "done", !.fence = run[r].fence]]
               \/ run' = [run EXCEPT ![r] = Idle]
  BY DEF Complete, StoreComplete

LEMMA CompleteIInv ==
  ASSUME IInv, TypeOK', NEW r \in Runners, Complete(r) PROVE IInv'
<1>0. run[r].pc = "returned" /\ claims' = claims /\ sent' = sent /\ TypeOK
  BY DEF Complete, StoreComplete, IInv
<1>1. CASE lease' = lease /\ run' = [run EXCEPT ![r] = Idle]
  <2>1. run'[r].pc = "idle" /\ \A q \in Runners \ {r} : run'[q] = run[q]
    BY <1>0, <1>1 DEF TypeOK, Idle
  <2>2. Fenced'
    BY <1>1, <2>1, SameFence DEF Holding, Executing
  <2>3. Reported'
    BY <1>1, <2>1, SameReports
  <2>4. Claimed'
    BY <1>0, <1>1, <2>1, SameClaims
  <2> QED BY <2>2, <2>3, <2>4 DEF IInv
<1>2. ASSUME Authorised(r), NEW k \in {"succeeded", "failed"},
             lease' = [lease EXCEPT !.kind = k, !.seq = @ + 1, !.left = 0],
             \/ run' = [run EXCEPT ![r] = [Idle EXCEPT !.pc = "done", !.fence = run[r].fence]]
             \/ run' = [run EXCEPT ![r] = Idle]
      PROVE  IInv'
  <2>1. /\ lease'.fence = lease.fence /\ lease'.owner = lease.owner
        /\ Terminal' /\ ~ Terminal /\ lease.fence = run[r].fence
    BY <1>0, <1>2 DEF Authorised, Active, Terminal, TypeOK, LeaseEvent
  <2>2. /\ \A q \in Runners \ {r} : run'[q] = run[q]
        /\ \/ run'[r].pc = "idle"
           \/ run'[r].pc = "done" /\ run'[r].fence = run[r].fence
    <3>1. CASE run' = [run EXCEPT ![r] = Idle]
      BY <1>0, <3>1 DEF TypeOK, Idle
    <3>2. CASE run' = [run EXCEPT ![r] = [Idle EXCEPT !.pc = "done", !.fence = run[r].fence]]
      BY <1>0, <3>2 DEF TypeOK, Idle
    <3> QED BY <1>2, <3>1, <3>2
  <2>3. Fenced'
    BY <1>0, <2>1, <2>2, SameFence DEF Holding, Executing
  <2>4. Reported'
    BY <2>1, <2>2 DEF IInv, Reported
  <2>5. Claimed'
    BY <1>0, <2>1, <2>2, SameClaims
  <2> QED BY <2>3, <2>4, <2>5 DEF IInv
<1> QED BY <1>0, <1>1, <1>2, CompleteCases

LEMMA CrashIInv ==
  ASSUME IInv, TypeOK', NEW r \in Runners, Crash(r) PROVE IInv'
<1>1. lease' = lease /\ claims' = claims /\ sent' = sent
  BY DEF Crash
<1>2. /\ \A q \in Runners \ {r} : run'[q] = run[q]
      /\ run'[r].pc = "idle"
  BY DEF Crash, IInv, TypeOK, Idle
<1>3. Fenced'
  BY <1>1, <1>2, SameFence DEF Holding, Executing
<1>4. Reported'
  BY <1>1, <1>2, SameReports
<1>5. Claimed'
  BY <1>1, <1>2, SameClaims
<1> QED BY <1>3, <1>4, <1>5 DEF IInv

LEMMA TickIInv ==
  ASSUME IInv, TypeOK', Tick PROVE IInv'
<1>1. /\ lease'.fence = lease.fence /\ lease'.owner = lease.owner
      /\ ~ Terminal
      /\ claims' = claims /\ sent' = sent /\ run' = run
  BY DEF Tick, Active, Terminal, IInv, TypeOK, LeaseEvent
<1> QED BY <1>1, SameFence, SameReports, SameClaims DEF IInv

LEMMA NextIInv == IInv /\ [Next]_vars => IInv'
<1> SUFFICES ASSUME IInv, [Next]_vars PROVE IInv'
  OBVIOUS
<1>1. TypeOK'
  BY NextType DEF IInv
<1>2. CASE UNCHANGED vars
  BY <1>2 DEF vars, IInv, TypeOK, Fenced, Reported, Claimed, Terminal
<1>3. CASE Next
  BY <1>1, <1>3, AcquireIInv, RenewIInv, CancelIInv, ClaimIInv, WriteIInv,
     JobReturnsIInv, CompleteIInv, CrashIInv, TickIInv DEF Next
<1> QED BY <1>2, <1>3

\* IInv is an invariant of the specification.
THEOREM Invariance == Spec => []IInv
  BY InitIInv, NextIInv, PTL DEF Spec

\* No takeover, crash, lost reply or late write ever submits two payloads under
\* one effect key.
THEOREM KeysCarryOnePayload == Spec => []OnePayloadPerKey
<1>1. IInv => OnePayloadPerKey
  BY DEF IInv, Claimed, OnePayloadPerKey
<1> QED BY <1>1, Invariance, PTL

\* The fence distinguishes every two runs that execute at the same time, even
\* under one owner identity.
THEOREM FencesAreExclusive == Spec => []FenceIsExclusive
<1>1. IInv => FenceIsExclusive
  BY DEF IInv, Fenced, Holding, FenceIsExclusive
<1> QED BY <1>1, Invariance, PTL

\* One run at most reports the occurrence complete, the terminal event's.
THEOREM ReportsAreUnique == Spec => []OneReport
<1>1. IInv => OneReport
  BY DEF IInv, Fenced, Reported, Holding, OneReport
<1> QED BY <1>1, Invariance, PTL

\* Takeover needs expiry, fences rise by one, terminal is final, the sequence
\* is gapless.
THEOREM TakeoversNeedExpiry == Spec => TakeoverOnlyAfterExpiry
<1> DEFINE A == /\ lease'.fence # lease.fence =>
                     lease'.fence = lease.fence + 1 /\ (lease.kind = "none" \/ lease.left = 0)
                /\ Terminal => lease' = lease
                /\ lease'.seq \in {lease.seq, lease.seq + 1}
<1>1. ASSUME IInv, [Next]_vars PROVE [A]_vars
  <2>0. TypeOK /\ lease.fence \in Nat /\ lease.seq \in Nat
    BY <1>1 DEF IInv, TypeOK, LeaseEvent
  <2>1. ASSUME lease' = lease PROVE A
    BY <2>1
  <2>2. ASSUME NEW k \in {"renewed", "succeeded", "failed"}, NEW n, Active,
               lease' = [lease EXCEPT !.kind = k, !.seq = @ + 1, !.left = n]
        PROVE  A
    <3>1. lease'.fence = lease.fence /\ lease'.seq = lease.seq + 1 /\ ~ Terminal
      BY <2>0, <2>2 DEF TypeOK, LeaseEvent, Active, Terminal
    <3> QED BY <3>1
  <2>3. ASSUME NEW r \in Runners, Acquire(r) PROVE A
    <3>1. /\ lease'.fence = lease.fence + 1 /\ lease'.seq = lease.seq + 1
          /\ ~ Terminal /\ (lease.kind = "none" \/ lease.left = 0)
      BY <2>3 DEF Acquire, StoreAcquire, Acquirable, Active, Terminal
    <3> QED BY <3>1
  <2>4. ASSUME NEW r \in Runners, Renew(r) PROVE A
    <3>1. \/ lease' = lease
          \/ Active /\ lease' = [lease EXCEPT !.kind = "renewed", !.seq = @ + 1, !.left = TTL]
      BY <2>4 DEF Renew, StoreRenew, Authorised
    <3> HIDE DEF A
    <3> QED BY <2>1, <2>2, <3>1
  <2>5. ASSUME NEW r \in Runners, Complete(r) PROVE A
    <3>1. \/ lease' = lease
          \/ Active /\ \E k \in {"succeeded", "failed"} :
               lease' = [lease EXCEPT !.kind = k, !.seq = @ + 1, !.left = 0]
      BY <2>0, <2>5, CompleteCases DEF Authorised
    <3> HIDE DEF A
    <3> QED BY <2>1, <2>2, <3>1
  <2>6. ASSUME Tick PROVE A
    <3>1. lease'.fence = lease.fence /\ lease'.seq = lease.seq /\ ~ Terminal
      BY <2>0, <2>6 DEF Tick, TypeOK, LeaseEvent, Active, Terminal
    <3> QED BY <3>1
  <2>7. \/ \E r \in Runners : Acquire(r) \/ Renew(r) \/ Complete(r)
        \/ Tick
        \/ lease' = lease
    BY <1>1 DEF Next, vars, Cancel, ClaimEffect, StoreClaimEffect, Write, JobReturns, Crash
  <2> HIDE DEF A
  <2> QED BY <2>1, <2>3, <2>4, <2>5, <2>6, <2>7
<1> QED BY <1>1, Invariance, PTL DEF Spec, TakeoverOnlyAfterExpiry
=============================================================================

------------------------- MODULE FinancialScheduler -------------------------
(***************************************************************************)
(* One occurrence of a financial job, raced by several runners: the        *)
(* Runner and Session of internal/financialscheduler over the lease and    *)
(* effect-claim tables of FinancialSchedulerRepo and migration 98.         *)
(*                                                                         *)
(* Every repository operation is one transaction under the row lock of the *)
(* occurrence, so it is one step; its reply may be lost after the commit.  *)
(* A runner is a job goroutine and a renewal goroutine that share the      *)
(* lease; runners crash, stall past their lease, and keep going after it   *)
(* is lost.  Time is what is left of the lease on the database clock.      *)
(***************************************************************************)
EXTENDS Integers, FiniteSets

CONSTANTS Runners,   \* calls of Runner.Run for the occurrence
          Owners,    \* owner identities
          Owner,     \* the identity each call runs under; calls may share one
          Effects,   \* deterministic effect identities of the occurrence
          Payloads,  \* payload digests a job may compute for an effect
          None,      \* no owner, no payload
          TTL,       \* lease duration in clock steps
          MaxFence,  \* bound on takeovers
          MaxSeq     \* bound on lease events, reached by renewals only

ASSUME TTLAssumption   == TTL \in Nat \ {0}
ASSUME FenceAssumption == MaxFence \in Nat \ {0} /\ MaxSeq \in Nat
ASSUME NoneAssumption  == None \notin Payloads
ASSUME OwnerAssumption == Owner \in [Runners -> Owners]

VARIABLES lease,   \* the latest financial_job_lease_events row, left = time to expiry
          claims,  \* financial_job_effect_claims: payload and fence per effect
          sent,    \* payloads submitted downstream under the effect's idempotency key
          run      \* per runner: pc, its copy of the lease, the renewal goroutine

vars == <<lease, claims, sent, run>>

Idle == [pc |-> "idle", fence |-> 0, seq |-> 0, renewing |-> FALSE,
         cancelled |-> FALSE, ok |-> FALSE, effect |-> None, payload |-> None]

NoClaim == [payload |-> None, fence |-> 0]

Init ==
  /\ lease = [kind |-> "none", owner |-> None, fence |-> 0, seq |-> 0, left |-> 0]
  /\ claims = [e \in Effects |-> NoClaim]
  /\ sent = [e \in Effects |-> {}]
  /\ run = [r \in Runners |-> Idle]

Active   == lease.kind \in {"acquired", "renewed"}
Terminal == lease.kind \in {"succeeded", "failed"}

\* Mutant: an abandoned lease is never taken over.
AcquirableOnce == lease.kind = "none"

\* No lease yet, or an expired one that is not terminal.
Acquirable == lease.kind = "none" \/ (Active /\ lease.left = 0)

\* Mutant: the owner is compared, the fence and the sequence are not.
AuthorisedByOwner(r) == Active /\ lease.left > 0 /\ lease.owner = Owner[r]

\* The caller's owner, fence and sequence are the latest event's, which is an
\* unexpired lease (the repository and the trigger of migration 98 together).
Authorised(r) ==
  /\ Active
  /\ lease.left > 0
  /\ lease.owner = Owner[r]
  /\ lease.fence = run[r].fence
  /\ lease.seq = run[r].seq

Executing == {"running", "claimed", "returned"}

-----------------------------------------------------------------------------
(* FinancialSchedulerRepo: the transactions, as far as they are committed *)

\* Mutant: a takeover keeps the fence of the lease it replaces.
StoreAcquireSameFence(r) ==
  /\ Acquirable
  /\ lease.seq < MaxFence
  /\ lease' = [kind |-> "acquired", owner |-> Owner[r], fence |-> 1,
               seq |-> lease.seq + 1, left |-> TTL]

StoreAcquire(r) ==
  /\ Acquirable
  /\ lease.fence < MaxFence
  /\ lease' = [kind |-> "acquired", owner |-> Owner[r], fence |-> lease.fence + 1,
               seq |-> lease.seq + 1, left |-> TTL]

\* The trigger refuses a renewal that does not move the expiry.
StoreRenew(r) ==
  /\ Authorised(r)
  /\ lease.left < TTL
  /\ lease.seq < MaxSeq
  /\ lease' = [lease EXCEPT !.kind = "renewed", !.seq = @ + 1, !.left = TTL]

\* Mutant: a claim that exists is replayed whatever its payload.
StoreClaimEffectAny(r, e, p) ==
  /\ Authorised(r)
  /\ claims' = [claims EXCEPT ![e] =
                  IF @ = NoClaim THEN [payload |-> p, fence |-> run[r].fence] ELSE @]

\* An existing claim is replayed for the same payload only.
StoreClaimEffect(r, e, p) ==
  /\ Authorised(r)
  /\ claims[e] = NoClaim \/ claims[e].payload = p
  /\ claims' = [claims EXCEPT ![e] =
                  IF @ = NoClaim THEN [payload |-> p, fence |-> run[r].fence] ELSE @]

StoreComplete(r, succeeded) ==
  /\ Authorised(r)
  /\ lease' = [lease EXCEPT !.kind = IF succeeded THEN "succeeded" ELSE "failed",
                            !.seq = @ + 1, !.left = 0]

-----------------------------------------------------------------------------
(* Runner and Session *)

\* Run up to the job; when the reply is lost the lease is orphaned.
Acquire(r) ==
  /\ run[r].pc = "idle"
  /\ StoreAcquire(r)
  /\ \/ run' = [run EXCEPT ![r] = [Idle EXCEPT !.pc = "running", !.fence = lease'.fence,
                                     !.seq = lease'.seq, !.renewing = TRUE]]
     \/ UNCHANGED run
  /\ UNCHANGED <<claims, sent>>

\* One round of renewLoop, which may still be under way when the job has
\* returned.  An error, or a cancelled context, ends the loop and cancels the
\* job's context.
Renew(r) ==
  /\ run[r].pc \in Executing
  /\ run[r].renewing
  /\ \/ /\ StoreRenew(r)
        /\ \/ run' = [run EXCEPT ![r].seq = lease'.seq]
           \/ run' = [run EXCEPT ![r].renewing = FALSE, ![r].cancelled = TRUE]
     \/ /\ UNCHANGED lease
        /\ run' = [run EXCEPT ![r].renewing = FALSE, ![r].cancelled = TRUE]
  /\ UNCHANGED <<claims, sent>>

\* The caller of Run gives up, for instance at shutdown.
Cancel(r) ==
  /\ run[r].pc \in Executing
  /\ run' = [run EXCEPT ![r].cancelled = TRUE]
  /\ UNCHANGED <<lease, claims, sent>>

\* Session.ClaimEffect for effect e with payload p, computed by this attempt.
\* A refused claim changes nothing; after any error the job does as it likes,
\* but it does not perform the effect.
ClaimEffect(r, e, p) ==
  /\ run[r].pc = "running"
  /\ StoreClaimEffect(r, e, p)
  /\ \/ run' = [run EXCEPT ![r].pc = "claimed", ![r].effect = e, ![r].payload = p]
     \/ UNCHANGED run
  /\ UNCHANGED <<lease, sent>>

\* The job performs the claimed effect under the key derived from its ID.
Write(r) ==
  /\ run[r].pc = "claimed"
  /\ sent' = [sent EXCEPT ![run[r].effect] = @ \cup {run[r].payload}]
  /\ run' = [run EXCEPT ![r].pc = "running", ![r].effect = None, ![r].payload = None]
  /\ UNCHANGED <<lease, claims>>

\* The job returns, fails or panics.
JobReturns(r, ok) ==
  /\ run[r].pc = "running" \/ (run[r].pc = "claimed" /\ ~ ok)
  /\ run' = [run EXCEPT ![r].pc = "returned", ![r].ok = ok,
                        ![r].effect = None, ![r].payload = None]
  /\ UNCHANGED <<lease, claims, sent>>

\* The end of Run.  A renewal error is reported as a lost lease, and nothing is
\* recorded; a cancelled run that meets none is recorded as failed.
Complete(r) ==
  /\ run[r].pc = "returned"
  /\ \/ /\ run[r].renewing
        /\ StoreComplete(r, run[r].ok /\ ~ run[r].cancelled)
        /\ \/ run' = [run EXCEPT ![r] = [Idle EXCEPT !.pc = "done", !.fence = run[r].fence]]
           \/ run' = [run EXCEPT ![r] = Idle]
     \/ /\ UNCHANGED lease
        /\ run' = [run EXCEPT ![r] = Idle]
  /\ UNCHANGED <<claims, sent>>

Crash(r) ==
  /\ run[r].pc \in Executing
  /\ run' = [run EXCEPT ![r] = Idle]
  /\ UNCHANGED <<lease, claims, sent>>

Tick ==
  /\ Active
  /\ lease.left > 0
  /\ lease' = [lease EXCEPT !.left = @ - 1]
  /\ UNCHANGED <<claims, sent, run>>

Next ==
  \/ Tick
  \/ \E r \in Runners :
       \/ Acquire(r) \/ Renew(r) \/ Cancel(r) \/ Write(r) \/ Complete(r) \/ Crash(r)
       \/ \E e \in Effects, p \in Payloads : ClaimEffect(r, e, p)
       \/ \E ok \in BOOLEAN : JobReturns(r, ok)

\* Time passes, and the scheduler of every instance keeps trying to run the
\* occurrence; nothing is assumed of the jobs.
Fairness == WF_vars(Tick) /\ \A r \in Runners : WF_vars(Acquire(r))

Spec == Init /\ [][Next]_vars /\ Fairness

-----------------------------------------------------------------------------
LeaseEvent == [kind : {"none", "acquired", "renewed", "succeeded", "failed"},
               owner : Owners \cup {None}, fence : Nat, seq : Nat, left : 0..TTL]

RunState == [pc : {"idle", "done"} \cup Executing, fence : Nat, seq : Nat,
             renewing : BOOLEAN, cancelled : BOOLEAN, ok : BOOLEAN,
             effect : Effects \cup {None}, payload : Payloads \cup {None}]

\* Types of the tables and of the runs; in particular a renewal never leaves a
\* lease that outlives its duration.
TypeOK ==
  /\ lease \in LeaseEvent
  /\ claims \in [Effects -> [payload : Payloads \cup {None}, fence : Nat]]
  /\ sent \in [Effects -> SUBSET Payloads]
  /\ run \in [Runners -> RunState]

\* Downstream writers never see an effect's idempotency key with two payloads,
\* however often the occurrence changed hands and however late a stale owner
\* performs what it claimed: what is sent is what was first claimed.
OnePayloadPerKey ==
  \A e \in Effects : /\ sent[e] \subseteq {claims[e].payload}
                     /\ claims[e].fence <= lease.fence

\* Two runners may be executing at once, but never with the same fence, and
\* the one whose fence is current is the owner the table names.
FenceIsExclusive ==
  \A r \in Runners : run[r].pc \in Executing =>
    /\ run[r].fence <= lease.fence
    /\ run[r].fence = lease.fence => lease.owner = Owner[r]
    /\ \A q \in Runners \ {r} : run[q].pc \in Executing => run[q].fence # run[r].fence

\* At most one run reports the occurrence terminal, and it is the one whose
\* fence the terminal event carries.
OneReport ==
  \A r \in Runners : run[r].pc = "done" =>
    /\ Terminal
    /\ lease.owner = Owner[r]
    /\ lease.fence = run[r].fence
    /\ \A q \in Runners \ {r} : run[q].pc # "done"

\* A takeover needs an expired lease and raises the fence by one; a terminal
\* occurrence is never touched again; the sequence has no gaps.
TakeoverOnlyAfterExpiry ==
  [][ /\ lease'.fence # lease.fence =>
           lease'.fence = lease.fence + 1 /\ (lease.kind = "none" \/ lease.left = 0)
      /\ Terminal => lease' = lease
      /\ lease'.seq \in {lease.seq, lease.seq + 1} ]_vars

\* A lease whose owner is no longer executing, by a crash or a lost reply,
\* blocks the occurrence only until it expires.
OrphanIsTakenOver ==
  \A f \in 1..(MaxFence - 1) :
    (Active /\ lease.fence = f /\ \A r \in Runners : run[r].fence # f)
      ~> lease.fence > f
=============================================================================

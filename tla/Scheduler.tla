----------------------------- MODULE Scheduler -----------------------------
(***************************************************************************)
(* The strategy scheduler: cron ticks, triggers from automation jobs and   *)
(* signals admit runs of strategies past a deduplication set and a         *)
(* semaphore; a monitor aborts a run when the kill switch turns on; the    *)
(* shutdown of internal/cli stops the cron engine, then the signal stack,  *)
(* and closes the database pool.                                           *)
(*                                                                         *)
(* A tick, a trigger or a signal is a job: one goroutine walking through   *)
(* runStrategyWithAdmission, or through TriggerHandler.handle and          *)
(* TriggerSignalStrategy, and then through executeAdmittedStrategy.        *)
(***************************************************************************)
EXTENDS Integers, FiniteSets, Sequences

CONSTANTS Ticks,        \* goroutines of the cron engine, reused
          Triggers,     \* goroutines of TriggerStrategy, reused
          Signals,      \* raw signal events, each processed once
          Strategies,
          Retired,      \* strategies of a disabled market type
          Capacity,     \* cap(strategySem), 2 in the code
          ChannelSize,  \* cap(triggerCh), 64 in the code
          None

ASSUME CapacityAssumption == Capacity \in Nat \ {0} /\ ChannelSize \in Nat \ {0}
ASSUME JobsAssumption == /\ IsFiniteSet(Ticks \cup Triggers \cup Signals)
                         /\ Ticks \cap Triggers = {}
                         /\ Signals \cap (Ticks \cup Triggers) = {}
                         /\ None \notin Ticks \cup Triggers \cup Signals \cup Strategies

VARIABLES job,       \* per goroutine: pc, strategy, context, row it read, outcome
          inFlight,  \* strategyDedup: the strategies in flight
          tokens,    \* len(strategySem)
          row,       \* strategies table: status = paused, skip_next_run
          kill,      \* RiskEngine.IsKillSwitchActive
          queue,     \* triggerCh
          handler,   \* the signal TriggerHandler.Run is handling, or None
          recorded,  \* per signal: what AgentEventRecorder has persisted
          phase      \* how far the shutdown is

vars == <<job, inFlight, tokens, row, kill, queue, handler, recorded, phase>>
admission == <<inFlight, tokens>>
outside == <<row, kill, phase>>
signalling == <<queue, handler, recorded>>

Jobs == Ticks \cup Triggers \cup Signals
Outcomes == {"admitted", "deduplicated", "capacity_dropped", "scheduler_stopped"}

Idle == [pc |-> "idle", strategy |-> None, ctx |-> "run", cancelled |-> FALSE,
         row |-> [paused |-> FALSE, skip |-> FALSE], outcome |-> "admitted"]

Init ==
  /\ job = [j \in Jobs |-> Idle]
  /\ inFlight = {}
  /\ tokens = 0
  /\ row = [s \in Strategies |-> [paused |-> FALSE, skip |-> FALSE]]
  /\ kill = FALSE
  /\ queue = <<>>
  /\ handler = None
  /\ recorded = [g \in Signals |-> {}]
  /\ phase = "up"

\* Stop clears s.ctx before it cancels it; without s.ctx a job gets Background.
schedulerContext == IF phase = "up" THEN "run" ELSE "background"
Done(ctx) == ctx = "run" /\ phase \notin {"up", "cleared"}

\* The pool is open, and for the signal stack its context is live.
PoolOpen == phase # "closed"
SignalsLive == phase \notin {"silenced", "closed"}

Goto(j, pc) == job' = [job EXCEPT ![j].pc = pc]

\* A tick or trigger goroutine returns to its pool, a signal is used up.
Ended(j) == IF j \in Signals THEN [Idle EXCEPT !.pc = "done"] ELSE Idle

-----------------------------------------------------------------------------
(* Ticks and triggers: runStrategyWithAdmission *)

\* The cron engine starts ticks until it is stopped; a retired market or a
\* strategy in flight ends the job at once.
Begin(j, s) ==
  /\ job[j].pc = "idle"
  /\ j \in Ticks => phase \in {"up", "cleared", "cancelled"}
  /\ s \notin Retired
  /\ s \notin inFlight
  /\ inFlight' = inFlight \cup {s}
  /\ job' = [job EXCEPT ![j].pc = "guarded", ![j].strategy = s]
  /\ UNCHANGED <<tokens, outside, signalling>>

\* s.ctx is read without the mutex: while Stop clears it the read may see the
\* old context, none, or half of each, which panics and is contained.
ReadContext(j) ==
  /\ job[j].pc = "guarded"
  /\ \/ /\ \E ctx \in {schedulerContext} \cup {c \in {"run"} : phase = "cleared"} :
             job' = [job EXCEPT ![j].pc = "waiting", ![j].ctx = ctx]
        /\ UNCHANGED inFlight
     \/ /\ phase = "cleared"
        /\ job' = [job EXCEPT ![j] = Idle]
        /\ inFlight' = inFlight \ {job[j].strategy}
  /\ UNCHANGED <<tokens, outside, signalling>>

\* Of a free slot and a cancelled context, select takes either.
Admit(j) ==
  /\ job[j].pc = "waiting"
  /\ tokens < Capacity
  /\ tokens' = tokens + 1
  /\ Goto(j, "fetch")
  /\ UNCHANGED <<inFlight, outside, signalling>>

\* Mutant: the early return keeps the strategy in flight.
GiveUpLeaking(j) ==
  /\ job[j].pc = "waiting"
  /\ IF j \in Ticks THEN Done(job[j].ctx) ELSE tokens = Capacity
  /\ job' = [job EXCEPT ![j] = Idle]
  /\ UNCHANGED <<admission, outside, signalling>>

\* A tick waits for a slot until its context is done, a trigger does not wait.
GiveUp(j) ==
  /\ job[j].pc = "waiting"
  /\ IF j \in Ticks THEN Done(job[j].ctx) ELSE tokens = Capacity
  /\ inFlight' = inFlight \ {job[j].strategy}
  /\ job' = [job EXCEPT ![j] = Idle]
  /\ UNCHANGED <<tokens, outside, signalling>>

-----------------------------------------------------------------------------
(* Signals: Lifecycle.Process, TriggerHandler.handle, TriggerSignalStrategy *)

\* An evaluation that is not persisted, is not urgent or meets a full channel
\* emits nothing.
Process(g, s) ==
  /\ SignalsLive
  /\ job[g].pc = "idle"
  /\ Len(queue) < ChannelSize
  /\ job' = [job EXCEPT ![g].pc = "queued", ![g].strategy = s]
  /\ queue' = Append(queue, g)
  /\ recorded' = [recorded EXCEPT ![g] = @ \cup {"evaluated"}]
  /\ UNCHANGED <<handler, admission, outside>>

Take(g) ==
  /\ handler = None
  /\ job[g].pc = "queued"
  /\ queue # <<>> /\ g = Head(queue)
  /\ handler' = g
  /\ queue' = Tail(queue)
  /\ Goto(g, "request")
  /\ UNCHANGED <<recorded, admission, outside>>

\* The strategy is loaded and the request persisted, or the signal dropped.
RecordRequest(g) ==
  /\ job[g].pc = "request"
  /\ \/ /\ SignalsLive
        /\ recorded' = [recorded EXCEPT ![g] = @ \cup {"requested"}]
        /\ Goto(g, "dedup")
        /\ UNCHANGED handler
     \/ /\ job' = [job EXCEPT ![g] = Ended(g)]
        /\ handler' = None
        /\ UNCHANGED recorded
  /\ UNCHANGED <<queue, admission, outside>>

Resolve(g, outcome) == job' = [job EXCEPT ![g].pc = "outcome", ![g].outcome = outcome]

TryAcquire(g) ==
  /\ job[g].pc = "dedup"
  /\ IF job[g].strategy \in inFlight
     THEN Resolve(g, "deduplicated") /\ UNCHANGED inFlight
     ELSE Goto(g, "context") /\ inFlight' = inFlight \cup {job[g].strategy}
  /\ UNCHANGED <<tokens, outside, signalling>>

ReadSignalContext(g) ==
  /\ job[g].pc = "context"
  /\ job' = [job EXCEPT ![g].pc = "capacity", ![g].ctx = schedulerContext]
  /\ UNCHANGED <<admission, outside, signalling>>

TryCapacity(g) ==
  /\ job[g].pc = "capacity"
  /\ IF ~ Done(job[g].ctx) /\ tokens < Capacity
     THEN Resolve(g, "admitted") /\ tokens' = tokens + 1 /\ UNCHANGED inFlight
     ELSE /\ Resolve(g, IF Done(job[g].ctx) THEN "scheduler_stopped" ELSE "capacity_dropped")
          /\ inFlight' = inFlight \ {job[g].strategy}
          /\ UNCHANGED tokens
  /\ UNCHANGED <<outside, signalling>>

\* Mutant: the run starts although its outcome was not persisted.
RecordOutcomeAnyway(g) ==
  /\ job[g].pc = "outcome"
  /\ \/ recorded' = [recorded EXCEPT ![g] = @ \cup {job[g].outcome}]
     \/ UNCHANGED recorded
  /\ IF job[g].outcome = "admitted" THEN Goto(g, "fetch")
     ELSE job' = [job EXCEPT ![g] = Ended(g)]
  /\ handler' = None
  /\ UNCHANGED <<queue, admission, outside>>

\* Only an admission that is on record starts a run; a failing or panicking
\* recorder gives the slot and the strategy back.
RecordOutcome(g) ==
  LET admitted == job[g].outcome = "admitted" IN
  /\ job[g].pc = "outcome"
  /\ \/ /\ SignalsLive
        /\ recorded' = [recorded EXCEPT ![g] = @ \cup {job[g].outcome}]
        /\ job' = [job EXCEPT ![g] = IF admitted THEN [@ EXCEPT !.pc = "fetch"] ELSE Ended(g)]
        /\ UNCHANGED admission
     \/ /\ tokens' = IF admitted THEN tokens - 1 ELSE tokens
        /\ inFlight' = IF admitted THEN inFlight \ {job[g].strategy} ELSE inFlight
        /\ job' = [job EXCEPT ![g] = Ended(g)]
        /\ UNCHANGED recorded
  /\ handler' = None
  /\ UNCHANGED <<queue, outside>>

-----------------------------------------------------------------------------
(* executeAdmittedStrategy *)

\* The deferred calls: the slot first, the strategy after it.
Release(j) ==
  /\ tokens' = tokens - 1
  /\ Goto(j, "unguard")
  /\ UNCHANGED inFlight

Unguard(j) ==
  /\ job[j].pc = "unguard"
  /\ inFlight' = inFlight \ {job[j].strategy}
  /\ job' = [job EXCEPT ![j] = Ended(j)]
  /\ UNCHANGED <<tokens, outside, signalling>>

\* A failing read ends the job, and so does a paused strategy.
Fetch(j) ==
  LET current == row[job[j].strategy] IN
  /\ job[j].pc = "fetch"
  /\ \/ Release(j)
     \/ /\ PoolOpen
        /\ ~ current.paused
        /\ job' = [job EXCEPT ![j].pc = IF current.skip THEN "reset" ELSE "start",
                              ![j].row = current]
        /\ UNCHANGED admission
  /\ UNCHANGED <<outside, signalling>>

\* StrategyRepo.Update writes the whole row that was read, or fails.
ResetSkip(j) ==
  /\ job[j].pc = "reset"
  /\ \/ PoolOpen /\ row' = [row EXCEPT ![job[j].strategy] = [job[j].row EXCEPT !.skip = FALSE]]
     \/ UNCHANGED row
  /\ Release(j)
  /\ UNCHANGED <<kill, phase, signalling>>

\* The kill switch is on or cannot be read, the market is closed, or no native
\* executor is enabled for an event market.
Skip(j) ==
  /\ job[j].pc = "start"
  /\ Release(j)
  /\ UNCHANGED <<outside, signalling>>

Start(j) ==
  /\ job[j].pc = "start"
  /\ ~ kill
  /\ job' = [job EXCEPT ![j].pc = "running", ![j].ctx = schedulerContext]
  /\ UNCHANGED <<admission, outside, signalling>>

Stopping(j) == job[j].cancelled \/ Done(job[j].ctx)

Cancel(j) ==
  /\ job[j].pc = "running"
  /\ job' = [job EXCEPT ![j].cancelled = TRUE]
  /\ UNCHANGED <<admission, outside, signalling>>

\* Mutant: the monitor goroutine is never started.
PollNever(j) == FALSE /\ Cancel(j)

\* riskMonitor: the switch is seen by the next poll.
Poll(j) == kill /\ ~ Stopping(j) /\ Cancel(j)

\* The job timeout, or a poll that fails or panics.
Abort(j) == ~ Stopping(j) /\ Cancel(j)

\* The execution returns or panics; panics are contained.
Finish(j) ==
  /\ job[j].pc = "running"
  /\ Release(j)
  /\ UNCHANGED <<outside, signalling>>

-----------------------------------------------------------------------------
(* Operators, and the shutdown of the process *)

TransitionPaperStatus(s) ==
  /\ PoolOpen
  /\ row' = [row EXCEPT ![s].paused = ~ @]
  /\ UNCHANGED <<job, admission, kill, phase, signalling>>

MarkSkipNext(s) ==
  /\ PoolOpen
  /\ ~ row[s].paused
  /\ row' = [row EXCEPT ![s].skip = TRUE]
  /\ UNCHANGED <<job, admission, kill, phase, signalling>>

ToggleKill ==
  /\ kill' = ~ kill
  /\ UNCHANGED <<job, admission, row, phase, signalling>>

\* Mutant: the engine's running jobs are not waited for.
StopWithoutWaiting ==
  /\ \/ phase = "up" /\ phase' = "cleared"
     \/ phase = "cleared" /\ phase' = "cancelled"
     \/ phase = "cancelled" /\ phase' = "draining"
     \/ phase = "draining" /\ phase' = "stopped"
  /\ UNCHANGED <<job, admission, row, kill, signalling>>

\* Mutant: Stop waits for every run in flight while triggers still arrive.
StopWaitingForAll ==
  /\ \/ phase = "up" /\ phase' = "cleared"
     \/ phase = "cleared" /\ phase' = "cancelled"
     \/ phase = "cancelled" /\ phase' = "draining"
     \/ phase = "draining" /\ phase' = "stopped" /\ inFlight = {}
  /\ UNCHANGED <<job, admission, row, kill, signalling>>

\* Scheduler.Stop: clear s.ctx, cancel it, stop the engine, wait for its jobs.
Stop ==
  /\ \/ phase = "up" /\ phase' = "cleared"
     \/ phase = "cleared" /\ phase' = "cancelled"
     \/ phase = "cancelled" /\ phase' = "draining"
     \/ /\ phase = "draining" /\ phase' = "stopped"
        /\ \A j \in Ticks : job[j].pc = "idle"
  /\ UNCHANGED <<job, admission, row, kill, signalling>>

\* The deferred cleanup: stop the hub, cancel the handler, close the pool.
Cleanup ==
  /\ \/ phase = "stopped" /\ phase' = "silenced"
     \/ phase = "silenced" /\ phase' = "closed"
  /\ UNCHANGED <<job, admission, row, kill, signalling>>

-----------------------------------------------------------------------------
Handle(g) == \/ Take(g) \/ RecordRequest(g) \/ TryAcquire(g)
             \/ ReadSignalContext(g) \/ TryCapacity(g) \/ RecordOutcome(g)

Execute(j) == Fetch(j) \/ ResetSkip(j) \/ Skip(j) \/ Start(j) \/ Unguard(j)

Next ==
  \/ \E j \in Ticks \cup Triggers : \/ \E s \in Strategies : Begin(j, s)
                                    \/ ReadContext(j) \/ Admit(j) \/ GiveUp(j)
  \/ \E g \in Signals : (\E s \in Strategies : Process(g, s)) \/ Handle(g)
  \/ \E j \in Jobs : Execute(j) \/ Poll(j) \/ Abort(j) \/ Finish(j)
  \/ \E s \in Strategies : TransitionPaperStatus(s) \/ MarkSkipNext(s)
  \/ ToggleKill
  \/ Stop
  \/ Cleanup

(***************************************************************************)
(* Goroutines take their steps, a blocked sender is served first when a    *)
(* slot is freed (so a waiting tick is not overtaken for ever), the        *)
(* monitor's ticker fires, an execution returns once its context is done.  *)
(***************************************************************************)
Fairness ==
  /\ \A j \in Ticks : /\ WF_vars(ReadContext(j)) /\ WF_vars(GiveUp(j))
                      /\ SF_vars(Admit(j))
  /\ \A j \in Jobs : /\ WF_vars(Execute(j)) /\ WF_vars(Poll(j))
                     /\ WF_vars(Stopping(j) /\ Finish(j))
  /\ \A g \in Signals : WF_vars(Handle(g))
  /\ WF_vars(phase # "up" /\ (Stop \/ Cleanup))

Spec == Init /\ [][Next]_vars /\ Fairness

-----------------------------------------------------------------------------
Guarded == {j \in Jobs : job[j].pc \in {"guarded", "waiting", "context", "capacity", "fetch",
                                        "reset", "start", "running", "unguard"}}
Holding == {j \in Jobs : job[j].pc \in {"fetch", "reset", "start", "running"}}
Admitted == {j \in Signals : job[j].pc = "outcome" /\ job[j].outcome = "admitted"}

PC == {"idle", "guarded", "waiting", "queued", "request", "dedup", "context", "capacity",
       "outcome", "fetch", "reset", "start", "running", "unguard", "done"}
Row == [paused : BOOLEAN, skip : BOOLEAN]
Job == [pc : PC, strategy : Strategies \cup {None}, ctx : {"run", "background"},
        cancelled : BOOLEAN, row : Row, outcome : Outcomes]
Phase == {"up", "cleared", "cancelled", "draining", "stopped", "silenced", "closed"}

\* Every variable has its type; the semaphore stays within its capacity.
TypeOK ==
  /\ job \in [Jobs -> Job]
  /\ inFlight \subseteq Strategies
  /\ tokens \in 0..Capacity
  /\ row \in [Strategies -> Row]
  /\ kill \in BOOLEAN
  /\ queue \in Seq(Signals)
  /\ handler \in Signals \cup {None}
  /\ recorded \in [Signals -> SUBSET ({"evaluated", "requested"} \cup Outcomes)]
  /\ phase \in Phase

\* Whatever fails, panics or is dropped between the two guards, the in-flight
\* set is exactly the strategies of the jobs that hold it, one job each, and the
\* semaphore counts exactly the jobs that hold a slot: no strategy is ever
\* blocked by a job that is gone, no slot is lost and none is given out twice.
GuardsAreExact ==
  /\ inFlight = {job[j].strategy : j \in Guarded \cup Admitted}
  /\ \A i, j \in Guarded \cup Admitted : job[i].strategy = job[j].strategy => i = j
  /\ tokens = Cardinality(Holding \cup Admitted)

\* TriggerSignalStrategy: "A lost outcome record therefore cannot create an
\* untraceable strategy execution."  A signal's run has its whole lineage on
\* record, and a signal resolved to anything but an admission never runs.
SignalRunsAreRecorded ==
  \A g \in Signals \cap (Holding \cup Guarded) :
    IF job[g].pc \in {"context", "capacity"} THEN recorded[g] = {"evaluated", "requested"}
    ELSE recorded[g] = {"evaluated", "requested", "admitted"}

\* Once Stop has returned no tick runs, waits or starts, so none outlives the
\* pool the cleanup closes.
PoolOutlivesTicks ==
  phase \in {"stopped", "silenced", "closed"} => \A j \in Ticks : job[j].pc = "idle"

\* The kill switch ends every run that does not end first, whichever way the run
\* was admitted and whether or not its context belongs to the scheduler.
KillStopsRuns ==
  \A j \in Jobs : (job[j].pc = "running" /\ kill) ~> (job[j].pc # "running" \/ ~ kill)

\* With the job timeout, a shutdown that has begun gets to the closed pool, ticks
\* that started too late to see their context cancelled included.
ShutdownCompletes ==
  (\A j \in Jobs : WF_vars(Abort(j))) => (phase # "up" ~> phase = "closed")

\* internal/cli: "Stop runs BEFORE cleanup() (LIFO order), giving in-flight
\* pipeline runs time to persist their terminal status while the DB pool is still
\* open."
PoolOutlivesRuns == phase = "closed" => \A j \in Jobs : job[j].pc # "running"
=============================================================================

--------------------------- MODULE JobOrchestrator ---------------------------
(***************************************************************************)
(* The automation job orchestrator, internal/automation/orchestrator.go:   *)
(* cron ticks and operators start jobs, each run is recorded in            *)
(* automation_job_runs before and after it, failures disable a job, and a  *)
(* restart rebuilds the registry from the recorded runs and the operators' *)
(* durable controls.                                                       *)
(*                                                                         *)
(* Every section under job.mu is one step, and so is every statement sent  *)
(* to PostgreSQL, which may fail or succeed unheard.                       *)
(***************************************************************************)
EXTENDS Integers, Sequences, FiniteSets, FiniteSetsExt

CONSTANTS Jobs,
          DependsOn,   \* [Jobs -> sequence of jobs]
          Threads,     \* goroutines of cron ticks and of RunJob
          Threshold,   \* autoDisableThreshold
          MaxRuns,     \* bound: runs asked for, one start time each
          MaxDay,      \* bound: days of the automation calendar
          MaxEvents,   \* bound: operators' requests, restarts and failed statements
          None

ASSUME OrchestratorConstants ==
  /\ Threshold \in Nat \ {0}
  /\ MaxRuns \in Nat /\ MaxDay \in Nat /\ MaxEvents \in Nat
  /\ DependsOn \in [Jobs -> Seq(Jobs)]
  /\ None \notin BOOLEAN

VARIABLES job,       \* [Jobs -> RegisteredJob]
          thread,    \* [Threads -> the run it carries out]
          rows,      \* automation_job_runs by start time
          started,   \* start times taken so far
          controls,  \* automation_job_controls: [Jobs -> BOOLEAN or None]
          day,       \* today, Eastern time
          events,    \* requests, restarts and faults that may still happen
          off,       \* history: an acknowledged disable nobody tried to undo
          override   \* history: enabled by an operator since the last failure

vars == <<job, thread, rows, started, controls, day, events, off, override>>

\* failures: ConsecutiveFailures; result and day: LastResult and LastRun.
Registered(enabled, failures, result, last) ==
  [enabled |-> enabled, running |-> FALSE, failures |-> failures,
   result |-> result, day |-> last]

Fresh == Registered(TRUE, 0, "none", 0)

Stage(pc, j, manual, at, today, need, seen, ok) ==
  [pc |-> pc, job |-> j, manual |-> manual, at |-> at, day |-> today,
   need |-> need, seen |-> seen, ok |-> ok]

Idle == Stage("idle", None, FALSE, 0, 0, <<>>, 0, FALSE)

\* A row: day of started_at and of completed_at (0 for NULL).
Row(j, status, failures, begin, end) ==
  [job |-> j, status |-> status, failures |-> failures, day |-> begin, end |-> end]

NoRow == Row(None, "absent", 0, 0, 0)

Init ==
  /\ job = [j \in Jobs |-> Fresh]
  /\ thread = [t \in Threads |-> Idle]
  /\ rows = [n \in 1..MaxRuns |-> NoRow]
  /\ started = 0
  /\ controls = [j \in Jobs |-> None]
  /\ day = 1
  /\ events = MaxEvents
  /\ off = [j \in Jobs |-> FALSE]
  /\ override = [j \in Jobs |-> FALSE]

\* What uses up the bound on events.
Costs(n) == events >= n /\ events' = events - n

\* One statement: it is committed and its reply arrives, or it is a fault.
Statement(committed, replied) ==
  /\ replied => committed
  /\ Costs(IF replied THEN 0 ELSE 1)

-----------------------------------------------------------------------------
(* Starting a run *)

\* Mutant: the claim does not look at Running.
ClaimOverlapping(t) ==
  /\ thread[t].pc = "asked"
  /\ LET j == thread[t].job
     IN IF job[j].enabled
        THEN /\ job' = [job EXCEPT ![j].running = TRUE]
             /\ thread' = [thread EXCEPT ![t].pc = "checking"]
        ELSE /\ thread' = [thread EXCEPT ![t] = Idle]
             /\ UNCHANGED job
  /\ UNCHANGED <<rows, started, controls, day, events, off, override>>

\* wrapAndRun: the tick looks and claims under one lock.
Fire(t, j) ==
  /\ thread[t].pc = "idle"
  /\ started < MaxRuns
  /\ job[j].enabled
  /\ ~job[j].running
  /\ job' = [job EXCEPT ![j].running = TRUE]
  /\ started' = started + 1
  /\ thread' = [thread EXCEPT ![t] =
                  Stage("checking", j, FALSE, started + 1, day, DependsOn[j], 0, FALSE)]
  /\ UNCHANGED <<rows, controls, day, events, off, override>>

\* RunJob reads the start time before it claims the job.
Ask(t, j) ==
  /\ thread[t].pc = "idle"
  /\ started < MaxRuns
  /\ job[j].enabled
  /\ started' = started + 1
  /\ thread' = [thread EXCEPT ![t] =
                  Stage("asked", j, TRUE, started + 1, day, DependsOn[j], 0, FALSE)]
  /\ UNCHANGED <<job, rows, controls, day, events, off, override>>

\* claimManualJob: a disabled or running job is refused.
Claim(t) ==
  /\ thread[t].pc = "asked"
  /\ LET j == thread[t].job
     IN IF job[j].enabled /\ ~job[j].running
        THEN /\ job' = [job EXCEPT ![j].running = TRUE]
             /\ thread' = [thread EXCEPT ![t].pc = "checking"]
        ELSE /\ thread' = [thread EXCEPT ![t] = Idle]
             /\ UNCHANGED job
  /\ UNCHANGED <<rows, started, controls, day, events, off, override>>

\* Mutant: a dependency that is still running counts as completed.
BlocksIdle(d, today) ==
  ~job[d].enabled \/ job[d].day # today \/ job[d].result # "ok"

\* dependencyBlocker for one dependency, read under its own lock: it must be
\* enabled, idle and successful today.
Blocks(d, today) ==
  \/ ~job[d].enabled
  \/ job[d].running
  \/ job[d].day # today
  \/ job[d].result # "ok"

\* recordDependencySkip gives the job up before the skip is recorded.
CheckDependency(t) ==
  /\ thread[t].pc = "checking"
  /\ thread[t].need # <<>>
  /\ LET j == thread[t].job
     IN IF Blocks(Head(thread[t].need), thread[t].day)
        THEN /\ job' = [job EXCEPT ![j] = Registered(@.enabled, @.failures, "skipped", thread[t].day)]
             /\ thread' = [thread EXCEPT ![t].pc = "skipping", ![t].need = <<>>,
                                         ![t].seen = job[j].failures]
        ELSE /\ thread' = [thread EXCEPT ![t].need = Tail(@)]
             /\ UNCHANGED job
  /\ UNCHANGED <<rows, started, controls, day, events, off, override>>

-----------------------------------------------------------------------------
(* Recording a run *)

CountFailure(r) ==
  [r EXCEPT !.failures = @ + 1, !.enabled = @ /\ r.failures + 1 < Threshold]

\* Mutant: persistence failures do not disable the job.
applyRunPersistenceFailureEnabled(r) ==
  [r EXCEPT !.failures = @ + 1, !.result = "failed"]

applyRunPersistenceFailure(r) == [CountFailure(r) EXCEPT !.result = "failed"]

\* What a thread does to its job when it could not record the run.
Unrecorded(j, running) ==
  /\ job' = [job EXCEPT ![j] = [applyRunPersistenceFailure(@) EXCEPT !.running = running]]
  /\ override' = [override EXCEPT ![j] = FALSE]

PersistSkip(t, committed, replied) ==
  LET s == thread[t]
      j == s.job
  IN /\ s.pc = "skipping"
     /\ Statement(committed, replied)
     /\ rows' = IF committed
                THEN [rows EXCEPT ![s.at] = Row(j, "skipped", s.seen, s.day, s.day)]
                ELSE rows
     /\ IF replied THEN UNCHANGED <<job, override>> ELSE Unrecorded(j, job[j].running)
     /\ thread' = [thread EXCEPT ![t] = Idle]
     /\ UNCHANGED <<started, controls, day, off>>

\* beginRun and completeRun read the failure count under the lock and send it
\* afterwards.
SnapshotFailures(t) ==
  /\ \/ thread[t].pc = "checking" /\ thread[t].need = <<>>
     \/ thread[t].pc = "finished"
  /\ thread' = [thread EXCEPT ![t].pc = IF @ = "checking" THEN "beginning" ELSE "completing",
                              ![t].seen = job[thread[t].job].failures]
  /\ UNCHANGED <<job, rows, started, controls, day, events, off, override>>

\* Mutant: a run whose row could not be written is executed all the same.
BeginRunAnyway(t, committed, replied) ==
  LET s == thread[t]
  IN /\ s.pc = "beginning"
     /\ Statement(committed, replied)
     /\ rows' = IF committed
                THEN [rows EXCEPT ![s.at] = Row(s.job, "running", s.seen, s.day, 0)]
                ELSE rows
     /\ thread' = [thread EXCEPT ![t].pc = "executing"]
     /\ UNCHANGED <<job, override, started, controls, day, off>>

BeginRun(t, committed, replied) ==
  LET s == thread[t]
      j == s.job
  IN /\ s.pc = "beginning"
     /\ Statement(committed, replied)
     /\ rows' = IF committed
                THEN [rows EXCEPT ![s.at] = Row(j, "running", s.seen, s.day, 0)]
                ELSE rows
     /\ IF replied
        THEN /\ thread' = [thread EXCEPT ![t].pc = "executing"]
             /\ UNCHANGED <<job, override>>
        ELSE /\ thread' = [thread EXCEPT ![t] = Idle]
             /\ Unrecorded(j, FALSE)
     /\ UNCHANGED <<started, controls, day, off>>

\* The job function returned, failed, panicked or ran out of time.  LastRun is
\* the start of a scheduled run and the end of a manual one.
Finish(t, ok) ==
  LET s == thread[t]
      j == s.job
      last == IF s.manual THEN day ELSE s.day
  IN /\ s.pc = "executing"
     /\ job' = [job EXCEPT ![j] =
                  IF ok THEN [@ EXCEPT !.failures = 0, !.result = "ok", !.day = last]
                  ELSE [CountFailure(@) EXCEPT !.result = "failed", !.day = last]]
     /\ override' = [override EXCEPT ![j] = @ /\ ok]
     /\ thread' = [thread EXCEPT ![t].pc = "finished", ![t].ok = ok]
     /\ UNCHANGED <<rows, started, controls, day, events, off>>

\* The terminal outcome, then the deferred release.  A success that could not
\* be recorded becomes a failure.
CompleteRun(t, committed, replied) ==
  LET s == thread[t]
      j == s.job
  IN /\ s.pc = "completing"
     /\ Statement(committed, replied)
     /\ rows' = IF committed
                THEN [rows EXCEPT ![s.at] =
                        Row(j, IF s.ok THEN "ok" ELSE "error", s.seen, @.day, day)]
                ELSE rows
     /\ IF s.ok /\ ~replied THEN Unrecorded(j, FALSE)
        ELSE /\ job' = [job EXCEPT ![j].running = FALSE]
             /\ UNCHANGED override
     /\ thread' = [thread EXCEPT ![t] = Idle]
     /\ UNCHANGED <<started, controls, day, off>>

-----------------------------------------------------------------------------
(* Operators and restarts *)

\* Mutant: memory changes and the caller is told so although the write failed.
SetEnabledByUnsaved(j, enabled, committed, replied) ==
  /\ replied => committed
  /\ Costs(IF replied THEN 1 ELSE 2)
  /\ controls' = IF committed THEN [controls EXCEPT ![j] = enabled] ELSE controls
  /\ job' = [job EXCEPT ![j].enabled = enabled]
  /\ off' = [off EXCEPT ![j] = ~enabled]
  /\ override' = [override EXCEPT ![j] = enabled]
  /\ UNCHANGED <<thread, rows, started, day>>

\* The durable control first, under the job's lock; memory only if it is saved.
SetEnabledBy(j, enabled, committed, replied) ==
  /\ replied => committed
  /\ Costs(IF replied THEN 1 ELSE 2)
  /\ controls' = IF committed THEN [controls EXCEPT ![j] = enabled] ELSE controls
  /\ job' = IF replied THEN [job EXCEPT ![j].enabled = enabled] ELSE job
  /\ off' = [off EXCEPT ![j] = ~enabled /\ (@ \/ replied)]
  /\ override' = IF replied THEN [override EXCEPT ![j] = enabled] ELSE override
  /\ UNCHANGED <<thread, rows, started, day>>

\* Mutant: every row without success is closed again.
FailIncompleteAgain ==
  [n \in 1..MaxRuns |->
     IF rows[n].status \in {"absent", "ok"} THEN rows[n]
     ELSE Row(rows[n].job, "error", rows[n].failures + 1, rows[n].day, day)]

\* Rows left running by the process that died become errors.
FailIncomplete ==
  [n \in 1..MaxRuns |->
     IF rows[n].status # "running" THEN rows[n]
     ELSE Row(rows[n].job, "error", rows[n].failures + 1, rows[n].day, day)]

\* Summaries: the row with the latest start time.  Its status and failure
\* count are a second query per job, whose error is ignored.
Summary(j, lost, table) ==
  LET present == {n \in 1..MaxRuns : table[n].job = j}
      row == table[Max(present)]
  IN IF present = {} THEN Fresh
     ELSE IF lost THEN Registered(TRUE, 0, "none", row.day)
     ELSE Registered(row.failures < Threshold, row.failures, row.status, row.day)

\* The process ends at any moment, its goroutines with it, and Start hydrates
\* the registry.  A query that fails, other than one lost to Summaries, leaves
\* every job disabled.
Restart(fate, lost) ==
  LET hydrated(j) == IF fate \in {"unrecovered", "unsummarized"} THEN Fresh
                     ELSE Summary(j, j \in lost, FailIncomplete)
      enabled(j) == /\ fate = "hydrated"
                    /\ IF controls[j] # None THEN controls[j] ELSE hydrated(j).enabled
  IN /\ Costs(IF fate = "hydrated" /\ lost = {} THEN 1 ELSE 2)
     /\ rows' \in IF fate = "unrecovered" THEN {rows, FailIncomplete} ELSE {FailIncomplete}
     /\ job' = [j \in Jobs |-> [hydrated(j) EXCEPT !.enabled = enabled(j)]]
     /\ override' = [j \in Jobs |-> fate = "hydrated" /\ controls[j] = TRUE]
     /\ thread' = [t \in Threads |-> Idle]
     /\ UNCHANGED <<started, controls, day, off>>

NextDay ==
  /\ day < MaxDay
  /\ day' = day + 1
  /\ UNCHANGED <<job, thread, rows, started, controls, events, off, override>>

-----------------------------------------------------------------------------
Step(t) ==
  \/ Claim(t)
  \/ CheckDependency(t)
  \/ SnapshotFailures(t)
  \/ \E ok \in BOOLEAN : Finish(t, ok)
  \/ \E committed, replied \in BOOLEAN :
       \/ PersistSkip(t, committed, replied)
       \/ BeginRun(t, committed, replied)
       \/ CompleteRun(t, committed, replied)

Fates == {"hydrated", "unrecovered", "unsummarized", "unlisted"}

Next ==
  \/ \E t \in Threads : Step(t) \/ \E j \in Jobs : Fire(t, j) \/ Ask(t, j)
  \/ \E j \in Jobs, enabled, committed, replied \in BOOLEAN :
       SetEnabledBy(j, enabled, committed, replied)
  \/ \E fate \in Fates, lost \in SUBSET Jobs : Restart(fate, lost)
  \/ NextDay

Spec == Init /\ [][Next]_vars

-----------------------------------------------------------------------------
(* Properties *)

Results == {"none", "ok", "failed", "error", "skipped"}

\* Claimed: the thread answers for its job's Running flag.
Claimed == {"checking", "beginning", "executing", "finished", "completing"}

\* A job runs at most once at a time, and its Running flag says so exactly,
\* through overlapping ticks, manual runs, skips and failed writes: a flag
\* without a thread behind it would keep the job from ever starting again.
RunningIsExact ==
  \A j \in Jobs :
    LET holders == {t \in Threads : thread[t].job = j /\ thread[t].pc \in Claimed}
    IN /\ job[j].running <=> holders # {}
       /\ \A t, u \in holders : t = u

\* No job function runs without its durable row, and nothing closes or
\* overwrites the row meanwhile.
ExecutionsAreRecorded ==
  \A t \in Threads : thread[t].pc \in {"executing", "finished", "completing"} =>
    /\ rows[thread[t].at].job = thread[t].job
    /\ rows[thread[t].at].status = "running"

\* A job past its dependency check has, for each dependency, a success that is
\* recorded in the database and touches the day of the run, whatever restarts
\* and lost replies happened since.
DependentsFollowSuccess ==
  \A t \in Threads : thread[t].pc \in Claimed \ {"checking"} =>
    \A k \in DOMAIN DependsOn[thread[t].job] :
      \E n \in 1..MaxRuns :
        /\ rows[n].job = DependsOn[thread[t].job][k]
        /\ rows[n].status = "ok"
        /\ rows[n].day <= thread[t].day /\ thread[t].day <= rows[n].end

\* A disable that was acknowledged holds until someone tries to enable the
\* job: no restart and no failed read brings it back.
DisabledStaysOff == \A j \in Jobs : off[j] => ~job[j].enabled

\* A job at the failure threshold is enabled only by an operator: since its
\* last counted failure, or by the durable control a restart applied.
AutoDisableHolds ==
  \A j \in Jobs : job[j].enabled /\ job[j].failures >= Threshold => override[j]

\* A row with a terminal status is never written again.
TerminalRowsAreFinal ==
  [][ \A n \in 1..MaxRuns :
        rows[n].status \in {"ok", "error", "skipped"} => rows'[n] = rows[n] ]_vars
=============================================================================

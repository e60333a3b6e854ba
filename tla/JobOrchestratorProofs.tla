------------------------ MODULE JobOrchestratorProofs ------------------------
(***************************************************************************)
(* What the orchestrator keeps for any jobs, dependencies, goroutines and  *)
(* threshold, and however many runs, faults and restarts the bounds allow. *)
(***************************************************************************)
EXTENDS JobOrchestrator, TLAPS, WellFoundedInduction

Statuses == {"absent", "running", "ok", "error", "skipped"}

RegisteredJob ==
  [enabled : BOOLEAN, running : BOOLEAN, failures : Nat,
   result : Results \cup Statuses, day : Nat]

Run ==
  [pc : Claimed \cup {"idle", "asked", "skipping"}, job : Jobs \cup {None},
   manual : BOOLEAN, at : Nat, day : Nat, need : Seq(Jobs), seen : Nat, ok : BOOLEAN]

JobRun == [job : Jobs \cup {None}, status : Statuses, failures : Nat, day : Nat, end : Nat]

Shape ==
  /\ job \in [Jobs -> RegisteredJob]
  /\ thread \in [Threads -> Run]
  /\ rows \in [1..MaxRuns -> JobRun]
  /\ started \in 0..MaxRuns
  /\ controls \in [Jobs -> BOOLEAN \cup {None}]
  /\ day \in Nat
  /\ off \in [Jobs -> BOOLEAN]
  /\ override \in [Jobs -> BOOLEAN]

\* A start time belongs to one run, and its row is written by that run alone.
Tickets ==
  /\ \A t \in Threads : thread[t].pc # "idle" =>
       thread[t].job \in Jobs /\ thread[t].at \in 1..started /\ thread[t].day <= day
  /\ \A t, u \in Threads :
       thread[t].pc # "idle" /\ thread[u].pc # "idle" /\ thread[t].at = thread[u].at => t = u
  /\ \A n \in 1..MaxRuns : n > started => rows[n].status = "absent"
  /\ \A t \in Threads : thread[t].pc \in {"asked", "checking", "skipping", "beginning"} =>
       rows[thread[t].at].status = "absent"

Flags ==
  /\ \A j \in Jobs : job[j].running <=> \E t \in Threads : thread[t].job = j /\ thread[t].pc \in Claimed
  /\ \A t, u \in Threads :
       thread[t].pc \in Claimed /\ thread[u].pc \in Claimed /\ thread[t].job = thread[u].job => t = u

Recorded ==
  \A t \in Threads : thread[t].pc \in {"executing", "finished", "completing"} =>
    /\ rows[thread[t].at].job = thread[t].job
    /\ rows[thread[t].at].status = "running"
    /\ rows[thread[t].at].day = thread[t].day

\* An acknowledged disable is in the durable control as well as in memory.
Disabled == \A j \in Jobs : off[j] => controls[j] = FALSE /\ ~job[j].enabled

IInv == Shape /\ Tickets /\ Flags /\ Recorded /\ Disabled /\ AutoDisableHolds

-----------------------------------------------------------------------------
\* A bounded non-empty set of start times has a latest one.
LEMMA LatestStart ==
  ASSUME NEW S \in SUBSET (1..MaxRuns), S # {}
  PROVE  Max(S) \in S
<1> DEFINE T == {MaxRuns - n : n \in S}
<1>1. T \subseteq Nat /\ T # {}
  <2>1. \A n \in S : MaxRuns - n \in Nat
    BY OrchestratorConstants
  <2> QED
    BY <2>1
<1>2. \E x \in T : \A y \in T : <<y, x>> \notin OpToRel(<, Nat)
  <2> HIDE DEF T
  <2> QED
    BY <1>1, NatLessThanWellFounded, WFMin
<1>3. \E x \in T : \A y \in T : ~(y < x)
  BY <1>1, <1>2 DEF OpToRel
<1>4. PICK x \in S : \A y \in S : ~(MaxRuns - y < MaxRuns - x)
  BY <1>3
<1>5. \A y \in S : x >= y
  BY <1>4, OrchestratorConstants
<1> QED
  BY <1>5 DEF Max

LEMMA InitInv == Init => IInv
<1> SUFFICES ASSUME Init PROVE IInv
  OBVIOUS
<1>1. Shape
  BY OrchestratorConstants DEF Init, Shape, Fresh, Registered, RegisteredJob, Results, Idle, Stage,
     Run, NoRow, Row, JobRun, Statuses
<1>2. Tickets
  BY DEF Init, Tickets, Idle, Stage, NoRow, Row
<1>3. Flags
  BY DEF Init, Flags, Idle, Stage, Fresh, Registered, Claimed
<1>4. Recorded /\ Disabled
  BY DEF Init, Recorded, Disabled, Idle, Stage
<1>5. AutoDisableHolds
  BY OrchestratorConstants DEF Init, AutoDisableHolds, Fresh, Registered
<1> QED
  BY <1>1, <1>2, <1>3, <1>4, <1>5 DEF IInv

-----------------------------------------------------------------------------
\* A new run takes a start time nobody has.
LEMMA StartStep ==
  ASSUME IInv, NEW t \in Threads, NEW j \in Jobs, NEW next \in Run, NEW record \in RegisteredJob,
         thread[t].pc = "idle", started < MaxRuns,
         thread' = [thread EXCEPT ![t] = next],
         job' = [job EXCEPT ![j] = record],
         started' = started + 1,
         UNCHANGED <<rows, controls, day, off, override>>,
         next.job = j, next.at = started + 1, next.day = day,
         next.pc = "asked" \/ (next.pc = "checking" /\ ~job[j].running),
         record.running <=> next.pc = "checking" \/ job[j].running,
         record.enabled = job[j].enabled, record.failures = job[j].failures
  PROVE  IInv'
<1> USE DEF IInv
<1>1. \A u \in Threads : thread'[u] = IF u = t THEN next ELSE thread[u]
  BY DEF Shape
<1>2. \A i \in Jobs : job'[i] = IF i = j THEN record ELSE job[i]
  BY DEF Shape
<1>3. Shape'
  BY OrchestratorConstants DEF Shape
<1>4. Tickets'
  BY <1>1, OrchestratorConstants DEF Tickets, Shape
<1>5. Flags'
  BY <1>1, <1>2 DEF Flags, Claimed
<1>6. Recorded'
  BY <1>1 DEF Recorded
<1>7. Disabled' /\ AutoDisableHolds'
  BY <1>2 DEF Disabled, AutoDisableHolds
<1> QED
  BY <1>3, <1>4, <1>5, <1>6, <1>7

\* wrapAndRun.
LEMMA FireStep ==
  ASSUME IInv, NEW t \in Threads, NEW j \in Jobs, Fire(t, j)
  PROVE  IInv'
<1> DEFINE next == Stage("checking", j, FALSE, started + 1, day, DependsOn[j], 0, FALSE)
           record == [job[j] EXCEPT !.running = TRUE]
<1>1. Shape
  BY DEF IInv
<1>2. next \in Run
  BY <1>1, OrchestratorConstants DEF Stage, Run, Claimed, Shape
<1>3. /\ record \in RegisteredJob /\ record.running /\ record.enabled = job[j].enabled
      /\ record.failures = job[j].failures
  BY <1>1 DEF RegisteredJob, Shape
<1>4. next.job = j /\ next.at = started + 1 /\ next.day = day /\ next.pc = "checking"
  BY DEF Stage
<1>5. thread' = [thread EXCEPT ![t] = next] /\ job' = [job EXCEPT ![j] = record]
  BY DEF Fire
<1>6. /\ thread[t].pc = "idle" /\ started < MaxRuns /\ ~job[j].running /\ started' = started + 1
      /\ UNCHANGED <<rows, controls, day, off, override>>
  BY DEF Fire
<1> HIDE DEF next, record
<1> QED
  BY <1>2, <1>3, <1>4, <1>5, <1>6, StartStep

\* RunJob.
LEMMA AskStep ==
  ASSUME IInv, NEW t \in Threads, NEW j \in Jobs, Ask(t, j)
  PROVE  IInv'
<1> DEFINE next == Stage("asked", j, TRUE, started + 1, day, DependsOn[j], 0, FALSE)
           record == job[j]
<1>1. Shape
  BY DEF IInv
<1>2. next \in Run
  BY <1>1, OrchestratorConstants DEF Stage, Run, Claimed, Shape
<1>3. record \in RegisteredJob
  BY <1>1 DEF Shape
<1>4. next.job = j /\ next.at = started + 1 /\ next.day = day /\ next.pc = "asked"
  BY DEF Stage
<1>5. thread' = [thread EXCEPT ![t] = next] /\ job' = [job EXCEPT ![j] = record]
  BY <1>1 DEF Ask, Shape
<1>6. /\ thread[t].pc = "idle" /\ started < MaxRuns /\ started' = started + 1
      /\ UNCHANGED <<rows, controls, day, off, override>>
  BY DEF Ask
<1> HIDE DEF next
<1> QED
  BY <1>2, <1>3, <1>4, <1>5, <1>6, StartStep

\* A step of a thread that leaves its start time, its job and the rows alone:
\* what remains to be shown is how it moves the flag and the job's record.
LEMMA ThreadStep ==
  ASSUME IInv, NEW t \in Threads, NEW next \in Run, NEW record \in RegisteredJob,
         thread[t].pc # "idle",
         thread' = [thread EXCEPT ![t] = next],
         job' = [job EXCEPT ![thread[t].job] = record],
         UNCHANGED <<rows, started, controls, day, off>>,
         next.pc # "idle" =>
           next.at = thread[t].at /\ next.job = thread[t].job /\ next.day = thread[t].day,
         next.pc \in {"asked", "checking", "skipping", "beginning"} =>
           thread[t].pc \in {"asked", "checking", "skipping", "beginning"},
         next.pc \in {"executing", "finished", "completing"} =>
           thread[t].pc \in {"executing", "finished", "completing"},
         next.pc \in Claimed => thread[t].pc \in Claimed \/ ~job[thread[t].job].running,
         record.running <=>
           next.pc \in Claimed \/ (job[thread[t].job].running /\ thread[t].pc \notin Claimed),
         record.enabled => job[thread[t].job].enabled,
         record.enabled /\ record.failures >= Threshold => override'[thread[t].job],
         override' \in [Jobs -> BOOLEAN],
         \A i \in Jobs \ {thread[t].job} : override'[i] = override[i]
  PROVE  IInv'
<1> USE DEF IInv
<1> DEFINE j == thread[t].job
<1>1. j \in Jobs
  BY DEF Tickets
<1>2. \A u \in Threads : thread'[u] = IF u = t THEN next ELSE thread[u]
  BY DEF Shape
<1>3. \A i \in Jobs : job'[i] = IF i = j THEN record ELSE job[i]
  BY <1>1 DEF Shape
<1>4. Shape'
  BY DEF Shape
<1>5. Tickets'
  BY <1>2 DEF Tickets
<1>6. Flags'
  <2>1. \A i \in Jobs :
          job'[i].running <=> \E u \in Threads : thread'[u].job = i /\ thread'[u].pc \in Claimed
    <3> SUFFICES ASSUME NEW i \in Jobs
                 PROVE  job'[i].running <=>
                          \E u \in Threads : thread'[u].job = i /\ thread'[u].pc \in Claimed
      OBVIOUS
    <3>1. CASE i # j
      BY <3>1, <1>2, <1>3 DEF Flags, Claimed
    <3>2. CASE i = j /\ next.pc \in Claimed
      BY <3>2, <1>2, <1>3 DEF Claimed
    <3>3. CASE i = j /\ next.pc \notin Claimed
      BY <3>3, <1>1, <1>2, <1>3 DEF Flags
    <3> QED
      BY <3>1, <3>2, <3>3
  <2>2. \A u, v \in Threads :
          thread'[u].pc \in Claimed /\ thread'[v].pc \in Claimed /\ thread'[u].job = thread'[v].job
            => u = v
    BY <1>1, <1>2 DEF Flags, Claimed
  <2> QED
    BY <2>1, <2>2 DEF Flags
<1>7. Recorded'
  BY <1>2 DEF Recorded
<1>8. Disabled' /\ AutoDisableHolds'
  BY <1>3 DEF Disabled, AutoDisableHolds
<1> QED
  BY <1>4, <1>5, <1>6, <1>7, <1>8

\* The same for a step that also writes the row of its start time, or not.
LEMMA RowStep ==
  ASSUME IInv, NEW t \in Threads, NEW next \in Run, NEW record \in RegisteredJob, NEW row \in JobRun,
         thread[t].pc # "idle",
         thread' = [thread EXCEPT ![t] = next],
         job' = [job EXCEPT ![thread[t].job] = record],
         rows' = [rows EXCEPT ![thread[t].at] = row],
         UNCHANGED <<started, controls, day, off>>,
         row.status # "absent",
         next.pc \in {"executing", "idle"},
         next.pc # "idle" =>
           /\ next.at = thread[t].at /\ next.job = thread[t].job /\ next.day = thread[t].day
           /\ row.status = "running" /\ row.job = thread[t].job /\ row.day = thread[t].day
           /\ thread[t].pc \in Claimed,
         record.running <=>
           next.pc \in Claimed \/ (job[thread[t].job].running /\ thread[t].pc \notin Claimed),
         record.enabled => job[thread[t].job].enabled,
         record.enabled /\ record.failures >= Threshold => override'[thread[t].job],
         override' \in [Jobs -> BOOLEAN],
         \A i \in Jobs \ {thread[t].job} : override'[i] = override[i]
  PROVE  IInv'
<1> USE DEF IInv
<1> DEFINE j == thread[t].job
<1>1. j \in Jobs /\ thread[t].at \in 1..MaxRuns /\ thread[t].at \in 1..started
  BY OrchestratorConstants DEF Tickets, Shape
<1>2. \A u \in Threads : thread'[u] = IF u = t THEN next ELSE thread[u]
  BY DEF Shape
<1>3. \A i \in Jobs : job'[i] = IF i = j THEN record ELSE job[i]
  BY <1>1 DEF Shape
<1>4. \A n \in 1..MaxRuns : rows'[n] = IF n = thread[t].at THEN row ELSE rows[n]
  BY <1>1 DEF Shape
<1>5. Shape'
  BY <1>1 DEF Shape
<1>6. \A u \in Threads : thread[u].pc # "idle" => thread[u].at \in 1..MaxRuns
  BY OrchestratorConstants DEF Tickets, Shape
<1>7. Tickets'
  <2>1. \A u \in Threads : thread'[u].pc # "idle" =>
          thread'[u].job \in Jobs /\ thread'[u].at \in 1..started' /\ thread'[u].day <= day'
    BY <1>1, <1>2 DEF Tickets
  <2>2. \A u, v \in Threads :
          thread'[u].pc # "idle" /\ thread'[v].pc # "idle" /\ thread'[u].at = thread'[v].at => u = v
    BY <1>2 DEF Tickets
  <2>3. \A n \in 1..MaxRuns : n > started' => rows'[n].status = "absent"
    BY <1>1, <1>4, OrchestratorConstants DEF Tickets, Shape
  <2>4. \A u \in Threads : thread'[u].pc \in {"asked", "checking", "skipping", "beginning"} =>
          rows'[thread'[u].at].status = "absent"
    BY <1>2, <1>4, <1>6 DEF Tickets
  <2> QED
    BY <2>1, <2>2, <2>3, <2>4 DEF Tickets
<1>8. Flags'
  <2>1. \A i \in Jobs :
          job'[i].running <=> \E u \in Threads : thread'[u].job = i /\ thread'[u].pc \in Claimed
    <3> SUFFICES ASSUME NEW i \in Jobs
                 PROVE  job'[i].running <=>
                          \E u \in Threads : thread'[u].job = i /\ thread'[u].pc \in Claimed
      OBVIOUS
    <3>1. CASE i # j
      BY <3>1, <1>2, <1>3 DEF Flags, Claimed
    <3>2. CASE i = j /\ next.pc \in Claimed
      BY <3>2, <1>2, <1>3 DEF Claimed
    <3>3. CASE i = j /\ next.pc \notin Claimed
      BY <3>3, <1>1, <1>2, <1>3 DEF Flags
    <3> QED
      BY <3>1, <3>2, <3>3
  <2>2. \A u, v \in Threads :
          thread'[u].pc \in Claimed /\ thread'[v].pc \in Claimed /\ thread'[u].job = thread'[v].job
            => u = v
    BY <1>1, <1>2 DEF Flags, Claimed
  <2> QED
    BY <2>1, <2>2 DEF Flags
<1>9. Recorded'
  BY <1>1, <1>2, <1>4, <1>6 DEF Recorded, Tickets
<1>10. Disabled' /\ AutoDisableHolds'
  BY <1>3 DEF Disabled, AutoDisableHolds
<1> QED
  BY <1>5, <1>7, <1>8, <1>9, <1>10

-----------------------------------------------------------------------------
\* A row or a thread that ends.
LEMMA IdleRun == Idle \in Run /\ Idle.pc = "idle" /\ "idle" \notin Claimed
<1>1. <<>> \in Seq(Jobs)
  OBVIOUS
<1> QED
  BY <1>1 DEF Idle, Stage, Run, Claimed

\* A counted failure never enables a job and disables it at the threshold.
LEMMA CountedFailure ==
  ASSUME NEW r \in RegisteredJob
  PROVE  /\ CountFailure(r) \in RegisteredJob
         /\ CountFailure(r).running = r.running
         /\ CountFailure(r).enabled => r.enabled /\ CountFailure(r).failures < Threshold
<1> DEFINE stays == r.enabled /\ r.failures + 1 < Threshold
<1>1. r.failures + 1 \in Nat /\ stays \in BOOLEAN
  BY DEF RegisteredJob
<1>2. CountFailure(r) = [r EXCEPT !.failures = r.failures + 1, !.enabled = stays]
  BY DEF CountFailure, RegisteredJob
<1>3. stays => r.enabled /\ r.failures + 1 < Threshold
  OBVIOUS
<1> HIDE DEF stays
<1> QED
  BY <1>1, <1>2, <1>3 DEF RegisteredJob

LEMMA UnrecordedJob ==
  ASSUME NEW r \in RegisteredJob, NEW b \in BOOLEAN
  PROVE  LET x == [applyRunPersistenceFailure(r) EXCEPT !.running = b]
         IN /\ x \in RegisteredJob
            /\ x.running = b
            /\ x.enabled => r.enabled /\ x.failures < Threshold
<1> DEFINE c == CountFailure(r)
<1>1. c \in RegisteredJob /\ (c.enabled => r.enabled /\ c.failures < Threshold)
  BY CountedFailure
<1>2. applyRunPersistenceFailure(r) = [c EXCEPT !.result = "failed"]
  BY DEF applyRunPersistenceFailure
<1> HIDE DEF c
<1> QED
  BY <1>1, <1>2 DEF RegisteredJob, Results

-----------------------------------------------------------------------------
LEMMA ClaimStep ==
  ASSUME IInv, NEW t \in Threads, Claim(t)
  PROVE  IInv'
<1> DEFINE j == thread[t].job
<1>1. Shape /\ thread[t] \in Run /\ job[j] \in RegisteredJob /\ j \in Jobs /\ thread[t].pc = "asked"
  BY DEF IInv, Shape, Tickets, Claim
<1>2. UNCHANGED <<rows, started, controls, day, off, override>>
  BY DEF Claim
<1>3. /\ override' \in [Jobs -> BOOLEAN] /\ override' = override
      /\ job[j].enabled /\ job[j].failures >= Threshold => override[j]
  BY <1>1, <1>2 DEF Shape, AutoDisableHolds, IInv
<1>4. CASE job[j].enabled /\ ~job[j].running
  <2> DEFINE next == [thread[t] EXCEPT !.pc = "checking"]
             record == [job[j] EXCEPT !.running = TRUE]
  <2>1. /\ next \in Run /\ next.pc = "checking" /\ next.at = thread[t].at /\ next.job = j
        /\ next.day = thread[t].day
    BY <1>1 DEF Run, Claimed
  <2>2. /\ record \in RegisteredJob /\ record.running /\ record.enabled = job[j].enabled
        /\ record.failures = job[j].failures
    BY <1>1 DEF RegisteredJob
  <2>3. thread' = [thread EXCEPT ![t] = next] /\ job' = [job EXCEPT ![j] = record]
    BY <1>1, <1>4 DEF Claim
  <2> HIDE DEF next, record
  <2> QED
    BY <1>1, <1>2, <1>3, <1>4, <2>1, <2>2, <2>3, ThreadStep DEF Claimed
<1>5. CASE ~(job[j].enabled /\ ~job[j].running)
  <2>1. thread' = [thread EXCEPT ![t] = Idle] /\ job' = [job EXCEPT ![j] = job[j]]
    BY <1>1, <1>5 DEF Claim, Shape
  <2>2. job[j].running \in BOOLEAN
    BY <1>1 DEF RegisteredJob
  <2> QED
    BY <1>1, <1>2, <1>3, <2>1, <2>2, IdleRun, ThreadStep DEF Claimed
<1> QED
  BY <1>4, <1>5

\* dependencyBlocker and recordDependencySkip.
LEMMA CheckDependencyStep ==
  ASSUME IInv, NEW t \in Threads, CheckDependency(t)
  PROVE  IInv'
<1> DEFINE j == thread[t].job
           blocked == Blocks(Head(thread[t].need), thread[t].day)
<1>1. Shape /\ thread[t] \in Run /\ job[j] \in RegisteredJob /\ j \in Jobs /\ thread[t].pc = "checking"
  BY DEF IInv, Shape, Tickets, CheckDependency
<1>2. UNCHANGED <<rows, started, controls, day, off, override>>
  BY DEF CheckDependency
<1>3. /\ override' \in [Jobs -> BOOLEAN] /\ override' = override
      /\ job[j].enabled /\ job[j].failures >= Threshold => override[j]
  BY <1>1, <1>2 DEF Shape, AutoDisableHolds, IInv
<1>4. CASE blocked
  <2> DEFINE next == [thread[t] EXCEPT !.pc = "skipping", !.need = <<>>, !.seen = job[j].failures]
             record == Registered(job[j].enabled, job[j].failures, "skipped", thread[t].day)
  <2>1. <<>> \in Seq(Jobs) /\ job[j].failures \in Nat
    BY <1>1 DEF RegisteredJob
  <2>2. /\ next \in Run /\ next.pc = "skipping" /\ next.at = thread[t].at /\ next.job = j
        /\ next.day = thread[t].day
    BY <1>1, <2>1 DEF Run
  <2>3. /\ record \in RegisteredJob /\ ~record.running /\ record.enabled = job[j].enabled
        /\ record.failures = job[j].failures
    BY <1>1 DEF RegisteredJob, Registered, Statuses, Run
  <2>4. thread' = [thread EXCEPT ![t] = next] /\ job' = [job EXCEPT ![j] = record]
    BY <1>1, <1>4 DEF CheckDependency
  <2> HIDE DEF next, record
  <2> QED
    BY <1>1, <1>2, <1>3, <2>2, <2>3, <2>4, ThreadStep DEF Claimed
<1>5. CASE ~blocked
  <2> DEFINE next == [thread[t] EXCEPT !.need = Tail(@)]
  <2>1. thread[t].need \in Seq(Jobs) /\ thread[t].need # <<>>
    BY <1>1 DEF Run, CheckDependency
  <2>2. Tail(thread[t].need) \in Seq(Jobs)
    BY <2>1
  <2>3. /\ next \in Run /\ next.pc = "checking" /\ next.at = thread[t].at /\ next.job = j
        /\ next.day = thread[t].day
    BY <1>1, <2>2 DEF Run
  <2>4. thread' = [thread EXCEPT ![t] = next] /\ job' = [job EXCEPT ![j] = job[j]]
    BY <1>1, <1>5 DEF CheckDependency, Shape
  <2>5. job[j].running
    BY <1>1 DEF IInv, Flags, Claimed
  <2> HIDE DEF next
  <2> QED
    BY <1>1, <1>2, <1>3, <2>3, <2>4, <2>5, ThreadStep DEF Claimed
<1> QED
  BY <1>4, <1>5

LEMMA SnapshotStep ==
  ASSUME IInv, NEW t \in Threads, SnapshotFailures(t)
  PROVE  IInv'
<1> DEFINE j == thread[t].job
           pc == IF thread[t].pc = "checking" THEN "beginning" ELSE "completing"
           next == [thread[t] EXCEPT !.pc = pc, !.seen = job[j].failures]
<1>1. /\ Shape /\ thread[t] \in Run /\ job[j] \in RegisteredJob /\ j \in Jobs
      /\ thread[t].pc \in {"checking", "finished"}
  BY DEF IInv, Shape, Tickets, SnapshotFailures
<1>2. UNCHANGED <<rows, started, controls, day, off, override>>
  BY DEF SnapshotFailures
<1>3. /\ override' \in [Jobs -> BOOLEAN] /\ override' = override
      /\ job[j].enabled /\ job[j].failures >= Threshold => override[j]
  BY <1>1, <1>2 DEF Shape, AutoDisableHolds, IInv
<1>4. job[j].failures \in Nat /\ job[j].running
  BY <1>1 DEF RegisteredJob, IInv, Flags, Claimed
<1>5. /\ next \in Run /\ next.pc = pc /\ next.at = thread[t].at /\ next.job = j
      /\ next.day = thread[t].day
  BY <1>1, <1>4 DEF Run, Claimed
<1>6. thread' = [thread EXCEPT ![t] = next] /\ job' = [job EXCEPT ![j] = job[j]]
  BY <1>1 DEF SnapshotFailures, Shape
<1> HIDE DEF next
<1> QED
  BY <1>1, <1>2, <1>3, <1>4, <1>5, <1>6, ThreadStep DEF Claimed

\* The job function ends; its row is still open.
LEMMA FinishStep ==
  ASSUME IInv, NEW t \in Threads, NEW ok \in BOOLEAN, Finish(t, ok)
  PROVE  IInv'
<1> DEFINE j == thread[t].job
           last == IF thread[t].manual THEN day ELSE thread[t].day
           counted == CountFailure(job[j])
           record == IF ok THEN [job[j] EXCEPT !.failures = 0, !.result = "ok", !.day = last]
                     ELSE [counted EXCEPT !.result = "failed", !.day = last]
           next == [thread[t] EXCEPT !.pc = "finished", !.ok = ok]
<1>1. /\ Shape /\ thread[t] \in Run /\ job[j] \in RegisteredJob /\ j \in Jobs
      /\ thread[t].pc = "executing"
  BY DEF IInv, Shape, Tickets, Finish
<1>2. UNCHANGED <<rows, started, controls, day, off>>
  BY DEF Finish
<1>3. /\ override' \in [Jobs -> BOOLEAN]
      /\ \A i \in Jobs \ {j} : override'[i] = override[i]
  BY <1>1 DEF Finish, Shape
<1>4. last \in Nat /\ job[j].running
  BY <1>1 DEF Shape, Run, IInv, Flags, Claimed
<1>5. counted \in RegisteredJob /\ counted.running /\ (counted.enabled => job[j].enabled /\ counted.failures < Threshold)
  BY <1>1, <1>4, CountedFailure
<1> HIDE DEF counted, last
<1>6. /\ record \in RegisteredJob /\ record.running /\ (record.enabled => job[j].enabled)
      /\ record.failures >= Threshold => ~record.enabled
  <2>1. CASE ok
    <3>1. record = [job[j] EXCEPT !.failures = 0, !.result = "ok", !.day = last]
      BY <2>1
    <3> HIDE DEF record
    <3>2. record \in RegisteredJob
      BY <3>1, <1>1, <1>4 DEF RegisteredJob, Results
    <3>3. record.failures = 0 /\ record.running = job[j].running /\ record.enabled = job[j].enabled
      BY <3>1, <1>1 DEF RegisteredJob
    <3> QED
      BY <3>2, <3>3, <1>4, OrchestratorConstants
  <2>2. CASE ~ok
    <3>1. record = [counted EXCEPT !.result = "failed", !.day = last]
      BY <2>2
    <3> HIDE DEF record
    <3>2. record \in RegisteredJob
      BY <3>1, <1>4, <1>5 DEF RegisteredJob, Results
    <3>3. /\ record.failures = counted.failures /\ record.running = counted.running
          /\ record.enabled = counted.enabled
      BY <3>1, <1>5 DEF RegisteredJob
    <3>4. counted.failures \in Nat
      BY <1>5 DEF RegisteredJob
    <3> QED
      BY <3>2, <3>3, <3>4, <1>5, OrchestratorConstants
  <2> QED
    BY <2>1, <2>2
<1>7. /\ next \in Run /\ next.pc = "finished" /\ next.at = thread[t].at /\ next.job = j
      /\ next.day = thread[t].day
  BY <1>1 DEF Run, Claimed
<1>8. thread' = [thread EXCEPT ![t] = next] /\ job' = [job EXCEPT ![j] = record]
  BY <1>1 DEF Finish, counted, last
<1> HIDE DEF next, record
<1> QED
  BY <1>1, <1>2, <1>3, <1>4, <1>6, <1>7, <1>8, ThreadStep DEF Claimed

\* What every statement about a run leaves its job with: the record it had,
\* released or not, or a counted failure.
Outcome(j, record) ==
  /\ record \in RegisteredJob
  /\ record.enabled => job[j].enabled
  /\ record.enabled /\ record.failures >= Threshold => override'[j]
  /\ override' \in [Jobs -> BOOLEAN]
  /\ \A i \in Jobs \ {j} : override'[i] = override[i]
  /\ job' = [job EXCEPT ![j] = record]

LEMMA UnrecordedOutcome ==
  ASSUME IInv, NEW j \in Jobs, NEW running \in BOOLEAN, Unrecorded(j, running)
  PROVE  \E record : Outcome(j, record) /\ record.running = running
<1> DEFINE record == [applyRunPersistenceFailure(job[j]) EXCEPT !.running = running]
<1>1. Shape /\ job[j] \in RegisteredJob
  BY DEF IInv, Shape
<1>2. /\ record \in RegisteredJob /\ record.running = running
      /\ record.enabled => job[j].enabled /\ record.failures < Threshold
  BY <1>1, UnrecordedJob
<1>3. record.failures \in Nat
  BY <1>2 DEF RegisteredJob
<1>4. /\ job' = [job EXCEPT ![j] = record]
      /\ override' \in [Jobs -> BOOLEAN]
      /\ \A i \in Jobs \ {j} : override'[i] = override[i]
  BY <1>1 DEF Unrecorded, Shape
<1> HIDE DEF record
<1>5. record.enabled /\ record.failures >= Threshold => override'[j]
  BY <1>2, <1>3, OrchestratorConstants
<1> QED
  BY <1>2, <1>4, <1>5 DEF Outcome

LEMMA KeptOutcome ==
  ASSUME IInv, NEW j \in Jobs, NEW running \in BOOLEAN,
         job' = [job EXCEPT ![j].running = running], UNCHANGED override
  PROVE  \E record : Outcome(j, record) /\ record.running = running
<1> DEFINE record == [job[j] EXCEPT !.running = running]
<1>1. Shape /\ job[j] \in RegisteredJob
  BY DEF IInv, Shape
<1>2. /\ record \in RegisteredJob /\ record.running = running
      /\ record.enabled = job[j].enabled /\ record.failures = job[j].failures
  BY <1>1 DEF RegisteredJob
<1>3. job' = [job EXCEPT ![j] = record]
  OBVIOUS
<1> HIDE DEF record
<1> QED
  BY <1>1, <1>2, <1>3 DEF Outcome, IInv, Shape, AutoDisableHolds

LEMMA PersistSkipStep ==
  ASSUME IInv, NEW t \in Threads, NEW committed \in BOOLEAN, NEW replied \in BOOLEAN,
         PersistSkip(t, committed, replied)
  PROVE  IInv'
<1> DEFINE j == thread[t].job
           row == Row(j, "skipped", thread[t].seen, thread[t].day, thread[t].day)
<1>1. /\ Shape /\ thread[t] \in Run /\ job[j] \in RegisteredJob /\ j \in Jobs
      /\ thread[t].pc = "skipping"
  BY DEF IInv, Shape, Tickets, PersistSkip
<1>2. UNCHANGED <<started, controls, day, off>> /\ thread' = [thread EXCEPT ![t] = Idle]
  BY DEF PersistSkip
<1>3. job[j].running \in BOOLEAN
  BY <1>1 DEF RegisteredJob
<1>4. PICK record : Outcome(j, record) /\ record.running = job[j].running
  <2>1. CASE replied
    <3>1. UNCHANGED override /\ job' = job
      BY <2>1 DEF PersistSkip
    <3>2. job' = [job EXCEPT ![j].running = job[j].running]
      BY <3>1, <1>1 DEF Shape, RegisteredJob
    <3> QED
      BY <1>1, <1>3, <3>1, <3>2, KeptOutcome
  <2>2. CASE ~replied
    BY <2>2, <1>1, <1>3, UnrecordedOutcome DEF PersistSkip
  <2> QED
    BY <2>1, <2>2
<1>5. CASE committed
  <2>1. row \in JobRun /\ row.status = "skipped"
    BY <1>1 DEF Row, JobRun, Statuses, Run
  <2>2. rows' = [rows EXCEPT ![thread[t].at] = row]
    BY <1>5 DEF PersistSkip
  <2> HIDE DEF row
  <2> QED
    BY <1>1, <1>2, <1>4, <2>1, <2>2, IdleRun, RowStep DEF Outcome, Claimed
<1>6. CASE ~committed
  <2>1. rows' = rows
    BY <1>6 DEF PersistSkip
  <2> QED
    BY <1>1, <1>2, <1>4, <2>1, IdleRun, ThreadStep DEF Outcome, Claimed
<1> QED
  BY <1>5, <1>6

LEMMA BeginRunStep ==
  ASSUME IInv, NEW t \in Threads, NEW committed \in BOOLEAN, NEW replied \in BOOLEAN,
         BeginRun(t, committed, replied)
  PROVE  IInv'
<1> DEFINE j == thread[t].job
           row == Row(j, "running", thread[t].seen, thread[t].day, 0)
           next == [thread[t] EXCEPT !.pc = "executing"]
<1>1. /\ Shape /\ thread[t] \in Run /\ job[j] \in RegisteredJob /\ j \in Jobs
      /\ thread[t].pc = "beginning"
  BY DEF IInv, Shape, Tickets, BeginRun
<1>2. UNCHANGED <<started, controls, day, off>> /\ (replied => committed)
  BY DEF BeginRun, Statement
<1>3. job[j].running = TRUE
  BY <1>1 DEF IInv, Flags, Claimed, RegisteredJob
<1>4. /\ row \in JobRun /\ row.status = "running" /\ row.job = j /\ row.day = thread[t].day
  BY <1>1 DEF Row, JobRun, Statuses, Run
<1>5. /\ next \in Run /\ next.pc = "executing" /\ next.at = thread[t].at /\ next.job = j
      /\ next.day = thread[t].day
  BY <1>1 DEF Run, Claimed
<1>6. CASE replied
  <2>1. /\ UNCHANGED override /\ job' = job /\ rows' = [rows EXCEPT ![thread[t].at] = row]
        /\ thread' = [thread EXCEPT ![t] = next]
    BY <1>2, <1>6 DEF BeginRun
  <2>2. job' = [job EXCEPT ![j].running = TRUE]
    BY <2>1, <1>1, <1>3 DEF Shape, RegisteredJob
  <2>3. PICK record : Outcome(j, record) /\ record.running = TRUE
    BY <2>1, <2>2, <1>1, KeptOutcome
  <2> HIDE DEF row, next
  <2> QED
    BY <1>1, <1>2, <1>3, <1>4, <1>5, <2>1, <2>3, RowStep DEF Outcome, Claimed
<1>7. CASE ~replied
  <2>1. thread' = [thread EXCEPT ![t] = Idle] /\ Unrecorded(j, FALSE)
    BY <1>7 DEF BeginRun
  <2>2. PICK record : Outcome(j, record) /\ record.running = FALSE
    BY <2>1, <1>1, UnrecordedOutcome
  <2>3. CASE committed
    <3>1. rows' = [rows EXCEPT ![thread[t].at] = row]
      BY <2>3 DEF BeginRun
    <3> HIDE DEF row, next
    <3> QED
      BY <1>1, <1>2, <1>4, <2>1, <2>2, <3>1, IdleRun, RowStep DEF Outcome, Claimed
  <2>4. CASE ~committed
    <3>1. rows' = rows
      BY <2>4 DEF BeginRun
    <3> HIDE DEF row, next
    <3> QED
      BY <1>1, <1>2, <2>1, <2>2, <3>1, IdleRun, ThreadStep DEF Outcome, Claimed
  <2> QED
    BY <2>3, <2>4
<1> QED
  BY <1>6, <1>7

LEMMA CompleteRunStep ==
  ASSUME IInv, NEW t \in Threads, NEW committed \in BOOLEAN, NEW replied \in BOOLEAN,
         CompleteRun(t, committed, replied)
  PROVE  IInv'
<1> DEFINE j == thread[t].job
           row == Row(j, IF thread[t].ok THEN "ok" ELSE "error", thread[t].seen,
                      rows[thread[t].at].day, day)
<1>1. /\ Shape /\ thread[t] \in Run /\ job[j] \in RegisteredJob /\ j \in Jobs
      /\ thread[t].pc = "completing" /\ thread[t].at \in 1..MaxRuns
  BY OrchestratorConstants DEF IInv, Shape, Tickets, CompleteRun
<1>2. UNCHANGED <<started, controls, day, off>> /\ thread' = [thread EXCEPT ![t] = Idle]
  BY DEF CompleteRun
<1>3. PICK record : Outcome(j, record) /\ record.running = FALSE
  <2>1. CASE thread[t].ok /\ ~replied
    BY <2>1, <1>1, UnrecordedOutcome DEF CompleteRun
  <2>2. CASE ~(thread[t].ok /\ ~replied)
    BY <2>2, <1>1, KeptOutcome DEF CompleteRun
  <2> QED
    BY <2>1, <2>2
<1>4. CASE committed
  <2>1. row \in JobRun /\ row.status # "absent"
    BY <1>1 DEF Row, JobRun, Statuses, Run, Shape
  <2>2. rows' = [rows EXCEPT ![thread[t].at] = row]
    BY <1>1, <1>4 DEF CompleteRun, Shape
  <2> HIDE DEF row
  <2> QED
    BY <1>1, <1>2, <1>3, <2>1, <2>2, IdleRun, RowStep DEF Outcome, Claimed
<1>5. CASE ~committed
  <2>1. rows' = rows
    BY <1>5 DEF CompleteRun
  <2> QED
    BY <1>1, <1>2, <1>3, <2>1, IdleRun, ThreadStep DEF Outcome, Claimed
<1> QED
  BY <1>4, <1>5

-----------------------------------------------------------------------------
\* SetEnabledBy moves memory only after the durable control.
LEMMA SetEnabledStep ==
  ASSUME IInv, NEW j \in Jobs, NEW enabled \in BOOLEAN, NEW committed \in BOOLEAN,
         NEW replied \in BOOLEAN, SetEnabledBy(j, enabled, committed, replied)
  PROVE  IInv'
<1> DEFINE record == [job[j] EXCEPT !.enabled = enabled]
<1>1. Shape /\ job[j] \in RegisteredJob
  BY DEF IInv, Shape
<1>2. /\ record \in RegisteredJob /\ record.enabled = enabled /\ record.running = job[j].running
  BY <1>1 DEF RegisteredJob
<1>3. /\ replied => committed
      /\ job' = IF replied THEN [job EXCEPT ![j] = record] ELSE job
      /\ controls' = IF committed THEN [controls EXCEPT ![j] = enabled] ELSE controls
      /\ off' = [off EXCEPT ![j] = ~enabled /\ (off[j] \/ replied)]
      /\ override' = IF replied THEN [override EXCEPT ![j] = enabled] ELSE override
      /\ UNCHANGED <<thread, rows, started, day>>
  BY DEF SetEnabledBy
<1> HIDE DEF record
<1>4. \A i \in Jobs : job'[i] = IF replied /\ i = j THEN record ELSE job[i]
  BY <1>1, <1>3 DEF Shape
<1>5. (~enabled /\ (off[j] \/ replied)) \in BOOLEAN
  OBVIOUS
<1>6. Shape'
  BY <1>1, <1>2, <1>3, <1>5 DEF Shape
<1>7. Tickets' /\ Recorded'
  BY <1>3 DEF IInv, Tickets, Recorded
<1>8. Flags'
  BY <1>2, <1>3, <1>4 DEF IInv, Flags
<1>9. Disabled'
  BY <1>1, <1>2, <1>3, <1>4 DEF IInv, Disabled, Shape
<1>10. AutoDisableHolds'
  BY <1>1, <1>2, <1>3, <1>4 DEF IInv, AutoDisableHolds, Shape
<1> QED
  BY <1>6, <1>7, <1>8, <1>9, <1>10 DEF IInv

LEMMA RecoveredRows ==
  ASSUME IInv
  PROVE  /\ FailIncomplete \in [1..MaxRuns -> JobRun]
         /\ \A n \in 1..MaxRuns : rows[n].status = "absent" => FailIncomplete[n] = rows[n]
<1>1. Shape
  BY DEF IInv
<1> QED
  BY <1>1 DEF FailIncomplete, Shape, Row, JobRun, Statuses

\* Whatever a restart reads back, the job is idle, and enabled below the
\* threshold only.
LEMMA SummaryJob ==
  ASSUME NEW j \in Jobs, NEW lost \in BOOLEAN, NEW table \in [1..MaxRuns -> JobRun]
  PROVE  /\ Summary(j, lost, table) \in RegisteredJob
         /\ ~Summary(j, lost, table).running
         /\ Summary(j, lost, table).enabled => Summary(j, lost, table).failures < Threshold
<1> DEFINE present == {n \in 1..MaxRuns : table[n].job = j}
           row == table[Max(present)]
           ok == row.failures < Threshold
<1>1. Fresh \in RegisteredJob /\ ~Fresh.running /\ Fresh.failures < Threshold
  BY OrchestratorConstants DEF Fresh, Registered, RegisteredJob, Results
<1>2. CASE present = {}
  BY <1>1, <1>2 DEF Summary
<1>3. CASE present # {}
  <2>1. row \in JobRun
    BY <1>3, LatestStart
  <2>2. row.failures \in Nat /\ row.status \in Statuses /\ row.day \in Nat
    BY <2>1 DEF JobRun
  <2>3. Summary(j, lost, table) = IF lost THEN Registered(TRUE, 0, "none", row.day)
                                  ELSE Registered(ok, row.failures, row.status, row.day)
    BY <1>3 DEF Summary
  <2>4. ok \in BOOLEAN /\ (ok => row.failures < Threshold)
    OBVIOUS
  <2> HIDE DEF row, ok
  <2> QED
    BY <2>2, <2>3, <2>4, OrchestratorConstants DEF Registered, RegisteredJob, Results
<1> QED
  BY <1>2, <1>3

\* A restart, however it goes: every thread is gone and no job is running.
LEMMA RestartStep ==
  ASSUME IInv, NEW fate \in Fates, NEW lost \in SUBSET Jobs, Restart(fate, lost)
  PROVE  IInv'
<1> DEFINE hydrated(j) == IF fate \in {"unrecovered", "unsummarized"} THEN Fresh
                          ELSE Summary(j, j \in lost, FailIncomplete)
           enabled(j) == /\ fate = "hydrated"
                         /\ IF controls[j] # None THEN controls[j] ELSE hydrated(j).enabled
<1>1. Shape
  BY DEF IInv
<1>2. /\ job' = [j \in Jobs |-> [hydrated(j) EXCEPT !.enabled = enabled(j)]]
      /\ override' = [j \in Jobs |-> fate = "hydrated" /\ controls[j] = TRUE]
      /\ thread' = [t \in Threads |-> Idle]
      /\ rows' \in {rows, FailIncomplete}
      /\ UNCHANGED <<started, controls, day, off>>
  BY DEF Restart
<1>3. \A j \in Jobs : /\ hydrated(j) \in RegisteredJob /\ ~hydrated(j).running
                      /\ hydrated(j).enabled => hydrated(j).failures < Threshold
  <2> SUFFICES ASSUME NEW j \in Jobs
               PROVE  /\ hydrated(j) \in RegisteredJob /\ ~hydrated(j).running
                      /\ hydrated(j).enabled => hydrated(j).failures < Threshold
    OBVIOUS
  <2>1. Fresh \in RegisteredJob /\ ~Fresh.running /\ Fresh.failures < Threshold
    BY OrchestratorConstants DEF Fresh, Registered, RegisteredJob, Results
  <2>2. (j \in lost) \in BOOLEAN
    OBVIOUS
  <2>3. /\ Summary(j, j \in lost, FailIncomplete) \in RegisteredJob
        /\ ~Summary(j, j \in lost, FailIncomplete).running
        /\ Summary(j, j \in lost, FailIncomplete).enabled =>
             Summary(j, j \in lost, FailIncomplete).failures < Threshold
    BY <2>2, SummaryJob, RecoveredRows
  <2> QED
    BY <2>1, <2>3
<1>4. \A j \in Jobs : enabled(j) \in BOOLEAN
  BY <1>1, <1>3 DEF Shape, RegisteredJob
<1>5. \A j \in Jobs : enabled(j) =>
        fate = "hydrated" /\ (controls[j] = TRUE \/ hydrated(j).failures < Threshold)
  BY <1>1, <1>3 DEF Shape
<1>6. \A j \in Jobs : off[j] => ~enabled(j)
  BY OrchestratorConstants DEF IInv, Disabled
<1> HIDE DEF hydrated, enabled
<1>7. \A j \in Jobs : /\ job'[j] \in RegisteredJob /\ job'[j].running = FALSE
                      /\ job'[j].enabled = enabled(j) /\ job'[j].failures = hydrated(j).failures
  BY <1>2, <1>3, <1>4 DEF RegisteredJob
<1>8. rows' \in [1..MaxRuns -> JobRun]
  BY <1>1, <1>2, RecoveredRows DEF Shape
<1>9. Shape'
  <2>1. job' \in [Jobs -> RegisteredJob]
    BY <1>2, <1>7
  <2>2. thread' \in [Threads -> Run]
    BY <1>2, IdleRun
  <2>3. override' \in [Jobs -> BOOLEAN]
    BY <1>2
  <2> QED
    BY <1>1, <1>2, <1>8, <2>1, <2>2, <2>3 DEF Shape
<1>10. Tickets'
  BY <1>2, IdleRun, RecoveredRows DEF IInv, Tickets
<1>11. Flags' /\ Recorded'
  BY <1>2, <1>7, IdleRun DEF Flags, Recorded, Claimed
<1>12. Disabled'
  BY <1>2, <1>6, <1>7 DEF IInv, Disabled
<1>13. AutoDisableHolds'
  <2> SUFFICES ASSUME NEW j \in Jobs, job'[j].enabled, job'[j].failures >= Threshold
               PROVE  override'[j]
    BY DEF AutoDisableHolds
  <2>1. hydrated(j).failures \in Nat
    BY <1>3 DEF RegisteredJob
  <2>2. fate = "hydrated" /\ controls[j] = TRUE
    BY <1>5, <1>7, <2>1, OrchestratorConstants
  <2> QED
    BY <1>2, <2>2
<1> QED
  BY <1>9, <1>10, <1>11, <1>12, <1>13 DEF IInv

LEMMA NextDayStep ==
  ASSUME IInv, NextDay
  PROVE  IInv'
<1>1. Shape /\ Shape'
  BY DEF IInv, Shape, NextDay
<1>2. Tickets'
  <2>1. \A t \in Threads : thread[t].day \in Nat
    BY <1>1 DEF Shape, Run
  <2> QED
    BY <1>1, <2>1 DEF IInv, Tickets, NextDay, Shape
<1>3. Flags' /\ Recorded' /\ Disabled' /\ AutoDisableHolds'
  BY DEF IInv, NextDay, Flags, Recorded, Disabled, AutoDisableHolds
<1> QED
  BY <1>1, <1>2, <1>3 DEF IInv

-----------------------------------------------------------------------------
LEMMA NextInv == IInv /\ [Next]_vars => IInv'
<1> SUFFICES ASSUME IInv, [Next]_vars PROVE IInv'
  OBVIOUS
<1>1. ASSUME NEW t \in Threads, Step(t) PROVE IInv'
  BY <1>1, ClaimStep, CheckDependencyStep, SnapshotStep, FinishStep, PersistSkipStep, BeginRunStep,
     CompleteRunStep DEF Step
<1>2. ASSUME NEW t \in Threads, NEW j \in Jobs, Fire(t, j) \/ Ask(t, j) PROVE IInv'
  BY <1>2, FireStep, AskStep
<1>3. ASSUME NEW j \in Jobs, NEW enabled \in BOOLEAN, NEW committed \in BOOLEAN,
             NEW replied \in BOOLEAN, SetEnabledBy(j, enabled, committed, replied)
      PROVE  IInv'
  BY <1>3, SetEnabledStep
<1>4. ASSUME NEW fate \in Fates, NEW lost \in SUBSET Jobs, Restart(fate, lost) PROVE IInv'
  BY <1>4, RestartStep
<1>5. CASE NextDay
  BY <1>5, NextDayStep
<1>6. CASE UNCHANGED vars
  BY <1>6 DEF vars, IInv, Shape, Tickets, Flags, Recorded, Disabled, AutoDisableHolds
<1> QED
  BY <1>1, <1>2, <1>3, <1>4, <1>5, <1>6 DEF Next

LEMMA Invariance == Spec => []IInv
BY InitInv, NextInv, PTL DEF Spec

\* A job's Running flag is set exactly while one run answers for it, through
\* overlapping ticks and manual runs, skips, failed statements and restarts.
THEOREM RunningFlagsAreExact == Spec => []RunningIsExact
<1>1. IInv => RunningIsExact
  BY DEF IInv, Flags, RunningIsExact
<1> QED
  BY <1>1, Invariance, PTL

\* A job function is executed only under its own open row.
THEOREM ExecutionsHaveRows == Spec => []ExecutionsAreRecorded
<1>1. IInv => ExecutionsAreRecorded
  BY DEF IInv, Recorded, ExecutionsAreRecorded
<1> QED
  BY <1>1, Invariance, PTL

\* An acknowledged disable outlives every restart and every failed read.
THEOREM DisablesHold == Spec => []DisabledStaysOff
<1>1. IInv => DisabledStaysOff
  BY DEF IInv, Disabled, DisabledStaysOff
<1> QED
  BY <1>1, Invariance, PTL

\* A job at the failure threshold is enabled by nobody but an operator.
THEOREM AutoDisablesHold == Spec => []AutoDisableHolds
<1>1. IInv => AutoDisableHolds
  BY DEF IInv
<1> QED
  BY <1>1, Invariance, PTL

\* Every write goes to the row of the writer's own start time, which is absent
\* or running.
LEMMA TerminalStep ==
  ASSUME IInv, [Next]_vars
  PROVE  \A n \in 1..MaxRuns : rows[n].status \in {"ok", "error", "skipped"} => rows'[n] = rows[n]
<1> DEFINE Final == \A n \in 1..MaxRuns :
                      rows[n].status \in {"ok", "error", "skipped"} => rows'[n] = rows[n]
<1>1. ASSUME NEW t \in Threads, NEW row, rows' = [rows EXCEPT ![thread[t].at] = row],
             thread[t].pc \in {"skipping", "beginning", "completing"}
      PROVE  Final
  BY <1>1 DEF IInv, Shape, Tickets, Recorded
<1>2. CASE rows' = FailIncomplete
  BY <1>2 DEF FailIncomplete
<1>3. CASE rows' = rows
  BY <1>3
<1>4. ASSUME NEW t \in Threads, Step(t) PROVE Final
  BY <1>1, <1>3, <1>4 DEF Step, Claim, CheckDependency, SnapshotFailures, Finish, PersistSkip,
     BeginRun, CompleteRun
<1>5. \A t \in Threads, j \in Jobs : Fire(t, j) \/ Ask(t, j) => Final
  BY <1>3 DEF Fire, Ask
<1>6. \A j \in Jobs, enabled, committed, replied \in BOOLEAN :
        SetEnabledBy(j, enabled, committed, replied) => Final
  BY <1>3 DEF SetEnabledBy
<1>7. \A fate \in Fates, lost \in SUBSET Jobs : Restart(fate, lost) => Final
  BY <1>2, <1>3 DEF Restart
<1>8. NextDay \/ UNCHANGED vars => Final
  BY <1>3 DEF NextDay, vars
<1> QED
  BY <1>4, <1>5, <1>6, <1>7, <1>8 DEF Next

\* A row with a terminal status is never written again.
THEOREM TerminalRowsStay == Spec => TerminalRowsAreFinal
<1>1. IInv /\ [Next]_vars =>
        \A n \in 1..MaxRuns : rows[n].status \in {"ok", "error", "skipped"} => rows'[n] = rows[n]
  BY TerminalStep
<1> QED
  BY <1>1, Invariance, PTL DEF Spec, TerminalRowsAreFinal

-----------------------------------------------------------------------------
(* Dependencies *)

Ending == {"finished", "completing"}

\* Past the dependency check.
Past == Claimed \ {"checking"}

\* A success of job d recorded in the table that touches day x.
Success(table, d, x) ==
  \E n \in 1..MaxRuns : /\ table[n].job = d
                        /\ table[n].status = "ok"
                        /\ table[n].day <= x /\ x <= table[n].end

\* A success in memory is a success in the database once no run of the job is
\* still writing its outcome; until then it is that run's.
Vouched ==
  /\ \A d \in Jobs :
       /\ job[d].result = "ok"
       /\ \A u \in Threads : thread[u].job = d => thread[u].pc \notin Ending
       => Success(rows, d, job[d].day)
  /\ \A u \in Threads :
       thread[u].pc \in Ending /\ job[thread[u].job].result = "ok" =>
         /\ thread[u].ok
         /\ thread[u].day <= job[thread[u].job].day
         /\ job[thread[u].job].day <= day

\* The first n dependencies of run s have succeeded on its day.
Met(table, s, n) == \A k \in 1..n : Success(table, DependsOn[s.job][k], s.day)

\* What is left to check is the end of the list, and the rest is met.
Ahead(table, s) ==
  \E n \in Nat : /\ Len(DependsOn[s.job]) = n + Len(s.need)
                 /\ \A k \in 1..Len(s.need) : s.need[k] = DependsOn[s.job][n + k]
                 /\ Met(table, s, n)

Followed(table, s) ==
  /\ s.pc \in {"asked", "checking"} => Ahead(table, s)
  /\ s.pc \in Past => Met(table, s, Len(DependsOn[s.job]))

Spans == \A n \in 1..MaxRuns : rows[n].status = "ok" => rows[n].day <= rows[n].end

DInv ==
  /\ IInv
  /\ Vouched
  /\ \A u \in Threads : Followed(rows, thread[u])
  /\ Spans

LEMMA InitDInv == Init => DInv
<1> SUFFICES ASSUME Init PROVE DInv
  OBVIOUS
<1>1. IInv
  BY InitInv
<1>2. Vouched /\ Spans
  BY DEF Init, Vouched, Spans, Ending, Fresh, Registered, Idle, Stage, NoRow, Row
<1>3. \A u \in Threads : Followed(rows, thread[u])
  BY DEF Init, Followed, Past, Claimed, Idle, Stage
<1> QED
  BY <1>1, <1>2, <1>3 DEF DInv

-----------------------------------------------------------------------------
\* A recorded success is there for good.
LEMMA SuccessesStay ==
  ASSUME IInv, [Next]_vars
  PROVE  \A d, x : Success(rows, d, x) => Success(rows', d, x)
BY TerminalStep DEF Success

LEMMA FollowedStays ==
  ASSUME IInv, [Next]_vars
  PROVE  \A s : Followed(rows, s) => Followed(rows', s)
<1>1. \A s, n : Met(rows, s, n) => Met(rows', s, n)
  BY SuccessesStay DEF Met
<1>2. \A s : Ahead(rows, s) => Ahead(rows', s)
  BY <1>1 DEF Ahead
<1> QED
  BY <1>1, <1>2 DEF Followed

\* A run that moves on without passing a check keeps what it had.
LEMMA FollowedMoves ==
  ASSUME NEW table, NEW s, NEW next, Followed(table, s),
         next.job = s.job, next.day = s.day, next.need = s.need,
         next.pc \in {"asked", "checking"} => s.pc \in {"asked", "checking"},
         next.pc \in Past => s.pc \in Past
  PROVE  Followed(table, next)
<1>1. \A n : Met(table, s, n) => Met(table, next, n)
  BY DEF Met
<1>2. Ahead(table, s) => Ahead(table, next)
  BY <1>1 DEF Ahead
<1> QED
  BY <1>1, <1>2 DEF Followed

LEMMA FollowedIdle == \A table : Followed(table, Idle)
BY DEF Followed, Idle, Stage, Past, Claimed

\* A step that records no success in memory: what a run that ends leaves
\* behind is all there is to show.
LEMMA VouchedStep ==
  ASSUME DInv, [Next]_vars, day' >= day, day' \in Nat,
         \A d \in Jobs : job'[d].result = "ok" => job[d].result = "ok" /\ job'[d].day = job[d].day,
         \A u \in Threads : thread'[u].pc \in Ending =>
           /\ thread[u].pc \in Ending /\ thread'[u].job = thread[u].job
           /\ thread'[u].ok = thread[u].ok /\ thread'[u].day = thread[u].day,
         \A u \in Threads : thread[u].pc \in Ending =>
           \/ thread'[u].pc \in Ending /\ thread'[u].job = thread[u].job
           \/ job'[thread[u].job].result = "ok" =>
                Success(rows', thread[u].job, job'[thread[u].job].day)
  PROVE  Vouched'
<1>1. /\ Shape /\ Tickets /\ Vouched
      /\ \A u \in Threads : thread[u].pc \in Ending => thread[u].job \in Jobs
  BY DEF DInv, IInv, Tickets, Ending
<1>2. ASSUME NEW d \in Jobs, job'[d].result = "ok",
             \A u \in Threads : thread'[u].job = d => thread'[u].pc \notin Ending
      PROVE  Success(rows', d, job'[d].day)
  <2>1. CASE \A u \in Threads : thread[u].job = d => thread[u].pc \notin Ending
    <3>1. Success(rows, d, job[d].day) /\ job'[d].day = job[d].day
      BY <1>1, <1>2, <2>1 DEF Vouched
    <3>2. IInv
      BY DEF DInv
    <3> QED
      BY <3>1, <3>2, SuccessesStay
  <2>2. CASE \E u \in Threads : thread[u].job = d /\ thread[u].pc \in Ending
    BY <1>2, <2>2
  <2> QED
    BY <2>1, <2>2
<1>3. ASSUME NEW u \in Threads, thread'[u].pc \in Ending, job'[thread'[u].job].result = "ok"
      PROVE  /\ thread'[u].ok
             /\ thread'[u].day <= job'[thread'[u].job].day
             /\ job'[thread'[u].job].day <= day'
  <2>1. /\ thread[u].pc \in Ending /\ thread'[u].job = thread[u].job /\ thread[u].job \in Jobs
        /\ thread'[u].ok = thread[u].ok /\ thread'[u].day = thread[u].day
    BY <1>1, <1>3
  <2>2. job[thread[u].job].result = "ok" /\ job'[thread[u].job].day = job[thread[u].job].day
    BY <1>3, <2>1
  <2>3. job[thread[u].job].day \in Nat /\ day \in Nat
    BY <1>1, <2>1 DEF Shape, RegisteredJob
  <2> QED
    BY <1>1, <2>1, <2>2, <2>3 DEF Vouched
<1> QED
  BY <1>2, <1>3 DEF Vouched

-----------------------------------------------------------------------------
\* What a step of one thread, other than its ending a run, has to show.
LEMMA RunStep ==
  ASSUME DInv, [Next]_vars, NEW t \in Threads, NEW next,
         thread' = [thread EXCEPT ![t] = next],
         day' = day,
         next.pc \in Ending =>
           /\ thread[t].pc \in Ending /\ next.job = thread[t].job
           /\ next.ok = thread[t].ok /\ next.day = thread[t].day,
         thread[t].pc \in Ending => next.pc \in Ending,
         \A d \in Jobs : job'[d].result = "ok" => job[d].result = "ok" /\ job'[d].day = job[d].day,
         Followed(rows', next),
         Spans'
  PROVE  DInv'
<1>1. IInv /\ IInv' /\ Shape /\ day \in Nat
  BY NextInv DEF DInv, IInv, Shape
<1>2. \A u \in Threads : thread'[u] = IF u = t THEN next ELSE thread[u]
  BY <1>1 DEF Shape
<1>3. \A u \in Threads : Followed(rows', thread'[u])
  BY <1>1, <1>2, FollowedStays DEF DInv
<1>4. Vouched'
  BY <1>1, <1>2, VouchedStep
<1> QED
  BY <1>1, <1>3, <1>4 DEF DInv

\* Claiming or releasing a job leaves its last result.
LEMMA KeptResults ==
  ASSUME IInv, NEW j \in Jobs, NEW running \in BOOLEAN,
         job' = job \/ job' = [job EXCEPT ![j].running = running]
  PROVE  \A d \in Jobs : job'[d].result = job[d].result /\ job'[d].day = job[d].day
<1> DEFINE record == [job[j] EXCEPT !.running = running]
<1>1. Shape /\ job[j] \in RegisteredJob
  BY DEF IInv, Shape
<1>2. record.result = job[j].result /\ record.day = job[j].day
  BY <1>1 DEF RegisteredJob
<1>3. job' = job \/ job' = [job EXCEPT ![j] = record]
  OBVIOUS
<1> HIDE DEF record
<1> QED
  BY <1>1, <1>2, <1>3 DEF Shape

LEMMA KeptSpans == ASSUME DInv, rows' = rows PROVE Spans'
BY DEF DInv, Spans

\* wrapAndRun and RunJob: everything is still to be checked.
LEMMA StartDependencies ==
  ASSUME DInv, [Next]_vars, NEW t \in Threads, NEW j \in Jobs, Fire(t, j) \/ Ask(t, j)
  PROVE  DInv'
<1>1. PICK pc \in {"asked", "checking"}, manual \in BOOLEAN :
        thread' = [thread EXCEPT ![t] = Stage(pc, j, manual, started + 1, day, DependsOn[j], 0, FALSE)]
  BY DEF Fire, Ask
<1> DEFINE next == Stage(pc, j, manual, started + 1, day, DependsOn[j], 0, FALSE)
<1>2. next.pc = pc /\ next.job = j /\ next.need = DependsOn[j]
  BY DEF Stage
<1> HIDE DEF next
<1>3. Ahead(rows', next)
  <2>1. DependsOn[j] \in Seq(Jobs) /\ Len(DependsOn[j]) \in Nat
    BY OrchestratorConstants
  <2>2. /\ Len(DependsOn[next.job]) = 0 + Len(next.need)
        /\ \A k \in 1..Len(next.need) : next.need[k] = DependsOn[next.job][0 + k]
        /\ Met(rows', next, 0)
    BY <1>2, <2>1 DEF Met
  <2> QED
    BY <2>2 DEF Ahead
<1>4. Followed(rows', next)
  BY <1>2, <1>3 DEF Followed, Past, Claimed
<1>5. /\ rows' = rows /\ day' = day /\ thread[t].pc = "idle"
      /\ thread' = [thread EXCEPT ![t] = next]
  BY <1>1 DEF Fire, Ask, next
<1>6. \A d \in Jobs : job'[d].result = job[d].result /\ job'[d].day = job[d].day
  BY KeptResults DEF Fire, Ask, DInv
<1> QED
  BY <1>2, <1>4, <1>5, <1>6, RunStep, KeptSpans DEF Ending

LEMMA ClaimDependencies ==
  ASSUME DInv, [Next]_vars, NEW t \in Threads, Claim(t)
  PROVE  DInv'
<1> DEFINE s == thread[t]
<1>1. /\ IInv /\ s \in Run /\ s.pc = "asked" /\ s.job \in Jobs /\ Followed(rows, s)
      /\ rows' = rows /\ day' = day
  BY DEF DInv, IInv, Shape, Tickets, Claim
<1>2. \A d \in Jobs : job'[d].result = job[d].result /\ job'[d].day = job[d].day
  BY <1>1, KeptResults DEF Claim
<1>3. CASE thread' = [thread EXCEPT ![t] = [s EXCEPT !.pc = "checking"]]
  <2> DEFINE next == [s EXCEPT !.pc = "checking"]
  <2>1. next.pc = "checking" /\ next.job = s.job /\ next.day = s.day /\ next.need = s.need
    BY <1>1 DEF Run
  <2>2. Followed(rows', next)
    BY <1>1, <2>1, FollowedMoves DEF Past, Claimed
  <2> HIDE DEF next
  <2>3. thread' = [thread EXCEPT ![t] = next]
    BY <1>3 DEF next
  <2> QED
    BY <1>1, <1>2, <2>1, <2>2, <2>3, RunStep, KeptSpans DEF Ending
<1>4. CASE thread' = [thread EXCEPT ![t] = Idle]
  BY <1>1, <1>2, <1>4, IdleRun, FollowedIdle, RunStep, KeptSpans DEF Ending
<1> QED
  BY <1>3, <1>4 DEF Claim

\* dependencyBlocker: a dependency that does not block is idle, so its success
\* in memory is recorded.
LEMMA CheckDependencies ==
  ASSUME DInv, [Next]_vars, NEW t \in Threads, CheckDependency(t)
  PROVE  DInv'
<1> DEFINE s == thread[t]
           dep == Head(s.need)
<1>1. /\ IInv /\ Shape /\ Vouched /\ s \in Run /\ s.pc = "checking" /\ s.job \in Jobs
      /\ Followed(rows, s) /\ rows' = rows /\ day' = day
  BY DEF DInv, IInv, Shape, Tickets, CheckDependency
<1>2. CASE Blocks(dep, s.day)
  <2> DEFINE next == [s EXCEPT !.pc = "skipping", !.need = <<>>, !.seen = job[s.job].failures]
  <2>1. next.pc = "skipping"
    BY <1>1 DEF Run
  <2>2. thread' = [thread EXCEPT ![t] = next]
    BY <1>1, <1>2 DEF CheckDependency
  <2>3. job' = [job EXCEPT ![s.job] =
                  Registered(job[s.job].enabled, job[s.job].failures, "skipped", s.day)]
    BY <1>2 DEF CheckDependency
  <2>4. \A d \in Jobs : job'[d].result = "ok" => job[d].result = "ok" /\ job'[d].day = job[d].day
    BY <1>1, <2>3 DEF Registered, Shape
  <2>5. Followed(rows', next)
    BY <2>1 DEF Followed, Past, Claimed
  <2> HIDE DEF next
  <2> QED
    BY <1>1, <2>1, <2>2, <2>4, <2>5, RunStep, KeptSpans DEF Ending
<1>3. CASE ~Blocks(dep, s.day)
  <2> DEFINE next == [s EXCEPT !.need = Tail(@)]
  <2>1. s.need \in Seq(Jobs) /\ s.need # <<>>
    BY <1>1 DEF Run, CheckDependency
  <2>2. /\ dep \in Jobs /\ dep = s.need[1] /\ Len(s.need) \in Nat \ {0}
        /\ Len(Tail(s.need)) = Len(s.need) - 1
        /\ \A k \in 1..Len(Tail(s.need)) : Tail(s.need)[k] = s.need[k + 1]
    BY <2>1
  <2>3. next.pc = "checking" /\ next.job = s.job /\ next.day = s.day /\ next.need = Tail(s.need)
    BY <1>1 DEF Run
  <2>4. Success(rows, dep, s.day)
    <3>1. ~job[dep].running /\ job[dep].day = s.day /\ job[dep].result = "ok"
      BY <1>3 DEF Blocks
    <3>2. \A u \in Threads : thread[u].job = dep => thread[u].pc \notin Ending
      BY <1>1, <2>2, <3>1 DEF IInv, Flags, Claimed, Ending
    <3> QED
      BY <1>1, <2>2, <3>1, <3>2 DEF Vouched
  <2>5. PICK n \in Nat : /\ Len(DependsOn[s.job]) = n + Len(s.need)
                         /\ \A k \in 1..Len(s.need) : s.need[k] = DependsOn[s.job][n + k]
                         /\ Met(rows, s, n)
    BY <1>1 DEF Followed, Ahead
  <2> HIDE DEF next
  <2>6. Ahead(rows, next)
    <3>1. DependsOn[s.job][n + 1] = dep
      BY <2>2, <2>5
    <3>2. Met(rows, next, n + 1)
      <4> SUFFICES ASSUME NEW k \in 1..(n + 1)
                   PROVE  Success(rows, DependsOn[next.job][k], next.day)
        BY DEF Met
      <4>1. CASE k = n + 1
        BY <4>1, <2>3, <2>4, <3>1
      <4>2. CASE k # n + 1
        <5>1. k \in 1..n
          BY <4>2
        <5> QED
          BY <5>1, <2>3, <2>5 DEF Met
      <4> QED
        BY <4>1, <4>2
    <3>3. Len(DependsOn[next.job]) = (n + 1) + Len(next.need)
      <4>1. \A a \in Nat \ {0} : n + a = (n + 1) + (a - 1)
        OBVIOUS
      <4>2. Len(DependsOn[next.job]) = n + Len(s.need) /\ Len(next.need) = Len(s.need) - 1
        BY <2>2, <2>3, <2>5
      <4>3. Len(s.need) \in Nat \ {0}
        BY <2>2
      <4> HIDE DEF s
      <4> QED
        BY <4>1, <4>2, <4>3
    <3>4. \A k \in 1..Len(next.need) : next.need[k] = DependsOn[next.job][(n + 1) + k]
      <4> SUFFICES ASSUME NEW k \in 1..Len(next.need)
                   PROVE  next.need[k] = DependsOn[next.job][(n + 1) + k]
        OBVIOUS
      <4>1. next.need[k] = s.need[k + 1] /\ k + 1 \in 1..Len(s.need)
        BY <2>2, <2>3
      <4>2. s.need[k + 1] = DependsOn[s.job][n + (k + 1)]
        BY <4>1, <2>5
      <4>3. n + (k + 1) = (n + 1) + k
        OBVIOUS
      <4> QED
        BY <4>1, <4>2, <4>3, <2>3
    <3> QED
      BY <3>2, <3>3, <3>4 DEF Ahead
  <2>7. Followed(rows', next)
    BY <1>1, <2>3, <2>6 DEF Followed, Past, Claimed
  <2>8. thread' = [thread EXCEPT ![t] = next] /\ job' = job
    BY <1>1, <1>3 DEF CheckDependency, next
  <2> QED
    BY <1>1, <2>3, <2>7, <2>8, RunStep, KeptSpans DEF Ending
<1> QED
  BY <1>2, <1>3

\* Nothing left to check: every dependency is met.
LEMMA SnapshotDependencies ==
  ASSUME DInv, [Next]_vars, NEW t \in Threads, SnapshotFailures(t)
  PROVE  DInv'
<1> DEFINE s == thread[t]
           pc == IF s.pc = "checking" THEN "beginning" ELSE "completing"
           next == [s EXCEPT !.pc = pc, !.seen = job[s.job].failures]
<1>1. /\ IInv /\ s \in Run /\ s.job \in Jobs /\ Followed(rows, s)
      /\ (s.pc = "checking" /\ s.need = <<>>) \/ s.pc = "finished"
      /\ job' = job /\ rows' = rows /\ day' = day
  BY DEF DInv, IInv, Shape, Tickets, SnapshotFailures
<1>2. /\ next.pc = pc /\ next.job = s.job /\ next.day = s.day /\ next.need = s.need
      /\ next.ok = s.ok
  BY <1>1 DEF Run
<1>3. thread' = [thread EXCEPT ![t] = next]
  BY <1>1 DEF SnapshotFailures
<1> HIDE DEF next
<1>4. Followed(rows, next)
  <2>1. CASE s.pc = "checking"
    <3>1. PICK n \in Nat : Len(DependsOn[s.job]) = n + Len(s.need) /\ Met(rows, s, n)
      BY <1>1, <2>1 DEF Followed, Ahead
    <3>2. Len(DependsOn[s.job]) = n
      BY <1>1, <2>1, <3>1
    <3>3. Met(rows, next, Len(DependsOn[next.job]))
      BY <1>2, <3>1, <3>2 DEF Met
    <3> QED
      BY <1>2, <2>1, <3>3 DEF Followed, Past, Claimed
  <2>2. CASE s.pc = "finished"
    BY <1>1, <1>2, <2>2, FollowedMoves DEF Past, Claimed
  <2> QED
    BY <1>1, <2>1, <2>2
<1> QED
  BY <1>1, <1>2, <1>3, <1>4, RunStep, KeptSpans DEF Ending

\* A run that could not be recorded leaves no success in memory.
LEMMA UnrecordedResults ==
  ASSUME IInv, NEW j \in Jobs, NEW running \in BOOLEAN, Unrecorded(j, running)
  PROVE  /\ job'[j].result = "failed"
         /\ \A d \in Jobs : job'[d].result = "ok" => job[d].result = "ok" /\ job'[d].day = job[d].day
<1> DEFINE counted == CountFailure(job[j])
           record == [[counted EXCEPT !.result = "failed"] EXCEPT !.running = running]
<1>1. Shape /\ job[j] \in RegisteredJob /\ counted \in RegisteredJob
  BY CountedFailure DEF IInv, Shape
<1>2. job' = [job EXCEPT ![j] = record]
  BY DEF Unrecorded, applyRunPersistenceFailure
<1> HIDE DEF counted
<1>3. record.result = "failed"
  BY <1>1 DEF RegisteredJob
<1> HIDE DEF record
<1> QED
  BY <1>1, <1>2, <1>3 DEF Shape

\* A row that is no success leaves every success as it was.
LEMMA OtherSpans ==
  ASSUME DInv, NEW n \in 1..MaxRuns, NEW row, row.status # "ok",
         rows' = rows \/ rows' = [rows EXCEPT ![n] = row]
  PROVE  Spans'
BY DEF DInv, IInv, Shape, Spans

LEMMA PersistSkipDependencies ==
  ASSUME DInv, [Next]_vars, NEW t \in Threads, NEW committed \in BOOLEAN, NEW replied \in BOOLEAN,
         PersistSkip(t, committed, replied)
  PROVE  DInv'
<1> DEFINE s == thread[t]
           row == Row(s.job, "skipped", s.seen, s.day, s.day)
<1>1. /\ IInv /\ s.job \in Jobs /\ s.pc = "skipping" /\ day' = day /\ s.at \in 1..MaxRuns
      /\ thread' = [thread EXCEPT ![t] = Idle] /\ job[s.job].running \in BOOLEAN
      /\ rows' = rows \/ rows' = [rows EXCEPT ![s.at] = row]
  <2>1. /\ s.pc = "skipping" /\ day' = day /\ thread' = [thread EXCEPT ![t] = Idle]
        /\ rows' = rows \/ rows' = [rows EXCEPT ![s.at] = row]
    BY DEF PersistSkip
  <2>2. IInv /\ s.job \in Jobs /\ s.at \in 1..MaxRuns
    BY <2>1, OrchestratorConstants DEF DInv, IInv, Shape, Tickets
  <2>3. job[s.job].running \in BOOLEAN
    BY <2>2 DEF IInv, Shape, RegisteredJob
  <2> QED
    BY <2>1, <2>2, <2>3
<1>2. row.status # "ok"
  BY DEF Row
<1>3. Spans'
  BY <1>1, <1>2, OtherSpans
<1>4. \A d \in Jobs : job'[d].result = "ok" => job[d].result = "ok" /\ job'[d].day = job[d].day
  BY <1>1, UnrecordedResults DEF PersistSkip
<1> QED
  BY <1>1, <1>3, <1>4, IdleRun, FollowedIdle, RunStep DEF Ending

LEMMA BeginRunDependencies ==
  ASSUME DInv, [Next]_vars, NEW t \in Threads, NEW committed \in BOOLEAN, NEW replied \in BOOLEAN,
         BeginRun(t, committed, replied)
  PROVE  DInv'
<1> DEFINE s == thread[t]
           row == Row(s.job, "running", s.seen, s.day, 0)
           next == [s EXCEPT !.pc = "executing"]
<1>1. /\ IInv /\ s \in Run /\ s.job \in Jobs /\ s.pc = "beginning" /\ day' = day /\ s.at \in 1..MaxRuns
      /\ Followed(rows, s)
      /\ rows' = rows \/ rows' = [rows EXCEPT ![s.at] = row]
      /\ \/ thread' = [thread EXCEPT ![t] = next] /\ job' = job
         \/ thread' = [thread EXCEPT ![t] = Idle] /\ Unrecorded(s.job, FALSE)
  <2>1. /\ s.pc = "beginning" /\ day' = day
        /\ rows' = rows \/ rows' = [rows EXCEPT ![s.at] = row]
    BY DEF BeginRun
  <2>2. \/ thread' = [thread EXCEPT ![t] = next] /\ job' = job
        \/ thread' = [thread EXCEPT ![t] = Idle] /\ Unrecorded(s.job, FALSE)
    BY DEF BeginRun
  <2>3. IInv /\ s \in Run /\ s.job \in Jobs /\ s.at \in 1..MaxRuns /\ Followed(rows, s)
    BY <2>1, OrchestratorConstants DEF DInv, IInv, Shape, Tickets
  <2> QED
    BY <2>1, <2>2, <2>3
<1>2. row.status # "ok"
  BY DEF Row
<1>3. Spans'
  BY <1>1, <1>2, OtherSpans
<1>4. next.pc = "executing" /\ next.job = s.job /\ next.day = s.day /\ next.need = s.need
  BY <1>1 DEF Run
<1>5. Followed(rows', next)
  BY <1>1, <1>4, FollowedStays, FollowedMoves DEF Past, Claimed
<1> HIDE DEF next
<1>6. CASE thread' = [thread EXCEPT ![t] = next] /\ job' = job
  BY <1>1, <1>3, <1>4, <1>5, <1>6, RunStep DEF Ending
<1>7. CASE thread' = [thread EXCEPT ![t] = Idle] /\ Unrecorded(s.job, FALSE)
  <2>1. \A d \in Jobs : job'[d].result = "ok" => job[d].result = "ok" /\ job'[d].day = job[d].day
    BY <1>1, <1>7, UnrecordedResults
  <2> QED
    BY <1>1, <1>3, <1>7, <2>1, IdleRun, FollowedIdle, RunStep DEF Ending
<1> QED
  BY <1>1, <1>6, <1>7

\* The job function returned: the success in memory is this run's to record.
LEMMA FinishDependencies ==
  ASSUME DInv, [Next]_vars, NEW t \in Threads, NEW ok \in BOOLEAN, Finish(t, ok)
  PROVE  DInv'
<1> DEFINE s == thread[t]
           last == IF s.manual THEN day ELSE s.day
           counted == CountFailure(job[s.job])
           record == IF ok THEN [job[s.job] EXCEPT !.failures = 0, !.result = "ok", !.day = last]
                     ELSE [counted EXCEPT !.result = "failed", !.day = last]
           next == [s EXCEPT !.pc = "finished", !.ok = ok]
<1>1. /\ s.pc = "executing" /\ rows' = rows /\ day' = day
      /\ thread' = [thread EXCEPT ![t] = next]
      /\ job' = [job EXCEPT ![s.job] = record]
  BY DEF Finish
<1>2. /\ IInv /\ Shape /\ Flags /\ Vouched /\ s \in Run /\ s.job \in Jobs /\ Followed(rows, s)
      /\ job[s.job] \in RegisteredJob /\ s.day <= day /\ IInv'
  BY <1>1, NextInv DEF DInv, IInv, Shape, Tickets
<1>3. /\ next.pc = "finished" /\ next.job = s.job /\ next.day = s.day /\ next.need = s.need
      /\ next.ok = ok
  BY <1>2 DEF Run
<1>4. s.day <= last /\ last <= day
  BY <1>2 DEF Shape, Run
<1>5. counted \in RegisteredJob
  BY <1>2, CountedFailure
<1> HIDE DEF last, counted, next
<1>6. IF ok THEN record.result = "ok" /\ record.day = last ELSE record.result = "failed"
  BY <1>2, <1>5 DEF RegisteredJob
<1> HIDE DEF record
<1>7. \A u \in Threads : thread'[u] = IF u = t THEN next ELSE thread[u]
  BY <1>1, <1>2 DEF Shape
<1>8. \A d \in Jobs : job'[d] = IF d = s.job THEN record ELSE job[d]
  BY <1>1, <1>2 DEF Shape
<1>9. \A u \in Threads : Followed(rows', thread'[u])
  <2>1. Followed(rows', next)
    BY <1>1, <1>2, <1>3, FollowedMoves DEF Past, Claimed
  <2> QED
    BY <1>1, <1>7, <2>1 DEF DInv
<1>10. \A u \in Threads : u # t /\ thread[u].pc \in Ending => thread[u].job \in Jobs \ {s.job}
  BY <1>1, <1>2 DEF IInv, Flags, Tickets, Claimed, Ending
<1>11. Vouched'
  <2>1. ASSUME NEW d \in Jobs, job'[d].result = "ok",
               \A u \in Threads : thread'[u].job = d => thread'[u].pc \notin Ending
        PROVE  Success(rows', d, job'[d].day)
    <3>1. d # s.job
      BY <2>1, <1>3, <1>7 DEF Ending
    <3>2. \A u \in Threads : thread[u].job = d => thread[u].pc \notin Ending
      BY <2>1, <3>1, <1>7
    <3> QED
      BY <1>1, <1>2, <1>8, <2>1, <3>1, <3>2 DEF Vouched
  <2>2. ASSUME NEW u \in Threads, thread'[u].pc \in Ending, job'[thread'[u].job].result = "ok"
        PROVE  /\ thread'[u].ok
               /\ thread'[u].day <= job'[thread'[u].job].day
               /\ job'[thread'[u].job].day <= day'
    <3>1. CASE u = t
      BY <1>1, <1>2, <1>3, <1>4, <1>6, <1>7, <1>8, <2>2, <3>1
    <3>2. CASE u # t
      BY <1>1, <1>2, <1>7, <1>8, <1>10, <2>2, <3>2 DEF Vouched
    <3> QED
      BY <3>1, <3>2
  <2> QED
    BY <2>1, <2>2 DEF Vouched
<1> QED
  BY <1>1, <1>2, <1>9, <1>11, KeptSpans DEF DInv

\* The outcome is written: a success that stays in memory is in its row, which
\* covers every day from the start of the run to its end.
LEMMA CompleteRunDependencies ==
  ASSUME DInv, [Next]_vars, NEW t \in Threads, NEW committed \in BOOLEAN, NEW replied \in BOOLEAN,
         CompleteRun(t, committed, replied)
  PROVE  DInv'
<1> DEFINE s == thread[t]
           row == Row(s.job, IF s.ok THEN "ok" ELSE "error", s.seen, rows[s.at].day, day)
<1>1. /\ s.pc = "completing" /\ day' = day /\ thread' = [thread EXCEPT ![t] = Idle]
      /\ replied => committed
  BY DEF CompleteRun, Statement
<1>2. /\ IInv /\ IInv' /\ Shape /\ Vouched /\ Spans /\ s \in Run /\ s.job \in Jobs
      /\ s.at \in 1..MaxRuns /\ s.day <= day /\ rows[s.at].day = s.day
  <2>1. IInv /\ IInv' /\ Vouched /\ Spans
    BY NextInv DEF DInv
  <2>2. Shape /\ Tickets /\ Recorded
    BY <2>1 DEF IInv
  <2>3. s \in Run /\ started \in 0..MaxRuns
    BY <2>2 DEF Shape
  <2>4. s.job \in Jobs /\ s.at \in 1..started /\ s.day <= day
    BY <1>1, <2>2 DEF Tickets
  <2>5. rows[s.at].day = s.day
    BY <1>1, <2>2 DEF Recorded
  <2>6. s.at \in 1..MaxRuns
    BY <2>3, <2>4, OrchestratorConstants
  <2> QED
    BY <2>1, <2>2, <2>3, <2>4, <2>5, <2>6
<1>3. rows' = IF committed THEN [rows EXCEPT ![s.at] = row] ELSE rows
  BY <1>2 DEF CompleteRun, Shape
<1>4. IF s.ok /\ ~replied THEN Unrecorded(s.job, FALSE) ELSE job' = [job EXCEPT ![s.job].running = FALSE]
  BY DEF CompleteRun
<1>5. /\ row.job = s.job /\ row.status = (IF s.ok THEN "ok" ELSE "error")
      /\ row.day = s.day /\ row.end = day
  BY <1>2 DEF Row
<1> HIDE DEF row
<1>6. \A n \in 1..MaxRuns : rows'[n] = IF committed /\ n = s.at THEN row ELSE rows[n]
  BY <1>2, <1>3 DEF Shape
<1>7. Spans'
  BY <1>2, <1>5, <1>6 DEF Spans
<1>8. \A u \in Threads : thread'[u] = IF u = t THEN Idle ELSE thread[u]
  BY <1>1, <1>2 DEF Shape
<1>9. \A u \in Threads : Followed(rows', thread'[u])
  BY <1>2, <1>8, FollowedStays, FollowedIdle DEF DInv
<1>10. \A d \in Jobs : job'[d].result = "ok" => job[d].result = "ok" /\ job'[d].day = job[d].day
  <2>1. CASE s.ok /\ ~replied
    BY <1>2, <1>4, <2>1, UnrecordedResults
  <2>2. CASE ~(s.ok /\ ~replied)
    BY <1>2, <1>4, <2>2, KeptResults
  <2> QED
    BY <2>1, <2>2
<1>11. job'[s.job].result = "ok" => Success(rows', s.job, job'[s.job].day)
  <2> SUFFICES ASSUME job'[s.job].result = "ok" PROVE Success(rows', s.job, job'[s.job].day)
    OBVIOUS
  <2>1. job[s.job].result = "ok" /\ job'[s.job].day = job[s.job].day
    BY <1>2, <1>10
  <2>2. s.ok /\ s.day <= job[s.job].day /\ job[s.job].day <= day
    BY <1>1, <1>2, <2>1 DEF Vouched, Ending
  <2>3. replied
    BY <1>2, <1>4, <2>2, UnrecordedResults
  <2> QED
    BY <1>1, <1>2, <1>5, <1>6, <2>1, <2>2, <2>3 DEF Success
<1>12. Vouched'
  <2>1. \A u \in Threads : thread'[u].pc \in Ending => thread'[u] = thread[u]
    BY <1>8, IdleRun DEF Ending
  <2>2. \A u \in Threads : thread[u].pc \in Ending =>
          \/ thread'[u].pc \in Ending /\ thread'[u].job = thread[u].job
          \/ job'[thread[u].job].result = "ok" =>
               Success(rows', thread[u].job, job'[thread[u].job].day)
    BY <1>8, <1>11
  <2>3. day' \in Nat /\ day' >= day
    BY <1>1, <1>2 DEF Shape
  <2> HIDE DEF s
  <2> QED
    BY <1>10, <2>1, <2>2, <2>3, VouchedStep
<1> QED
  BY <1>2, <1>7, <1>9, <1>12 DEF DInv

\* Operators and the calendar move no run and no row.
LEMMA StandingDependencies ==
  ASSUME DInv, [Next]_vars, thread' = thread, rows' = rows, day' \in Nat, day' >= day,
         \A d \in Jobs : job'[d].result = job[d].result /\ job'[d].day = job[d].day
  PROVE  DInv'
<1>1. IInv' /\ Vouched'
  BY NextInv, VouchedStep DEF DInv
<1> QED
  BY <1>1, KeptSpans DEF DInv

LEMMA SetEnabledDependencies ==
  ASSUME DInv, [Next]_vars, NEW j \in Jobs, NEW enabled \in BOOLEAN, NEW committed \in BOOLEAN,
         NEW replied \in BOOLEAN, SetEnabledBy(j, enabled, committed, replied)
  PROVE  DInv'
<1> DEFINE record == [job[j] EXCEPT !.enabled = enabled]
<1>1. Shape /\ job[j] \in RegisteredJob /\ day \in Nat
  BY DEF DInv, IInv, Shape
<1>2. record.result = job[j].result /\ record.day = job[j].day
  BY <1>1 DEF RegisteredJob
<1>3. /\ job' = job \/ job' = [job EXCEPT ![j] = record]
      /\ thread' = thread /\ rows' = rows /\ day' = day
  BY DEF SetEnabledBy
<1> HIDE DEF record
<1>4. \A d \in Jobs : job'[d].result = job[d].result /\ job'[d].day = job[d].day
  BY <1>1, <1>2, <1>3 DEF Shape
<1> QED
  BY <1>1, <1>3, <1>4, StandingDependencies

\* Closing the rows left running adds no success.
LEMMA RecoveredSuccesses ==
  \A n \in 1..MaxRuns : FailIncomplete[n].status = "ok" => FailIncomplete[n] = rows[n]
<1> SUFFICES ASSUME NEW n \in 1..MaxRuns, FailIncomplete[n].status = "ok"
             PROVE  FailIncomplete[n] = rows[n]
  OBVIOUS
<1>1. CASE rows[n].status # "running"
  BY <1>1 DEF FailIncomplete
<1>2. CASE rows[n].status = "running"
  BY <1>2 DEF FailIncomplete, Row
<1> QED
  BY <1>1, <1>2

\* A success that a restart reads back is the row it was read from.
LEMMA SummaryResults ==
  ASSUME IInv, Spans, NEW j \in Jobs, NEW lost \in BOOLEAN,
         Summary(j, lost, FailIncomplete).result = "ok"
  PROVE  Success(FailIncomplete, j, Summary(j, lost, FailIncomplete).day)
<1> DEFINE table == FailIncomplete
           present == {n \in 1..MaxRuns : table[n].job = j}
           latest == Max(present)
           row == table[latest]
<1>1. present # {} /\ ~lost
  BY DEF Summary, Fresh, Registered
<1>2. Summary(j, lost, table) = Registered(row.failures < Threshold, row.failures, row.status, row.day)
  BY <1>1 DEF Summary
<1>3. latest \in 1..MaxRuns /\ row.job = j
  BY <1>1, LatestStart
<1> HIDE DEF latest
<1>4. row.status = "ok" /\ Summary(j, lost, table).day = row.day
  BY <1>2 DEF Registered
<1>5. row = rows[latest]
  BY <1>3, <1>4, RecoveredSuccesses
<1>6. row.day \in Nat /\ row.day <= row.end
  BY <1>3, <1>4, <1>5 DEF Spans, IInv, Shape, JobRun
<1>7. row.day <= row.day
  BY <1>6
<1> HIDE DEF table
<1>8. Success(table, j, row.day)
  BY <1>3, <1>4, <1>6, <1>7 DEF Success
<1> QED
  BY <1>4, <1>8 DEF table

LEMMA RestartDependencies ==
  ASSUME DInv, [Next]_vars, NEW fate \in Fates, NEW lost \in SUBSET Jobs, Restart(fate, lost)
  PROVE  DInv'
<1> DEFINE hydrated(j) == IF fate \in {"unrecovered", "unsummarized"} THEN Fresh
                          ELSE Summary(j, j \in lost, FailIncomplete)
           enabled(j) == /\ fate = "hydrated"
                         /\ IF controls[j] # None THEN controls[j] ELSE hydrated(j).enabled
<1>1. IInv /\ IInv' /\ Spans
  BY NextInv DEF DInv
<1>2. /\ job' = [j \in Jobs |-> [hydrated(j) EXCEPT !.enabled = enabled(j)]]
      /\ thread' = [t \in Threads |-> Idle]
      /\ rows' \in IF fate = "unrecovered" THEN {rows, FailIncomplete} ELSE {FailIncomplete}
  BY DEF Restart
<1>3. \A j \in Jobs : hydrated(j).result = "ok" =>
        fate # "unrecovered" /\ Success(FailIncomplete, j, hydrated(j).day)
  <2> SUFFICES ASSUME NEW j \in Jobs, hydrated(j).result = "ok"
               PROVE  fate # "unrecovered" /\ Success(FailIncomplete, j, hydrated(j).day)
    OBVIOUS
  <2>1. Fresh.result # "ok"
    BY DEF Fresh, Registered
  <2>2. hydrated(j) = Summary(j, j \in lost, FailIncomplete) /\ fate # "unrecovered"
    BY <2>1
  <2>3. (j \in lost) \in BOOLEAN
    OBVIOUS
  <2> HIDE DEF hydrated
  <2> QED
    BY <1>1, <2>2, <2>3, SummaryResults
<1>4. \A j \in Jobs : hydrated(j) \in RegisteredJob
  <2>1. Fresh \in RegisteredJob
    BY DEF Fresh, Registered, RegisteredJob, Results
  <2>2. \A j \in Jobs : (j \in lost) \in BOOLEAN
    OBVIOUS
  <2> QED
    BY <1>1, <2>1, <2>2, SummaryJob, RecoveredRows
<1> HIDE DEF hydrated, enabled
<1>5. \A j \in Jobs : job'[j].result = hydrated(j).result /\ job'[j].day = hydrated(j).day
  BY <1>2, <1>4 DEF RegisteredJob
<1>6. Vouched'
  BY <1>2, <1>3, <1>5, IdleRun DEF Vouched, Ending
<1>7. \A u \in Threads : Followed(rows', thread'[u])
  BY <1>2, FollowedIdle
<1>8. Spans'
  <2>1. rows' = rows \/ rows' = FailIncomplete
    BY <1>2
  <2> QED
    BY <1>1, <2>1, RecoveredSuccesses DEF Spans
<1> QED
  BY <1>1, <1>6, <1>7, <1>8 DEF DInv

LEMMA NextDInv == DInv /\ [Next]_vars => DInv'
<1> SUFFICES ASSUME DInv, [Next]_vars PROVE DInv'
  OBVIOUS
<1>1. ASSUME NEW t \in Threads, Step(t) PROVE DInv'
  BY <1>1, ClaimDependencies, CheckDependencies, SnapshotDependencies, FinishDependencies,
     PersistSkipDependencies, BeginRunDependencies, CompleteRunDependencies DEF Step
<1>2. ASSUME NEW t \in Threads, NEW j \in Jobs, Fire(t, j) \/ Ask(t, j) PROVE DInv'
  BY <1>2, StartDependencies
<1>3. ASSUME NEW j \in Jobs, NEW enabled \in BOOLEAN, NEW committed \in BOOLEAN,
             NEW replied \in BOOLEAN, SetEnabledBy(j, enabled, committed, replied)
      PROVE  DInv'
  BY <1>3, SetEnabledDependencies
<1>4. ASSUME NEW fate \in Fates, NEW lost \in SUBSET Jobs, Restart(fate, lost) PROVE DInv'
  BY <1>4, RestartDependencies
<1>5. CASE NextDay \/ UNCHANGED vars
  <2>1. day \in Nat
    BY DEF DInv, IInv, Shape
  <2> QED
    BY <1>5, <2>1, StandingDependencies DEF NextDay, vars
<1> QED
  BY <1>1, <1>2, <1>3, <1>4, <1>5 DEF Next

\* A run past its dependency check has a success of every dependency in the
\* database that touches its day, for any dependency lists and through every
\* restart, lost reply and concurrent run.
THEOREM DependentsRunAfterSuccess == Spec => []DependentsFollowSuccess
<1>1. DInv => DependentsFollowSuccess
  <2> SUFFICES ASSUME DInv, NEW t \in Threads, thread[t].pc \in Claimed \ {"checking"},
                      NEW k \in DOMAIN DependsOn[thread[t].job]
               PROVE  Success(rows, DependsOn[thread[t].job][k], thread[t].day)
    BY DEF DependentsFollowSuccess, Success
  <2>1. thread[t].job \in Jobs
    BY DEF DInv, IInv, Tickets, Claimed
  <2>2. k \in 1..Len(DependsOn[thread[t].job])
    BY <2>1, OrchestratorConstants
  <2> QED
    BY <2>2 DEF DInv, Followed, Past, Met
<1> QED
  BY <1>1, InitDInv, NextDInv, PTL DEF Spec
=============================================================================

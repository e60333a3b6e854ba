-------------------------- MODULE SchedulerProofs --------------------------
(***************************************************************************)
(* The scheduler's safety properties for any number of ticks, triggers,    *)
(* signals and strategies and any capacity.                                *)
(*                                                                         *)
(* The two guards are counted separately: Keepers are the jobs that hold   *)
(* their strategy in the in-flight set, Slots the jobs that hold a slot of *)
(* the semaphore.  Every step leaves both sets alone, adds one job to one  *)
(* of them or takes one out, and the lemmas below say what that does to    *)
(* the in-flight set and to the count.                                     *)
(***************************************************************************)
EXTENDS Scheduler, FiniteSetTheorems, TLAPS

Keepers == Guarded \cup Admitted
Slots   == Holding \cup Admitted

InFlightExact ==
  /\ inFlight = {job[j].strategy : j \in Keepers}
  /\ \A i, j \in Keepers : job[i].strategy = job[j].strategy => i = j

TokensExact == tokens = Cardinality(Slots)

\* Only job j moves.
Moves(j) == \A i \in Jobs \ {j} : job'[i] = job[i]

LEMMA KeepSame ==
  ASSUME NEW j \in Jobs, Moves(j), InFlightExact, inFlight' = inFlight,
         j \in Keepers <=> j \in Keepers',
         j \in Keepers => job'[j].strategy = job[j].strategy
  PROVE  InFlightExact'
<1>1. Keepers' = Keepers
  BY DEF Moves, Keepers, Guarded, Admitted, Jobs
<1>2. \A i \in Keepers : job'[i].strategy = job[i].strategy
  BY DEF Moves, Keepers, Guarded, Admitted, Jobs
<1> QED BY <1>1, <1>2 DEF InFlightExact

LEMMA KeepAdd ==
  ASSUME NEW j \in Jobs, Moves(j), InFlightExact,
         inFlight' = inFlight \cup {job'[j].strategy}, job'[j].strategy \notin inFlight,
         j \notin Keepers, j \in Keepers'
  PROVE  InFlightExact'
<1>1. Keepers' = Keepers \cup {j}
  BY DEF Moves, Keepers, Guarded, Admitted, Jobs
<1>2. \A i \in Keepers : job'[i].strategy = job[i].strategy
  BY DEF Moves, Keepers, Guarded, Admitted, Jobs
<1> QED BY <1>1, <1>2 DEF InFlightExact

LEMMA KeepDrop ==
  ASSUME NEW j \in Jobs, Moves(j), InFlightExact,
         inFlight' = inFlight \ {job[j].strategy}, j \in Keepers, j \notin Keepers'
  PROVE  InFlightExact'
<1>1. Keepers' = Keepers \ {j}
  BY DEF Moves, Keepers, Guarded, Admitted, Jobs
<1>2. \A i \in Keepers \ {j} : job'[i].strategy = job[i].strategy
  BY DEF Moves, Keepers, Guarded, Admitted, Jobs
<1> QED BY <1>1, <1>2 DEF InFlightExact

LEMMA SlotsFinite == IsFiniteSet(Slots) /\ Cardinality(Slots) \in Nat
<1>1. Slots \subseteq Jobs
  BY DEF Slots, Holding, Admitted, Jobs
<1>2. IsFiniteSet(Jobs)
  BY JobsAssumption DEF Jobs
<1> QED BY <1>1, <1>2, FS_Subset, FS_CardinalityType

LEMMA SlotSame ==
  ASSUME NEW j \in Jobs, Moves(j), TokensExact, tokens' = tokens,
         j \in Slots <=> j \in Slots'
  PROVE  TokensExact'
<1>1. Slots' = Slots
  BY DEF Moves, Slots, Holding, Admitted, Jobs
<1> QED BY <1>1 DEF TokensExact

LEMMA SlotAdd ==
  ASSUME NEW j \in Jobs, Moves(j), TokensExact, tokens' = tokens + 1,
         j \notin Slots, j \in Slots'
  PROVE  TokensExact'
<1>1. Slots' = Slots \cup {j}
  BY DEF Moves, Slots, Holding, Admitted, Jobs
<1>2. Cardinality(Slots \cup {j}) = Cardinality(Slots) + 1
  BY SlotsFinite, FS_AddElement
<1> QED BY <1>1, <1>2 DEF TokensExact

LEMMA SlotDrop ==
  ASSUME NEW j \in Jobs, Moves(j), TokensExact, tokens' = tokens - 1,
         j \in Slots, j \notin Slots'
  PROVE  TokensExact'
<1>1. Slots' = Slots \ {j}
  BY DEF Moves, Slots, Holding, Admitted, Jobs
<1>2. Cardinality(Slots \ {j}) = Cardinality(Slots) - 1
  BY SlotsFinite, FS_RemoveElement
<1> QED BY <1>1, <1>2 DEF TokensExact

-----------------------------------------------------------------------------
(***************************************************************************)
(* The inductive invariant.  Beyond the properties themselves it says      *)
(* which places a tick or trigger and a signal can be in, and what is on   *)
(* record of a signal at each of them.                                     *)
(***************************************************************************)
Keeps(j, r) == \/ r.pc \in {"guarded", "waiting", "context", "capacity", "fetch",
                             "reset", "start", "running", "unguard"}
               \/ j \in Signals /\ r.pc = "outcome" /\ r.outcome = "admitted"

HoldsSlot(j, r) == \/ r.pc \in {"fetch", "reset", "start", "running"}
                   \/ j \in Signals /\ r.pc = "outcome" /\ r.outcome = "admitted"

Shape(j, r) ==
  /\ r.pc \notin {"idle", "done"} => r.strategy \in Strategies
  /\ j \in Signals => r.pc \notin {"guarded", "waiting"}
  /\ j \notin Signals => r.pc \notin {"queued", "request", "dedup", "context", "capacity",
                                     "outcome", "done"}

Lineage(r, rec) ==
  /\ r.pc = "idle" => rec = {}
  /\ r.pc \in {"queued", "request"} => rec = {"evaluated"}
  /\ r.pc \in {"dedup", "context", "capacity", "outcome"} => rec = {"evaluated", "requested"}
  /\ r.pc \in {"fetch", "reset", "start", "running", "unguard"} =>
       rec = {"evaluated", "requested", "admitted"}

Returned == phase \in {"stopped", "silenced", "closed"}

IInv ==
  /\ TypeOK
  /\ \A j \in Jobs : Shape(j, job[j])
  /\ InFlightExact
  /\ TokensExact
  /\ \A g \in Signals : Lineage(job[g], recorded[g])
  /\ PoolOutlivesTicks

LEMMA SetsByRecord ==
  ASSUME NEW j \in Jobs
  PROVE  /\ j \in Keepers <=> Keeps(j, job[j])
         /\ j \in Slots <=> HoldsSlot(j, job[j])
BY DEF Keepers, Slots, Guarded, Holding, Admitted, Keeps, HoldsSlot, Jobs

LEMMA SlotTaken ==
  ASSUME NEW j \in Slots, TokensExact
  PROVE  tokens >= 1
<1>1. Cardinality(Slots) # 0
  BY SlotsFinite, FS_EmptySet
<1> QED BY <1>1, SlotsFinite DEF TokensExact

\* One job moves to record n; what the guards have to do for it.
LEMMA Step ==
  ASSUME NEW j \in Jobs, NEW n \in Job, IInv,
         job' = [job EXCEPT ![j] = n],
         phase' = phase, kill' = kill, row' \in [Strategies -> Row],
         queue' \in Seq(Signals), handler' \in Signals \cup {None},
         recorded' \in [Signals -> SUBSET ({"evaluated", "requested"} \cup Outcomes)],
         \A g \in Signals \ {j} : recorded'[g] = recorded[g],
         Shape(j, n),
         j \in Signals => Lineage(n, recorded'[j]),
         j \in Ticks /\ Returned => n.pc = "idle",
         \/ /\ inFlight' = inFlight
            /\ Keeps(j, job[j]) <=> Keeps(j, n)
            /\ Keeps(j, n) => n.strategy = job[j].strategy
         \/ /\ inFlight' = inFlight \cup {n.strategy} /\ n.strategy \notin inFlight
            /\ ~ Keeps(j, job[j]) /\ Keeps(j, n)
         \/ /\ inFlight' = inFlight \ {job[j].strategy}
            /\ Keeps(j, job[j]) /\ ~ Keeps(j, n),
         \/ /\ tokens' = tokens
            /\ HoldsSlot(j, job[j]) <=> HoldsSlot(j, n)
         \/ /\ tokens' = tokens + 1 /\ tokens < Capacity
            /\ ~ HoldsSlot(j, job[j]) /\ HoldsSlot(j, n)
         \/ /\ tokens' = tokens - 1
            /\ HoldsSlot(j, job[j]) /\ ~ HoldsSlot(j, n)
  PROVE  IInv'
<1>1. job \in [Jobs -> Job]
  BY DEF IInv, TypeOK
<1>2. job' \in [Jobs -> Job] /\ job'[j] = n /\ Moves(j)
  BY <1>1 DEF Moves
<1>3. /\ j \in Keepers <=> Keeps(j, job[j])
      /\ j \in Slots <=> HoldsSlot(j, job[j])
  BY SetsByRecord
<1>4. /\ j \in Keepers' <=> Keeps(j, n)
      /\ j \in Slots' <=> HoldsSlot(j, n)
  BY <1>2 DEF Keepers, Slots, Guarded, Holding, Admitted, Keeps, HoldsSlot, Jobs
<1>5. InFlightExact /\ TokensExact
  BY DEF IInv
<1>6. InFlightExact'
  <2>1. CASE /\ inFlight' = inFlight
             /\ Keeps(j, job[j]) <=> Keeps(j, n)
             /\ Keeps(j, n) => n.strategy = job[j].strategy
    BY <2>1, <1>2, <1>3, <1>4, <1>5, KeepSame
  <2>2. CASE /\ inFlight' = inFlight \cup {n.strategy} /\ n.strategy \notin inFlight
             /\ ~ Keeps(j, job[j]) /\ Keeps(j, n)
    BY <2>2, <1>2, <1>3, <1>4, <1>5, KeepAdd
  <2>3. CASE /\ inFlight' = inFlight \ {job[j].strategy}
             /\ Keeps(j, job[j]) /\ ~ Keeps(j, n)
    BY <2>3, <1>2, <1>3, <1>4, <1>5, KeepDrop
  <2> QED BY <2>1, <2>2, <2>3
<1>7. TokensExact' /\ tokens' \in 0..Capacity
  <2>0. tokens \in 0..Capacity /\ Capacity \in Nat
    BY CapacityAssumption DEF IInv, TypeOK
  <2>1. CASE tokens' = tokens /\ (HoldsSlot(j, job[j]) <=> HoldsSlot(j, n))
    BY <2>0, <2>1, <1>2, <1>3, <1>4, <1>5, SlotSame
  <2>2. CASE /\ tokens' = tokens + 1 /\ tokens < Capacity
             /\ ~ HoldsSlot(j, job[j]) /\ HoldsSlot(j, n)
    BY <2>0, <2>2, <1>2, <1>3, <1>4, <1>5, SlotAdd
  <2>3. CASE tokens' = tokens - 1 /\ HoldsSlot(j, job[j]) /\ ~ HoldsSlot(j, n)
    <3>1. tokens >= 1
      BY <2>3, <1>3, <1>5, SlotTaken
    <3> QED BY <3>1, <2>0, <2>3, <1>2, <1>3, <1>4, <1>5, SlotDrop
  <2> QED BY <2>1, <2>2, <2>3
<1>8. inFlight' \subseteq Strategies
  <2>1. Keeps(j, n) => n.strategy \in Strategies
    BY DEF Shape, Keeps
  <2> QED BY <2>1 DEF IInv, TypeOK
<1>9. TypeOK'
  BY <1>2, <1>7, <1>8 DEF IInv, TypeOK
<1>10. \A i \in Jobs : Shape(i, job[i])'
  <2>1. \A i \in Jobs : Shape(i, job'[i])
    BY <1>2 DEF Moves, IInv
  <2> QED BY <2>1 DEF Shape
<1>11. \A g \in Signals : Lineage(job[g], recorded[g])'
  <2>1. \A g \in Signals : Lineage(job'[g], recorded'[g])
    BY <1>2 DEF Moves, IInv, Jobs
  <2> QED BY <2>1 DEF Lineage
<1>12. PoolOutlivesTicks'
  BY <1>2 DEF Moves, IInv, PoolOutlivesTicks, Returned, Jobs
<1> QED BY <1>6, <1>7, <1>9, <1>10, <1>11, <1>12 DEF IInv

-----------------------------------------------------------------------------
(***************************************************************************)
(* One lemma per action: the record the job moves to, and which of the     *)
(* cases of Step the action is.                                            *)
(***************************************************************************)
Frame == /\ row \in [Strategies -> Row]
         /\ queue \in Seq(Signals)
         /\ handler \in Signals \cup {None}
         /\ recorded \in [Signals -> SUBSET ({"evaluated", "requested"} \cup Outcomes)]

LEMMA Known ==
  ASSUME IInv, NEW j \in Jobs
  PROVE  /\ job \in [Jobs -> Job] /\ job[j] \in Job
         /\ Frame
         /\ Shape(j, job[j])
         /\ j \in Signals => Lineage(job[j], recorded[j])
         /\ j \in Ticks /\ Returned => job[j].pc = "idle"
         /\ j \in Ticks \cup Triggers => j \notin Signals
BY JobsAssumption DEF IInv, TypeOK, Frame, PoolOutlivesTicks, Returned, Jobs

LEMMA BeginInv ==
  ASSUME IInv, NEW j \in Ticks \cup Triggers, NEW s \in Strategies, Begin(j, s)
  PROVE  IInv'
<1>1. j \in Jobs
  BY DEF Jobs
<1> DEFINE n == [job[j] EXCEPT !.pc = "guarded", !.strategy = s]
<1>2. /\ n \in Job
      /\ job' = [job EXCEPT ![j] = n]
      /\ job[j].pc = "idle" /\ n.pc = "guarded" /\ n.strategy = s
      /\ s \notin inFlight
      /\ j \in Ticks => ~ Returned
  BY <1>1, Known DEF Begin, Returned, Job, PC, Row, Outcomes
<1>3. /\ phase' = phase /\ kill' = kill
      /\ row' = row
      /\ queue' = queue
      /\ handler' = handler
      /\ recorded' = recorded
      /\ inFlight' = inFlight \cup {s} /\ tokens' = tokens
  BY <1>1, Known DEF Begin, Returned, Frame, outside, signalling, admission, Outcomes
<1> HIDE DEF n
<1>4. /\ Shape(j, n)
      /\ j \in Signals => Lineage(n, recorded'[j])
      /\ j \in Ticks /\ Returned => n.pc = "idle"
  BY <1>1, <1>2, <1>3, Known DEF Shape, Lineage, Returned, Frame
<1>5. /\ ~ Keeps(j, job[j]) /\ Keeps(j, n)
      /\ HoldsSlot(j, job[j]) <=> HoldsSlot(j, n)
  BY <1>1, <1>2, <1>3, Known DEF Keeps, HoldsSlot, Shape
<1> QED BY <1>1, <1>2, <1>3, <1>4, <1>5, Step, Known DEF Frame

LEMMA ReadContextInv ==
  ASSUME IInv, NEW j \in Ticks \cup Triggers, ReadContext(j)
  PROVE  IInv'
<1>1. j \in Jobs
  BY DEF Jobs
<1>2. CASE /\ \E ctx \in {schedulerContext} \cup {c \in {"run"} : phase = "cleared"} :
                 job' = [job EXCEPT ![j].pc = "waiting", ![j].ctx = ctx]
            /\ UNCHANGED inFlight
  <2>0. PICK c \in {"run", "background"} :
          job' = [job EXCEPT ![j].pc = "waiting", ![j].ctx = c]
    BY <1>2 DEF schedulerContext
  <2> DEFINE n == [job[j] EXCEPT !.pc = "waiting", !.ctx = c]
  <2>1. /\ n \in Job
        /\ job' = [job EXCEPT ![j] = n]
        /\ job[j].pc = "guarded" /\ n.pc = "waiting"
        /\ n.strategy = job[j].strategy
    BY <1>1, <2>0, Known DEF ReadContext, Job, PC
  <2>2. /\ phase' = phase /\ kill' = kill
        /\ row' = row
        /\ queue' = queue
        /\ handler' = handler
        /\ recorded' = recorded
        /\ inFlight' = inFlight /\ tokens' = tokens
    BY <1>1, <1>2, Known DEF ReadContext, schedulerContext, Idle, Frame, outside, signalling, admission, Outcomes
  <2> HIDE DEF n
  <2>3. /\ Shape(j, n)
        /\ j \in Signals => Lineage(n, recorded'[j])
        /\ j \in Ticks /\ Returned => n.pc = "idle"
    BY <1>1, <2>1, <2>2, Known DEF Shape, Lineage, Returned, Frame
  <2>4. /\ Keeps(j, job[j]) <=> Keeps(j, n)
        /\ n.strategy = job[j].strategy
        /\ HoldsSlot(j, job[j]) <=> HoldsSlot(j, n)
    BY <1>1, <2>1, <2>2, Known DEF Keeps, HoldsSlot, Shape
  <2> QED BY <1>1, <2>1, <2>2, <2>3, <2>4, Step, Known DEF Frame
<1>3. CASE /\ job' = [job EXCEPT ![j] = Idle]
            /\ inFlight' = inFlight \ {job[j].strategy}
  <2> DEFINE n == Idle
  <2>1. /\ n \in Job
        /\ job' = [job EXCEPT ![j] = n]
        /\ job[j].pc = "guarded" /\ n.pc = "idle"
    BY <1>1, <1>3, Known DEF ReadContext, schedulerContext, Idle, Job, PC, Row, Outcomes
  <2>2. /\ phase' = phase /\ kill' = kill
        /\ row' = row
        /\ queue' = queue
        /\ handler' = handler
        /\ recorded' = recorded
        /\ inFlight' = inFlight \ {job[j].strategy} /\ tokens' = tokens
    BY <1>1, <1>3, Known DEF ReadContext, schedulerContext, Idle, Frame, outside, signalling, admission, Outcomes
  <2> HIDE DEF n
  <2>3. /\ Shape(j, n)
        /\ j \in Signals => Lineage(n, recorded'[j])
        /\ j \in Ticks /\ Returned => n.pc = "idle"
    BY <1>1, <2>1, <2>2, Known DEF Shape, Lineage, Returned, Frame
  <2>4. /\ Keeps(j, job[j]) /\ ~ Keeps(j, n)
        /\ HoldsSlot(j, job[j]) <=> HoldsSlot(j, n)
    BY <1>1, <2>1, <2>2, Known DEF Keeps, HoldsSlot, Shape
  <2> QED BY <1>1, <2>1, <2>2, <2>3, <2>4, Step, Known DEF Frame
<1> QED BY <1>2, <1>3, <1>1, Known DEF ReadContext, schedulerContext, Idle

LEMMA AdmitInv ==
  ASSUME IInv, NEW j \in Ticks \cup Triggers, Admit(j)
  PROVE  IInv'
<1>1. j \in Jobs
  BY DEF Jobs
<1> DEFINE n == [job[j] EXCEPT !.pc = "fetch"]
<1>2. /\ n \in Job
      /\ job' = [job EXCEPT ![j] = n]
      /\ job[j].pc = "waiting" /\ n.pc = "fetch"
      /\ n.strategy = job[j].strategy
  BY <1>1, Known DEF Admit, Goto, Job, PC, Row, Outcomes
<1>3. /\ phase' = phase /\ kill' = kill
      /\ row' = row
      /\ queue' = queue
      /\ handler' = handler
      /\ recorded' = recorded
      /\ inFlight' = inFlight
      /\ tokens' = tokens + 1 /\ tokens < Capacity
  BY <1>1, Known DEF Admit, Goto, Frame, outside, signalling, admission, Outcomes
<1> HIDE DEF n
<1>4. /\ Shape(j, n)
      /\ j \in Signals => Lineage(n, recorded'[j])
      /\ j \in Ticks /\ Returned => n.pc = "idle"
  BY <1>1, <1>2, <1>3, Known DEF Shape, Lineage, Returned, Frame
<1>5. /\ Keeps(j, job[j]) <=> Keeps(j, n)
      /\ n.strategy = job[j].strategy
      /\ ~ HoldsSlot(j, job[j]) /\ HoldsSlot(j, n)
  BY <1>1, <1>2, <1>3, Known DEF Keeps, HoldsSlot, Shape
<1> QED BY <1>1, <1>2, <1>3, <1>4, <1>5, Step, Known DEF Frame

LEMMA GiveUpInv ==
  ASSUME IInv, NEW j \in Ticks \cup Triggers, GiveUp(j)
  PROVE  IInv'
<1>1. j \in Jobs
  BY DEF Jobs
<1> DEFINE n == Idle
<1>2. /\ n \in Job
      /\ job' = [job EXCEPT ![j] = n]
      /\ job[j].pc = "waiting" /\ n.pc = "idle"
  BY <1>1, Known DEF GiveUp, Idle, Job, PC, Row, Outcomes
<1>3. /\ phase' = phase /\ kill' = kill
      /\ row' = row
      /\ queue' = queue
      /\ handler' = handler
      /\ recorded' = recorded
      /\ inFlight' = inFlight \ {job[j].strategy} /\ tokens' = tokens
  BY <1>1, Known DEF GiveUp, Idle, Frame, outside, signalling, admission, Outcomes
<1> HIDE DEF n
<1>4. /\ Shape(j, n)
      /\ j \in Signals => Lineage(n, recorded'[j])
      /\ j \in Ticks /\ Returned => n.pc = "idle"
  BY <1>1, <1>2, <1>3, Known DEF Shape, Lineage, Returned, Frame
<1>5. /\ Keeps(j, job[j]) /\ ~ Keeps(j, n)
      /\ HoldsSlot(j, job[j]) <=> HoldsSlot(j, n)
  BY <1>1, <1>2, <1>3, Known DEF Keeps, HoldsSlot, Shape
<1> QED BY <1>1, <1>2, <1>3, <1>4, <1>5, Step, Known DEF Frame

LEMMA ProcessInv ==
  ASSUME IInv, NEW g \in Signals, NEW s \in Strategies, Process(g, s)
  PROVE  IInv'
<1>1. g \in Jobs
  BY DEF Jobs
<1> DEFINE n == [job[g] EXCEPT !.pc = "queued", !.strategy = s]
<1>2. /\ n \in Job
      /\ job' = [job EXCEPT ![g] = n]
      /\ job[g].pc = "idle" /\ n.pc = "queued" /\ n.strategy = s
  BY <1>1, Known DEF Process, Job, PC, Row, Outcomes
<1>3. /\ phase' = phase /\ kill' = kill
      /\ row' = row
      /\ handler' = handler
      /\ queue' \in Seq(Signals)
      /\ recorded' = [recorded EXCEPT ![g] = @ \cup {"evaluated"}]
      /\ recorded' \in [Signals -> SUBSET ({"evaluated", "requested"} \cup Outcomes)]
      /\ recorded'[g] = recorded[g] \cup {"evaluated"}
      /\ inFlight' = inFlight /\ tokens' = tokens
  BY <1>1, Known DEF Process, Frame, outside, signalling, admission, Outcomes
<1> HIDE DEF n
<1>4. /\ Shape(g, n)
      /\ g \in Signals => Lineage(n, recorded'[g])
      /\ g \in Ticks /\ Returned => n.pc = "idle"
  BY <1>1, <1>2, <1>3, Known DEF Shape, Lineage, Returned, Frame
<1>5. /\ ~ Keeps(g, job[g]) /\ ~ Keeps(g, n)
      /\ HoldsSlot(g, job[g]) <=> HoldsSlot(g, n)
  BY <1>1, <1>2, <1>3, Known DEF Keeps, HoldsSlot, Shape
<1> QED BY <1>1, <1>2, <1>3, <1>4, <1>5, Step, Known DEF Frame

LEMMA TakeInv ==
  ASSUME IInv, NEW g \in Signals, Take(g)
  PROVE  IInv'
<1>1. g \in Jobs
  BY DEF Jobs
<1> DEFINE n == [job[g] EXCEPT !.pc = "request"]
<1>2. /\ n \in Job
      /\ job' = [job EXCEPT ![g] = n]
      /\ job[g].pc = "queued" /\ n.pc = "request"
      /\ n.strategy = job[g].strategy
  BY <1>1, Known DEF Take, Goto, Job, PC, Row, Outcomes
<1>3. /\ phase' = phase /\ kill' = kill
      /\ row' = row
      /\ recorded' = recorded
      /\ queue' \in Seq(Signals)
      /\ handler' = g
      /\ inFlight' = inFlight /\ tokens' = tokens
  BY <1>1, Known DEF Take, Goto, Frame, outside, signalling, admission, Outcomes
<1> HIDE DEF n
<1>4. /\ Shape(g, n)
      /\ g \in Signals => Lineage(n, recorded'[g])
      /\ g \in Ticks /\ Returned => n.pc = "idle"
  BY <1>1, <1>2, <1>3, Known DEF Shape, Lineage, Returned, Frame
<1>5. /\ Keeps(g, job[g]) <=> Keeps(g, n)
      /\ n.strategy = job[g].strategy
      /\ HoldsSlot(g, job[g]) <=> HoldsSlot(g, n)
  BY <1>1, <1>2, <1>3, Known DEF Keeps, HoldsSlot, Shape
<1> QED BY <1>1, <1>2, <1>3, <1>4, <1>5, Step, Known DEF Frame

LEMMA RecordRequestInv ==
  ASSUME IInv, NEW g \in Signals, RecordRequest(g)
  PROVE  IInv'
<1>1. g \in Jobs
  BY DEF Jobs
<1>2. CASE /\ recorded' = [recorded EXCEPT ![g] = @ \cup {"requested"}]
            /\ Goto(g, "dedup")
            /\ UNCHANGED handler
  <2> DEFINE n == [job[g] EXCEPT !.pc = "dedup"]
  <2>1. /\ n \in Job
        /\ job' = [job EXCEPT ![g] = n]
        /\ job[g].pc = "request" /\ n.pc = "dedup"
        /\ n.strategy = job[g].strategy
    BY <1>1, <1>2, Known DEF RecordRequest, Goto, Ended, Idle, Job, PC, Row, Outcomes
  <2>2. /\ phase' = phase /\ kill' = kill
        /\ row' = row
        /\ queue' = queue
        /\ handler' = handler
        /\ recorded' \in [Signals -> SUBSET ({"evaluated", "requested"} \cup Outcomes)]
        /\ recorded'[g] = recorded[g] \cup {"requested"}
        /\ \A h \in Signals \ {g} : recorded'[h] = recorded[h]
        /\ inFlight' = inFlight /\ tokens' = tokens
    BY <1>1, <1>2, Known DEF RecordRequest, Goto, Ended, Idle, Frame, outside, signalling, admission, Outcomes
  <2> HIDE DEF n
  <2>3. /\ Shape(g, n)
        /\ g \in Signals => Lineage(n, recorded'[g])
        /\ g \in Ticks /\ Returned => n.pc = "idle"
    BY <1>1, <2>1, <2>2, Known DEF Shape, Lineage, Returned, Frame
  <2>4. /\ Keeps(g, job[g]) <=> Keeps(g, n)
        /\ n.strategy = job[g].strategy
        /\ HoldsSlot(g, job[g]) <=> HoldsSlot(g, n)
    BY <1>1, <2>1, <2>2, Known DEF Keeps, HoldsSlot, Shape
  <2> QED BY <1>1, <2>1, <2>2, <2>3, <2>4, Step, Known DEF Frame
<1>3. CASE /\ job' = [job EXCEPT ![g] = Ended(g)]
            /\ handler' = None
            /\ UNCHANGED recorded
  <2> DEFINE n == Ended(g)
  <2>1. /\ n \in Job
        /\ job' = [job EXCEPT ![g] = n]
        /\ job[g].pc = "request" /\ n.pc = "done"
    BY <1>1, <1>3, Known DEF RecordRequest, Goto, Ended, Idle, Job, PC, Row, Outcomes
  <2>2. /\ phase' = phase /\ kill' = kill
        /\ row' = row
        /\ queue' = queue
        /\ recorded' = recorded
        /\ handler' = None
        /\ inFlight' = inFlight /\ tokens' = tokens
    BY <1>1, <1>3, Known DEF RecordRequest, Goto, Ended, Idle, Frame, outside, signalling, admission, Outcomes
  <2> HIDE DEF n
  <2>3. /\ Shape(g, n)
        /\ g \in Signals => Lineage(n, recorded'[g])
        /\ g \in Ticks /\ Returned => n.pc = "idle"
    BY <1>1, <2>1, <2>2, Known DEF Shape, Lineage, Returned, Frame
  <2>4. /\ ~ Keeps(g, job[g]) /\ ~ Keeps(g, n)
        /\ HoldsSlot(g, job[g]) <=> HoldsSlot(g, n)
    BY <1>1, <2>1, <2>2, Known DEF Keeps, HoldsSlot, Shape
  <2> QED BY <1>1, <2>1, <2>2, <2>3, <2>4, Step, Known DEF Frame
<1> QED BY <1>2, <1>3, <1>1, Known DEF RecordRequest, Goto, Ended, Idle

LEMMA TryAcquireInv ==
  ASSUME IInv, NEW g \in Signals, TryAcquire(g)
  PROVE  IInv'
<1>1. g \in Jobs
  BY DEF Jobs
<1>2. CASE job[g].strategy \in inFlight
  <2> DEFINE n == [job[g] EXCEPT !.pc = "outcome", !.outcome = "deduplicated"]
  <2>1. /\ n \in Job
        /\ job' = [job EXCEPT ![g] = n]
        /\ job[g].pc = "dedup" /\ n.pc = "outcome"
        /\ n.strategy = job[g].strategy
        /\ n.outcome = "deduplicated"
    BY <1>1, <1>2, Known DEF TryAcquire, Resolve, Goto, Job, PC, Row, Outcomes
  <2>2. /\ phase' = phase /\ kill' = kill
        /\ row' = row
        /\ queue' = queue
        /\ handler' = handler
        /\ recorded' = recorded
        /\ inFlight' = inFlight /\ tokens' = tokens
    BY <1>1, <1>2, Known DEF TryAcquire, Resolve, Goto, Frame, outside, signalling, admission, Outcomes
  <2> HIDE DEF n
  <2>3. /\ Shape(g, n)
        /\ g \in Signals => Lineage(n, recorded'[g])
        /\ g \in Ticks /\ Returned => n.pc = "idle"
    BY <1>1, <2>1, <2>2, Known DEF Shape, Lineage, Returned, Frame
  <2>4. /\ Keeps(g, job[g]) <=> Keeps(g, n)
        /\ n.strategy = job[g].strategy
        /\ HoldsSlot(g, job[g]) <=> HoldsSlot(g, n)
    BY <1>1, <2>1, <2>2, Known DEF Keeps, HoldsSlot, Shape
  <2> QED BY <1>1, <2>1, <2>2, <2>3, <2>4, Step, Known DEF Frame
<1>3. CASE job[g].strategy \notin inFlight
  <2> DEFINE n == [job[g] EXCEPT !.pc = "context"]
  <2>1. /\ n \in Job
        /\ job' = [job EXCEPT ![g] = n]
        /\ job[g].pc = "dedup" /\ n.pc = "context"
        /\ job[g].strategy \notin inFlight
        /\ n.strategy = job[g].strategy
    BY <1>1, <1>3, Known DEF TryAcquire, Resolve, Goto, Job, PC, Row, Outcomes
  <2>2. /\ phase' = phase /\ kill' = kill
        /\ row' = row
        /\ queue' = queue
        /\ handler' = handler
        /\ recorded' = recorded
        /\ inFlight' = inFlight \cup {job[g].strategy} /\ tokens' = tokens
    BY <1>1, <1>3, Known DEF TryAcquire, Resolve, Goto, Frame, outside, signalling, admission, Outcomes
  <2> HIDE DEF n
  <2>3. /\ Shape(g, n)
        /\ g \in Signals => Lineage(n, recorded'[g])
        /\ g \in Ticks /\ Returned => n.pc = "idle"
    BY <1>1, <2>1, <2>2, Known DEF Shape, Lineage, Returned, Frame
  <2>4. /\ ~ Keeps(g, job[g]) /\ Keeps(g, n)
        /\ HoldsSlot(g, job[g]) <=> HoldsSlot(g, n)
    BY <1>1, <2>1, <2>2, Known DEF Keeps, HoldsSlot, Shape
  <2> QED BY <1>1, <2>1, <2>2, <2>3, <2>4, Step, Known DEF Frame
<1> QED BY <1>2, <1>3, <1>1, Known DEF TryAcquire, Resolve, Goto

LEMMA ReadSignalContextInv ==
  ASSUME IInv, NEW g \in Signals, ReadSignalContext(g)
  PROVE  IInv'
<1>1. g \in Jobs
  BY DEF Jobs
<1> DEFINE n == [job[g] EXCEPT !.pc = "capacity", !.ctx = schedulerContext]
<1>2. /\ n \in Job
      /\ job' = [job EXCEPT ![g] = n]
      /\ job[g].pc = "context" /\ n.pc = "capacity"
      /\ n.strategy = job[g].strategy
  BY <1>1, Known DEF ReadSignalContext, schedulerContext, Job, PC, Row, Outcomes
<1>3. /\ phase' = phase /\ kill' = kill
      /\ row' = row
      /\ queue' = queue
      /\ handler' = handler
      /\ recorded' = recorded
      /\ inFlight' = inFlight /\ tokens' = tokens
  BY <1>1, Known DEF ReadSignalContext, schedulerContext, Frame, outside, signalling, admission, Outcomes
<1> HIDE DEF n
<1>4. /\ Shape(g, n)
      /\ g \in Signals => Lineage(n, recorded'[g])
      /\ g \in Ticks /\ Returned => n.pc = "idle"
  BY <1>1, <1>2, <1>3, Known DEF Shape, Lineage, Returned, Frame
<1>5. /\ Keeps(g, job[g]) <=> Keeps(g, n)
      /\ n.strategy = job[g].strategy
      /\ HoldsSlot(g, job[g]) <=> HoldsSlot(g, n)
  BY <1>1, <1>2, <1>3, Known DEF Keeps, HoldsSlot, Shape
<1> QED BY <1>1, <1>2, <1>3, <1>4, <1>5, Step, Known DEF Frame

LEMMA TryCapacityInv ==
  ASSUME IInv, NEW g \in Signals, TryCapacity(g)
  PROVE  IInv'
<1>1. g \in Jobs
  BY DEF Jobs
<1>2. CASE ~ Done(job[g].ctx) /\ tokens < Capacity
  <2> DEFINE n == [job[g] EXCEPT !.pc = "outcome", !.outcome = "admitted"]
  <2>1. /\ n \in Job
        /\ job' = [job EXCEPT ![g] = n]
        /\ job[g].pc = "capacity" /\ n.pc = "outcome"
        /\ n.strategy = job[g].strategy
        /\ n.outcome = "admitted"
    BY <1>1, <1>2, Known DEF TryCapacity, Resolve, Job, PC, Row, Outcomes
  <2>2. /\ phase' = phase /\ kill' = kill
        /\ row' = row
        /\ queue' = queue
        /\ handler' = handler
        /\ recorded' = recorded
        /\ inFlight' = inFlight
        /\ tokens' = tokens + 1 /\ tokens < Capacity
    BY <1>1, <1>2, Known DEF TryCapacity, Resolve, Frame, outside, signalling, admission, Outcomes
  <2> HIDE DEF n
  <2>3. /\ Shape(g, n)
        /\ g \in Signals => Lineage(n, recorded'[g])
        /\ g \in Ticks /\ Returned => n.pc = "idle"
    BY <1>1, <2>1, <2>2, Known DEF Shape, Lineage, Returned, Frame
  <2>4. /\ Keeps(g, job[g]) <=> Keeps(g, n)
        /\ n.strategy = job[g].strategy
        /\ ~ HoldsSlot(g, job[g]) /\ HoldsSlot(g, n)
    BY <1>1, <2>1, <2>2, Known DEF Keeps, HoldsSlot, Shape
  <2> QED BY <1>1, <2>1, <2>2, <2>3, <2>4, Step, Known DEF Frame
<1>3. CASE ~ (~ Done(job[g].ctx) /\ tokens < Capacity)
  <2> DEFINE n == [job[g] EXCEPT !.pc = "outcome", !.outcome =
                   IF Done(job[g].ctx) THEN "scheduler_stopped" ELSE "capacity_dropped"]
  <2>1. /\ n \in Job
        /\ job' = [job EXCEPT ![g] = n]
        /\ job[g].pc = "capacity" /\ n.pc = "outcome"
        /\ n.strategy = job[g].strategy
        /\ n.outcome # "admitted"
    BY <1>1, <1>3, Known DEF TryCapacity, Resolve, Job, PC, Row, Outcomes
  <2>2. /\ phase' = phase /\ kill' = kill
        /\ row' = row
        /\ queue' = queue
        /\ handler' = handler
        /\ recorded' = recorded
        /\ inFlight' = inFlight \ {job[g].strategy} /\ tokens' = tokens
    BY <1>1, <1>3, Known DEF TryCapacity, Resolve, Frame, outside, signalling, admission, Outcomes
  <2> HIDE DEF n
  <2>3. /\ Shape(g, n)
        /\ g \in Signals => Lineage(n, recorded'[g])
        /\ g \in Ticks /\ Returned => n.pc = "idle"
    BY <1>1, <2>1, <2>2, Known DEF Shape, Lineage, Returned, Frame
  <2>4. /\ Keeps(g, job[g]) /\ ~ Keeps(g, n)
        /\ HoldsSlot(g, job[g]) <=> HoldsSlot(g, n)
    BY <1>1, <2>1, <2>2, Known DEF Keeps, HoldsSlot, Shape
  <2> QED BY <1>1, <2>1, <2>2, <2>3, <2>4, Step, Known DEF Frame
<1> QED BY <1>2, <1>3, <1>1, Known DEF TryCapacity, Resolve

LEMMA RecordOutcomeInv ==
  ASSUME IInv, NEW g \in Signals, RecordOutcome(g)
  PROVE  IInv'
<1>1. g \in Jobs
  BY DEF Jobs
<1>2. CASE /\ job[g].outcome = "admitted"
           /\ recorded' = [recorded EXCEPT ![g] = @ \cup {job[g].outcome}]
           /\ job' = [job EXCEPT ![g] = [@ EXCEPT !.pc = "fetch"]]
           /\ UNCHANGED admission
  <2> DEFINE n == [job[g] EXCEPT !.pc = "fetch"]
  <2>1. /\ n \in Job
        /\ job' = [job EXCEPT ![g] = n]
        /\ job[g].pc = "outcome" /\ n.pc = "fetch"
        /\ job[g].outcome = "admitted"
        /\ n.strategy = job[g].strategy
    BY <1>1, <1>2, Known DEF RecordOutcome, Ended, Idle, admission, Job, PC, Row, Outcomes
  <2>2. /\ phase' = phase /\ kill' = kill
        /\ row' = row
        /\ queue' = queue
        /\ handler' = None
        /\ recorded' \in [Signals -> SUBSET ({"evaluated", "requested"} \cup Outcomes)]
        /\ recorded'[g] = recorded[g] \cup {"admitted"}
        /\ \A h \in Signals \ {g} : recorded'[h] = recorded[h]
        /\ inFlight' = inFlight /\ tokens' = tokens
    BY <1>1, <1>2, Known DEF RecordOutcome, admission, outside, Frame, Outcomes
  <2> HIDE DEF n
  <2>3. /\ Shape(g, n)
        /\ g \in Signals => Lineage(n, recorded'[g])
        /\ g \in Ticks /\ Returned => n.pc = "idle"
    BY <1>1, <2>1, <2>2, Known DEF Shape, Lineage, Returned, Frame
  <2>4. /\ Keeps(g, job[g]) <=> Keeps(g, n)
        /\ n.strategy = job[g].strategy
        /\ HoldsSlot(g, job[g]) <=> HoldsSlot(g, n)
    BY <1>1, <2>1, <2>2, Known DEF Keeps, HoldsSlot, Shape
  <2> QED BY <1>1, <2>1, <2>2, <2>3, <2>4, Step, Known DEF Frame
<1>3. CASE /\ job[g].outcome # "admitted"
           /\ recorded' = [recorded EXCEPT ![g] = @ \cup {job[g].outcome}] \/ UNCHANGED recorded
           /\ job' = [job EXCEPT ![g] = Ended(g)]
           /\ UNCHANGED admission
  <2> DEFINE n == Ended(g)
  <2>1. /\ n \in Job
        /\ job' = [job EXCEPT ![g] = n]
        /\ job[g].pc = "outcome" /\ n.pc = "done"
        /\ job[g].outcome # "admitted"
    BY <1>1, <1>3, Known DEF RecordOutcome, Ended, Idle, admission, Job, PC, Row, Outcomes
  <2>2. /\ phase' = phase /\ kill' = kill
        /\ row' = row
        /\ queue' = queue
        /\ handler' = None
        /\ recorded' \in [Signals -> SUBSET ({"evaluated", "requested"} \cup Outcomes)]
        /\ \A h \in Signals \ {g} : recorded'[h] = recorded[h]
        /\ inFlight' = inFlight /\ tokens' = tokens
    <3>1. job[g].outcome \in Outcomes
      BY <1>1, Known DEF Job
    <3> QED BY <1>1, <1>3, <3>1, Known DEF RecordOutcome, admission, outside, Frame
  <2> HIDE DEF n
  <2>3. /\ Shape(g, n)
        /\ g \in Signals => Lineage(n, recorded'[g])
        /\ g \in Ticks /\ Returned => n.pc = "idle"
    BY <1>1, <2>1, <2>2, Known DEF Shape, Lineage, Returned, Frame
  <2>4. /\ ~ Keeps(g, job[g]) /\ ~ Keeps(g, n)
        /\ HoldsSlot(g, job[g]) <=> HoldsSlot(g, n)
    BY <1>1, <2>1, <2>2, Known DEF Keeps, HoldsSlot, Shape
  <2> QED BY <1>1, <2>1, <2>2, <2>3, <2>4, Step, Known DEF Frame
<1>4. CASE /\ job[g].outcome = "admitted"
           /\ tokens' = tokens - 1 /\ inFlight' = inFlight \ {job[g].strategy}
           /\ job' = [job EXCEPT ![g] = Ended(g)]
           /\ UNCHANGED recorded
  <2> DEFINE n == Ended(g)
  <2>1. /\ n \in Job
        /\ job' = [job EXCEPT ![g] = n]
        /\ job[g].pc = "outcome" /\ n.pc = "done"
        /\ job[g].outcome = "admitted"
    BY <1>1, <1>4, Known DEF RecordOutcome, Ended, Idle, admission, Job, PC, Row, Outcomes
  <2>2. /\ phase' = phase /\ kill' = kill
        /\ row' = row
        /\ queue' = queue
        /\ recorded' = recorded
        /\ handler' = None
        /\ inFlight' = inFlight \ {job[g].strategy} /\ tokens' = tokens - 1
    BY <1>1, <1>4, Known DEF RecordOutcome, admission, outside, Frame, Outcomes
  <2> HIDE DEF n
  <2>3. /\ Shape(g, n)
        /\ g \in Signals => Lineage(n, recorded'[g])
        /\ g \in Ticks /\ Returned => n.pc = "idle"
    BY <1>1, <2>1, <2>2, Known DEF Shape, Lineage, Returned, Frame
  <2>4. /\ Keeps(g, job[g]) /\ ~ Keeps(g, n)
        /\ HoldsSlot(g, job[g]) /\ ~ HoldsSlot(g, n)
    BY <1>1, <2>1, <2>2, Known DEF Keeps, HoldsSlot, Shape
  <2> QED BY <1>1, <2>1, <2>2, <2>3, <2>4, Step, Known DEF Frame
<1> QED BY <1>2, <1>3, <1>4, <1>1, Known DEF RecordOutcome, Ended, Idle, admission

LEMMA FetchInv ==
  ASSUME IInv, NEW j \in Jobs, Fetch(j)
  PROVE  IInv'
<1>1. j \in Jobs
  BY DEF Jobs
<1>2. CASE Release(j)
  <2> DEFINE n == [job[j] EXCEPT !.pc = "unguard"]
  <2>1. /\ n \in Job
        /\ job' = [job EXCEPT ![j] = n]
        /\ job[j].pc = "fetch" /\ n.pc = "unguard"
        /\ n.strategy = job[j].strategy
    BY <1>1, <1>2, Known DEF Fetch, Release, Goto, Job, PC
  <2>2. /\ phase' = phase /\ kill' = kill
        /\ row' = row
        /\ queue' = queue
        /\ handler' = handler
        /\ recorded' = recorded
        /\ inFlight' = inFlight /\ tokens' = tokens - 1
    BY <1>1, <1>2, Known DEF Fetch, Release, Goto, Shape, Frame, Frame, outside, signalling, admission, Outcomes
  <2> HIDE DEF n
  <2>3. /\ Shape(j, n)
        /\ j \in Signals => Lineage(n, recorded'[j])
        /\ j \in Ticks /\ Returned => n.pc = "idle"
    BY <1>1, <2>1, <2>2, Known DEF Shape, Lineage, Returned, Frame
  <2>4. /\ Keeps(j, job[j]) <=> Keeps(j, n)
        /\ n.strategy = job[j].strategy
        /\ HoldsSlot(j, job[j]) /\ ~ HoldsSlot(j, n)
    BY <1>1, <2>1, <2>2, Known DEF Keeps, HoldsSlot, Shape
  <2> QED BY <1>1, <2>1, <2>2, <2>3, <2>4, Step, Known DEF Frame
<1>3. CASE /\ job' = [job EXCEPT ![j].pc = IF row[job[j].strategy].skip THEN "reset" ELSE "start",
                                  ![j].row = row[job[j].strategy]]
            /\ UNCHANGED admission
  <2> DEFINE n == [job[j] EXCEPT !.pc = IF row[job[j].strategy].skip THEN "reset" ELSE "start",
                             !.row = row[job[j].strategy]]
  <2>1. /\ n \in Job
        /\ job' = [job EXCEPT ![j] = n]
        /\ job[j].pc = "fetch" /\ n.pc \in {"reset", "start"}
        /\ n.strategy = job[j].strategy
    <3>1. row[job[j].strategy] \in Row
      BY <1>1, Known DEF Fetch, Frame, Shape
    <3> QED BY <1>1, <1>3, <3>1, Known DEF Fetch, Job, PC
  <2>2. /\ phase' = phase /\ kill' = kill
        /\ row' = row
        /\ queue' = queue
        /\ handler' = handler
        /\ recorded' = recorded
        /\ inFlight' = inFlight /\ tokens' = tokens
    BY <1>1, <1>3, Known DEF Fetch, Release, Goto, Shape, Frame, Frame, outside, signalling, admission, Outcomes
  <2> HIDE DEF n
  <2>3. /\ Shape(j, n)
        /\ j \in Signals => Lineage(n, recorded'[j])
        /\ j \in Ticks /\ Returned => n.pc = "idle"
    BY <1>1, <2>1, <2>2, Known DEF Shape, Lineage, Returned, Frame
  <2>4. /\ Keeps(j, job[j]) <=> Keeps(j, n)
        /\ n.strategy = job[j].strategy
        /\ HoldsSlot(j, job[j]) <=> HoldsSlot(j, n)
    BY <1>1, <2>1, <2>2, Known DEF Keeps, HoldsSlot, Shape
  <2> QED BY <1>1, <2>1, <2>2, <2>3, <2>4, Step, Known DEF Frame
<1> QED BY <1>2, <1>3, <1>1, Known DEF Fetch, Release, Goto, Shape, Frame

LEMMA ResetSkipInv ==
  ASSUME IInv, NEW j \in Jobs, ResetSkip(j)
  PROVE  IInv'
<1>1. j \in Jobs
  BY DEF Jobs
<1> DEFINE n == [job[j] EXCEPT !.pc = "unguard"]
<1>2. /\ n \in Job
      /\ job' = [job EXCEPT ![j] = n]
      /\ job[j].pc = "reset" /\ n.pc = "unguard"
      /\ n.strategy = job[j].strategy
  BY <1>1, Known DEF ResetSkip, Release, Goto, Job, PC, Row, Outcomes
<1>3. /\ phase' = phase /\ kill' = kill
      /\ queue' = queue
      /\ handler' = handler
      /\ recorded' = recorded
      /\ row' \in [Strategies -> Row]
      /\ inFlight' = inFlight /\ tokens' = tokens - 1
  <2>1. [job[j].row EXCEPT !.skip = FALSE] \in Row
    BY <1>1, Known DEF Job, Row
  <2> QED BY <1>1, <2>1, Known DEF ResetSkip, Release, signalling, Frame
<1> HIDE DEF n
<1>4. /\ Shape(j, n)
      /\ j \in Signals => Lineage(n, recorded'[j])
      /\ j \in Ticks /\ Returned => n.pc = "idle"
  BY <1>1, <1>2, <1>3, Known DEF Shape, Lineage, Returned, Frame
<1>5. /\ Keeps(j, job[j]) <=> Keeps(j, n)
      /\ n.strategy = job[j].strategy
      /\ HoldsSlot(j, job[j]) /\ ~ HoldsSlot(j, n)
  BY <1>1, <1>2, <1>3, Known DEF Keeps, HoldsSlot, Shape
<1> QED BY <1>1, <1>2, <1>3, <1>4, <1>5, Step, Known DEF Frame

LEMMA SkipInv ==
  ASSUME IInv, NEW j \in Jobs, Skip(j)
  PROVE  IInv'
<1>1. j \in Jobs
  BY DEF Jobs
<1> DEFINE n == [job[j] EXCEPT !.pc = "unguard"]
<1>2. /\ n \in Job
      /\ job' = [job EXCEPT ![j] = n]
      /\ job[j].pc = "start" /\ n.pc = "unguard"
      /\ n.strategy = job[j].strategy
  BY <1>1, Known DEF Skip, Release, Goto, Job, PC, Row, Outcomes
<1>3. /\ phase' = phase /\ kill' = kill
      /\ row' = row
      /\ queue' = queue
      /\ handler' = handler
      /\ recorded' = recorded
      /\ inFlight' = inFlight /\ tokens' = tokens - 1
  BY <1>1, Known DEF Skip, Release, Goto, Frame, outside, signalling, admission, Outcomes
<1> HIDE DEF n
<1>4. /\ Shape(j, n)
      /\ j \in Signals => Lineage(n, recorded'[j])
      /\ j \in Ticks /\ Returned => n.pc = "idle"
  BY <1>1, <1>2, <1>3, Known DEF Shape, Lineage, Returned, Frame
<1>5. /\ Keeps(j, job[j]) <=> Keeps(j, n)
      /\ n.strategy = job[j].strategy
      /\ HoldsSlot(j, job[j]) /\ ~ HoldsSlot(j, n)
  BY <1>1, <1>2, <1>3, Known DEF Keeps, HoldsSlot, Shape
<1> QED BY <1>1, <1>2, <1>3, <1>4, <1>5, Step, Known DEF Frame

LEMMA FinishInv ==
  ASSUME IInv, NEW j \in Jobs, Finish(j)
  PROVE  IInv'
<1>1. j \in Jobs
  BY DEF Jobs
<1> DEFINE n == [job[j] EXCEPT !.pc = "unguard"]
<1>2. /\ n \in Job
      /\ job' = [job EXCEPT ![j] = n]
      /\ job[j].pc = "running" /\ n.pc = "unguard"
      /\ n.strategy = job[j].strategy
  BY <1>1, Known DEF Finish, Release, Goto, Job, PC, Row, Outcomes
<1>3. /\ phase' = phase /\ kill' = kill
      /\ row' = row
      /\ queue' = queue
      /\ handler' = handler
      /\ recorded' = recorded
      /\ inFlight' = inFlight /\ tokens' = tokens - 1
  BY <1>1, Known DEF Finish, Release, Goto, Frame, outside, signalling, admission, Outcomes
<1> HIDE DEF n
<1>4. /\ Shape(j, n)
      /\ j \in Signals => Lineage(n, recorded'[j])
      /\ j \in Ticks /\ Returned => n.pc = "idle"
  BY <1>1, <1>2, <1>3, Known DEF Shape, Lineage, Returned, Frame
<1>5. /\ Keeps(j, job[j]) <=> Keeps(j, n)
      /\ n.strategy = job[j].strategy
      /\ HoldsSlot(j, job[j]) /\ ~ HoldsSlot(j, n)
  BY <1>1, <1>2, <1>3, Known DEF Keeps, HoldsSlot, Shape
<1> QED BY <1>1, <1>2, <1>3, <1>4, <1>5, Step, Known DEF Frame

LEMMA StartInv ==
  ASSUME IInv, NEW j \in Jobs, Start(j)
  PROVE  IInv'
<1>1. j \in Jobs
  BY DEF Jobs
<1> DEFINE n == [job[j] EXCEPT !.pc = "running", !.ctx = schedulerContext]
<1>2. /\ n \in Job
      /\ job' = [job EXCEPT ![j] = n]
      /\ job[j].pc = "start" /\ n.pc = "running"
      /\ n.strategy = job[j].strategy
  BY <1>1, Known DEF Start, schedulerContext, Job, PC, Row, Outcomes
<1>3. /\ phase' = phase /\ kill' = kill
      /\ row' = row
      /\ queue' = queue
      /\ handler' = handler
      /\ recorded' = recorded
      /\ inFlight' = inFlight /\ tokens' = tokens
  BY <1>1, Known DEF Start, schedulerContext, Frame, outside, signalling, admission, Outcomes
<1> HIDE DEF n
<1>4. /\ Shape(j, n)
      /\ j \in Signals => Lineage(n, recorded'[j])
      /\ j \in Ticks /\ Returned => n.pc = "idle"
  BY <1>1, <1>2, <1>3, Known DEF Shape, Lineage, Returned, Frame
<1>5. /\ Keeps(j, job[j]) <=> Keeps(j, n)
      /\ n.strategy = job[j].strategy
      /\ HoldsSlot(j, job[j]) <=> HoldsSlot(j, n)
  BY <1>1, <1>2, <1>3, Known DEF Keeps, HoldsSlot, Shape
<1> QED BY <1>1, <1>2, <1>3, <1>4, <1>5, Step, Known DEF Frame

LEMMA CancelInv ==
  ASSUME IInv, NEW j \in Jobs, Cancel(j)
  PROVE  IInv'
<1>1. j \in Jobs
  BY DEF Jobs
<1> DEFINE n == [job[j] EXCEPT !.cancelled = TRUE]
<1>2. /\ n \in Job
      /\ job' = [job EXCEPT ![j] = n]
      /\ job[j].pc = "running" /\ n.pc = "running"
      /\ n.strategy = job[j].strategy
  BY <1>1, Known DEF Cancel, Job, PC, Row, Outcomes
<1>3. /\ phase' = phase /\ kill' = kill
      /\ row' = row
      /\ queue' = queue
      /\ handler' = handler
      /\ recorded' = recorded
      /\ inFlight' = inFlight /\ tokens' = tokens
  BY <1>1, Known DEF Cancel, Frame, outside, signalling, admission, Outcomes
<1> HIDE DEF n
<1>4. /\ Shape(j, n)
      /\ j \in Signals => Lineage(n, recorded'[j])
      /\ j \in Ticks /\ Returned => n.pc = "idle"
  BY <1>1, <1>2, <1>3, Known DEF Shape, Lineage, Returned, Frame
<1>5. /\ Keeps(j, job[j]) <=> Keeps(j, n)
      /\ n.strategy = job[j].strategy
      /\ HoldsSlot(j, job[j]) <=> HoldsSlot(j, n)
  BY <1>1, <1>2, <1>3, Known DEF Keeps, HoldsSlot, Shape
<1> QED BY <1>1, <1>2, <1>3, <1>4, <1>5, Step, Known DEF Frame

LEMMA UnguardInv ==
  ASSUME IInv, NEW j \in Jobs, Unguard(j)
  PROVE  IInv'
<1>1. j \in Jobs
  BY DEF Jobs
<1> DEFINE n == Ended(j)
<1>2. /\ n \in Job
      /\ job' = [job EXCEPT ![j] = n]
      /\ job[j].pc = "unguard"
      /\ n.pc = IF j \in Signals THEN "done" ELSE "idle"
  BY <1>1, Known DEF Unguard, Ended, Idle, Job, PC, Row, Outcomes
<1>3. /\ phase' = phase /\ kill' = kill
      /\ row' = row
      /\ queue' = queue
      /\ handler' = handler
      /\ recorded' = recorded
      /\ inFlight' = inFlight \ {job[j].strategy} /\ tokens' = tokens
  BY <1>1, Known DEF Unguard, Ended, Idle, Frame, outside, signalling, admission, Outcomes
<1> HIDE DEF n
<1>4. /\ Shape(j, n)
      /\ j \in Signals => Lineage(n, recorded'[j])
      /\ j \in Ticks /\ Returned => n.pc = "idle"
  BY <1>1, <1>2, <1>3, Known DEF Shape, Lineage, Returned, Frame
<1>5. /\ Keeps(j, job[j]) /\ ~ Keeps(j, n)
      /\ HoldsSlot(j, job[j]) <=> HoldsSlot(j, n)
  BY <1>1, <1>2, <1>3, Known DEF Keeps, HoldsSlot, Shape
<1> QED BY <1>1, <1>2, <1>3, <1>4, <1>5, Step, Known DEF Frame

-----------------------------------------------------------------------------
\* The operators' actions and the shutdown move no job.
LEMMA OutsideInv ==
  ASSUME IInv, UNCHANGED <<job, admission, signalling>>,
         row' \in [Strategies -> Row], kill' \in BOOLEAN, phase' \in Phase,
         phase' \in {"stopped", "silenced", "closed"} =>
           Returned \/ \A j \in Ticks : job[j].pc = "idle"
  PROVE  IInv'
<1>1. /\ job' = job /\ inFlight' = inFlight /\ tokens' = tokens
      /\ queue' = queue /\ handler' = handler /\ recorded' = recorded
  BY DEF admission, signalling
<1>2. TypeOK'
  BY <1>1 DEF IInv, TypeOK
<1>3. (\A j \in Jobs : Shape(j, job[j]))' /\ (\A g \in Signals : Lineage(job[g], recorded[g]))'
  BY <1>1 DEF IInv, Shape, Lineage
<1>4. InFlightExact' /\ TokensExact'
  BY <1>1 DEF IInv, InFlightExact, TokensExact, Keepers, Slots, Guarded, Holding, Admitted
<1>5. PoolOutlivesTicks'
  BY <1>1 DEF IInv, PoolOutlivesTicks, Returned
<1> QED BY <1>2, <1>3, <1>4, <1>5 DEF IInv

LEMMA InitInv == Init => IInv
<1> SUFFICES ASSUME Init PROVE IInv
  OBVIOUS
<1>1. Idle \in Job
  BY DEF Idle, Job, PC, Row, Outcomes
<1>2. \A j \in Jobs : job[j] = Idle
  BY DEF Init
<1>3. TypeOK
  <2>1. [paused |-> FALSE, skip |-> FALSE] \in Row
    BY DEF Row
  <2>2. job \in [Jobs -> Job] /\ row \in [Strategies -> Row]
    BY <1>1, <2>1 DEF Init
  <2>3. recorded \in [Signals -> SUBSET ({"evaluated", "requested"} \cup Outcomes)]
    BY DEF Init
  <2>4. queue \in Seq(Signals) /\ tokens \in 0..Capacity
    BY CapacityAssumption DEF Init
  <2> QED BY <2>2, <2>3, <2>4 DEF Init, TypeOK, Phase
<1>4. \A j \in Jobs : Shape(j, job[j])
  BY <1>2 DEF Idle, Shape
<1>5. \A g \in Signals : Lineage(job[g], recorded[g])
  BY <1>2 DEF Init, Idle, Lineage, Jobs
<1>6. Keepers = {} /\ Slots = {}
  BY <1>2 DEF Idle, Keepers, Slots, Guarded, Holding, Admitted, Jobs
<1>7. InFlightExact /\ TokensExact
  BY <1>6, FS_EmptySet DEF Init, InFlightExact, TokensExact
<1>8. PoolOutlivesTicks
  BY DEF Init, PoolOutlivesTicks
<1> QED BY <1>3, <1>4, <1>5, <1>7, <1>8 DEF IInv

LEMMA NextInv == IInv /\ [Next]_vars => IInv'
<1> SUFFICES ASSUME IInv, [Next]_vars PROVE IInv'
  OBVIOUS
<1>1. ASSUME NEW j \in Ticks \cup Triggers,
             \/ \E s \in Strategies : Begin(j, s)
             \/ ReadContext(j) \/ Admit(j) \/ GiveUp(j)
      PROVE  IInv'
  BY <1>1, BeginInv, ReadContextInv, AdmitInv, GiveUpInv
<1>2. ASSUME NEW g \in Signals, (\E s \in Strategies : Process(g, s)) \/ Handle(g)
      PROVE  IInv'
  BY <1>2, ProcessInv, TakeInv, RecordRequestInv, TryAcquireInv, ReadSignalContextInv,
     TryCapacityInv, RecordOutcomeInv DEF Handle
<1>3. ASSUME NEW j \in Jobs, Execute(j) \/ Poll(j) \/ Abort(j) \/ Finish(j)
      PROVE  IInv'
  BY <1>3, FetchInv, ResetSkipInv, SkipInv, StartInv, UnguardInv, CancelInv, FinishInv
     DEF Execute, Poll, Abort
<1>4. row \in [Strategies -> Row] /\ kill \in BOOLEAN /\ phase \in Phase
  BY DEF IInv, TypeOK
<1>5. ASSUME NEW s \in Strategies, TransitionPaperStatus(s) \/ MarkSkipNext(s)
      PROVE  IInv'
  <2>1. row' \in [Strategies -> Row]
    BY <1>4, <1>5 DEF TransitionPaperStatus, MarkSkipNext, Row
  <2> QED BY <1>4, <1>5, <2>1, OutsideInv DEF TransitionPaperStatus, MarkSkipNext, Returned
<1>6. CASE ToggleKill
  BY <1>4, <1>6, OutsideInv DEF ToggleKill, Returned
<1>7. CASE Stop
  BY <1>4, <1>7, OutsideInv DEF Stop, Phase, Returned
<1>8. CASE Cleanup
  BY <1>4, <1>8, OutsideInv DEF Cleanup, Phase, Returned
<1>9. CASE UNCHANGED vars
  BY <1>4, <1>9, OutsideInv DEF vars, admission, signalling, Returned
<1> QED BY <1>1, <1>2, <1>3, <1>5, <1>6, <1>7, <1>8, <1>9 DEF Next

LEMMA Inductive == Spec => []IInv
BY InitInv, NextInv, PTL DEF Spec

-----------------------------------------------------------------------------
\* Every variable keeps its type, and the semaphore never holds more than
\* Capacity executions, however many ticks, triggers and signals compete.
THEOREM SchedulerTypes == Spec => []TypeOK
<1>1. IInv => TypeOK
  BY DEF IInv
<1> QED BY <1>1, Inductive, PTL

\* For any number of jobs and any capacity, failures, panics and drops between
\* the two guards of scheduler.go leave neither a strategy in flight without the
\* job that holds it nor a slot that nobody will give back.
THEOREM GuardsStayExact == Spec => []GuardsAreExact
<1>1. IInv => GuardsAreExact
  BY DEF IInv, InFlightExact, TokensExact, Keepers, Slots, GuardsAreExact
<1> QED BY <1>1, Inductive, PTL

\* TriggerSignalStrategy never executes a signal whose evaluation, request and
\* admission are not all on record, even when Stop and the cleanup of the signal
\* stack race the handler.
THEOREM SignalRunsStayRecorded == Spec => []SignalRunsAreRecorded
<1>1. IInv => SignalRunsAreRecorded
  BY DEF IInv, Shape, Lineage, SignalRunsAreRecorded, Holding, Guarded, Jobs
<1> QED BY <1>1, Inductive, PTL

\* Scheduler.Stop waits for every tick that ever started, the ones that read
\* their context while Stop was replacing it included.
THEOREM TicksEndBeforePool == Spec => []PoolOutlivesTicks
<1>1. IInv => PoolOutlivesTicks
  BY DEF IInv
<1> QED BY <1>1, Inductive, PTL
=============================================================================

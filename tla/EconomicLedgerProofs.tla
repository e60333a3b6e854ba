------------------------ MODULE EconomicLedgerProofs ------------------------
(***************************************************************************)
(* What the append-only store promises for any number of events, versions, *)
(* workers and attempts, whatever the replay computes: the proofs never    *)
(* open BuildPortfolioProjection or the postings.                          *)
(***************************************************************************)
EXTENDS EconomicLedger, TLAPS

\* The parts of the store the actions update are functions and sets of the
\* right domains.
Shape ==
  /\ world \in Worlds
  /\ DOMAIN evidence = Sources
  /\ norms \in [Sources -> Versions \cup {None}]
  /\ acked \subseteq [source : Sources, version : Versions]
  /\ DOMAIN work = Workers

\* What is booked for a source: nothing without a normalization, and with one
\* exactly the row its evidence expands to.
Booked ==
  /\ OneRowPerEvent
  /\ \A a \in acked : norms[a.source] = a.version

\* A rebuild's view of the checkpoints is a part of what is committed.
ViewsAreCommitted ==
  /\ \A w \in Workers : work[w].pc \in {"begun", "built"} => work[w].snapshot.seen \subseteq checkpoints
  /\ ReturnedIsPersisted

IInv == Shape /\ Booked /\ ViewsAreCommitted

-----------------------------------------------------------------------------
LEMMA InitInv == Init => IInv
<1> SUFFICES ASSUME Init PROVE IInv
  OBVIOUS
<1>1. Shape
  BY DEF Init, Shape
<1>2. Booked
  BY DEF Init, Booked, OneRowPerEvent
<1>3. ViewsAreCommitted
  BY DEF Init, ViewsAreCommitted, ReturnedIsPersisted, Stage
<1> QED
  BY <1>1, <1>2, <1>3 DEF IInv

\* RecordEconomicSourceEvent only fills an empty identity, so no booked event
\* changes its evidence.
LEMMA RecordStep ==
  ASSUME IInv, NEW s \in Sources, NEW e \in world.events[s], RecordEconomicSourceEvent(s, e)
  PROVE  IInv'
<1>1. Shape'
  BY DEF IInv, Shape, RecordEconomicSourceEvent
<1>2. \A t \in Sources : norms[t] # None => evidence'[t] = evidence[t]
  BY DEF IInv, Shape, Booked, OneRowPerEvent, RecordEconomicSourceEvent
<1>3. Booked'
  <2>1. UNCHANGED <<rows, norms, acked>>
    BY DEF RecordEconomicSourceEvent
  <2>2. \A t \in Sources : norms[t] # None => evidence'[t] # None /\ Row(t, norms[t], evidence'[t]) \in rows
    BY <1>2 DEF IInv, Booked, OneRowPerEvent
  <2> QED
    BY <2>1, <2>2 DEF IInv, Booked, OneRowPerEvent
<1>4. ViewsAreCommitted'
  BY DEF IInv, ViewsAreCommitted, ReturnedIsPersisted, RecordEconomicSourceEvent
<1> QED
  BY <1>1, <1>3, <1>4 DEF IInv

\* ApplyEconomicNormalization adds a row only where no normalization was, and
\* by the invariant there was then no row of that key either.
LEMMA ApplyStep ==
  ASSUME IInv, NEW s \in Sources, NEW v \in Versions, NEW replied,
         ApplyEconomicNormalization(s, v, replied)
  PROVE  IInv'
<1> USE DEF IInv
<1>0. norms \in [Sources -> Versions \cup {None}] /\ v # None
  BY LedgerConstants DEF Shape
<1>1. Shape'
  <2>1. norms' \in [Sources -> Versions \cup {None}]
    BY <1>0 DEF ApplyEconomicNormalization
  <2>2. acked' \subseteq [source : Sources, version : Versions]
    BY DEF Shape, ApplyEconomicNormalization
  <2> QED
    BY <2>1, <2>2 DEF Shape, ApplyEconomicNormalization
<1>2. \A t \in Sources : norms'[t] = IF t = s THEN v ELSE norms[t]
  BY <1>0 DEF ApplyEconomicNormalization
<1>3. Booked'
  <2>1. \A a \in acked' : norms'[a.source] = a.version
    <3> SUFFICES ASSUME NEW a \in acked' PROVE norms'[a.source] = a.version
      OBVIOUS
    <3>1. CASE a \in acked
      <4>1. a.source \in Sources /\ norms[a.source] = a.version /\ a.version \in Versions
        BY <3>1 DEF Shape, Booked
      <4>2. a.source = s => norms[s] = v
        BY <4>1, LedgerConstants DEF ApplyEconomicNormalization
      <4> QED
        BY <4>1, <4>2, <1>2
    <3>2. CASE a = [source |-> s, version |-> v]
      BY <3>2, <1>2
    <3> QED
      BY <3>1, <3>2 DEF ApplyEconomicNormalization
  <2>2. CASE norms[s] = v
    <3>1. rows' = rows /\ norms' = norms /\ evidence' = evidence
      BY <2>2, <1>0 DEF ApplyEconomicNormalization
    <3> QED
      BY <3>1, <2>1 DEF Booked, OneRowPerEvent
  <2>3. CASE norms[s] = None
    <3> DEFINE new == Row(s, v, evidence[s])
    <3>1. new.key = s
      BY DEF Row
    <3>2. rows' = rows \cup {new} /\ evidence' = evidence /\ evidence[s] # None
      BY <2>3 DEF ApplyEconomicNormalization
    <3>3. \A r \in rows : r.key # s
      BY <2>3 DEF Booked, OneRowPerEvent
    <3> HIDE DEF new
    <3>4. \A r, q \in rows' : r.key = q.key => r = q
      BY <3>1, <3>2, <3>3 DEF Booked, OneRowPerEvent
    <3>5. \A t \in Sources : norms'[t] # None <=> \E r \in rows' : r.key = t
      BY <3>1, <3>2, <1>0, <1>2 DEF Booked, OneRowPerEvent
    <3>6. \A t \in Sources : norms'[t] # None =>
            evidence'[t] # None /\ Row(t, norms'[t], evidence'[t]) \in rows'
      <4> SUFFICES ASSUME NEW t \in Sources, norms'[t] # None
                   PROVE  evidence'[t] # None /\ Row(t, norms'[t], evidence'[t]) \in rows'
        OBVIOUS
      <4>1. CASE t = s
        BY <4>1, <3>2, <1>2 DEF new
      <4>2. CASE t # s
        BY <4>2, <3>2, <1>2 DEF Booked, OneRowPerEvent
      <4> QED
        BY <4>1, <4>2
    <3> QED
      BY <3>4, <3>5, <3>6, <2>1 DEF Booked, OneRowPerEvent
  <2> QED
    BY <2>2, <2>3 DEF ApplyEconomicNormalization
<1>4. ViewsAreCommitted'
  BY DEF ViewsAreCommitted, ReturnedIsPersisted, ApplyEconomicNormalization
<1> QED
  BY <1>1, <1>3, <1>4

\* A capital flow's key is not the key of a source event.
LEMMA PostStep ==
  ASSUME IInv, NEW e \in world.flows, PostTransaction(e)
  PROVE  IInv'
<1> USE DEF IInv
<1>1. Shape'
  BY DEF Shape, PostTransaction
<1>2. e.key \notin Sources
  BY LedgerConstants DEF Shape
<1>3. PICK new : new.key = e.key /\ rows' = rows \cup {new}
  BY DEF PostTransaction
<1>4. \A r \in rows : r.key # e.key
  BY DEF PostTransaction
<1>5. UNCHANGED <<norms, evidence, acked>>
  BY DEF PostTransaction
<1>6. \A r, q \in rows' : r.key = q.key => r = q
  BY <1>3, <1>4 DEF Booked, OneRowPerEvent
<1>7. \A s \in Sources : norms[s] # None <=> \E r \in rows' : r.key = s
  BY <1>2, <1>3 DEF Booked, OneRowPerEvent
<1>8. Booked'
  BY <1>3, <1>5, <1>6, <1>7 DEF Booked, OneRowPerEvent
<1>9. ViewsAreCommitted'
  BY DEF ViewsAreCommitted, ReturnedIsPersisted, PostTransaction
<1> QED
  BY <1>1, <1>8, <1>9

LEMMA MarkStep ==
  ASSUME IInv, NEW m, RecordMarkObservation(m)
  PROVE  IInv'
BY DEF IInv, Shape, Booked, OneRowPerEvent, ViewsAreCommitted, ReturnedIsPersisted,
       RecordMarkObservation

\* A step of a rebuild: the store is untouched, checkpoints only grow, and the
\* new stage keeps what ViewsAreCommitted asks of it.
LEMMA StageStep ==
  ASSUME IInv, NEW w \in Workers, NEW stage, UNCHANGED world, UNCHANGED store,
         work' = [work EXCEPT ![w] = stage],
         checkpoints \subseteq checkpoints',
         stage.pc \in {"begun", "built"} => stage.snapshot.seen \subseteq checkpoints',
         stage.pc = "done" => stage.made \in checkpoints'
  PROVE  IInv'
<1> USE DEF IInv
<1>1. DOMAIN work' = Workers /\ \A o \in Workers : work'[o] = IF o = w THEN stage ELSE work[o]
  BY DEF Shape
<1>2. Shape'
  BY <1>1 DEF Shape, store
<1>3. Booked'
  BY DEF Booked, OneRowPerEvent, store
<1>4. ViewsAreCommitted'
  BY <1>1 DEF ViewsAreCommitted, ReturnedIsPersisted
<1> QED
  BY <1>2, <1>3, <1>4

LEMMA RebuildStep ==
  ASSUME IInv, NEW w \in Workers, Rebuild(w) \/ AskAgain(w)
  PROVE  IInv'
<1>1. CASE BeginRebuild(w)
  BY <1>1, StageStep DEF BeginRebuild, Stage, Committed
<1>2. CASE BuildProjection(w)
  <2>1. PICK c \in {ProjectionOf(w)} :
          IF c = None THEN Ended(w, "failed", None)
          ELSE work' = [work EXCEPT ![w] =
                 Stage("built", work[w].attempt, [seen |-> work[w].snapshot.seen], c)]
    BY <1>2 DEF BuildProjection
  <2>2. UNCHANGED world /\ UNCHANGED store /\ checkpoints' = checkpoints /\ work[w].pc = "begun"
    BY <1>2 DEF BuildProjection
  <2>3. CASE c = None
    BY <2>1, <2>2, <2>3, StageStep DEF Ended, Stage
  <2>4. CASE c # None
    <3>1. work[w].snapshot.seen \subseteq checkpoints
      BY <2>2 DEF IInv, ViewsAreCommitted
    <3> QED
      BY <2>1, <2>2, <2>4, <3>1, StageStep DEF Stage
  <2> QED
    BY <2>3, <2>4
<1>3. CASE InsertCheckpoint(w)
  BY <1>3, StageStep DEF InsertCheckpoint, Stage
<1>4. CASE ReplayCheckpoint(w)
  <2>1. work[w].made \in checkpoints
    BY <1>4 DEF ReplayCheckpoint, IInv, ViewsAreCommitted
  <2> QED
    BY <1>4, <2>1, StageStep DEF ReplayCheckpoint, Ended, Stage
<1>5. CASE RetrySerialization(w)
  BY <1>5, StageStep DEF RetrySerialization, Ended, Stage
<1>6. ASSUME NEW committed \in BOOLEAN, NEW replied \in BOOLEAN,
             CommitRebuild(w, committed, replied)
      PROVE  IInv'
  BY <1>6, StageStep DEF CommitRebuild, Ended, Stage
<1>7. CASE AskAgain(w)
  BY <1>7, StageStep DEF AskAgain, Stage
<1> QED
  BY <1>1, <1>2, <1>3, <1>4, <1>5, <1>6, <1>7 DEF Rebuild

LEMMA NextInv == IInv /\ [Next]_vars => IInv'
<1> SUFFICES ASSUME IInv, [Next]_vars PROVE IInv'
  OBVIOUS
<1>1. CASE Write
  <2>1. world.versions \subseteq Versions
    BY LedgerConstants DEF IInv, Shape
  <2>2. ASSUME NEW replied \in world.replies, NEW s \in Sources, NEW v \in world.versions,
               ApplyEconomicNormalization(s, v, replied)
        PROVE  IInv'
    BY <2>1, <2>2, ApplyStep
  <2> QED
    BY <1>1, <2>2, RecordStep, PostStep, MarkStep DEF Write
<1>2. CASE \E w \in Workers : Rebuild(w) \/ AskAgain(w)
  BY <1>2, RebuildStep
<1>3. CASE UNCHANGED vars
  BY <1>3 DEF vars, IInv, Shape, Booked, OneRowPerEvent, ViewsAreCommitted, ReturnedIsPersisted
<1> QED
  BY <1>1, <1>2, <1>3 DEF Next

LEMMA StoreInv == Spec => []IInv
BY InitInv, NextInv, PTL DEF Spec

-----------------------------------------------------------------------------
\* Whatever is retried or normalized twice, an event is booked at most once,
\* and what is booked is what its stored evidence expands to.
THEOREM EventsBookedOnce == Spec => []OneRowPerEvent
<1>1. IInv => OneRowPerEvent
  BY DEF IInv, Booked
<1> QED
  BY <1>1, StoreInv, PTL

\* A caller that was told its normalization is applied finds exactly that
\* interpretation in the store, with its row.
THEOREM AcknowledgementsHold == Spec => []AcknowledgedIsBooked
<1>1. IInv => AcknowledgedIsBooked
  <2> SUFFICES ASSUME IInv, NEW a \in acked
               PROVE  /\ norms[a.source] = a.version
                      /\ \E r \in rows : r.id = TransactionID(a.source, a.version)
    BY DEF AcknowledgedIsBooked
  <2>1. a.source \in Sources /\ a.version \in Versions /\ norms[a.source] = a.version
    BY DEF IInv, Shape, Booked
  <2>2. Row(a.source, a.version, evidence[a.source]) \in rows
    BY <2>1, LedgerConstants DEF IInv, Booked, OneRowPerEvent
  <2>3. Row(a.source, a.version, evidence[a.source]).id = TransactionID(a.source, a.version)
    BY DEF Row
  <2> QED
    BY <2>1, <2>2, <2>3
<1> QED
  BY <1>1, StoreInv, PTL

\* A rebuild that returned its projection left its checkpoint in the store,
\* with any number of workers racing for it.
THEOREM ProjectionsPersist == Spec => []ReturnedIsPersisted
<1>1. IInv => ReturnedIsPersisted
  BY DEF IInv, ViewsAreCommitted
<1> QED
  BY <1>1, StoreInv, PTL

\* No step rewrites or removes evidence, normalizations, rows, marks or
\* checkpoints.
THEOREM StoreOnlyGrows == Spec => AppendOnly
<1> DEFINE Grows ==
      /\ \A s \in Sources : evidence[s] # None => evidence'[s] = evidence[s]
      /\ \A s \in Sources : norms[s] # None => norms'[s] = norms[s]
      /\ rows \subseteq rows'
      /\ marks \subseteq marks'
      /\ checkpoints \subseteq checkpoints'
<1>1. IInv /\ [Next]_vars => [Grows]_vars
  <2> SUFFICES ASSUME IInv, Next PROVE Grows
    OBVIOUS
  <2> USE DEF store
  <2>1. ASSUME NEW s \in Sources, NEW e \in world.events[s], RecordEconomicSourceEvent(s, e)
        PROVE  Grows
    BY <2>1 DEF RecordEconomicSourceEvent, IInv, Shape
  <2>2. ASSUME NEW s \in Sources, NEW v, NEW replied, ApplyEconomicNormalization(s, v, replied)
        PROVE  Grows
    BY <2>2 DEF ApplyEconomicNormalization, IInv, Shape
  <2>3. ASSUME NEW e, PostTransaction(e) PROVE Grows
    BY <2>3 DEF PostTransaction
  <2>4. ASSUME NEW m, RecordMarkObservation(m) PROVE Grows
    BY <2>4 DEF RecordMarkObservation
  <2>5. ASSUME NEW w \in Workers, Rebuild(w) \/ AskAgain(w) PROVE Grows
    BY <2>5 DEF Rebuild, BeginRebuild, BuildProjection, InsertCheckpoint, ReplayCheckpoint,
                RetrySerialization, CommitRebuild, AskAgain
  <2> QED
    BY <2>1, <2>2, <2>3, <2>4, <2>5 DEF Next, Write
<1> QED
  BY <1>1, StoreInv, PTL DEF Spec, AppendOnly
=============================================================================

--------------------------- MODULE EconomicLedger ---------------------------
(***************************************************************************)
(* The append-only economic store of one account and the workers that      *)
(* rebuild its projection: LedgerRepo and ProjectionRepo of                *)
(* internal/repository/postgres over the tables of migrations 65, 68, 69.  *)
(*                                                                         *)
(* Each write is one database transaction decided by a uniqueness          *)
(* constraint, so it is one action; its caller may lose the reply and      *)
(* simply calls again.  A rebuild reads one repeatable-read snapshot and   *)
(* inserts its checkpoint later, so it is several.                           *)
(***************************************************************************)
EXTENDS LedgerProjection

CONSTANTS None,
          Sources,      \* economic source events: positive integers
          Versions,     \* normalizer versions: 0 .. n-1
          Workers,      \* processes that rebuild the projection
          Worlds,       \* what venues may report, and which rebuilds are asked for
          Attempts      \* projectionRebuildAttempts

ASSUME LedgerConstants ==
  /\ Attempts \in Nat \ {0}
  /\ None \notin Versions
  /\ \A x \in Worlds : /\ \A s \in Sources : None \notin x.events[s]
                       /\ \A e \in x.flows : e.key \notin Sources
                       /\ x.versions \subseteq Versions

VARIABLES world,        \* what may happen: reports, replies, requests
          evidence,     \* economic_source_events: [Sources -> event or None]
          norms,        \* economic_event_normalizations: [Sources -> version or None]
          rows,         \* ledger_transactions with their postings
          marks,        \* mark_observations
          checkpoints,  \* projection_checkpoints
          acked,        \* normalizations a caller was told are applied
          work          \* [Workers -> state of its rebuild]

store == <<evidence, norms, rows, marks, acked>>
vars == <<world, evidence, norms, rows, marks, checkpoints, acked, work>>

\* Deterministic identities: injective in the source and the version.
TransactionID(s, v) == s * Cardinality(Versions) + v

Stage(pc, attempt, snapshot, made) ==
  [pc |-> pc, attempt |-> attempt, snapshot |-> snapshot, made |-> made]

Init ==
  /\ world \in Worlds
  /\ evidence = [s \in Sources |-> None]
  /\ norms = [s \in Sources |-> None]
  /\ rows = {}
  /\ marks = {}
  /\ checkpoints = {}
  /\ acked = {}
  /\ work = [w \in Workers |-> Stage("idle", 0, None, None)]

-----------------------------------------------------------------------------
(* Writers *)

\* Raw evidence is stored once per identity; the same bytes again are a
\* replay, other bytes a conflict, and neither changes anything.
RecordEconomicSourceEvent(s, e) ==
  /\ ValidEvent(e)
  /\ evidence[s] = None
  /\ evidence' = [evidence EXCEPT ![s] = e]
  /\ UNCHANGED <<world, norms, rows, marks, checkpoints, acked, work>>

Row(s, v, e) ==
  [id |-> TransactionID(s, v), key |-> s, type |-> e.type, effective |-> e.effective,
   observed |-> e.observed, postings |-> expectedPostings(e)]

\* Mutant: the insert conflicts on the normalization, not on the source event.
ApplyEconomicNormalizationPerVersion(s, v, replied) ==
  /\ evidence[s] # None
  /\ norms' = [norms EXCEPT ![s] = v]
  /\ rows' = rows \cup {Row(s, v, evidence[s])}
  /\ acked' = IF replied THEN acked \cup {[source |-> s, version |-> v]} ELSE acked
  /\ UNCHANGED <<world, evidence, marks, checkpoints, work>>

\* Mutant: a caller with another interpretation is told it was applied.
ApplyEconomicNormalizationUncompared(s, v, replied) ==
  /\ evidence[s] # None
  /\ norms' = IF norms[s] = None THEN [norms EXCEPT ![s] = v] ELSE norms
  /\ rows' = IF norms[s] = None THEN rows \cup {Row(s, v, evidence[s])} ELSE rows
  /\ acked' = IF replied THEN acked \cup {[source |-> s, version |-> v]} ELSE acked
  /\ UNCHANGED <<world, evidence, marks, checkpoints, work>>

\* Normalization, ledger row and postings in one transaction, once per source
\* event, from evidence that is already stored.  The same normalization again
\* succeeds without a second row; another one conflicts.
ApplyEconomicNormalization(s, v, replied) ==
  /\ evidence[s] # None
  /\ norms[s] \in {None, v}
  /\ norms' = [norms EXCEPT ![s] = v]
  /\ rows' = IF norms[s] = None THEN rows \cup {Row(s, v, evidence[s])} ELSE rows
  /\ acked' = IF replied THEN acked \cup {[source |-> s, version |-> v]} ELSE acked
  /\ UNCHANGED <<world, evidence, marks, checkpoints, work>>

\* A capital flow, once per idempotency key: the retry carries a fresh row
\* identity and observation time, and the first row stays.
PostTransaction(e) ==
  /\ ValidEvent(e)
  /\ \A r \in rows : r.key # e.key
  /\ rows' = rows \cup {[id |-> e.id, key |-> e.key, type |-> e.type, effective |-> e.effective,
                         observed |-> e.observed, postings |-> expectedPostings(e)]}
  /\ UNCHANGED <<world, evidence, norms, marks, checkpoints, acked, work>>

\* A mark, once per source identity.
RecordMarkObservation(m) ==
  /\ m.effective <= m.observed
  /\ \A o \in marks : o.id # m.id
  /\ marks' = marks \cup {m}
  /\ UNCHANGED <<world, evidence, norms, rows, checkpoints, acked, work>>

-----------------------------------------------------------------------------
(* Rebuilds *)

Mechanics == {[row |-> TransactionID(s, norms[s]), event |-> evidence[s]] :
                s \in {t \in Sources : norms[t] # None}}

Committed == [rows |-> rows, mechanics |-> Mechanics, marks |-> marks, seen |-> checkpoints]

\* The first statement of the repeatable-read transaction fixes what it sees.
BeginRebuild(w) ==
  /\ work[w].pc = "idle"
  /\ world.requests[w] # None
  /\ work' = [work EXCEPT ![w] = Stage("begun", work[w].attempt, Committed, None)]
  /\ UNCHANGED <<world, checkpoints>> /\ UNCHANGED store

\* What a checkpoint is identified by (as-of time and input checksum: the
\* eligible rows and the marks used), and what it says.
Checkpoint(asOf, snapshot, projection) ==
  [asOf |-> asOf, rows |-> {r \in snapshot.rows : Eligible(r, asOf)},
   used |-> projection.used, equity |-> projection.equity]

\* Mutant: each statement sees the latest commit (read committed).
ProjectionOfTorn(w) ==
  LET snapshot == [work[w].snapshot EXCEPT !.marks = marks]
      projection == BuildPortfolioProjection(snapshot.rows, snapshot.mechanics,
                                             snapshot.marks, world.requests[w])
  IN IF projection.status # "ok" THEN None
     ELSE Checkpoint(world.requests[w], snapshot, projection)

\* The checkpoint the replay of the snapshot yields, None when it fails.
ProjectionOf(w) ==
  LET snapshot == work[w].snapshot
      projection == BuildPortfolioProjection(snapshot.rows, snapshot.mechanics,
                                             snapshot.marks, world.requests[w])
  IN IF projection.status # "ok" THEN None
     ELSE Checkpoint(world.requests[w], snapshot, projection)

Ended(w, pc, made) == work' = [work EXCEPT ![w] = Stage(pc, 0, None, made)]

\* The whole replay, a function of the snapshot.  A ledger it refuses fails
\* the request and nothing is written.
BuildProjection(w) ==
  /\ work[w].pc = "begun"
  /\ \E c \in {ProjectionOf(w)} :
       IF c = None THEN Ended(w, "failed", None)
       ELSE work' = [work EXCEPT ![w] =
                       Stage("built", work[w].attempt, [seen |-> work[w].snapshot.seen], c)]
  /\ UNCHANGED <<world, checkpoints>> /\ UNCHANGED store

\* Another worker's uncommitted checkpoint of the same identity.
Blocked(w) ==
  \E o \in Workers \ {w} : work[o].pc = "inserted" /\ work[o].made = work[w].made

InsertCheckpoint(w) ==
  /\ work[w].pc = "built"
  /\ work[w].made \notin checkpoints
  /\ ~Blocked(w)
  /\ work' = [work EXCEPT ![w] = Stage("inserted", work[w].attempt, None, work[w].made)]
  /\ UNCHANGED <<world, checkpoints>> /\ UNCHANGED store

\* ON CONFLICT DO NOTHING on a row the snapshot sees: the stored checkpoint
\* is loaded, compared and returned.
ReplayCheckpoint(w) ==
  /\ work[w].pc = "built"
  /\ work[w].made \in work[w].snapshot.seen
  /\ Ended(w, "done", work[w].made)
  /\ UNCHANGED <<world, checkpoints>> /\ UNCHANGED store

\* Mutant: a retry goes on in the transaction that cannot see the conflict.
RetrySerializationInPlace(w) ==
  /\ work[w].pc = "built"
  /\ work[w].made \in checkpoints \ work[w].snapshot.seen
  /\ work' = [work EXCEPT ![w] =
                Stage("begun", 0, [Committed EXCEPT !.seen = work[w].snapshot.seen], None)]
  /\ UNCHANGED <<world, checkpoints>> /\ UNCHANGED store

\* A row committed after the snapshot is a serialization failure: the rebuild
\* starts over from a new snapshot, a bounded number of times.
RetrySerialization(w) ==
  /\ work[w].pc = "built"
  /\ work[w].made \in checkpoints \ work[w].snapshot.seen
  /\ IF work[w].attempt + 1 < Attempts
     THEN work' = [work EXCEPT ![w] = Stage("idle", work[w].attempt + 1, None, None)]
     ELSE Ended(w, "failed", None)
  /\ UNCHANGED <<world, checkpoints>> /\ UNCHANGED store

\* Mutant: the projection is returned although the commit did not happen.
CommitRebuildUnchecked(w, committed, replied) ==
  /\ work[w].pc = "inserted"
  /\ checkpoints' = IF committed THEN checkpoints \cup {work[w].made} ELSE checkpoints
  /\ IF replied THEN Ended(w, "done", work[w].made) ELSE Ended(w, "failed", None)
  /\ UNCHANGED world /\ UNCHANGED store

\* The commit succeeds, is rolled back, or succeeds unheard.
CommitRebuild(w, committed, replied) ==
  /\ work[w].pc = "inserted"
  /\ replied => committed
  /\ checkpoints' = IF committed THEN checkpoints \cup {work[w].made} ELSE checkpoints
  /\ IF replied THEN Ended(w, "done", work[w].made) ELSE Ended(w, "failed", None)
  /\ UNCHANGED world /\ UNCHANGED store

\* A caller whose request failed asks again.
AskAgain(w) ==
  /\ work[w].pc = "failed"
  /\ work' = [work EXCEPT ![w] = Stage("idle", 0, None, None)]
  /\ UNCHANGED <<world, checkpoints>> /\ UNCHANGED store

Rebuild(w) ==
  \/ BeginRebuild(w)
  \/ BuildProjection(w)
  \/ InsertCheckpoint(w)
  \/ ReplayCheckpoint(w)
  \/ RetrySerialization(w)
  \/ \E committed, replied \in BOOLEAN : CommitRebuild(w, committed, replied)

Write ==
  \/ \E s \in Sources : \E e \in world.events[s] : RecordEconomicSourceEvent(s, e)
  \/ \E s \in Sources, v \in world.versions, replied \in world.replies :
       ApplyEconomicNormalization(s, v, replied)
  \/ \E e \in world.flows : PostTransaction(e)
  \/ \E m \in world.marks : RecordMarkObservation(m)

Next == Write \/ \E w \in Workers : Rebuild(w) \/ AskAgain(w)

\* A rebuild that is asked for can go on unless it waits for another's commit.
Runnable(w) ==
  /\ work[w].pc \in {"idle", "begun", "built", "inserted"}
  /\ world.requests[w] # None
  /\ work[w].pc = "built" => ~Blocked(w)

\* Strong fairness of a rebuild, with Runnable(w) for ENABLED Rebuild(w): an
\* insert that waits for another transaction is woken when that one ends.
Fair(w) == <>[](~Runnable(w)) \/ []<><<Rebuild(w)>>_vars

Spec == Init /\ [][Next]_vars /\ \A w \in Workers : Fair(w)

-----------------------------------------------------------------------------
(* Properties *)

Times == {r.effective : r \in rows} \cup {r.observed : r \in rows}
         \cup {m.observed : m \in marks}

\* Whatever is retried, repeated or normalized twice, an event has one ledger
\* row, exactly when it has a normalization, and that row is what its stored
\* evidence expands to (ApplyEconomicNormalization, PostTransaction).
OneRowPerEvent ==
  /\ \A r, q \in rows : r.key = q.key => r = q
  /\ \A s \in Sources : norms[s] # None <=> \E r \in rows : r.key = s
  /\ \A s \in Sources : norms[s] # None =>
       evidence[s] # None /\ Row(s, norms[s], evidence[s]) \in rows

\* A caller told that its normalization is applied can rely on it: that very
\* interpretation is the one in the store.
AcknowledgedIsBooked ==
  \A a \in acked : /\ norms[a.source] = a.version
                   /\ \E r \in rows : r.id = TransactionID(a.source, a.version)

\* Evidence, normalizations, rows, marks and checkpoints are only ever added.
AppendOnly ==
  [][ /\ \A s \in Sources : evidence[s] # None => evidence'[s] = evidence[s]
      /\ \A s \in Sources : norms[s] # None => norms'[s] = norms[s]
      /\ rows \subseteq rows'
      /\ marks \subseteq marks'
      /\ checkpoints \subseteq checkpoints' ]_vars

\* Whatever subset of the events has arrived, at every point in time, the
\* replay never meets a row without its mechanics and the P&L equation that
\* finalize verifies never fails, rounding of partial closes included.
ReplayNeverBreaks ==
  \A t \in Times :
    BuildPortfolioProjection(rows, Mechanics, marks, t).status
      \notin {"no_mechanics", "equation_failed"}

\* Reference for FIFO: inventory unit by unit, as one queue per instrument.
UnitQueue(instrument, t) ==
  LET replayed == SetToSortSeq({r \in rows : Eligible(r, t)}, Earlier)
      units(r) == LET m == PostedTo(r, "asset:inventory", instrument)
                  IN [n \in 1..Magnitude(m) |-> [row |-> r.id, sign |-> Sgn(m)]]
      step(queue, u) == IF queue # <<>> /\ Head(queue).sign # u.sign
                        THEN Tail(queue) ELSE Append(queue, u)
  IN FoldLeft(step, <<>>, FlattenSeq([k \in DOMAIN replayed |-> units(replayed[k])]))

\* applyMovement and applyPhysicalOption leave open exactly the units a
\* first-in-first-out queue would: lots hold what the ledger's inventory
\* postings say, lot by lot, and never both directions at once.
LotsAreFIFO ==
  \A t \in Times :
    LET st == Replay(rows, Mechanics, t)
        open(queue, lot) == {n \in DOMAIN queue : queue[n].row = lot.row}
    IN st.status = "ok" =>
         \A i \in Instruments :
           LET queue == UnitQueue(i, t)
               lots == {k \in DOMAIN st.lots : st.lots[k].instrument = i}
           IN /\ \A k \in lots : SumOver(LAMBDA n : queue[n].sign, open(queue, st.lots[k]))
                                 = st.lots[k].quantity
              /\ Len(queue) = Magnitude(Holding(st.lots, i))

\* No lookahead: an event or a mark observed after t, however old it is,
\* leaves the projection as of t as it was.
NoLookahead ==
  [][ rows' # rows \/ marks' # marks =>
        \A t \in Times :
          (/\ \A r \in rows' \ rows : r.observed > t
           /\ \A m \in marks' \ marks : m.observed > t)
          => BuildPortfolioProjection(rows', Mechanics', marks', t)
             = BuildPortfolioProjection(rows, Mechanics, marks, t) ]_vars

\* The later of two checkpoints of one as-of time misses nothing the earlier
\* one saw: no row behind a cursor, no older mark.
Supersedes(b, a) ==
  /\ a.rows \subseteq b.rows
  /\ \A m \in a.used, n \in b.used : m.instrument = n.instrument => m = n \/ Earlier(m, n)

\* All checkpoints of one as-of time are points of one history of the store,
\* although rebuilds race with writers and with each other.
CheckpointsAreOneHistory ==
  \A a, b \in checkpoints : a.asOf = b.asOf => Supersedes(a, b) \/ Supersedes(b, a)

\* A projection that was returned has its checkpoint in the store, through
\* lost commits, replays and serialization retries.
ReturnedIsPersisted ==
  \A w \in Workers : work[w].pc = "done" => work[w].made \in checkpoints

\* Every rebuild ends: no retry loop, no two workers waiting for each other.
RebuildsEnd ==
  \A w \in Workers :
    work[w].pc \in {"begun", "built", "inserted"} ~> work[w].pc \in {"done", "failed"}
=============================================================================

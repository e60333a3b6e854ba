----------------------------- MODULE RiskEngine -----------------------------
(***************************************************************************)
(* The stops of internal/risk: the API kill switch, one kill switch per    *)
(* market, the external flag (file or environment variable) and the        *)
(* circuit breaker, as RiskEngineImpl keeps them in memory under state.mu, *)
(* the row RiskStatePersister keeps for a restart, the operators' toggle   *)
(* calls (change memory under the lock, persist the snapshot after it) and *)
(* the pre-trade checks, which read the stops at three different moments.  *)
(***************************************************************************)
EXTENDS Integers

CONSTANTS Operators,    \* callers of the toggle endpoints
          Checks,       \* concurrent calls of CheckPreTrade
          Markets,      \* domain.MarketType
          NoMarket,     \* an order without a market type
          Cooldown,     \* cbConfig.CooldownDuration, in ticks
          LoadCanFail   \* may persister.Load fail at startup?

ASSUME CooldownAssumption == Cooldown \in Nat
ASSUME MarketAssumption ==
  /\ {"global", "flag", "breaker"} \cap Markets = {}
  /\ NoMarket \notin Markets \cup {"global", "flag", "breaker"}
ASSUME LoadAssumption == LoadCanFail \in BOOLEAN

Switches == {"global"} \cup Markets
Stops == Switches \cup {"flag", "breaker"}

VARIABLES active,    \* engineState.ks ("global") and .mks: the switches on in memory
          flag,      \* the file or the environment variable is set
          cb,        \* engineState.cb, with the ticks left to CooldownEnd
          durable,   \* the switches on in the risk_state row
          toggle,    \* per operator: the toggle call in progress
          check,     \* per check: the CheckPreTrade call in progress
          acked      \* switches whose activation returned without an error and
                     \* that nobody has begun to deactivate since

vars == <<active, flag, cb, durable, toggle, check, acked>>

Open == [tripped |-> FALSE, left |-> 0]
NoToggle == [pc |-> "idle", switch |-> "global", on |-> FALSE, snapshot |-> {}]
NoCheck == [pc |-> "idle", market |-> NoMarket, reduce |-> FALSE,
            global |-> FALSE, tripped |-> FALSE, standing |-> {}]

Init ==
  /\ active = {}
  /\ flag \in BOOLEAN
  /\ cb = Open
  /\ durable = {}
  /\ toggle = [w \in Operators |-> NoToggle]
  /\ check = [c \in Checks |-> NoCheck]
  /\ acked = {}

-----------------------------------------------------------------------------
\* Mutant: the breaker reopens one tick early.
checkCooldownEarly(b) == IF b.tripped /\ b.left <= 1 THEN Open ELSE b

checkCooldownLocked(b) == IF b.tripped /\ b.left = 0 THEN Open ELSE b

\* A tripped breaker keeps its reason and its cooldown.
tripLocked(b) == IF b.tripped THEN b ELSE [tripped |-> TRUE, left |-> Cooldown]

\* check[c].standing: the stops in force ever since check c began.
Lifted(stops) == [c \in Checks |-> [check[c] EXCEPT !.standing = @ \ stops]]

SetBreaker(b) ==
  /\ cb' = b
  /\ check' = Lifted(IF b.tripped THEN {} ELSE {"breaker"})

-----------------------------------------------------------------------------
(***************************************************************************)
(* Activate/Deactivate(Market)KillSwitch: the change and the snapshot are  *)
(* one critical section, the save of the snapshot follows the unlock.      *)
(***************************************************************************)
Toggle(w, x, on) ==
  /\ toggle[w].pc = "idle"
  /\ active' = IF on THEN active \cup {x} ELSE active \ {x}
  /\ toggle' = [toggle EXCEPT ![w] =
       [pc |-> "save", switch |-> x, on |-> on, snapshot |-> active']]
  /\ acked' = IF on THEN acked ELSE acked \ {x}
  /\ check' = IF on THEN check ELSE Lifted({x})
  /\ UNCHANGED <<flag, cb, durable>>

\* saveState: the upsert of both columns, and a nil error to the caller.
SaveSucceeds(w) ==
  /\ toggle[w].pc = "save"
  /\ durable' = toggle[w].snapshot
  /\ acked' = IF toggle[w].on THEN acked \cup ({toggle[w].switch} \cap active) ELSE acked
  /\ toggle' = [toggle EXCEPT ![w] = NoToggle]
  /\ UNCHANGED <<active, flag, cb, check>>

\* The caller gets an error; the row may have been written all the same.
SaveFails(w, written) ==
  /\ toggle[w].pc = "save"
  /\ durable' = IF written THEN toggle[w].snapshot ELSE durable
  /\ toggle' = [toggle EXCEPT ![w] = NoToggle]
  /\ UNCHANGED <<active, flag, cb, check, acked>>

\* The file flag appears or disappears, outside the engine.
SetFlag(b) ==
  /\ flag # b
  /\ flag' = b
  /\ check' = Lifted(IF b THEN {} ELSE {"flag"})
  /\ UNCHANGED <<active, cb, durable, toggle, acked>>

-----------------------------------------------------------------------------
TripCircuitBreaker ==
  /\ SetBreaker(tripLocked(cb))
  /\ UNCHANGED <<active, flag, durable, toggle, acked>>

ResetCircuitBreaker ==
  /\ SetBreaker(Open)
  /\ UNCHANGED <<active, flag, durable, toggle, acked>>

\* breach: one of the three thresholds is exceeded.
UpdateMetrics(breach) ==
  LET b == checkCooldownLocked(cb) IN
  /\ SetBreaker(IF breach THEN tripLocked(b) ELSE b)
  /\ UNCHANGED <<active, flag, durable, toggle, acked>>

GetStatus ==
  /\ SetBreaker(checkCooldownLocked(cb))
  /\ UNCHANGED <<active, flag, durable, toggle, acked>>

Tick ==
  /\ cb.left > 0
  /\ cb' = [cb EXCEPT !.left = @ - 1]
  /\ UNCHANGED <<active, flag, durable, toggle, check, acked>>

-----------------------------------------------------------------------------
(***************************************************************************)
(* CheckPreTrade: the API switch and the breaker are read under the lock,  *)
(* then the external mechanisms without it, then the market's switch under *)
(* the lock again; the breaker verdict uses the value read first.          *)
(***************************************************************************)
InForce(b) == active \cup (IF flag THEN {"flag"} ELSE {})
                     \cup (IF b.tripped THEN {"breaker"} ELSE {})

\* Mutant: the breaker is not read.
BeginCheckNoBreaker(c, m, reduce) ==
  /\ check[c].pc = "idle"
  /\ check' = [check EXCEPT ![c] =
       [pc |-> "external", market |-> m, reduce |-> reduce,
        global |-> "global" \in active, tripped |-> FALSE, standing |-> InForce(cb)]]
  /\ UNCHANGED <<active, flag, cb, durable, toggle, acked>>

BeginCheck(c, m, reduce) ==
  LET b == checkCooldownLocked(cb) IN
  /\ check[c].pc = "idle"
  /\ cb' = b
  /\ check' = [Lifted(IF b.tripped THEN {} ELSE {"breaker"}) EXCEPT ![c] =
       [pc |-> "external", market |-> m, reduce |-> reduce,
        global |-> "global" \in active, tripped |-> b.tripped, standing |-> InForce(b)]]
  /\ UNCHANGED <<active, flag, durable, toggle, acked>>

Verdict(c, stopped, next) ==
  check' = [check EXCEPT ![c].pc =
              IF stopped /\ ~check[c].reduce THEN "rejected" ELSE next]

ReadExternal(c) ==
  /\ check[c].pc = "external"
  /\ Verdict(c, check[c].global \/ flag, "market")
  /\ UNCHANGED <<active, flag, cb, durable, toggle, acked>>

ReadMarket(c) ==
  /\ check[c].pc = "market"
  /\ Verdict(c, check[c].market \in active \/ check[c].tripped, "approved")
  /\ UNCHANGED <<active, flag, cb, durable, toggle, acked>>

EndCheck(c) ==
  /\ check[c].pc \in {"approved", "rejected"}
  /\ check' = [check EXCEPT ![c] = NoCheck]
  /\ UNCHANGED <<active, flag, cb, durable, toggle, acked>>

-----------------------------------------------------------------------------
\* Mutant: market switches are not restored.
RestartGlobalOnly(loaded) ==
  /\ loaded \/ LoadCanFail
  /\ active' = IF loaded THEN durable \cap {"global"} ELSE {"global"}
  /\ cb' = Open
  /\ toggle' = [w \in Operators |-> NoToggle]
  /\ check' = [c \in Checks |-> NoCheck]
  /\ UNCHANGED <<flag, durable, acked>>

\* The process dies and WithStatePersister runs again; a failed Load fails
\* closed in memory and leaves the row alone.
Restart(loaded) ==
  /\ loaded \/ LoadCanFail
  /\ active' = IF loaded THEN durable ELSE {"global"}
  /\ cb' = Open
  /\ toggle' = [w \in Operators |-> NoToggle]
  /\ check' = [c \in Checks |-> NoCheck]
  /\ UNCHANGED <<flag, durable, acked>>

Next ==
  \/ \E w \in Operators : \/ \E x \in Switches, on \in BOOLEAN : Toggle(w, x, on)
                          \/ SaveSucceeds(w)
                          \/ \E written \in BOOLEAN : SaveFails(w, written)
  \/ \E b \in BOOLEAN : SetFlag(b)
  \/ TripCircuitBreaker
  \/ ResetCircuitBreaker
  \/ \E breach \in BOOLEAN : UpdateMetrics(breach)
  \/ GetStatus
  \/ Tick
  \/ \E c \in Checks : \/ \E m \in Markets \cup {NoMarket}, reduce \in BOOLEAN :
                            BeginCheck(c, m, reduce)
                       \/ ReadExternal(c)
                       \/ ReadMarket(c)
                       \/ EndCheck(c)
  \/ \E loaded \in BOOLEAN : Restart(loaded)

Spec == Init /\ [][Next]_vars

-----------------------------------------------------------------------------
Breaker == [tripped : BOOLEAN, left : 0..Cooldown]

ToggleCall == [pc : {"idle", "save"}, switch : Switches, on : BOOLEAN,
               snapshot : SUBSET Switches]

CheckCall == [pc : {"idle", "external", "market", "approved", "rejected"},
              market : Markets \cup {NoMarket}, reduce : BOOLEAN,
              global : BOOLEAN, tripped : BOOLEAN, standing : SUBSET Stops]

\* Every field of the engine and of the calls in progress has its type.
TypeOK ==
  /\ active \subseteq Switches
  /\ flag \in BOOLEAN
  /\ cb \in Breaker
  /\ durable \subseteq Switches
  /\ toggle \in [Operators -> ToggleCall]
  /\ check \in [Checks -> CheckCall]
  /\ acked \subseteq Switches

\* CheckPreTrade reads the stops at three moments and never all at once, but an
\* order that adds risk is approved only if no stop that applies to it stood
\* from the call's beginning to its verdict; a reduce-only order is never
\* rejected for a stop.
VerdictsRespectStops ==
  \A c \in Checks :
    /\ check[c].pc = "approved" /\ ~check[c].reduce =>
         {"global", "flag", "breaker", check[c].market} \cap check[c].standing = {}
    /\ check[c].reduce => check[c].pc # "rejected"

\* A tripped breaker opens only when its cooldown has run out, on a manual reset
\* or on a restart, and a further trip never postpones that moment.
BreakerServesCooldown ==
  [][ cb.tripped /\ cb.left > 0 =>
        \/ cb'.tripped /\ cb'.left <= cb.left
        \/ ResetCircuitBreaker
        \/ \E loaded \in BOOLEAN : Restart(loaded) ]_vars

\* saveState: "callers receive persistence errors so they never mistake a
\* restart-unsafe toggle for a durable one".  A switch whose activation was
\* reported without an error stays in force, across restarts too, until somebody
\* deactivates it.
AcknowledgedStopHolds ==
  \A x \in acked : x \in active \/ "global" \in active

\* An acknowledged switch is on in the row at every moment, also between the
\* memory change and the save of a later toggle, so a crash at any point restores
\* it.
AcknowledgedStopIsDurable == acked \subseteq durable
=============================================================================

-------------------------- MODULE RiskEngineProofs --------------------------
(***************************************************************************)
(* Proofs about RiskEngine for any number of operators, checks and markets *)
(* and any cooldown.  The verdict theorem rests on an invariant that       *)
(* follows a check through its three reads: what it recorded covers every  *)
(* stop that has stood since it began.                                     *)
(***************************************************************************)
EXTENDS RiskEngine, TLAPS

\* A stop recorded as standing is in force.
Standing == \A c \in Checks : check[c].standing \subseteq InForce(cb)

\* After each read, the stops already examined either are not standing or will
\* reject the order.
Reading ==
  \A c \in Checks :
    /\ check[c].pc = "external" =>
         /\ "global" \in check[c].standing => check[c].global
         /\ "breaker" \in check[c].standing => check[c].tripped
    /\ check[c].pc = "market" /\ ~check[c].reduce =>
         /\ {"global", "flag"} \cap check[c].standing = {}
         /\ "breaker" \in check[c].standing => check[c].tripped

IInv == TypeOK /\ Standing /\ Reading /\ VerdictsRespectStops

-----------------------------------------------------------------------------
\* The initial state satisfies the invariant.
LEMMA InitIInv == Init => IInv
<1> SUFFICES ASSUME Init PROVE IInv
  OBVIOUS
<1>1. Open \in Breaker
  BY CooldownAssumption DEF Open, Breaker
<1>2. NoToggle \in ToggleCall
  BY DEF NoToggle, ToggleCall, Switches
<1>3. NoCheck \in CheckCall
  BY DEF NoCheck, CheckCall
<1>4. TypeOK
  BY <1>1, <1>2, <1>3 DEF Init, TypeOK
<1>5. Standing /\ Reading /\ VerdictsRespectStops
  BY DEF Init, Standing, Reading, VerdictsRespectStops, NoCheck, InForce
<1> QED
  BY <1>4, <1>5 DEF IInv

\* Lifted removes stops from what each check has standing and nothing else.
LEMMA LiftedFields ==
  ASSUME TypeOK, NEW S
  PROVE  /\ Lifted(S) \in [Checks -> CheckCall]
         /\ \A c \in Checks :
              /\ Lifted(S)[c].pc = check[c].pc
              /\ Lifted(S)[c].market = check[c].market
              /\ Lifted(S)[c].reduce = check[c].reduce
              /\ Lifted(S)[c].global = check[c].global
              /\ Lifted(S)[c].tripped = check[c].tripped
              /\ Lifted(S)[c].standing = check[c].standing \ S
<1>1. \A c \in Checks : check[c] \in CheckCall
  BY DEF TypeOK
<1>2. \A c \in Checks : [check[c] EXCEPT !.standing = @ \ S] \in CheckCall
  BY <1>1 DEF CheckCall
<1> QED
  BY <1>1, <1>2 DEF Lifted, CheckCall

\* A step that only withdraws stops from what is standing keeps the facts about
\* the checks, provided what is left is still in force.
LEMMA LiftedKeeps ==
  ASSUME IInv, NEW S, check' = Lifted(S),
         InForce(cb) \ S \subseteq InForce(cb)'
  PROVE  Standing' /\ Reading' /\ VerdictsRespectStops'
<1>1. TypeOK
  BY DEF IInv
<1>2. \A c \in Checks :
        /\ check'[c].pc = check[c].pc
        /\ check'[c].market = check[c].market
        /\ check'[c].reduce = check[c].reduce
        /\ check'[c].global = check[c].global
        /\ check'[c].tripped = check[c].tripped
        /\ check'[c].standing = check[c].standing \ S
  BY <1>1, LiftedFields
<1>3. Standing'
  BY <1>2 DEF IInv, Standing
<1>4. Reading'
  BY <1>2 DEF IInv, Reading
<1>5. VerdictsRespectStops'
  BY <1>2 DEF IInv, VerdictsRespectStops
<1> QED
  BY <1>3, <1>4, <1>5

\* The same for a step that leaves the checks alone and withdraws no stop.
LEMMA SameChecks ==
  ASSUME IInv, check' = check, InForce(cb) \subseteq InForce(cb)'
  PROVE  Standing' /\ Reading' /\ VerdictsRespectStops'
<1>1. Standing'
  BY DEF IInv, Standing
<1>2. Reading' /\ VerdictsRespectStops'
  BY DEF IInv, Reading, VerdictsRespectStops
<1> QED
  BY <1>1, <1>2

\* The breaker operations return breakers.
LEMMA BreakerTypes ==
  ASSUME NEW b \in Breaker
  PROVE  /\ Open \in Breaker
         /\ checkCooldownLocked(b) \in Breaker
         /\ tripLocked(b) \in Breaker
  BY CooldownAssumption DEF Breaker, Open, checkCooldownLocked, tripLocked

-----------------------------------------------------------------------------
\* A toggle withdraws at most the switch it turns off.
LEMMA ToggleIInv ==
  ASSUME IInv, NEW w \in Operators, NEW x \in Switches, NEW on \in BOOLEAN,
         Toggle(w, x, on)
  PROVE  IInv'
<1>1. TypeOK
  BY DEF IInv
<1>2. active' \subseteq Switches /\ acked' \subseteq Switches
  BY <1>1 DEF Toggle, TypeOK
<1>3. [pc |-> "save", switch |-> x, on |-> on, snapshot |-> active'] \in ToggleCall
  BY <1>2 DEF ToggleCall
<1>4. toggle' \in [Operators -> ToggleCall]
  BY <1>1, <1>3 DEF Toggle, TypeOK
<1>5. check' \in [Checks -> CheckCall]
  BY <1>1, LiftedFields DEF Toggle, TypeOK
<1>6. TypeOK'
  BY <1>1, <1>2, <1>4, <1>5 DEF Toggle, TypeOK
<1>7. CASE on
  <2>1. check' = check /\ InForce(cb) \subseteq InForce(cb)'
    BY <1>7 DEF Toggle, InForce
  <2> QED
    BY <1>6, <2>1, SameChecks DEF IInv
<1>8. CASE ~on
  <2>1. check' = Lifted({x}) /\ InForce(cb) \ {x} \subseteq InForce(cb)'
    BY <1>8 DEF Toggle, InForce
  <2> QED
    BY <1>6, <2>1, LiftedKeeps DEF IInv
<1> QED
  BY <1>7, <1>8

\* The save of a snapshot touches neither the memory nor the checks.
LEMMA SaveIInv ==
  ASSUME IInv, NEW w \in Operators,
         SaveSucceeds(w) \/ \E written \in BOOLEAN : SaveFails(w, written)
  PROVE  IInv'
<1>1. TypeOK
  BY DEF IInv
<1>2. toggle[w] \in ToggleCall /\ NoToggle \in ToggleCall
  BY <1>1 DEF TypeOK, NoToggle, ToggleCall, Switches
<1>3. toggle[w].snapshot \subseteq Switches /\ toggle[w].switch \in Switches
  BY <1>2 DEF ToggleCall
<1>4. durable' \subseteq Switches /\ acked' \subseteq Switches
  BY <1>1, <1>3 DEF SaveSucceeds, SaveFails, TypeOK
<1>5. toggle' \in [Operators -> ToggleCall]
  BY <1>1, <1>2 DEF SaveSucceeds, SaveFails, TypeOK
<1>6. UNCHANGED <<active, flag, cb, check>>
  BY DEF SaveSucceeds, SaveFails
<1>7. TypeOK'
  BY <1>1, <1>4, <1>5, <1>6 DEF TypeOK
<1>8. InForce(cb) \subseteq InForce(cb)'
  BY <1>6 DEF InForce
<1> QED
  BY <1>6, <1>7, <1>8, SameChecks DEF IInv

\* The external flag.
LEMMA SetFlagIInv ==
  ASSUME IInv, NEW b \in BOOLEAN, SetFlag(b)
  PROVE  IInv'
<1> DEFINE S == IF b THEN {} ELSE {"flag"}
<1>1. TypeOK
  BY DEF IInv
<1>2. check' = Lifted(S)
  BY DEF SetFlag
<1>3. InForce(cb) \ S \subseteq InForce(cb)'
  BY DEF SetFlag, InForce
<1>4. TypeOK'
  BY <1>1, <1>2, LiftedFields DEF SetFlag, TypeOK
<1> HIDE DEF S
<1> QED
  BY <1>2, <1>3, <1>4, LiftedKeeps DEF IInv

\* Every operation on the breaker alone.
LEMMA SetBreakerIInv ==
  ASSUME IInv, NEW b \in Breaker, SetBreaker(b),
         UNCHANGED <<active, flag, durable, toggle, acked>>
  PROVE  IInv'
<1> DEFINE S == IF b.tripped THEN {} ELSE {"breaker"}
<1>1. TypeOK
  BY DEF IInv
<1>2. check' = Lifted(S)
  BY DEF SetBreaker
<1>3. InForce(cb) \ S \subseteq InForce(cb)'
  BY DEF SetBreaker, InForce
<1>4. TypeOK'
  BY <1>1, <1>2, LiftedFields DEF SetBreaker, TypeOK
<1> HIDE DEF S
<1> QED
  BY <1>2, <1>3, <1>4, LiftedKeeps DEF IInv

\* Time passing leaves the breaker as it is.
LEMMA TickIInv == ASSUME IInv, Tick PROVE IInv'
<1>1. cb \in Breaker
  BY DEF IInv, TypeOK
<1>2. cb' \in Breaker /\ cb'.tripped = cb.tripped
  BY <1>1, CooldownAssumption DEF Tick, Breaker
<1>3. TypeOK'
  BY <1>2 DEF IInv, TypeOK, Tick
<1>4. check' = check /\ InForce(cb) \subseteq InForce(cb)'
  BY <1>2 DEF Tick, InForce
<1> QED
  BY <1>3, <1>4, SameChecks DEF IInv

\* A check records the stops it reads first, and its cooldown test may clear the
\* breaker under the other checks.
LEMMA BeginCheckIInv ==
  ASSUME IInv, NEW c \in Checks, NEW m \in Markets \cup {NoMarket},
         NEW reduce \in BOOLEAN, BeginCheck(c, m, reduce)
  PROVE  IInv'
<1> DEFINE b == checkCooldownLocked(cb)
           S == IF b.tripped THEN {} ELSE {"breaker"}
           new == [pc |-> "external", market |-> m, reduce |-> reduce,
                   global |-> "global" \in active, tripped |-> b.tripped,
                   standing |-> InForce(b)]
<1>1. TypeOK
  BY DEF IInv
<1>2. b \in Breaker
  BY <1>1, BreakerTypes DEF TypeOK
<1>3. b.tripped \in BOOLEAN
  BY <1>2 DEF Breaker
<1>4. InForce(b) \subseteq Stops
  BY <1>1 DEF TypeOK, InForce, Stops, Switches
<1>5. new \in CheckCall
  BY <1>3, <1>4 DEF CheckCall
<1>6. check' = [Lifted(S) EXCEPT ![c] = new] /\ cb' = b
  BY DEF BeginCheck
<1>7. Lifted(S) \in [Checks -> CheckCall]
  BY <1>1, LiftedFields
<1>8. check' \in [Checks -> CheckCall]
  BY <1>5, <1>6, <1>7
<1>9. TypeOK'
  BY <1>1, <1>2, <1>6, <1>8 DEF TypeOK, BeginCheck
<1>10. check'[c] = new /\ \A d \in Checks \ {c} : check'[d] = Lifted(S)[d]
  BY <1>6, <1>7
<1>11. InForce(cb)' = InForce(b)
  BY <1>6 DEF InForce, BeginCheck
<1>12. \A d \in Checks \ {c} :
         /\ check'[d].pc = check[d].pc
         /\ check'[d].market = check[d].market
         /\ check'[d].reduce = check[d].reduce
         /\ check'[d].global = check[d].global
         /\ check'[d].tripped = check[d].tripped
         /\ check'[d].standing = check[d].standing \ S
  BY <1>1, <1>10, LiftedFields
<1>13. InForce(cb) \ S \subseteq InForce(b)
  BY DEF InForce
<1>14. Standing'
  <2>1. check'[c].standing \subseteq InForce(cb)'
    BY <1>10, <1>11
  <2>2. \A d \in Checks \ {c} : check'[d].standing \subseteq InForce(cb)'
    BY <1>11, <1>12, <1>13 DEF IInv, Standing
  <2> QED
    BY <2>1, <2>2 DEF Standing
<1>15. /\ "global" \in InForce(b) => "global" \in active
       /\ "breaker" \in InForce(b) => b.tripped
  BY <1>1, MarketAssumption DEF TypeOK, InForce, Switches
<1>16. /\ check'[c].pc = "external"
       /\ "global" \in check'[c].standing => check'[c].global
       /\ "breaker" \in check'[c].standing => check'[c].tripped
  <2>1. new.pc = "external" /\ new.standing = InForce(b) /\ new.tripped = b.tripped
    OBVIOUS
  <2>2. "global" \in active => new.global
    OBVIOUS
  <2> HIDE DEF b, new
  <2> QED
    BY <1>10, <1>15, <2>1, <2>2
<1> HIDE DEF b, S, new
<1>17. Reading'
  BY <1>12, <1>16 DEF IInv, Reading
<1>18. VerdictsRespectStops'
  BY <1>12, <1>16 DEF IInv, VerdictsRespectStops
<1> QED
  BY <1>9, <1>14, <1>17, <1>18 DEF IInv

\* A read that moves check c on and changes no other field of it.
LEMMA VerdictFields ==
  ASSUME TypeOK, NEW c \in Checks, NEW stopped \in BOOLEAN,
         NEW next \in {"market", "approved"}, Verdict(c, stopped, next)
  PROVE  /\ check' \in [Checks -> CheckCall]
         /\ check'[c].pc = IF stopped /\ ~check[c].reduce THEN "rejected" ELSE next
         /\ check'[c].market = check[c].market
         /\ check'[c].reduce = check[c].reduce
         /\ check'[c].global = check[c].global
         /\ check'[c].tripped = check[c].tripped
         /\ check'[c].standing = check[c].standing
         /\ \A d \in Checks \ {c} : check'[d] = check[d]
<1> DEFINE pc == IF stopped /\ ~check[c].reduce THEN "rejected" ELSE next
<1>1. check[c] \in CheckCall
  BY DEF TypeOK
<1>2. pc \in {"market", "approved", "rejected"}
  OBVIOUS
<1>3. check' = [check EXCEPT ![c] = [check[c] EXCEPT !.pc = pc]]
  BY DEF Verdict, TypeOK
<1> HIDE DEF pc
<1>4. [check[c] EXCEPT !.pc = pc] \in CheckCall
  BY <1>1, <1>2 DEF CheckCall
<1>5. check' \in [Checks -> CheckCall]
  BY <1>3, <1>4 DEF TypeOK
<1>6. check'[c] = [check[c] EXCEPT !.pc = pc]
  BY <1>3 DEF TypeOK
<1>7. /\ check'[c].pc = pc
      /\ check'[c].market = check[c].market
      /\ check'[c].reduce = check[c].reduce
      /\ check'[c].global = check[c].global
      /\ check'[c].tripped = check[c].tripped
      /\ check'[c].standing = check[c].standing
  BY <1>1, <1>6 DEF CheckCall
<1>8. \A d \in Checks \ {c} : check'[d] = check[d]
  BY <1>3 DEF TypeOK
<1> QED
  BY <1>5, <1>7, <1>8 DEF pc

\* The external mechanisms are read after the API switch.
LEMMA ReadExternalIInv ==
  ASSUME IInv, NEW c \in Checks, ReadExternal(c)
  PROVE  IInv'
<1> DEFINE stopped == check[c].global \/ flag
<1>1. TypeOK
  BY DEF IInv
<1>2. check[c].pc = "external" /\ Verdict(c, stopped, "market")
  BY DEF ReadExternal
<1>3. stopped \in BOOLEAN
  OBVIOUS
<1>4. /\ check' \in [Checks -> CheckCall]
      /\ check'[c].pc = IF stopped /\ ~check[c].reduce THEN "rejected" ELSE "market"
      /\ check'[c].market = check[c].market
      /\ check'[c].reduce = check[c].reduce
      /\ check'[c].global = check[c].global
      /\ check'[c].tripped = check[c].tripped
      /\ check'[c].standing = check[c].standing
      /\ \A d \in Checks \ {c} : check'[d] = check[d]
  BY <1>1, <1>2, <1>3, VerdictFields
<1>5. TypeOK'
  BY <1>1, <1>4 DEF TypeOK, ReadExternal
<1>6. InForce(cb)' = InForce(cb)
  BY DEF ReadExternal, InForce
<1>7. Standing'
  BY <1>4, <1>6 DEF IInv, Standing
<1>8. "flag" \in check[c].standing => flag
  BY <1>1, MarketAssumption DEF IInv, Standing, InForce, TypeOK, Switches
<1>9. Reading'
  BY <1>2, <1>4, <1>8 DEF IInv, Reading
<1>10. VerdictsRespectStops'
  BY <1>2, <1>4 DEF IInv, VerdictsRespectStops
<1> QED
  BY <1>5, <1>7, <1>9, <1>10 DEF IInv

\* The market's switch is read last, and decides together with the breaker.
LEMMA ReadMarketIInv ==
  ASSUME IInv, NEW c \in Checks, ReadMarket(c)
  PROVE  IInv'
<1> DEFINE stopped == check[c].market \in active \/ check[c].tripped
<1>1. TypeOK
  BY DEF IInv
<1>2. check[c].pc = "market" /\ Verdict(c, stopped, "approved")
  BY DEF ReadMarket
<1>3. stopped \in BOOLEAN
  OBVIOUS
<1>4. /\ check' \in [Checks -> CheckCall]
      /\ check'[c].pc = IF stopped /\ ~check[c].reduce THEN "rejected" ELSE "approved"
      /\ check'[c].market = check[c].market
      /\ check'[c].reduce = check[c].reduce
      /\ check'[c].global = check[c].global
      /\ check'[c].tripped = check[c].tripped
      /\ check'[c].standing = check[c].standing
      /\ \A d \in Checks \ {c} : check'[d] = check[d]
  BY <1>1, <1>2, <1>3, VerdictFields
<1>5. TypeOK'
  BY <1>1, <1>4 DEF TypeOK, ReadMarket
<1>6. InForce(cb)' = InForce(cb)
  BY DEF ReadMarket, InForce
<1>7. Standing'
  BY <1>4, <1>6 DEF IInv, Standing
<1>8. Reading'
  BY <1>4 DEF IInv, Reading
<1>9. check[c].market \in Markets \cup {NoMarket} /\ check[c].standing \subseteq Stops
  BY <1>1 DEF TypeOK, CheckCall
<1>10. check[c].market \in check[c].standing => check[c].market \in active
  BY <1>1, <1>9, MarketAssumption DEF IInv, Standing, InForce, TypeOK, Stops, Switches
<1>11. VerdictsRespectStops'
  BY <1>2, <1>4, <1>10 DEF IInv, Reading, VerdictsRespectStops
<1> QED
  BY <1>5, <1>7, <1>8, <1>11 DEF IInv

\* The end of a check forgets what it recorded.
LEMMA EndCheckIInv ==
  ASSUME IInv, NEW c \in Checks, EndCheck(c)
  PROVE  IInv'
<1>1. TypeOK
  BY DEF IInv
<1>2. NoCheck \in CheckCall
  BY DEF NoCheck, CheckCall
<1>3. check' = [check EXCEPT ![c] = NoCheck]
  BY DEF EndCheck
<1>4. check'[c] = NoCheck /\ \A d \in Checks \ {c} : check'[d] = check[d]
  BY <1>1, <1>3 DEF TypeOK
<1>5. TypeOK'
  BY <1>1, <1>2, <1>3 DEF TypeOK, EndCheck
<1>6. InForce(cb)' = InForce(cb)
  BY DEF EndCheck, InForce
<1>7. NoCheck.pc = "idle" /\ NoCheck.standing = {} /\ NoCheck.reduce = FALSE
  BY DEF NoCheck
<1>8. Standing' /\ Reading' /\ VerdictsRespectStops'
  BY <1>4, <1>6, <1>7 DEF IInv, Standing, Reading, VerdictsRespectStops
<1> QED
  BY <1>5, <1>8 DEF IInv

\* A restart ends every call and restores what the row holds.
LEMMA RestartIInv ==
  ASSUME IInv, NEW loaded \in BOOLEAN, Restart(loaded)
  PROVE  IInv'
<1>1. TypeOK
  BY DEF IInv
<1>2. Open \in Breaker
  BY CooldownAssumption DEF Open, Breaker
<1>3. NoToggle \in ToggleCall
  BY DEF NoToggle, ToggleCall, Switches
<1>4. NoCheck \in CheckCall
  BY DEF NoCheck, CheckCall
<1>5. active' \subseteq Switches
  BY <1>1 DEF Restart, TypeOK, Switches
<1>6. TypeOK'
  BY <1>1, <1>2, <1>3, <1>4, <1>5 DEF TypeOK, Restart
<1>7. \A c \in Checks : check'[c] = NoCheck
  BY DEF Restart
<1>8. NoCheck.pc = "idle" /\ NoCheck.standing = {} /\ NoCheck.reduce = FALSE
  BY DEF NoCheck
<1>9. Standing' /\ Reading' /\ VerdictsRespectStops'
  BY <1>7, <1>8 DEF Standing, Reading, VerdictsRespectStops
<1> QED
  BY <1>6, <1>9 DEF IInv

-----------------------------------------------------------------------------
\* The invariant is inductive.
LEMMA NextIInv == IInv /\ [Next]_vars => IInv'
<1> SUFFICES ASSUME IInv, [Next]_vars PROVE IInv'
  OBVIOUS
<1>0. cb \in Breaker
  BY DEF IInv, TypeOK
<1>1. CASE \E w \in Operators, x \in Switches, on \in BOOLEAN : Toggle(w, x, on)
  BY <1>1, ToggleIInv
<1>2. CASE \E w \in Operators :
             SaveSucceeds(w) \/ \E written \in BOOLEAN : SaveFails(w, written)
  BY <1>2, SaveIInv
<1>3. CASE \E b \in BOOLEAN : SetFlag(b)
  BY <1>3, SetFlagIInv
<1>4. CASE TripCircuitBreaker
  BY <1>0, <1>4, BreakerTypes, SetBreakerIInv DEF TripCircuitBreaker
<1>5. CASE ResetCircuitBreaker
  BY <1>0, <1>5, BreakerTypes, SetBreakerIInv DEF ResetCircuitBreaker
<1>6. CASE \E breach \in BOOLEAN : UpdateMetrics(breach)
  <2> PICK breach \in BOOLEAN : UpdateMetrics(breach)
    BY <1>6
  <2> DEFINE b == checkCooldownLocked(cb)
             d == IF breach THEN tripLocked(b) ELSE b
  <2>1. b \in Breaker
    BY <1>0, BreakerTypes
  <2>2. tripLocked(b) \in Breaker
    BY <2>1, BreakerTypes
  <2>3. d \in Breaker
    BY <2>1, <2>2
  <2>4. SetBreaker(d) /\ UNCHANGED <<active, flag, durable, toggle, acked>>
    BY DEF UpdateMetrics
  <2> HIDE DEF d
  <2> QED
    BY <2>3, <2>4, SetBreakerIInv
<1>7. CASE GetStatus
  BY <1>0, <1>7, BreakerTypes, SetBreakerIInv DEF GetStatus
<1>8. CASE Tick
  BY <1>8, TickIInv
<1>9. CASE \E c \in Checks, m \in Markets \cup {NoMarket}, reduce \in BOOLEAN :
             BeginCheck(c, m, reduce)
  BY <1>9, BeginCheckIInv
<1>10. CASE \E c \in Checks : ReadExternal(c) \/ ReadMarket(c) \/ EndCheck(c)
  BY <1>10, ReadExternalIInv, ReadMarketIInv, EndCheckIInv
<1>11. CASE \E loaded \in BOOLEAN : Restart(loaded)
  BY <1>11, RestartIInv
<1>12. CASE UNCHANGED vars
  <2>1. TypeOK' /\ check' = check /\ InForce(cb) \subseteq InForce(cb)'
    BY <1>12 DEF IInv, TypeOK, vars, InForce
  <2> QED
    BY <2>1, SameChecks DEF IInv
<1> QED
  BY <1>1, <1>2, <1>3, <1>4, <1>5, <1>6, <1>7, <1>8, <1>9, <1>10, <1>11, <1>12
  DEF Next

\* The invariant holds in every reachable state of the risk engine.
THEOREM Invariance == Spec => []IInv
<1> QED
  BY InitIInv, NextIInv, PTL DEF Spec

\* No interleaving of toggles, flag changes, breaker operations, restarts and
\* checks lets CheckPreTrade approve new risk through a stop that stood for the
\* whole call, or reject a reduce-only order.
THEOREM VerdictsAreSound == Spec => []VerdictsRespectStops
<1>1. IInv => VerdictsRespectStops
  BY DEF IInv
<1> QED
  BY <1>1, Invariance, PTL

-----------------------------------------------------------------------------
\* Only the reset, a restart and an expired cooldown open a tripped breaker.
LEMMA BreakerStep ==
  ASSUME IInv, [Next]_vars, cb.tripped, cb.left > 0
  PROVE  \/ cb'.tripped /\ cb'.left <= cb.left
         \/ ResetCircuitBreaker
         \/ \E loaded \in BOOLEAN : Restart(loaded)
<1>1. cb \in Breaker
  BY DEF IInv, TypeOK
<1>2. cb.tripped = TRUE /\ cb.left \in Nat /\ cb.left # 0
  BY <1>1, CooldownAssumption DEF Breaker
<1>3. checkCooldownLocked(cb) = cb /\ tripLocked(cb) = cb
  BY <1>2 DEF checkCooldownLocked, tripLocked
<1>4. CASE cb' = cb
  BY <1>2, <1>4
<1>5. CASE Tick
  BY <1>1, <1>2, <1>5 DEF Tick, Breaker
<1>6. CASE UNCHANGED vars
  BY <1>4, <1>6 DEF vars
<1> QED
  BY <1>3, <1>4, <1>5, <1>6
  DEF Next, Toggle, SaveSucceeds, SaveFails, SetFlag, SetBreaker, TripCircuitBreaker,
      UpdateMetrics, GetStatus, BeginCheck, ReadExternal, ReadMarket, EndCheck

\* A tripped breaker serves its cooldown, whatever trips, metrics and status
\* reads come in between.
THEOREM BreakersServeCooldown == Spec => BreakerServesCooldown
<1> DEFINE A == cb.tripped /\ cb.left > 0 =>
                  \/ cb'.tripped /\ cb'.left <= cb.left
                  \/ ResetCircuitBreaker
                  \/ \E loaded \in BOOLEAN : Restart(loaded)
<1>1. IInv /\ [Next]_vars => [A]_vars
  BY BreakerStep
<1> HIDE DEF A
<1>2. Spec => [][A]_vars
  BY <1>1, Invariance, PTL DEF Spec
<1> QED
  BY <1>2 DEF BreakerServesCooldown, A

-----------------------------------------------------------------------------
(***************************************************************************)
(* Durability, under the two conditions the code needs for it: toggle      *)
(* calls do not overlap and the row can be read at every restart.          *)
(***************************************************************************)
OneToggleAtATime == \A v, w \in Operators : v = w

\* A snapshot on its way to the row is the memory; an acknowledged switch is in
\* memory and in the row.
Durability ==
  /\ acked \subseteq active
  /\ acked \subseteq durable
  /\ \A w \in Operators : toggle[w].pc = "save" => toggle[w].snapshot = active

\* Durability is inductive under these conditions.
LEMMA DurabilityStep ==
  ASSUME OneToggleAtATime, ~LoadCanFail, IInv, Durability, [Next]_vars
  PROVE  Durability'
<1>1. toggle \in [Operators -> ToggleCall]
  BY DEF IInv, TypeOK
<1>2. NoToggle.pc = "idle"
  BY DEF NoToggle
<1>3. ASSUME NEW w \in Operators, NEW x \in Switches, NEW on \in BOOLEAN,
             Toggle(w, x, on)
      PROVE  Durability'
  <2>1. toggle'[w].snapshot = active'
    BY <1>1, <1>3 DEF Toggle
  <2>2. \A v \in Operators : v = w
    BY DEF OneToggleAtATime
  <2>3. acked' \subseteq active' /\ acked' \subseteq durable'
    BY <1>3 DEF Toggle, Durability
  <2> QED
    BY <2>1, <2>2, <2>3 DEF Durability
<1>4. ASSUME NEW w \in Operators,
             SaveSucceeds(w) \/ \E written \in BOOLEAN : SaveFails(w, written)
      PROVE  Durability'
  <2>1. toggle[w].snapshot = active
    BY <1>4 DEF SaveSucceeds, SaveFails, Durability
  <2>2. toggle'[w].pc = "idle"
    BY <1>1, <1>2, <1>4 DEF SaveSucceeds, SaveFails
  <2>3. \A v \in Operators : v = w
    BY DEF OneToggleAtATime
  <2>4. acked' \subseteq active' /\ acked' \subseteq durable'
    BY <1>4, <2>1 DEF SaveSucceeds, SaveFails, Durability
  <2> QED
    BY <2>2, <2>3, <2>4 DEF Durability
<1>5. ASSUME NEW loaded \in BOOLEAN, Restart(loaded)
      PROVE  Durability'
  <2>1. active' = durable /\ UNCHANGED <<durable, acked>>
    BY <1>5 DEF Restart
  <2>2. \A w \in Operators : toggle'[w].pc = "idle"
    BY <1>2, <1>5 DEF Restart
  <2> QED
    BY <2>1, <2>2 DEF Durability
<1>6. CASE UNCHANGED <<active, durable, toggle, acked>>
  BY <1>6 DEF Durability
<1> QED
  BY <1>3, <1>4, <1>5, <1>6
  DEF Next, vars, SetFlag, TripCircuitBreaker, ResetCircuitBreaker, UpdateMetrics,
      GetStatus, Tick, BeginCheck, ReadExternal, ReadMarket, EndCheck

\* When toggle calls do not overlap and the row can be read at startup, a switch
\* whose activation returned without an error is in the row, whatever saves fail
\* and wherever the process dies.
THEOREM AcknowledgedStopsAreDurable ==
  ASSUME OneToggleAtATime, ~LoadCanFail
  PROVE  Spec => []AcknowledgedStopIsDurable
<1>1. Init => Durability
  BY DEF Init, Durability, NoToggle
<1>2. IInv /\ Durability /\ [Next]_vars => Durability'
  BY DurabilityStep
<1>3. Durability => AcknowledgedStopIsDurable
  BY DEF Durability, AcknowledgedStopIsDurable
<1> QED
  BY <1>1, <1>2, <1>3, Invariance, PTL DEF Spec

\* Under the same conditions such a switch is in force until somebody begins to
\* deactivate it.
THEOREM AcknowledgedStopsHold ==
  ASSUME OneToggleAtATime, ~LoadCanFail
  PROVE  Spec => []AcknowledgedStopHolds
<1>1. Init => Durability
  BY DEF Init, Durability, NoToggle
<1>2. IInv /\ Durability /\ [Next]_vars => Durability'
  BY DurabilityStep
<1>3. Durability => AcknowledgedStopHolds
  BY DEF Durability, AcknowledgedStopHolds
<1> QED
  BY <1>1, <1>2, <1>3, Invariance, PTL DEF Spec
=============================================================================

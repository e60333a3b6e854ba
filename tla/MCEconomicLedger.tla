-------------------------- MODULE MCEconomicLedger --------------------------
(* A small instance of EconomicLedger. *)
EXTENDS EconomicLedger

CONSTANTS stk, call, put, bet, w1, w2

MCInstruments == {stk, call, put, bet}
MCMultiplier == [i \in MCInstruments |-> IF i \in {call, put} THEN 2 ELSE 1]
MCTerms == [o \in {call, put} |->
             [underlying |-> stk, deliverable |-> 2, strike |-> 3, put |-> o = put]]

Event(type, i, q, price, cost, effective, observed) ==
  [type |-> type, instrument |-> i, quantity |-> q, price |-> price, cost |-> cost,
   effective |-> effective, observed |-> observed]

\* One transfer, posted again with another row identity and a later observation.
Deposit(id, observed) ==
  [type |-> "capital_flow.deposit", quantity |-> 9, effective |-> 1, observed |-> observed,
   id |-> id, key |-> 0]

Mark(id, i, price, effective, observed) ==
  [id |-> id, instrument |-> i, price |-> price, effective |-> effective, observed |-> observed]

Quiet == [w \in Workers |-> None]
BothAtTwo == [w \in Workers |-> 2]

\* Two workers rebuild while a position is opened, reduced and marked.
Racing ==
  [events |-> << {Event("fill_buy", stk, 3, 1, 1, 1, 1)}, {Event("fill_sell", stk, 2, 2, 0, 1, 2)},
                 {}, {}, {} >>,
   versions |-> {0}, flows |-> {}, replies |-> {TRUE}, requests |-> BothAtTwo,
   marks |-> {Mark(1, stk, 2, 1, 1), Mark(2, stk, 4, 2, 2)}]

\* Retries, conflicting evidence and two normalizer versions.
Retrying ==
  [events |-> << {Event("fill_buy", stk, 3, 1, 1, 1, 1), Event("fill_buy", stk, 2, 1, 1, 1, 1)},
                 {Event("fill_sell", stk, 3, 2, -1, 2, 2)}, {}, {}, {} >>,
   versions |-> {0, 1}, flows |-> {Deposit(0, 1), Deposit(1, 2)}, replies |-> BOOLEAN, requests |-> Quiet,
   marks |-> {}]

\* Longs, shorts, flips and an exercised call.
Exercising ==
  [events |-> << {Event("fill_buy", stk, 3, 1, 1, 1, 1), Event("fill_sell", stk, 2, 2, 0, 1, 2)},
                 {Event("fill_sell", stk, 2, 2, -1, 2, 2), Event("fill_buy", stk, 1, 3, 0, 2, 3)},
                 {Event("fill_sell", stk, 3, 1, 1, 2, 3)},
                 {Event("fill_buy", call, 3, 1, 1, 1, 1)},
                 {Event("option_exercise", call, 3, 0, 0, 3, 3),
                  Event("option_exercise", call, 1, 0, 0, 2, 3)} >>,
   versions |-> {0}, flows |-> {Deposit(0, 1)}, replies |-> {TRUE}, requests |-> Quiet,
   marks |-> {Mark(1, stk, 2, 2, 2), Mark(2, call, 1, 1, 3)}]

\* A short put assigned in part, the rest expired; stock costs.
Assigning ==
  [events |-> << {Event("fill_sell", put, 3, 1, 1, 1, 1)},
                 {Event("option_assignment", put, -1, 0, 0, 2, 2),
                  Event("option_assignment", put, -2, 0, 0, 2, 3)},
                 {Event("option_expiration", put, -1, 0, 0, 3, 3),
                  Event("option_expiration", put, -2, 0, 0, 2, 3)},
                 {Event("fill_sell", stk, 3, 4, 1, 3, 3)},
                 {Event("fee", stk, 0, 0, 1, 2, 2), Event("rebate", stk, 0, 0, -2, 1, 3)} >>,
   versions |-> {0}, flows |-> {}, replies |-> {TRUE}, requests |-> Quiet,
   marks |-> {Mark(1, stk, 2, 2, 2), Mark(2, put, 1, 1, 1)}]

\* Event contracts bought in two lots, reduced and paid out.
Resolving ==
  [events |-> << {Event("fill_buy", bet, 3, 1, 1, 1, 1)},
                 {Event("fill_buy", bet, 2, 3, 0, 1, 2), Event("fill_buy", bet, 1, 2, 1, 1, 1)},
                 {Event("fill_sell", bet, 4, 2, 1, 2, 2), Event("fill_sell", bet, 1, 2, 0, 2, 3)},
                 {Event("prediction_payout", bet, 1, 4, 0, 3, 3),
                  Event("prediction_payout", bet, 3, 0, 0, 3, 3)},
                 {Event("fill_sell", bet, 2, 1, 0, 1, 3)} >>,
   versions |-> {0}, flows |-> {Deposit(0, 1)}, replies |-> {TRUE}, requests |-> Quiet,
   marks |-> {Mark(1, bet, 2, 2, 2)}]

MCWorlds == {Racing, Retrying, Exercising, Assigning, Resolving}
MCWorkers == {w1, w2}
Five == 1..5
TwoVersions == {0, 1}
=============================================================================

-------------------------- MODULE LedgerProjection --------------------------
(***************************************************************************)
(* The pure part of internal/ledger: the postings a typed economic event   *)
(* expands to, and BuildPortfolioProjection, which replays an account's    *)
(* rows from zero into cash, FIFO lots, realized and unrealized P&L.       *)
(*                                                                         *)
(* Amounts are integers counted in the twelfth decimal place, the          *)
(* precision every allocation is rounded to.  One account and one currency *)
(* are modelled; a foreign currency is refused before anything is written. *)
(***************************************************************************)
EXTENDS Integers, Sequences, FiniteSets, SequencesExt

CONSTANTS Instruments,   \* canonical instruments of the account
          Multiplier,    \* [Instruments -> positive integer]
          Terms,         \* option terms: [options -> underlying, deliverable, strike, put]
          MaxMarkAge     \* ProjectionRequest.MaxMarkAge

ASSUME ProjectionConstants ==
  /\ \A i \in Instruments : Multiplier[i] > 0
  /\ DOMAIN Terms \subseteq Instruments
  /\ \A o \in DOMAIN Terms : Terms[o].underlying \in Instruments \ {o}
                             /\ Multiplier[o] = Terms[o].deliverable
  /\ MaxMarkAge > 0

Sgn(x) == IF x > 0 THEN 1 ELSE IF x < 0 THEN -1 ELSE 0
Magnitude(x) == IF x < 0 THEN -x ELSE x
SumOver(op(_), S) == MapThenSumSet(op, S)

\* decimal Round(12): half away from zero.
RoundDiv(a, b) == Sgn(a) * ((2 * Magnitude(a) + b) \div (2 * b))

-----------------------------------------------------------------------------
(* Postings *)

Fill == {"fill_buy", "fill_sell"}
Cost == {"fee", "rebate"}
Settlement == {"option_cash_settlement", "option_expiration", "prediction_payout"}
Physical == {"option_exercise", "option_assignment"}
Capital == {"capital_flow.deposit", "capital_flow.withdrawal"}

\* A leg and its counter leg; a zero amount posts nothing.
Legs(key, account, counter, unit, amount) ==
  IF amount = 0 THEN {}
  ELSE {[key |-> key, counter |-> FALSE, account |-> account, unit |-> unit, amount |-> amount],
        [key |-> key, counter |-> TRUE, account |-> counter, unit |-> unit, amount |-> -amount]}

\* A positive cost is a fee, a negative one a rebate.
costPostings(cost) ==
  IF cost > 0 THEN Legs("fee", "expense:fees", "asset:cash", "cash", cost)
              ELSE Legs("rebate", "asset:cash", "income:rebates", "cash", -cost)

fillPostings(e) ==
  LET direction == IF e.type = "fill_sell" THEN -1 ELSE 1
  IN Legs("inventory", "asset:inventory", "clearing:execution", e.instrument, direction * e.quantity)
     \cup Legs("gross-cash", "asset:cash", "clearing:execution", "cash",
               -direction * e.price * e.quantity * Multiplier[e.instrument])
     \cup costPostings(e.cost)

cashSettlementPostings(e) ==
  Legs("inventory", "asset:inventory", "clearing:settlement", e.instrument, -e.quantity)
  \cup Legs("settlement-cash", "asset:cash", "clearing:settlement", "cash",
            e.quantity * e.price * Multiplier[e.instrument])

Delivered(e) ==
  LET terms == Terms[e.instrument]
  IN (IF terms.put THEN -1 ELSE 1) * e.quantity * terms.deliverable

physicalOptionPostings(e) ==
  LET terms == Terms[e.instrument]
  IN Legs("inventory", "asset:inventory", "clearing:settlement", e.instrument, -e.quantity)
     \cup Legs("underlying-delivery", "asset:inventory", "clearing:settlement",
               terms.underlying, Delivered(e))
     \cup Legs("strike-cash", "asset:cash", "clearing:settlement", "cash",
               -Delivered(e) * terms.strike)

expectedPostings(e) ==
  CASE e.type \in Fill       -> fillPostings(e)
    [] e.type \in Cost       -> costPostings(e.cost)
    [] e.type \in Settlement -> cashSettlementPostings(e)
    [] e.type \in Physical   -> physicalOptionPostings(e)
    [] e.type \in Capital    -> Legs("capital", "asset:cash", "equity:capital", "cash", e.quantity)

\* What Validate requires of an event before its postings are built.
ValidEvent(e) ==
  /\ e.effective <= e.observed
  /\ e.type \in Fill => e.quantity > 0 /\ e.price >= 0
  /\ e.type = "fee" => e.cost > 0
  /\ e.type = "rebate" => e.cost < 0
  /\ e.type \in Settlement => e.quantity # 0 /\ e.price >= 0
  /\ e.type = "option_expiration" => e.price = 0
  /\ e.type = "option_exercise" => e.quantity > 0
  /\ e.type = "option_assignment" => e.quantity < 0
  /\ e.type = "capital_flow.deposit" => e.quantity > 0
  /\ e.type = "capital_flow.withdrawal" => e.quantity < 0

PostedTo(row, account, unit) ==
  SumOver(LAMBDA p : p.amount, {p \in row.postings : p.account = account /\ p.unit = unit})

CashOf(row) == PostedTo(row, "asset:cash", "cash")

-----------------------------------------------------------------------------
(* FIFO replay *)

\* How much of each lot a signed movement closes: opposite open lots of the
\* instrument in opening order, each up to what the earlier ones left over.
Taken(lots, instrument, movement) ==
  LET open(k) == /\ lots[k].instrument = instrument
                 /\ lots[k].quantity # 0
                 /\ Sgn(lots[k].quantity) # Sgn(movement)
      earlier(k) == SumOver(LAMBDA j : Magnitude(lots[j].quantity), {j \in 1..(k-1) : open(j)})
      left(k) == Magnitude(movement) - earlier(k)
  IN [k \in DOMAIN lots |->
        IF open(k) /\ left(k) > 0 THEN Min({Magnitude(lots[k].quantity), left(k)}) ELSE 0]

Unmatched(movement, taken) ==
  Magnitude(movement) - SumOver(LAMBDA k : taken[k], DOMAIN taken)

\* Opening cash released with a part of a lot; a whole lot releases the rest.
OpeningCash(lot, q) ==
  IF q = Magnitude(lot.quantity) THEN lot.cash
  ELSE RoundDiv(lot.cash * q, Magnitude(lot.quantity))

Released(lots, taken) == SumOver(LAMBDA k : OpeningCash(lots[k], taken[k]), DOMAIN lots)

Reduced(lots, movement, taken) ==
  [k \in DOMAIN lots |->
    [lots[k] EXCEPT !.quantity = @ + Sgn(movement) * taken[k],
                    !.cash = @ - OpeningCash(lots[k], taken[k])]]

\* Mutant: the last segment is rounded like the others, not given the rest.
allocateProjectionAmountRounded(cash, movement, taken, unmatched, k) ==
  RoundDiv(cash * taken[k], Magnitude(movement))

\* Event cash falls to the segments by quantity; the final segment, when no
\* remainder opens a lot, takes whatever the rounded ones left.
allocateProjectionAmount(cash, movement, taken, unmatched, k) ==
  LET segments == {j \in DOMAIN taken : taken[j] > 0}
      share(j) == RoundDiv(cash * taken[j], Magnitude(movement))
  IN IF unmatched = 0 /\ k = Max(segments)
     THEN cash - SumOver(share, segments \ {k})
     ELSE share(k)

\* Mutant: the newest opposite lot is closed first.
applyMovementLIFO(st, row, instrument, movement, cash, exact) ==
  LET back == Reverse(st.lots)
      taken == Reverse(Taken(back, instrument, movement))
      unmatched == Unmatched(movement, taken)
      allocated(k) == allocateProjectionAmount(cash, movement, taken, unmatched, k)
      closing == SumOver(allocated, {k \in DOMAIN taken : taken[k] > 0})
      rest == Reduced(st.lots, movement, taken)
  IN IF exact /\ unmatched # 0 THEN [st EXCEPT !.status = "inexact_close"]
     ELSE [st EXCEPT
             !.realized = @ + Released(st.lots, taken) + closing,
             !.activity = @ \cup {instrument},
             !.lots = IF unmatched = 0 THEN rest
                      ELSE Append(rest, [instrument |-> instrument, row |-> row.id,
                                         quantity |-> Sgn(movement) * unmatched,
                                         cash |-> cash - closing])]

\* Close what is opposite, first opened first closed; what is left opens a lot,
\* unless the event must close exactly.
applyMovement(st, row, instrument, movement, cash, exact) ==
  LET taken == Taken(st.lots, instrument, movement)
      unmatched == Unmatched(movement, taken)
      allocated(k) == allocateProjectionAmount(cash, movement, taken, unmatched, k)
      closing == SumOver(allocated, {k \in DOMAIN taken : taken[k] > 0})
      rest == Reduced(st.lots, movement, taken)
  IN IF exact /\ unmatched # 0 THEN [st EXCEPT !.status = "inexact_close"]
     ELSE [st EXCEPT
             !.realized = @ + Released(st.lots, taken) + closing,
             !.activity = @ \cup {instrument},
             !.lots = IF unmatched = 0 THEN rest
                      ELSE Append(rest, [instrument |-> instrument, row |-> row.id,
                                         quantity |-> Sgn(movement) * unmatched,
                                         cash |-> cash - closing])]

\* Exercise and assignment realize nothing: the option's opening cash moves to
\* the delivered underlying together with the strike cash.
applyPhysicalOption(st, row, e) ==
  LET taken == Taken(st.lots, e.instrument, -e.quantity)
      moved == [st EXCEPT !.lots = Reduced(st.lots, -e.quantity, taken),
                          !.activity = @ \cup {e.instrument}]
  IN IF Unmatched(e.quantity, taken) # 0 THEN [st EXCEPT !.status = "inexact_close"]
     ELSE applyMovement(moved, row, Terms[e.instrument].underlying, Delivered(e),
                        CashOf(row) + Released(st.lots, taken), FALSE)

\* One row of the replay.  A capital row has no mechanics, an economic row must
\* have exactly the postings its mechanics expand to.
applyRow(st, row, mechanics) ==
  LET cash == CashOf(row)
      booked == [st EXCEPT !.cash = @ + cash,
                           !.fees = @ + PostedTo(row, "expense:fees", "cash"),
                           !.rebates = @ - PostedTo(row, "income:rebates", "cash")]
      e == (CHOOSE m \in mechanics : m.row = row.id).event
      movement == PostedTo(row, "asset:inventory", e.instrument)
  IN CASE st.status # "ok" -> st
       [] st.status = "ok" /\ row.type \in Capital -> [booked EXCEPT !.net = @ + cash]
       [] st.status = "ok" /\ row.type \notin Capital
          /\ ~ \E m \in mechanics : m.row = row.id /\ expectedPostings(m.event) = row.postings
          -> [st EXCEPT !.status = "no_mechanics"]
       [] OTHER ->
          CASE e.type \in Fill       -> applyMovement(booked, row, e.instrument, movement, cash, FALSE)
            [] e.type \in Cost       -> [booked EXCEPT !.realized = @ + cash]
            [] e.type \in Settlement -> applyMovement(booked, row, e.instrument, movement, cash, TRUE)
            [] e.type \in Physical   -> applyPhysicalOption(booked, row, e)

\* Mutant: an event that is old but was observed late leaks into the past.
EligibleEffective(row, asOf) == row.effective <= asOf

Eligible(row, asOf) == row.effective <= asOf /\ row.observed <= asOf

\* Lexicographic order of (effective, observed, identity).
Earlier(a, b) ==
  \/ a.effective < b.effective
  \/ a.effective = b.effective /\ a.observed < b.observed
  \/ a.effective = b.effective /\ a.observed = b.observed /\ a.id < b.id

NoPositions ==
  [status |-> "ok", cash |-> 0, net |-> 0, fees |-> 0, rebates |-> 0, realized |-> 0,
   lots |-> <<>>, activity |-> {}]

Replay(rows, mechanics, asOf) ==
  FoldLeft(LAMBDA st, row : applyRow(st, row, mechanics), NoPositions,
           SetToSortSeq({r \in rows : Eligible(r, asOf)}, Earlier))

-----------------------------------------------------------------------------
(* Marks and totals *)

FreshMarks(marks, instrument, asOf) ==
  {m \in marks : m.instrument = instrument /\ Eligible(m, asOf)
                 /\ asOf - m.effective <= MaxMarkAge}

Latest(S) == CHOOSE m \in S : \A o \in S \ {m} : Earlier(o, m)

Holding(lots, instrument) ==
  SumOver(LAMBDA k : lots[k].quantity, {k \in DOMAIN lots : lots[k].instrument = instrument})

\* Every open position needs a fresh mark, and realized plus unrealized P&L
\* must be exactly the change of equity over net capital.
finalize(st, marks, asOf) ==
  LET open == {i \in st.activity : Holding(st.lots, i) # 0}
      used == {Latest(FreshMarks(marks, i, asOf)) : i \in open}
      value(m) == Holding(st.lots, m.instrument) * m.price * Multiplier[m.instrument]
      basis(i) == SumOver(LAMBDA k : st.lots[k].cash,
                          {k \in DOMAIN st.lots : st.lots[k].instrument = i})
      marketValue == SumOver(value, used)
      unrealized == marketValue + SumOver(basis, open)
  IN IF \E i \in open : FreshMarks(marks, i, asOf) = {} THEN [status |-> "no_fresh_mark"]
     ELSE IF st.realized + unrealized # st.cash + marketValue - st.net
     THEN [status |-> "equation_failed"]
     ELSE [status |-> "ok", used |-> used, equity |-> st.cash + marketValue,
           realized |-> st.realized, unrealized |-> unrealized, lots |-> st.lots]

BuildPortfolioProjection(rows, mechanics, marks, asOf) ==
  LET st == Replay(rows, mechanics, asOf)
  IN IF ~ \E r \in rows : Eligible(r, asOf) THEN [status |-> "no_transactions"]
     ELSE IF st.status # "ok" THEN [status |-> st.status]
     ELSE finalize(st, marks, asOf)
=============================================================================

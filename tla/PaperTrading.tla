---------------------------- MODULE PaperTrading ----------------------------
(***************************************************************************)
(* Paper execution: concurrent calls of OrderManager.ProcessSignal, the    *)
(* in-memory PaperBroker they share, the rows ApplyOrderFill keeps (orders, *)
(* position lots, trades) and the startup that rebuilds the broker from    *)
(* those rows.  The broker and the rows are written by different steps of  *)
(* a call; a step may fail and the process may die between any two.        *)
(***************************************************************************)
EXTENDS Integers, Sequences, FiniteSets, FiniteSetsExt, SequencesExt

CONSTANTS Runs,          \* calls of ProcessSignal, each with at most one order
          Strategies,    \* whose calls they are
          Tickers,       \* what may be traded
          Kalshi,        \* the tickers of the Kalshi market; the others are stocks
          Prices,        \* fill prices, in the account's smallest unit
          Sizes,         \* what CalculatePositionSize may return
          InitialCash,   \* the paper account's initial capital
          FeePct,        \* PaperBroker.feePct, in percent
          MaxPositionPct, MaxTotalPct, MaxStockPct, MaxKalshiPct,  \* PositionLimits
          MaxConcurrent,
          None

ASSUME PricesAssumption == Prices \subseteq Nat \ {0} /\ Sizes \subseteq Nat \ {0}
ASSUME MarketsAssumption == Kalshi \subseteq Tickers /\ None \notin Runs \cup Strategies

VARIABLES call,      \* per call: where it is, and the strategy, signal, ticker,
                     \* quantity, price and equity it works with
          lock,      \* holder of kalshiExposureMu
          order,     \* orders.status per call's order, "none" without a row
          lots,      \* positions.quantity of the lot a buy order opened
          marks,     \* positions.current_price of that lot, 0 for NULL
          opened,    \* the lots in the order of positions.opened_at
          trades,    \* orders with a trade and an idempotency row
          book,      \* PaperBroker.positions: signed quantity per ticker
          value,     \* PaperBroker.positions: their market value per ticker
          cash,      \* PaperBroker.balance.Cash, also its BuyingPower
          equity,    \* PaperBroker.balance.Equity
          filled,    \* orders this broker instance has filled
          up         \* startup succeeded

db == <<order, lots, marks, opened, trades>>
broker == <<book, value, cash, equity, filled>>
vars == <<call, lock, db, broker, up>>

Min2(a, b) == IF a < b THEN a ELSE b
Sum(f(_), S) == MapThenSumSet(f, S)

Fresh == [pc |-> "idle", strategy |-> None, signal |-> "buy", ticker |-> CHOOSE t \in Tickers : TRUE,
          qty |-> 0, price |-> 0, equity |-> 0]

Init ==
  /\ call = [r \in Runs |-> Fresh]
  /\ lock = None
  /\ order = [r \in Runs |-> "none"]
  /\ lots = [r \in Runs |-> 0]
  /\ marks = [r \in Runs |-> 0]
  /\ opened = <<>>
  /\ trades = {}
  /\ book = [t \in Tickers |-> 0]
  /\ value = [t \in Tickers |-> 0]
  /\ cash = InitialCash
  /\ equity = InitialCash
  /\ filled = {}
  /\ up = TRUE

-----------------------------------------------------------------------------
(***************************************************************************)
(* What the rows and the broker say.                                       *)
(***************************************************************************)
OpenLots == {r \in Runs : lots[r] > 0}

Owned(s, t) ==
  LET qty(r) == lots[r]
  IN Sum(qty, {r \in OpenLots : call[r].strategy = s /\ call[r].ticker = t})

positionNotional(r) == lots[r] * (IF marks[r] > 0 THEN marks[r] ELSE call[r].price)

Notional(ts) == Sum(positionNotional, {r \in OpenLots : call[r].ticker \in ts})

(***************************************************************************)
(* marketExposurePolicy.check on the snapshot of the open lots.  A         *)
(* prediction position is stored under "ticker:side", the plan names       *)
(* "ticker": its symbol is never found among the open positions.           *)
(***************************************************************************)
withinLimits(r) ==
  LET c == call[r]
      add == c.qty * c.price
      symbol == IF c.ticker \in Kalshi THEN {} ELSE {c.ticker}
      fits(notional, pct) == notional * 100 <= pct * c.equity
      market(ts) == Notional(ts) + (IF c.ticker \in ts THEN add ELSE 0)
  IN /\ fits(Notional(symbol) + add, MaxPositionPct)
     /\ fits(Notional(Tickers) + add, MaxTotalPct)
     /\ \/ \E l \in OpenLots : call[l].ticker \in symbol
        \/ Cardinality(OpenLots) < MaxConcurrent
     /\ fits(market(Kalshi), MaxKalshiPct)
     /\ fits(market(Tickers \ Kalshi), MaxStockPct)

-----------------------------------------------------------------------------
(***************************************************************************)
(* ProcessSignal.                                                          *)
(***************************************************************************)
Goto(r, pc) == call' = [call EXCEPT ![r].pc = pc]

\* The call returns; the deferred unlock runs.
Return(r) ==
  /\ Goto(r, "done")
  /\ lock' = IF lock = r THEN None ELSE lock

\* Mutant: Kalshi calls do not take the lock.
LockFreely(r, t) == lock' = lock

Lock(r, t) ==
  IF t \in Kalshi THEN lock = None /\ lock' = r ELSE lock' = lock

Started(s, signal, t, q, p) ==
  [pc |-> "admit", strategy |-> s, signal |-> signal, ticker |-> t, qty |-> q, price |-> p,
   equity |-> equity]

\* An entry passes the kill switch and the sizing on the account's equity.
BeginEntry(r, s, t, q, p) ==
  /\ up
  /\ call[r].pc = "idle"
  /\ Lock(r, t)
  /\ call' = [call EXCEPT ![r] = Started(s, "buy", t, q, p)]
  /\ UNCHANGED <<db, broker, up>>

\* An exit is clamped to the quantity the strategy owns; without any the signal
\* is skipped and no call is recorded.
BeginExit(r, s, t, q, p) ==
  LET owned == Owned(s, t) IN
  /\ up
  /\ call[r].pc = "idle"
  /\ Lock(r, t)
  /\ owned > 0
  /\ call' = [call EXCEPT ![r] = Started(s, "sell", t, Min2(q, owned), p)]
  /\ UNCHANGED <<db, broker, up>>

\* The limits (entries only) and the insert of the pending order.
Admit(r) ==
  /\ up
  /\ call[r].pc = "admit"
  /\ call[r].equity > 0
  /\ call[r].signal = "sell" \/ withinLimits(r)
  /\ order' = [order EXCEPT ![r] = "pending"]
  /\ Goto(r, "submit")
  /\ UNCHANGED <<lock, lots, marks, opened, trades, broker, up>>

\* The limits refuse the entry, or the snapshot or the insert fails.
Refuse(r) ==
  /\ up
  /\ call[r].pc = "admit"
  /\ Return(r)
  /\ UNCHANGED <<db, broker, up>>

\* CheckPreTrade or SubmitOrder refuses the order and "rejected" is written, or
\* CheckPreTrade itself, or that write, fails and the row stays pending.
Reject(r, written) ==
  /\ up
  /\ call[r].pc = "submit"
  /\ order' = [order EXCEPT ![r] = IF written THEN "rejected" ELSE @]
  /\ Return(r)
  /\ UNCHANGED <<lots, marks, opened, trades, broker, up>>

Signed(r) == IF call[r].signal = "buy" THEN call[r].qty ELSE -call[r].qty
FeeOf(r) == (call[r].qty * call[r].price * FeePct) \div 100

\* Mutant: an exit larger than the position closes it and no more.
applyFillNoFlip(held, q) == Max({0, held + q})

\* The position merges, shrinks, disappears or changes side.
applyFillLocked(held, q) == held + q

\* PaperBroker.SubmitOrder fills at once; a buy needs the cash for it.
SubmitFills(r) ==
  LET c == call[r]
      worth(t) == value'[t] IN
  /\ up
  /\ c.pc = "submit"
  /\ c.signal = "buy" => cash >= c.qty * c.price + FeeOf(r)
  /\ cash' = cash - Signed(r) * c.price - FeeOf(r)
  /\ book' = [book EXCEPT ![c.ticker] = applyFillLocked(@, Signed(r))]
  /\ value' = [value EXCEPT ![c.ticker] = book'[c.ticker] * c.price]
  /\ equity' = cash' + Sum(worth, Tickers)
  /\ filled' = filled \cup {r}
  /\ Goto(r, "record")
  /\ UNCHANGED <<lock, db, up>>

\* The limit is not crossed: the order rests at the broker, for good.
SubmitRests(r) ==
  /\ up
  /\ call[r].pc = "submit"
  /\ Goto(r, "record")
  /\ UNCHANGED <<lock, db, broker, up>>

\* The update to "submitted", and GetOrderStatus.
RecordSubmitted(r) ==
  /\ up
  /\ call[r].pc = "record"
  /\ order' = [order EXCEPT ![r] = "submitted"]
  /\ IF r \in filled THEN Goto(r, "fill") /\ lock' = lock ELSE Return(r)
  /\ UNCHANGED <<lots, marks, opened, trades, broker, up>>

\* Mutant: the failed call marks its order rejected.
RecordFailsRejecting(r, written) ==
  /\ up
  /\ call[r].pc = "record"
  /\ order' = [order EXCEPT ![r] = IF written THEN "rejected" ELSE @]
  /\ Return(r)
  /\ UNCHANGED <<lots, marks, opened, trades, broker, up>>

\* The update, or the status read after it, fails.
RecordFails(r, written) ==
  /\ up
  /\ call[r].pc = "record"
  /\ order' = [order EXCEPT ![r] = IF written THEN "submitted" ELSE @]
  /\ Return(r)
  /\ UNCHANGED <<lots, marks, opened, trades, broker, up>>

-----------------------------------------------------------------------------
(***************************************************************************)
(* ApplyOrderFill: one transaction.                                        *)
(***************************************************************************)
\* Mutant: the first lot bears the whole exit.
ConsumedFirst(ls, need) ==
  [l \in Runs |-> IF ls # <<>> /\ l = ls[1] THEN need ELSE 0]

\* The exit's quantity is taken from the lots in the order they were opened.
Consumed(ls, need) ==
  LET before(i) == LET qty(j) == lots[ls[j]] IN Sum(qty, 1..(i - 1))
      take(i) == Max({0, Min2(lots[ls[i]], need - before(i))})
  IN [l \in Runs |-> IF \E i \in DOMAIN ls : ls[i] = l
                     THEN take(CHOOSE i \in DOMAIN ls : ls[i] = l) ELSE 0]

OpenLong(r) ==
  /\ lots' = [lots EXCEPT ![r] = call[r].qty]
  /\ opened' = Append(opened, r)
  /\ marks' = marks

\* Mutant: an exit larger than what is open is applied as far as it goes.
EnoughAlways(r) == TRUE

EnoughOpen(r) == Owned(call[r].strategy, call[r].ticker) >= call[r].qty

CloseLong(r) ==
  LET mine(l) == /\ call[l].strategy = call[r].strategy
                 /\ call[l].ticker = call[r].ticker
                 /\ lots[l] > 0
      taken == Consumed(SelectSeq(opened, mine), call[r].qty)
  IN /\ EnoughOpen(r)
     /\ lots' = [l \in Runs |-> lots[l] - taken[l]]
     /\ marks' = [l \in Runs |-> IF taken[l] > 0 THEN call[r].price ELSE marks[l]]
     /\ opened' = opened

ApplyOrderFill(r) ==
  /\ up
  /\ call[r].pc = "fill"
  /\ r \notin trades
  /\ order[r] \in {"submitted", "filled"}
  /\ order' = [order EXCEPT ![r] = "filled"]
  /\ IF call[r].signal = "buy" THEN OpenLong(r) ELSE CloseLong(r)
  /\ trades' = trades \cup {r}
  /\ Return(r)
  /\ UNCHANGED <<broker, up>>

\* The transaction rolls back, for want of open quantity or any other error.
ApplyFails(r) ==
  /\ up
  /\ call[r].pc = "fill"
  /\ Return(r)
  /\ UNCHANGED <<db, broker, up>>

-----------------------------------------------------------------------------
(***************************************************************************)
(* bootstrapPaperOptionsAccount: cash from the trades, which carry no fee, *)
(* the book from the open lots, merged per ticker.                         *)
(***************************************************************************)
\* mergeRestoredPositions: lots of one ticker must agree on the current price.
Mergeable ==
  \A a, b \in OpenLots : call[a].ticker = call[b].ticker /\ marks[a] # 0 /\ marks[b] # 0
                           => marks[a] = marks[b]

restoredBook ==
  LET qty(r) == lots[r]
  IN [t \in Tickers |-> Sum(qty, {r \in OpenLots : call[r].ticker = t})]

reconstructPaperBalance ==
  LET flow(r) == Signed(r) * call[r].price IN InitialCash - Sum(flow, trades)

\* The process dies: the calls in progress are gone, the broker is rebuilt; when
\* that fails, so does startup.
Restart ==
  /\ up
  /\ call' = [r \in Runs |-> IF call[r].pc = "idle" THEN call[r]
                             ELSE [call[r] EXCEPT !.pc = "done"]]
  /\ lock' = None
  /\ cash' = reconstructPaperBalance
  /\ equity' = cash' + Notional(Tickers)
  /\ up' = (Mergeable /\ cash' >= 0 /\ equity' >= 0)
  /\ book' = restoredBook
  /\ value' = [t \in Tickers |->
       LET marked == {marks[r] : r \in {l \in OpenLots : call[l].ticker = t}} \ {0}
       IN IF marked = {} THEN Notional({t})
          ELSE restoredBook[t] * (CHOOSE p \in marked : TRUE)]
  /\ filled' = {}
  /\ UNCHANGED db

Next ==
  \/ \E r \in Runs :
       \/ \E s \in Strategies, t \in Tickers, q \in Sizes, p \in Prices :
            BeginEntry(r, s, t, q, p) \/ BeginExit(r, s, t, q, p)
       \/ Admit(r)
       \/ Refuse(r)
       \/ \E written \in BOOLEAN :
            Reject(r, written) \/ RecordFails(r, written)
       \/ SubmitFills(r)
       \/ SubmitRests(r)
       \/ RecordSubmitted(r)
       \/ ApplyOrderFill(r)
       \/ ApplyFails(r)
  \/ Restart

Spec == Init /\ [][Next]_vars

-----------------------------------------------------------------------------
Status == {"none", "pending", "rejected", "submitted", "filled"}

\* Every field has its type; in particular no lot goes below zero.
TypeOK ==
  /\ \A r \in Runs : /\ call[r].pc \in {"idle", "admit", "submit", "record", "fill", "done"}
                     /\ call[r].signal \in {"buy", "sell"}
                     /\ call[r].ticker \in Tickers
                     /\ call[r].qty \in Nat
  /\ lock \in Runs \cup {None}
  /\ order \in [Runs -> Status]
  /\ lots \in [Runs -> Nat]
  /\ marks \in [Runs -> Prices \cup {0}]
  /\ trades \subseteq Runs
  /\ book \in [Tickers -> Int]
  /\ cash \in Int
  /\ up \in BOOLEAN

\* Fills the broker made and the rows do not know of.
Unrecorded == filled \ trades

\* Those of them whose call is over: nothing will record them any more.
Lost == {r \in Unrecorded : call[r].pc = "done"}

\* The broker and the rows never drift apart by more than the fills not yet
\* recorded: whatever fails, and after every restart, each position and the cash
\* of the paper account are what the lots and trades say, plus those fills and
\* less the fees this broker instance charged.
BookExplained ==
  up =>
    /\ \A t \in Tickers :
         book[t] = restoredBook[t] + Sum(Signed, {r \in Unrecorded : call[r].ticker = t})
    /\ LET flow(r) == Signed(r) * call[r].price
       IN cash = reconstructPaperBalance - Sum(flow, Unrecorded) - Sum(FeeOf, filled)

\* ApplyOrderFill keeps the lots of every strategy equal to what it bought less
\* what it sold, over all interleavings of entries and exits that split lots.
LotsMatchTrades ==
  \A s \in Strategies, t \in Tickers :
    Owned(s, t) = Sum(Signed, {r \in trades : call[r].strategy = s /\ call[r].ticker = t})

\* An order row says "rejected" only if the broker never filled the order, and
\* "filled" exactly when its trade is recorded.
StatusIsTruthful ==
  \A r \in Runs : /\ order[r] = "rejected" => r \notin filled
                  /\ order[r] = "filled" <=> r \in trades

\* kalshiExposureMu: as long as no Kalshi fill was lost, concurrent calls never
\* take the Kalshi exposure of the account above its limit.
KalshiWithinLimit ==
  (\A r \in Lost : call[r].ticker \notin Kalshi) =>
    LET worth(t) == value[t]
    IN Sum(worth, Kalshi) * 100 <= MaxKalshiPct * InitialCash

\* The same lock keeps Kalshi exits within what is owned: without a lost fill the
\* broker never turns a Kalshi position short.
KalshiNeverShort ==
  \A t \in Kalshi : (\A r \in Lost : call[r].ticker # t) => book[t] >= 0

\* Emergency kill switch runbook, of an admitted exit: "its quantity cannot
\* exceed the matching owned position".
ExitsWithinOwned == \A t \in Tickers : book[t] >= 0

\* Paper accounting plan: "Restart parity must cover cash, equity, buying power,
\* and open positions."  A restart with no fill left to record changes none.
RestartParity ==
  [][ Restart /\ Unrecorded = {} => <<book, cash, equity>>' = <<book, cash, equity>> ]_vars
=============================================================================

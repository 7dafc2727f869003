------------------------------ MODULE Snapshot ------------------------------
(***************************************************************************)
(* The snapshot readers (snapshot/): a SQLite file written by a backtest,  *)
(* from which the API derives positions, history, contributions and        *)
(* drawdowns.  The writer (the strategy binary, external) is modelled by   *)
(* the rows it leaves: transactions in the order they happened, and for    *)
(* each trading day the equity (perf_data) and the positions at the close  *)
(* (positions_daily, held tickers and the cash sleeve).  The readers are   *)
(* operators on those tables, checked at the close of every day against    *)
(* the positions the writer really had.                                    *)
(*                                                                         *)
(* Money and quantities are integers; quotients are kept as fractions and  *)
(* compared by their products.                                             *)
(***************************************************************************)
EXTENDS Integers, FiniteSets, Sequences, Functions

CONSTANTS
    Tickers,   \* assets other than cash
    Cash,      \* "$CASH"
    Prices,    \* closing and trade prices
    Deposits,  \* amounts deposited or withdrawn
    Lots,      \* quantities traded at once
    Ratios,    \* of splits
    Payments,  \* dividends, fees and interest
    MaxDays,   \* bound: trading days
    MaxTx      \* bound: transactions

ASSUME SnapshotAssumption ==
    /\ Cash \notin Tickers /\ IsFiniteSet(Tickers)
    /\ UNION {Prices, Deposits, Lots, Ratios, Payments} \subseteq Nat \ {0}
    /\ MaxDays \in Nat /\ MaxTx \in Nat

VARIABLES
    cash, qty,   \* the writer's cash and quantities
    txs,         \* transactions, by rowid
    days         \* the closed days: perf_data and positions_daily

vars == <<cash, qty, txs, days>>

Today == Len(days) + 1
Row(kind, t, q, p, a, b) ==
    [date |-> Today, kind |-> kind, ticker |-> t, qty |-> q, price |-> p,
     amount |-> a, batch |-> b]

\* Where a loop is after its n-th step.
Loop(Step(_, _), start, n) ==
    LET at[i \in 0..n] == IF i = 0 THEN start ELSE Step(at[i - 1], i)
    IN  at[n]

-----------------------------------------------------------------------------
(* The writer                                                              *)

\* Trades belong to rebalance batches; dividends, fees and the like carry
\* batch 0.
NextBatch == 1 + Cardinality({i \in DOMAIN txs : txs[i].batch # 0})
Write(x) == Len(txs) < MaxTx /\ txs' = Append(txs, x)

Deposit(a) ==
    /\ Write(Row("deposit", Cash, 0, 0, a, 0))
    /\ cash' = cash + a /\ UNCHANGED <<qty, days>>

Withdraw(a) ==
    /\ cash >= a
    /\ Write(Row("withdrawal", Cash, 0, 0, a, 0))
    /\ cash' = cash - a /\ UNCHANGED <<qty, days>>

Buy(t, q, p) ==
    /\ cash >= q * p
    /\ Write(Row("buy", t, q, p, q * p, NextBatch))
    /\ cash' = cash - q * p /\ qty' = [qty EXCEPT ![t] = @ + q]
    /\ UNCHANGED days

\* A rebalance sell, or the liquidation at the end of the backtest (batch 0).
Sell(t, q, p, b) ==
    /\ qty[t] >= q
    /\ Write(Row("sell", t, q, p, q * p, b))
    /\ cash' = cash + q * p /\ qty' = [qty EXCEPT ![t] = @ - q]
    /\ UNCHANGED days

Split(t, n) ==
    /\ qty[t] > 0
    /\ Write(Row("split", t, 0, n, 0, NextBatch))
    /\ qty' = [qty EXCEPT ![t] = @ * n]
    /\ UNCHANGED <<cash, days>>

\* Paid to whoever held the ticker at the ex-date, sold since or not.
Dividend(t, a) ==
    /\ \E i \in DOMAIN txs : txs[i].kind = "buy" /\ txs[i].ticker = t
    /\ Write(Row("dividend", t, 0, 0, a, 0))
    /\ cash' = cash + a /\ UNCHANGED <<qty, days>>

Fee(t, a) ==
    /\ qty[t] > 0 /\ cash >= a
    /\ Write(Row("fee", t, 0, 0, a, 0))
    /\ cash' = cash - a /\ UNCHANGED <<qty, days>>

Interest(a) ==
    /\ cash > 0
    /\ Write(Row("interest", Cash, 0, 0, a, 0))
    /\ cash' = cash + a /\ UNCHANGED <<qty, days>>

Held == {t \in Tickers : qty[t] > 0}

\* The equity is what the positions and the cash are worth.
CloseOf(pos) == [v |-> SumFunction([k \in DOMAIN pos |-> pos[k].mv]), pos |-> pos]

CloseDay(price) ==
    /\ Len(days) < MaxDays
    /\ days' = Append(days, CloseOf([k \in Held \cup {Cash} |->
                    IF k = Cash THEN [mv |-> cash, qty |-> cash]
                    ELSE [mv |-> qty[k] * price[k], qty |-> qty[k]]]))
    /\ UNCHANGED <<cash, qty, txs>>

Init == cash = 0 /\ qty = [t \in Tickers |-> 0] /\ txs = <<>> /\ days = <<>>

Trade(t) ==
    \/ \E q \in Lots, p \in Prices : \/ Buy(t, q, p)
                                    \/ \E b \in {0, NextBatch} : Sell(t, q, p, b)
    \/ \E n \in Ratios : Split(t, n)
    \/ \E a \in Payments : Dividend(t, a) \/ Fee(t, a)

Next ==
    \/ Len(days) < MaxDays /\ \E t \in Tickers : Trade(t)
    \/ Len(days) < MaxDays /\ \E a \in Payments : Interest(a)
    \/ Len(days) < MaxDays /\ \E a \in Deposits : Deposit(a) \/ Withdraw(a)
    \/ \E price \in [Held -> Prices] : CloseDay(price)

Spec == Init /\ [][Next]_vars

-----------------------------------------------------------------------------
(* Positions replayed from transactions: snapshot/holdings.go              *)

NoPos == [qty |-> 0, cost |-> 0, per |-> 1, last |-> 0]  \* cost / per

\* Mutant: a sale leaves the cost alone.
ApplyTx_KeepsCost(pos, x) ==
    LET seen == [pos EXCEPT !.last = IF x.price > 0 THEN x.price ELSE @]
    IN  CASE x.kind = "buy" -> [seen EXCEPT !.qty = @ + x.qty,
                                            !.cost = @ + x.qty * x.price * pos.per]
        []   x.kind = "sell" -> [seen EXCEPT !.qty = @ - x.qty]
        []   x.kind = "split" -> [seen EXCEPT !.qty = @ * x.price]
        []   OTHER -> seen

\* replayTxIntoLedger and applyTxToLedger: any positive price becomes the last
\* price, the ratio of a split too; a sale takes average cost off.
ApplyTx(pos, x) ==
    LET seen == [pos EXCEPT !.last = IF x.price > 0 THEN x.price ELSE @]
    IN  CASE x.kind = "buy" -> [seen EXCEPT !.qty = @ + x.qty,
                                            !.cost = @ + x.qty * x.price * pos.per]
        []   x.kind = "sell" -> [seen EXCEPT !.qty = @ - x.qty,
                !.cost = IF pos.qty > 0 THEN @ * (pos.qty - x.qty) ELSE @,
                !.per  = IF pos.qty > 0 THEN @ * pos.qty ELSE @]
        []   x.kind = "split" -> [seen EXCEPT !.qty = @ * x.price]
        []   OTHER -> seen

\* ledgerAsOf: rows of the ticker dated d or before, in the order of date and
\* rowid, which is the order in which they were written.
Replayed(s, t, d) == {i \in DOMAIN s : s[i].ticker = t /\ s[i].date <= d}
ReplayStep(pos, s, i, t, d) == IF i \in Replayed(s, t, d) THEN ApplyTx(pos, s[i]) ELSE pos
Replay(s, t, d) == Loop(LAMBDA pos, i : ReplayStep(pos, s, i, t, d), NoPos, Len(s))
LedgerAsOf(d) == [t \in Tickers |-> Replay(txs, t, d)]

\* HoldingsHistory: the batches with a trade, each on the day it is stamped.
Batches == {x \in {txs[i] : i \in DOMAIN txs} :
              x.batch # 0 /\ x.date < Today /\ x.kind \in {"buy", "sell", "split"}}

\* readPositionsDailyOn and readPortfolioValueOn: the close of a day.
PositionsDailyOn(d) == days[d].pos
PortfolioValueOn(d) == days[d].v

\* Mutant: the market value is taken at the last trade.
HistoryValue_Stale(led, dailyMV, t) == led[t].qty * led[t].last

\* ledgerToHistoricalHoldings prefers the day's market value, when there is
\* one, to the price of the last trade.
HistoryValue(led, dailyMV, t) ==
    IF t \in DOMAIN dailyMV THEN dailyMV[t].mv ELSE led[t].qty * led[t].last

\* holdingsHistoryBatch: positions of the ledger with a positive quantity,
\* then the cash sleeve of positions_daily.
HoldingsHistoryBatch(d) ==
    LET led == LedgerAsOf(d)
        items == {t \in Tickers : led[t].qty > 0}
        dailyMV == PositionsDailyOn(d)
    IN  [k \in items \cup ({Cash} \cap DOMAIN dailyMV) |->
            IF k = Cash THEN dailyMV[Cash].mv ELSE HistoryValue(led, dailyMV, k)]

-----------------------------------------------------------------------------
(* Contributions: snapshot/holdings_impact.go                              *)

\* Mutant: a dividend is cash from outside, not from the ticker.
TxFlow_DividendIsDeposit(x, k) ==
    LET asset == k = x.ticker
    IN  CASE x.kind \in {"buy", "fee"} ->
               IF k = Cash THEN 0 - x.amount ELSE IF asset THEN x.amount ELSE 0
        []   x.kind = "sell" ->
               IF k = Cash THEN x.amount ELSE IF asset THEN 0 - x.amount ELSE 0
        []   x.kind \in {"deposit", "dividend"} -> IF k = Cash THEN x.amount ELSE 0
        []   x.kind = "withdrawal" -> IF k = Cash THEN 0 - x.amount ELSE 0
        []   OTHER -> 0

\* applyTxFlow: money moving into the bucket k.
TxFlow(x, k) ==
    LET asset == k = x.ticker
    IN  CASE x.kind \in {"buy", "fee"} ->
               IF k = Cash THEN 0 - x.amount ELSE IF asset THEN x.amount ELSE 0
        []   x.kind \in {"sell", "dividend"} ->
               IF k = Cash THEN x.amount ELSE IF asset THEN 0 - x.amount ELSE 0
        []   x.kind = "deposit" -> IF k = Cash THEN x.amount ELSE 0
        []   x.kind = "withdrawal" -> IF k = Cash THEN 0 - x.amount ELSE 0
        []   OTHER -> 0

\* buildPeriodWindows: from the wanted start, past days without equity; no
\* window without a day before the last.
Windows ==
    {w \in 1..(Len(days) - 1) :
        \E want \in 1..w : days[w].v # 0 /\ \A i \in want..(w - 1) : days[i].v = 0}

MV(d, k) == IF k \in DOMAIN days[d].pos THEN days[d].pos[k].mv ELSE 0

\* Flows are summed on (t0, t1]: the opening value is after the day's trades.
InWindow(x, w) == x.date \in (w + 1)..Len(days)

AddFlow(sum, i, w, k) == IF InWindow(txs[i], w) THEN sum + TxFlow(txs[i], k) ELSE sum
Flow(w, k) == Loop(LAMBDA sum, i : AddFlow(sum, i, w, k), 0, Len(txs))

\* computePeriodItem.
Pnl(w, k) == MV(Len(days), k) - MV(w, k) - Flow(w, k)

\* computePeriodItems: the tickers with a position on some day of the window.
Keys(w) == UNION {DOMAIN days[i].pos : i \in w..Len(days)}

\* computePeriod: (V1 - V0) - sum of pnl, which must vanish (else 500).
Residual(w) ==
    days[Len(days)].v - days[w].v - SumFunction([k \in Keys(w) |-> Pnl(w, k)])

-----------------------------------------------------------------------------
(* Drawdowns: snapshot/drawdowns.go                                        *)

Equity == [d \in DOMAIN days |-> days[d].v]

\* depth <= -minDrawdownDepth, with minDrawdownDepth = 0.05.
Deep(v, peak) == (v - peak) * 20 <= 0 - peak

Cycle(p, t, r, n) == [start |-> p, trough |-> t, recovery |-> r, days |-> n]

\* Mutant: an equal value does not end a drawdown.
Recovered_Strict(s, i, peak) == s[i] > s[peak]

Recovered(s, i, peak) == s[i] >= s[peak]

\* detectDrawdowns: one pass over the series; recovery 0 is an open drawdown.
Scan(s, st, i) ==
    IF Recovered(s, i, st.peak)
    THEN [peak |-> i, trough |-> 0,
          out |-> IF st.trough # 0 /\ Deep(s[st.trough], s[st.peak])
                  THEN st.out \cup {Cycle(st.peak, st.trough, i, i - st.peak)}
                  ELSE st.out]
    ELSE [st EXCEPT !.trough = IF @ = 0 \/ s[i] < s[@] THEN i ELSE @]

DetectDrawdowns(s) ==
    LET end == Loop(LAMBDA st, i : Scan(s, st, i + 1),
                    [peak |-> 1, trough |-> 0, out |-> {}], Len(s) - 1)
    IN  IF end.trough # 0 /\ Deep(s[end.trough], s[end.peak])
        THEN end.out \cup {Cycle(end.peak, end.trough, 0, Len(s) - (end.peak - 1))}
        ELSE end.out

-----------------------------------------------------------------------------
(* Properties                                                              *)

\* The position of t after the rows of day d is right if the backtest held held
\* of it then.
LedgerRight(t, d, held) ==
    LET pos  == LedgerAsOf(d)[t]
        paid == {txs[i].price : i \in {j \in Replayed(txs, t, d) : txs[j].kind = "buy"}}
        splits == \E i \in Replayed(txs, t, d) : txs[i].kind = "split"
    IN  /\ pos.qty = held
        /\ pos.qty = 0 => pos.cost = 0
        /\ pos.qty > 0 =>
             /\ \E p \in paid : pos.cost <= p * pos.qty * pos.per
             /\ ~splits => \E p \in paid : pos.cost >= p * pos.qty * pos.per

\* Replaying the transactions gives the positions the backtest held at the
\* close of every day, whatever splits, liquidations and re-entries there were
\* (HoldingsAsOf has no other source for a past date).  Their average cost is a
\* mean of prices paid: it lies between the lowest and the highest price of the
\* purchases, a split dividing it, and nothing is left of it when the position
\* is closed, so that a re-entry starts afresh.
LedgerReplayed ==
    \A d \in DOMAIN days, t \in Tickers :
        LedgerRight(t, d, IF t \in DOMAIN days[d].pos THEN days[d].pos[t].qty ELSE 0)

\* An entry of the holdings history adds up: the values it lists, cash included,
\* sum to the portfolio value of its day (holdingsHistoryBatch replays by trade
\* date "so batch_id=0 rows ... don't leak into earlier batches").
HistoryAddsUp ==
    \A x \in Batches :
        LET items == HoldingsHistoryBatch(x.date)
        IN  SumFunction(items) = PortfolioValueOn(x.date)

\* Contributions explain the whole change of equity: the residual that
\* computePeriod checks is zero for every window in which no money came from or
\* went outside and every ticker with a cash flow was held at some close.
ImpactComplete ==
    \A w \in Windows :
        (\A i \in DOMAIN txs : InWindow(txs[i], w) =>
            /\ txs[i].kind \notin {"deposit", "withdrawal"}
            /\ txs[i].kind \notin {"interest", "split"} => txs[i].ticker \in Keys(w))
        => Residual(w) = 0

\* A running maximum, the days under it that follow, the first lowest of some.
MaxAt(s, i)  == \A j \in 1..i : s[j] <= s[i]
Under(s, i)  == {j \in (i + 1)..Len(s) : \A k \in (i + 1)..j : s[k] < s[i]}
Lowest(s, J) == CHOOSE j \in J : \A k \in J : s[j] < s[k] \/ (s[j] = s[k] /\ j <= k)

\* The drawdown that starts at i, open if it lasts to the end of the series.
CycleAt(s, i) ==
    LET end == i + Cardinality(Under(s, i))
    IN  IF end < Len(s) THEN Cycle(i, Lowest(s, Under(s, i)), end + 1, end + 1 - i)
        ELSE Cycle(i, Lowest(s, Under(s, i)), 0, Len(s) + 1 - i)

\* The drawdowns are the cycles of the series: each starts at the last day of a
\* running maximum, ends at the first day that reaches it again, and its trough
\* is the first lowest day between.
DrawdownsExact ==
    LET s == Equity
        Peaks == {i \in 1..Len(s) : /\ MaxAt(s, i) /\ Under(s, i) # {}
                                   /\ Deep(s[Lowest(s, Under(s, i))], s[i])}
    IN  Len(s) > 0 => DetectDrawdowns(s) = {CycleAt(s, i) : i \in Peaks}

-----------------------------------------------------------------------------
(* The inductive invariant behind the properties.                          *)

Kinds == {"deposit", "withdrawal", "buy", "sell", "split", "dividend", "fee", "interest"}
TxRows == [date : 1..(MaxDays + 1), kind : Kinds, ticker : Tickers \cup {Cash}, qty : Nat,
           price : Nat, amount : Nat, batch : Nat]

TypeOK ==
    /\ cash \in Nat /\ qty \in [Tickers -> Nat]
    /\ txs \in Seq(TxRows) /\ Len(txs) <= MaxTx
    /\ days \in Seq(Range(days)) /\ Len(days) <= MaxDays
    /\ \A d \in DOMAIN days :
         /\ days[d].v \in Int /\ DOMAIN days[d].pos \subseteq Tickers \cup {Cash}
         /\ days[d].pos \in [DOMAIN days[d].pos -> [mv : Nat, qty : Nat]]

\* No row is from the future, and deposits, withdrawals and interest are
\* the ones about cash.
TxInv ==
    \A i \in DOMAIN txs :
        /\ txs[i].date <= Today
        /\ txs[i].ticker = Cash <=> txs[i].kind \in {"deposit", "withdrawal", "interest"}

\* A closed day has the cash and what was held, and is worth their sum.
DayInv ==
    \A d \in DOMAIN days :
        /\ Cash \in DOMAIN days[d].pos
        /\ \A t \in DOMAIN days[d].pos \ {Cash} : days[d].pos[t].qty > 0
        /\ days[d].v = SumFunction([k \in DOMAIN days[d].pos |-> days[d].pos[k].mv])

\* The replay is right for the day under way, too.
LedgerInv ==
    \A t \in Tickers : LedgerRight(t, Today, qty[t]) /\ LedgerAsOf(Today)[t].per > 0

IInv == TypeOK /\ TxInv /\ DayInv /\ LedgerInv /\ LedgerReplayed
=============================================================================

------------------------------ MODULE Profits ------------------------------
(***************************************************************************)
(* What a seller is told to have earned.  A sale is the seller's profit,   *)
(* or, when the item has shares, its holders' by payouts; the profile adds *)
(* them up by period, by day and by month, and the overview compares two   *)
(* months by four queries.  Days are numbers from 1, months have the       *)
(* lengths Months.  A definition marked "Fault" is used by no action: it   *)
(* is a plausible mistake in the definition after it, which a property     *)
(* must notice.                                                            *)
(***************************************************************************)
EXTENDS Integers, Sequences, FiniteSets, SequencesExt

CONSTANTS
    Users, Me,    \* sellers and holders, and the one who looks at the overview
    Months,       \* the number of days of each month
    Zones,        \* where the process may run: 1 when its time is ahead of UTC,
                  \* so that its midnight is on the day before in UTC, else 0
    FirstDays,    \* the days on which a behaviour may begin
    Amounts,      \* what a sale yields
    MaxSales      \* bound: the sales

ASSUME MonthsAssumption == Months \in Seq(Nat \ {0}) /\ Len(Months) >= 2
ASSUME ZonesAssumption == Zones \subseteq {0, 1} /\ Me \in Users

VARIABLES
    today,     \* the day, in the database
    sales,     \* market_history: seller, day, amount, shared (isRegisteredStock)
    payouts,   \* market_profit_payout_history: holder, day, amount
    open,      \* a sale of a shared item that is not committed, or {}
    report     \* the overview that is being put together

profitVars == <<today, sales, payouts, open, report>>

-----------------------------------------------------------------------------
(***************************************************************************)
(* The calendar.                                                           *)
(***************************************************************************)

LastOf(m) == SumFunctionOnSet([k \in 1..m |-> Months[k]], 1..m)
FirstOf(m) == LastOf(m - 1) + 1
MonthOf(d) == CHOOSE m \in DOMAIN Months : FirstOf(m) <= d /\ d <= LastOf(m)
Days == 1..LastOf(Len(Months))

ASSUME ProfitAssumption ==
    IsFiniteSet(Users) /\ Amounts \subseteq Nat /\ FirstDays \subseteq Days

\* setMonth(getMonth() - 1) keeps the day of the month; a day that the month
\* before does not have is a day of the current month again.
MonthAgo(d) ==
    LET m == MonthOf(d)
    IN IF d - FirstOf(m) + 1 > Months[m - 1] THEN m ELSE m - 1

-----------------------------------------------------------------------------
(***************************************************************************)
(* Sums of a user over the days from a to b.                               *)
(***************************************************************************)

SumOf(rows, t) == SumFunctionOnSet([k \in rows |-> t[k].amount], rows)
Between(t, a, b) == {k \in DOMAIN t : a <= t[k].day /\ t[k].day <= b}

\* Sales of items without shares only.
MarketRows(u, a, b) ==
    {k \in Between(sales, a, b) : sales[k].seller = u /\ ~sales[k].shared}
\* Fault: shared sales, too.
TotalMarketProfitFault(u, a, b) ==
    SumOf({k \in Between(sales, a, b) : sales[k].seller = u}, sales)
TotalMarketProfit(u, a, b) == SumOf(MarketRows(u, a, b), sales)
StockRows(u, a, b) == {k \in Between(payouts, a, b) : payouts[k].holder = u}
TotalStockProfit(u, a, b) == SumOf(StockRows(u, a, b), payouts)

\* A bar for each key of the array of dates and for each key of a row.
ByDay == [d \in Days |-> d]
ByMonth == [d \in Days |-> MonthOf(d)]
Chart(keys, rows, t, keyOf) ==
    [k \in keys \cup {keyOf[t[r].day] : r \in rows} |->
        SumOf({r \in rows : keyOf[t[r].day] = k}, t)]

\* Days from a to b; new Date(dateFrom) is midnight of the process, and
\* toISOString names its day in UTC.
MarketDaily(u, a, b, z) ==
    Chart((a - z)..(b - z), MarketRows(u, a, b), sales, ByDay)
\* Fault: the rows are looked for with the shifted days, too.
StockDailyFault(u, a, b, z) ==
    Chart((a - z)..(b - z), StockRows(u, a - z, b - z), payouts, ByDay)
StockDaily(u, a, b, z) ==
    Chart((a - z)..(b - z), StockRows(u, a, b), payouts, ByDay)

\* Months from m to n, which are asked for without a day: n is its first day,
\* and the market's chart ends when that day, or the next, begins.  The chart of
\* the shares takes its first day from its first key.
MarketMonthly(u, m, n, z) ==
    Chart(m..n, MarketRows(u, FirstOf(m), FirstOf(n) - 1 + z), sales, ByMonth)
StockMonthly(u, m, n, z) ==
    Chart((m - z)..(n - z), StockRows(u, FirstOf(m - z), FirstOf(n)), payouts, ByMonth)

-----------------------------------------------------------------------------
(***************************************************************************)
(* Sales and payouts.                                                      *)
(***************************************************************************)

Sales == Len(sales) + Cardinality(open)

Sell(u, x) ==
    /\ Sales < MaxSales
    /\ sales' = Append(sales, [seller |-> u, day |-> today, amount |-> x, shared |-> FALSE])
    /\ UNCHANGED <<today, payouts, open, report>>

\* An item with shares: the sale and the payouts are rows of one transaction,
\* each with the time of its own statement.
BeginSharedSale(u, x) ==
    /\ Sales < MaxSales /\ open = {}
    /\ open' = {[seller |-> u, day |-> today, amount |-> x, shared |-> TRUE]}
    /\ UNCHANGED <<today, sales, payouts, report>>

\* The amount is split between holders.
PayOut ==
    \E s \in open, u, v \in Users, p \in 0..1 :
        /\ p < s.amount /\ u # v
        /\ sales' = Append(sales, s)
        /\ payouts' = payouts \o
            IF p = 0 THEN <<[holder |-> u, day |-> today, amount |-> s.amount]>>
            ELSE <<[holder |-> u, day |-> today, amount |-> p],
                   [holder |-> v, day |-> today, amount |-> s.amount - p]>>
        /\ open' = {}
        /\ UNCHANGED <<today, report>>

NextDay ==
    /\ today + 1 \in Days /\ report.phase # "done"
    /\ today' = today + 1
    /\ UNCHANGED <<sales, payouts, open, report>>

-----------------------------------------------------------------------------
(***************************************************************************)
(* getSummaryMonthlyChart: the last month and this one, two queries each.  *)
(***************************************************************************)

NoReport == [phase |-> "idle"]

\* Math.round
Round(x, y) == (2 * x + y) \div (2 * y)
MarketPercent(market, stock) == Round(100 * market, market + stock)
StockPercent(market, stock) == Round(100 * stock, market + stock)
Growth(last, current) ==
    IF last = 0 THEN IF current > 0 THEN 100 ELSE 0
    ELSE Round(100 * (current - last), last)

AskLastMarket ==
    /\ report.phase = "idle"
    /\ LET m == MonthAgo(today) IN
        report' = [phase |-> "lastStock", previous |-> m,
                   market |-> TotalMarketProfit(Me, FirstOf(m), LastOf(m))]
    /\ UNCHANGED <<today, sales, payouts, open>>
AskLastStock ==
    /\ report.phase = "lastStock"
    /\ LET m == report.previous IN
        report' = [phase |-> "market", previous |-> m,
                   last |-> report.market + TotalStockProfit(Me, FirstOf(m), LastOf(m))]
    /\ UNCHANGED <<today, sales, payouts, open>>
AskMarket ==
    /\ report.phase = "market"
    /\ LET m == MonthOf(today) IN
        report' = [phase |-> "stock", last |-> report.last, month |-> m,
                   market |-> TotalMarketProfit(Me, FirstOf(m), LastOf(m))]
    /\ UNCHANGED <<today, sales, payouts, open>>
AskStock ==
    /\ report.phase = "stock"
    /\ LET m == report.month
           stock == TotalStockProfit(Me, FirstOf(m), LastOf(m))
       IN report' =
            [phase |-> "done", growth |-> Growth(report.last, report.market + stock),
             \* Without profit the parts are NaN.
             parts |-> IF report.market + stock = 0 THEN <<>>
                       ELSE <<MarketPercent(report.market, stock),
                              StockPercent(report.market, stock)>>]
    /\ UNCHANGED <<today, sales, payouts, open>>

-----------------------------------------------------------------------------
ProfitInit ==
    /\ today \in FirstDays /\ MonthOf(today) >= 2
    /\ sales = <<>> /\ payouts = <<>> /\ open = {} /\ report = NoReport

ProfitNext ==
    \/ \E u \in Users, x \in Amounts :
          report.phase # "done" /\ (Sell(u, x) \/ BeginSharedSale(u, x))
    \/ PayOut \/ NextDay
    \/ AskLastMarket \/ AskLastStock \/ AskMarket \/ AskStock

ProfitSpec == ProfitInit /\ [][ProfitNext]_profitVars

-----------------------------------------------------------------------------
(***************************************************************************)
(* Properties.                                                             *)
(***************************************************************************)

ProfitTypeOK ==
    /\ today \in Days /\ Cardinality(open) <= 1
    /\ \A s \in ToSet(sales) \cup open :
          s.seller \in Users /\ s.day \in 1..today /\ s.amount \in Nat
    /\ \A p \in ToSet(payouts) : p.holder \in Users /\ p.day \in 1..today /\ p.amount > 0
    /\ report.phase \in {"idle", "lastStock", "market", "stock", "done"}
    /\ report.phase = "done" => report.growth >= -100

Everybody(b) ==
    SumFunctionOnSet(
        [u \in Users |-> TotalMarketProfit(u, 1, b) + TotalStockProfit(u, 1, b)], Users)

\* What all are told to have earned until a day is never more than what was sold
\* until then, and at last is all of it: a shared sale is counted by its payouts,
\* not also by itself (getTotalMarketProfit, getTotalProfitPayoutHistory).  In
\* between it may be less, when the payouts of a sale are of the next day.
ProfitCountedOnce ==
    /\ Everybody(today) = SumOf(DOMAIN sales, sales)
    /\ \A b \in 1..today : Everybody(b) <= SumOf(Between(sales, 1, b), sales)

\* The bars of a chart by days add up to the total that the summary shows for
\* the same days, wherever the process runs (getMarketProfitChart,
\* getStockProfitChart).
DailyChartsAddUp ==
    \A a \in 2..today, z \in Zones : \A b \in a..today :
        LET market == MarketDaily(Me, a, b, z)
            stock == StockDaily(Me, a, b, z)
        IN /\ SumFunctionOnSet(market, DOMAIN market) = TotalMarketProfit(Me, a, b)
           /\ SumFunctionOnSet(stock, DOMAIN stock) = TotalStockProfit(Me, a, b)

\* And in a chart by months every month but the last has the profit of all its
\* days, and no bar has more than its month.
WholeMonthsAddUp ==
    \A m, n \in 2..Len(Months), z \in Zones :
        LET market == MarketMonthly(Me, m, n, z)
            stock == StockMonthly(Me, m, n, z)
        IN m <= n =>
            /\ \A k \in m..(n - 1) :
                /\ market[k] = TotalMarketProfit(Me, FirstOf(k), LastOf(k))
                /\ stock[k] = TotalStockProfit(Me, FirstOf(k), LastOf(k))
            /\ \A k \in DOMAIN market : market[k] <= TotalMarketProfit(Me, FirstOf(k), LastOf(k))
            /\ \A k \in DOMAIN stock : stock[k] <= TotalStockProfit(Me, FirstOf(k), LastOf(k))

\* And the two parts of the month's profit make a hundred, or one more when both
\* are rounded up, also when the queries saw different sales
\* (getSummaryMonthlyChart).
PartsMakeAHundred ==
    report.phase = "done" /\ report.parts # <<>> =>
        report.parts[1] + report.parts[2] \in {100, 101}

\* What the charts show agrees with the totals, and with itself.
ChartsAgree == DailyChartsAddUp /\ WholeMonthsAddUp /\ PartsMakeAHundred
=============================================================================

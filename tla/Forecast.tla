------------------------------ MODULE Forecast ------------------------------
(***************************************************************************)
(* The sales forecast (forecasting/forecast.ts, sales-forecast.service.ts): *)
(* paid invoices are summed by day, a line is fitted to the days, and each *)
(* day of the week keeps its average distance from it.  Fractions are kept *)
(* exact, as a numerator over one of the denominators below; the binary    *)
(* fractions of the code are not modelled.                                 *)
(***************************************************************************)
EXTENDS Integers, FiniteSets, Sequences

CONSTANTS
  Days,         \* lookbackDays: days 0 .. Days - 1 are the history, Days is today
  Horizon,      \* horizonDays
  WeekDays,     \* days of a week: 7
  Amounts,      \* cents of an invoice
  Created,      \* days on which invoices were created, today and earlier included
  MaxInvoices,  \* bound: paid invoices
  FORECAST_MIN_DATA_POINTS

ASSUME ForecastAssumption ==
  /\ {Days, Horizon, WeekDays} \subseteq Nat \ {0}
  /\ Amounts \subseteq Nat /\ Created \subseteq Int
  /\ MaxInvoices \in Nat /\ FORECAST_MIN_DATA_POINTS \in Nat

VARIABLE rows   \* the paid invoices: [day, cents]

Total(S, of) ==
  LET sum[T \in SUBSET S] ==
        IF T = {} THEN 0 ELSE LET t == CHOOSE t \in T : TRUE IN of[t] + sum[T \ {t}]
  IN sum[S]

ForecastInit == rows = <<>>

\* An invoice is among the paid ones; revenue is that of the day it was created,
\* whenever it was paid.  Only sums are taken, so that they can come by day.
Pay == \E day \in Created, cents \in Amounts :
         /\ Len(rows) < MaxInvoices
         /\ \A n \in DOMAIN rows : rows[n].day <= day
         /\ rows' = Append(rows, [day |-> day, cents |-> cents])

ForecastSpec == ForecastInit /\ [][Pay]_rows

-----------------------------------------------------------------------------
\* The query takes the rows of [from, today).
Window == {n \in DOMAIN rows : rows[n].day \in 0..Days - 1}

bucketDailyRevenue ==
  LET cents == [n \in Window |-> rows[n].cents]
  IN [x \in 0..Days - 1 |-> Total({n \in Window : rows[n].day = x}, cents)]

Sum(points) == Total(DOMAIN points, points)

\* fitLinearTrend: slope is slope / unit, intercept is intercept / (unit * Days).
fitLinearTrend(points) ==
  LET days == DOMAIN points
      sumX == Total(days, [x \in days |-> x])
      sumXY == Total(days, [x \in days |-> x * points[x]])
      denominator == Days * Total(days, [x \in days |-> x * x]) - sumX * sumX
  IN IF denominator = 0 THEN [unit |-> 1, slope |-> 0, intercept |-> Sum(points)]
     ELSE LET slope == Days * sumXY - sumX * Sum(points)
          IN [unit |-> denominator, slope |-> slope,
              intercept |-> Sum(points) * denominator - slope * sumX]

UnitOf(trend) == trend.unit * Days
OnTrend(trend, x) == trend.intercept + trend.slope * Days * x

\* The days of the history on the weekday of day x.
SameWeekday(x) == {d \in 0..Days - 1 : d % WeekDays = x % WeekDays}

\* weekdaySeasonality, of the weekday of day x, over UnitOf(trend) times the
\* number of those days.
weekdaySeasonality(points, trend, x) ==
  Total(SameWeekday(x),
        [d \in SameWeekday(x) |-> points[d] * UnitOf(trend) - OnTrend(trend, d)])

Nearest(n, unit) == (2 * n + unit) \div (2 * unit)
Positive(n) == IF n < 0 THEN 0 ELSE n

insufficientData(points) ==
  Cardinality({x \in DOMAIN points : points[x] # 0}) < FORECAST_MIN_DATA_POINTS

\* Mutant: the first day of the forecast is taken for the last of the history.
FromYesterday(i) == Days + i - 1
DayOf(i) == Days + i

Flat(points) == Positive(Nearest(Sum(points), Days))

Predicted(points, i) ==
  LET trend == fitLinearTrend(points)
      x == DayOf(i)
      days == Cardinality(SameWeekday(x))
  IN IF days = 0 THEN Nearest(OnTrend(trend, x), UnitOf(trend))
     ELSE Nearest(days * OnTrend(trend, x) + weekdaySeasonality(points, trend, x),
                  days * UnitOf(trend))

buildSalesForecast(points) ==
  [i \in 0..Horizon - 1 |->
     IF insufficientData(points) THEN Flat(points) ELSE Positive(Predicted(points, i))]

\* SalesForecastService.forecast
forecast == buildSalesForecast(bucketDailyRevenue)

-----------------------------------------------------------------------------
\* The value of day x if the days of the history lie on a line.
LineAt(points, x) == points[0] + (points[1] - points[0]) * x
OnALine(points) == Days > 1 /\ \A x \in DOMAIN points : points[x] = LineAt(points, x)

\* Revenue that grows or falls by the same amount every day goes on doing so,
\* to the cent and not below zero, whichever weekdays the history begins and
\* ends on; a flat average stays among the days of the history; and every
\* invoice of the window counts in exactly one day.
TrendsContinue ==
  LET points == bucketDailyRevenue
  IN /\ Sum(points) = Total(Window, [n \in Window |-> rows[n].cents])
     /\ insufficientData(points) => \A i \in DOMAIN forecast :
          (\E x \in DOMAIN points : points[x] <= forecast[i])
            /\ (\E x \in DOMAIN points : points[x] >= forecast[i])
     /\ ~insufficientData(points) /\ OnALine(points) =>
          \A i \in DOMAIN forecast : forecast[i] = Positive(LineAt(points, Days + i))
=============================================================================

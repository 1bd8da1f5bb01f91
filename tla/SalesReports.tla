----------------------------- MODULE SalesReports -----------------------------
(***************************************************************************)
(* The reports on orders and customers, read in several statements while   *)
(* the orders change.                                                      *)
(*                                                                         *)
(* A report is a row of stages; the statements of one stage run at once,   *)
(* each on the orders of its own moment, and one that fails fails the      *)
(* report.  Some name what schema.prisma does not have: `lacks' is what    *)
(* the database lacks, tried with and without.  Time is counted in days    *)
(* and stands at Today.  Left out: what the figures are called, who asks,  *)
(* the tenant, and the inventory figures of a report (see StockReports).   *)
(***************************************************************************)
EXTENDS Integers, Sequences, FiniteSetsExt

CONSTANTS
  Sales, Buyers, NoSale, NoReport,
  Amounts,     \* amounts of new orders
  Histories,   \* the order tables a run starts from
  Databases,   \* what the database may lack: a set of sets of names
  Today, WeekDays, MonthDays,
  MaxShifts    \* bound on the changes of orders

VARIABLES
  sales,       \* row of each order, or NoSale
  shifts,      \* changes so far
  lacks,       \* names the database does not have
  report       \* the report being made

reportVars == <<sales, shifts, lacks, report>>

-----------------------------------------------------------------------------
(* Reading the orders                                                      *)

Month(day) == day \div MonthDays
Last(days) == [from |-> Today - days, to |-> Today]
ThisMonth == [from |-> Month(Today) * MonthDays, to |-> Today]

\* The presets; without a preset and without dates, the last thirty days.
Span(period) ==
  CASE period = "today" -> Last(0)
    [] period = "yesterday" -> [from |-> Today - 1, to |-> Today - 1]
    [] period = "last7days" -> Last(WeekDays)
    [] period = "thisMonth" -> ThisMonth
    [] period = "lastMonth" -> [from |-> (Month(Today) - 1) * MonthDays, to |-> Month(Today) * MonthDays - 1]
    [] period = "thisYear" -> [from |-> 0, to |-> Today]
    [] OTHER -> Last(MonthDays)

Periods == {"today", "yesterday", "last7days", "last30days", "thisMonth", "lastMonth", "thisYear"}

Placed(rows) == {s \in Sales : rows[s] # NoSale}
Within(rows, r) == {s \in Placed(rows) : rows[s].at \in r.from..r.to}
Kept(rows) == {s \in Placed(rows) : rows[s].status # "cancelled"}
KeptWithin(rows, r) == Kept(rows) \cap Within(rows, r)

\* The sum of the values of a function.
Sum(f) == MapThenSumSet(LAMBDA x : f[x], DOMAIN f)

Revenue(rows, S) == Sum([s \in S |-> rows[s].total])
BuyersOf(rows, S) == {rows[s].buyer : s \in S}
Of(rows, S, b) == {s \in S : rows[s].buyer = b}
WithStatus(rows, S, T) == {s \in S : rows[s].status \in T}
Percent(part, whole) == IF whole > 0 THEN (part * 100) \div whole ELSE 0

\* Those of S with the largest scores, limit of them; equals are the database's choice.
Top(score, S, limit) ==
  CHOOSE T \in SUBSET S :
    /\ Cardinality(T) = IF limit < Cardinality(S) THEN limit ELSE Cardinality(S)
    /\ \A in \in T, out \in S \ T : score[out] <= score[in]

-----------------------------------------------------------------------------
(* The figures, from the rows each statement saw                           *)

SalesFigures(seen, r) ==
  LET now == KeptWithin(seen["current"], r)
      before == KeptWithin(seen["previous"], [from |-> r.from - (r.to - r.from), to |-> r.from - 1])
      was == Revenue(seen["previous"], before)
      days == KeptWithin(seen["daily"], r)
      all == Within(seen["byStatus"], r)
  IN  [revenue |-> Revenue(seen["current"], now), orders |-> Cardinality(now),
       items |-> Sum([s \in now |-> seen["current"][s].items]),
       growth |-> IF was > 0 THEN Percent(Revenue(seen["current"], now) - was, was) ELSE 0,
       daily |-> [d \in {seen["daily"][s].at : s \in days} |->
                    Revenue(seen["daily"], {s \in days : seen["daily"][s].at = d})],
       byStatus |-> [t \in {seen["byStatus"][s].status : s \in all} |-> Cardinality(WithStatus(seen["byStatus"], all, {t}))]]

\* Products are told apart by the amount of the order that has them.
ProductFigures(rows, r, limit) ==
  LET S == KeptWithin(rows, r)
      sold == [p \in {rows[s].total : s \in S} |-> Sum([s \in {x \in S : rows[x].total = p} |-> rows[s].items])]
  IN  [sold |-> sold, top |-> Top(sold, DOMAIN sold, limit)]

PeriodFigures(rows, r) ==
  LET S == KeptWithin(rows, r)
  IN  [m \in {Month(rows[s].at) : s \in S} |-> Revenue(rows, {s \in S : Month(rows[s].at) = m})]

\* The k-th smallest value of f on S.
Kth(f, S, k) ==
  CHOOSE v \in {f[b] : b \in S} :
    Cardinality({b \in S : f[b] < v}) < k /\ k <= Cardinality({b \in S : f[b] <= v})

\* The fifth of the sorted values that b's belongs to.
Quintile(f, S, b) ==
  LET met == {k \in 1..4 : f[b] <= Kth(f, S, (Cardinality(S) * k) \div 5 + 1)}
  IN  IF met = {} THEN 5 ELSE Min(met)

\* The branches of calculateRFMSegmentation: the first that holds.
Segment(r, f, m) ==
  LET branches ==
        << <<"champions", r >= 4 /\ f >= 4 /\ m >= 4>>, <<"loyalCustomers", r >= 3 /\ f >= 4 /\ m >= 4>>,
           <<"potentialLoyalists", r >= 4 /\ f <= 2 /\ m >= 3>>, <<"recentCustomers", r >= 4 /\ f <= 2 /\ m <= 2>>,
           <<"promising", r >= 3 /\ f <= 2 /\ m <= 3>>, <<"needsAttention", r <= 3 /\ f >= 3 /\ m >= 3>>,
           <<"atRisk", r <= 2 /\ f >= 3 /\ m >= 3>>, <<"cantLose", r <= 2 /\ f >= 4 /\ m >= 4>>,
           <<"hibernating", r <= 2 /\ f <= 2 /\ m >= 3>>, <<"lost", TRUE>> >>
  IN  branches[Min({n \in DOMAIN branches : branches[n][2]})][1]

\* How long ago each bought last, how often and for how much.
Segments(rows) ==
  LET S == Kept(rows)
      B == BuyersOf(rows, S)
      recency == [b \in B |-> Today - Max({rows[s].at : s \in Of(rows, S, b)})]
      frequency == [b \in B |-> Cardinality(Of(rows, S, b))]
      monetary == [b \in B |-> Revenue(rows, Of(rows, S, b))]
  IN  [b \in B |-> Segment(6 - Quintile(recency, B, b), Quintile(frequency, B, b), Quintile(monetary, B, b))]

Spent(rows) == [b \in BuyersOf(rows, Kept(rows)) |-> Revenue(rows, Of(rows, Kept(rows), b))]
Repeat(rows) == {b \in Buyers : Cardinality(Of(rows, Kept(rows), b)) > 1}

CustomerFigures(seen, r) ==
  LET now == BuyersOf(seen["current"], KeptWithin(seen["current"], r))
      before == BuyersOf(seen["previous"], KeptWithin(seen["previous"], [from |-> r.from - (r.to - r.from), to |-> r.from - 1]))
  IN  [repeat |-> Repeat(seen["counts"]),
       value |-> Sum(Spent(seen["counts"])),
       retention |-> Percent(Cardinality(now \cap before), Cardinality(before)),
       top |-> Top(Spent(seen["top"]), DOMAIN Spent(seen["top"]), 10),
       segments |-> Segments(seen["rfm"])]

\* Who ordered in the calendar month of a day, and who of them in the month
\* that begins on that day, and in the next ones.
CohortFigures(seen, day, month) ==
  LET members == BuyersOf(seen["members"], {s \in Kept(seen["members"]) : Month(seen["members"][s].at) = Month(day)})
      from == day + month * MonthDays
      back == BuyersOf(seen["active"], KeptWithin(seen["active"], [from |-> from, to |-> from + MonthDays - 1]))
  IN  [size |-> Cardinality(members), active |-> Cardinality(back \cap members)]

\* Mutation: who bought on the day of the bound is gone already.
ChurnFiguresEarly(rows, days) ==
  LET gone == {b \in DOMAIN Spent(rows) : \A s \in Of(rows, Kept(rows), b) : rows[s].at <= Today - days}
  IN  [gone |-> gone, value |-> Sum([b \in gone |-> Spent(rows)[b]])]

ChurnFigures(rows, days) ==
  LET gone == {b \in DOMAIN Spent(rows) : \A s \in Of(rows, Kept(rows), b) : rows[s].at < Today - days}
  IN  [gone |-> gone, value |-> Sum([b \in gone |-> Spent(rows)[b]])]

KpiFigures(seen, r) ==
  LET all == KeptWithin(seen["stats"], r)
      timed == KeptWithin(seen["timing"], r)
      back == WithStatus(seen["returned"], Within(seen["returned"], r), {"refunded"})
      who == BuyersOf(seen["customers"], KeptWithin(seen["customers"], r))
  IN  [orders |-> Cardinality(all), buyers |-> Cardinality(who),
       fulfilled |-> Percent(Cardinality(WithStatus(seen["timing"], timed, {"shipped", "delivered"})), Cardinality(timed)),
       returned |-> Percent(Cardinality(back), Cardinality(all)),
       each |-> IF who = {} THEN 0 ELSE Revenue(seen["stats"], all) \div Cardinality(who)]

DashboardFigures(seen) ==
  LET month == KeptWithin(seen["counts"], ThisMonth)
      trend == KeptWithin(seen["trends"], Last(WeekDays))
  IN  [today |-> Revenue(seen["today"], KeptWithin(seen["today"], Last(0))),
       week |-> Revenue(seen["week"], KeptWithin(seen["week"], Last(WeekDays))),
       month |-> Revenue(seen["month"], KeptWithin(seen["month"], ThisMonth)),
       orders |-> Cardinality(month),
       pending |-> Cardinality(WithStatus(seen["counts"], month, {"pending", "processing"})),
       completed |-> Cardinality(WithStatus(seen["counts"], month, {"delivered"})),
       repeat |-> Repeat(seen["customers"]),
       most |-> Max({0} \cup {Spent(seen["customers"])[b] : b \in DOMAIN Spent(seen["customers"])}),
       sold |-> ProductFigures(seen["top"], ThisMonth, 5).sold,
       trend |-> [d \in {seen["trends"][s].at : s \in trend} |-> Revenue(seen["trends"], {s \in trend : seen["trends"][s].at = d})]]

\* getOrderStats takes the cancelled orders too, and the money of those paid.
StatsFigures(seen, r) ==
  LET all == Within(seen["total"], r)
      paid == {s \in Within(seen["revenue"], r) : seen["revenue"][s].paid}
  IN  [orders |-> Cardinality(all), revenue |-> Revenue(seen["revenue"], paid),
       pending |-> Cardinality(WithStatus(seen["pending"], Within(seen["pending"], r), {"pending"})),
       completed |-> Cardinality(WithStatus(seen["completed"], Within(seen["completed"], r), {"delivered"}))]

-----------------------------------------------------------------------------
(* Making a report                                                         *)

Stages(kind) ==
  CASE kind = "sales" -> <<{"current", "previous", "daily", "byStatus"}>>
    [] kind = "customers" -> <<{"counts"}, {"current", "previous"}, {"top"}, {"rfm"}>>
    [] kind = "cohort" -> <<{"members"}, {"active"}>>
    [] kind = "kpis" -> <<{"stats", "timing", "inventory", "returned", "customers"}>>
    [] kind = "dashboard" -> <<{"today", "week", "month", "counts", "customers", "top", "trends"}>>
    [] kind = "stats" -> <<{"total", "pending", "completed", "revenue"}>>
    [] OTHER -> <<{"only"}>>

Kinds == {"sales", "products", "period", "customers", "cohort", "churn", "kpis", "dashboard", "stats"}

\* What a statement names beyond schema.prisma; "one grouping" is a database that
\* takes the two parameters of getRevenueByPeriod for the same expression.
Names(kind, q) ==
  CASE kind = "products" -> {"product_name", "order_items.price"}
    [] kind = "period" -> {"one grouping"}
    [] <<kind, q>> = <<"customers", "top">> -> {"customer_name"}
    [] kind = "churn" -> {"customer_name"}
    [] <<kind, q>> = <<"kpis", "inventory">> -> {"inventory_movements"}
    [] <<kind, q>> = <<"dashboard", "top">> -> {"product_name", "order_items.price"}
    [] OTHER -> {}

Ask ==
  /\ report = NoReport
  /\ \E kind \in Kinds, period \in Periods, month \in 0..1 :
       /\ kind \in {"churn", "dashboard"} => period = "today"
       /\ kind # "cohort" => month = 0
       /\ report' = [kind |-> kind, range |-> Span(period), month |-> month, left |-> Stages(kind), seen |-> <<>>, failed |-> FALSE]
  /\ UNCHANGED <<sales, shifts, lacks>>

Answer ==
  /\ report # NoReport /\ ~report.failed /\ report.left # <<>>
  /\ \E q \in Head(report.left) :
       LET rest == Head(report.left) \ {q}
       IN  report' = IF Names(report.kind, q) \cap lacks # {} THEN [report EXCEPT !.failed = TRUE]
                     ELSE [report EXCEPT !.left = (IF rest = {} THEN <<>> ELSE <<rest>>) \o Tail(report.left),
                                         !.seen = [p \in DOMAIN report.seen \cup {q} |-> IF p = q THEN sales ELSE report.seen[p]]]
  /\ UNCHANGED <<sales, shifts, lacks>>

\* The orders, as OrderProcessing moves them: a new one, or a status it may get.
After(status) ==
  CASE status = "pending" -> {"paid", "cancelled"}
    [] status = "paid" -> {"processing", "refunded", "cancelled"}
    [] status = "processing" -> {"shipped", "cancelled"}
    [] status = "shipped" -> {"delivered"}
    [] status = "delivered" -> {"refunded"}
    [] OTHER -> {}

Shift ==
  /\ shifts < MaxShifts /\ report # NoReport /\ ~report.failed /\ report.left # <<>>
  /\ shifts' = shifts + 1
  /\ \/ \E s \in Sales \ Placed(sales), b \in Buyers, t \in Amounts :
          sales' = [sales EXCEPT ![s] = [buyer |-> b, at |-> Today, total |-> t, items |-> 1, status |-> "pending", paid |-> FALSE]]
     \/ \E s \in Placed(sales) : \E t \in After(sales[s].status) :
          sales' = [sales EXCEPT ![s].status = t, ![s].paid = IF t = "paid" THEN TRUE ELSE IF t = "refunded" THEN FALSE ELSE @]
  /\ UNCHANGED <<lacks, report>>

Init ==
  /\ sales \in Histories /\ lacks \in Databases
  /\ shifts = 0 /\ report = NoReport

Next == Ask \/ Answer \/ Shift

Spec == Init /\ [][Next]_reportVars

-----------------------------------------------------------------------------
Told == report # NoReport /\ ~report.failed /\ report.left = <<>>

\* Every statement saw the same orders.
OneMoment == \A p, q \in DOMAIN report.seen : report.seen[p] = report.seen[q]

SalesAgree(f) ==
  /\ f.revenue = Sum(f.daily)
  /\ f.orders = Sum([t \in DOMAIN f.byStatus \ {"cancelled"} |-> f.byStatus[t]])

\* All who bought are in one segment, and a champion has no better among the
\* others; the branch of needsAttention leaves atRisk and cantLose nobody.
CustomersAgree(rows, f) ==
  /\ f.retention <= 100 /\ f.repeat \subseteq DOMAIN f.segments
  /\ f.value = Sum(Spent(rows)) /\ DOMAIN f.segments = BuyersOf(rows, Kept(rows))
  /\ \A b \in DOMAIN f.segments : f.segments[b] \notin {"atRisk", "cantLose"}
  /\ \A b \in DOMAIN f.segments :
       LET less(o) == /\ Spent(rows)[o] <= Spent(rows)[b]
                      /\ Cardinality(Of(rows, Kept(rows), o)) <= Cardinality(Of(rows, Kept(rows), b))
                      /\ Max({rows[s].at : s \in Of(rows, Kept(rows), o)}) <= Max({rows[s].at : s \in Of(rows, Kept(rows), b)})
       IN  \A o \in DOMAIN f.segments : less(o) /\ f.segments[o] = "champions" => f.segments[b] = "champions"

CohortAgrees(f) == f.active <= f.size

DashboardAgrees(f) ==
  /\ f.today <= f.week /\ f.today <= f.month /\ f.pending + f.completed <= f.orders
  /\ Sum(f.trend) = f.week /\ Sum(f.sold) >= f.orders

\* When no order changed under a report, its figures fit together: what is
\* broken down adds up to the total, parts are not more than the whole, and
\* nobody is ranked over who did better in everything (the analytics services
\* and getOrderStats compute each figure in a statement of its own).
FiguresAgree ==
  Told /\ OneMoment =>
    LET seen == report.seen
        r == report.range
    IN  CASE report.kind = "sales" -> SalesAgree(SalesFigures(seen, r))
          [] report.kind = "products" -> LET f == ProductFigures(seen["only"], r, 1) IN \A p \in DOMAIN f.sold : \E t \in f.top : f.sold[p] <= f.sold[t]
          [] report.kind = "period" -> Sum(PeriodFigures(seen["only"], r)) = Revenue(seen["only"], KeptWithin(seen["only"], r))
          [] report.kind = "customers" -> CustomersAgree(seen["rfm"], CustomerFigures(seen, r))
          [] report.kind = "cohort" -> CohortAgrees(CohortFigures(seen, r.from, report.month))
          [] report.kind = "churn" -> LET f == ChurnFigures(seen["only"], MonthDays) IN f.gone \cap BuyersOf(seen["only"], KeptWithin(seen["only"], Last(MonthDays))) = {}
          [] report.kind = "kpis" -> LET f == KpiFigures(seen, r) IN f.fulfilled <= 100 /\ f.returned <= 100 /\ f.buyers <= f.orders
          [] report.kind = "dashboard" -> DashboardAgrees(DashboardFigures(seen))
          [] OTHER -> LET f == StatsFigures(seen, r) IN f.pending + f.completed <= f.orders
=============================================================================

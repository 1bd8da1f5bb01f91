----------------------------- MODULE StockReports -----------------------------
(***************************************************************************)
(* What the stock is worth and what the inventory reports say of it: the   *)
(* average cost and value of a level, the summary and the listing of the   *)
(* levels, and the reports of InventoryAnalyticsService.                   *)
(*                                                                         *)
(* InventoryLevels has the races of the operations; here each is one step, *)
(* and its quantities are as there.  Every query of a report is a moment   *)
(* of its own.  Costs and values are whole units of the column's last      *)
(* digit.  SalesReports has the reports on orders and customers.           *)
(***************************************************************************)
EXTENDS Integers, FiniteSetsExt

CONSTANTS
  Shelves,     \* the levels: <<warehouse, product>>
  Lots,        \* quantities moved at once
  UnitCosts,   \* unit costs of what is received; 0: not given
  ReorderAt, ListPrice,
  Schemas,     \* sets of what the queries name and the database lacks
  MaxBooked    \* bound on the operations

VARIABLES
  shelves,     \* inventory_levels
  sold,        \* units of the sale movements
  booked,      \* operations so far
  spoilt,      \* levels whose value left something out
  absent,      \* what the database lacks
  stockReport, \* the report under way
  stirred      \* the stock changed since it began

stockReportVars == <<shelves, sold, booked, spoilt, absent, stockReport, stirred>>

OnShelf(row) == row.available + row.reserved
Low(row) == row.available > 0 /\ row.available <= ReorderAt
Empty(row) == row.available = 0

\* Mutation: the average is taken over what is available only.
ReceivedAvailable(row, n, c) ==
  LET more == [row EXCEPT !.available = @ + n]
  IN  IF c = 0 THEN more
      ELSE [more EXCEPT !.value = @ + n * c, !.cost = (row.value + n * c) \div more.available]

\* addStock: stock of no known cost adds nothing to the value.
Received(row, n, c) ==
  LET more == [row EXCEPT !.available = @ + n]
  IN  IF c = 0 THEN more
      ELSE [more EXCEPT !.value = @ + n * c, !.cost = (row.value + n * c) \div OnShelf(more)]

\* deductStock and adjustStock: the value of what is reserved is forgotten.
Left(row, n) == [row EXCEPT !.available = n, !.value = n * row.cost]

Reserved(row, n) == [row EXCEPT !.available = @ - n, !.reserved = @ + n]

\* confirmSale
Confirmed(row, n) == [row EXCEPT !.reserved = @ - n, !.value = (OnShelf(row) - n) * row.cost]

Book(s, row, units, spoils) ==
  /\ booked < MaxBooked /\ booked' = booked + 1
  /\ shelves' = [shelves EXCEPT ![s] = row]
  /\ sold' = sold + units
  /\ spoilt' = IF spoils THEN spoilt \cup {s} ELSE spoilt
  /\ stirred' = TRUE
  /\ UNCHANGED <<absent, stockReport>>

Stock(s, n) ==
  LET row == shelves[s]
  IN  \/ \E c \in UnitCosts : Book(s, Received(row, n, c), 0, c = 0)
      \/ n <= row.available /\ Book(s, Left(row, row.available - n), n, row.reserved > 0)
      \/ n # row.available /\ Book(s, Left(row, n), 0, row.reserved > 0)
      \/ n <= row.available /\ Book(s, Reserved(row, n), 0, FALSE)
      \/ n <= row.reserved /\ Book(s, Reserved(row, -n), 0, FALSE)
      \/ n <= row.reserved /\ Book(s, Confirmed(row, n), n, FALSE)

-----------------------------------------------------------------------------
\* The sum of the values of a function.
Total(f) == MapThenSumSet(LAMBDA x : f[x], DOMAIN f)

Units(S) == Total([s \in S |-> shelves[s].available])
Where(P(_)) == {s \in Shelves : P(shelves[s])}

\* findInventoryLevels, with the flags that each write keeps up.
Listing == [low |-> Where(Low), out |-> Where(Empty), all |-> Shelves]

\* getInventorySummary: both counts are taken off, in hundredths rounded.
Summary ==
  LET all == Cardinality(Listing.all)
      low == Cardinality(Listing.low)
      out == Cardinality(Listing.out)
  IN  [low |-> low, out |-> out, units |-> Units(Shelves),
       worth |-> Total([s \in Shelves |-> shelves[s].value]),
       score |-> IF all = 0 THEN 0 ELSE (200 * (all - out - low) + all) \div (2 * all)]

LevelFigures == [worth |-> ListPrice * Units(Shelves), units |-> Units(Shelves), out |-> Cardinality(Where(Empty))]

\* An empty shelf is low as well here, unlike in the summary.
LowStock == {s \in Shelves : shelves[s].available <= ReorderAt}
Severity(s) == IF Empty(shelves[s]) THEN "critical" ELSE "warning"

ByFirst == [h \in {s[1] : s \in Shelves} |-> Units({s \in Shelves : s[1] = h})]
BySecond == [p \in {s[2] : s \in Shelves} |-> Units({s \in Shelves : s[2] = p})]

\* A year's sales to the stock of the moment, in twelfths.
TurnoverRate(units) == IF units > 0 THEN (12 * sold) \div units ELSE 0
Turnover == [sold |-> sold, rate |-> TurnoverRate(Units(Shelves))]

\* The queries of each report; the last of the analytics comes after the others.
QueriesOf(kind) ==
  CASE kind = "analytics" -> {"levels", "low", "products", "houses"}
    [] OTHER -> {kind}

\* What a query names that schema.prisma has not: filters for NULL of a column
\* that is never NULL, products.product_name, the table inventory_movements.
Names(q) ==
  CASE q \in {"low", "alerts"} -> {"reorder_point NULL"}
    [] q = "products" -> {"product_name"}
    [] q = "turnover" -> {"product_name", "inventory_movements"}
    [] OTHER -> {}

Answer(q) ==
  CASE q = "listing" -> Listing [] q = "summary" -> Summary
    [] q = "levels" -> LevelFigures [] q = "low" -> Cardinality(LowStock)
    [] q = "alerts" -> [s \in LowStock |-> Severity(s)]
    [] q = "products" -> BySecond [] q = "houses" -> ByFirst
    [] q = "turnover" -> Turnover

\* The answers with one more.
With(got, q, a) == [x \in DOMAIN got \cup {q} |-> IF x = q THEN a ELSE got[x]]

NoStockReport == [kind |-> "none", left |-> {}, got |-> << >>]

AskStock ==
  /\ stockReport = NoStockReport
  /\ \E kind \in {"listing", "summary", "analytics", "alerts", "turnover"} :
       stockReport' = [kind |-> kind, left |-> QueriesOf(kind), got |-> << >>]
  /\ stirred' = FALSE
  /\ UNCHANGED <<shelves, sold, booked, spoilt, absent>>

ReadStock ==
  /\ \E q \in stockReport.left :
       stockReport' =
         IF Names(q) \cap absent # {} THEN [stockReport EXCEPT !.kind = "failed", !.left = {}]
         ELSE [stockReport EXCEPT !.left = @ \ {q}, !.got = With(@, q, Answer(q))]
  /\ UNCHANGED <<shelves, sold, booked, spoilt, absent, stirred>>

\* The movements of the last thirty days are read when the rest is there.
RateStock ==
  /\ stockReport.kind = "analytics" /\ stockReport.left = {}
  /\ stockReport' = [stockReport EXCEPT !.kind = "rated", !.got = With(@, "rate", TurnoverRate(stockReport.got["levels"].units))]
  /\ UNCHANGED <<shelves, sold, booked, spoilt, absent, stirred>>

Init ==
  /\ shelves = [s \in Shelves |-> [available |-> 0, reserved |-> 0, cost |-> 0, value |-> 0]]
  /\ sold = 0 /\ booked = 0 /\ spoilt = {}
  /\ absent \in Schemas
  /\ stockReport = NoStockReport /\ stirred = FALSE

Next == AskStock \/ ReadStock \/ RateStock \/ \E s \in Shelves, n \in Lots : Stock(s, n)

Spec == Init /\ [][Next]_stockReportVars

-----------------------------------------------------------------------------
Answered(kind) == stockReport.kind = kind /\ stockReport.left = {}

\* The value of a level is its average cost times what is on hand, to less than a
\* unit a piece, unless stock came without a cost or some was taken or counted
\* while some was reserved (addStock, deductStock, adjustStock, confirmSale).
ValueIsOfStock ==
  \A s \in Shelves \ spoilt :
    LET rest == shelves[s].value - shelves[s].cost * OnShelf(shelves[s])
    IN  rest = 0 \/ (rest > 0 /\ rest < OnShelf(shelves[s]))

\* The health score is a percentage, and the queries of one report agree when the
\* stock was left alone (getInventorySummary, getInventoryAnalytics).
StockFiguresAgree ==
  /\ Answered("summary") =>
       LET f == stockReport.got["summary"]
       IN  f.score \in 0..100 /\ f.low + f.out <= Cardinality(Shelves)
  /\ stockReport.kind = "rated" /\ ~stirred =>
       LET f == stockReport.got
       IN  /\ f["levels"].units = Total(f["houses"]) /\ f["levels"].units = Total(f["products"])
           /\ f["levels"].out <= f["low"]
  /\ Answered("alerts") /\ ~stirred =>
       \A s \in DOMAIN stockReport.got["alerts"] : stockReport.got["alerts"][s] = "critical" <=> s \in Listing.out
=============================================================================

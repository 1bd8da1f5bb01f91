-------------------------- MODULE Backoffice_proofs ----------------------------
(***************************************************************************)
(* What the reports of stock and the figures of customers keep, and the    *)
(* parts together: what is shown of each part here, in MessageDesks_proofs *)
(* and in RecordDesks_proofs holds of every behaviour of the whole.        *)
(***************************************************************************)
EXTENDS Backoffice, MessageDesks_proofs, RecordDesks_proofs

-----------------------------------------------------------------------------
(* StockReports                                                            *)

LEMMA StockStarts == Stock!Init => StockInv
<1> SUFFICES ASSUME Stock!Init PROVE StockInv
  OBVIOUS
<1>1. /\ \A s \in Shelves : shelves[s].available = 0 /\ shelves[s].reserved = 0 /\ shelves[s].cost = 0 /\ shelves[s].value = 0
      /\ shelves \in [Shelves -> StockRow] /\ spoilt = {}
  BY DEF Stock!Init, StockRow
<1>2. stockReport = Stock!NoStockReport
  BY DEF Stock!Init
<1>3. /\ stockReport.kind = "none" /\ stockReport.left = {} /\ DOMAIN stockReport.got = {}
  BY <1>2 DEF Stock!NoStockReport
<1>4. Stock!ValueIsOfStock
  BY <1>1 DEF Stock!ValueIsOfStock, Stock!OnShelf
<1>5. StockTyped
  <2>1. DOMAIN stockReport = {"kind", "left", "got"}
    BY <1>2 DEF Stock!NoStockReport
  <2> QED BY <1>1, <1>3, <2>1 DEF StockTyped
<1>6. StockReportFits
  BY <1>2, <1>3 DEF StockReportFits
<1> QED BY <1>4, <1>5, <1>6 DEF StockInv

\* The value of row s is its cost times what is there, to less than a unit a piece.
Worth(row) ==
  LET rest == row.value - row.cost * Stock!OnShelf(row)
  IN  rest = 0 \/ (rest > 0 /\ rest < Stock!OnShelf(row))

LEMMA ReceivedWorth ==
  ASSUME NEW row \in StockRow, NEW n \in Nat \ {0}, NEW c \in Nat
  PROVE  Stock!Received(row, n, c) \in StockRow /\ (c # 0 => Worth(Stock!Received(row, n, c)))
<1>1. PICK a, r, v, k : a = row.available /\ r = row.reserved /\ v = row.value /\ k = row.cost
  OBVIOUS
<1>2. a \in Nat /\ r \in Nat /\ v \in Nat /\ k \in Nat
  BY <1>1 DEF StockRow
<1>3. PICK o : o = (a + n) + r
  OBVIOUS
<1>4. o \in Nat /\ o > 0
  BY <1>2, <1>3
<1>5. PICK d : d = (v + n * c) \div o
  OBVIOUS
<1>6. n * c \in Nat
  OBVIOUS
<1>7. PICK w : w = v + n * c /\ w \in Nat
  BY <1>2, <1>6
<1>8. d \in Nat /\ w - d * o \in 0..(o - 1)
  BY <1>4, <1>5, <1>7
<1>9. PICK x : x = Stock!Received(row, n, c)
  OBVIOUS
<1>10. c = 0 => x = [available |-> a + n, reserved |-> r, cost |-> k, value |-> v]
  BY <1>1, <1>9 DEF Stock!Received, StockRow
<1>11. c # 0 => x = [available |-> a + n, reserved |-> r, cost |-> d, value |-> w]
  BY <1>1, <1>3, <1>5, <1>7, <1>9 DEF Stock!Received, Stock!OnShelf, StockRow
<1>12. a + n \in Nat
  BY <1>2
<1>13. x \in StockRow
  <2>1. CASE c = 0
    BY <1>2, <1>10, <1>12, <2>1 DEF StockRow
  <2>2. CASE c # 0
    BY <1>2, <1>7, <1>8, <1>11, <1>12, <2>2 DEF StockRow
  <2> QED BY <2>1, <2>2
<1>14. ASSUME c # 0 PROVE Worth(x)
  <2>1. x.available + x.reserved = o /\ x.value = w /\ x.cost = d
    BY <1>3, <1>11, <1>14
  <2> QED BY <1>4, <1>8, <2>1 DEF Worth, Stock!OnShelf
<1> QED BY <1>9, <1>13, <1>14

LEMMA LeftWorth ==
  ASSUME NEW row \in StockRow, NEW n \in Nat
  PROVE  Stock!Left(row, n) \in StockRow /\ (row.reserved = 0 => Worth(Stock!Left(row, n)))
<1>1. PICK x, w : x = Stock!Left(row, n) /\ w = n * row.cost
  OBVIOUS
<1>2. row.reserved \in Nat /\ row.cost \in Nat
  BY DEF StockRow
<1>3. w \in Nat
  BY <1>1, <1>2
<1>4. x = [available |-> n, reserved |-> row.reserved, cost |-> row.cost, value |-> w]
  BY <1>1 DEF Stock!Left, StockRow
<1>5. x \in StockRow
  BY <1>2, <1>3, <1>4 DEF StockRow
<1>6. ASSUME row.reserved = 0 PROVE Worth(x)
  <2>1. x.available + x.reserved = n /\ x.value = n * row.cost /\ x.cost = row.cost
    BY <1>1, <1>4, <1>6
  <2>2. n * row.cost - row.cost * n = 0
    BY <1>2
  <2> QED BY <2>1, <2>2 DEF Worth, Stock!OnShelf
<1> QED BY <1>1, <1>5, <1>6

LEMMA ReservedWorth ==
  ASSUME NEW row \in StockRow, NEW n \in Int, row.available - n >= 0, row.reserved + n >= 0
  PROVE  Stock!Reserved(row, n) \in StockRow /\ (Worth(row) => Worth(Stock!Reserved(row, n)))
<1>1. PICK x : x = Stock!Reserved(row, n)
  OBVIOUS
<1>2. row.available \in Nat /\ row.reserved \in Nat /\ row.cost \in Nat /\ row.value \in Nat
  BY DEF StockRow
<1>3. x = [available |-> row.available - n, reserved |-> row.reserved + n, cost |-> row.cost, value |-> row.value]
  BY <1>1 DEF Stock!Reserved, StockRow
<1>4. row.available - n \in Nat /\ row.reserved + n \in Nat
  BY <1>2
<1>5. x \in StockRow
  BY <1>2, <1>3, <1>4 DEF StockRow
<1>6. x.available + x.reserved = row.available + row.reserved /\ x.value = row.value /\ x.cost = row.cost
  BY <1>2, <1>3
<1>7. Worth(row) => Worth(x)
  BY <1>6 DEF Worth, Stock!OnShelf
<1> QED BY <1>1, <1>5, <1>7

LEMMA ConfirmedWorth ==
  ASSUME NEW row \in StockRow, NEW n \in Nat, n <= row.reserved
  PROVE  Stock!Confirmed(row, n) \in StockRow /\ Worth(Stock!Confirmed(row, n))
<1>1. row.available \in Nat /\ row.reserved \in Nat /\ row.cost \in Nat
  BY DEF StockRow
<1>2. PICK x, o, w : x = Stock!Confirmed(row, n) /\ o = (row.available + row.reserved) - n /\ w = o * row.cost
  OBVIOUS
<1>3. o \in Nat
  BY <1>1, <1>2
<1>4. w \in Nat
  BY <1>1, <1>2, <1>3
<1>5. x = [available |-> row.available, reserved |-> row.reserved - n, cost |-> row.cost, value |-> w]
  BY <1>2 DEF Stock!Confirmed, Stock!OnShelf, StockRow
<1>6. row.reserved - n \in Nat
  BY <1>1
<1>7. x \in StockRow
  BY <1>1, <1>4, <1>5, <1>6 DEF StockRow
<1>8. x.available + x.reserved = o /\ x.value = o * row.cost /\ x.cost = row.cost
  BY <1>1, <1>2, <1>5
<1>9. o * row.cost - row.cost * o = 0
  BY <1>1, <1>3
<1>10. Worth(x)
  BY <1>3, <1>8, <1>9 DEF Worth, Stock!OnShelf
<1> QED BY <1>2, <1>7, <1>10

\* A report that is not being read keeps its answers while the stock moves.
LEMMA StockMoves ==
  ASSUME StockInv, NEW s \in Shelves, NEW row \in StockRow, NEW units, NEW spoils \in BOOLEAN,
         Stock!Book(s, row, units, spoils),
         s \notin spoilt /\ ~spoils => Worth(row)
  PROVE  StockInv'
<1>1. /\ shelves' = [shelves EXCEPT ![s] = row] /\ stirred' = TRUE /\ stockReport' = stockReport
      /\ spoilt' = IF spoils THEN spoilt \cup {s} ELSE spoilt
  BY DEF Stock!Book
<1>2. StockTyped'
  BY <1>1 DEF StockInv, StockTyped
<1>3. StockReportFits'
  BY <1>1 DEF StockInv, StockReportFits
<1>4. ASSUME NEW t \in Shelves, t \notin spoilt' PROVE Worth(shelves'[t])
  <2>1. t \notin spoilt /\ (t = s => ~spoils)
    BY <1>1, <1>4
  <2>2. t # s => shelves'[t] = shelves[t]
    BY <1>1 DEF StockInv, StockTyped
  <2>3. shelves'[s] = row
    BY <1>1 DEF StockInv, StockTyped
  <2>4. Worth(shelves[t])
    BY <2>1 DEF StockInv, Stock!ValueIsOfStock, Worth
  <2> QED BY <2>1, <2>2, <2>3, <2>4
<1>5. Stock!ValueIsOfStock'
  BY <1>4 DEF Stock!ValueIsOfStock, Worth
<1> QED BY <1>2, <1>3, <1>5 DEF StockInv

LEMMA StockWorked ==
  ASSUME StockInv, NEW s \in Shelves, NEW n \in Lots, Stock!Stock(s, n)
  PROVE  StockInv'
<1>1. PICK row : row = shelves[s]
  OBVIOUS
<1>2. /\ row \in StockRow /\ row.available \in Nat /\ row.reserved \in Nat
      /\ n \in Nat \ {0} /\ n \in Int
  BY <1>1, RecordAssumption DEF StockInv, StockTyped, StockRow
<1>3. s \notin spoilt => Worth(row)
  BY <1>1 DEF StockInv, Stock!ValueIsOfStock, Worth
<1>4. \/ \E c \in UnitCosts : Stock!Book(s, Stock!Received(row, n, c), 0, c = 0)
      \/ n <= row.available /\ Stock!Book(s, Stock!Left(row, row.available - n), n, row.reserved > 0)
      \/ Stock!Book(s, Stock!Left(row, n), 0, row.reserved > 0)
      \/ n <= row.available /\ Stock!Book(s, Stock!Reserved(row, n), 0, FALSE)
      \/ n <= row.reserved /\ Stock!Book(s, Stock!Reserved(row, -n), 0, FALSE)
      \/ n <= row.reserved /\ Stock!Book(s, Stock!Confirmed(row, n), n, FALSE)
  BY <1>1 DEF Stock!Stock
<1>5. CASE \E c \in UnitCosts : Stock!Book(s, Stock!Received(row, n, c), 0, c = 0)
  <2>1. PICK c \in UnitCosts : Stock!Book(s, Stock!Received(row, n, c), 0, c = 0)
    BY <1>5
  <2>2. c \in Nat /\ (c = 0) \in BOOLEAN
    BY RecordAssumption
  <2>3. Stock!Received(row, n, c) \in StockRow /\ (c # 0 => Worth(Stock!Received(row, n, c)))
    BY <1>2, <2>2, ReceivedWorth
  <2> QED BY <2>1, <2>2, <2>3, StockMoves
<1>6. CASE n <= row.available /\ Stock!Book(s, Stock!Left(row, row.available - n), n, row.reserved > 0)
  <2>1. row.available - n \in Nat /\ (row.reserved > 0) \in BOOLEAN /\ (~(row.reserved > 0) => row.reserved = 0)
    BY <1>2, <1>6
  <2>2. /\ Stock!Left(row, row.available - n) \in StockRow
        /\ ~(row.reserved > 0) => Worth(Stock!Left(row, row.available - n))
    BY <1>2, <2>1, LeftWorth
  <2> QED BY <1>6, <2>1, <2>2, StockMoves
<1>7. CASE Stock!Book(s, Stock!Left(row, n), 0, row.reserved > 0)
  <2>1. (row.reserved > 0) \in BOOLEAN /\ (~(row.reserved > 0) => row.reserved = 0)
    BY <1>2
  <2>2. Stock!Left(row, n) \in StockRow /\ (~(row.reserved > 0) => Worth(Stock!Left(row, n)))
    BY <1>2, <2>1, LeftWorth
  <2> QED BY <1>7, <2>1, <2>2, StockMoves
<1>8. CASE n <= row.available /\ Stock!Book(s, Stock!Reserved(row, n), 0, FALSE)
  <2>1. row.available - n >= 0 /\ row.reserved + n >= 0
    BY <1>2, <1>8
  <2>2. Stock!Reserved(row, n) \in StockRow /\ (Worth(row) => Worth(Stock!Reserved(row, n)))
    BY <1>2, <2>1, ReservedWorth
  <2> QED BY <1>3, <1>8, <2>2, StockMoves
<1>9. CASE n <= row.reserved /\ Stock!Book(s, Stock!Reserved(row, -n), 0, FALSE)
  <2>1. -n \in Int /\ row.available - (-n) >= 0 /\ row.reserved + (-n) >= 0
    BY <1>2, <1>9
  <2>2. Stock!Reserved(row, -n) \in StockRow /\ (Worth(row) => Worth(Stock!Reserved(row, -n)))
    BY <1>2, <2>1, ReservedWorth
  <2> QED BY <1>3, <1>9, <2>2, StockMoves
<1>10. CASE n <= row.reserved /\ Stock!Book(s, Stock!Confirmed(row, n), n, FALSE)
  <2>1. Stock!Confirmed(row, n) \in StockRow /\ Worth(Stock!Confirmed(row, n))
    BY <1>2, <1>10, ConfirmedWorth
  <2> QED BY <1>10, <2>1, StockMoves
<1> QED BY <1>4, <1>5, <1>6, <1>7, <1>8, <1>9, <1>10

LEMMA StockTotal == \A f : Stock!Total(f) = SumOf(f)
BY DEF Stock!Total, Stock!MapThenSumSet, Stock!MapThenFoldSet, SumOf, MapThenSumSet, MapThenFoldSet

LEMMA AnswersStay ==
  ASSUME UNCHANGED <<shelves, sold>>, NEW q
  PROVE  Stock!Answer(q)' = Stock!Answer(q)
BY DEF Stock!Answer, Stock!Listing, Stock!Summary, Stock!LevelFigures, Stock!LowStock, Stock!Severity, Stock!BySecond,
       Stock!ByFirst, Stock!Turnover, Stock!TurnoverRate, Stock!Units, Stock!Where

\* A share of the shelves, in hundredths.
LEMMA ScoreIsPercent ==
  ASSUME NEW n \in Nat, NEW a \in 0..n, n > 0
  PROVE  (200 * a + n) \div (2 * n) \in 0..100
<1>1. PICK o, w, d : o = 2 * n /\ w = 200 * a + n /\ d = w \div o
  OBVIOUS
<1>2. o \in Nat /\ o > 0 /\ w \in Nat /\ w < 101 * o
  BY <1>1
<1>3. d \in Nat /\ d * o <= w
  BY <1>1, <1>2
<1>4. d <= 100
  <2>1. SUFFICES ASSUME d >= 101 PROVE FALSE
    BY <1>3
  <2>2. d * o >= 101 * o
    BY <1>2, <1>3, <2>1
  <2>3. d * o \in Int /\ 101 * o \in Int
    BY <1>2, <1>3
  <2> QED BY <1>2, <1>3, <2>2, <2>3
<1> QED BY <1>1, <1>3, <1>4

LEMMA SummaryMakesSense ==
  ASSUME StockInv
  PROVE  Stock!Summary.score \in 0..100 /\ Stock!Summary.low + Stock!Summary.out <= Cardinality(Shelves)
<1>1. PICK L, E : L = {s \in Shelves : Stock!Low(shelves[s])} /\ E = {s \in Shelves : Stock!Empty(shelves[s])}
  OBVIOUS
<1>2. L \subseteq Shelves /\ E \subseteq Shelves /\ L \cap E = {} /\ L \cup E \subseteq Shelves
  BY <1>1 DEF Stock!Low, Stock!Empty
<1>3. IsFiniteSet(Shelves) /\ IsFiniteSet(L) /\ IsFiniteSet(E)
  BY <1>2, RecordAssumption, FS_Subset
<1>4. Cardinality(L \cup E) = Cardinality(L) + Cardinality(E) - Cardinality({})
  BY <1>2, <1>3, FS_Union
<1>5. PICK n, l, e : n = Cardinality(Shelves) /\ l = Cardinality(L) /\ e = Cardinality(E)
  OBVIOUS
<1>6. n \in Nat /\ l \in Nat /\ e \in Nat
  BY <1>3, <1>5, FS_CardinalityType
<1>7. Cardinality(L \cup E) <= n
  BY <1>2, <1>3, <1>5, FS_Subset
<1>8. l + e <= n
  BY <1>4, <1>5, <1>6, <1>7, FS_EmptySet
<1>9. PICK f : f = Stock!Summary
  OBVIOUS
<1>10. /\ f.low = l /\ f.out = e
       /\ f.score = IF n = 0 THEN 0 ELSE (200 * (n - e - l) + n) \div (2 * n)
  <2>1. \A X : Stock!Cardinality(X) = Cardinality(X)
    BY DEF Stock!Cardinality, Cardinality
  <2> QED BY <1>1, <1>5, <1>9, <2>1 DEF Stock!Summary, Stock!Listing, Stock!Where
<1>11. n > 0 => (200 * (n - e - l) + n) \div (2 * n) \in 0..100
  <2>1. n - e - l \in 0..n
    BY <1>6, <1>8
  <2> QED BY <1>6, <2>1, ScoreIsPercent
<1>12. f.score \in 0..100
  <2>1. CASE n = 0
    <3>1. f.score = 0
      BY <1>10, <2>1
    <3> QED BY <3>1
  <2>2. CASE n > 0
    <3>1. f.score = (200 * (n - e - l) + n) \div (2 * n)
      BY <1>10, <2>2
    <3> QED BY <1>11, <2>2, <3>1
  <2> QED BY <1>6, <2>1, <2>2
<1> QED BY <1>5, <1>8, <1>9, <1>10, <1>12

LEMMA StockIsRead ==
  ASSUME StockInv, Stock!ReadStock
  PROVE  StockInv'
<1>1. PICK q \in stockReport.left :
        /\ \/ stockReport' = [stockReport EXCEPT !.kind = "failed", !.left = {}]
           \/ stockReport' = [stockReport EXCEPT !.left = stockReport.left \ {q},
                                                 !.got = Stock!With(stockReport.got, q, Stock!Answer(q))]
        /\ UNCHANGED <<shelves, sold, spoilt, stirred>>
  BY DEF Stock!ReadStock
<1>2. PICK was, got, k : was = stockReport.left /\ got = stockReport.got /\ k = stockReport.kind
  OBVIOUS
<1>3. /\ k \notin {"none", "rated"} /\ q \in was
      /\ k # "failed" => was \subseteq Stock!QueriesOf(k) /\ DOMAIN got = Stock!QueriesOf(k) \ was
      /\ k \in {"none", "listing", "summary", "analytics", "alerts", "turnover", "rated", "failed"}
      /\ ~stirred => \A x \in DOMAIN got \ {"rate"} : got[x] = Stock!Answer(x)
      /\ "summary" \in DOMAIN got =>
           got["summary"].score \in 0..100 /\ got["summary"].low + got["summary"].out <= Cardinality(Shelves)
  BY <1>1, <1>2 DEF StockInv, StockTyped, StockReportFits
<1>4. Stock!ValueIsOfStock'
  BY <1>1 DEF StockInv, Stock!ValueIsOfStock
<1>5. shelves' \in [Shelves -> StockRow] /\ spoilt' \subseteq Shelves
  BY <1>1 DEF StockInv, StockTyped
<1>6. \A x : Stock!Answer(x)' = Stock!Answer(x)
  BY <1>1, AnswersStay
<1>7. CASE stockReport' = [stockReport EXCEPT !.kind = "failed", !.left = {}]
  <2>1. stockReport'.kind = "failed" /\ stockReport'.got = got
    BY <1>2, <1>7 DEF StockInv, StockTyped
  <2>2. StockReportFits'
    BY <1>1, <1>3, <1>6, <2>1 DEF StockReportFits
  <2>3. DOMAIN stockReport' = {"kind", "left", "got"}
    BY <1>7 DEF StockInv, StockTyped
  <2> QED BY <1>4, <1>5, <2>1, <2>2, <2>3 DEF StockInv, StockTyped
<1>8. CASE stockReport' = [stockReport EXCEPT !.left = stockReport.left \ {q},
                                              !.got = Stock!With(stockReport.got, q, Stock!Answer(q))]
  <2>1. PICK ans, g : ans = Stock!Answer(q) /\ g = Stock!With(got, q, ans)
    OBVIOUS
  <2>2. DOMAIN g = DOMAIN got \cup {q} /\ g[q] = Stock!Answer(q) /\ \A x \in DOMAIN got \ {q} : g[x] = got[x]
    BY <2>1 DEF Stock!With
  <2>3. stockReport'.kind = k /\ stockReport'.left = was \ {q} /\ stockReport'.got = g
    BY <1>2, <1>8, <2>1 DEF StockInv, StockTyped
  <2>4. ~stirred => \A x \in DOMAIN g \ {"rate"} : g[x] = Stock!Answer(x)'
    BY <1>3, <1>6, <2>2
  <2>5. "summary" \in DOMAIN g =>
           g["summary"].score \in 0..100 /\ g["summary"].low + g["summary"].out <= Cardinality(Shelves)
    <3>1. CASE q = "summary"
      <4>1. g["summary"] = Stock!Summary
        BY <2>2, <3>1 DEF Stock!Answer
      <4> QED BY <4>1, SummaryMakesSense
    <3>2. CASE q # "summary"
      BY <1>3, <2>2, <3>2
    <3> QED BY <3>1, <3>2
  <2>6. k # "failed" => was \ {q} \subseteq Stock!QueriesOf(k) /\ DOMAIN g = Stock!QueriesOf(k) \ (was \ {q})
    BY <1>3, <2>2
  <2>7. StockReportFits'
    BY <1>1, <1>3, <2>3, <2>4, <2>5, <2>6 DEF StockReportFits
  <2>8. DOMAIN stockReport' = {"kind", "left", "got"}
    BY <1>8 DEF StockInv, StockTyped
  <2> QED BY <1>3, <1>4, <1>5, <2>3, <2>7, <2>8 DEF StockInv, StockTyped
<1> QED BY <1>1, <1>7, <1>8

LEMMA StockIsRated ==
  ASSUME StockInv, Stock!RateStock
  PROVE  StockInv'
<1>1. PICK a : a = Stock!TurnoverRate(stockReport.got["levels"].units)
  OBVIOUS
<1>2. /\ stockReport.kind = "analytics" /\ stockReport.left = {}
      /\ stockReport' = [stockReport EXCEPT !.kind = "rated", !.got = Stock!With(stockReport.got, "rate", a)]
      /\ UNCHANGED <<shelves, sold, spoilt, stirred>>
  BY <1>1 DEF Stock!RateStock
<1>3. PICK got, g : got = stockReport.got /\ g = Stock!With(got, "rate", a)
  OBVIOUS
<1>4. /\ DOMAIN got = Stock!QueriesOf("analytics")
      /\ ~stirred => \A x \in DOMAIN got \ {"rate"} : got[x] = Stock!Answer(x)
      /\ "summary" \in DOMAIN got =>
           got["summary"].score \in 0..100 /\ got["summary"].low + got["summary"].out <= Cardinality(Shelves)
      /\ DOMAIN stockReport = {"kind", "left", "got"}
  BY <1>2, <1>3 DEF StockInv, StockTyped, StockReportFits
<1>5. DOMAIN g = DOMAIN got \cup {"rate"} /\ \A x \in DOMAIN got \ {"rate"} : g[x] = got[x]
  BY <1>3 DEF Stock!With
<1>6. stockReport'.kind = "rated" /\ stockReport'.left = {} /\ stockReport'.got = g
  BY <1>2, <1>3, <1>4
<1>7. \A x : Stock!Answer(x)' = Stock!Answer(x)
  BY <1>2, AnswersStay
<1>8. StockReportFits'
  <2>1. ~stirred => \A x \in DOMAIN g \ {"rate"} : g[x] = Stock!Answer(x)'
    BY <1>4, <1>5, <1>7
  <2>2. "summary" \notin DOMAIN g
    BY <1>4, <1>5 DEF Stock!QueriesOf
  <2> QED BY <1>2, <1>4, <1>5, <1>6, <2>1, <2>2 DEF StockReportFits
<1>9. Stock!ValueIsOfStock'
  BY <1>2 DEF StockInv, Stock!ValueIsOfStock
<1>10. StockTyped'
  BY <1>2, <1>4, <1>6 DEF StockInv, StockTyped
<1> QED BY <1>8, <1>9, <1>10 DEF StockInv

LEMMA StockIsAsked ==
  ASSUME StockInv, Stock!AskStock
  PROVE  StockInv'
<1>1. PICK kind \in {"listing", "summary", "analytics", "alerts", "turnover"} :
        stockReport' = [kind |-> kind, left |-> Stock!QueriesOf(kind), got |-> << >>]
  BY DEF Stock!AskStock
<1>2. /\ stockReport'.kind = kind /\ stockReport'.left = Stock!QueriesOf(kind) /\ DOMAIN stockReport'.got = {}
      /\ DOMAIN stockReport' = {"kind", "left", "got"}
  BY <1>1
<1>3. UNCHANGED <<shelves, spoilt>>
  BY DEF Stock!AskStock
<1>4. Stock!ValueIsOfStock'
  BY <1>3 DEF StockInv, Stock!ValueIsOfStock
<1> QED BY <1>2, <1>3, <1>4 DEF StockInv, StockTyped, StockReportFits

LEMMA StockKept == StockInv /\ [Stock!Next]_stockReportVars => StockInv'
<1> SUFFICES ASSUME StockInv, [Stock!Next]_stockReportVars PROVE StockInv'
  OBVIOUS
<1>1. CASE UNCHANGED stockReportVars
  <2>1. UNCHANGED <<shelves, sold, spoilt, stockReport, stirred>>
    BY <1>1 DEF stockReportVars
  <2>2. \A x : Stock!Answer(x)' = Stock!Answer(x)
    BY <2>1, AnswersStay
  <2>3. StockReportFits'
    BY <2>1, <2>2 DEF StockInv, StockReportFits
  <2>4. Stock!ValueIsOfStock' /\ StockTyped'
    BY <2>1 DEF StockInv, StockTyped, Stock!ValueIsOfStock
  <2> QED BY <2>3, <2>4 DEF StockInv
<1> QED BY <1>1, StockIsAsked, StockIsRead, StockIsRated, StockWorked DEF Stock!Next

\* The units of all shelves are those of the places, and those of the products.
LEMMA UnitsAddUp ==
  ASSUME StockInv, NEW k, NEW K, K = {k[s] : s \in Shelves}, NEW parts,
         parts = [v \in K |-> Stock!Units({s \in Shelves : k[s] = v})]
  PROVE  Stock!Total(parts) = Stock!Units(Shelves)
<1>1. PICK f : f = [s \in Shelves |-> shelves[s].available]
  OBVIOUS
<1>2. \A y \in Shelves : f[y] \in Int
  BY <1>1 DEF StockInv, StockTyped, StockRow
<1>3. IsFiniteSet(Shelves) /\ IsFiniteSet(K)
  BY RecordAssumption, FiniteImage
<1>4. \A S \in SUBSET Shelves : Stock!Units(S) = SumOf(On(f, S))
  <2> SUFFICES ASSUME NEW S \in SUBSET Shelves PROVE Stock!Units(S) = SumOf(On(f, S))
    OBVIOUS
  <2>1. [s \in S |-> shelves[s].available] = On(f, S)
    BY <1>1 DEF On
  <2>2. Stock!Units(S) = Stock!Total(On(f, S))
    BY <2>1 DEF Stock!Units
  <2> QED BY <2>2, StockTotal
<1>5. parts = [v \in K |-> SumOf(On(f, {s \in Shelves : k[s] = v}))]
  BY <1>4
<1>6. SumOf(parts) = SumOf(On(f, Shelves))
  <2>1. \A y \in Shelves : k[y] \in K
    OBVIOUS
  <2>2. SumOf([v \in K |-> SumOf(On(f, {s \in Shelves : k[s] = v}))]) = SumOf(On(f, Shelves))
    BY <1>2, <1>3, <2>1, SumByParts
  <2> QED BY <1>5, <2>2
<1> QED BY <1>4, <1>6, StockTotal

LEMMA StockAccounted == StockInv => Stock!ValueIsOfStock /\ Stock!StockFiguresAgree
<1> SUFFICES ASSUME StockInv PROVE Stock!ValueIsOfStock /\ Stock!StockFiguresAgree
  OBVIOUS
<1>1. ASSUME Stock!Answered("summary")
      PROVE  LET f == stockReport.got["summary"] IN f.score \in 0..100 /\ f.low + f.out <= Cardinality(Shelves)
  <2>1. "summary" \in DOMAIN stockReport.got
    BY <1>1 DEF Stock!Answered, StockInv, StockReportFits, Stock!QueriesOf
  <2> QED BY <2>1 DEF StockInv, StockReportFits
<1>2. ASSUME stockReport.kind = "rated", ~stirred
      PROVE  LET f == stockReport.got
             IN  /\ f["levels"].units = Stock!Total(f["houses"]) /\ f["levels"].units = Stock!Total(f["products"])
                 /\ f["levels"].out <= f["low"]
  <2>1. PICK f : f = stockReport.got
    OBVIOUS
  <2>2. /\ f["levels"] = Stock!LevelFigures /\ f["low"] = Cardinality(Stock!LowStock)
        /\ f["products"] = Stock!BySecond /\ f["houses"] = Stock!ByFirst
    <3>1. {"levels", "low", "products", "houses"} \subseteq DOMAIN f
      BY <1>2, <2>1 DEF StockInv, StockReportFits, Stock!QueriesOf
    <3>2. \A q \in {"levels", "low", "products", "houses"} : f[q] = Stock!Answer(q)
      BY <1>2, <2>1, <3>1 DEF StockInv, StockReportFits
    <3> QED BY <3>2 DEF Stock!Answer, Stock!Cardinality, Cardinality
  <2>3. f["levels"].units = Stock!Units(Shelves) /\ f["levels"].out = Cardinality(Stock!Where(Stock!Empty))
    BY <2>2 DEF Stock!LevelFigures, Stock!Cardinality, Cardinality
  <2>4. Stock!Total(f["houses"]) = Stock!Units(Shelves)
    <3>1. PICK k, K : k = [s \in Shelves |-> s[1]] /\ K = {s[1] : s \in Shelves}
      OBVIOUS
    <3>2. K = {k[s] : s \in Shelves} /\ \A v : {s \in Shelves : k[s] = v} = {s \in Shelves : s[1] = v}
      BY <3>1
    <3>3. f["houses"] = [v \in K |-> Stock!Units({s \in Shelves : k[s] = v})]
      BY <2>2, <3>1, <3>2 DEF Stock!ByFirst
    <3> QED BY <3>2, <3>3, UnitsAddUp
  <2>5. Stock!Total(f["products"]) = Stock!Units(Shelves)
    <3>1. PICK k, K : k = [s \in Shelves |-> s[2]] /\ K = {s[2] : s \in Shelves}
      OBVIOUS
    <3>2. K = {k[s] : s \in Shelves} /\ \A v : {s \in Shelves : k[s] = v} = {s \in Shelves : s[2] = v}
      BY <3>1
    <3>3. f["products"] = [v \in K |-> Stock!Units({s \in Shelves : k[s] = v})]
      BY <2>2, <3>1, <3>2 DEF Stock!BySecond
    <3> QED BY <3>2, <3>3, UnitsAddUp
  <2>6. f["levels"].out <= f["low"]
    <3>1. PICK E, L : E = {s \in Shelves : Stock!Empty(shelves[s])} /\ L = Stock!LowStock
      OBVIOUS
    <3>2. E \subseteq L /\ L \subseteq Shelves
      BY <3>1, RecordAssumption DEF Stock!Empty, Stock!LowStock
    <3>3. Stock!Where(Stock!Empty) = E
      BY <3>1 DEF Stock!Where
    <3>4. IsFiniteSet(L)
      BY <3>2, RecordAssumption, FS_Subset
    <3> QED BY <2>2, <2>3, <3>1, <3>2, <3>3, <3>4, FS_Subset
  <2> QED BY <2>1, <2>3, <2>4, <2>5, <2>6
<1>3. ASSUME Stock!Answered("alerts"), ~stirred, NEW s \in DOMAIN stockReport.got["alerts"]
      PROVE  stockReport.got["alerts"][s] = "critical" <=> s \in Stock!Listing.out
  <2>1. "alerts" \in DOMAIN stockReport.got
    BY <1>3 DEF Stock!Answered, StockInv, StockReportFits, Stock!QueriesOf
  <2>2. stockReport.got["alerts"] = Stock!Answer("alerts")
    BY <1>3, <2>1 DEF StockInv, StockReportFits
  <2>3. stockReport.got["alerts"] = [t \in Stock!LowStock |-> Stock!Severity(t)]
    BY <2>2 DEF Stock!Answer
  <2>4. s \in Stock!LowStock /\ stockReport.got["alerts"][s] = Stock!Severity(s)
    BY <1>3, <2>3
  <2>5. Stock!Listing.out = {t \in Shelves : Stock!Empty(shelves[t])}
    BY DEF Stock!Listing, Stock!Where
  <2> QED BY <2>4, <2>5 DEF Stock!LowStock, Stock!Severity
<1>4. Stock!StockFiguresAgree
  BY <1>1, <1>2, <1>3 DEF Stock!StockFiguresAgree, Stock!Cardinality, Cardinality
<1> QED BY <1>4 DEF StockInv

-----------------------------------------------------------------------------
(* CustomerDesk                                                            *)

\* n elements of sequence b add up to x.
AddUp(b, n, x) == \E S \in SUBSET DOMAIN b : Cardinality(S) = n /\ SumOf(On(b, S)) = x

\* CountedAs is about the orders of the customer alone.
LEMMA CountsAddUp ==
  \A c, n, x : CountedAs(c, n, x) <=> AddUp(bought[c], n, x)
<1>1. \A f : Cust!Sum(f) = SumOf(f)
  BY DEF Cust!Sum, Cust!MapThenSumSet, Cust!MapThenFoldSet, SumOf, MapThenSumSet, MapThenFoldSet
<1>2. \A c, n, x : CountedAs(c, n, x) <=> \E S \in SUBSET DOMAIN bought[c] : Cardinality(S) = n /\ SumOf([i \in S |-> bought[c][i]]) = x
  BY <1>1 DEF CountedAs
<1> QED BY <1>2 DEF AddUp, On

\* No more elements are counted than there are.
LEMMA AddUpBound ==
  ASSUME NEW T, T \subseteq Nat, NEW b \in Seq(T), NEW n, NEW x, AddUp(b, n, x)
  PROVE  n \in Nat /\ n <= Len(b) /\ x \in Nat
<1>1. PICK S \in SUBSET DOMAIN b : Cardinality(S) = n /\ SumOf(On(b, S)) = x
  BY DEF AddUp
<1>2. Len(b) \in Nat /\ DOMAIN b = 1..Len(b)
  BY LenProperties
<1>3. IsFiniteSet(1..Len(b)) /\ Cardinality(1..Len(b)) = Len(b)
  <2>1. PICK l \in Nat : l = Len(b)
    BY <1>2
  <2>2. IsFiniteSet(1..l) /\ Cardinality(1..l) = IF 1 > l THEN 0 ELSE l - 1 + 1
    BY FS_Interval
  <2> QED BY <2>1, <2>2
<1>4. IsFiniteSet(S) /\ Cardinality(S) <= Len(b)
  BY <1>1, <1>2, <1>3, FS_Subset
<1>5. Cardinality(S) \in Nat
  BY <1>4, FS_CardinalityType
<1>6. \A y \in S : b[y] \in Nat
  BY <1>1, <1>2, ElementOfSeq
<1>7. SumOf(On(b, S)) \in Nat
  BY <1>4, <1>6, SumOfPart
<1> QED BY <1>1, <1>4, <1>5, <1>7

\* What was counted is still counted when an order is added, and so is one more.
LEMMA AddUpMore ==
  ASSUME NEW T, T \subseteq Nat, NEW b \in Seq(T), NEW a \in T, NEW n, NEW x, AddUp(b, n, x)
  PROVE  AddUp(Append(b, a), n, x) /\ AddUp(Append(b, a), n + 1, x + a) /\ x \in Nat
<1>1. PICK S \in SUBSET DOMAIN b : Cardinality(S) = n /\ SumOf(On(b, S)) = x
  BY DEF AddUp
<1>2. PICK l, d : l = Len(b) /\ d = Append(b, a)
  OBVIOUS
<1>3. /\ l \in Nat /\ DOMAIN b = 1..l /\ DOMAIN d = 1..(l + 1)
      /\ (\A i \in 1..l : d[i] = b[i] /\ b[i] \in T) /\ d[l + 1] = a
  <2>1. l \in Nat /\ DOMAIN b = 1..l /\ \A i \in 1..l : b[i] \in T
    BY <1>2, LenProperties, ElementOfSeq
  <2>2. d \in Seq(T) /\ Len(d) = l + 1 /\ (\A i \in 1..l : d[i] = b[i]) /\ d[l + 1] = a
    BY <1>2, AppendProperties
  <2>3. DOMAIN d = 1..(l + 1)
    BY <2>2, LenProperties
  <2> QED BY <2>1, <2>2, <2>3
<1>4. IsFiniteSet(S)
  <2>1. IsFiniteSet(1..l)
    BY <1>3, FS_Interval
  <2> QED BY <1>1, <1>3, <2>1, FS_Subset
<1>5. On(b, S) = On(d, S)
  BY <1>1, <1>3 DEF On
<1>6. l + 1 \notin S /\ S \subseteq DOMAIN d /\ S \cup {l + 1} \subseteq DOMAIN d
  BY <1>1, <1>3
<1>7. Cardinality(S \cup {l + 1}) = n + 1
  <2>1. Cardinality(S \cup {l + 1}) = Cardinality(S) + 1
    BY <1>4, <1>6, FS_AddElement
  <2> QED BY <1>1, <2>1
<1>8. \A y \in S \cup {l + 1} : d[y] \in Nat
  BY <1>1, <1>3
<1>9. SumOf(On(d, S \cup {l + 1})) = a + x
  <2>1. SumOf(On(d, S \cup {l + 1})) = d[l + 1] + SumOf(On(d, S))
    BY <1>4, <1>6, <1>8, SumInsert
  <2> QED BY <1>1, <1>3, <1>5, <2>1
<1>10. x \in Nat
  <2>1. \A y \in S : b[y] \in Nat
    BY <1>1, <1>3
  <2>2. SumOf(On(b, S)) \in Nat
    BY <1>4, <2>1, SumOfPart
  <2> QED BY <1>1, <2>2
<1>11. a \in Nat /\ a + x = x + a
  BY <1>10
<1>12. AddUp(d, n, x)
  BY <1>1, <1>5, <1>6 DEF AddUp
<1>13. AddUp(d, n + 1, x + a)
  BY <1>6, <1>7, <1>9, <1>11 DEF AddUp
<1> QED BY <1>2, <1>10, <1>12, <1>13

LEMMA NothingAddsUp == AddUp(<<>>, 0, 0)
<1>1. On(<<>>, {}) = On(<<>>, {}) /\ SumOf(On(<<>>, {})) = 0
  BY SumNone
<1>2. Cardinality({}) = 0
  BY FS_EmptySet
<1> QED BY <1>1, <1>2 DEF AddUp

\* The figures of customer c, and the count that request d is about to write.
FiguresFit(c) ==
  Cust!Present(c) =>
    /\ AddUp(bought[c], customers[c].orders, customers[c].spent)
    /\ c \notin unsure /\ (\A d \in Desk : ~Cust!IsAt(d, {"stats"}, c)) => customers[c].orders = Len(bought[c])

StatsFit(d) ==
  jobs[d].at = "stats" =>
    /\ AddUp(bought[jobs[d].customer], jobs[d].orders, jobs[d].spent)
    /\ jobs[d].customer \notin unsure => jobs[d].orders = Len(bought[jobs[d].customer])
    /\ jobs[d].customer \notin unsure => \A e \in Desk : Cust!IsAt(e, {"stats"}, jobs[d].customer) => e = d

ReviewFits(r) ==
  r \notin spared /\ reviews[r] # NoCustomer /\ reviews[r].reports >= ReportLimit /\ (\A d \in Desk : ~Cust!Hides(d, r))
    => ~reviews[r].published

\* CustInv, with the sums of this module.
CustFit ==
  /\ CustTyped
  /\ \A d \in Desk : JobFits(d) /\ StatsFit(d)
  /\ \A c \in Customers : FiguresFit(c)
  /\ \A r \in Reviews : ReviewFits(r)

LEMMA CustFits == CustInv <=> CustFit
<1>1. (\A d \in Desk : CountFits(d)) <=> \A d \in Desk : StatsFit(d)
  BY CountsAddUp DEF CountFits, StatsFit
<1>2. Cust!FiguresBelongTogether <=> \A c \in Customers : FiguresFit(c)
  <2>1. Cust!FiguresBelongTogether <=>
          \A c \in Customers :
            Cust!Present(c) =>
              /\ CountedAs(c, customers[c].orders, customers[c].spent)
              /\ c \notin unsure /\ ~(\E d \in Desk : Cust!IsAt(d, {"stats"}, c)) => customers[c].orders = Len(bought[c])
    BY DEF Cust!FiguresBelongTogether, CountedAs, Cardinality, Cust!Cardinality
  <2> QED BY <2>1, CountsAddUp DEF FiguresFit
<1>3. Cust!ReportedIsHidden <=> \A r \in Reviews : ReviewFits(r)
  BY DEF Cust!ReportedIsHidden, ReviewFits
<1> QED BY <1>1, <1>2, <1>3 DEF CustInv, CustFit

LEMMA CustFitsNext == CustFit' => CustInv'
BY CustFits, PTL

\* A request that is not touched still fits.
LEMMA JobStays ==
  ASSUME NEW e \in Desk, JobFits(e), jobs'[e] = jobs[e],
         jobs[e].at \in {"update", "stats", "scoreread", "score"} => Cust!Present(jobs[e].customer)',
         Entering(e) => ~Cust!Present(jobs[e].customer)',
         \A o \in Desk : Entering(o)' /\ Entering(e) => o = e \/ jobs'[o] = jobs[o] \/ jobs'[o].customer # jobs[e].customer
  PROVE  JobFits(e)'
BY DEF JobFits, Entering

LEMMA StatsStay ==
  ASSUME NEW e \in Desk, StatsFit(e), jobs'[e] = jobs[e],
         jobs[e].at = "stats" => bought'[jobs[e].customer] = bought[jobs[e].customer],
         jobs[e].at = "stats" /\ jobs[e].customer \in unsure => jobs[e].customer \in unsure',
         \A o \in Desk : jobs'[o].at = "stats" => jobs'[o] = jobs[o]
  PROVE  StatsFit(e)'
BY DEF StatsFit, Cust!IsAt

LEMMA FiguresStay ==
  ASSUME NEW c \in Customers, FiguresFit(c), Cust!Present(c)' => Cust!Present(c),
         Cust!Present(c)' => customers'[c].orders = customers[c].orders,
         Cust!Present(c)' => customers'[c].spent = customers[c].spent,
         Cust!Present(c)' => bought'[c] = bought[c],
         Cust!Present(c)' /\ c \in unsure => c \in unsure',
         \A o \in Desk : Cust!IsAt(o, {"stats"}, c) => Cust!IsAt(o, {"stats"}, c)' \/ c \in unsure'
  PROVE  FiguresFit(c)'
BY DEF FiguresFit

LEMMA ReviewStays ==
  ASSUME NEW r \in Reviews, ReviewFits(r), reviews'[r] = reviews[r], spared \subseteq spared',
         \A o \in Desk : Cust!Hides(o, r) => Cust!Hides(o, r)' \/ r \in spared'
  PROVE  ReviewFits(r)'
BY DEF ReviewFits

\* Row c with the fields x, y, n, s and k is a row of a customer.
LEMMA RowOfCustomer ==
  \A row, p \in Mobiles, e \in Emails, n \in Nat, s \in Nat, k \in 0..100 :
    row = [phone |-> p, email |-> e, orders |-> n, spent |-> s, score |-> k] => row \in CustomerRow
BY DEF CustomerRow

LEMMA RowParts ==
  \A row \in CustomerRow :
    /\ row.phone \in Mobiles /\ row.email \in Emails /\ row.orders \in Nat /\ row.spent \in Nat /\ row.score \in 0..100
    /\ row = [phone |-> row.phone, email |-> row.email, orders |-> row.orders, spent |-> row.spent, score |-> row.score]
BY DEF CustomerRow

\* At first no customer is there.
LEMMA CustStarts ==
  ASSUME RecordAssumption, Cust!Init
  PROVE  CustInv
<1>1. /\ customers = [c \in Customers |-> NoCustomer] /\ jobs = [d \in Desk |-> Cust!NoJob]
      /\ bought = [c \in Customers |-> <<>>] /\ reviews = [r \in Reviews |-> NoCustomer] /\ unsure = {} /\ spared = {}
  BY DEF Cust!Init
<1>2. CustTyped
  <2>1. customers \in [Customers -> CustomerRow \cup {NoCustomer}] /\ reviews \in [Reviews -> ReviewRow \cup {NoCustomer}]
    BY <1>1
  <2>2. bought \in [Customers -> Seq(Amounts)]
    BY <1>1, EmptySeq
  <2> QED BY <1>1, <2>1, <2>2 DEF CustTyped, Cust!Present
<1>3. \A d \in Desk : jobs[d].at = "none"
  BY <1>1 DEF Cust!NoJob
<1>4. \A d \in Desk : JobFits(d) /\ StatsFit(d)
  BY <1>3 DEF JobFits, StatsFit, Entering
<1>5. (\A c \in Customers : FiguresFit(c)) /\ \A r \in Reviews : ReviewFits(r)
  BY <1>1 DEF FiguresFit, ReviewFits, Cust!Present
<1> QED BY <1>2, <1>4, <1>5, CustFits DEF CustFit

\* Request d becomes j, and nothing else changes.
LEMMA OnlyAJob ==
  ASSUME CustFit, NEW d \in Desk, NEW j, Cust!Does(d, j), UNCHANGED <<customers, bought, unsure, reviews, spared>>,
         jobs[d].at # "stats", jobs[d].at # "hide", j.at # "stats", j.at # "hide", JobFits(d)',
         j.at = "insert" => \A o \in Desk \ {d} : Entering(o) => jobs[o].customer # j.customer
  PROVE  CustFit'
<1>1. DOMAIN jobs = Desk /\ CustTyped
  BY DEF CustFit, CustTyped
<1>2. DOMAIN jobs' = Desk /\ jobs'[d] = j /\ \A o \in Desk \ {d} : jobs'[o] = jobs[o]
  BY <1>1 DEF Cust!Does
<1>3. CustTyped'
  BY <1>1, <1>2 DEF CustTyped, Cust!Present
<1>4. \A o \in Desk : JobFits(o)'
  <2> TAKE o \in Desk
  <2>1. CASE o = d
    BY <2>1
  <2>2. CASE o # d
    <3>1. JobFits(o) /\ jobs'[o] = jobs[o]
      BY <1>2, <2>2 DEF CustFit
    <3>2. jobs[o].at \in {"update", "stats", "scoreread", "score"} => Cust!Present(jobs[o].customer)'
      BY <3>1 DEF JobFits, Cust!Present
    <3>3. Entering(o) => ~Cust!Present(jobs[o].customer)'
      BY <3>1 DEF JobFits, Cust!Present
    <3>4. \A e \in Desk : Entering(e)' /\ Entering(o) => e = o \/ jobs'[e] = jobs[e] \/ jobs'[e].customer # jobs[o].customer
      BY <1>2, <2>2 DEF Entering
    <3> QED BY <3>1, <3>2, <3>3, <3>4, JobStays
  <2> QED BY <2>1, <2>2
<1>5. \A o \in Desk : StatsFit(o)'
  <2> TAKE o \in Desk
  <2>1. CASE o = d
    BY <1>2, <2>1 DEF StatsFit
  <2>2. CASE o # d
    <3>1. StatsFit(o) /\ jobs'[o] = jobs[o]
      BY <1>2, <2>2 DEF CustFit
    <3>2. \A e \in Desk : jobs'[e].at = "stats" => jobs'[e] = jobs[e]
      BY <1>2
    <3>3. jobs[o].at = "stats" => bought'[jobs[o].customer] = bought[jobs[o].customer]
      OBVIOUS
    <3>4. jobs[o].at = "stats" /\ jobs[o].customer \in unsure => jobs[o].customer \in unsure'
      OBVIOUS
    <3> QED BY <3>1, <3>2, <3>3, <3>4, StatsStay
  <2> QED BY <2>1, <2>2
<1>6. \A c \in Customers : FiguresFit(c)'
  <2> TAKE c \in Customers
  <2>1. FiguresFit(c)
    BY DEF CustFit
  <2>2. \A o \in Desk : Cust!IsAt(o, {"stats"}, c) => Cust!IsAt(o, {"stats"}, c)'
    BY <1>2 DEF Cust!IsAt
  <2> QED BY <2>1, <2>2 DEF FiguresFit, Cust!Present
<1>7. \A r \in Reviews : ReviewFits(r)'
  <2> TAKE r \in Reviews
  <2>1. ReviewFits(r)
    BY DEF CustFit
  <2>2. \A o \in Desk : Cust!Hides(o, r) => Cust!Hides(o, r)'
    BY <1>2 DEF Cust!Hides
  <2> QED BY <2>1, <2>2 DEF ReviewFits
<1> QED BY <1>3, <1>4, <1>5, <1>6, <1>7 DEF CustFit

\* A customer is looked for and is to be inserted.
LEMMA Enters ==
  ASSUME CustFit, NEW d \in Desk, NEW c \in Customers, NEW p \in Mobiles, NEW e \in Emails, Cust!Enters(d, c, p, e)
  PROVE  CustFit'
<1>1. PICK j : j = [at |-> "insert", customer |-> c, phone |-> p, email |-> e]
  OBVIOUS
<1>2. /\ Cust!Free(d) /\ ~Cust!Present(c) /\ ~(\E o \in Desk : Cust!IsAt(o, {"insert"}, c))
      /\ Cust!Does(d, j) /\ UNCHANGED <<customers, bought, unsure, reviews, spared>>
  BY <1>1 DEF Cust!Enters
<1>3. jobs[d].at = "none" /\ j.at = "insert" /\ j.customer = c /\ j.phone = p /\ j.email = e
  BY <1>1, <1>2 DEF Cust!Free, Cust!NoJob
<1>4. jobs'[d] = j /\ \A o \in Desk \ {d} : jobs'[o] = jobs[o]
  BY <1>2 DEF Cust!Does, CustFit, CustTyped
<1>5. \A o \in Desk \ {d} : Entering(o) => jobs[o].customer # c
  BY <1>2 DEF Entering, Cust!IsAt
<1>6. ~Cust!Present(c)'
  BY <1>2 DEF Cust!Present
<1>7. \A o \in Desk : Entering(o)' /\ jobs'[o].customer = c => o = d
  BY <1>4, <1>5 DEF Entering
<1>8. JobFits(d)'
  BY <1>3, <1>4, <1>6, <1>7 DEF JobFits, Entering
<1> QED BY <1>2, <1>3, <1>5, <1>8, OnlyAJob

LEMMA AskUpdate ==
  ASSUME CustFit, NEW d \in Desk, NEW c \in Customers, Cust!AskUpdate(d, c)
  PROVE  CustFit'
<1>1. PICK p \in Mobiles, e \in Emails : Cust!Does(d, [at |-> "update", customer |-> c, phone |-> p, email |-> e])
  BY DEF Cust!AskUpdate
<1>2. PICK j : j = [at |-> "update", customer |-> c, phone |-> p, email |-> e]
  OBVIOUS
<1>3. /\ Cust!Free(d) /\ Cust!Present(c) /\ UNCHANGED <<customers, bought, unsure, reviews, spared>> /\ Cust!Does(d, j)
  BY <1>1, <1>2 DEF Cust!AskUpdate
<1>4. jobs[d].at = "none" /\ j.at = "update" /\ j.customer = c /\ j.phone = p /\ j.email = e
  BY <1>2, <1>3 DEF Cust!Free, Cust!NoJob
<1>5. jobs'[d] = j
  BY <1>3 DEF Cust!Does, CustFit, CustTyped
<1>6. Cust!Present(c)'
  BY <1>3 DEF Cust!Present
<1>7. JobFits(d)'
  BY <1>4, <1>5, <1>6 DEF JobFits, Entering
<1> QED BY <1>3, <1>4, <1>7, OnlyAJob

LEMMA AskScore ==
  ASSUME CustFit, RecordAssumption, NEW d \in Desk, NEW c \in Customers, Cust!AskScore(d, c)
  PROVE  CustFit'
<1>1. PICK by \in ScoreDeltas : Cust!Does(d, [at |-> "scoreread", customer |-> c, by |-> by])
  BY DEF Cust!AskScore
<1>2. PICK j : j = [at |-> "scoreread", customer |-> c, by |-> by]
  OBVIOUS
<1>3. /\ Cust!Free(d) /\ Cust!Present(c) /\ UNCHANGED <<customers, bought, unsure, reviews, spared>> /\ Cust!Does(d, j)
  BY <1>1, <1>2 DEF Cust!AskScore
<1>4. jobs[d].at = "none" /\ j.at = "scoreread" /\ j.customer = c /\ j.by \in Int /\ DOMAIN j = {"at", "customer", "by"}
  <2>1. by \in Int
    BY RecordAssumption
  <2> QED BY <1>2, <1>3, <2>1 DEF Cust!Free, Cust!NoJob
<1>5. jobs'[d] = j
  BY <1>3 DEF Cust!Does, CustFit, CustTyped
<1>6. Cust!Present(c)'
  BY <1>3 DEF Cust!Present
<1>7. JobFits(d)'
  BY <1>4, <1>5, <1>6 DEF JobFits, Entering
<1> QED BY <1>3, <1>4, <1>7, OnlyAJob

LEMMA ReadScore ==
  ASSUME CustFit, NEW d \in Desk, Cust!ReadScore(d)
  PROVE  CustFit'
<1>1. PICK c : c = jobs[d].customer
  OBVIOUS
<1>2. PICK to : to = Cust!Clamped(customers[c].score + jobs[d].by)
  OBVIOUS
<1>3. PICK j : j = [at |-> "score", customer |-> c, to |-> to]
  OBVIOUS
<1>4. /\ jobs[d].at = "scoreread" /\ UNCHANGED <<customers, bought, unsure, reviews, spared>> /\ Cust!Does(d, j)
  BY <1>1, <1>2, <1>3 DEF Cust!ReadScore
<1>5. c \in Customers /\ Cust!Present(c) /\ jobs[d].by \in Int
  <2>1. JobFits(d)
    BY DEF CustFit
  <2> QED BY <1>1, <1>4, <2>1 DEF JobFits
<1>6. customers[c].score \in Int
  <2>1. customers[c] \in CustomerRow
    BY <1>5 DEF CustFit, CustTyped, Cust!Present
  <2> QED BY <2>1, RowParts
<1>7. to \in 0..100
  <2>1. PICK n \in Int : n = customers[c].score + jobs[d].by
    BY <1>5, <1>6
  <2>2. Cust!Clamped(n) \in 0..100
    BY DEF Cust!Clamped
  <2> QED BY <1>2, <2>1, <2>2
<1>8. j.at = "score" /\ j.customer = c /\ j.to = to
  BY <1>3
<1>9. jobs'[d] = j
  BY <1>4 DEF Cust!Does, CustFit, CustTyped
<1>10. Cust!Present(c)'
  BY <1>4, <1>5 DEF Cust!Present
<1>11. JobFits(d)'
  BY <1>5, <1>7, <1>8, <1>9, <1>10 DEF JobFits, Entering
<1> QED BY <1>4, <1>8, <1>11, OnlyAJob

\* Request d becomes j, which is about to insert nothing, and every customer stays.
LEMMA JobsGo ==
  ASSUME CustFit, NEW d \in Desk, NEW j, Cust!Does(d, j), j.at # "insert", JobFits(d)',
         \A c \in Customers : Cust!Present(c) => Cust!Present(c)',
         \A o \in Desk \ {d} : Entering(o) => ~Cust!Present(jobs[o].customer)'
  PROVE  \A o \in Desk : JobFits(o)'
<1>1. DOMAIN jobs = Desk
  BY DEF CustFit, CustTyped
<1>2. jobs'[d] = j /\ \A o \in Desk \ {d} : jobs'[o] = jobs[o]
  BY <1>1 DEF Cust!Does
<1> TAKE o \in Desk
<1>3. CASE o = d
  BY <1>3
<1>4. CASE o # d
  <2>1. JobFits(o) /\ jobs'[o] = jobs[o]
    BY <1>2, <1>4 DEF CustFit
  <2>2. jobs[o].at \in {"update", "stats", "scoreread", "score"} => Cust!Present(jobs[o].customer)'
    BY <2>1 DEF JobFits
  <2>3. Entering(o) => ~Cust!Present(jobs[o].customer)'
    BY <1>4
  <2>4. \A e \in Desk : Entering(e)' /\ Entering(o) => e = o \/ jobs'[e] = jobs[e] \/ jobs'[e].customer # jobs[o].customer
    BY <1>2 DEF Entering
  <2> QED BY <2>1, <2>2, <2>3, <2>4, JobStays
<1> QED BY <1>3, <1>4

\* Request d becomes j, which is no count, and no order is added.
LEMMA StatsGo ==
  ASSUME CustFit, NEW d \in Desk, NEW j, Cust!Does(d, j), j.at # "stats", bought' = bought, unsure \subseteq unsure'
  PROVE  \A o \in Desk : StatsFit(o)'
<1>1. DOMAIN jobs = Desk
  BY DEF CustFit, CustTyped
<1>2. jobs'[d] = j /\ \A o \in Desk \ {d} : jobs'[o] = jobs[o]
  BY <1>1 DEF Cust!Does
<1> TAKE o \in Desk
<1>3. CASE o = d
  BY <1>2, <1>3 DEF StatsFit
<1>4. CASE o # d
  <2>1. StatsFit(o) /\ jobs'[o] = jobs[o]
    BY <1>2, <1>4 DEF CustFit
  <2>2. jobs[o].at = "stats" => bought'[jobs[o].customer] = bought[jobs[o].customer]
    OBVIOUS
  <2>3. jobs[o].at = "stats" /\ jobs[o].customer \in unsure => jobs[o].customer \in unsure'
    OBVIOUS
  <2>4. \A e \in Desk : jobs'[e].at = "stats" => jobs'[e] = jobs[e]
    BY <1>2
  <2> QED BY <2>1, <2>2, <2>3, <2>4, StatsStay
<1> QED BY <1>3, <1>4

\* Request d, which was to hide no review, becomes j, and no review changes.
LEMMA ReviewsGo ==
  ASSUME CustFit, NEW d \in Desk, NEW j, Cust!Does(d, j), jobs[d].at # "hide", UNCHANGED <<reviews, spared>>
  PROVE  \A r \in Reviews : ReviewFits(r)'
<1>1. DOMAIN jobs = Desk
  BY DEF CustFit, CustTyped
<1>2. jobs'[d] = j /\ \A o \in Desk \ {d} : jobs'[o] = jobs[o]
  BY <1>1 DEF Cust!Does
<1> TAKE r \in Reviews
<1>3. ReviewFits(r)
  BY DEF CustFit
<1>4. \A o \in Desk : Cust!Hides(o, r) => Cust!Hides(o, r)' \/ r \in spared'
  BY <1>2 DEF Cust!Hides
<1> QED BY <1>3, <1>4, ReviewStays

\* The figures of c stay, when its row keeps them and no count of it ends.
LEMMA FiguresGo ==
  ASSUME CustFit, NEW d \in Desk, NEW j, Cust!Does(d, j), NEW c \in Customers,
         jobs[d].at # "stats" \/ jobs[d].customer # c \/ c \in unsure', bought' = bought, unsure \subseteq unsure',
         Cust!Present(c)' => Cust!Present(c),
         Cust!Present(c)' => customers'[c].orders = customers[c].orders,
         Cust!Present(c)' => customers'[c].spent = customers[c].spent
  PROVE  FiguresFit(c)'
<1>1. DOMAIN jobs = Desk
  BY DEF CustFit, CustTyped
<1>2. jobs'[d] = j /\ \A o \in Desk \ {d} : jobs'[o] = jobs[o]
  BY <1>1 DEF Cust!Does
<1>3. FiguresFit(c)
  BY DEF CustFit
<1>4. \A o \in Desk : Cust!IsAt(o, {"stats"}, c) => Cust!IsAt(o, {"stats"}, c)' \/ c \in unsure'
  BY <1>2 DEF Cust!IsAt
<1>5. /\ Cust!Present(c)' => bought'[c] = bought[c]
      /\ Cust!Present(c)' /\ c \in unsure => c \in unsure'
  OBVIOUS
<1> QED BY <1>3, <1>4, <1>5, FiguresStay

\* The customer is there, or was refused.
LEMMA InsertCustomer ==
  ASSUME CustFit, NEW d \in Desk, Cust!InsertCustomer(d)
  PROVE  CustFit'
<1>1. PICK j : j = jobs[d]
  OBVIOUS
<1>2. PICK row : row = [phone |-> j.phone, email |-> j.email, orders |-> 0, spent |-> 0, score |-> 10]
  OBVIOUS
<1>3. PICK none : none = Cust!NoJob
  OBVIOUS
<1>4. /\ j.at = "insert" /\ Cust!Does(d, none) /\ UNCHANGED <<bought, unsure, reviews, spared>>
      /\ customers' = customers \/ customers' = [customers EXCEPT ![j.customer] = row]
  BY <1>1, <1>2, <1>3 DEF Cust!InsertCustomer
<1>5. PICK c : c = j.customer
  OBVIOUS
<1>6. /\ c \in Customers /\ ~Cust!Present(c) /\ j.phone \in Mobiles /\ j.email \in Emails
      /\ \A e \in Desk : Entering(e) /\ jobs[e].customer = c => e = d
  <2>1. JobFits(d)
    BY DEF CustFit
  <2> QED BY <1>1, <1>4, <1>5, <2>1 DEF JobFits, Entering
<1>7. CustTyped
  BY DEF CustFit
<1>8. row \in CustomerRow
  BY <1>2, <1>6 DEF CustomerRow
<1>9. \A o \in Customers \ {c} : customers'[o] = customers[o]
  BY <1>4, <1>5, <1>7 DEF CustTyped
<1>10. customers'[c] = row \/ customers'[c] = NoCustomer
  <2>1. customers[c] = NoCustomer
    BY <1>6 DEF Cust!Present
  <2> QED BY <1>4, <1>5, <1>6, <1>7, <2>1 DEF CustTyped
<1>11. customers' \in [Customers -> CustomerRow \cup {NoCustomer}]
  BY <1>4, <1>5, <1>7, <1>8 DEF CustTyped
<1>12. \A o \in Customers : Cust!Present(o) => Cust!Present(o)'
  BY <1>6, <1>9 DEF Cust!Present
<1>13. DOMAIN jobs' = Desk /\ jobs'[d] = none /\ none.at = "none"
  BY <1>3, <1>4, <1>7 DEF Cust!Does, CustTyped, Cust!NoJob
<1>14. CustTyped'
  <2>1. \A o \in Customers : ~Cust!Present(o)' => bought'[o] = <<>>
    BY <1>4, <1>7, <1>12 DEF CustTyped
  <2>2. \A r \in Reviews : reviews'[r] # NoCustomer => Cust!Present(reviews[r].author)'
    <3>1. \A r \in Reviews : reviews[r] # NoCustomer => reviews[r].author \in Customers /\ Cust!Present(reviews[r].author)
      BY <1>7 DEF CustTyped, ReviewRow
    <3> QED BY <1>4, <1>12, <3>1
  <2> QED BY <1>4, <1>7, <1>11, <1>13, <2>1, <2>2 DEF CustTyped
<1>15. JobFits(d)'
  BY <1>13 DEF JobFits, Entering
<1>16. \A o \in Desk \ {d} : Entering(o) => ~Cust!Present(jobs[o].customer)'
  <2> TAKE o \in Desk \ {d}
  <2>1. JobFits(o)
    BY DEF CustFit
  <2>2. jobs'[o] = jobs[o]
    BY <1>4, <1>7 DEF Cust!Does, CustTyped
  <2> QED BY <1>6, <1>9, <2>1, <2>2 DEF JobFits, Entering, Cust!Present
<1>17. \A o \in Desk : JobFits(o)'
  BY <1>4, <1>12, <1>13, <1>15, <1>16, JobsGo
<1>18. \A o \in Desk : StatsFit(o)'
  BY <1>4, <1>13, StatsGo
<1>19. \A r \in Reviews : ReviewFits(r)'
  BY <1>1, <1>4, ReviewsGo
<1>20. \A o \in Customers : FiguresFit(o)'
  <2> TAKE o \in Customers
  <2>1. CASE o # c
    <3>1. customers'[o] = customers[o]
      BY <1>9, <2>1
    <3>2. Cust!Present(o)' => Cust!Present(o)
      BY <3>1 DEF Cust!Present
    <3> QED BY <1>1, <1>4, <3>1, <3>2, FiguresGo
  <2>2. CASE o = c
    <3>1. bought'[o] = <<>>
      BY <1>4, <1>6, <1>7, <2>2 DEF CustTyped
    <3>2. Cust!Present(o)' => customers'[o].orders = 0 /\ customers'[o].spent = 0
      BY <1>2, <1>10, <2>2 DEF Cust!Present
    <3> QED BY <3>1, <3>2, NothingAddsUp DEF FiguresFit
  <2> QED BY <2>1, <2>2
<1> QED BY <1>14, <1>17, <1>18, <1>19, <1>20 DEF CustFit

\* Request d ends or becomes j; a row keeps what it has of the orders but for those of c.
LEMMA ARowChanges ==
  ASSUME CustFit, NEW d \in Desk, NEW j, Cust!Does(d, j), j.at # "insert", j.at # "stats", JobFits(d)',
         jobs[d].at # "hide", UNCHANGED <<bought, unsure, reviews, spared>>,
         NEW c \in Customers, Cust!Present(c), NEW row \in CustomerRow,
         customers' = [customers EXCEPT ![c] = row], FiguresFit(c)',
         jobs[d].at = "stats" => jobs[d].customer = c
  PROVE  CustFit'
<1>1. CustTyped
  BY DEF CustFit
<1>2. customers'[c] = row /\ \A o \in Customers \ {c} : customers'[o] = customers[o]
  BY <1>1 DEF CustTyped
<1>3. DOMAIN jobs' = Desk
  BY <1>1 DEF Cust!Does, CustTyped
<1>4. row # NoCustomer
  BY RecordAssumption
<1>5. \A o \in Customers : Cust!Present(o) <=> Cust!Present(o)'
  BY <1>2, <1>4 DEF Cust!Present
<1>6. CustTyped'
  <2>1. customers' \in [Customers -> CustomerRow \cup {NoCustomer}]
    BY <1>1 DEF CustTyped
  <2>2. \A o \in Customers : ~Cust!Present(o)' => bought'[o] = <<>>
    BY <1>1, <1>5 DEF CustTyped
  <2>3. \A r \in Reviews : reviews'[r] # NoCustomer => Cust!Present(reviews[r].author)'
    <3>1. \A r \in Reviews : reviews[r] # NoCustomer => reviews[r].author \in Customers /\ Cust!Present(reviews[r].author)
      BY <1>1 DEF CustTyped, ReviewRow
    <3> QED BY <1>5, <3>1
  <2> QED BY <1>1, <1>3, <2>1, <2>2, <2>3 DEF CustTyped
<1>7. \A o \in Desk \ {d} : Entering(o) => ~Cust!Present(jobs[o].customer)'
  <2> TAKE o \in Desk \ {d}
  <2>1. JobFits(o)
    BY DEF CustFit
  <2>2. jobs'[o] = jobs[o]
    BY <1>1 DEF Cust!Does, CustTyped
  <2> QED BY <1>5, <2>1, <2>2 DEF JobFits, Entering
<1>8. \A o \in Desk : JobFits(o)'
  BY <1>5, <1>7, JobsGo
<1>9. \A o \in Desk : StatsFit(o)'
  BY StatsGo
<1>10. \A r \in Reviews : ReviewFits(r)'
  BY ReviewsGo
<1>11. \A o \in Customers : FiguresFit(o)'
  <2> TAKE o \in Customers
  <2>1. CASE o # c
    <3>1. customers'[o] = customers[o] /\ (jobs[d].at # "stats" \/ jobs[d].customer # o)
      BY <1>2, <2>1
    <3>2. Cust!Present(o)' => Cust!Present(o)
      BY <1>5
    <3> QED BY <3>1, <3>2, FiguresGo
  <2>2. CASE o = c
    BY <2>2
  <2> QED BY <2>1, <2>2
<1> QED BY <1>6, <1>8, <1>9, <1>10, <1>11 DEF CustFit

\* A row with other fields, as the statements of the services write it.
LEMMA RowAnew ==
  ASSUME NEW old \in CustomerRow, NEW row
  PROVE  /\ \A p \in Mobiles, e \in Emails :
              row = [old EXCEPT !.phone = p, !.email = e] => row \in CustomerRow /\ row.orders = old.orders /\ row.spent = old.spent
         /\ \A n \in Nat, x \in Nat :
              row = [old EXCEPT !.orders = n, !.spent = x] => row \in CustomerRow /\ row.orders = n /\ row.spent = x
         /\ \A k \in 0..100 :
              row = [old EXCEPT !.score = k] => row \in CustomerRow /\ row.orders = old.orders /\ row.spent = old.spent
BY DEF CustomerRow

LEMMA UpdateCustomer ==
  ASSUME CustFit, NEW d \in Desk, Cust!UpdateCustomer(d)
  PROVE  CustFit'
<1>1. PICK none : none = Cust!NoJob
  OBVIOUS
<1>2. PICK c, p, e : c = jobs[d].customer /\ p = jobs[d].phone /\ e = jobs[d].email
  OBVIOUS
<1>3. PICK row : row = [customers[c] EXCEPT !.phone = p, !.email = e]
  OBVIOUS
<1>4. /\ jobs[d].at = "update" /\ Cust!Does(d, none) /\ UNCHANGED <<bought, unsure, reviews, spared>>
      /\ customers' = customers \/ customers' = [customers EXCEPT ![c] = row]
  BY <1>1, <1>2, <1>3 DEF Cust!UpdateCustomer
<1>5. c \in Customers /\ Cust!Present(c) /\ p \in Mobiles /\ e \in Emails
  <2>1. JobFits(d)
    BY DEF CustFit
  <2> QED BY <1>2, <1>4, <2>1 DEF JobFits
<1>6. CustTyped
  BY DEF CustFit
<1>7. none.at = "none" /\ jobs'[d] = none
  BY <1>1, <1>4, <1>6 DEF Cust!Does, CustTyped, Cust!NoJob
<1>8. JobFits(d)'
  BY <1>7 DEF JobFits, Entering
<1>9. CASE customers' = customers
  BY <1>4, <1>7, <1>8, <1>9, OnlyAJob
<1>10. CASE customers' = [customers EXCEPT ![c] = row]
  <2>1. customers[c] \in CustomerRow
    BY <1>5, <1>6 DEF CustTyped, Cust!Present
  <2>2. row \in CustomerRow /\ row.orders = customers[c].orders /\ row.spent = customers[c].spent
    <3>1. PICK old \in CustomerRow : old = customers[c]
      BY <2>1
    <3>2. row = [old EXCEPT !.phone = p, !.email = e]
      BY <1>3, <3>1
    <3> QED BY <1>5, <3>1, <3>2, RowAnew
  <2>3. customers'[c] = row
    BY <1>5, <1>6, <1>10 DEF CustTyped
  <2>4. FiguresFit(c)'
    BY <1>4, <1>5, <2>2, <2>3, FiguresGo
  <2> QED BY <1>4, <1>5, <1>7, <1>8, <1>10, <2>2, <2>4, ARowChanges
<1> QED BY <1>4, <1>9, <1>10

LEMMA WriteScore ==
  ASSUME CustFit, NEW d \in Desk, Cust!WriteScore(d)
  PROVE  CustFit'
<1>1. PICK none : none = Cust!NoJob
  OBVIOUS
<1>2. PICK c, k : c = jobs[d].customer /\ k = jobs[d].to
  OBVIOUS
<1>3. PICK row : row = [customers[c] EXCEPT !.score = k]
  OBVIOUS
<1>4. /\ jobs[d].at = "score" /\ Cust!Does(d, none) /\ UNCHANGED <<bought, unsure, reviews, spared>>
      /\ customers' = [customers EXCEPT ![c] = row]
  BY <1>1, <1>2, <1>3 DEF Cust!WriteScore
<1>5. c \in Customers /\ Cust!Present(c) /\ k \in 0..100
  <2>1. JobFits(d)
    BY DEF CustFit
  <2> QED BY <1>2, <1>4, <2>1 DEF JobFits
<1>6. CustTyped
  BY DEF CustFit
<1>7. none.at = "none" /\ jobs'[d] = none
  BY <1>1, <1>4, <1>6 DEF Cust!Does, CustTyped, Cust!NoJob
<1>8. JobFits(d)'
  BY <1>7 DEF JobFits, Entering
<1>9. customers[c] \in CustomerRow
  BY <1>5, <1>6 DEF CustTyped, Cust!Present
<1>10. row \in CustomerRow /\ row.orders = customers[c].orders /\ row.spent = customers[c].spent
  BY <1>3, <1>5, <1>9, RowAnew
<1>11. customers'[c] = row
  BY <1>4, <1>5, <1>6 DEF CustTyped
<1>12. FiguresFit(c)'
  BY <1>4, <1>5, <1>10, <1>11, FiguresGo
<1> QED BY <1>4, <1>5, <1>7, <1>8, <1>10, <1>12, ARowChanges

LEMMA TwoAreMore ==
  ASSUME NEW S, IsFiniteSet(S), NEW x \in S, NEW y \in S, x # y
  PROVE  Cardinality(S) > 1
<1>1. IsFiniteSet({x}) /\ Cardinality({x}) = 1
  BY FS_Singleton
<1>2. Cardinality({x} \cup {y}) = Cardinality({x}) + 1
  BY <1>1, FS_AddElement
<1>3. Cardinality({x} \cup {y}) <= Cardinality(S)
  BY FS_Subset
<1>4. Cardinality(S) \in Nat
  BY FS_CardinalityType
<1> QED BY <1>1, <1>2, <1>3, <1>4

\* An order is added, and its count begins.
LEMMA CountOrder ==
  ASSUME CustFit, NEW d \in Desk, NEW c \in Customers, Cust!CountOrder(d, c)
  PROVE  CustFit'
<1>1. PICK a \in Amounts :
        /\ bought' = [bought EXCEPT ![c] = Append(bought[c], a)]
        /\ Cust!Does(d, [at |-> "stats", customer |-> c, orders |-> customers[c].orders + 1, spent |-> customers[c].spent + a, by |-> 5])
  BY DEF Cust!CountOrder
<1>2. PICK j : j = [at |-> "stats", customer |-> c, orders |-> customers[c].orders + 1, spent |-> customers[c].spent + a, by |-> 5]
  OBVIOUS
<1>3. /\ Cust!Free(d) /\ Cust!Present(c) /\ Cust!Does(d, j) /\ unsure' = Cust!Overlapping(c)
      /\ UNCHANGED <<customers, reviews, spared>>
  BY <1>1, <1>2 DEF Cust!CountOrder
<1>4. CustTyped
  BY DEF CustFit
<1>5. /\ jobs[d].at = "none" /\ j.at = "stats" /\ j.customer = c /\ j.by = 5
      /\ j.orders = customers[c].orders + 1 /\ j.spent = customers[c].spent + a /\ {"at", "customer", "by"} \subseteq DOMAIN j
  BY <1>2, <1>3 DEF Cust!Free, Cust!NoJob
<1>6. DOMAIN jobs' = Desk /\ jobs'[d] = j /\ \A o \in Desk \ {d} : jobs'[o] = jobs[o]
  BY <1>3, <1>4 DEF Cust!Does, CustTyped
<1>7. \A o \in Customers \ {c} : bought'[o] = bought[o]
  BY <1>1, <1>4 DEF CustTyped
<1>8. PICK b : b = bought[c]
  OBVIOUS
<1>9. b \in Seq(Amounts) /\ bought'[c] = Append(b, a) /\ Append(b, a) \in Seq(Amounts) /\ Len(Append(b, a)) = Len(b) + 1
  <2>1. b \in Seq(Amounts) /\ bought'[c] = Append(b, a)
    BY <1>1, <1>4, <1>8 DEF CustTyped
  <2> QED BY <2>1, AppendProperties
<1>10. Amounts \subseteq Nat
  BY RecordAssumption
<1>11. \A n, x : AddUp(b, n, x) => AddUp(bought'[c], n, x) /\ AddUp(bought'[c], n + 1, x + a)
  <2>1. \A n, x : AddUp(b, n, x) => AddUp(Append(b, a), n, x) /\ AddUp(Append(b, a), n + 1, x + a)
    BY <1>9, <1>10, AddUpMore
  <2> QED BY <1>9, <2>1
<1>12. /\ unsure \subseteq unsure' /\ unsure' \subseteq unsure \cup {c}
       /\ \A o \in Desk \ {d} : Cust!IsAt(o, {"stats"}, c) => c \in unsure'
  <2>1. PICK S : S = {o \in Desk : Cust!IsAt(o, {"stats"}, c)'}
    OBVIOUS
  <2>2. unsure' = IF Cardinality(S) > 1 THEN unsure \cup {c} ELSE unsure
    BY <1>3, <2>1 DEF Cust!Overlapping, Cust!Cardinality, Cardinality
  <2>3. IsFiniteSet(S) /\ d \in S
    <3>1. IsFiniteSet(Desk)
      BY RecordAssumption
    <3>2. Cust!IsAt(d, {"stats"}, c)'
      BY <1>5, <1>6 DEF Cust!IsAt
    <3> QED BY <2>1, <3>1, <3>2, FS_Subset
  <2>4. ASSUME NEW o \in Desk \ {d}, Cust!IsAt(o, {"stats"}, c) PROVE c \in unsure'
    <3>1. o \in S
      BY <1>6, <2>1, <2>4 DEF Cust!IsAt
    <3>2. Cardinality(S) > 1
      BY <2>3, <3>1, TwoAreMore
    <3> QED BY <2>2, <3>2
  <2> QED BY <2>2, <2>4
<1>13. FiguresFit(c) /\ JobFits(d) /\ \A o \in Desk : JobFits(o) /\ StatsFit(o)
  BY DEF CustFit
<1>14. AddUp(b, customers[c].orders, customers[c].spent)
  BY <1>3, <1>8, <1>13 DEF FiguresFit
<1>15. \A o \in Customers : Cust!Present(o)' <=> Cust!Present(o)
  BY <1>3 DEF Cust!Present
<1>16. CustTyped'
  <2>1. bought' \in [Customers -> Seq(Amounts)]
    <3>1. bought \in [Customers -> Seq(Amounts)] /\ Append(bought[c], a) \in Seq(Amounts)
      BY <1>4, <1>8, <1>9 DEF CustTyped
    <3> QED BY <1>1, <3>1
  <2>2. \A o \in Customers : ~Cust!Present(o)' => bought'[o] = <<>>
    BY <1>3, <1>4, <1>7, <1>15 DEF CustTyped
  <2>3. \A r \in Reviews : reviews'[r] # NoCustomer => Cust!Present(reviews[r].author)'
    BY <1>3, <1>4 DEF CustTyped, Cust!Present
  <2>4. unsure' \subseteq Customers
    BY <1>4, <1>12 DEF CustTyped
  <2> QED BY <1>3, <1>4, <1>6, <2>1, <2>2, <2>3, <2>4 DEF CustTyped
<1>17. \A o \in Desk : JobFits(o)'
  <2>1. JobFits(d)'
    BY <1>3, <1>5, <1>6, <1>15 DEF JobFits, Entering
  <2>2. \A o \in Desk \ {d} : Entering(o) => ~Cust!Present(jobs[o].customer)'
    <3> TAKE o \in Desk \ {d}
    <3> QED BY <1>6, <1>13, <1>15 DEF JobFits, Entering
  <2> QED BY <1>3, <1>5, <1>15, <2>1, <2>2, JobsGo
<1>18. ASSUME NEW o \in Desk PROVE StatsFit(o)'
  <2>1. CASE o = d
    <3>1. AddUp(bought'[c], j.orders, j.spent)
      BY <1>5, <1>11, <1>14
    <3>2. ASSUME c \notin unsure' PROVE j.orders = Len(bought'[c]) /\ \A e \in Desk : Cust!IsAt(e, {"stats"}, c)' => e = d
      <4>1. c \notin unsure /\ \A e \in Desk \ {d} : ~Cust!IsAt(e, {"stats"}, c)
        BY <1>12, <3>2
      <4>2. ~Cust!IsAt(d, {"stats"}, c)
        BY <1>5 DEF Cust!IsAt
      <4>3. customers[c].orders = Len(b)
        BY <1>3, <1>8, <1>13, <4>1, <4>2 DEF FiguresFit
      <4>4. \A e \in Desk : Cust!IsAt(e, {"stats"}, c)' => e = d
        BY <1>6, <4>1 DEF Cust!IsAt
      <4> QED BY <1>5, <1>9, <4>3, <4>4
    <3> QED BY <1>5, <1>6, <2>1, <3>1, <3>2 DEF StatsFit
  <2>2. CASE o # d /\ jobs[o].customer = c
    <3>1. SUFFICES ASSUME jobs[o].at = "stats" PROVE AddUp(bought'[c], jobs[o].orders, jobs[o].spent) /\ c \in unsure'
      BY <1>6, <2>2 DEF StatsFit
    <3>2. AddUp(b, jobs[o].orders, jobs[o].spent)
      BY <1>8, <1>13, <2>2, <3>1 DEF StatsFit
    <3>3. c \in unsure'
      BY <1>12, <2>2, <3>1 DEF Cust!IsAt
    <3> QED BY <1>11, <3>2, <3>3
  <2>3. CASE o # d /\ jobs[o].customer # c
    <3>1. SUFFICES ASSUME jobs[o].at = "stats"
                   PROVE  /\ AddUp(bought'[jobs[o].customer], jobs[o].orders, jobs[o].spent)
                          /\ jobs[o].customer \notin unsure' => jobs[o].orders = Len(bought'[jobs[o].customer])
                          /\ jobs[o].customer \notin unsure' =>
                               \A e \in Desk : Cust!IsAt(e, {"stats"}, jobs[o].customer)' => e = o
      BY <1>6, <2>3 DEF StatsFit, Cust!IsAt
    <3>2. jobs[o].customer \in Customers /\ JobFits(o) /\ StatsFit(o)
      BY <1>13, <3>1 DEF JobFits
    <3>3. bought'[jobs[o].customer] = bought[jobs[o].customer]
      BY <1>7, <2>3, <3>2
    <3>4. \A e \in Desk : jobs'[e].at = "stats" /\ jobs'[e].customer = jobs[o].customer => Cust!IsAt(e, {"stats"}, jobs[o].customer)
      BY <1>5, <1>6, <2>3 DEF Cust!IsAt
    <3>5. \A e \in Desk : jobs'[e].at = "stats" /\ jobs'[e].customer = jobs[o].customer => jobs[o].customer \in unsure \/ e = o
      BY <3>1, <3>2, <3>4 DEF StatsFit
    <3>6. jobs'[o] = jobs[o]
      BY <1>6, <2>3
    <3> QED BY <1>12, <3>1, <3>2, <3>3, <3>5, <3>6 DEF StatsFit, Cust!IsAt
  <2> QED BY <2>1, <2>2, <2>3
<1>19. ASSUME NEW o \in Customers PROVE FiguresFit(o)'
  <2>1. CASE o = c
    <3>1. AddUp(bought'[c], customers[c].orders, customers[c].spent)
      BY <1>11, <1>14
    <3>2. Cust!IsAt(d, {"stats"}, c)'
      BY <1>5, <1>6 DEF Cust!IsAt
    <3> QED BY <1>3, <2>1, <3>1, <3>2 DEF FiguresFit
  <2>2. CASE o # c
    <3>1. bought'[o] = bought[o] /\ customers'[o] = customers[o] /\ FiguresFit(o)
      BY <1>3, <1>7, <2>2 DEF CustFit
    <3>2. \A e \in Desk : Cust!IsAt(e, {"stats"}, o) => Cust!IsAt(e, {"stats"}, o)' \/ o \in unsure'
      BY <1>5, <1>6 DEF Cust!IsAt
    <3>3. Cust!Present(o)' => Cust!Present(o)
      BY <1>15
    <3> QED BY <1>12, <3>1, <3>2, <3>3, FiguresStay
  <2> QED BY <2>1, <2>2
<1>20. \A r \in Reviews : ReviewFits(r)'
  BY <1>3, <1>5, ReviewsGo
<1> QED BY <1>16, <1>17, <1>18, <1>19, <1>20 DEF CustFit

\* The figures that were computed are written.
LEMMA WriteStats ==
  ASSUME CustFit, NEW d \in Desk, Cust!WriteStats(d)
  PROVE  CustFit'
<1>1. PICK c, n, x : c = jobs[d].customer /\ n = jobs[d].orders /\ x = jobs[d].spent
  OBVIOUS
<1>2. PICK j : j = [jobs[d] EXCEPT !.at = "scoreread"]
  OBVIOUS
<1>3. PICK row : row = [customers[c] EXCEPT !.orders = n, !.spent = x]
  OBVIOUS
<1>4. /\ jobs[d].at = "stats" /\ Cust!Does(d, j) /\ UNCHANGED <<bought, unsure, reviews, spared>>
      /\ customers' = [customers EXCEPT ![c] = row]
  BY <1>1, <1>2, <1>3 DEF Cust!WriteStats
<1>5. JobFits(d) /\ StatsFit(d) /\ CustTyped
  BY DEF CustFit
<1>6. c \in Customers /\ Cust!Present(c) /\ jobs[d].by \in Int /\ {"at", "customer", "by"} \subseteq DOMAIN jobs[d]
  BY <1>1, <1>4, <1>5 DEF JobFits
<1>7. j.at = "scoreread" /\ j.customer = c /\ j.by \in Int /\ {"at", "customer", "by"} \subseteq DOMAIN j /\ jobs'[d] = j
  BY <1>1, <1>2, <1>4, <1>5, <1>6 DEF Cust!Does, CustTyped
<1>8. PICK b : b = bought[c]
  OBVIOUS
<1>9. AddUp(b, n, x) /\ (c \notin unsure => n = Len(b))
  BY <1>1, <1>4, <1>5, <1>8 DEF StatsFit
<1>10. n \in Nat /\ x \in Nat
  <2>1. b \in Seq(Amounts) /\ Amounts \subseteq Nat
    BY <1>5, <1>6, <1>8, RecordAssumption DEF CustTyped
  <2> QED BY <1>9, <2>1, AddUpBound
<1>11. customers[c] \in CustomerRow
  BY <1>5, <1>6 DEF CustTyped, Cust!Present
<1>12. row \in CustomerRow /\ row.orders = n /\ row.spent = x
  <2>1. PICK old \in CustomerRow : old = customers[c]
    BY <1>11
  <2>2. row = [old EXCEPT !.orders = n, !.spent = x]
    BY <1>3, <2>1
  <2> QED BY <1>10, <2>1, <2>2 DEF CustomerRow
<1>13. customers'[c] = row
  BY <1>4, <1>5, <1>6 DEF CustTyped
<1>14. FiguresFit(c)'
  BY <1>4, <1>8, <1>9, <1>12, <1>13 DEF FiguresFit
<1>15. Cust!Present(c)'
  <2>1. row # NoCustomer
    BY <1>12, RecordAssumption
  <2> QED BY <1>13, <2>1 DEF Cust!Present
<1>16. JobFits(d)'
  BY <1>6, <1>7, <1>15 DEF JobFits, Entering
<1> QED BY <1>1, <1>4, <1>6, <1>7, <1>12, <1>14, <1>16, ARowChanges

\* A statement of a request fails: a count that is lost is remembered.
LEMMA JobFails ==
  ASSUME CustFit, NEW d \in Desk, Cust!JobFails(d)
  PROVE  CustFit'
<1>1. PICK none : none = Cust!NoJob
  OBVIOUS
<1>2. /\ Cust!Does(d, none) /\ UNCHANGED <<customers, bought, reviews>> /\ jobs[d].at # "none"
      /\ unsure' = IF jobs[d].at = "stats" THEN unsure \cup {jobs[d].customer} ELSE unsure
      /\ spared' = IF jobs[d].at = "hide" THEN spared \cup {jobs[d].review} ELSE spared
  BY <1>1 DEF Cust!JobFails
<1>3. CustTyped /\ JobFits(d)
  BY DEF CustFit
<1>4. DOMAIN jobs' = Desk /\ none.at = "none" /\ jobs'[d] = none /\ \A o \in Desk \ {d} : jobs'[o] = jobs[o]
  BY <1>1, <1>2, <1>3 DEF Cust!Does, Cust!NoJob, CustTyped
<1>5. unsure \subseteq unsure' /\ spared \subseteq spared' /\ unsure' \subseteq Customers
  <2>1. jobs[d].at = "stats" => jobs[d].customer \in Customers
    BY <1>3 DEF JobFits
  <2> QED BY <1>2, <1>3, <2>1 DEF CustTyped
<1>6. \A o \in Customers : Cust!Present(o)' <=> Cust!Present(o)
  BY <1>2 DEF Cust!Present
<1>7. CustTyped'
  <2>1. \A r \in Reviews : reviews'[r] # NoCustomer => Cust!Present(reviews[r].author)'
    BY <1>2, <1>3 DEF CustTyped, Cust!Present
  <2>2. \A o \in Customers : ~Cust!Present(o)' => bought'[o] = <<>>
    BY <1>2, <1>3, <1>6 DEF CustTyped
  <2> QED BY <1>2, <1>3, <1>4, <1>5, <2>1, <2>2 DEF CustTyped
<1>8. \A o \in Desk : JobFits(o)'
  <2>1. JobFits(d)'
    BY <1>4 DEF JobFits, Entering
  <2>2. \A o \in Desk \ {d} : Entering(o) => ~Cust!Present(jobs[o].customer)'
    <3> TAKE o \in Desk \ {d}
    <3>1. JobFits(o) /\ jobs'[o] = jobs[o]
      BY <1>4 DEF CustFit
    <3> QED BY <1>6, <3>1 DEF JobFits, Entering
  <2> QED BY <1>2, <1>4, <1>6, <2>1, <2>2, JobsGo
<1>9. \A o \in Desk : StatsFit(o)'
  BY <1>2, <1>4, <1>5, StatsGo
<1>10. \A o \in Customers : FiguresFit(o)'
  <2> TAKE o \in Customers
  <2>1. jobs[d].at # "stats" \/ jobs[d].customer # o \/ o \in unsure'
    BY <1>2
  <2>2. /\ Cust!Present(o)' => Cust!Present(o)
        /\ Cust!Present(o)' => customers'[o].orders = customers[o].orders
        /\ Cust!Present(o)' => customers'[o].spent = customers[o].spent
    BY <1>2, <1>6
  <2> QED BY <1>2, <1>5, <2>1, <2>2, FiguresGo
<1>11. \A r \in Reviews : ReviewFits(r)'
  <2> TAKE r \in Reviews
  <2>1. ReviewFits(r)
    BY DEF CustFit
  <2>2. \A o \in Desk : Cust!Hides(o, r) => Cust!Hides(o, r)' \/ r \in spared'
    BY <1>2, <1>4 DEF Cust!Hides
  <2> QED BY <1>2, <1>5, <2>1, <2>2, ReviewStays
<1> QED BY <1>7, <1>8, <1>9, <1>10, <1>11 DEF CustFit

\* A customer goes, its orders and its reviews with it.
LEMMA DeleteCustomer ==
  ASSUME CustFit, NEW c \in Customers, Cust!DeleteCustomer(c)
  PROVE  CustFit'
<1>1. CustTyped /\ \A o \in Desk : JobFits(o) /\ StatsFit(o)
  BY DEF CustFit
<1>2. /\ Cust!Present(c) /\ ~(\E d \in Desk : Cust!IsAt(d, {"update", "stats", "scoreread", "score"}, c))
      /\ customers' = [customers EXCEPT ![c] = NoCustomer] /\ bought' = [bought EXCEPT ![c] = <<>>] /\ unsure' = unsure \ {c}
      /\ reviews' = [r \in Reviews |-> IF reviews[r] # NoCustomer /\ reviews[r].author = c THEN NoCustomer ELSE reviews[r]]
      /\ jobs' = jobs /\ spared' = spared
  BY DEF Cust!DeleteCustomer
<1>3. /\ customers'[c] = NoCustomer /\ bought'[c] = <<>>
      /\ \A o \in Customers \ {c} : customers'[o] = customers[o] /\ bought'[o] = bought[o]
  BY <1>1, <1>2 DEF CustTyped
<1>4. \A o \in Customers : Cust!Present(o)' <=> o # c /\ Cust!Present(o)
  BY <1>3 DEF Cust!Present
<1>5. CustTyped'
  <2>1. bought' \in [Customers -> Seq(Amounts)]
    <3>1. <<>> \in Seq(Amounts)
      BY EmptySeq
    <3> QED BY <1>1, <1>2, <3>1 DEF CustTyped
  <2>2. customers' \in [Customers -> CustomerRow \cup {NoCustomer}] /\ reviews' \in [Reviews -> ReviewRow \cup {NoCustomer}]
    BY <1>1, <1>2 DEF CustTyped
  <2>3. \A o \in Customers : ~Cust!Present(o)' => bought'[o] = <<>>
    BY <1>1, <1>3, <1>4 DEF CustTyped
  <2>4. ASSUME NEW r \in Reviews, reviews'[r] # NoCustomer PROVE Cust!Present(reviews[r].author)'
    <3>1. reviews[r] # NoCustomer /\ reviews[r].author # c /\ reviews'[r] = reviews[r]
      BY <1>2, <2>4
    <3>2. reviews[r].author \in Customers /\ Cust!Present(reviews[r].author)
      BY <1>1, <3>1 DEF CustTyped, ReviewRow
    <3> QED BY <1>4, <3>1, <3>2
  <2> QED BY <1>1, <1>2, <2>1, <2>2, <2>3, <2>4 DEF CustTyped
<1>6. ASSUME NEW o \in Desk PROVE JobFits(o)' /\ StatsFit(o)'
  <2>1. JobFits(o) /\ StatsFit(o) /\ jobs'[o] = jobs[o]
    BY <1>1, <1>2
  <2>2. jobs[o].at \in {"update", "stats", "scoreread", "score"} => jobs[o].customer \in Customers \ {c}
    BY <1>2, <2>1 DEF JobFits, Cust!IsAt
  <2>3. jobs[o].at \in {"update", "stats", "scoreread", "score"} => Cust!Present(jobs[o].customer)'
    BY <1>2, <1>4, <2>1, <2>2 DEF JobFits
  <2>4. Entering(o) => ~Cust!Present(jobs[o].customer)'
    BY <1>2, <1>4, <2>1 DEF JobFits, Entering
  <2>5. JobFits(o)'
    BY <1>2, <2>1, <2>3, <2>4, JobStays
  <2>6. jobs[o].at = "stats" => bought'[jobs[o].customer] = bought[jobs[o].customer]
    BY <1>3, <2>2
  <2>7. jobs[o].at = "stats" /\ jobs[o].customer \in unsure => jobs[o].customer \in unsure'
    BY <1>2, <2>2
  <2>8. StatsFit(o)'
    BY <1>2, <2>1, <2>6, <2>7, StatsStay
  <2> QED BY <2>5, <2>8
<1>7. ASSUME NEW o \in Customers PROVE FiguresFit(o)'
  <2>1. CASE o = c
    BY <1>4, <2>1 DEF FiguresFit
  <2>2. CASE o # c
    <3>1. FiguresFit(o) /\ customers'[o] = customers[o] /\ bought'[o] = bought[o] /\ (o \in unsure => o \in unsure')
      BY <1>2, <1>3, <2>2 DEF CustFit
    <3>2. \A e \in Desk : Cust!IsAt(e, {"stats"}, o) => Cust!IsAt(e, {"stats"}, o)' \/ o \in unsure'
      BY <1>2 DEF Cust!IsAt
    <3>3. Cust!Present(o)' => Cust!Present(o)
      BY <1>4
    <3> QED BY <3>1, <3>2, <3>3, FiguresStay
  <2> QED BY <2>1, <2>2
<1>8. ASSUME NEW r \in Reviews PROVE ReviewFits(r)'
  <2>1. ReviewFits(r)
    BY DEF CustFit
  <2>2. CASE reviews'[r] = NoCustomer
    BY <2>2 DEF ReviewFits
  <2>3. CASE reviews'[r] # NoCustomer
    <3>1. reviews'[r] = reviews[r]
      BY <1>2, <2>3
    <3>2. \A o \in Desk : Cust!Hides(o, r) => Cust!Hides(o, r)' \/ r \in spared'
      BY <1>2 DEF Cust!Hides
    <3> QED BY <1>2, <2>1, <3>1, <3>2, ReviewStays
  <2> QED BY <2>2, <2>3
<1> QED BY <1>5, <1>6, <1>7, <1>8 DEF CustFit

\* A step that is about reviews alone leaves the customers and their figures.
LEMMA OnlyReviews ==
  ASSUME CustFit, UNCHANGED <<customers, bought, unsure>>, DOMAIN jobs' = Desk,
         \A o \in Desk : jobs'[o] = jobs[o] \/ (jobs[o].at # "stats" /\ jobs'[o].at \in {"none", "hide"}),
         reviews' \in [Reviews -> ReviewRow \cup {NoCustomer}],
         \A r \in Reviews : reviews'[r] # NoCustomer => Cust!Present(reviews'[r].author),
         \A r \in Reviews : ReviewFits(r)'
  PROVE  CustFit'
<1>1. CustTyped
  BY DEF CustFit
<1>2. CustTyped'
  BY <1>1 DEF CustTyped, Cust!Present
<1>3. \A o \in Desk : JobFits(o)'
  <2> TAKE o \in Desk
  <2>1. CASE jobs'[o] = jobs[o]
    <3>1. JobFits(o)
      BY DEF CustFit
    <3>2. jobs[o].at \in {"update", "stats", "scoreread", "score"} => Cust!Present(jobs[o].customer)'
      BY <2>1, <3>1 DEF JobFits, Cust!Present
    <3>3. Entering(o) => ~Cust!Present(jobs[o].customer)'
      BY <2>1, <3>1 DEF JobFits, Cust!Present
    <3>4. \A e \in Desk : Entering(e)' /\ Entering(o) => e = o \/ jobs'[e] = jobs[e] \/ jobs'[e].customer # jobs[o].customer
      BY DEF Entering
    <3> QED BY <2>1, <3>1, <3>2, <3>3, <3>4, JobStays
  <2>2. CASE jobs'[o] # jobs[o]
    BY <2>2 DEF JobFits, Entering
  <2> QED BY <2>1, <2>2
<1>4. \A o \in Desk : StatsFit(o)'
  <2> TAKE o \in Desk
  <2>1. CASE jobs'[o] = jobs[o]
    <3>1. StatsFit(o)
      BY DEF CustFit
    <3>2. \A e \in Desk : jobs'[e].at = "stats" => jobs'[e] = jobs[e]
      OBVIOUS
    <3> QED BY <2>1, <3>1, <3>2, StatsStay
  <2>2. CASE jobs'[o] # jobs[o]
    BY <2>2 DEF StatsFit
  <2> QED BY <2>1, <2>2
<1>5. \A c \in Customers : FiguresFit(c)'
  <2> TAKE c \in Customers
  <2>1. FiguresFit(c)
    BY DEF CustFit
  <2>2. \A e \in Desk : Cust!IsAt(e, {"stats"}, c) => Cust!IsAt(e, {"stats"}, c)' \/ c \in unsure'
    BY DEF Cust!IsAt
  <2>3. Cust!Present(c)' => Cust!Present(c)
    BY DEF Cust!Present
  <2> QED BY <2>1, <2>2, <2>3, FiguresStay
<1> QED BY <1>2, <1>3, <1>4, <1>5 DEF CustFit

LEMMA ReviewAnew ==
  ASSUME NEW old \in ReviewRow, NEW row
  PROVE  /\ row = [old EXCEPT !.reports = old.reports + 1] =>
              row \in ReviewRow /\ row.author = old.author /\ row.reports = old.reports + 1 /\ row.published = old.published
         /\ \A b \in BOOLEAN : row = [old EXCEPT !.published = b] =>
              row \in ReviewRow /\ row.author = old.author /\ row.reports = old.reports /\ row.published = b
BY DEF ReviewRow

\* Review r becomes row, or is no more.
LEMMA AReview ==
  ASSUME CustFit, UNCHANGED <<customers, bought, unsure>>, DOMAIN jobs' = Desk,
         \A o \in Desk : jobs'[o] = jobs[o] \/ (jobs[o].at # "stats" /\ jobs'[o].at \in {"none", "hide"}),
         NEW r \in Reviews, NEW row \in ReviewRow \cup {NoCustomer}, reviews' = [reviews EXCEPT ![r] = row],
         row # NoCustomer => Cust!Present(row.author), ReviewFits(r)', spared \subseteq spared',
         \A o \in Desk : \A x \in Reviews \ {r} : Cust!Hides(o, x) => jobs'[o] = jobs[o] \/ x \in spared'
  PROVE  CustFit'
<1>1. CustTyped
  BY DEF CustFit
<1>2. reviews'[r] = row /\ \A x \in Reviews \ {r} : reviews'[x] = reviews[x]
  BY <1>1 DEF CustTyped
<1>3. reviews' \in [Reviews -> ReviewRow \cup {NoCustomer}]
  BY <1>1 DEF CustTyped
<1>4. \A x \in Reviews : reviews'[x] # NoCustomer => Cust!Present(reviews'[x].author)
  BY <1>1, <1>2 DEF CustTyped
<1>5. \A x \in Reviews : ReviewFits(x)'
  <2> TAKE x \in Reviews
  <2>1. CASE x # r
    <3>1. ReviewFits(x) /\ reviews'[x] = reviews[x]
      BY <1>2, <2>1 DEF CustFit
    <3>2. \A o \in Desk : Cust!Hides(o, x) => Cust!Hides(o, x)' \/ x \in spared'
      BY <2>1 DEF Cust!Hides
    <3> QED BY <3>1, <3>2, ReviewStays
  <2>2. CASE x = r
    BY <2>2
  <2> QED BY <2>1, <2>2
<1> QED BY <1>3, <1>4, <1>5, OnlyReviews

LEMMA CreateReview ==
  ASSUME CustFit, NEW r \in Reviews, NEW c \in Customers, Cust!CreateReview(r, c)
  PROVE  CustFit'
<1>1. PICK row : row = [author |-> c, reports |-> 0, published |-> TRUE, verified |-> FALSE]
  OBVIOUS
<1>2. /\ reviews' = [reviews EXCEPT ![r] = row] /\ UNCHANGED <<customers, jobs, bought, unsure, spared>> /\ Cust!Present(c)
  BY <1>1 DEF Cust!CreateReview
<1>3. row \in ReviewRow /\ row.reports = 0 /\ row.author = c
  BY <1>1 DEF ReviewRow
<1>4. CustTyped
  BY DEF CustFit
<1>5. ReviewFits(r)'
  <2>1. reviews'[r] = row
    BY <1>2, <1>4 DEF CustTyped
  <2>2. ~(0 >= ReportLimit)
    BY RecordAssumption
  <2> QED BY <1>3, <2>1, <2>2 DEF ReviewFits
<1>6. Cust!Present(row.author)
  BY <1>2, <1>3
<1>7. DOMAIN jobs' = Desk /\ \A o \in Desk : jobs'[o] = jobs[o]
  BY <1>2, <1>4 DEF CustTyped
<1> QED BY <1>2, <1>3, <1>5, <1>6, <1>7, AReview

LEMMA DeleteReview ==
  ASSUME CustFit, NEW r \in Reviews, Cust!DeleteReview(r)
  PROVE  CustFit'
<1>1. /\ reviews' = [reviews EXCEPT ![r] = NoCustomer] /\ UNCHANGED <<customers, jobs, bought, unsure, spared>>
  BY DEF Cust!DeleteReview
<1>2. CustTyped
  BY DEF CustFit
<1>3. ReviewFits(r)'
  BY <1>1, <1>2 DEF ReviewFits, CustTyped
<1>4. DOMAIN jobs' = Desk /\ \A o \in Desk : jobs'[o] = jobs[o]
  BY <1>1, <1>2 DEF CustTyped
<1> QED BY <1>1, <1>3, <1>4, AReview

\* The staff publishes a review, which is then spared, or hides it.
LEMMA Moderate ==
  ASSUME CustFit, NEW r \in Reviews, Cust!Moderate(r)
  PROVE  CustFit'
<1>1. PICK b \in BOOLEAN :
        /\ reviews' = [reviews EXCEPT ![r].published = b]
        /\ spared' = IF b /\ reviews[r].reports >= ReportLimit THEN spared \cup {r} ELSE spared
  BY DEF Cust!Moderate
<1>2. reviews[r] # NoCustomer /\ UNCHANGED <<customers, jobs, bought, unsure>>
  BY DEF Cust!Moderate
<1>3. CustTyped
  BY DEF CustFit
<1>4. PICK old \in ReviewRow : old = reviews[r]
  BY <1>2, <1>3 DEF CustTyped
<1>5. PICK row : row = [old EXCEPT !.published = b]
  OBVIOUS
<1>6. row \in ReviewRow /\ row.author = old.author /\ row.reports = old.reports /\ row.published = b
  BY <1>4, <1>5, ReviewAnew
<1>7. reviews' = [reviews EXCEPT ![r] = row]
  BY <1>1, <1>4, <1>5
<1>8. reviews'[r] = row
  BY <1>3, <1>7 DEF CustTyped
<1>9. ReviewFits(r)'
  <2>1. SUFFICES ASSUME r \notin spared', reviews'[r].reports >= ReportLimit PROVE ~b
    BY <1>6, <1>8 DEF ReviewFits
  <2>2. old.reports >= ReportLimit
    BY <1>6, <1>8, <2>1
  <2>3. b => spared' = spared \cup {r}
    BY <1>1, <1>4, <2>2
  <2> QED BY <2>1, <2>3
<1>10. Cust!Present(row.author)
  BY <1>2, <1>3, <1>4, <1>6 DEF CustTyped
<1>11. DOMAIN jobs' = Desk /\ \A o \in Desk : jobs'[o] = jobs[o]
  BY <1>2, <1>3 DEF CustTyped
<1>12. spared \subseteq spared'
  BY <1>1
<1> QED BY <1>2, <1>6, <1>7, <1>9, <1>10, <1>11, <1>12, AReview

\* A review is hidden by the request that passed the limit.
LEMMA HideReview ==
  ASSUME CustFit, NEW d \in Desk, Cust!HideReview(d)
  PROVE  CustFit'
<1>1. PICK none, r : none = Cust!NoJob /\ r = jobs[d].review
  OBVIOUS
<1>2. /\ jobs[d].at = "hide" /\ Cust!Does(d, none) /\ UNCHANGED <<customers, bought, unsure, spared>>
      /\ reviews' = IF reviews[r] = NoCustomer THEN reviews ELSE [reviews EXCEPT ![r].published = FALSE]
  BY <1>1 DEF Cust!HideReview
<1>3. CustTyped
  BY DEF CustFit
<1>4. /\ DOMAIN jobs' = Desk /\ none.at = "none" /\ jobs'[d] = none /\ \A o \in Desk \ {d} : jobs'[o] = jobs[o]
  BY <1>1, <1>2, <1>3 DEF Cust!Does, Cust!NoJob, CustTyped
<1>5. \A o \in Desk : jobs'[o] = jobs[o] \/ (jobs[o].at # "stats" /\ jobs'[o].at \in {"none", "hide"})
  BY <1>2, <1>4
<1>6. \A o \in Desk : \A x \in Reviews \ {r} : Cust!Hides(o, x) => jobs'[o] = jobs[o] \/ x \in spared'
  BY <1>1, <1>4 DEF Cust!Hides
<1>7. CASE r \in Reviews /\ reviews[r] # NoCustomer
  <2>1. PICK old \in ReviewRow : old = reviews[r]
    BY <1>3, <1>7 DEF CustTyped
  <2>2. PICK row : row = [old EXCEPT !.published = FALSE]
    OBVIOUS
  <2>3. row \in ReviewRow /\ row.author = old.author /\ row.reports = old.reports /\ row.published = FALSE
    BY <2>1, <2>2, ReviewAnew
  <2>4. reviews' = [reviews EXCEPT ![r] = row]
    BY <1>2, <1>7, <2>1, <2>2
  <2>5. reviews'[r] = row
    BY <1>3, <1>7, <2>4 DEF CustTyped
  <2>6. ReviewFits(r)'
    BY <2>3, <2>5 DEF ReviewFits
  <2>7. Cust!Present(row.author)
    BY <1>3, <1>7, <2>1, <2>3 DEF CustTyped
  <2> QED BY <1>2, <1>4, <1>5, <1>6, <1>7, <2>3, <2>4, <2>6, <2>7, AReview
<1>8. CASE ~(r \in Reviews /\ reviews[r] # NoCustomer)
  <2>1. \A x \in Reviews : reviews'[x] = reviews[x]
    BY <1>2, <1>3, <1>8 DEF CustTyped
  <2>2. reviews' \in [Reviews -> ReviewRow \cup {NoCustomer}]
    BY <1>2, <1>3, <1>8 DEF CustTyped
  <2>3. \A x \in Reviews : reviews'[x] # NoCustomer => Cust!Present(reviews'[x].author)
    BY <1>3, <2>1 DEF CustTyped
  <2>4. \A x \in Reviews : ReviewFits(x)'
    <3> TAKE x \in Reviews
    <3>1. CASE reviews[x] = NoCustomer
      BY <2>1, <3>1 DEF ReviewFits
    <3>2. CASE reviews[x] # NoCustomer
      <4>1. ReviewFits(x) /\ x # r
        BY <1>8, <3>2 DEF CustFit
      <4>2. \A o \in Desk : Cust!Hides(o, x) => Cust!Hides(o, x)' \/ x \in spared'
        BY <1>6, <4>1 DEF Cust!Hides
      <4> QED BY <1>2, <2>1, <4>1, <4>2, ReviewStays
    <3> QED BY <3>1, <3>2
  <2> QED BY <1>2, <1>4, <1>5, <2>2, <2>3, <2>4, OnlyReviews
<1> QED BY <1>7, <1>8

\* A report is counted; the one that reaches the limit is to hide the review.
LEMMA Report ==
  ASSUME CustFit, NEW d \in Desk, NEW r \in Reviews, Cust!Report(d, r)
  PROVE  CustFit'
<1>1. PICK j : j = [at |-> "hide", review |-> r]
  OBVIOUS
<1>2. /\ Cust!Free(d) /\ reviews[r] # NoCustomer /\ UNCHANGED <<customers, bought, unsure, spared>>
      /\ reviews' = [reviews EXCEPT ![r].reports = @ + 1]
      /\ IF reviews'[r].reports >= ReportLimit THEN Cust!Does(d, j) ELSE jobs' = jobs
  BY <1>1 DEF Cust!Report
<1>3. CustTyped
  BY DEF CustFit
<1>4. PICK old \in ReviewRow : old = reviews[r]
  BY <1>2, <1>3 DEF CustTyped
<1>5. PICK row : row = [old EXCEPT !.reports = old.reports + 1]
  OBVIOUS
<1>6. row \in ReviewRow /\ row.author = old.author
  BY <1>4, <1>5, ReviewAnew
<1>7. reviews' = [reviews EXCEPT ![r] = row]
  BY <1>2, <1>4, <1>5
<1>8. reviews'[r] = row
  BY <1>3, <1>7 DEF CustTyped
<1>9. /\ DOMAIN jobs' = Desk /\ \A o \in Desk \ {d} : jobs'[o] = jobs[o]
      /\ jobs'[d] = jobs[d] \/ jobs'[d] = j
      /\ reviews'[r].reports >= ReportLimit => jobs'[d] = j
  BY <1>2, <1>3 DEF Cust!Does, CustTyped
<1>10. jobs[d].at = "none" /\ j.at = "hide" /\ j.review = r
  BY <1>1, <1>2 DEF Cust!Free, Cust!NoJob
<1>11. ReviewFits(r)'
  BY <1>9, <1>10 DEF ReviewFits, Cust!Hides
<1>12. Cust!Present(row.author)
  BY <1>2, <1>3, <1>4, <1>6 DEF CustTyped
<1>13. \A o \in Desk : jobs'[o] = jobs[o] \/ (jobs[o].at # "stats" /\ jobs'[o].at \in {"none", "hide"})
  BY <1>9, <1>10
<1>14. \A o \in Desk : \A x \in Reviews \ {r} : Cust!Hides(o, x) => jobs'[o] = jobs[o] \/ x \in spared'
  BY <1>9, <1>10 DEF Cust!Hides
<1> QED BY <1>2, <1>6, <1>7, <1>9, <1>11, <1>12, <1>13, <1>14, AReview

\* The service keeps its word about every customer and every review.
LEMMA CustKept ==
  ASSUME CustInv, [Cust!Next]_customerVars
  PROVE  CustInv'
<1>1. CustFit
  BY CustFits
<1>2. CASE UNCHANGED customerVars
  <2>1. UNCHANGED <<customers, jobs, bought, unsure, reviews, spared>>
    BY <1>2 DEF customerVars
  <2>2. \A o \in Desk : JobFits(o)' /\ StatsFit(o)'
    BY <1>1, <2>1 DEF CustFit, JobFits, StatsFit, Entering, Cust!Present, Cust!IsAt
  <2>3. (\A c \in Customers : FiguresFit(c)') /\ \A r \in Reviews : ReviewFits(r)'
    BY <1>1, <2>1 DEF CustFit, FiguresFit, ReviewFits, Cust!Present, Cust!IsAt, Cust!Hides
  <2>4. CustTyped'
    BY <1>1, <2>1 DEF CustFit, CustTyped, Cust!Present
  <2>5. CustFit'
    BY <2>2, <2>3, <2>4 DEF CustFit
  <2> QED BY <2>5, CustFitsNext
<1>3. CASE Cust!CustomerNext
  <2>1. ASSUME NEW d \in Desk, \/ Cust!InsertCustomer(d) \/ Cust!UpdateCustomer(d) \/ Cust!WriteStats(d)
                               \/ Cust!ReadScore(d) \/ Cust!WriteScore(d) \/ Cust!JobFails(d)
        PROVE  CustFit'
    BY <1>1, <2>1, InsertCustomer, UpdateCustomer, WriteStats, ReadScore, WriteScore, JobFails
  <2>2. ASSUME NEW d \in Desk, NEW c \in Customers,
               Cust!AskCreate(d, c) \/ Cust!ImportCustomer(d, c) \/ Cust!AskUpdate(d, c) \/ Cust!CountOrder(d, c) \/ Cust!AskScore(d, c)
        PROVE  CustFit'
    <3>1. CASE Cust!AskCreate(d, c)
      BY <1>1, <3>1, Enters DEF Cust!AskCreate
    <3>2. CASE Cust!ImportCustomer(d, c)
      BY <1>1, <3>2, Enters DEF Cust!ImportCustomer
    <3> QED BY <1>1, <2>2, <3>1, <3>2, AskUpdate, CountOrder, AskScore, RecordAssumption
  <2>3. ASSUME NEW c \in Customers, Cust!DeleteCustomer(c) PROVE CustFit'
    BY <1>1, <2>3, DeleteCustomer
  <2>4. CustFit'
    BY <1>3, <2>1, <2>2, <2>3 DEF Cust!CustomerNext
  <2> QED BY <2>4, CustFitsNext
<1>4. CASE Cust!ReviewNext
  <2>1. ASSUME NEW d \in Desk, Cust!HideReview(d) \/ \E r \in Reviews : Cust!Report(d, r) PROVE CustFit'
    BY <1>1, <2>1, HideReview, Report
  <2>2. ASSUME NEW r \in Reviews, Cust!Moderate(r) \/ Cust!DeleteReview(r) \/ \E c \in Customers : Cust!CreateReview(r, c) PROVE CustFit'
    BY <1>1, <2>2, Moderate, DeleteReview, CreateReview
  <2>3. CustFit'
    BY <1>4, <2>1, <2>2 DEF Cust!ReviewNext
  <2> QED BY <2>3, CustFitsNext
<1> QED BY <1>2, <1>3, <1>4 DEF Cust!Next

\* What the checked properties of the service say follows.
LEMMA CustAccounted ==
  ASSUME CustInv
  PROVE  Cust!TypeOK /\ Cust!FiguresBelongTogether /\ Cust!ReportedIsHidden
<1>1. CustFit /\ CustTyped
  BY CustFits DEF CustInv
<1>2. ASSUME NEW c \in Customers, Cust!Present(c) PROVE customers[c].score \in 0..100 /\ customers[c].orders <= Len(bought[c])
  <2>1. customers[c] \in CustomerRow /\ bought[c] \in Seq(Amounts)
    BY <1>1, <1>2 DEF CustTyped, Cust!Present
  <2>2. AddUp(bought[c], customers[c].orders, customers[c].spent)
    BY <1>1, <1>2 DEF CustFit, FiguresFit
  <2>3. Amounts \subseteq Nat
    BY RecordAssumption
  <2>4. customers[c].orders <= Len(bought[c])
    BY <2>1, <2>2, <2>3, AddUpBound
  <2> QED BY <2>1, <2>4, RowParts
<1>3. Cust!TypeOK
  BY <1>1, <1>2 DEF Cust!TypeOK, CustTyped
<1> QED BY <1>3 DEF CustInv

-----------------------------------------------------------------------------
(* The whole                                                               *)

\* Each part starts as its invariant says.
LEMMA BackStarts == Init => BackInv
<1> SUFFICES ASSUME Init PROVE BackInv
  OBVIOUS
<1>1. /\ Tmpl!Init /\ Lead!Init /\ Inbox!Init /\ Out!Init /\ Insta!Init /\ Pace!Init /\ Aud!Init
      /\ Cust!Init /\ Tree!Init /\ Prod!Init /\ List!Init /\ Sale!Init /\ Stock!Init /\ House!Init /\ Acct!Init
  BY DEF Init
<1>2. /\ TmplInv /\ LeadInv /\ InboxInv /\ OutInv /\ IgInv /\ PaceInv /\ AudInv
  BY <1>1, TmplStarts, LeadStarts, InboxStarts, OutStarts, IgStarts, PaceStarts, AudStarts
<1>3. TmplTyped /\ ThreadTyped /\ PostTyped /\ IgLinked
  BY <1>1, TmplTypedStarts, ThreadTypedStarts, PostTypedStarts, IgLinkedStarts
<1>4. LeadTyped
  BY <1>1 DEF Lead!Init, LeadTyped
<1>5. CustInv
  BY <1>1, RecordAssumption, CustStarts
<1>6. TreeInv /\ ProdInv /\ ListInv /\ SaleInv /\ StockInv /\ HouseInv /\ AcctInv
  BY <1>1, TreeStarts, ProdStarts, ListStarts, SaleStarts, StockStarts, HouseStarts, AcctStarts
<1> QED
  BY <1>2, <1>3, <1>4, <1>5, <1>6 DEF BackInv

\* The part that moves keeps its invariant; those that rest have nothing to keep.
LEMMA BackKept ==
  ASSUME BackInv, [Next]_vars
  PROVE  BackInv'
<1>1. part' = part
  BY DEF Next, vars, Only
<1>2. part = "templates" => TmplInv' /\ TmplTyped'
  <2>1. part = "templates" => [Tmpl!Next]_templateVars
    BY DEF Next, vars, Only
  <2> QED BY <2>1, TmplKept, TmplTypedKept DEF BackInv
<1>3. part = "leads" => LeadInv' /\ LeadTyped'
  <2>1. part = "leads" => [Lead!Next]_deskVars
    BY DEF Next, vars, Only
  <2> QED BY <2>1, LeadKept, LeadTypedKept DEF BackInv
<1>4. part = "inbox" => InboxInv' /\ ThreadTyped'
  <2>1. part = "inbox" => [Inbox!Next]_inboxVars
    BY DEF Next, vars, Only
  <2> QED BY <2>1, InboxKept, ThreadTypedKept DEF BackInv
<1>5. part = "outbound" => OutInv' /\ PostTyped'
  <2>1. part = "outbound" => [Out!Next]_postVars
    BY DEF Next, vars, Only
  <2> QED BY <2>1, OutKept, PostTypedKept DEF BackInv
<1>6. part = "instagram" => IgInv' /\ IgLinked'
  <2>1. part = "instagram" => [Insta!Next]_igVars
    BY DEF Next, vars, Only
  <2> QED BY <2>1, IgKept, IgLinkedKept DEF BackInv
<1>7. part = "customers" => CustInv'
  <2>1. part = "customers" => [Cust!Next]_customerVars
    BY DEF Next, vars, Only
  <2> QED BY <2>1, CustKept DEF BackInv
<1>8. part = "categories" => TreeInv'
  <2>1. part = "categories" => [Tree!Next]_treeVars
    BY DEF Next, vars, Only
  <2> QED BY <2>1, TreeKept DEF BackInv
<1>9. part = "products" => ProdInv'
  <2>1. part = "products" => [Prod!Next]_goodsVars
    BY DEF Next, vars, Only
  <2> QED BY <2>1, ProdKept DEF BackInv
<1>10. part = "listings" => ListInv'
  <2>1. part = "listings" => [List!Next]_listVars
    BY DEF Next, vars, Only
  <2> QED BY <2>1, ListKept DEF BackInv
<1>11. part = "sales" => SaleInv'
  <2>1. part = "sales" => [Sale!Next]_reportVars
    BY DEF Next, vars, Only
  <2> QED BY <2>1, SaleKept DEF BackInv
<1>12. part = "stock" => StockInv'
  <2>1. part = "stock" => [Stock!Next]_stockReportVars
    BY DEF Next, vars, Only
  <2> QED BY <2>1, StockKept DEF BackInv
<1>13. part = "warehouses" => HouseInv'
  <2>1. part = "warehouses" => [House!Next]_houseVars
    BY DEF Next, vars, Only
  <2> QED BY <2>1, HouseKept DEF BackInv
<1>14. part = "pace" => PaceInv'
  <2>1. part = "pace" => [Pace!Next]_paceVars
    BY DEF Next, vars, Only
  <2> QED BY <2>1, PaceKept DEF BackInv
<1>15. part = "audience" => AudInv'
  <2>1. part = "audience" => [Aud!Next]_audienceVars
    BY DEF Next, vars, Only
  <2> QED BY <2>1, AudKept DEF BackInv
<1>16. part = "accounts" => AcctInv'
  <2>1. part = "accounts" => [Acct!Next]_accountVars
    BY DEF Next, vars, Only
  <2> QED BY <2>1, AcctKept DEF BackInv
<1> QED
  BY <1>1, <1>2, <1>3, <1>4, <1>5, <1>6, <1>7, <1>8, <1>9, <1>10, <1>11, <1>12, <1>13, <1>14, <1>15, <1>16 DEF BackInv

\* What the invariant says of messages.
LEMMA BackAccounted == BackInv => MessagesAreAccounted
<1> SUFFICES ASSUME BackInv PROVE MessagesAreAccounted
  OBVIOUS
<1>1. part = "templates" => Tmpl!CheckedIsValid /\ Tmpl!PreviewIsComplete
  BY CheckedIsPreviewed DEF BackInv, TmplInv
<1>2. part = "leads" => Lead!DuplicatesAreFound /\ Lead!StatusIsExplained
  BY DEF BackInv, LeadInv
<1>3. part = "inbox" => Inbox!LastIsLatest /\ Inbox!LastIsAMessage
  BY InboxAccounted DEF BackInv
<1>4. part = "outbound" => Out!ShownIsFurthest
  BY OutAccounted DEF BackInv
<1>5. part = "instagram" => Insta!CommentsAnsweredOnce /\ Insta!DroppedHaveCrossed
  BY IgAccounted DEF BackInv
<1>6. part = "pace" => Pace!PaceIsKept
  BY DEF BackInv, PaceInv
<1>7. part = "audience" => Aud!PreviewCovers
  BY AudAccounted DEF BackInv
<1> QED
  BY <1>1, <1>2, <1>3, <1>4, <1>5, <1>6, <1>7 DEF MessagesAreAccounted

\* What the invariant says of the records.
LEMMA BackAgrees == BackInv => RecordsAgree
<1> SUFFICES ASSUME BackInv PROVE RecordsAgree
  OBVIOUS
<1>1. part = "customers" => Cust!FiguresBelongTogether /\ Cust!ReportedIsHidden
  BY CustAccounted DEF BackInv
<1>2. part = "categories" => Tree!TreeIsSound
  BY TreeAccounted DEF BackInv
<1>3. part = "products" => Prod!SkusDiffer /\ Prod!PricesMakeSense /\ Prod!SyncingIsWorkedOn
  BY ProdAccounted DEF BackInv
<1>4. part = "listings" => List!NothingIsMissed
  BY ListAccounted DEF BackInv
<1>5. part = "sales" => Sale!FiguresAgree
  BY SaleAccounted DEF BackInv
<1>6. part = "stock" => Stock!ValueIsOfStock /\ Stock!StockFiguresAgree
  BY StockAccounted DEF BackInv
<1>7. part = "warehouses" => House!UpdatesAreKept /\ House!FlagsAreAsMade
  BY DEF BackInv, HouseInv
<1>8. part = "accounts" => Acct!TokensStayFresh /\ Acct!NumberIsLinkedOnce
  BY AcctAccounted DEF BackInv
<1> QED
  BY <1>1, <1>2, <1>3, <1>4, <1>5, <1>6, <1>7, <1>8 DEF RecordsAgree

\* What the invariant says of the variables.
LEMMA BackTyped == BackInv => TypeOK
<1> SUFFICES ASSUME BackInv PROVE TypeOK
  OBVIOUS
<1>1. part = "templates" => Tmpl!TypeOK
  BY DEF BackInv, TmplTyped, Tmpl!TypeOK
<1>2. part = "leads" => Lead!TypeOK
  BY LeadTypedAccounted DEF BackInv
<1>3. part = "inbox" => Inbox!TypeOK
  BY ThreadTypedAccounted DEF BackInv
<1>4. part = "outbound" => Out!TypeOK
  BY PostTypedAccounted DEF BackInv
<1>5. part = "instagram" => Insta!TypeOK
  BY IgLinkedAccounted DEF BackInv
<1>6. part = "customers" => Cust!TypeOK
  BY CustAccounted DEF BackInv
<1>7. part = "categories" => Tree!TypeOK
  BY TreeAccounted DEF BackInv
<1>8. part = "products" => Prod!TypeOK
  BY ProdAccounted DEF BackInv
<1>9. part = "listings" => List!TypeOK
  BY ListAccounted DEF BackInv
<1> QED
  BY <1>1, <1>2, <1>3, <1>4, <1>5, <1>6, <1>7, <1>8, <1>9 DEF TypeOK

\* Every step of every service keeps its invariant: a template that was checked
\* can be sent, a duplicate lead is found, the inbox lists the latest message, a
\* delivery status is the furthest, a comment is answered once, posts keep their
\* distance and a preview covers who is written to, for any number of rows,
\* clerks, handlers and callers and any interleaving of them.
THEOREM ServicesKeepTheirWord == Spec => []MessagesAreAccounted
<1>1. Init => BackInv
  BY BackStarts
<1>2. BackInv /\ [Next]_vars => BackInv'
  BY BackKept
<1>3. BackInv => MessagesAreAccounted
  BY BackAccounted
<1> QED
  BY <1>1, <1>2, <1>3, PTL DEF Spec

\* The records agree with themselves and with what happened: a customer's figures
\* are those of some of his orders, the tree of categories is sound, SKUs differ
\* and prices make sense, a list misses nothing, the figures of a report fit
\* together, the value of the stock is of the stock, what was updated is kept and
\* tokens stay fresh, for any number of rows and requests, any history of orders
\* and any interleaving; each but for the races and failures its module names.
THEOREM RecordsAreKept == Spec => []RecordsAgree
<1>1. Init => BackInv
  BY BackStarts
<1>2. BackInv /\ [Next]_vars => BackInv'
  BY BackKept
<1>3. BackInv => RecordsAgree
  BY BackAgrees
<1> QED
  BY <1>1, <1>2, <1>3, PTL DEF Spec

\* Every service keeps its rows what they are meant to be: those of templates,
\* leads, conversations, messages, contexts of Instagram, customers, categories
\* and products, and what a reader of a list has been shown.
THEOREM ServicesKeepTheirTypes == Spec => []TypeOK
<1>1. Init => BackInv
  BY BackStarts
<1>2. BackInv /\ [Next]_vars => BackInv'
  BY BackKept
<1>3. BackInv => TypeOK
  BY BackTyped
<1> QED
  BY <1>1, <1>2, <1>3, PTL DEF Spec
=============================================================================

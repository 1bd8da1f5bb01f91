----------------------------- MODULE RecordDesks -------------------------------
(***************************************************************************)
(* The eight services of Backoffice that keep the books of the business,   *)
(* each a module of its own, and what every step of each keeps.            *)
(***************************************************************************)
EXTENDS Integers, FiniteSets, Sequences

CONSTANTS
  \* CustomerDesk
  Customers, NoCustomer, Mobiles, Emails, Amounts, Desk, Reviews, ScoreDeltas, ReportLimit, MaxOrders,
  MaxReports,
  \* CategoryTree
  Categories, NoCategory, Slugs, Keepers, MaxLevel, MaxPath, MaxEdits,
  \* ProductDesk
  Products, NoProduct, Skus, NoSku, Prices, NoPrice, Errands, GoodsPatches, MaxErrands,
  \* Listings
  NoItemRow, Shapes, Queries, MaxTicks,
  \* SalesReports
  Sales, Buyers, NoSale, NoReport, Histories, Databases, Today, WeekDays, MonthDays, MaxShifts,
  \* StockReports
  Shelves, Lots, UnitCosts, ReorderAt, ListPrice, Schemas, MaxBooked,
  \* WarehouseDesk
  Houses, NoHouse, Keeps, HousePatches, MaxTasks,
  \* AccountDesk
  Linkers, Lifetime, RefreshBefore, MaxAccounts, MaxDay

VARIABLES
  \* CustomerDesk
  customers, jobs, bought, unsure, reviews, spared,
  \* CategoryTree
  tree, idsUsed, treeEdits, edited, disturbed,
  \* ProductDesk
  goods, errands, served, twins, unpriced, dropped,
  \* Listings
  items, ticks, walk, steady, shaken,
  \* SalesReports
  sales, shifts, lacks, report,
  \* StockReports
  shelves, sold, booked, spoilt, absent, stockReport, stirred,
  \* WarehouseDesk
  houses, keeps, tasks, made, expected, housesCrossed,
  \* AccountDesk
  accountRows, today, linking, renewals, ranOn, mediaOf, watch, overlapping, viaCallback

customerVars ==
  <<customers, jobs, bought, unsure, reviews, spared>>
treeVars ==
  <<tree, idsUsed, treeEdits, edited, disturbed>>
goodsVars ==
  <<goods, errands, served, twins, unpriced, dropped>>
listVars ==
  <<items, ticks, walk, steady, shaken>>
reportVars ==
  <<sales, shifts, lacks, report>>
stockReportVars ==
  <<shelves, sold, booked, spoilt, absent, stockReport, stirred>>
houseVars ==
  <<houses, keeps, tasks, made, expected, housesCrossed>>
accountVars ==
  <<accountRows, today, linking, renewals, ranOn, mediaOf, watch, overlapping, viaCallback>>

Cust == INSTANCE CustomerDesk WITH Phones <- Mobiles
Tree == INSTANCE CategoryTree
Prod == INSTANCE ProductDesk
List == INSTANCE Listings
Sale == INSTANCE SalesReports
Stock == INSTANCE StockReports
House == INSTANCE WarehouseDesk
Acct == INSTANCE AccountDesk

-----------------------------------------------------------------------------
(* Why the records agree: what every step of a part keeps.                 *)

CustomerRow == [phone : Mobiles, email : Emails, orders : Nat, spent : Nat, score : 0..100]
ReviewRow == [author : Customers, reports : Nat, published : BOOLEAN, verified : BOOLEAN]

GoodsRow ==
  [sku : Skus \cup {NoSku}, price : Prices, compare : Prices \cup {NoPrice}, active : BOOLEAN, listed : BOOLEAN,
   sync : {"not_synced", "pending", "syncing", "synced", "failed"}]

CategoryRow ==
  [slug : Slugs, parent : Categories \cup {NoCategory}, active : BOOLEAN, level : Nat, path : Seq(Slugs)]

SaleRow ==
  [buyer : Buyers, at : Int, total : Nat, items : Nat \ {0}, paid : BOOLEAN,
   status : {"pending", "paid", "processing", "shipped", "delivered", "refunded", "cancelled"}]

OrderTables == [Sales -> SaleRow \cup {NoSale}]

ItemRow ==
  [kind : {r.kind : r \in Shapes}, grade : {r.grade : r \in Shapes}, live : BOOLEAN, made : Int, touched : Int]

\* As the code has them: rows are no value that stands for none, and a patch
\* has values of the fields it names.  A token is renewed before
\* its end, but not at once.
ASSUME RecordAssumption ==
  /\ NoCustomer \notin CustomerRow \cup ReviewRow /\ IsFiniteSet(Desk)
  /\ Amounts \subseteq Nat /\ ScoreDeltas \subseteq Int /\ ReportLimit \in Nat \ {0}
  /\ NoSale \notin SaleRow /\ IsFiniteSet(Sales) /\ Histories \subseteq OrderTables
  /\ Today \in Int /\ WeekDays \in Nat /\ MonthDays \in Nat \ {0}
  /\ \A r \in Shapes : r.grade \in Int
  /\ MaxTicks \in Nat /\ NoItemRow \notin ItemRow \cup 0..MaxTicks - 1
  /\ \A q \in Queries :
       /\ {"list", "limit"} \subseteq DOMAIN q /\ q.limit \in Nat \ {0}
       /\ "cursor" \in DOMAIN q => q.list = "products"
  /\ \A p \in GoodsPatches :
       /\ DOMAIN p \subseteq {"sku", "price", "compare", "active"}
       /\ "sku" \in DOMAIN p => p.sku \in Skus \cup {NoSku}
       /\ "price" \in DOMAIN p => p.price \in Prices
       /\ "compare" \in DOMAIN p => p.compare \in Prices \cup {NoPrice}
       /\ "active" \in DOMAIN p => p.active \in BOOLEAN
  /\ NoProduct \notin GoodsRow
  /\ IsFiniteSet(Categories) /\ NoCategory \notin Categories \cup CategoryRow /\ MaxPath \in Nat
  /\ Lifetime \in Nat /\ RefreshBefore \in Nat /\ RefreshBefore < Lifetime
  /\ \A default, active \in BOOLEAN : House!NewHouse(default, active) # NoHouse
  /\ IsFiniteSet(Shelves) /\ Lots \subseteq Nat \ {0} /\ UnitCosts \subseteq Nat /\ ReorderAt \in Nat

\* What a request is about to write has the switches the warehouse was opened
\* with, and, when it met no other request, all that is there.
HouseTyped ==
  /\ DOMAIN houses = Houses /\ DOMAIN made = Houses /\ DOMAIN expected = Houses /\ DOMAIN keeps = Keeps
  /\ \A h \in House!Open : made[h] # NoHouse /\ {"default", "active"} \subseteq DOMAIN houses[h]

KeepFits(k) ==
  keeps[k].do = "write" =>
    /\ keeps[k].at \in Houses /\ made[keeps[k].at] # NoHouse
    /\ {"default", "active"} \subseteq DOMAIN keeps[k].copy
    /\ keeps[k].copy.default = made[keeps[k].at].default /\ keeps[k].copy.active = made[keeps[k].at].active
    /\ keeps[k].at \in House!Open \ housesCrossed =>
         keeps[k].copy = House!Merged(houses[keeps[k].at], keeps[k].with)
    /\ keeps[k].then.do # "write"

HouseInv ==
  /\ HouseTyped
  /\ \A k \in Keeps : KeepFits(k)
  /\ \A h \in House!Open \ housesCrossed : \A k, m \in House!Holders(h) : k = m
  /\ House!UpdatesAreKept /\ House!FlagsAreAsMade

\* Product p has SKU s, or is about to get it.
Claims(p, s) ==
  \/ Prod!OnSale(p) /\ goods[p].sku = s
  \/ \E e \in Errands : errands[e].at \in {"insert", "update"} /\ errands[e].product = p /\ errands[e].sku = s

\* What an update that is alone will make of the prices makes sense.
SensibleWith(patch, row) ==
  Prod!Sensible(IF "price" \in DOMAIN patch THEN patch.price ELSE row.price,
                IF "compare" \in DOMAIN patch THEN patch.compare ELSE row.compare)

InsertFits(e) ==
  errands[e].at = "insert" =>
    /\ errands[e].product \in Products /\ ~Prod!OnSale(errands[e].product)
    /\ errands[e].row \in GoodsRow /\ errands[e].row.sku = errands[e].sku /\ errands[e].row.sync # "syncing"
    /\ errands[e].compared => Prod!Sensible(errands[e].row.price, errands[e].row.compare)
    /\ \A o \in Errands : errands[o].at = "insert" /\ errands[o].product = errands[e].product => o = e

UpdateFits(e) ==
  errands[e].at = "update" =>
    /\ {"at", "product", "sku", "patch", "alone"} \subseteq DOMAIN errands[e]
    /\ errands[e].product \in Products /\ Prod!OnSale(errands[e].product)
    /\ errands[e].patch \in GoodsPatches
    /\ "sku" \in DOMAIN errands[e].patch => errands[e].patch.sku = errands[e].sku
    /\ errands[e].alone =>
         /\ SensibleWith(errands[e].patch, goods[errands[e].product])
         /\ \A o \in Prod!Updates(errands[e].product) : o = e

SyncFits(e) ==
  /\ errands[e].at \in {"sync", "syncing"} => errands[e].left \subseteq {p \in Products : Prod!OnSale(p)}
  /\ errands[e].at = "syncing" => errands[e].product \in Products /\ Prod!OnSale(errands[e].product)

ProdTyped ==
  /\ goods \in [Products -> GoodsRow \cup {NoProduct}] /\ DOMAIN errands = Errands
  /\ twins \cup unpriced \cup dropped \subseteq Products

ProdInv ==
  /\ ProdTyped
  /\ \A e \in Errands : InsertFits(e) /\ UpdateFits(e) /\ SyncFits(e)
  /\ \A s \in Skus \ {NoSku}, p, o \in Products : p # o /\ Claims(p, s) /\ Claims(o, s) => {p, o} \subseteq twins
  /\ Prod!PricesMakeSense /\ Prod!SyncingIsWorkedOn

AccountRow == [net : {"whatsapp", "instagram"}, ends : Int, expiry : Int, active : BOOLEAN]

\* On day d, account a was missed as often as its token has been due; then, when
\* it is not renewed on the last of those days, that is every run there was.
RunsMissed(a, d) == watch[a].missed > RefreshBefore \/ watch[a].missed >= d - accountRows[a].expiry + RefreshBefore

PageFits(a) ==
  /\ ~watch[a].old => accountRows[a].ends = accountRows[a].expiry
  /\ RunsMissed(a, today)
  /\ ranOn = today /\ a \notin renewals => RunsMissed(a, today + 1)

AskingFacebook == {l \in Linkers : linking[l].do \in {"find", "link"}}
NumberRows == {a \in Acct!Rows : accountRows[a].net = "whatsapp"}

LinkerFits(l) ==
  /\ linking[l].do = "link" =>
       /\ linking[l].row \in {0} \cup NumberRows
       /\ ~overlapping /\ linking[l].row = 0 => viaCallback = 0
  /\ linking[l].do = "renew" => linking[l].row \in Acct!Rows \ NumberRows

AcctTyped ==
  /\ accountRows \in Seq(AccountRow) /\ watch \in Seq([missed : Nat, old : BOOLEAN])
  /\ DOMAIN watch = DOMAIN accountRows
  /\ DOMAIN linking = Linkers /\ renewals \subseteq Acct!Rows \ NumberRows
  /\ today \in Nat /\ ranOn \in Nat /\ ranOn <= today /\ viaCallback \in Nat /\ overlapping \in BOOLEAN

AcctInv ==
  /\ AcctTyped
  /\ \A a \in Acct!Pages : PageFits(a)
  /\ \A l \in Linkers : LinkerFits(l)
  /\ ~overlapping => (\A l, k \in AskingFacebook : l = k) /\ viaCallback <= 1
  /\ viaCallback >= 1 => NumberRows # {}

CustTyped ==
  /\ customers \in [Customers -> CustomerRow \cup {NoCustomer}] /\ reviews \in [Reviews -> ReviewRow \cup {NoCustomer}]
  /\ bought \in [Customers -> Seq(Amounts)] /\ DOMAIN jobs = Desk /\ unsure \subseteq Customers
  /\ \A c \in Customers : ~Cust!Present(c) => bought[c] = <<>>
  /\ \A r \in Reviews : reviews[r] # NoCustomer => Cust!Present(reviews[r].author)

\* n orders of customer c are counted, and x is what they came to.
CountedAs(c, n, x) ==
  \E S \in SUBSET DOMAIN bought[c] : Cardinality(S) = n /\ Cust!Sum([i \in S |-> bought[c][i]]) = x

Entering(d) == jobs[d].at = "insert"

\* What a request is about to write was computed for a customer that is still there.
JobFits(d) ==
  /\ jobs[d].at \in {"none", "insert", "update", "stats", "scoreread", "score", "hide"}
  /\ jobs[d].at \in {"insert", "update"} =>
       jobs[d].customer \in Customers /\ jobs[d].phone \in Mobiles /\ jobs[d].email \in Emails
  /\ Entering(d) =>
       /\ ~Cust!Present(jobs[d].customer)
       /\ \A e \in Desk : Entering(e) /\ jobs[e].customer = jobs[d].customer => e = d
  /\ jobs[d].at \in {"update", "stats", "scoreread", "score"} =>
       jobs[d].customer \in Customers /\ Cust!Present(jobs[d].customer)
  /\ jobs[d].at \in {"stats", "scoreread"} => jobs[d].by \in Int /\ {"at", "customer", "by"} \subseteq DOMAIN jobs[d]
  /\ jobs[d].at = "score" => jobs[d].to \in 0..100

\* The count that is about to be written is the first that overlaps no other.
CountFits(d) ==
  jobs[d].at = "stats" =>
    /\ CountedAs(jobs[d].customer, jobs[d].orders, jobs[d].spent)
    /\ jobs[d].customer \notin unsure =>
         /\ jobs[d].orders = Len(bought[jobs[d].customer])
         /\ \A e \in Desk : Cust!IsAt(e, {"stats"}, jobs[d].customer) => e = d

CustInv ==
  /\ CustTyped
  /\ \A d \in Desk : JobFits(d) /\ CountFits(d)
  /\ Cust!FiguresBelongTogether /\ Cust!ReportedIsHidden

StockRow == [available : Nat, reserved : Nat, cost : Nat, value : Nat]

StockTyped ==
  /\ shelves \in [Shelves -> StockRow] /\ spoilt \subseteq Shelves
  /\ DOMAIN stockReport = {"kind", "left", "got"}
  /\ stockReport.kind \in {"none", "listing", "summary", "analytics", "alerts", "turnover", "rated", "failed"}

\* A report has the answers that are not left to read, and they are still so as
\* long as the stock is left alone.
StockReportFits ==
  /\ stockReport.kind = "none" => stockReport = Stock!NoStockReport
  /\ stockReport.kind \in {"none", "rated"} => stockReport.left = {}
  /\ stockReport.kind = "rated" => DOMAIN stockReport.got = Stock!QueriesOf("analytics") \cup {"rate"}
  /\ stockReport.kind \notin {"rated", "failed", "none"} =>
       /\ stockReport.left \subseteq Stock!QueriesOf(stockReport.kind)
       /\ DOMAIN stockReport.got = Stock!QueriesOf(stockReport.kind) \ stockReport.left
  /\ ~stirred => \A q \in DOMAIN stockReport.got \ {"rate"} : stockReport.got[q] = Stock!Answer(q)
  /\ "summary" \in DOMAIN stockReport.got =>
       /\ stockReport.got["summary"].score \in 0..100
       /\ stockReport.got["summary"].low + stockReport.got["summary"].out <= Cardinality(Shelves)

StockInv == StockTyped /\ StockReportFits /\ Stock!ValueIsOfStock

\* The statements of some stages.
QueriesIn(stages) == UNION {stages[n] : n \in DOMAIN stages}

\* What a report is to read, it has read or will read.
SaleInv ==
  /\ sales \in OrderTables
  /\ report # NoReport =>
       /\ DOMAIN report = {"kind", "range", "month", "left", "seen", "failed"}
       /\ report.kind \in Sale!Kinds /\ report.left \in Seq(SUBSET QueriesIn(Sale!Stages(report.kind)))
       /\ \A q \in DOMAIN report.seen : report.seen[q] \in OrderTables
       /\ QueriesIn(Sale!Stages(report.kind)) \subseteq DOMAIN report.seen \cup QueriesIn(report.left)

ListTyped ==
  /\ items \in [List!Items -> ItemRow \cup {NoItemRow}] /\ ticks \in 0..MaxTicks /\ shaken \in BOOLEAN
  /\ \A i \in List!Stored : i < ticks /\ items[i].made <= items[i].touched /\ items[i].touched < ticks
  /\ DOMAIN walk = {"at", "q", "page", "total", "last", "shown"}
  /\ walk.at \in {"idle", "next", "counted", "paged", "done"} /\ walk.q \in Queries /\ walk.page \in Nat \ {0}
  /\ walk.shown \in [List!Items -> Nat]
  /\ steady \subseteq List!Matching(walk.q)
  /\ walk.at = "idle" =>
       steady = {} /\ walk.page = 1 /\ walk.last = NoItemRow /\ \A i \in List!Items : walk.shown[i] = 0
  /\ walk.at \in {"counted", "paged"} => List!Counted

KeyOf(i) == List!SortKey(items[i], walk.q)

\* The rows that come before row i in the list.
Precedes(i) == {j \in List!Matching(walk.q) : KeyOf(j) < KeyOf(i)}

\* By number: what was on the list all the time and is not yet shown is on none
\* of the pages that were read.
PagesFit ==
  ~List!Has(walk.q, "cursor") =>
    /\ \A i \in steady :
         walk.shown[i] = 0 =>
           /\ walk.at \in {"next", "counted"} => (walk.page - 1) * walk.q.limit <= Cardinality(Precedes(i))
           /\ walk.at = "paged" => walk.page * walk.q.limit <= Cardinality(Precedes(i))
    /\ walk.at = "counted" => walk.total = Cardinality(List!Matching(walk.q))

\* After the last one shown: of what was on the list all the time, that and what
\* comes before it was shown once, and what comes after it not yet.
CursorFits ==
  List!Has(walk.q, "cursor") =>
    /\ walk.at = "next" /\ walk.last = NoItemRow => walk.page = 1 /\ \A i \in steady : walk.shown[i] = 0
    /\ walk.at = "next" /\ walk.last # NoItemRow =>
         /\ walk.last \in List!Matching(walk.q)
         /\ \A i \in steady : walk.shown[i] = IF KeyOf(i) > KeyOf(walk.last) THEN 0 ELSE 1
    /\ walk.at = "done" => \A i \in steady : walk.shown[i] = 1

ListInv ==
  /\ ListTyped
  /\ ~shaken => PagesFit /\ CursorFits
  /\ List!NothingIsMissed

TreeTyped ==
  /\ tree \in [Categories -> CategoryRow \cup {NoCategory}] /\ DOMAIN treeEdits = Keepers /\ disturbed \in BOOLEAN
  /\ \A c \in Categories :
       Tree!Listed(c) =>
         /\ c \in idsUsed /\ Tree!ParentExists(tree[c].parent)
         /\ Len(tree[c].path) = tree[c].level + 1 /\ Len(tree[c].path) <= MaxPath

\* Level and path follow from those of parent p.
Follows(level, path, p) ==
  IF p = NoCategory THEN level = 0 ELSE level = tree[p].level + 1 /\ Tree!Front(path) = tree[p].path

Inserts(k) == treeEdits[k].at = "insert"

\* What is about to be inserted is not there, was not there, and is no parent yet.
NewFits(k) ==
  Inserts(k) =>
    /\ treeEdits[k].category \in Categories \cap idsUsed /\ ~Tree!Listed(treeEdits[k].category)
    /\ treeEdits[k].row \in CategoryRow /\ Len(treeEdits[k].row.path) = treeEdits[k].row.level + 1
    /\ treeEdits[k].row.parent \in idsUsed \cup {NoCategory}
    /\ ~disturbed /\ Tree!ParentExists(treeEdits[k].row.parent) =>
         Follows(treeEdits[k].row.level, treeEdits[k].row.path, treeEdits[k].row.parent)
    /\ \A o \in Keepers :
         Inserts(o) => /\ treeEdits[o].category # treeEdits[k].row.parent
                       /\ treeEdits[o].category = treeEdits[k].category => o = k

RenameFits(k) ==
  treeEdits[k].at = "rename" =>
    /\ treeEdits[k].category \in Categories /\ treeEdits[k].slug \in Slugs
    /\ treeEdits[k].parent \in Categories \cup {NoCategory} /\ treeEdits[k].reparent \in BOOLEAN

RemoveFits(k) == treeEdits[k].at = "remove" => treeEdits[k].category \in Categories

MoveFits(k) ==
  treeEdits[k].at = "move" =>
    /\ treeEdits[k].category \in Categories /\ treeEdits[k].parent \in Categories \cup {NoCategory}
    /\ treeEdits[k].level \in Nat /\ treeEdits[k].path \in Seq(Slugs)
    /\ Len(treeEdits[k].path) = treeEdits[k].level + 1
    /\ ~disturbed =>
         /\ treeEdits[k].category # treeEdits[k].parent
         /\ Tree!ParentExists(treeEdits[k].parent) => Follows(treeEdits[k].level, treeEdits[k].path, treeEdits[k].parent)
         /\ Tree!Listed(treeEdits[k].category) /\ treeEdits[k].parent # NoCategory /\ Tree!Listed(treeEdits[k].parent) =>
              ~Tree!IsStrictPrefix(tree[treeEdits[k].category].path, tree[treeEdits[k].parent].path)

\* The categories whose paths k has still to write.
Pending(k) == IF treeEdits[k].at = "descend" THEN {treeEdits[k].rows[i][1] : i \in DOMAIN treeEdits[k].rows} ELSE {}

\* In tree t they are children of what was moved and written, A, where none of them is.
Awaiting(rows, t) ==
  /\ \A i, j \in DOMAIN rows : rows[i][1] = rows[j][1] => i = j
  /\ \A i \in DOMAIN rows :
       LET c == rows[i][1]
       IN  t[c] # NoCategory /\ t[c].parent # NoCategory /\ t[t[c].parent].path = rows[i][2]
  /\ \E A \in SUBSET Categories :
       /\ \A i \in DOMAIN rows : rows[i][1] \notin A /\ t[rows[i][1]].parent \in A
       /\ \A c \in A : t[c] # NoCategory => t[c].parent \in A \cup {NoCategory}

DescendFits(k) ==
  treeEdits[k].at = "descend" =>
    /\ treeEdits[k].rows \in Seq(Categories \X Seq(Slugs))
    /\ \A i \in DOMAIN treeEdits[k].rows : Len(treeEdits[k].rows[i][2]) >= 1
    /\ ~disturbed => Awaiting(treeEdits[k].rows, tree)

\* All other paths continue those of their parents.
TreeInv ==
  /\ TreeTyped
  /\ \A k \in Keepers : NewFits(k) /\ RenameFits(k) /\ RemoveFits(k) /\ MoveFits(k) /\ DescendFits(k)
  /\ ~disturbed =>
       /\ \A k \in Keepers : Tree!Moves(k) => \A o \in Keepers \ {k} : ~Tree!Moves(o) /\ ~Tree!Grows(o)
       /\ \A c \in Categories :
            Tree!Listed(c) /\ (\A k \in Keepers : c \notin Pending(k)) => Follows(tree[c].level, tree[c].path, tree[c].parent)
=============================================================================

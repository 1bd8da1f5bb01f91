------------------------------- MODULE Listings -------------------------------
(***************************************************************************)
(* The lists the back office shows page by page, and the windows of latest *)
(* rows, while the rows change between two pages.                          *)
(*                                                                         *)
(* Every findAll builds a condition, and reads a page (skip, take) and the *)
(* number of rows in two queries of no common transaction.  A row is what  *)
(* the conditions and orders tell apart: a kind (status, channel, product  *)
(* type, ...), whether it is live, a grade (amount, price, score), when it *)
(* was made and when it was last touched.  Searching for text, and what is *)
(* joined to a row, are left out.                                          *)
(***************************************************************************)
EXTENDS Integers, Sequences, FiniteSets, SequencesExt

CONSTANTS
  NoItemRow,
  Shapes,      \* kinds and grades of rows
  Queries,     \* what is asked for: records of the list, its filter, order and page size
  MaxTicks     \* bound on the changes of the rows

VARIABLES
  items,   \* row of each item, or NoItemRow
  ticks,   \* changes so far; also the clock rows are stamped with
  walk,    \* the query being followed, its next page, and what was shown
  steady,  \* items that fitted the query, unmoved, ever since the first page
  shaken   \* a row left the list or moved down in it, two had the same key, or
           \* one came between the count and the page

listVars == <<items, ticks, walk, steady, shaken>>

\* A row is called after the moment it was made.
Items == 0..MaxTicks - 1

Has(q, f) == f \in DOMAIN q
Stored == {i \in Items : items[i] # NoItemRow}

\* The conditions that may be left out.
KindFits(r, q) == Has(q, "kind") => r.kind = q.kind
MadeFits(r, q) == (Has(q, "from") => r.made >= q.from) /\ (Has(q, "to") => r.made <= q.to)
GradeFits(r, q) == (Has(q, "least") => r.grade >= q.least) /\ (Has(q, "most") => r.grade <= q.most)
LiveFits(r, q) == Has(q, "live") => r.live = q.live

LeadFits(r, q) == (~Has(q, "all") => r.live) /\ KindFits(r, q) /\ MadeFits(r, q) /\ GradeFits(r, q)
OrderFits(r, q) == KindFits(r, q) /\ MadeFits(r, q) /\ GradeFits(r, q)
PaymentFits(r, q) == KindFits(r, q) /\ MadeFits(r, q) /\ GradeFits(r, q)
ProductFits(r, q) == KindFits(r, q) /\ LiveFits(r, q) /\ GradeFits(r, q)
CustomerFits(r, q) == GradeFits(r, q)
ReviewFits(r, q) == KindFits(r, q) /\ LiveFits(r, q) /\ MadeFits(r, q)
TemplateFits(r, q) == KindFits(r, q) /\ LiveFits(r, q)
CampaignFits(r, q) == KindFits(r, q)
ConversationFits(r, q) == KindFits(r, q)
\* One bound alone is not applied.
MovementFits(r, q) == KindFits(r, q) /\ (Has(q, "from") /\ Has(q, "to") => MadeFits(r, q))

Fits(r, q) ==
  CASE q.list = "leads" -> LeadFits(r, q)
    [] q.list = "orders" -> OrderFits(r, q)
    [] q.list = "payments" -> PaymentFits(r, q)
    [] q.list = "products" -> ProductFits(r, q)
    [] q.list = "customers" -> CustomerFits(r, q)
    [] q.list = "reviews" -> ReviewFits(r, q)
    [] q.list = "templates" -> TemplateFits(r, q)
    [] q.list = "campaigns" -> CampaignFits(r, q)
    [] q.list = "conversations" -> ConversationFits(r, q)
    [] q.list = "movements" -> MovementFits(r, q)

Matching(q) == {i \in Stored : Fits(items[i], q)}

\* What a list is ordered by: conversations by their last message, descending.
SortKey(r, q) ==
  IF q.list = "conversations" THEN -r.touched
  ELSE IF Has(q, "by") THEN r.grade
  ELSE IF Has(q, "asc") THEN r.made ELSE -r.made

\* The orders the database may return: it does not say which of two equals is first.
Orders(q) ==
  {s \in SetToSeqs(Matching(q)) : \A m, n \in DOMAIN s : m < n => SortKey(items[s[m]], q) <= SortKey(items[s[n]], q)}

\* skip and take.
Take(s, skip, take) ==
  IF skip >= Len(s) THEN <<>> ELSE SubSeq(s, skip + 1, IF skip + take < Len(s) THEN skip + take ELSE Len(s))

\* Mutation: pages are counted from zero.
PageLate(s, page, limit) == Take(s, page * limit, limit)

Page(s, page, limit) == Take(s, (page - 1) * limit, limit)

\* After the row a page ended with.
PageAfter(s, last, limit) ==
  LET at == {n \in DOMAIN s : s[n] = last}
  IN  IF at = {} THEN <<>> ELSE Take(s, CHOOSE n \in at : TRUE, limit)

HasNext(page, limit, total) == page * limit < total

-----------------------------------------------------------------------------
(* The rows: any service may change them between two queries               *)

\* Who follows the list is not concerned once it is done.
Changes == walk.at # "done" /\ ticks < MaxTicks /\ ticks' = ticks + 1

Enter ==
  /\ Changes
  /\ \E r \in Shapes : items' = [items EXCEPT ![ticks] = [kind |-> r.kind, grade |-> r.grade, live |-> TRUE, made |-> ticks, touched |-> ticks]]
  /\ shaken' = (shaken \/ walk.at = "counted")
  /\ UNCHANGED <<walk, steady>>

\* A row is touched, gets another grade or kind, is switched off or on, or deleted.
Altered(i) ==
  {[items[i] EXCEPT !.touched = ticks], [items[i] EXCEPT !.live = ~@], NoItemRow}
    \cup {[items[i] EXCEPT !.grade = r.grade] : r \in Shapes} \cup {[items[i] EXCEPT !.kind = r.kind] : r \in Shapes}

\* Only what the query can tell; what was altered before its first page it cannot.
Alter(i) ==
  /\ i \in Stored /\ walk.at # "idle" /\ Changes
  /\ \E r \in Altered(i) \ {items[i]} :
       LET was == i \in Matching(walk.q)
           is == r # NoItemRow /\ Fits(r, walk.q)
           moved == was /\ is /\ SortKey(r, walk.q) # SortKey(items[i], walk.q)
       IN  /\ is # was \/ moved
           /\ items' = [items EXCEPT ![i] = r]
           /\ steady' = IF is /\ ~moved THEN steady ELSE steady \ {i}
           /\ shaken' = (shaken \/ (was /\ ~is) \/ (is /\ ~was /\ walk.at = "counted") \/ (moved /\ Has(walk.q, "by")))
  /\ UNCHANGED walk

-----------------------------------------------------------------------------
(* Following a list to its end                                             *)

Begin ==
  /\ walk.at = "idle"
  /\ walk' = [walk EXCEPT !.at = "next"]
  /\ steady' = Matching(walk.q) /\ shaken' = FALSE
  /\ UNCHANGED <<items, ticks>>

\* A page comes with the number of rows, except for stock movements and for
\* products that are asked for after the last one shown.
Counted == walk.q.list # "movements" /\ ~Has(walk.q, "cursor")
Tied == \E i, o \in Matching(walk.q) : i # o /\ SortKey(items[i], walk.q) = SortKey(items[o], walk.q)

Shows(page) == [i \in Items |-> walk.shown[i] + Cardinality({n \in DOMAIN page : page[n] = i})]

CountRows ==
  /\ walk.at = "next" /\ Counted
  /\ walk' = [walk EXCEPT !.at = "counted", !.total = Cardinality(Matching(walk.q))]
  /\ UNCHANGED <<items, ticks, steady, shaken>>

ReadPage ==
  /\ walk.at = "counted"
  /\ \E s \in Orders(walk.q) :
       walk' = [walk EXCEPT !.at = IF HasNext(walk.page, walk.q.limit, walk.total) THEN "next" ELSE "done",
                            !.page = @ + 1, !.shown = Shows(Page(s, walk.page, walk.q.limit))]
  /\ shaken' = (shaken \/ Tied)
  /\ UNCHANGED <<items, ticks, steady>>

\* The page first and the count after it: the two queries run at once, except
\* for reviews and templates.
ReadPageFirst ==
  /\ walk.at = "next" /\ Counted /\ walk.q.list \notin {"reviews", "templates"}
  /\ \E s \in Orders(walk.q) :
       walk' = [walk EXCEPT !.at = "paged", !.shown = Shows(Page(s, walk.page, walk.q.limit))]
  /\ shaken' = (shaken \/ Tied)
  /\ UNCHANGED <<items, ticks, steady>>

CountRowsAfter ==
  /\ walk.at = "paged"
  /\ walk' = [walk EXCEPT !.at = IF HasNext(walk.page, walk.q.limit, Cardinality(Matching(walk.q))) THEN "next" ELSE "done", !.page = @ + 1]
  /\ UNCHANGED <<items, ticks, steady, shaken>>

\* Without a count, a page that is not full is the last.
ReadOn ==
  /\ walk.at = "next" /\ ~Counted
  /\ \E s \in Orders(walk.q) :
       LET page == IF ~Has(walk.q, "cursor") \/ walk.last = NoItemRow THEN Page(s, walk.page, walk.q.limit)
                   ELSE PageAfter(s, walk.last, walk.q.limit)
       IN  walk' = [walk EXCEPT !.at = IF Len(page) = walk.q.limit THEN "next" ELSE "done", !.page = @ + 1,
                                !.last = IF page = <<>> THEN @ ELSE Last(page), !.shown = Shows(page)]
  /\ shaken' = (shaken \/ Tied)
  /\ UNCHANGED <<items, ticks, steady>>

-----------------------------------------------------------------------------
Init ==
  /\ items = [i \in Items |-> NoItemRow]
  /\ ticks = 0 /\ steady = {} /\ shaken = FALSE
  /\ \E q \in Queries : walk = [at |-> "idle", q |-> q, page |-> 1, total |-> 0, last |-> NoItemRow, shown |-> [i \in Items |-> 0]]

Next ==
  \/ \E i \in Items : Alter(i)
  \/ Enter \/ Begin \/ CountRows \/ ReadPage \/ ReadPageFirst \/ CountRowsAfter \/ ReadOn

Spec == Init /\ [][Next]_listVars

-----------------------------------------------------------------------------
TypeOK == steady \subseteq Stored /\ \A i \in Stored : items[i].made <= items[i].touched /\ items[i].touched < ticks

\* Who follows a list to its last page has seen every row that was on it all the
\* time, whatever came meanwhile and, for conversations, whatever was answered
\* and went to the top; by number a row may be shown twice, after the last one
\* shown it is not (findAll of every service, createPaginationMeta).
NothingIsMissed ==
  ~shaken =>
    /\ walk.at = "done" => \A i \in steady : walk.shown[i] >= 1
    /\ Has(walk.q, "cursor") => \A i \in steady : walk.shown[i] <= 1
=============================================================================

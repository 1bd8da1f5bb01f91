----------------------------- MODULE AudienceDesk -----------------------------
(***************************************************************************)
(* Choosing the audience of a campaign: the preview counts it, shows a     *)
(* sample, and the campaign fetches it later, while leads and customers    *)
(* change.  CampaignDelivery takes the audience as given and sends to it.  *)
(*                                                                         *)
(* Leads and customers are told apart by what the filters compare; the     *)
(* database returns them in no order.  Every query is a moment of its own. *)
(***************************************************************************)
EXTENDS Integers, FiniteSetsExt

CONSTANTS
  Books,       \* the tables a run starts from: id -> a lead's or a customer's row
  Wanted,      \* what is asked for: records of the audience type and the filter's fields
  NoNumber,
  SampleSize,
  MaxMoves     \* bound on the changes of the tables

VARIABLES
  book,        \* the rows
  moves,       \* changes so far
  asking,      \* the audience asked for, and how far the asking is
  moved        \* the rows changed since it began

audienceVars == <<book, moves, asking, moved>>

Asks(w, f) == f \in DOMAIN w
InList(w, f, x) == Asks(w, f) => x \in w[f]
AtLeast(w, f, x) == Asks(w, f) => x >= w[f]
AtMost(w, f, x) == Asks(w, f) => x <= w[f]

LeadRows == {i \in DOMAIN book : book[i].type = "lead"}
Patrons == {i \in DOMAIN book : book[i].type = "customer"}

\* The counts know neither tags nor the days since the last order.
CountedLeads(w) ==
  {i \in LeadRows : LET l == book[i] IN
     /\ l.phone # NoNumber /\ l.active
     /\ InList(w, "status", l.status) /\ InList(w, "quality", l.quality)
     /\ InList(w, "city", l.city)}

CountedCustomers(w) ==
  {i \in Patrons : LET c == book[i] IN
     /\ AtLeast(w, "minScore", c.score) /\ AtMost(w, "maxScore", c.score)
     /\ AtLeast(w, "minSpent", c.spent) /\ AtMost(w, "maxSpent", c.spent)
     /\ AtLeast(w, "minOrders", c.orders) /\ AtMost(w, "maxOrders", c.orders)}

LeadsAudience(w) ==
  {i \in CountedLeads(w) : Asks(w, "tags") => book[i].tags \cap w.tags # {}}

\* Mutation: the customers are filtered by what the count compares, and those
\* whose last order is long ago instead of recent.
CustomersAudienceLong(w) ==
  {i \in CountedCustomers(w) : AtLeast(w, "lastOrder", book[i].ago)}

CustomersAudience(w) ==
  {i \in CountedCustomers(w) : AtMost(w, "lastOrder", book[i].ago)}

\* One contact of each number; a lead before a customer.
CustomSegment(w) ==
  LET L == LeadsAudience(w)
      C == CustomersAudience(w)
      first(n) == IF \E i \in L : book[i].phone = n THEN CHOOSE i \in L : book[i].phone = n
                  ELSE CHOOSE i \in C : book[i].phone = n
  IN  {first(n) : n \in {book[i].phone : i \in L \cup C}}

\* getAudience; "all" is a segment without a filter.
Audience(w) ==
  CASE w.type = "leads" -> LeadsAudience(w)
    [] w.type = "customers" -> CustomersAudience(w)
    [] w.type = "all" -> CustomSegment([type |-> "all"])
    [] OTHER -> CustomSegment(w)

Counting(w) == IF w.type = "all" THEN [type |-> "all"] ELSE w

-----------------------------------------------------------------------------
Getting == ~asking.failed /\ UNCHANGED <<book, moves, moved>>

\* The queries on customers filter for a phone that is not NULL, of a column that
\* never is: a client that refuses such a filter fails them all.
Refused == asking.strict /\ asking.w.type # "leads"
Failed == [asking EXCEPT !.failed = TRUE]

\* The two counts of previewAudienceCount, and the sample, at once.
CountLeadsOf ==
  /\ Getting /\ asking.leads = -1
  /\ asking' = [asking EXCEPT !.leads = IF asking.w.type = "customers" THEN 0 ELSE Cardinality(CountedLeads(Counting(asking.w)))]

CountCustomersOf ==
  /\ Getting /\ asking.customers = -1
  /\ asking' = IF Refused THEN Failed
               ELSE [asking EXCEPT !.customers = IF asking.w.type = "leads" THEN 0 ELSE Cardinality(CountedCustomers(Counting(asking.w)))]

\* getSampleAudience: the first of them.
TakeSample ==
  /\ Getting /\ asking.sample = {} /\ ~asking.fetched
  /\ LET A == Audience(asking.w)
         n == IF Cardinality(A) < SampleSize THEN Cardinality(A) ELSE SampleSize
     IN  IF Refused THEN asking' = Failed
         ELSE \E S \in kSubset(n, A) \ {{}} : asking' = [asking EXCEPT !.sample = S]

\* The campaign is sent to the audience of this moment.
Fetch ==
  /\ Getting /\ asking.leads >= 0 /\ asking.customers >= 0 /\ ~asking.fetched
  /\ asking' = IF Refused THEN Failed ELSE [asking EXCEPT !.audience = Audience(asking.w), !.fetched = TRUE]

\* A lead is switched off or tagged, a customer buys.
Move ==
  /\ moves < MaxMoves /\ ~asking.fetched /\ ~asking.failed
  /\ moves' = moves + 1
  /\ moved' = (asking.leads >= 0 \/ asking.customers >= 0 \/ asking.sample # {})
  /\ \/ \E i \in LeadRows : book' = [book EXCEPT ![i].active = ~@]
     \/ \E i \in LeadRows : book' = [book EXCEPT ![i].tags = IF @ = {} THEN {"vip"} ELSE {}]
     \/ \E i \in Patrons : book' = [book EXCEPT ![i].orders = @ + 1, ![i].spent = @ + 1, ![i].ago = 0]
  /\ UNCHANGED asking

Init ==
  /\ book \in Books /\ moves = 0 /\ moved = FALSE
  /\ \E w \in Wanted, strict \in BOOLEAN :
       asking = [w |-> w, strict |-> strict, leads |-> -1, customers |-> -1,
                 sample |-> {}, audience |-> {}, fetched |-> FALSE, failed |-> FALSE]

Next == CountLeadsOf \/ CountCustomersOf \/ TakeSample \/ Fetch \/ Move

Spec == Init /\ [][Next]_audienceVars

-----------------------------------------------------------------------------
PhonesOf(S) == {book[i].phone : i \in S}
Several == {"all", "segment", "custom"}

\* The filters know what the code should: who bought lately enough.
Recent(w) == {i \in Patrons : Asks(w, "lastOrder") => book[i].ago <= w.lastOrder}

\* What a preview promises of an audience nothing changes: it counts no fewer than
\* the campaign will reach, and it counts them exactly when one table is asked and
\* no tag or last order is; a mixed audience has each number once, and no customer
\* of it bought longer ago than asked (getAudience, previewAudienceCount).
PreviewCovers ==
  asking.fetched /\ ~moved =>
    LET want == asking.w
        A == asking.audience
    IN  /\ Cardinality(A) <= asking.leads + asking.customers
        /\ want.type \notin Several /\ ~Asks(want, "tags") /\ ~Asks(want, "lastOrder") => Cardinality(A) = asking.leads + asking.customers
        /\ want.type \in Several => Cardinality(PhonesOf(A)) = Cardinality(A)
        /\ want.type # "all" => A \cap Patrons \subseteq Recent(want)
        /\ want.type \notin Several => asking.sample \subseteq A
=============================================================================

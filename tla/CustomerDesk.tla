------------------------------ MODULE CustomerDesk ------------------------------
(***************************************************************************)
(* features/customers and features/reviews: the customers of a business,   *)
(* the figures an order adds to them, and the reviews they write.          *)
(*                                                                         *)
(* A service reads, decides and writes in statements of their own.  Two    *)
(* things do not depend on that: the database refuses a second customer    *)
(* with a phone or an e-mail address of the business, and the counters of  *)
(* a review are incremented by the statement itself.  Names, texts and     *)
(* media are left out.                                                     *)
(***************************************************************************)
EXTENDS Integers, Sequences, FiniteSets, FiniteSetsExt

CONSTANTS
  Customers, NoCustomer,
  Phones, Emails,       \* NoCustomer stands for no e-mail address
  Amounts,              \* totals of orders
  Desk,                 \* requests that are served at once
  Reviews,
  ScoreDeltas,          \* what the engagement request may add
  ReportLimit,          \* reports that hide a review
  MaxOrders, MaxReports \* bounds: orders of a customer, reports of a review

VARIABLES
  customers,  \* row of each customer, or NoCustomer
  jobs,       \* what each request has read and is about to write
  bought,     \* amounts of the orders of each customer, as they were counted
  unsure,     \* customers for which a count was lost: it failed, or two overlapped
  reviews,    \* row of each review, or NoCustomer
  spared      \* reviews that stayed visible after the limit: their hiding failed,
              \* or the staff published them again

customerVars == <<customers, jobs, bought, unsure, reviews, spared>>

NoJob == [at |-> "none"]
Free(d) == jobs[d] = NoJob
Does(d, j) == jobs' = [jobs EXCEPT ![d] = j]

Present(c) == customers[c] # NoCustomer

\* Request d is at a step, for a customer or for a review.
IsAt(d, steps, c) == jobs[d].at \in steps /\ jobs[d].customer = c
Hides(d, r) == jobs[d].at = "hide" /\ jobs[d].review = r

\* findByPhone and findByEmail, for anyone but c.
PhoneTaken(p, c) == \E o \in Customers \ {c} : Present(o) /\ customers[o].phone = p
EmailTaken(e, c) == e # NoCustomer /\ \E o \in Customers \ {c} : Present(o) /\ customers[o].email = e

-----------------------------------------------------------------------------
(* Customers                                                               *)

\* The customer is about to be inserted.
Enters(d, c, p, e) ==
  /\ Free(d) /\ ~Present(c) /\ ~\E o \in Desk : IsAt(o, {"insert"}, c)
  /\ ~PhoneTaken(p, c)
  /\ Does(d, [at |-> "insert", customer |-> c, phone |-> p, email |-> e])
  /\ UNCHANGED <<customers, bought, unsure, reviews, spared>>

\* create and findOrCreate look for the phone and for the e-mail address.
AskCreate(d, c) == \E p \in Phones, e \in Emails : ~EmailTaken(e, c) /\ Enters(d, c, p, e)

\* bulkCreate, one of its customers: only for the phone.
ImportCustomer(d, c) == \E p \in Phones, e \in Emails : Enters(d, c, p, e)

\* The unique indexes refuse what the look-up could not see.
InsertCustomer(d) ==
  LET j == jobs[d]
  IN  /\ j.at = "insert" /\ Does(d, NoJob)
      /\ customers' = IF PhoneTaken(j.phone, j.customer) \/ EmailTaken(j.email, j.customer) THEN customers
                      ELSE [customers EXCEPT ![j.customer] =
                              [phone |-> j.phone, email |-> j.email, orders |-> 0, spent |-> 0, score |-> 10]]
      /\ UNCHANGED <<bought, unsure, reviews, spared>>

\* update: a changed phone or address must not be another's.
AskUpdate(d, c) ==
  /\ Free(d) /\ Present(c)
  /\ \E p \in Phones, e \in Emails :
       /\ p # customers[c].phone => ~PhoneTaken(p, c)
       /\ e # customers[c].email => ~EmailTaken(e, c)
       /\ Does(d, [at |-> "update", customer |-> c, phone |-> p, email |-> e])
  /\ UNCHANGED <<customers, bought, unsure, reviews, spared>>

UpdateCustomer(d) ==
  LET j == jobs[d]
  IN  /\ j.at = "update" /\ Does(d, NoJob)
      /\ customers' = IF ~Present(j.customer) \/ PhoneTaken(j.phone, j.customer) \/ EmailTaken(j.email, j.customer) THEN customers
                      ELSE [customers EXCEPT ![j.customer] = [@ EXCEPT !.phone = j.phone, !.email = j.email]]
      /\ UNCHANGED <<bought, unsure, reviews, spared>>

\* The reviews of a customer go too (onDelete: Cascade).
DeleteCustomer(c) ==
  /\ Present(c) /\ ~\E d \in Desk : IsAt(d, {"update", "stats", "scoreread", "score"}, c)
  /\ customers' = [customers EXCEPT ![c] = NoCustomer]
  /\ bought' = [bought EXCEPT ![c] = <<>>] /\ unsure' = unsure \ {c}
  /\ reviews' = [r \in Reviews |-> IF reviews[r] # NoCustomer /\ reviews[r].author = c THEN NoCustomer ELSE reviews[r]]
  /\ UNCHANGED <<jobs, spared>>

-----------------------------------------------------------------------------
(* Figures: incrementOrderStats, called for every order and not waited for *)

\* Requests that are between reading and writing the order figures of c.
Overlapping(c) == IF Cardinality({d \in Desk : IsAt(d, {"stats"}, c)'}) > 1 THEN unsure \cup {c} ELSE unsure

\* An order was created; the figures of its customer are read.
CountOrder(d, c) ==
  /\ Free(d) /\ Present(c) /\ Len(bought[c]) < MaxOrders
  /\ \E a \in Amounts :
       /\ bought' = [bought EXCEPT ![c] = Append(@, a)]
       /\ Does(d, [at |-> "stats", customer |-> c, orders |-> customers[c].orders + 1, spent |-> customers[c].spent + a, by |-> 5])
  /\ unsure' = Overlapping(c)
  /\ UNCHANGED <<customers, reviews, spared>>

\* Mutation: the figures are read again for the amount.
WriteStatsTwice(d) ==
  LET j == jobs[d]
  IN  /\ j.at = "stats"
      /\ customers' = [customers EXCEPT ![j.customer] = [@ EXCEPT !.orders = j.orders, !.spent = @ + bought[j.customer][Len(bought[j.customer])]]]
      /\ Does(d, [j EXCEPT !.at = "scoreread"])
      /\ UNCHANGED <<bought, unsure, reviews, spared>>

\* Both figures that were computed from the reading are written.
WriteStats(d) ==
  LET j == jobs[d]
  IN  /\ j.at = "stats"
      /\ customers' = [customers EXCEPT ![j.customer] = [@ EXCEPT !.orders = j.orders, !.spent = j.spent]]
      /\ Does(d, [j EXCEPT !.at = "scoreread"])
      /\ UNCHANGED <<bought, unsure, reviews, spared>>

\* PATCH customers/:id/engagement.
AskScore(d, c) ==
  /\ Free(d) /\ Present(c)
  /\ \E by \in ScoreDeltas : Does(d, [at |-> "scoreread", customer |-> c, by |-> by])
  /\ UNCHANGED <<customers, bought, unsure, reviews, spared>>

\* Mutation: the upper bound is forgotten.
ClampedBelow(n) == IF n < 0 THEN 0 ELSE n

\* updateEngagementScore reads, clamps and writes.
Clamped(n) == IF n < 0 THEN 0 ELSE IF n > 100 THEN 100 ELSE n

ReadScore(d) ==
  LET j == jobs[d]
  IN  /\ j.at = "scoreread"
      /\ Does(d, [at |-> "score", customer |-> j.customer, to |-> Clamped(customers[j.customer].score + j.by)])
      /\ UNCHANGED <<customers, bought, unsure, reviews, spared>>

WriteScore(d) ==
  LET j == jobs[d]
  IN  /\ j.at = "score" /\ Does(d, NoJob)
      /\ customers' = [customers EXCEPT ![j.customer].score = j.to]
      /\ UNCHANGED <<bought, unsure, reviews, spared>>

\* A statement fails: the order stands, the error is logged.
JobFails(d) ==
  /\ jobs[d].at \in {"insert", "update", "stats", "scoreread", "score", "hide"} /\ Does(d, NoJob)
  /\ unsure' = IF jobs[d].at = "stats" THEN unsure \cup {jobs[d].customer} ELSE unsure
  /\ spared' = IF jobs[d].at = "hide" THEN spared \cup {jobs[d].review} ELSE spared
  /\ UNCHANGED <<customers, bought, reviews>>

-----------------------------------------------------------------------------
(* Reviews                                                                 *)

\* create: verified only by an order of status "completed", which no order has.
CreateReview(r, c) ==
  /\ reviews[r] = NoCustomer /\ Present(c) /\ r \notin spared
  /\ ~\E d \in Desk : Hides(d, r)
  /\ reviews' = [reviews EXCEPT ![r] = [author |-> c, reports |-> 0, published |-> TRUE, verified |-> FALSE]]
  /\ UNCHANGED <<customers, jobs, bought, unsure, spared>>

\* Mutation: the limit is passed before it counts.
ReportLate(d, r) ==
  /\ Free(d) /\ reviews[r] # NoCustomer /\ reviews[r].reports < MaxReports
  /\ reviews' = [reviews EXCEPT ![r].reports = @ + 1]
  /\ IF reviews'[r].reports > ReportLimit THEN Does(d, [at |-> "hide", review |-> r]) ELSE UNCHANGED jobs
  /\ UNCHANGED <<customers, bought, unsure, spared>>

\* report increments, and hides the review in a second statement.
Report(d, r) ==
  /\ Free(d) /\ reviews[r] # NoCustomer /\ reviews[r].reports < MaxReports
  /\ reviews' = [reviews EXCEPT ![r].reports = @ + 1]
  /\ IF reviews'[r].reports >= ReportLimit THEN Does(d, [at |-> "hide", review |-> r]) ELSE UNCHANGED jobs
  /\ UNCHANGED <<customers, bought, unsure, spared>>

HideReview(d) ==
  LET j == jobs[d]
  IN  /\ j.at = "hide" /\ Does(d, NoJob)
      /\ reviews' = IF reviews[j.review] = NoCustomer THEN reviews ELSE [reviews EXCEPT ![j.review].published = FALSE]
      /\ UNCHANGED <<customers, bought, unsure, spared>>

\* update: the staff may publish or hide any review.
Moderate(r) ==
  /\ reviews[r] # NoCustomer
  /\ \E b \in BOOLEAN :
       /\ reviews' = [reviews EXCEPT ![r].published = b]
       /\ spared' = IF b /\ reviews[r].reports >= ReportLimit THEN spared \cup {r} ELSE spared
  /\ UNCHANGED <<customers, jobs, bought, unsure>>

DeleteReview(r) ==
  /\ reviews[r] # NoCustomer
  /\ reviews' = [reviews EXCEPT ![r] = NoCustomer]
  /\ UNCHANGED <<customers, jobs, bought, unsure, spared>>

Init ==
  /\ customers = [c \in Customers |-> NoCustomer]
  /\ jobs = [d \in Desk |-> NoJob]
  /\ bought = [c \in Customers |-> <<>>]
  /\ reviews = [r \in Reviews |-> NoCustomer]
  /\ unsure = {} /\ spared = {}

CustomerNext ==
  \/ \E d \in Desk : InsertCustomer(d) \/ UpdateCustomer(d) \/ WriteStats(d) \/ ReadScore(d) \/ WriteScore(d) \/ JobFails(d)
  \/ \E d \in Desk, c \in Customers : AskCreate(d, c) \/ ImportCustomer(d, c) \/ AskUpdate(d, c) \/ CountOrder(d, c) \/ AskScore(d, c)
  \/ \E c \in Customers : DeleteCustomer(c)

ReviewNext ==
  \/ \E d \in Desk : HideReview(d) \/ \E r \in Reviews : Report(d, r)
  \/ \E r \in Reviews : Moderate(r) \/ DeleteReview(r) \/ \E c \in Customers : CreateReview(r, c)

Next == CustomerNext \/ ReviewNext

Spec == Init /\ [][Next]_customerVars

-----------------------------------------------------------------------------
TypeOK ==
  /\ \A c \in Customers : Present(c) => customers[c].score \in 0..100 /\ customers[c].orders <= Len(bought[c])
  /\ \A r \in Reviews : reviews[r] # NoCustomer => Present(reviews[r].author)

\* The sum of the values of a function.
Sum(f) == MapThenSumSet(LAMBDA x : f[x], DOMAIN f)

\* The figures of a customer belong together, whatever overlapped: what was
\* spent is the sum of as many of its orders as are counted; and none is
\* missing unless a count failed or overlapped another (incrementOrderStats).
FiguresBelongTogether ==
  \A c \in Customers :
    Present(c) =>
      /\ \E S \in SUBSET DOMAIN bought[c] :
           Cardinality(S) = customers[c].orders /\ Sum([i \in S |-> bought[c][i]]) = customers[c].spent
      /\ c \notin unsure /\ ~(\E d \in Desk : IsAt(d, {"stats"}, c))
           => customers[c].orders = Len(bought[c])

\* A review that was reported often enough is hidden as soon as no report of
\* it is being handled, unless the staff published it after that (report).
ReportedIsHidden ==
  \A r \in Reviews \ spared :
    reviews[r] # NoCustomer /\ reviews[r].reports >= ReportLimit /\ ~(\E d \in Desk : Hides(d, r))
      => ~reviews[r].published
=============================================================================

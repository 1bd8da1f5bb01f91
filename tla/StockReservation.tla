--------------------------- MODULE StockReservation ---------------------------
(***************************************************************************)
(* The stock columns of products / product_variants, the rows of           *)
(* stock_reservations, and what writes them: the order side                *)
(* (StockReservationService), the expiry job (ReservationCleanupProcessor) *)
(* and the stock endpoint of the catalogue (ProductRepository.updateStock).*)
(* The product form, which replaces stock_quantity by a typed number, is   *)
(* left out.                                                               *)
(*                                                                         *)
(* Every process (an HTTP request being served, or a worker running the    *)
(* clean-up job) executes its database statements one after the other, and *)
(* those of different processes interleave.  Prisma's interactive          *)
(* transactions run at PostgreSQL's default READ COMMITTED level: a read   *)
(* is a step of its own that sees the committed rows; the writes of one    *)
(* transaction and its COMMIT are one step, because the first of them      *)
(* locks the stock row until the COMMIT makes all of them visible.         *)
(*                                                                         *)
(* A unit is one stock-keeping row (a product without variants, or one     *)
(* variant).  stock_reservations.order_id is UNIQUE, so an order that      *)
(* commits holds at most one reservation: UnitOf and Qty give its line.    *)
(***************************************************************************)
EXTENDS Integers, FiniteSets

CONSTANTS
    Orders,         \* order ids (UUIDs), each used by one checkout
    Units,          \* stock-keeping rows: products or product variants
    Procs,          \* concurrent request handlers and workers
    Cleaners,       \* the workers among them that run the clean-up job
    UnitOf, Qty,    \* the tracked line of each order: which unit, how many
    MaxQty,         \* the largest quantity on a line
    InitialStock,   \* stock on hand when the history starts
    Adjustments,    \* changes the stock endpoint is asked for, + or -
    MaxAdjusts      \* bound: calls of the stock endpoint per unit

ASSUME OrdersAssumption ==
    /\ IsFiniteSet(Orders)
    /\ MaxQty \in Nat
    /\ UnitOf \in [Orders -> Units]
    /\ Qty \in [Orders -> 1..MaxQty]

ASSUME ProcsAssumption == Cleaners \subseteq Procs

ASSUME StockAssumption ==
    /\ InitialStock \in [Units -> Nat]
    /\ Adjustments \subseteq Int \ {0}
    /\ MaxAdjusts \in Nat

VARIABLES
    stock,      \* stock_quantity (quantity of a variant)
    reserved,   \* reserved_stock
    version,    \* version, the optimistic lock
    inStock,    \* in_stock
    status,     \* the order's row in stock_reservations, "none" if it has none
    due,        \* the orders whose reservation has passed expires_at
    job,        \* what each process is in the middle of, with what it has read
    todo,       \* the expired reservations a cleaner has still to release
    received,   \* history: stock ever put in less stock taken out by hand
    adjusts     \* history: number of calls of the stock endpoint

rows == <<stock, reserved, version, inStock>>
ledger == <<received, adjusts>>
vars == <<stock, reserved, version, inStock, status, due, job, todo,
          received, adjusts>>

Idle == [kind |-> "idle"]

Job ==
    {Idle}
    \cup [kind : {"reserve"}, order : Orders, reserved : Int, version : Nat]
    \cup [kind : {"convert", "release"}, order : Orders]
    \cup [kind : {"settle"}, order : Orders, inStock : BOOLEAN]
    \cup [kind : {"adjust"}, unit : Units, amount : Adjustments]

Status == {"none", "active", "converted", "expired"}

TypeOK ==
    /\ stock \in [Units -> Int]
    /\ reserved \in [Units -> Int]
    /\ version \in [Units -> Nat]
    /\ inStock \in [Units -> BOOLEAN]
    /\ status \in [Orders -> Status]
    /\ due \subseteq Orders
    /\ job \in [Procs -> Job]
    /\ todo \in [Procs -> SUBSET Orders]
    /\ received \in [Units -> Int]
    /\ adjusts \in [Units -> Nat]

Init ==
    /\ stock = InitialStock
    /\ reserved = [u \in Units |-> 0]
    /\ version = [u \in Units |-> 0]
    /\ inStock = [u \in Units |-> InitialStock[u] > 0]
    /\ status = [o \in Orders |-> "none"]
    /\ due = {}
    /\ job = [p \in Procs |-> Idle]
    /\ todo = [p \in Procs |-> {}]
    /\ received = InitialStock
    /\ adjusts = [u \in Units |-> 0]

\* Process p goes on with j; nothing it has read so far is kept elsewhere.
Becomes(p, j) == job' = [job EXCEPT ![p] = j]

\* Mutation: the reserved part forgotten.
AvailableRaw(u) == stock[u]

\* getAvailableStock, and step 3 of executeReservation
Available(u) == stock[u] - reserved[u]

-------------------------------------------------------------------------------
(* reserveStock: inside the transaction that inserts the order             *)

\* Steps 1 to 3: read the row and its version; fewer than the quantity
\* available is a ConflictException that rolls the order back.  The order id
\* is new, so no other process works on it.
ReserveRead(p, o) ==
    /\ job[p] = Idle
    /\ status[o] = "none"
    /\ \A q \in Procs : job[q].kind = "reserve" => job[q].order # o
    /\ Available(UnitOf[o]) >= Qty[o]
    /\ Becomes(p, [kind |-> "reserve", order |-> o,
                   reserved |-> reserved[UnitOf[o]],
                   version |-> version[UnitOf[o]]])
    /\ UNCHANGED <<rows, status, due, todo, ledger>>

\* Mutation: an UPDATE by primary key only.
VersionUnchecked(p) == TRUE

\* Step 4: the UPDATE applies only WHERE version is the one that was read ...
VersionMatches(p) == version[UnitOf[job[p].order]] = job[p].version

\* ... and writes the value computed from the read, reserved + quantity, then
\* step 5 inserts the reservation and the transaction commits.
ReserveCommit(p) ==
    /\ job[p].kind = "reserve"
    /\ VersionMatches(p)
    /\ LET o == job[p].order
           u == UnitOf[o]
       IN  /\ reserved' = [reserved EXCEPT ![u] = job[p].reserved + Qty[o]]
           /\ version' = [version EXCEPT ![u] = job[p].version + 1]
           /\ status' = [status EXCEPT ![o] = "active"]
    /\ Becomes(p, Idle)
    /\ UNCHANGED <<stock, inStock, due, todo, ledger>>

\* count = 0: "Stock updated by another process", the order is rolled back.
ReserveConflict(p) ==
    /\ job[p].kind = "reserve"
    /\ ~VersionMatches(p)
    /\ Becomes(p, Idle)
    /\ UNCHANGED <<rows, status, due, todo, ledger>>

-------------------------------------------------------------------------------
(* convertReservationToSale: a transaction of its own                      *)

\* Mutation: the reservations of the order, whatever their status.
ConvertReadAny(p, o) ==
    /\ job[p] = Idle
    /\ status[o] # "none"
    /\ Becomes(p, [kind |-> "convert", order |-> o])
    /\ UNCHANGED <<rows, status, due, todo, ledger>>

\* Step 1: the active reservations of the order.
ConvertRead(p, o) ==
    /\ job[p] = Idle
    /\ status[o] = "active"
    /\ Becomes(p, [kind |-> "convert", order |-> o])
    /\ UNCHANGED <<rows, status, due, todo, ledger>>

\* checkIfInStock: a read of its own, before the UPDATE is sent.
ConvertCheck(p) ==
    /\ job[p].kind = "convert"
    /\ LET o == job[p].order
       IN  Becomes(p, [kind |-> "settle", order |-> o,
                       inStock |-> stock[UnitOf[o]] - Qty[o] > 0])
    /\ UNCHANGED <<rows, status, due, todo, ledger>>

\* Step 2: decrement both columns relative to their current values, set the
\* flag computed before, mark the reservation by its id, commit.
ConvertCommit(p) ==
    /\ job[p].kind = "settle"
    /\ LET o == job[p].order
           u == UnitOf[o]
       IN  /\ stock' = [stock EXCEPT ![u] = @ - Qty[o]]
           /\ reserved' = [reserved EXCEPT ![u] = @ - Qty[o]]
           /\ inStock' = [inStock EXCEPT ![u] = job[p].inStock]
           /\ status' = [status EXCEPT ![o] = "converted"]
    /\ Becomes(p, Idle)
    /\ UNCHANGED <<version, due, todo, ledger>>

-------------------------------------------------------------------------------
(* releaseReservation: a transaction of its own                            *)

\* Mutation: the reservations of the order, whatever their status.
StartReleaseAny(p, o) ==
    /\ status[o] # "none"
    /\ Becomes(p, [kind |-> "release", order |-> o])

\* The active reservations of the order.
StartRelease(p, o) ==
    /\ status[o] = "active"
    /\ Becomes(p, [kind |-> "release", order |-> o])

ReleaseRead(p, o) ==
    /\ job[p] = Idle
    /\ StartRelease(p, o)
    /\ UNCHANGED <<rows, status, due, todo, ledger>>

\* Mutation: a status of its own for what is released, known to nobody else.
ReleaseCommitCancelled(p) ==
    /\ job[p].kind = "release"
    /\ LET o == job[p].order
           u == UnitOf[o]
       IN  /\ reserved' = [reserved EXCEPT ![u] = @ - Qty[o]]
           /\ inStock' = [inStock EXCEPT ![u] = TRUE]
           /\ status' = [status EXCEPT ![o] = "cancelled"]
    /\ Becomes(p, Idle)
    /\ UNCHANGED <<stock, version, due, todo, ledger>>

\* Decrement reserved_stock, flag the unit as in stock, mark the reservation.
ReleaseCommit(p) ==
    /\ job[p].kind = "release"
    /\ LET o == job[p].order
           u == UnitOf[o]
       IN  /\ reserved' = [reserved EXCEPT ![u] = @ - Qty[o]]
           /\ inStock' = [inStock EXCEPT ![u] = TRUE]
           /\ status' = [status EXCEPT ![o] = "expired"]
    /\ Becomes(p, Idle)
    /\ UNCHANGED <<stock, version, due, todo, ledger>>

-------------------------------------------------------------------------------
(* cleanupExpiredReservations: the repeatable job of the BullMQ worker     *)

\* Time passes: expires_at of an active reservation is now in the past.
Lapse(o) ==
    /\ status[o] = "active"
    /\ o \notin due
    /\ due' = due \cup {o}
    /\ UNCHANGED <<rows, status, job, todo, ledger>>

\* Mutation: gte written for lte, the job finds what has not expired.
NotYetExpired == {o \in Orders \ due : status[o] = "active"}

\* status active and expires_at lte now.
Expired == {o \in due : status[o] = "active"}

\* The job lists what is active and expired, outside any transaction.
CleanupScan(c) ==
    /\ job[c] = Idle
    /\ todo[c] = {}
    /\ Expired # {}
    /\ todo' = [todo EXCEPT ![c] = Expired]
    /\ UNCHANGED <<rows, status, due, job, ledger>>

\* It then calls releaseReservation for each of them, one after the other;
\* one that is no longer active is passed over.
CleanupRelease(c, o) ==
    /\ job[c] = Idle
    /\ o \in todo[c]
    /\ todo' = [todo EXCEPT ![c] = @ \ {o}]
    /\ IF status[o] = "active" THEN StartRelease(c, o) ELSE UNCHANGED job
    /\ UNCHANGED <<rows, status, due, ledger>>

-------------------------------------------------------------------------------
(* ProductService.updateStock: PUT /products/:id/stock                     *)

\* findById and, to decrement, checkStockAvailability: reads of their own.
AdjustRead(p, u, amount) ==
    /\ job[p] = Idle
    /\ adjusts[u] < MaxAdjusts
    /\ amount < 0 => inStock[u] /\ stock[u] >= -amount
    /\ Becomes(p, [kind |-> "adjust", unit |-> u, amount |-> amount])
    /\ UNCHANGED <<rows, status, due, todo, ledger>>

\* A SERIALIZABLE transaction that reads the row and updates it under a
\* version check.  It aborts if anybody wrote the row since its snapshot, so
\* one that commits is a single atomic step; it refuses a negative result.
AdjustCommit(p) ==
    /\ job[p].kind = "adjust"
    /\ LET u == job[p].unit
           new == stock[u] + job[p].amount
       IN  /\ new >= 0
           /\ stock' = [stock EXCEPT ![u] = new]
           /\ inStock' = [inStock EXCEPT ![u] = new > 0]
           /\ version' = [version EXCEPT ![u] = @ + 1]
           /\ received' = [received EXCEPT ![u] = @ + job[p].amount]
           /\ adjusts' = [adjusts EXCEPT ![u] = @ + 1]
    /\ Becomes(p, Idle)
    /\ UNCHANGED <<reserved, status, due, todo>>

-------------------------------------------------------------------------------
\* A statement fails (time-out, lost connection, serialization failure): the
\* open transaction is rolled back and the exception ends the operation.  The
\* clean-up job catches it and goes on with its list.
Fail(p) ==
    /\ job[p] # Idle
    /\ Becomes(p, Idle)
    /\ UNCHANGED <<rows, status, due, todo, ledger>>

\* The worker's process stops: its list is gone as well.
Crash(c) ==
    /\ todo[c] # {}
    /\ todo' = [todo EXCEPT ![c] = {}]
    /\ Becomes(c, Idle)
    /\ UNCHANGED <<rows, status, due, ledger>>

-------------------------------------------------------------------------------
Reserve(p) ==
    \/ \E o \in Orders : ReserveRead(p, o)
    \/ ReserveCommit(p)
    \/ ReserveConflict(p)

Convert(p) ==
    \/ \E o \in Orders : ConvertRead(p, o)
    \/ ConvertCheck(p)
    \/ ConvertCommit(p)

Release(p) ==
    \/ \E o \in Orders : ReleaseRead(p, o)
    \/ ReleaseCommit(p)

Adjust(p) ==
    \/ \E u \in Units, n \in Adjustments : AdjustRead(p, u, n)
    \/ AdjustCommit(p)

Cleanup(c) ==
    \/ CleanupScan(c)
    \/ \E o \in Orders : CleanupRelease(c, o)
    \/ ReleaseCommit(c)
    \/ Crash(c)

Step(p) ==
    \/ p \notin Cleaners /\ (Reserve(p) \/ Convert(p) \/ Release(p)
                             \/ Adjust(p))
    \/ p \in Cleaners /\ Cleanup(p)
    \/ Fail(p)

Next ==
    \/ \E p \in Procs : Step(p)
    \/ \E o \in Orders : Lapse(o)

Spec == Init /\ [][Next]_vars

-------------------------------------------------------------------------------
(* A restriction of Next, for what holds only under it                      *)

Settling(p) == job[p].kind \in {"convert", "settle", "release"}

\* No order is being settled by two processes at once (a cancellation and
\* the clean-up job, a payment confirmed twice ...).
Exclusive ==
    \A p, q \in Procs :
        Settling(p) /\ Settling(q) /\ job[p].order = job[q].order => p = q

ExclusiveNext == Next /\ Exclusive'

ExclusiveSpec == Init /\ [][ExclusiveNext]_vars

-------------------------------------------------------------------------------
(* Properties                                                              *)

\* The single items of the orders in S, so that adding up quantities is
\* counting: <<o, i>> is the i-th item on the line of o.
Pieces(S) == {x \in Orders \X (1..MaxQty) : x[1] \in S /\ x[2] <= Qty[x[1]]}

Made(u)   == {o \in Orders : UnitOf[o] = u /\ status[o] # "none"}
Active(u) == {o \in Orders : UnitOf[o] = u /\ status[o] = "active"}
Sold(u)   == {o \in Orders : UnitOf[o] = u /\ status[o] = "converted"}

Held(u)     == Cardinality(Pieces(Active(u)))
SoldQty(u)  == Cardinality(Pieces(Sold(u)))

\* The optimistic lock loses no reservation: whatever runs at the same time,
\* the version of a row counts the reservations and the manual adjustments
\* committed on it, so no two of them were based on the same version.
VersionCountsCommits ==
    \A u \in Units : version[u] = Cardinality(Made(u)) + adjusts[u]

\* "Optimistic locking to prevent overselling": what is held by unpaid
\* orders and what has been sold was there to be sold.
NoOversell == \A u \in Units : Held(u) + SoldQty(u) <= received[u]

\* reserved_stock is "Stock currently reserved for pending orders".
ReservedIsHeld == \A u \in Units : reserved[u] = Held(u)

\* stock_quantity is what was put in less what was sold.
StockIsUnsold == \A u \in Units : stock[u] = received[u] - SoldQty(u)

\* "Automatic reservation expiry": a reservation whose time is over does not
\* stay active for ever.
ExpiredIsReleased ==
    \A o \in Orders :
        (o \in due /\ status[o] = "active") ~> (status[o] # "active")

-------------------------------------------------------------------------------
(* What makes the properties inductive                                     *)

\* An UPDATE that will find the version it has read.
Matching(p) == job[p].kind = "reserve" /\ VersionMatches(p)

\* Versions only grow; while the one a checkout has read is current, nobody
\* has reserved for the same order.
ReservesInFlight ==
    \A p \in Procs : job[p].kind = "reserve" =>
        /\ job[p].version <= version[UnitOf[job[p].order]]
        /\ VersionMatches(p) => status[job[p].order] = "none"

\* Only orders that have a reservation are settled.
SettledWasMade ==
    \A p \in Procs : Settling(p) => status[job[p].order] # "none"

VersionInv ==
    /\ TypeOK
    /\ ReservesInFlight
    /\ SettledWasMade
    /\ VersionCountsCommits

\* With no order settled twice, what is being settled is still active ...
SettledIsActive == \A p \in Procs : Settling(p) => status[job[p].order] = "active"

\* ... reserved_stock is never too low, nor stock_quantity ...
RowsGood ==
    \A u \in Units :
        /\ stock[u] = received[u] - SoldQty(u)
        /\ Held(u) <= reserved[u]
        /\ Held(u) <= stock[u]

\* ... and as long as the version a checkout has read is current, both its
\* check and the value it will write are good, whatever was released or sold
\* since.
ReadsGood ==
    \A u \in Units, p \in Procs :
        Matching(p) /\ UnitOf[job[p].order] = u =>
            /\ Held(u) <= job[p].reserved
            /\ Held(u) + Qty[job[p].order] <= stock[u]

NoOversellInv ==
    /\ VersionInv
    /\ Exclusive
    /\ SettledIsActive
    /\ RowsGood
    /\ ReadsGood

-------------------------------------------------------------------------------
\* The promise of StockLedger, free stock being what was received and is
\* neither held nor sold.
Ledger == INSTANCE StockLedger WITH
    free <- [u \in Units |-> received[u] - Held(u) - SoldQty(u)],
    Deliveries <- Adjustments

ImplementsLedger == Ledger!Spec
===============================================================================

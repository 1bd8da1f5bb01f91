---------------------------- MODULE OrderProcessing ----------------------------
(***************************************************************************)
(* OrderService and OrderRepositoryPrisma on top of the stock              *)
(* reservations: the requests that place, pay, move along, ship and cancel *)
(* an order, each a chain of transactions with the order's row read first  *)
(* and written last.  What was read is never checked again.                *)
(*                                                                         *)
(* The stock part of a request is a run of StockReservation's actions by   *)
(* the same process; the clean-up job and the stock endpoint are taken     *)
(* over as they are.  Every order has one line that tracks inventory; the  *)
(* orders are those of one business.                                       *)
(***************************************************************************)
EXTENDS StockReservation

CONSTANT Targets    \* the statuses PUT /orders/:id/status is called with

OrderStatus == {"draft", "pending", "paid", "processing", "shipped",
                "delivered", "cancelled", "refunded", "failed"}

ASSUME TargetsAssumption == Targets \subseteq OrderStatus

VARIABLES
    number,         \* order_number, 0 while there is no row
    orderStatus,    \* orders.status
    payStatus,      \* orders.payment_status
    call,           \* the request each process serves, with what it has read
    cancels,        \* history: orders on which cancel went past its guard
    interrupted     \* history: orders a payment confirmation of which stopped

orderRows == <<number, orderStatus, payStatus>>
history == <<cancels, interrupted>>
orderVars == <<orderRows, call, history>>
allVars == <<vars, orderVars>>

NoCall == [op |-> "none"]

Call ==
    {NoCall}
    \cup [op : {"checkout"}, order : Orders]
    \cup [op : {"place"}, order : Orders, number : Nat]
    \cup [op : {"confirm", "cancel"}, order : Orders, settled : BOOLEAN]
    \cup [op : {"move"}, order : Orders, to : OrderStatus]

OrderTypeOK ==
    /\ TypeOK
    /\ number \in [Orders -> Nat]
    /\ orderStatus \in [Orders -> OrderStatus]
    /\ payStatus \in [Orders -> {"pending", "paid"}]
    /\ call \in [Procs -> Call]
    /\ cancels \subseteq Orders
    /\ interrupted \subseteq Orders

OrderInit ==
    /\ Init
    /\ number = [o \in Orders |-> 0]
    /\ orderStatus = [o \in Orders |-> "pending"]
    /\ payStatus = [o \in Orders |-> "pending"]
    /\ call = [p \in Procs |-> NoCall]
    /\ cancels = {}
    /\ interrupted = {}

Serves(p, c) == call' = [call EXCEPT ![p] = c]

Exists(o) == number[o] # 0

Free(p) == p \notin Cleaners /\ call[p] = NoCall /\ job[p] = Idle

-------------------------------------------------------------------------------
(* create                                                                  *)

\* validateProductAndStock: the flag and the raw stock, without what is
\* reserved.  The order does not exist yet, so it is nobody else's.
Checkout(p, o) ==
    /\ Free(p)
    /\ ~Exists(o)
    /\ \A q \in Procs : call[q].op \in {"checkout", "place"} => call[q].order # o
    /\ inStock[UnitOf[o]] /\ stock[UnitOf[o]] >= Qty[o]
    /\ Serves(p, [op |-> "checkout", order |-> o])
    /\ UNCHANGED <<vars, orderRows, history>>

\* Mutation: the count of what is still pending.
PendingCount == Cardinality({o \in Orders : Exists(o) /\ orderStatus[o] = "pending"}) + 1

\* generateOrderNumber: the number of orders and one, read before the
\* transaction that inserts the order.
NextNumber == Cardinality({o \in Orders : Exists(o)}) + 1

GenerateOrderNumber(p) ==
    /\ call[p].op = "checkout"
    /\ Serves(p, [op |-> "place", order |-> call[p].order, number |-> NextNumber])
    /\ UNCHANGED <<vars, orderRows, history>>

PlaceRead(p) ==
    /\ call[p].op = "place"
    /\ ReserveRead(p, call[p].order)
    /\ UNCHANGED orderVars

\* The order and its reservation become visible together.
PlaceCommit(p) ==
    /\ call[p].op = "place"
    /\ ReserveCommit(p)
    /\ LET o == call[p].order
       IN  /\ number' = [number EXCEPT ![o] = call[p].number]
           /\ orderStatus' = [orderStatus EXCEPT ![o] = "pending"]
           /\ payStatus' = [payStatus EXCEPT ![o] = "pending"]
    /\ Serves(p, NoCall)
    /\ UNCHANGED history

\* Not enough left, or another checkout was faster: no order.
PlaceRefused(p) ==
    /\ call[p].op = "place"
    /\ \/ job[p] = Idle /\ Available(UnitOf[call[p].order]) < Qty[call[p].order]
          /\ UNCHANGED vars
       \/ ReserveConflict(p)
    /\ Serves(p, NoCall)
    /\ UNCHANGED <<orderRows, history>>

-------------------------------------------------------------------------------
(* confirmPayment                                                          *)

\* The one guard: not paid yet.
Confirm(p, o) ==
    /\ Free(p)
    /\ Exists(o)
    /\ payStatus[o] # "paid"
    /\ Serves(p, [op |-> "confirm", order |-> o, settled |-> FALSE])
    /\ UNCHANGED <<vars, orderRows, history>>

Settled(p) == Serves(p, [call[p] EXCEPT !.settled = TRUE])

\* Mutation: the conversion forgotten.
ConfirmUnsold(p) ==
    /\ call[p].op = "confirm"
    /\ ~call[p].settled
    /\ Settled(p)
    /\ UNCHANGED <<vars, orderRows, history>>

\* convertReservationToSale, in a transaction of its own.  No active
\* reservation is a warning in the log, and the confirmation goes on.
ConfirmConvert(p) ==
    /\ call[p].op = "confirm"
    /\ ~call[p].settled
    /\ \/ ConvertRead(p, call[p].order) /\ UNCHANGED call
       \/ ConvertCheck(p) /\ UNCHANGED call
       \/ ConvertCommit(p) /\ Settled(p)
       \/ /\ job[p] = Idle
          /\ status[call[p].order] # "active"
          /\ Settled(p)
          /\ UNCHANGED vars
    /\ UNCHANGED <<orderRows, history>>

\* Mutation: the status set, the payment status forgotten.
MarkPaidStatusOnly(p) ==
    /\ call[p].op = "confirm"
    /\ call[p].settled
    /\ orderStatus' = [orderStatus EXCEPT ![call[p].order] = "paid"]
    /\ Serves(p, NoCall)
    /\ UNCHANGED <<vars, number, payStatus, history>>

\* orders.update: paid, whatever the order has become meanwhile.
MarkPaid(p) ==
    /\ call[p].op = "confirm"
    /\ call[p].settled
    /\ payStatus' = [payStatus EXCEPT ![call[p].order] = "paid"]
    /\ orderStatus' = [orderStatus EXCEPT ![call[p].order] = "paid"]
    /\ Serves(p, NoCall)
    /\ UNCHANGED <<vars, number, history>>

-------------------------------------------------------------------------------
(* cancel                                                                  *)

Cancel(p, o) ==
    /\ Free(p)
    /\ Exists(o)
    /\ orderStatus[o] \notin {"delivered", "cancelled"}
    /\ Serves(p, [op |-> "cancel", order |-> o, settled |-> FALSE])
    /\ cancels' = cancels \cup {o}
    /\ UNCHANGED <<vars, orderRows, interrupted>>

\* Mutation: releaseReservation not awaited.
CancelUnawaited(p) ==
    /\ call[p].op = "cancel"
    /\ ~call[p].settled
    /\ Settled(p)
    /\ UNCHANGED <<vars, orderRows, history>>

\* Mutation: the reservation marked as over, its stock not given back.
CancelKeepsStock(p) ==
    /\ call[p].op = "cancel"
    /\ ~call[p].settled
    /\ job[p] = Idle
    /\ status' = [status EXCEPT ![call[p].order] = "expired"]
    /\ Settled(p)
    /\ UNCHANGED <<rows, due, job, todo, ledger, orderRows, history>>

\* releaseReservation, on a connection of its own inside the transaction of
\* cancel: what it commits stays even if that one fails.
CancelRelease(p) ==
    /\ call[p].op = "cancel"
    /\ ~call[p].settled
    /\ \/ ReleaseRead(p, call[p].order) /\ UNCHANGED call
       \/ ReleaseCommit(p) /\ Settled(p)
       \/ /\ job[p] = Idle
          /\ status[call[p].order] # "active"
          /\ Settled(p)
          /\ UNCHANGED vars
    /\ UNCHANGED <<orderRows, history>>

MarkCancelled(p) ==
    /\ call[p].op = "cancel"
    /\ call[p].settled
    /\ orderStatus' = [orderStatus EXCEPT ![call[p].order] = "cancelled"]
    /\ Serves(p, NoCall)
    /\ UNCHANGED <<vars, number, payStatus, history>>

-------------------------------------------------------------------------------
(* updateStatus and updateShipping                                         *)

\* validateStatusTransition
Allowed ==
    [draft      |-> {"pending", "cancelled"},
     pending    |-> {"paid", "cancelled", "failed"},
     paid       |-> {"processing", "refunded", "cancelled"},
     processing |-> {"shipped", "cancelled"},
     shipped    |-> {"delivered", "cancelled"},
     delivered  |-> {},
     cancelled  |-> {},
     refunded   |-> {},
     failed     |-> {"pending"}]

UpdateStatus(p, o, to) ==
    /\ Free(p)
    /\ Exists(o)
    /\ to \in Allowed[orderStatus[o]]
    /\ Serves(p, [op |-> "move", order |-> o, to |-> to])
    /\ UNCHANGED <<vars, orderRows, history>>

\* Mutation: a status the enumeration does not have.
UpdateShippingDispatched(p, o) ==
    /\ Free(p)
    /\ Exists(o)
    /\ payStatus[o] = "paid"
    /\ Serves(p, [op |-> "move", order |-> o, to |-> "dispatched"])
    /\ UNCHANGED <<vars, orderRows, history>>

\* The table is not asked: a paid order is shipped.
UpdateShipping(p, o) ==
    /\ Free(p)
    /\ Exists(o)
    /\ payStatus[o] = "paid"
    /\ Serves(p, [op |-> "move", order |-> o, to |-> "shipped"])
    /\ UNCHANGED <<vars, orderRows, history>>

\* orders.update, by the order's id only.
Move(p) ==
    /\ call[p].op = "move"
    /\ orderStatus' = [orderStatus EXCEPT ![call[p].order] = call[p].to]
    /\ Serves(p, NoCall)
    /\ UNCHANGED <<vars, number, payStatus, history>>

-------------------------------------------------------------------------------
\* A statement of the request fails, or the process that serves it stops:
\* the transaction that is open is rolled back, what was committed stays.
Break(p) ==
    /\ call[p] # NoCall
    /\ \/ job[p] = Idle /\ UNCHANGED vars
       \/ Fail(p)
    /\ interrupted' = IF call[p].op = "confirm" THEN interrupted \cup {call[p].order}
                                                ELSE interrupted
    /\ Serves(p, NoCall)
    /\ UNCHANGED <<orderRows, cancels>>

-------------------------------------------------------------------------------
Create(p) ==
    \/ \E o \in Orders : Checkout(p, o)
    \/ GenerateOrderNumber(p)
    \/ PlaceRead(p)
    \/ PlaceCommit(p)
    \/ PlaceRefused(p)

Pay(p) ==
    \/ \E o \in Orders : Confirm(p, o)
    \/ ConfirmConvert(p)
    \/ MarkPaid(p)

CallOff(p) ==
    \/ \E o \in Orders : Cancel(p, o)
    \/ CancelRelease(p)
    \/ MarkCancelled(p)

MoveOn(p) ==
    \/ \E o \in Orders, to \in Targets : UpdateStatus(p, o, to)
    \/ \E o \in Orders : UpdateShipping(p, o)
    \/ Move(p)

\* The steps that are no part of a request about an order.
Worker(p) ==
    /\ \/ p \in Cleaners /\ (Cleanup(p) \/ Fail(p))
       \/ p \notin Cleaners /\ call[p] = NoCall /\ (Adjust(p) \/ Fail(p))
    /\ UNCHANGED orderVars

OrderStep(p) == Create(p) \/ Pay(p) \/ CallOff(p) \/ MoveOn(p) \/ Break(p) \/ Worker(p)

TimePasses(o) == Lapse(o) /\ UNCHANGED orderVars

OrderNext ==
    \/ \E p \in Procs : OrderStep(p)
    \/ \E o \in Orders : TimePasses(o)

OrderSpec == OrderInit /\ [][OrderNext]_allVars

-------------------------------------------------------------------------------
(* One request at a time                                                   *)

OnlyOne(p) == \A q \in Procs \ {p} : call[q] = NoCall /\ job[q] = Idle

OneByOneNext ==
    \/ \E p \in Procs : OnlyOne(p) /\ OrderStep(p)
    \/ \E o \in Orders : TimePasses(o)

OneByOneSpec == OrderInit /\ [][OneByOneNext]_allVars

\* Time goes by, and the clean-up job is scheduled again and again.
OrderFairness ==
    /\ \A o \in Orders : WF_allVars(TimePasses(o))
    /\ \A c \in Cleaners :
        /\ WF_allVars(CleanupScan(c) /\ UNCHANGED orderVars)
        /\ SF_allVars((\E o \in Orders : CleanupRelease(c, o)) /\ UNCHANGED orderVars)
        /\ SF_allVars(ReleaseCommit(c) /\ UNCHANGED orderVars)

FairOrderSpec == OrderSpec /\ OrderFairness

-------------------------------------------------------------------------------
(* Properties                                                              *)

\* The requests use the reservations as StockReservation has them used: the
\* handlers of the orders are no more than its processes.
ImplementsReservation == Spec

\* Stock leaves for good only for money: a reservation is converted only for
\* an order that is paid, is about to be marked as paid, or whose
\* confirmation was cut off between its two transactions.
SoldIsPaid ==
    \A o \in Orders : status[o] = "converted" =>
        \/ payStatus[o] = "paid"
        \/ o \in interrupted
        \/ \E p \in Procs : call[p].op = "confirm" /\ call[p].order = o /\ call[p].settled

\* A customer who paid in time and did not cancel has the stock: the only
\* paid orders without a sale were paid after their time or after a cancel.
PaidInTimeIsSold ==
    \A o \in Orders : payStatus[o] = "paid" =>
        \/ status[o] = "converted"
        \/ o \in due
        \/ o \in cancels

\* A request that went past its settlement is right to: the reservation it
\* sold, released or found to be over is not active again before its order is
\* marked as paid or cancelled.
SettledIsOver ==
    \A p \in Procs :
        call[p].op \in {"confirm", "cancel"} /\ call[p].settled => status[call[p].order] # "active"

\* An order that is set to cancelled through the table keeps its reservation,
\* but not for ever.
CancelledStockReturns ==
    \A o \in Orders :
        (orderStatus[o] = "cancelled" /\ status[o] = "active") ~> (status[o] # "active")

\* "Generate unique order number"
NumbersUnique ==
    \A o, x \in Orders : Exists(o) /\ Exists(x) /\ number[o] = number[x] => o = x

-------------------------------------------------------------------------------
(* What makes the properties inductive                                     *)

\* A request runs the transactions of its own order, each of them once, and
\* the clean-up job serves no request.
JobsServeCalls ==
    \A p \in Procs :
        /\ p \in Cleaners => call[p] = NoCall
        /\ job[p].kind = "reserve" =>
               call[p].op = "place" /\ call[p].order = job[p].order
        /\ job[p].kind \in {"convert", "settle"} =>
               call[p].op = "confirm" /\ call[p].order = job[p].order /\ ~call[p].settled
        /\ job[p].kind = "release" /\ p \notin Cleaners =>
               call[p].op = "cancel" /\ call[p].order = job[p].order /\ ~call[p].settled

\* What is paid, cancelled or moved along is an order, and with every order
\* came its reservation.
CallsKnowOrders ==
    \A p \in Procs : call[p].op \in {"confirm", "cancel", "move"} => Exists(call[p].order)

OrdersHaveReservations == \A o \in Orders : Exists(o) => status[o] # "none"

\* A reservation is given back only once it is due or its order cancelled.
ReleasedForReason ==
    /\ \A p \in Procs :
        /\ call[p].op = "cancel" => call[p].order \in cancels
        /\ todo[p] \subseteq due
        /\ job[p].kind = "release" => job[p].order \in due \cup cancels
    /\ \A o \in Orders : status[o] = "expired" => o \in due \cup cancels

OrderInv ==
    /\ OrderTypeOK
    /\ VersionInv
    /\ JobsServeCalls
    /\ CallsKnowOrders
    /\ OrdersHaveReservations
    /\ ReleasedForReason
    /\ SettledIsOver
    /\ SoldIsPaid
    /\ PaidInTimeIsSold

\* One request at a time: one process at most is in the middle of something ...
Busy(p) == call[p] # NoCall \/ job[p] # Idle

Alone == \A p, q \in Procs : Busy(p) /\ Busy(q) => p = q

\* ... so the number it has counted is still the next one, beyond all that
\* were given ...
NumbersCounted ==
    /\ \A o \in Orders : number[o] < NextNumber
    /\ \A p \in Procs : call[p].op = "place" => call[p].number = NextNumber

\* ... and what it has read of reserved_stock is still what the row says.
ReservesCurrent ==
    \A p \in Procs : job[p].kind = "reserve" =>
        job[p].reserved = reserved[UnitOf[job[p].order]]

OneByOneInv ==
    /\ OrderInv
    /\ Alone
    /\ NumbersCounted
    /\ NumbersUnique
    /\ SettledIsActive
    /\ ReservesCurrent
    /\ ReservedIsHeld

===============================================================================

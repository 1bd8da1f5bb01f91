------------------------------ MODULE StockLedger ------------------------------
(***************************************************************************)
(* What the reservation of stock promises, with no trace of rows, versions *)
(* or transactions: every unit has some free stock, a checkout takes what  *)
(* it needs out of it or does not happen, and a reservation is settled     *)
(* once, by a sale or by giving the stock back.                            *)
(***************************************************************************)
EXTENDS Integers

CONSTANTS Orders, Units, UnitOf, Qty, InitialStock, Deliveries

VARIABLES
    free,       \* stock neither reserved nor sold
    status      \* "none", "active", "converted" or "expired"

vars == <<free, status>>

Init ==
    /\ free = InitialStock
    /\ status = [o \in Orders |-> "none"]

\* A checkout takes its stock only if there is enough of it.
Hold(o) ==
    /\ status[o] = "none"
    /\ free[UnitOf[o]] >= Qty[o]
    /\ free' = [free EXCEPT ![UnitOf[o]] = @ - Qty[o]]
    /\ status' = [status EXCEPT ![o] = "active"]

\* The order is paid: what it held has left the stock for good.
Sell(o) ==
    /\ status[o] = "active"
    /\ status' = [status EXCEPT ![o] = "converted"]
    /\ UNCHANGED free

\* The order is cancelled or its time is over: others can have the stock.
GiveBack(o) ==
    /\ status[o] = "active"
    /\ free' = [free EXCEPT ![UnitOf[o]] = @ + Qty[o]]
    /\ status' = [status EXCEPT ![o] = "expired"]

\* A delivery arrives.
Receive(u, n) ==
    /\ free' = [free EXCEPT ![u] = @ + n]
    /\ UNCHANGED status

Next ==
    \/ \E o \in Orders : Hold(o) \/ Sell(o) \/ GiveBack(o)
    \/ \E u \in Units, n \in Deliveries : Receive(u, n)

Spec == Init /\ [][Next]_vars
===============================================================================

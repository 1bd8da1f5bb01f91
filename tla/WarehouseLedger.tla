---------------------------- MODULE WarehouseLedger ----------------------------
(***************************************************************************)
(* What InventoryService promises of the stock of a variant: stock is      *)
(* brought in, taken out of a warehouse that holds it, or moved between    *)
(* two of them in one step.                                                *)
(***************************************************************************)
EXTENDS Integers

CONSTANTS
    Warehouses,
    Quantities   \* what one operation changes

VARIABLE holds   \* the stock of each warehouse, for sale or reserved

LedgerInit == holds = [w \in Warehouses |-> 0]

Bring(w, n) == holds' = [holds EXCEPT ![w] = @ + n]

TakeOut(w, n) ==
    /\ holds[w] >= n
    /\ holds' = [holds EXCEPT ![w] = @ - n]

Move(v, w, n) ==
    /\ v # w
    /\ holds[v] >= n
    /\ holds' = [holds EXCEPT ![v] = @ - n, ![w] = @ + n]

LedgerNext ==
    \E n \in Quantities :
        \/ \E w \in Warehouses : Bring(w, n) \/ TakeOut(w, n)
        \/ \E v, w \in Warehouses : Move(v, w, n)

LedgerSpec == LedgerInit /\ [][LedgerNext]_holds
===============================================================================

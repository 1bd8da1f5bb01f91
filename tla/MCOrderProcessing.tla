--------------------------- MODULE MCOrderProcessing ---------------------------
(***************************************************************************)
(* Small instances of OrderProcessing: o1 wants one item of the unit, o3   *)
(* wants two, and two are in stock, so only one of them can be served.     *)
(***************************************************************************)
EXTENDS OrderProcessing, TLC

CONSTANTS o1, o3, u1, a, b, d, c

MCUnitOf == [o \in Orders |-> u1]
MCQty == [o \in Orders |-> IF o = o3 THEN 2 ELSE 1]
MCInitialStock == [u \in Units |-> 2]
NoAdjustments == {}
Deliveries == {1}

CancelOnly == {"cancelled"}
Shipment == {"paid", "processing", "shipped", "delivered"}
ShipmentOrCancel == Shipment \cup CancelOnly

Handlers == Permutations({a, b, d})
===============================================================================

-------------------------- MODULE MCStockReservation --------------------------
(***************************************************************************)
(* Small instances of StockReservation.  Orders o1 and o2 want one item of *)
(* the unit, o3 wants two, and two are in stock: any two of the small      *)
(* orders fit, o3 fits only alone.                                         *)
(***************************************************************************)
EXTENDS StockReservation, TLC

CONSTANTS o1, o2, o3, u1, a, b, c

MCUnitOf == [o \in Orders |-> u1]
MCQty == [o \in Orders |-> IF o = o3 THEN 2 ELSE 1]
MCInitialStock == [u \in Units |-> 2]
NoAdjustments == {}
Deliveries == {1}
Symmetry == Permutations({a, b}) \cup Permutations({o1, o2})
===============================================================================

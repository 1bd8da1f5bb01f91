------------------------- MODULE OrderProcessing_proofs -------------------------
(***************************************************************************)
(* Proofs about StockReservation and OrderProcessing, for any number of    *)
(* orders, units, processes and clean-up workers and any quantities.       *)
(* First the reservations by themselves; then what holds of the orders     *)
(* however the requests interleave, that the requests use the reservations *)
(* as StockReservation has them used, and what takes one request at a time.*)
(***************************************************************************)
EXTENDS OrderProcessing, FiniteSetTheorems, TLAPS

USE DEF Idle

-------------------------------------------------------------------------------
(* Counting pieces                                                         *)

\* The pieces of a set of orders are finitely many, so counting them makes
\* sense; this is what NoOversell and StockIsUnsold add up.
LEMMA PiecesFinite ==
    ASSUME NEW S
    PROVE  IsFiniteSet(Pieces(S)) /\ Cardinality(Pieces(S)) \in Nat
<1>1. IsFiniteSet(Orders \X (1..MaxQty))
  <2>1. IsFiniteSet(Orders) /\ MaxQty \in Int
    BY OrdersAssumption
  <2>2. IsFiniteSet(1..MaxQty)
    BY <2>1, FS_Interval
  <2> QED BY <2>1, <2>2, FS_Product
<1>2. Pieces(S) \in SUBSET (Orders \X (1..MaxQty))
  BY DEF Pieces
<1>3. IsFiniteSet(Pieces(S))
  BY <1>1, <1>2, FS_Subset
<1> QED BY <1>3, FS_CardinalityType

\* An order that joins a set brings the quantity of its line with it.
LEMMA PiecesAdd ==
    ASSUME NEW S, NEW o \in Orders, o \notin S
    PROVE  Cardinality(Pieces(S \cup {o})) = Cardinality(Pieces(S)) + Qty[o]
<1>1. Qty[o] \in Nat /\ 1..Qty[o] \subseteq 1..MaxQty
  BY OrdersAssumption
<1>2. IsFiniteSet({o} \X (1..Qty[o])) /\ Cardinality({o} \X (1..Qty[o])) = Qty[o]
  <2>1. IsFiniteSet({o}) /\ Cardinality({o}) = 1
    BY FS_Singleton
  <2>2. IsFiniteSet(1..Qty[o]) /\ Cardinality(1..Qty[o]) = Qty[o]
    <3>1. 1 \in Int /\ Qty[o] \in Int /\ Qty[o] - 1 + 1 = Qty[o]
      BY <1>1
    <3>2. 1 > Qty[o] => Qty[o] = 0
      BY <1>1
    <3> QED BY <3>1, <3>2, FS_Interval
  <2>3. /\ IsFiniteSet({o} \X (1..Qty[o]))
        /\ Cardinality({o} \X (1..Qty[o])) = Cardinality({o}) * Cardinality(1..Qty[o])
    BY <2>1, <2>2, FS_Product
  <2>4. 1 * Qty[o] = Qty[o]
    BY <1>1
  <2> QED BY <2>1, <2>2, <2>3, <2>4
<1>3. Pieces(S \cup {o}) = Pieces(S) \cup ({o} \X (1..Qty[o]))
  BY <1>1 DEF Pieces
<1>4. Pieces(S) \cap ({o} \X (1..Qty[o])) = {}
  BY DEF Pieces
<1>5. Cardinality(Pieces(S) \cap ({o} \X (1..Qty[o]))) = 0
  BY <1>4, FS_EmptySet
<1>6. IsFiniteSet(Pieces(S)) /\ Cardinality(Pieces(S)) \in Nat
  BY PiecesFinite
<1>7. Cardinality(Pieces(S) \cup ({o} \X (1..Qty[o])))
        = Cardinality(Pieces(S)) + Cardinality({o} \X (1..Qty[o]))
          - Cardinality(Pieces(S) \cap ({o} \X (1..Qty[o])))
  BY <1>2, <1>6, FS_Union
<1>8. Cardinality(Pieces(S)) + Qty[o] - 0 = Cardinality(Pieces(S)) + Qty[o]
  BY <1>1, <1>6
<1> QED BY <1>2, <1>3, <1>5, <1>7, <1>8

\* An order that leaves a set takes the quantity of its line away.
LEMMA PiecesRemove ==
    ASSUME NEW S, NEW o \in S, o \in Orders
    PROVE  Cardinality(Pieces(S \ {o})) = Cardinality(Pieces(S)) - Qty[o]
<1>1. S = (S \ {o}) \cup {o}
  OBVIOUS
<1>2. Cardinality(Pieces(S)) = Cardinality(Pieces(S \ {o})) + Qty[o]
  BY <1>1, PiecesAdd
<1>3. Qty[o] \in Nat /\ Cardinality(Pieces(S \ {o})) \in Nat
  BY OrdersAssumption, PiecesFinite
<1> QED BY <1>2, <1>3

-------------------------------------------------------------------------------
(* Types                                                                   *)

LEMMA InitTypeOK == Init => TypeOK
  BY OrdersAssumption, StockAssumption DEF Init, TypeOK, Job, Status

LEMMA NextTypeOK == TypeOK /\ [Next]_vars => TypeOK'
<1> SUFFICES ASSUME TypeOK, [Next]_vars PROVE TypeOK'
  OBVIOUS
<1> USE OrdersAssumption, ProcsAssumption, StockAssumption
        DEF TypeOK, Becomes, rows, ledger
<1>1. ASSUME NEW p \in Procs, NEW o \in Orders, ReserveRead(p, o)
      PROVE  TypeOK'
  BY <1>1 DEF ReserveRead, Job
<1>2. ASSUME NEW p \in Procs, ReserveCommit(p)
      PROVE  TypeOK'
  <2>1. job[p].order \in Orders /\ job[p].reserved \in Int /\ job[p].version \in Nat
    BY <1>2 DEF ReserveCommit, Job
  <2> QED BY <1>2, <2>1 DEF ReserveCommit, Job, Status
<1>3. ASSUME NEW p \in Procs, ReserveConflict(p)
      PROVE  TypeOK'
  BY <1>3 DEF ReserveConflict, Job
<1>4. ASSUME NEW p \in Procs, NEW o \in Orders, ConvertRead(p, o)
      PROVE  TypeOK'
  BY <1>4 DEF ConvertRead, Job
<1>5. ASSUME NEW p \in Procs, ConvertCheck(p)
      PROVE  TypeOK'
  BY <1>5 DEF ConvertCheck, Job
<1>6. ASSUME NEW p \in Procs, ConvertCommit(p)
      PROVE  TypeOK'
  <2>1. job[p].order \in Orders /\ job[p].inStock \in BOOLEAN
    BY <1>6 DEF ConvertCommit, Job
  <2> QED BY <1>6, <2>1 DEF ConvertCommit, Job, Status
<1>7. ASSUME NEW p \in Procs, NEW o \in Orders, ReleaseRead(p, o)
      PROVE  TypeOK'
  BY <1>7 DEF ReleaseRead, StartRelease, Job
<1>8. ASSUME NEW p \in Procs, ReleaseCommit(p)
      PROVE  TypeOK'
  <2>1. job[p].order \in Orders
    BY <1>8 DEF ReleaseCommit, Job
  <2> QED BY <1>8, <2>1 DEF ReleaseCommit, Job, Status
<1>9. ASSUME NEW p \in Procs, NEW u \in Units, NEW n \in Adjustments,
             AdjustRead(p, u, n)
      PROVE  TypeOK'
  BY <1>9 DEF AdjustRead, Job
<1>10. ASSUME NEW p \in Procs, AdjustCommit(p)
       PROVE  TypeOK'
  <2>1. job[p].unit \in Units /\ job[p].amount \in Adjustments
    BY <1>10 DEF AdjustCommit, Job
  <2>2. job[p].amount \in Int /\ Idle \in Job
    BY <2>1 DEF Job
  <2> QED BY <1>10, <2>1, <2>2 DEF AdjustCommit
<1>11. ASSUME NEW c \in Procs, CleanupScan(c)
       PROVE  TypeOK'
  BY <1>11 DEF CleanupScan, Expired
<1>12. ASSUME NEW c \in Procs, NEW o \in Orders, CleanupRelease(c, o)
       PROVE  TypeOK'
  BY <1>12 DEF CleanupRelease, StartRelease, Job
<1>13. ASSUME NEW p \in Procs, Crash(p) \/ Fail(p)
       PROVE  TypeOK'
  BY <1>13 DEF Crash, Fail, Job
<1>14. ASSUME NEW o \in Orders, Lapse(o)
       PROVE  TypeOK'
  BY <1>14 DEF Lapse
<1>15. CASE UNCHANGED vars
  BY <1>15 DEF vars
<1> QED
  BY <1>1, <1>2, <1>3, <1>4, <1>5, <1>6, <1>7, <1>8, <1>9, <1>10, <1>11,
     <1>12, <1>13, <1>14, <1>15
     DEF Next, Step, Reserve, Convert, Release, Adjust, Cleanup

\* The columns keep their types: in particular reserved_stock and
\* stock_quantity stay integers but nothing here keeps them positive, while
\* version never is negative.
THEOREM TypeCorrect == Spec => []TypeOK
  BY InitTypeOK, NextTypeOK, PTL DEF Spec

-------------------------------------------------------------------------------
(* The version counts the commits                                          *)

\* Shorthand: the steps of Next, one disjunct per action.
LEMMA NextCases ==
    ASSUME Next
    PROVE  \/ \E p \in Procs, o \in Orders :
                ReserveRead(p, o) \/ ConvertRead(p, o) \/ ReleaseRead(p, o)
                \/ CleanupRelease(p, o)
           \/ \E p \in Procs :
                \/ ReserveCommit(p) \/ ReserveConflict(p) \/ ConvertCheck(p)
                \/ ConvertCommit(p) \/ ReleaseCommit(p) \/ AdjustCommit(p)
                \/ CleanupScan(p) \/ Crash(p) \/ Fail(p)
           \/ \E p \in Procs, u \in Units, n \in Adjustments : AdjustRead(p, u, n)
           \/ \E o \in Orders : Lapse(o)
  BY DEF Next, Step, Reserve, Convert, Release, Adjust, Cleanup

LEMMA InitVersionInv == Init => VersionInv
<1> SUFFICES ASSUME Init PROVE VersionInv
  OBVIOUS
<1>1. TypeOK
  BY InitTypeOK
<1>2. ReservesInFlight /\ SettledWasMade
  BY DEF Init, ReservesInFlight, SettledWasMade, Settling
<1>3. VersionCountsCommits
  <2> SUFFICES ASSUME NEW u \in Units
               PROVE  version[u] = Cardinality(Made(u)) + adjusts[u]
    BY DEF VersionCountsCommits
  <2>1. Made(u) = {}
    BY DEF Init, Made
  <2>2. Cardinality(Made(u)) = 0
    BY <2>1, FS_EmptySet
  <2> QED BY <2>2 DEF Init
<1> QED BY <1>1, <1>2, <1>3 DEF VersionInv

LEMMA MadeFinite ==
    ASSUME NEW u
    PROVE  IsFiniteSet(Made(u)) /\ Cardinality(Made(u)) \in Nat
<1>1. Made(u) \in SUBSET Orders
  BY DEF Made
<1>2. IsFiniteSet(Made(u))
  BY <1>1, OrdersAssumption, FS_Subset
<1> QED BY <1>2, FS_CardinalityType

\* A step that neither makes a reservation nor writes a version keeps the
\* account of the versions.
LEMMA VersionFrame ==
    ASSUME VersionCountsCommits, UNCHANGED <<version, adjusts>>,
           \A o \in Orders : status[o] # "none" <=> status'[o] # "none"
    PROVE  VersionCountsCommits'
<1> SUFFICES ASSUME NEW u \in Units
             PROVE  version'[u] = Cardinality(Made(u)') + adjusts'[u]
  BY DEF VersionCountsCommits
<1>1. Made(u)' = Made(u)
  BY DEF Made
<1> QED BY <1>1 DEF VersionCountsCommits

LEMMA NextVersionInv == VersionInv /\ [Next]_vars => VersionInv'
<1> SUFFICES ASSUME VersionInv, [Next]_vars PROVE VersionInv'
  OBVIOUS
<1>0. TypeOK /\ TypeOK' /\ ReservesInFlight /\ SettledWasMade /\ VersionCountsCommits
  BY NextTypeOK DEF VersionInv
<1> SUFFICES ReservesInFlight' /\ SettledWasMade' /\ VersionCountsCommits'
  BY <1>0 DEF VersionInv
<1> USE <1>0, OrdersAssumption DEF TypeOK, Becomes, rows, ledger
<1> DEFINE Goal == ReservesInFlight' /\ SettledWasMade' /\ VersionCountsCommits'
<1>1. ASSUME NEW p \in Procs, NEW o \in Orders,
             \/ ReserveRead(p, o) \/ ConvertRead(p, o)
             \/ ReleaseRead(p, o) \/ CleanupRelease(p, o)
      PROVE  Goal
  <2>1. ReservesInFlight'
    BY <1>1 DEF ReserveRead, ConvertRead, ReleaseRead, CleanupRelease, StartRelease,
                ReservesInFlight, VersionMatches, Job
  <2>2. SettledWasMade'
    BY <1>1 DEF ReserveRead, ConvertRead, ReleaseRead, CleanupRelease, StartRelease,
                SettledWasMade, Settling, Job
  <2>3. VersionCountsCommits'
    BY <1>1, VersionFrame
       DEF ReserveRead, ConvertRead, ReleaseRead, CleanupRelease
  <2> QED BY <2>1, <2>2, <2>3
<1>2. ASSUME NEW p \in Procs, ReserveCommit(p)
      PROVE  Goal
  <2> DEFINE o == job[p].order
             u == UnitOf[o]
  <2>1. /\ o \in Orders /\ u \in Units /\ job[p].kind = "reserve"
        /\ version[u] = job[p].version /\ status[o] = "none"
    BY <1>2 DEF ReserveCommit, Job, VersionMatches, ReservesInFlight
  <2>2. /\ version' = [version EXCEPT ![u] = version[u] + 1]
        /\ status' = [status EXCEPT ![o] = "active"]
        /\ adjusts' = adjusts
        /\ job' = [job EXCEPT ![p] = Idle]
    BY <1>2, <2>1 DEF ReserveCommit
  <2>3. ReservesInFlight'
    BY <2>1, <2>2 DEF ReservesInFlight, VersionMatches, Job
  <2>4. SettledWasMade'
    BY <2>1, <2>2 DEF SettledWasMade, Settling, Job
  <2>5. VersionCountsCommits'
    <3> SUFFICES ASSUME NEW v \in Units
                 PROVE  version'[v] = Cardinality(Made(v)') + adjusts'[v]
      BY DEF VersionCountsCommits
    <3>1. CASE v = u
      <4>1. Made(v)' = Made(v) \cup {o} /\ o \notin Made(v)
        BY <2>1, <2>2, <3>1 DEF Made
      <4>2. Cardinality(Made(v) \cup {o}) = Cardinality(Made(v)) + 1
        BY <4>1, MadeFinite, FS_AddElement
      <4>3. Cardinality(Made(v)') = Cardinality(Made(v)) + 1
        BY <4>1, <4>2
      <4> QED BY <2>1, <2>2, <3>1, <4>3, MadeFinite DEF VersionCountsCommits
    <3>2. CASE v # u
      <4>1. Made(v)' = Made(v)
        BY <2>1, <2>2, <3>2 DEF Made
      <4> QED BY <2>1, <2>2, <3>2, <4>1 DEF VersionCountsCommits
    <3> QED BY <3>1, <3>2
  <2> QED BY <2>3, <2>4, <2>5
<1>3. ASSUME NEW p \in Procs, AdjustCommit(p)
      PROVE  Goal
  <2> DEFINE u == job[p].unit
  <2>1. u \in Units
    BY <1>3 DEF AdjustCommit, Job
  <2>2. /\ version' = [version EXCEPT ![u] = @ + 1]
        /\ adjusts' = [adjusts EXCEPT ![u] = @ + 1]
        /\ status' = status
        /\ job' = [job EXCEPT ![p] = Idle]
    BY <1>3 DEF AdjustCommit
  <2>3. ReservesInFlight'
    BY <2>1, <2>2 DEF ReservesInFlight, VersionMatches, Job
  <2>4. SettledWasMade'
    BY <2>1, <2>2 DEF SettledWasMade, Settling, Job
  <2>5. VersionCountsCommits'
    <3> SUFFICES ASSUME NEW v \in Units
                 PROVE  version'[v] = Cardinality(Made(v)') + adjusts'[v]
      BY DEF VersionCountsCommits
    <3>1. Made(v)' = Made(v)
      BY <2>2 DEF Made
    <3> QED BY <2>1, <2>2, <3>1, MadeFinite DEF VersionCountsCommits
  <2> QED BY <2>3, <2>4, <2>5
<1>4. ASSUME NEW p \in Procs, ConvertCommit(p) \/ ReleaseCommit(p)
      PROVE  Goal
  <2> DEFINE o == job[p].order
  <2>1. o \in Orders /\ status[o] # "none"
    BY <1>4 DEF ConvertCommit, ReleaseCommit, Job, SettledWasMade, Settling
  <2>2. /\ version' = version /\ adjusts' = adjusts
        /\ job' = [job EXCEPT ![p] = Idle]
        /\ \/ status' = [status EXCEPT ![o] = "converted"]
           \/ status' = [status EXCEPT ![o] = "expired"]
    BY <1>4 DEF ConvertCommit, ReleaseCommit
  <2>3. \A x \in Orders : status[x] # "none" <=> status'[x] # "none"
    BY <2>1, <2>2
  <2>4. ReservesInFlight'
    BY <2>1, <2>2, <2>3 DEF ReservesInFlight, VersionMatches, Job
  <2>5. SettledWasMade'
    BY <2>1, <2>2, <2>3 DEF SettledWasMade, Settling, Job
  <2>6. VersionCountsCommits'
    BY <2>2, <2>3, VersionFrame
  <2> QED BY <2>4, <2>5, <2>6
<1>5. ASSUME NEW p \in Procs,
             \/ ReserveConflict(p) \/ ConvertCheck(p) \/ CleanupScan(p)
             \/ Crash(p) \/ Fail(p)
      PROVE  Goal
  <2>1. ReservesInFlight'
    BY <1>5 DEF ReserveConflict, ConvertCheck, CleanupScan, Crash, Fail,
                ReservesInFlight, VersionMatches, Job
  <2>2. SettledWasMade'
    BY <1>5 DEF ReserveConflict, ConvertCheck, CleanupScan, Crash, Fail,
                SettledWasMade, Settling, Job
  <2>3. VersionCountsCommits'
    BY <1>5, VersionFrame
       DEF ReserveConflict, ConvertCheck, CleanupScan, Crash, Fail
  <2> QED BY <2>1, <2>2, <2>3
<1>6. ASSUME NEW p \in Procs, NEW u \in Units, NEW n \in Adjustments,
             AdjustRead(p, u, n)
      PROVE  Goal
  <2>1. ReservesInFlight'
    BY <1>6 DEF AdjustRead, ReservesInFlight, VersionMatches, Job
  <2>2. SettledWasMade'
    BY <1>6 DEF AdjustRead, SettledWasMade, Settling, Job
  <2>3. VersionCountsCommits'
    BY <1>6, VersionFrame DEF AdjustRead
  <2> QED BY <2>1, <2>2, <2>3
<1>7. CASE (\E o \in Orders : Lapse(o)) \/ UNCHANGED vars
  <2>1. UNCHANGED <<version, adjusts, status, job>>
    BY <1>7 DEF Lapse, vars
  <2>2. ReservesInFlight' /\ SettledWasMade'
    BY <2>1 DEF ReservesInFlight, VersionMatches, SettledWasMade, Settling
  <2> QED BY <2>1, <2>2, VersionFrame
<1> QED BY <1>1, <1>2, <1>3, <1>4, <1>5, <1>6, <1>7, NextCases

\* The optimistic lock loses no reservation and no adjustment, however many
\* processes reserve, settle, clean up and adjust at the same time.
THEOREM VersionsCountCommits == Spec => []VersionCountsCommits
<1>1. VersionInv => VersionCountsCommits
  BY DEF VersionInv
<1> QED BY <1>1, InitVersionInv, NextVersionInv, PTL DEF Spec

-------------------------------------------------------------------------------
(* No overselling while no order is settled twice                          *)

LEMMA HeldSoldNat ==
    ASSUME NEW u
    PROVE  Held(u) \in Nat /\ SoldQty(u) \in Nat
  BY PiecesFinite DEF Held, SoldQty

\* A step that leaves the status of the reservations alone.
LEMMA HeldSoldFrame ==
    ASSUME status' = status, NEW u
    PROVE  Held(u)' = Held(u) /\ SoldQty(u)' = SoldQty(u)
<1>1. Active(u)' = Active(u) /\ Sold(u)' = Sold(u)
  BY DEF Active, Sold
<1> QED BY <1>1 DEF Held, SoldQty, Pieces

\* What the three changes of status do to the two sums.
LEMMA HeldSoldReserve ==
    ASSUME TypeOK, NEW o \in Orders, status[o] = "none",
           status' = [status EXCEPT ![o] = "active"], NEW u \in Units
    PROVE  /\ Held(u)' = IF u = UnitOf[o] THEN Held(u) + Qty[o] ELSE Held(u)
           /\ SoldQty(u)' = SoldQty(u)
<1>1. Sold(u)' = Sold(u)
  BY DEF Sold, TypeOK
<1>2. CASE u = UnitOf[o]
  <2>1. Active(u)' = Active(u) \cup {o} /\ o \notin Active(u)
    BY <1>2 DEF Active, TypeOK
  <2>2. Cardinality(Pieces(Active(u) \cup {o})) = Cardinality(Pieces(Active(u))) + Qty[o]
    BY <2>1, PiecesAdd
  <2> QED BY <1>1, <1>2, <2>1, <2>2 DEF Held, SoldQty, Pieces
<1>3. CASE u # UnitOf[o]
  <2>1. Active(u)' = Active(u)
    BY <1>3 DEF Active, TypeOK
  <2> QED BY <1>1, <1>3, <2>1 DEF Held, SoldQty, Pieces
<1> QED BY <1>2, <1>3

LEMMA HeldSoldConvert ==
    ASSUME TypeOK, NEW o \in Orders, status[o] = "active",
           status' = [status EXCEPT ![o] = "converted"], NEW u \in Units
    PROVE  /\ Held(u)' = IF u = UnitOf[o] THEN Held(u) - Qty[o] ELSE Held(u)
           /\ SoldQty(u)' = IF u = UnitOf[o] THEN SoldQty(u) + Qty[o] ELSE SoldQty(u)
<1>1. CASE u = UnitOf[o]
  <2>1. Active(u)' = Active(u) \ {o} /\ o \in Active(u)
    BY <1>1 DEF Active, TypeOK
  <2>2. Cardinality(Pieces(Active(u) \ {o})) = Cardinality(Pieces(Active(u))) - Qty[o]
    BY <2>1, PiecesRemove
  <2>3. Sold(u)' = Sold(u) \cup {o} /\ o \notin Sold(u)
    BY <1>1 DEF Sold, TypeOK
  <2>4. Cardinality(Pieces(Sold(u) \cup {o})) = Cardinality(Pieces(Sold(u))) + Qty[o]
    BY <2>3, PiecesAdd
  <2> QED BY <1>1, <2>1, <2>2, <2>3, <2>4 DEF Held, SoldQty, Pieces
<1>2. CASE u # UnitOf[o]
  <2>1. Active(u)' = Active(u) /\ Sold(u)' = Sold(u)
    BY <1>2 DEF Active, Sold, TypeOK
  <2> QED BY <1>2, <2>1 DEF Held, SoldQty, Pieces
<1> QED BY <1>1, <1>2

LEMMA HeldSoldRelease ==
    ASSUME TypeOK, NEW o \in Orders, status[o] = "active",
           status' = [status EXCEPT ![o] = "expired"], NEW u \in Units
    PROVE  /\ Held(u)' = IF u = UnitOf[o] THEN Held(u) - Qty[o] ELSE Held(u)
           /\ SoldQty(u)' = SoldQty(u)
<1>1. Sold(u)' = Sold(u)
  BY DEF Sold, TypeOK
<1>2. CASE u = UnitOf[o]
  <2>1. Active(u)' = Active(u) \ {o} /\ o \in Active(u)
    BY <1>2 DEF Active, TypeOK
  <2>2. Cardinality(Pieces(Active(u) \ {o})) = Cardinality(Pieces(Active(u))) - Qty[o]
    BY <2>1, PiecesRemove
  <2> QED BY <1>1, <1>2, <2>1, <2>2 DEF Held, SoldQty, Pieces
<1>3. CASE u # UnitOf[o]
  <2>1. Active(u)' = Active(u)
    BY <1>3 DEF Active, TypeOK
  <2> QED BY <1>1, <1>3, <2>1 DEF Held, SoldQty, Pieces
<1> QED BY <1>2, <1>3

LEMMA InitNoOversellInv == Init => NoOversellInv
<1> SUFFICES ASSUME Init PROVE NoOversellInv
  OBVIOUS
<1>1. VersionInv
  BY InitVersionInv
<1>2. Exclusive /\ SettledIsActive /\ ReadsGood
  BY DEF Init, Exclusive, SettledIsActive, ReadsGood, Settling, Matching
<1>3. RowsGood
  <2> SUFFICES ASSUME NEW u \in Units
               PROVE  /\ stock[u] = received[u] - SoldQty(u)
                      /\ Held(u) <= reserved[u]
                      /\ Held(u) <= stock[u]
    BY DEF RowsGood
  <2>1. Pieces(Active(u)) = {} /\ Pieces(Sold(u)) = {}
    BY DEF Init, Active, Sold, Pieces
  <2>2. Held(u) = 0 /\ SoldQty(u) = 0
    BY <2>1, FS_EmptySet DEF Held, SoldQty
  <2> QED BY <2>2, StockAssumption DEF Init
<1> QED BY <1>1, <1>2, <1>3 DEF NoOversellInv

\* A step that changes neither the rows nor the statuses, and lets no process
\* start a checkout, keeps what is known of the rows and of the reads.
LEMMA NoOversellFrame ==
    ASSUME TypeOK, TypeOK', RowsGood, ReadsGood, UNCHANGED <<rows, status, received>>,
           \A p \in Procs : job'[p].kind = "reserve" => job'[p] = job[p]
    PROVE  RowsGood' /\ ReadsGood'
<1>1. \A u \in Units : Held(u)' = Held(u) /\ SoldQty(u)' = SoldQty(u)
  BY HeldSoldFrame
<1>2. RowsGood'
  BY <1>1 DEF RowsGood, rows
<1>3. ReadsGood'
  <2> SUFFICES ASSUME NEW w \in Units, NEW p \in Procs, Matching(p)',
                      UnitOf[job'[p].order] = w
               PROVE  /\ Held(w)' <= job'[p].reserved
                      /\ Held(w)' + Qty[job'[p].order] <= stock'[w]
    BY DEF ReadsGood
  <2>1. job'[p] = job[p] /\ Matching(p)
    BY DEF Matching, VersionMatches, rows
  <2> QED BY <1>1, <2>1 DEF ReadsGood, rows
<1> QED BY <1>2, <1>3

LEMMA NextNoOversellInv ==
    ASSUME \A n \in Adjustments : n > 0
    PROVE  NoOversellInv /\ [ExclusiveNext]_vars => NoOversellInv'
<1> SUFFICES ASSUME NoOversellInv, [ExclusiveNext]_vars PROVE NoOversellInv'
  OBVIOUS
<1>0. /\ VersionInv /\ VersionInv' /\ TypeOK /\ TypeOK' /\ ReservesInFlight
      /\ Exclusive /\ Exclusive' /\ SettledIsActive /\ RowsGood /\ ReadsGood
      /\ [Next]_vars
  <2>1. [Next]_vars /\ Exclusive'
    BY DEF NoOversellInv, ExclusiveNext, vars, Exclusive, Settling
  <2> QED BY <2>1, NextVersionInv DEF NoOversellInv, VersionInv
<1> DEFINE Goal == SettledIsActive' /\ RowsGood' /\ ReadsGood'
<1> SUFFICES Goal
  BY <1>0 DEF NoOversellInv
<1> USE <1>0, OrdersAssumption, StockAssumption
<1>1. ASSUME NEW p \in Procs, NEW o \in Orders, ReserveRead(p, o)
      PROVE  Goal
  <2>1. /\ UNCHANGED <<rows, status, received>>
        /\ job' = [job EXCEPT ![p] = [kind |-> "reserve", order |-> o,
                                      reserved |-> reserved[UnitOf[o]],
                                      version |-> version[UnitOf[o]]]]
        /\ stock[UnitOf[o]] - reserved[UnitOf[o]] >= Qty[o]
    BY <1>1 DEF ReserveRead, Becomes, Available, ledger
  <2>2. SettledIsActive'
    BY <2>1 DEF SettledIsActive, Settling, TypeOK, rows
  <2>3. \A u \in Units : /\ Held(u)' = Held(u) /\ SoldQty(u)' = SoldQty(u)
                         /\ Held(u) \in Nat
    BY <2>1, HeldSoldFrame, HeldSoldNat
  <2>4. RowsGood'
    BY <2>1, <2>3 DEF RowsGood, rows
  <2>5. ReadsGood'
    <3> SUFFICES ASSUME NEW w \in Units, NEW q \in Procs, Matching(q)',
                        UnitOf[job'[q].order] = w
                 PROVE  /\ Held(w)' <= job'[q].reserved
                        /\ Held(w)' + Qty[job'[q].order] <= stock'[w]
      BY DEF ReadsGood
    <3>1. CASE q = p
      <4>1. job'[q].order = o /\ job'[q].reserved = reserved[UnitOf[o]]
        BY <2>1, <3>1 DEF TypeOK
      <4>2. /\ UnitOf[o] \in Units /\ Qty[o] \in Nat
            /\ stock[UnitOf[o]] \in Int /\ reserved[UnitOf[o]] \in Int
        BY DEF TypeOK
      <4>3. stock' = stock
        BY <2>1 DEF rows
      <4> QED BY <2>1, <2>3, <4>1, <4>2, <4>3 DEF RowsGood
    <3>2. CASE q # p
      <4>1. job'[q] = job[q] /\ Matching(q)
        BY <2>1, <3>2 DEF Matching, VersionMatches, TypeOK, rows
      <4> QED BY <2>1, <2>3, <4>1 DEF ReadsGood, rows
    <3> QED BY <3>1, <3>2
  <2> QED BY <2>2, <2>4, <2>5
<1>2. ASSUME NEW p \in Procs, ReserveCommit(p)
      PROVE  Goal
  <2>1. PICK o \in Orders : o = job[p].order
    BY <1>2 DEF ReserveCommit, TypeOK, Job
  <2>2. PICK u \in Units : u = UnitOf[o]
    OBVIOUS
  <2>3. /\ version[u] = job[p].version /\ status[o] = "none" /\ Matching(p)
        /\ Qty[o] \in Nat
    BY <1>2, <2>1, <2>2 DEF ReserveCommit, VersionMatches, ReservesInFlight, Matching
  <2>4. /\ reserved' = [reserved EXCEPT ![u] = job[p].reserved + Qty[o]]
        /\ version' = [version EXCEPT ![u] = version[u] + 1]
        /\ status' = [status EXCEPT ![o] = "active"]
        /\ job' = [job EXCEPT ![p] = Idle]
        /\ UNCHANGED <<stock, received>>
    BY <1>2, <2>1, <2>2, <2>3 DEF ReserveCommit, Becomes, ledger
  <2>5. \A v \in Units :
          /\ Held(v)' = IF v = u THEN Held(v) + Qty[o] ELSE Held(v)
          /\ SoldQty(v)' = SoldQty(v)
          /\ Held(v) \in Nat
    BY <2>2, <2>3, <2>4, HeldSoldReserve, HeldSoldNat
  <2>6. SettledIsActive'
    BY <2>3, <2>4 DEF SettledIsActive, Settling, TypeOK, Job
  <2>7. /\ Held(u) <= job[p].reserved /\ Held(u) + Qty[o] <= stock[u]
        /\ job[p].reserved \in Int
    BY <1>2, <2>1, <2>2, <2>3 DEF ReadsGood, TypeOK, Job, ReserveCommit
  <2>8. RowsGood'
    BY <2>3, <2>4, <2>5, <2>7 DEF RowsGood, TypeOK
  <2>9. ReadsGood'
    <3> SUFFICES ASSUME NEW w \in Units, NEW q \in Procs, Matching(q)',
                        UnitOf[job'[q].order] = w
                 PROVE  /\ Held(w)' <= job'[q].reserved
                        /\ Held(w)' + Qty[job'[q].order] <= stock'[w]
      BY DEF ReadsGood
    <3>1. q # p /\ job'[q] = job[q] /\ job[q].kind = "reserve"
      BY <2>4 DEF Matching, TypeOK
    <3>2. /\ UnitOf[job[q].order] \in Units /\ job[q].version \in Nat
          /\ job[q].version <= version[UnitOf[job[q].order]]
      BY <3>1 DEF TypeOK, Job, ReservesInFlight
    <3>3. UnitOf[job[q].order] # u /\ Matching(q)
      BY <2>4, <3>1, <3>2 DEF Matching, VersionMatches, TypeOK
    <3> QED BY <2>4, <2>5, <3>1, <3>2, <3>3 DEF ReadsGood
  <2> QED BY <2>6, <2>8, <2>9
<1>3. ASSUME NEW p \in Procs, ConvertCommit(p) \/ ReleaseCommit(p)
      PROVE  Goal
  <2>1. PICK o \in Orders : o = job[p].order
    BY <1>3 DEF ConvertCommit, ReleaseCommit, TypeOK, Job
  <2>2. PICK u \in Units : u = UnitOf[o]
    OBVIOUS
  <2>3. Settling(p) /\ status[o] = "active" /\ Qty[o] \in Nat
    BY <1>3, <2>1 DEF ConvertCommit, ReleaseCommit, SettledIsActive, Settling
  <2>4. /\ reserved' = [reserved EXCEPT ![u] = @ - Qty[o]]
        /\ job' = [job EXCEPT ![p] = Idle]
        /\ UNCHANGED <<version, received>>
        /\ \/ /\ stock' = [stock EXCEPT ![u] = @ - Qty[o]]
              /\ status' = [status EXCEPT ![o] = "converted"]
           \/ /\ stock' = stock
              /\ status' = [status EXCEPT ![o] = "expired"]
    BY <1>3, <2>1, <2>2 DEF ConvertCommit, ReleaseCommit, Becomes, ledger
  <2>5. \A v \in Units :
          /\ Held(v) \in Nat /\ SoldQty(v) \in Nat
          /\ Held(v)' = IF v = u THEN Held(v) - Qty[o] ELSE Held(v)
          /\ stock'[v] - stock[v] = SoldQty(v) - SoldQty(v)'
          /\ stock'[v] = stock[v] \/ (v = u /\ stock'[v] = stock[v] - Qty[o])
          /\ reserved'[v] = IF v = u THEN reserved[v] - Qty[o] ELSE reserved[v]
    <3>1. CASE status' = [status EXCEPT ![o] = "converted"]
      <4>1. stock' = [stock EXCEPT ![u] = @ - Qty[o]]
        BY <2>3, <2>4, <3>1 DEF TypeOK
      <4>2. ASSUME NEW v \in Units
            PROVE  /\ Held(v) \in Nat /\ SoldQty(v) \in Nat
                   /\ Held(v)' = IF v = u THEN Held(v) - Qty[o] ELSE Held(v)
                   /\ SoldQty(v)' = IF v = u THEN SoldQty(v) + Qty[o] ELSE SoldQty(v)
        BY <2>2, <2>3, <3>1, HeldSoldConvert, HeldSoldNat
      <4>3. ASSUME NEW v \in Units
            PROVE  /\ stock[v] \in Int /\ reserved[v] \in Int
                   /\ stock'[v] = IF v = u THEN stock[v] - Qty[o] ELSE stock[v]
                   /\ reserved'[v] = IF v = u THEN reserved[v] - Qty[o] ELSE reserved[v]
        BY <2>4, <4>1 DEF TypeOK
      <4> QED BY <2>3, <4>2, <4>3
    <3>2. CASE status' = [status EXCEPT ![o] = "expired"]
      <4>1. stock' = stock
        BY <2>3, <2>4, <3>2 DEF TypeOK
      <4>2. ASSUME NEW v \in Units
            PROVE  /\ Held(v) \in Nat /\ SoldQty(v) \in Nat
                   /\ Held(v)' = IF v = u THEN Held(v) - Qty[o] ELSE Held(v)
                   /\ SoldQty(v)' = SoldQty(v)
        BY <2>2, <2>3, <3>2, HeldSoldRelease, HeldSoldNat
      <4>3. ASSUME NEW v \in Units
            PROVE  /\ stock[v] \in Int /\ reserved[v] \in Int
                   /\ stock'[v] = stock[v]
                   /\ reserved'[v] = IF v = u THEN reserved[v] - Qty[o] ELSE reserved[v]
        BY <2>4, <4>1 DEF TypeOK
      <4> QED BY <2>3, <4>2, <4>3
    <3> QED BY <2>4, <3>1, <3>2
  <2>6. SettledIsActive'
    <3> SUFFICES ASSUME NEW q \in Procs, Settling(q)'
                 PROVE  status'[job'[q].order] = "active"
      BY DEF SettledIsActive
    <3>1. q # p /\ job'[q] = job[q] /\ Settling(q)
      BY <2>4 DEF Settling, TypeOK
    <3>2. job[q].order # o /\ job[q].order \in Orders
      BY <2>1, <2>3, <3>1 DEF Exclusive, TypeOK, Job, Settling
    <3> QED BY <2>4, <3>1, <3>2 DEF SettledIsActive, TypeOK
  <2>7. RowsGood'
    <3> SUFFICES ASSUME NEW v \in Units
                 PROVE  /\ stock'[v] = received'[v] - SoldQty(v)'
                        /\ Held(v)' <= reserved'[v]
                        /\ Held(v)' <= stock'[v]
      BY DEF RowsGood
    <3>1. Held(v)' \in Int /\ SoldQty(v)' \in Int
      <4>1. IsFiniteSet(Pieces(Sold(v))') /\ IsFiniteSet(Pieces(Active(v))')
        BY PiecesFinite DEF Sold, Active
      <4> QED BY <4>1, FS_CardinalityType DEF SoldQty, Held
    <3>2. /\ stock[v] = received[v] - SoldQty(v)
          /\ Held(v) <= reserved[v] /\ Held(v) <= stock[v]
      BY DEF RowsGood
    <3>3. /\ stock[v] \in Int /\ stock'[v] \in Int /\ received[v] \in Int
          /\ reserved[v] \in Int /\ received' = received
      BY <2>4 DEF TypeOK
    <3>4. Held(v)' <= reserved'[v] /\ Held(v)' <= stock'[v]
      BY <2>3, <2>5, <3>2, <3>3
    <3>5. stock'[v] = received'[v] - SoldQty(v)'
      BY <2>5, <3>1, <3>2, <3>3
    <3> QED BY <3>4, <3>5
  <2>8. ReadsGood'
    <3> SUFFICES ASSUME NEW w \in Units, NEW q \in Procs, Matching(q)',
                        UnitOf[job'[q].order] = w
                 PROVE  /\ Held(w)' <= job'[q].reserved
                        /\ Held(w)' + Qty[job'[q].order] <= stock'[w]
      BY DEF ReadsGood
    <3>1. q # p /\ job'[q] = job[q] /\ Matching(q)
      BY <2>4 DEF Matching, VersionMatches, TypeOK
    <3>2. /\ UnitOf[job[q].order] \in Units /\ job[q].reserved \in Int
          /\ Qty[job[q].order] \in Nat
      BY <3>1 DEF TypeOK, Job, Matching
    <3>4. Held(w) <= job[q].reserved /\ Held(w) + Qty[job[q].order] <= stock[w]
      BY <3>1 DEF ReadsGood
    <3>5. stock[w] \in Int /\ Held(w) \in Nat
      BY <2>5 DEF TypeOK
    <3>6. Held(w)' <= job[q].reserved /\ Held(w)' + Qty[job[q].order] <= stock'[w]
      BY <2>3, <2>5, <3>2, <3>4, <3>5
    <3> QED BY <3>1, <3>6
  <2> QED BY <2>6, <2>7, <2>8
<1>4. ASSUME NEW p \in Procs, AdjustCommit(p)
      PROVE  Goal
  <2>0. job[p].unit \in Units /\ job[p].amount \in Adjustments
    <3>1. job[p] \in [kind : {"adjust"}, unit : Units, amount : Adjustments]
      BY <1>4 DEF AdjustCommit, TypeOK, Job, Idle
    <3> QED BY <3>1
  <2>1. PICK u \in Units, n \in Adjustments : u = job[p].unit /\ n = job[p].amount
    BY <2>0
  <2>2. /\ stock' = [stock EXCEPT ![u] = @ + n]
        /\ received' = [received EXCEPT ![u] = @ + n]
        /\ version' = [version EXCEPT ![u] = @ + 1]
        /\ job' = [job EXCEPT ![p] = Idle]
        /\ UNCHANGED <<reserved, status>>
        /\ n \in Int /\ n > 0
    BY <1>4, <2>1 DEF AdjustCommit, Becomes
  <2>3. \A v \in Units : /\ Held(v)' = Held(v) /\ SoldQty(v)' = SoldQty(v)
                         /\ Held(v) \in Nat /\ SoldQty(v) \in Nat
    BY <2>2, HeldSoldFrame, HeldSoldNat
  <2>4. SettledIsActive'
    BY <2>2 DEF SettledIsActive, Settling, TypeOK
  <2>5. RowsGood'
    BY <2>2, <2>3 DEF RowsGood, TypeOK
  <2>6. ReadsGood'
    <3> SUFFICES ASSUME NEW w \in Units, NEW q \in Procs, Matching(q)',
                        UnitOf[job'[q].order] = w
                 PROVE  /\ Held(w)' <= job'[q].reserved
                        /\ Held(w)' + Qty[job'[q].order] <= stock'[w]
      BY DEF ReadsGood
    <3>1. q # p /\ job'[q] = job[q] /\ job[q].kind = "reserve"
      BY <2>2 DEF Matching, TypeOK
    <3>2. /\ UnitOf[job[q].order] \in Units /\ job[q].version \in Nat
          /\ job[q].version <= version[UnitOf[job[q].order]]
      BY <3>1 DEF TypeOK, Job, ReservesInFlight
    <3>3. UnitOf[job[q].order] # u /\ Matching(q)
      BY <2>2, <3>1, <3>2 DEF Matching, VersionMatches, TypeOK
    <3> QED BY <2>2, <2>3, <3>1, <3>2, <3>3 DEF ReadsGood
  <2> QED BY <2>4, <2>5, <2>6
<1>5. ASSUME NEW p \in Procs, NEW o \in Orders,
             ConvertRead(p, o) \/ ReleaseRead(p, o) \/ CleanupRelease(p, o)
      PROVE  Goal
  <2>1. /\ UNCHANGED <<rows, status, received>>
        /\ \/ job' = job
           \/ /\ status[o] = "active"
              /\ \/ job' = [job EXCEPT ![p] = [kind |-> "convert", order |-> o]]
                 \/ job' = [job EXCEPT ![p] = [kind |-> "release", order |-> o]]
    BY <1>5 DEF ConvertRead, ReleaseRead, CleanupRelease, StartRelease, Becomes, ledger
  <2>2. SettledIsActive'
    BY <2>1 DEF SettledIsActive, Settling, TypeOK, rows
  <2>3. \A q \in Procs : job'[q].kind = "reserve" => job'[q] = job[q]
    BY <2>1 DEF TypeOK
  <2> QED BY <2>1, <2>2, <2>3, NoOversellFrame
<1>6. ASSUME NEW p \in Procs, ConvertCheck(p)
      PROVE  Goal
  <2>1. PICK o \in Orders : o = job[p].order
    BY <1>6 DEF ConvertCheck, TypeOK, Job
  <2>2. /\ UNCHANGED <<rows, status, received>>
        /\ status[o] = "active"
        /\ job' = [job EXCEPT ![p] = [kind |-> "settle", order |-> o,
                                      inStock |-> stock[UnitOf[o]] - Qty[o] > 0]]
    BY <1>6, <2>1 DEF ConvertCheck, Becomes, ledger, SettledIsActive, Settling
  <2>3. SettledIsActive'
    BY <2>2 DEF SettledIsActive, Settling, TypeOK, rows
  <2>4. \A q \in Procs : job'[q].kind = "reserve" => job'[q] = job[q]
    BY <2>2 DEF TypeOK
  <2> QED BY <2>2, <2>3, <2>4, NoOversellFrame
<1>7. ASSUME NEW p \in Procs,
             ReserveConflict(p) \/ CleanupScan(p) \/ Crash(p) \/ Fail(p)
      PROVE  Goal
  <2>1. /\ UNCHANGED <<rows, status, received>>
        /\ job' = job \/ job' = [job EXCEPT ![p] = Idle]
    BY <1>7 DEF ReserveConflict, CleanupScan, Crash, Fail, Becomes, ledger
  <2>2. SettledIsActive'
    BY <2>1 DEF SettledIsActive, Settling, TypeOK, rows
  <2>3. \A q \in Procs : job'[q].kind = "reserve" => job'[q] = job[q]
    BY <2>1 DEF TypeOK
  <2> QED BY <2>1, <2>2, <2>3, NoOversellFrame
<1>8. ASSUME NEW p \in Procs, NEW u \in Units, NEW n \in Adjustments,
             AdjustRead(p, u, n)
      PROVE  Goal
  <2>1. /\ UNCHANGED <<rows, status, received>>
        /\ job' = [job EXCEPT ![p] = [kind |-> "adjust", unit |-> u, amount |-> n]]
    BY <1>8 DEF AdjustRead, Becomes, ledger
  <2>2. SettledIsActive'
    BY <2>1 DEF SettledIsActive, Settling, TypeOK, rows
  <2>3. \A q \in Procs : job'[q].kind = "reserve" => job'[q] = job[q]
    BY <2>1 DEF TypeOK
  <2> QED BY <2>1, <2>2, <2>3, NoOversellFrame
<1>9. CASE (\E o \in Orders : Lapse(o)) \/ UNCHANGED vars
  <2>1. UNCHANGED <<rows, status, received, job>>
    BY <1>9 DEF Lapse, vars, rows, ledger
  <2>2. SettledIsActive'
    BY <2>1 DEF SettledIsActive, Settling
  <2>3. \A q \in Procs : job'[q].kind = "reserve" => job'[q] = job[q]
    BY <2>1
  <2> QED BY <2>1, <2>2, <2>3, NoOversellFrame
<1> QED BY <1>1, <1>2, <1>3, <1>4, <1>5, <1>6, <1>7, <1>8, <1>9, NextCases

\* The counters themselves are right about stock_quantity, and what is held
\* and sold never exceeds what was received: checkouts, cancellations,
\* payments, expiries and deliveries may all interleave, provided that no
\* order is settled by two processes at once and no stock is taken out by
\* hand.
THEOREM NoOverselling ==
    ASSUME \A n \in Adjustments : n > 0
    PROVE  ExclusiveSpec => []NoOversell
<1>1. NoOversellInv => NoOversell
  <2> SUFFICES ASSUME NoOversellInv, NEW u \in Units
               PROVE  Held(u) + SoldQty(u) <= received[u]
    BY DEF NoOversell
  <2>1. /\ stock[u] = received[u] - SoldQty(u) /\ Held(u) <= stock[u]
        /\ received[u] \in Int
    BY DEF NoOversellInv, VersionInv, RowsGood, TypeOK
  <2>2. /\ Held(u) \in Nat /\ SoldQty(u) \in Nat
        /\ stock[u] \in Int
    BY HeldSoldNat DEF NoOversellInv, VersionInv, TypeOK
  <2> QED BY <2>1, <2>2
<1> QED BY <1>1, InitNoOversellInv, NextNoOversellInv, PTL DEF ExclusiveSpec

-------------------------------------------------------------------------------
(* What is on hand is what was not sold                                    *)

\* While no order is settled by two processes, nobody else settles the order
\* a process is about to settle, so its reservation is active all the time.
LEMMA NextSettledIsActive ==
    ASSUME VersionInv, Exclusive, SettledIsActive, [Next]_vars
    PROVE  SettledIsActive'
<1>0. TypeOK /\ ReservesInFlight
  BY DEF VersionInv
<1> USE <1>0 DEF TypeOK, Becomes, rows, ledger
<1>1. ASSUME NEW p \in Procs, NEW o \in Orders,
             \/ ReserveRead(p, o) \/ ConvertRead(p, o)
             \/ ReleaseRead(p, o) \/ CleanupRelease(p, o)
      PROVE  SettledIsActive'
  BY <1>1 DEF ReserveRead, ConvertRead, ReleaseRead, CleanupRelease, StartRelease,
              SettledIsActive, Settling
<1>2. ASSUME NEW p \in Procs, ReserveCommit(p)
      PROVE  SettledIsActive'
  <2>1. /\ job' = [job EXCEPT ![p] = Idle]
        /\ status' = [status EXCEPT ![job[p].order] = "active"]
    BY <1>2 DEF ReserveCommit
  <2>2. ASSUME NEW q \in Procs, Settling(q)' PROVE Settling(q) /\ job'[q] = job[q]
    BY <2>1, <2>2 DEF Settling
  <2>3. ASSUME NEW q \in Procs, Settling(q)
        PROVE  job[q].order \in Orders /\ status[job[q].order] = "active"
    BY <2>3 DEF Settling, SettledIsActive, Job
  <2> QED BY <2>1, <2>2, <2>3 DEF SettledIsActive
<1>3. ASSUME NEW p \in Procs, ConvertCommit(p) \/ ReleaseCommit(p)
      PROVE  SettledIsActive'
  <2>1. /\ job' = [job EXCEPT ![p] = Idle] /\ Settling(p)
        /\ \A x \in Orders : x # job[p].order => status'[x] = status[x]
    BY <1>3 DEF ConvertCommit, ReleaseCommit, Settling
  <2>2. ASSUME NEW q \in Procs, Settling(q)'
        PROVE  q # p /\ Settling(q) /\ job'[q] = job[q]
    BY <2>1, <2>2 DEF Settling
  <2>3. ASSUME NEW q \in Procs, Settling(q), q # p
        PROVE  job[q].order \in Orders /\ job[q].order # job[p].order
    BY <2>1, <2>3 DEF Settling, Exclusive, Job
  <2> QED BY <2>1, <2>2, <2>3 DEF SettledIsActive
<1>4. ASSUME NEW p \in Procs,
             \/ ReserveConflict(p) \/ ConvertCheck(p) \/ AdjustCommit(p)
             \/ CleanupScan(p) \/ Crash(p) \/ Fail(p)
             \/ \E u \in Units, n \in Adjustments : AdjustRead(p, u, n)
      PROVE  SettledIsActive'
  BY <1>4 DEF ReserveConflict, ConvertCheck, AdjustCommit, CleanupScan, Crash, Fail,
              AdjustRead, SettledIsActive, Settling
<1>5. CASE (\E o \in Orders : Lapse(o)) \/ UNCHANGED vars
  BY <1>5 DEF Lapse, vars, SettledIsActive, Settling
<1> QED BY <1>1, <1>2, <1>3, <1>4, <1>5, NextCases

LEMMA NextStockIsUnsold ==
    ASSUME VersionInv, SettledIsActive, StockIsUnsold, [Next]_vars
    PROVE  StockIsUnsold'
<1>0. TypeOK /\ ReservesInFlight
  BY DEF VersionInv
<1> USE <1>0, OrdersAssumption, StockAssumption
<1> SUFFICES ASSUME NEW u \in Units
             PROVE  stock'[u] = received'[u] - SoldQty(u)'
  BY DEF StockIsUnsold
<1>1. /\ stock[u] = received[u] - SoldQty(u) /\ stock[u] \in Int
      /\ received[u] \in Int /\ SoldQty(u) \in Nat
  BY HeldSoldNat DEF StockIsUnsold, TypeOK
<1>2. ASSUME UNCHANGED <<stock, received, status>>
      PROVE  stock'[u] = received'[u] - SoldQty(u)'
  BY <1>1, <1>2, HeldSoldFrame
<1>3. ASSUME NEW p \in Procs, ReserveCommit(p)
      PROVE  stock'[u] = received'[u] - SoldQty(u)'
  <2>1. /\ job[p].order \in Orders /\ status[job[p].order] = "none"
        /\ status' = [status EXCEPT ![job[p].order] = "active"]
        /\ UNCHANGED <<stock, received>>
    BY <1>3 DEF ReserveCommit, TypeOK, Job, ReservesInFlight, ledger
  <2>2. SoldQty(u)' = SoldQty(u)
    BY <2>1, HeldSoldReserve
  <2> QED BY <1>1, <2>1, <2>2
<1>4. ASSUME NEW p \in Procs, ConvertCommit(p)
      PROVE  stock'[u] = received'[u] - SoldQty(u)'
  <2>1. PICK o \in Orders : o = job[p].order
    BY <1>4 DEF ConvertCommit, TypeOK, Job
  <2>2. /\ status[o] = "active"
        /\ status' = [status EXCEPT ![o] = "converted"]
        /\ stock' = [stock EXCEPT ![UnitOf[o]] = @ - Qty[o]]
        /\ received' = received
    BY <1>4, <2>1 DEF ConvertCommit, SettledIsActive, Settling, ledger
  <2>3. SoldQty(u)' = IF u = UnitOf[o] THEN SoldQty(u) + Qty[o] ELSE SoldQty(u)
    BY <2>2, HeldSoldConvert
  <2>4. stock'[u] = IF u = UnitOf[o] THEN stock[u] - Qty[o] ELSE stock[u]
    BY <2>2 DEF TypeOK
  <2>5. Qty[o] \in Nat
    OBVIOUS
  <2> QED BY <1>1, <2>2, <2>3, <2>4, <2>5
<1>5. ASSUME NEW p \in Procs, ReleaseCommit(p)
      PROVE  stock'[u] = received'[u] - SoldQty(u)'
  <2>1. /\ job[p].order \in Orders /\ status[job[p].order] = "active"
        /\ status' = [status EXCEPT ![job[p].order] = "expired"]
        /\ UNCHANGED <<stock, received>>
    BY <1>5 DEF ReleaseCommit, TypeOK, Job, SettledIsActive, Settling, ledger
  <2>2. SoldQty(u)' = SoldQty(u)
    BY <2>1, HeldSoldRelease
  <2> QED BY <1>1, <2>1, <2>2
<1>6. ASSUME NEW p \in Procs, AdjustCommit(p)
      PROVE  stock'[u] = received'[u] - SoldQty(u)'
  <2>1. job[p] \in [kind : {"adjust"}, unit : Units, amount : Adjustments]
    BY <1>6 DEF AdjustCommit, TypeOK, Job, Idle
  <2>2. PICK v \in Units, n \in Adjustments : v = job[p].unit /\ n = job[p].amount
    BY <2>1
  <2>3. /\ stock' = [stock EXCEPT ![v] = stock[v] + n]
        /\ received' = [received EXCEPT ![v] = @ + n]
        /\ status' = status /\ n \in Int
    BY <1>6, <2>2 DEF AdjustCommit
  <2>4. SoldQty(u)' = SoldQty(u)
    BY <2>3, HeldSoldFrame
  <2>5. /\ stock'[u] = IF u = v THEN stock[u] + n ELSE stock[u]
        /\ received'[u] = IF u = v THEN received[u] + n ELSE received[u]
    BY <2>3 DEF TypeOK
  <2> QED BY <1>1, <2>3, <2>4, <2>5
<1>7. ASSUME NEW p \in Procs,
             \/ \E o \in Orders :
                  ReserveRead(p, o) \/ ConvertRead(p, o) \/ ReleaseRead(p, o)
                  \/ CleanupRelease(p, o)
             \/ ReserveConflict(p) \/ ConvertCheck(p)
             \/ CleanupScan(p) \/ Crash(p) \/ Fail(p)
             \/ \E v \in Units, n \in Adjustments : AdjustRead(p, v, n)
      PROVE  UNCHANGED <<stock, received, status>>
  BY <1>7 DEF ReserveRead, ConvertRead, ReleaseRead, CleanupRelease, ReserveConflict,
              ConvertCheck, CleanupScan, Crash, Fail, AdjustRead, rows, ledger
<1>8. ASSUME (\E o \in Orders : Lapse(o)) \/ UNCHANGED vars
      PROVE  UNCHANGED <<stock, received, status>>
  BY <1>8 DEF Lapse, vars, rows, ledger
<1> QED BY <1>2, <1>3, <1>4, <1>5, <1>6, <1>7, <1>8, NextCases

\* stock_quantity is right to the item, deliveries and withdrawals by hand
\* included, as long as no order is settled by two processes at once: each
\* sale is taken out of it once, and nothing else is.
THEOREM StockOnHandIsUnsold == ExclusiveSpec => []StockIsUnsold
<1> DEFINE Inv == VersionInv /\ Exclusive /\ SettledIsActive /\ StockIsUnsold
<1>1. Init => Inv
  BY InitNoOversellInv DEF NoOversellInv, RowsGood, StockIsUnsold
<1>2. Inv /\ [ExclusiveNext]_vars => Inv'
  <2>1. Exclusive /\ [ExclusiveNext]_vars => [Next]_vars /\ Exclusive'
    BY DEF ExclusiveNext, vars, Exclusive, Settling
  <2> QED BY <2>1, NextVersionInv, NextSettledIsActive, NextStockIsUnsold
<1>3. Inv => StockIsUnsold
  OBVIOUS
<1> QED BY <1>1, <1>2, <1>3, PTL DEF ExclusiveSpec

-------------------------------------------------------------------------------
(* The reservations implement the ledger                                   *)

FreeStock == [u \in Units |-> received[u] - Held(u) - SoldQty(u)]

LEMMA FreeStockNext ==
    ASSUME NEW u \in Units
    PROVE  FreeStock[u] = received[u] - Held(u) - SoldQty(u)
  BY DEF FreeStock

\* A step that changes no status and brings no stock is none of the ledger's.
LEMMA LedgerStutters ==
    ASSUME UNCHANGED <<status, received>>
    PROVE  FreeStock' = FreeStock /\ status' = status
<1>1. \A u \in Units : Held(u)' = Held(u) /\ SoldQty(u)' = SoldQty(u)
  BY HeldSoldFrame
<1> QED BY <1>1 DEF FreeStock

LEMMA InitImplementsLedger == Init => Ledger!Init
<1> SUFFICES ASSUME Init PROVE FreeStock = InitialStock
  BY DEF Init, Ledger!Init, FreeStock
<1>1. ASSUME NEW u \in Units
      PROVE  received[u] - Held(u) - SoldQty(u) = InitialStock[u]
  <2>1. Pieces(Active(u)) = {} /\ Pieces(Sold(u)) = {}
    BY DEF Init, Active, Sold, Pieces
  <2>2. Held(u) = 0 /\ SoldQty(u) = 0
    BY <2>1, FS_EmptySet DEF Held, SoldQty
  <2> QED BY <2>2, StockAssumption DEF Init
<1> QED BY <1>1, StockAssumption DEF FreeStock

LEMMA NextImplementsLedger ==
    ASSUME \A n \in Adjustments : n > 0
    PROVE  NoOversellInv /\ [ExclusiveNext]_vars => [Ledger!Next]_(Ledger!vars)
<1> DEFINE Goal == \/ \E o \in Orders : Ledger!Hold(o) \/ Ledger!Sell(o) \/ Ledger!GiveBack(o)
                   \/ \E u \in Units, n \in Adjustments : Ledger!Receive(u, n)
                   \/ FreeStock' = FreeStock /\ status' = status
<1> SUFFICES ASSUME NoOversellInv, [ExclusiveNext]_vars PROVE Goal
  BY DEF Ledger!Next, Ledger!vars, FreeStock
<1>0. /\ TypeOK /\ ReservesInFlight /\ SettledIsActive /\ RowsGood /\ ReadsGood
      /\ [Next]_vars
  BY DEF NoOversellInv, VersionInv, ExclusiveNext, vars
<1> USE <1>0, OrdersAssumption, StockAssumption
<1>1. ASSUME NEW p \in Procs, ReserveCommit(p)
      PROVE  Goal
  <2>1. PICK o \in Orders : o = job[p].order
    BY <1>1 DEF ReserveCommit, TypeOK, Job
  <2>2. PICK u \in Units : u = UnitOf[o]
    OBVIOUS
  <2>3. Matching(p) /\ status[o] = "none" /\ Qty[o] \in Nat
    BY <1>1, <2>1, <2>2 DEF ReserveCommit, ReservesInFlight, Matching
  <2>4. status' = [status EXCEPT ![o] = "active"] /\ received' = received
    BY <1>1, <2>1 DEF ReserveCommit, ledger
  <2>5. \A v \in Units :
          /\ Held(v)' = IF v = u THEN Held(v) + Qty[o] ELSE Held(v)
          /\ SoldQty(v)' = SoldQty(v)
          /\ Held(v) \in Nat /\ SoldQty(v) \in Nat /\ received[v] \in Int
    BY <2>2, <2>3, <2>4, HeldSoldReserve, HeldSoldNat DEF TypeOK
  <2>6. FreeStock[u] >= Qty[o]
    <3>1. Held(u) + Qty[o] <= stock[u]
      BY <2>1, <2>2, <2>3 DEF ReadsGood
    <3>2. stock[u] = received[u] - SoldQty(u) /\ stock[u] \in Int
      BY DEF RowsGood, TypeOK
    <3>3. FreeStock[u] = received[u] - Held(u) - SoldQty(u)
      BY FreeStockNext
    <3> QED BY <2>3, <2>5, <3>1, <3>2, <3>3
  <2>7. FreeStock' = [FreeStock EXCEPT ![u] = @ - Qty[o]]
    <3>1. ASSUME NEW v \in Units
          PROVE  received'[v] - Held(v)' - SoldQty(v)'
                   = IF v = u THEN FreeStock[v] - Qty[o] ELSE FreeStock[v]
      BY <2>3, <2>4, <2>5, FreeStockNext
    <3> QED BY <3>1 DEF FreeStock
  <2>8. Ledger!Hold(o)
    BY <2>2, <2>3, <2>4, <2>6, <2>7 DEF Ledger!Hold, FreeStock
  <2> QED BY <2>8
<1>2. ASSUME NEW p \in Procs, ConvertCommit(p)
      PROVE  Goal
  <2>1. PICK o \in Orders : o = job[p].order
    BY <1>2 DEF ConvertCommit, TypeOK, Job
  <2>2. PICK u \in Units : u = UnitOf[o]
    OBVIOUS
  <2>3. status[o] = "active" /\ Qty[o] \in Nat
    BY <1>2, <2>1 DEF ConvertCommit, SettledIsActive, Settling
  <2>4. status' = [status EXCEPT ![o] = "converted"] /\ received' = received
    BY <1>2, <2>1 DEF ConvertCommit, ledger
  <2>5. ASSUME NEW v \in Units
        PROVE  received'[v] - Held(v)' - SoldQty(v)' = received[v] - Held(v) - SoldQty(v)
    <3>1. /\ Held(v)' = IF v = u THEN Held(v) - Qty[o] ELSE Held(v)
          /\ SoldQty(v)' = IF v = u THEN SoldQty(v) + Qty[o] ELSE SoldQty(v)
          /\ Held(v) \in Nat /\ SoldQty(v) \in Nat /\ received[v] \in Int
      BY <2>2, <2>3, <2>4, HeldSoldConvert, HeldSoldNat DEF TypeOK
    <3> QED BY <2>3, <2>4, <3>1
  <2>6. FreeStock' = FreeStock
    BY <2>5 DEF FreeStock
  <2>7. Ledger!Sell(o)
    BY <2>3, <2>4, <2>6 DEF Ledger!Sell, FreeStock
  <2> QED BY <2>7
<1>3. ASSUME NEW p \in Procs, ReleaseCommit(p)
      PROVE  Goal
  <2>1. PICK o \in Orders : o = job[p].order
    BY <1>3 DEF ReleaseCommit, TypeOK, Job
  <2>2. PICK u \in Units : u = UnitOf[o]
    OBVIOUS
  <2>3. status[o] = "active" /\ Qty[o] \in Nat
    BY <1>3, <2>1 DEF ReleaseCommit, SettledIsActive, Settling
  <2>4. status' = [status EXCEPT ![o] = "expired"] /\ received' = received
    BY <1>3, <2>1 DEF ReleaseCommit, ledger
  <2>5. FreeStock' = [FreeStock EXCEPT ![u] = @ + Qty[o]]
    <3>1. ASSUME NEW v \in Units
          PROVE  received'[v] - Held(v)' - SoldQty(v)'
                   = IF v = u THEN FreeStock[v] + Qty[o] ELSE FreeStock[v]
      <4>1. /\ Held(v)' = IF v = u THEN Held(v) - Qty[o] ELSE Held(v)
            /\ SoldQty(v)' = SoldQty(v)
            /\ Held(v) \in Nat /\ SoldQty(v) \in Nat /\ received[v] \in Int
        BY <2>2, <2>3, <2>4, HeldSoldRelease, HeldSoldNat DEF TypeOK
      <4> QED BY <2>3, <2>4, <4>1, FreeStockNext
    <3> QED BY <3>1 DEF FreeStock
  <2>6. Ledger!GiveBack(o)
    BY <2>2, <2>3, <2>4, <2>5 DEF Ledger!GiveBack, FreeStock
  <2> QED BY <2>6
<1>4. ASSUME NEW p \in Procs, AdjustCommit(p)
      PROVE  Goal
  <2>0. job[p].unit \in Units /\ job[p].amount \in Adjustments
    <3>1. job[p] \in [kind : {"adjust"}, unit : Units, amount : Adjustments]
      BY <1>4 DEF AdjustCommit, TypeOK, Job, Idle
    <3> QED BY <3>1
  <2>1. PICK u \in Units, n \in Adjustments : u = job[p].unit /\ n = job[p].amount
    BY <2>0
  <2>2. /\ received' = [received EXCEPT ![u] = @ + n]
        /\ status' = status /\ n \in Int
    BY <1>4, <2>1 DEF AdjustCommit
  <2>3. FreeStock' = [FreeStock EXCEPT ![u] = @ + n]
    <3>1. ASSUME NEW v \in Units
          PROVE  received'[v] - Held(v)' - SoldQty(v)'
                   = IF v = u THEN FreeStock[v] + n ELSE FreeStock[v]
      <4>1. /\ Held(v)' = Held(v) /\ SoldQty(v)' = SoldQty(v)
            /\ Held(v) \in Nat /\ SoldQty(v) \in Nat /\ received[v] \in Int
            /\ received'[v] = IF v = u THEN received[v] + n ELSE received[v]
        BY <2>2, HeldSoldFrame, HeldSoldNat DEF TypeOK
      <4> QED BY <2>2, <4>1, FreeStockNext
    <3> QED BY <3>1 DEF FreeStock
  <2>4. Ledger!Receive(u, n)
    BY <2>2, <2>3 DEF Ledger!Receive, FreeStock
  <2> QED BY <2>4
<1>5. ASSUME UNCHANGED <<status, received>>
      PROVE  Goal
  BY <1>5, LedgerStutters
<1>6. ASSUME NEW p \in Procs,
             \/ \E o \in Orders :
                  ReserveRead(p, o) \/ ConvertRead(p, o) \/ ReleaseRead(p, o)
                  \/ CleanupRelease(p, o)
             \/ ReserveConflict(p) \/ ConvertCheck(p)
             \/ CleanupScan(p) \/ Crash(p) \/ Fail(p)
             \/ \E u \in Units, n \in Adjustments : AdjustRead(p, u, n)
      PROVE  UNCHANGED <<status, received>>
  BY <1>6 DEF ReserveRead, ConvertRead, ReleaseRead, CleanupRelease, ReserveConflict,
              ConvertCheck, CleanupScan, Crash, Fail, AdjustRead, ledger
<1>7. ASSUME (\E o \in Orders : Lapse(o)) \/ UNCHANGED vars
      PROVE  UNCHANGED <<status, received>>
  BY <1>7 DEF Lapse, vars, ledger
<1> QED BY <1>1, <1>2, <1>3, <1>4, <1>5, <1>6, <1>7, NextCases

\* Under the same two provisos the whole machinery of rows, versions and
\* transactions does what StockLedger promises: a checkout takes stock nobody
\* else has, and what it took is sold or given back once.
THEOREM ReservationImplementsLedger ==
    ASSUME \A n \in Adjustments : n > 0
    PROVE  ExclusiveSpec => ImplementsLedger
<1> QED BY InitNoOversellInv, NextNoOversellInv, InitImplementsLedger,
           NextImplementsLedger, PTL
           DEF ExclusiveSpec, ImplementsLedger, Ledger!Spec

USE DEF NoCall

-------------------------------------------------------------------------------
(* Steps and types                                                         *)

\* The steps of the requests, one disjunct per action.
LEMMA OrderCases ==
    ASSUME OrderNext
    PROVE  \/ \E p \in Procs, o \in Orders :
                Checkout(p, o) \/ Confirm(p, o) \/ Cancel(p, o) \/ UpdateShipping(p, o)
           \/ \E p \in Procs, o \in Orders, to \in Targets : UpdateStatus(p, o, to)
           \/ \E p \in Procs :
                \/ GenerateOrderNumber(p) \/ PlaceRead(p) \/ PlaceCommit(p)
                \/ PlaceRefused(p) \/ ConfirmConvert(p) \/ MarkPaid(p)
                \/ CancelRelease(p) \/ MarkCancelled(p) \/ Move(p)
                \/ Break(p) \/ Worker(p)
           \/ \E o \in Orders : TimePasses(o)
  BY DEF OrderNext, OrderStep, Create, Pay, CallOff, MoveOn

\* What a call that is not NoCall remembers.
LEMMA CallFields ==
    ASSUME OrderTypeOK, NEW p \in Procs, call[p] # NoCall
    PROVE  /\ call[p].order \in Orders
           /\ call[p].op = "place" => call[p].number \in Nat
           /\ call[p].op = "move" => call[p].to \in OrderStatus
           /\ call[p].op \in {"confirm", "cancel"} => call[p].settled \in BOOLEAN
           /\ call[p].op \in {"checkout", "place", "confirm", "cancel", "move"}
  BY DEF OrderTypeOK, Call

\* The requests use the reservations as their processes may: what an order
\* step does to the stock is a step of StockReservation, or nothing.
LEMMA NextImplementsReservation ==
    ASSUME OrderTypeOK, JobsServeCalls, [OrderNext]_allVars
    PROVE  [Next]_vars
<1>1. ASSUME NEW p \in Procs, PlaceRead(p)
      PROVE  Next
  <2>1. p \notin Cleaners /\ call[p].order \in Orders
    BY <1>1, CallFields DEF PlaceRead, JobsServeCalls
  <2> QED BY <1>1, <2>1 DEF PlaceRead, Next, Step, Reserve
<1>2. ASSUME NEW p \in Procs, PlaceCommit(p)
      PROVE  Next
  BY <1>2 DEF PlaceCommit, JobsServeCalls, Next, Step, Reserve
<1>3. ASSUME NEW p \in Procs, PlaceRefused(p)
      PROVE  Next \/ UNCHANGED vars
  BY <1>3 DEF PlaceRefused, JobsServeCalls, Next, Step, Reserve
<1>4. ASSUME NEW p \in Procs, ConfirmConvert(p)
      PROVE  Next \/ UNCHANGED vars
  <2>1. p \notin Cleaners /\ call[p].order \in Orders
    BY <1>4, CallFields DEF ConfirmConvert, JobsServeCalls
  <2> QED BY <1>4, <2>1 DEF ConfirmConvert, Next, Step, Convert
<1>5. ASSUME NEW p \in Procs, CancelRelease(p)
      PROVE  Next \/ UNCHANGED vars
  <2>1. p \notin Cleaners /\ call[p].order \in Orders
    BY <1>5, CallFields DEF CancelRelease, JobsServeCalls
  <2> QED BY <1>5, <2>1 DEF CancelRelease, Next, Step, Release
<1>6. ASSUME NEW p \in Procs, Break(p) \/ Worker(p)
      PROVE  Next \/ UNCHANGED vars
  BY <1>6 DEF Break, Worker, Next, Step
<1>7. ASSUME NEW o \in Orders, TimePasses(o)
      PROVE  Next
  BY <1>7 DEF TimePasses, Next
<1>8. ASSUME NEW p \in Procs,
             \/ \E o \in Orders : Checkout(p, o) \/ Confirm(p, o) \/ Cancel(p, o)
                                  \/ UpdateShipping(p, o)
             \/ \E o \in Orders, to \in Targets : UpdateStatus(p, o, to)
             \/ GenerateOrderNumber(p) \/ MarkPaid(p) \/ MarkCancelled(p) \/ Move(p)
      PROVE  UNCHANGED vars
  BY <1>8 DEF Checkout, Confirm, Cancel, UpdateShipping, UpdateStatus,
              GenerateOrderNumber, MarkPaid, MarkCancelled, Move
<1>9. CASE UNCHANGED allVars
  BY <1>9 DEF allVars
<1> QED BY <1>1, <1>2, <1>3, <1>4, <1>5, <1>6, <1>7, <1>8, <1>9, OrderCases

LEMMA InitOrderTypeOK == OrderInit => OrderTypeOK
  BY InitTypeOK DEF OrderInit, OrderTypeOK, Call, OrderStatus

LEMMA NextOrderTypeOK ==
    ASSUME OrderTypeOK, JobsServeCalls, [OrderNext]_allVars
    PROVE  OrderTypeOK'
<1>1. TypeOK'
  BY NextImplementsReservation, NextTypeOK DEF OrderTypeOK
<1> SUFFICES /\ number' \in [Orders -> Nat]
             /\ orderStatus' \in [Orders -> OrderStatus]
             /\ payStatus' \in [Orders -> {"pending", "paid"}]
             /\ call' \in [Procs -> Call]
             /\ cancels' \subseteq Orders
             /\ interrupted' \subseteq Orders
  BY <1>1 DEF OrderTypeOK
<1> USE TargetsAssumption DEF OrderTypeOK, Serves, orderRows, history
<1>2. ASSUME NEW p \in Procs, NEW o \in Orders,
             Checkout(p, o) \/ Confirm(p, o) \/ Cancel(p, o) \/ UpdateShipping(p, o)
      PROVE  OrderTypeOK'
  <2>1. PICK c \in Call : call' = [call EXCEPT ![p] = c]
    <3>1. CASE Checkout(p, o)
      BY <3>1 DEF Checkout, Call
    <3>2. CASE Confirm(p, o)
      BY <3>2 DEF Confirm, Call
    <3>3. CASE Cancel(p, o)
      BY <3>3 DEF Cancel, Call
    <3>4. CASE UpdateShipping(p, o)
      BY <3>4 DEF UpdateShipping, Call, OrderStatus
    <3> QED BY <1>2, <3>1, <3>2, <3>3, <3>4
  <2> QED BY <1>1, <1>2, <2>1 DEF Checkout, Confirm, Cancel, UpdateShipping
<1>3. ASSUME NEW p \in Procs, NEW o \in Orders, NEW to \in Targets, UpdateStatus(p, o, to)
      PROVE  OrderTypeOK'
  BY <1>1, <1>3 DEF UpdateStatus, Call
<1>4. ASSUME NEW p \in Procs, GenerateOrderNumber(p)
      PROVE  OrderTypeOK'
  <2>1. call[p].order \in Orders
    BY <1>4, CallFields DEF GenerateOrderNumber
  <2>2. NextNumber \in Nat
    <3>1. IsFiniteSet({o \in Orders : Exists(o)})
      BY OrdersAssumption, FS_Subset
    <3> QED BY <3>1, FS_CardinalityType DEF NextNumber
  <2> QED BY <1>1, <1>4, <2>1, <2>2 DEF GenerateOrderNumber, Call
<1>5. ASSUME NEW p \in Procs, PlaceCommit(p)
      PROVE  OrderTypeOK'
  <2>1. call[p].order \in Orders /\ call[p].number \in Nat
    BY <1>5, CallFields DEF PlaceCommit
  <2> QED BY <1>1, <1>5, <2>1 DEF PlaceCommit, Call, OrderStatus
<1>6. ASSUME NEW p \in Procs, PlaceRead(p) \/ PlaceRefused(p)
      PROVE  OrderTypeOK'
  BY <1>1, <1>6 DEF PlaceRead, PlaceRefused, orderVars, Call
<1>7. ASSUME NEW p \in Procs, ConfirmConvert(p) \/ CancelRelease(p)
      PROVE  OrderTypeOK'
  <2>1. [call[p] EXCEPT !.settled = TRUE] \in Call
    BY <1>7 DEF ConfirmConvert, CancelRelease, Call
  <2> QED BY <1>1, <1>7, <2>1 DEF ConfirmConvert, CancelRelease, Settled
<1>8. ASSUME NEW p \in Procs, MarkPaid(p) \/ MarkCancelled(p) \/ Move(p)
      PROVE  OrderTypeOK'
  <2>1. call[p].order \in Orders /\ (call[p].op = "move" => call[p].to \in OrderStatus)
    BY <1>8, CallFields DEF MarkPaid, MarkCancelled, Move
  <2> QED BY <1>1, <1>8, <2>1 DEF MarkPaid, MarkCancelled, Move, Call, OrderStatus
<1>9. ASSUME NEW p \in Procs, Break(p)
      PROVE  OrderTypeOK'
  <2>1. call[p].order \in Orders
    BY <1>9, CallFields DEF Break
  <2> QED BY <1>1, <1>9, <2>1 DEF Break, Call
<1>10. CASE (\E p \in Procs : Worker(p)) \/ (\E o \in Orders : TimePasses(o))
            \/ UNCHANGED allVars
  BY <1>1, <1>10 DEF Worker, TimePasses, orderVars, allVars
<1> QED BY <1>2, <1>3, <1>4, <1>5, <1>6, <1>7, <1>8, <1>9, <1>10, OrderCases
-------------------------------------------------------------------------------
(* However the requests interleave                                         *)

LEMMA InitOrderInv == OrderInit => OrderInv
<1> SUFFICES ASSUME OrderInit PROVE OrderInv
  OBVIOUS
<1>1. OrderTypeOK /\ VersionInv
  BY InitOrderTypeOK, InitVersionInv DEF OrderInit
<1>2. JobsServeCalls /\ CallsKnowOrders /\ OrdersHaveReservations /\ ReleasedForReason
  BY DEF OrderInit, Init, JobsServeCalls, CallsKnowOrders, OrdersHaveReservations,
         ReleasedForReason, Exists
<1>3. SettledIsOver /\ SoldIsPaid /\ PaidInTimeIsSold
  BY DEF OrderInit, Init, SettledIsOver, SoldIsPaid, PaidInTimeIsSold
<1> QED BY <1>1, <1>2, <1>3 DEF OrderInv

\* A reservation that was sold or given back may change between the two, by
\* transactions that found it active before, but never is active again.
LEMMA OverStaysOver ==
    ASSUME VersionInv, [Next]_vars
    PROVE  /\ due \subseteq due'
           /\ \A o \in Orders :
                /\ status[o] # "none" => status'[o] # "none"
                /\ status[o] \in {"converted", "expired"} =>
                       status'[o] \in {"converted", "expired"}
<1> SUFFICES ASSUME NEW x
             PROVE  /\ due \subseteq due'
                    /\ x \in Orders =>
                         /\ status[x] # "none" => status'[x] # "none"
                         /\ status[x] \in {"converted", "expired"} =>
                                status'[x] \in {"converted", "expired"}
  OBVIOUS
<1> USE DEF VersionInv, TypeOK, rows
<1>1. ASSUME NEW p \in Procs, ReserveCommit(p), x \in Orders
      PROVE  status[x] = status'[x] \/ (status[x] = "none" /\ status'[x] = "active")
  <2>1. /\ status[job[p].order] = "none"
        /\ status' = [status EXCEPT ![job[p].order] = "active"]
    BY <1>1 DEF ReserveCommit, ReservesInFlight
  <2> QED BY <2>1
<1>2. ASSUME NEW p \in Procs, ConvertCommit(p) \/ ReleaseCommit(p), x \in Orders
      PROVE  \/ status[x] = status'[x]
             \/ status[x] # "none" /\ status'[x] \in {"converted", "expired"}
  BY <1>2 DEF ConvertCommit, ReleaseCommit, SettledWasMade, Settling, Job
<1>3. ASSUME NEW p \in Procs, ReserveCommit(p) \/ ConvertCommit(p) \/ ReleaseCommit(p)
      PROVE  due' = due
  BY <1>3 DEF ReserveCommit, ConvertCommit, ReleaseCommit
<1>4. ASSUME NEW p \in Procs,
             \/ \E o \in Orders :
                  ReserveRead(p, o) \/ ConvertRead(p, o) \/ ReleaseRead(p, o)
                  \/ CleanupRelease(p, o)
             \/ ReserveConflict(p) \/ ConvertCheck(p) \/ AdjustCommit(p)
             \/ CleanupScan(p) \/ Crash(p) \/ Fail(p)
             \/ \E u \in Units, n \in Adjustments : AdjustRead(p, u, n)
      PROVE  UNCHANGED <<status, due>>
  BY <1>4 DEF ReserveRead, ConvertRead, ReleaseRead, CleanupRelease, ReserveConflict,
              ConvertCheck, AdjustCommit, CleanupScan, Crash, Fail, AdjustRead
<1>5. ASSUME (\E o \in Orders : Lapse(o)) \/ UNCHANGED vars
      PROVE  status' = status /\ due \subseteq due'
  BY <1>5 DEF Lapse, vars
<1> QED BY <1>1, <1>2, <1>3, <1>4, <1>5, NextCases

\* The order a checkout inserts is new.
LEMMA PlacedIsNew ==
    ASSUME OrderInv, NEW p \in Procs, PlaceCommit(p)
    PROVE  LET o == call[p].order
           IN  /\ o \in Orders /\ o = job[p].order
               /\ status[o] = "none" /\ ~Exists(o)
               /\ status' = [status EXCEPT ![o] = "active"]
               /\ job' = [job EXCEPT ![p] = Idle]
<1>1. /\ job[p].kind = "reserve" /\ VersionMatches(p)
      /\ status' = [status EXCEPT ![job[p].order] = "active"]
      /\ job' = [job EXCEPT ![p] = Idle]
  BY DEF PlaceCommit, ReserveCommit, Becomes
<1>2. job[p].order = call[p].order /\ status[job[p].order] = "none"
  BY <1>1 DEF OrderInv, VersionInv, JobsServeCalls, ReservesInFlight
<1>3. call[p].order \in Orders
  BY CallFields DEF OrderInv, PlaceCommit
<1> QED BY <1>1, <1>2, <1>3 DEF OrderInv, OrdersHaveReservations

\* Only the transaction that places an order writes an order number.
LEMMA NumberCases ==
    ASSUME [OrderNext]_allVars
    PROVE  number' = number \/ \E p \in Procs : PlaceCommit(p)
<1>1. ASSUME NEW p \in Procs,
             \/ \E o \in Orders : Checkout(p, o) \/ Confirm(p, o) \/ Cancel(p, o)
                                  \/ UpdateShipping(p, o)
             \/ \E o \in Orders, to \in Targets : UpdateStatus(p, o, to)
             \/ GenerateOrderNumber(p) \/ PlaceRead(p) \/ PlaceRefused(p)
             \/ ConfirmConvert(p) \/ MarkPaid(p) \/ CancelRelease(p)
             \/ MarkCancelled(p) \/ Move(p) \/ Break(p) \/ Worker(p)
      PROVE  number' = number
  BY <1>1 DEF Checkout, Confirm, Cancel, UpdateShipping, UpdateStatus, GenerateOrderNumber,
              PlaceRead, PlaceRefused, ConfirmConvert, MarkPaid, CancelRelease,
              MarkCancelled, Move, Break, Worker, orderVars, orderRows
<1>2. ASSUME (\E o \in Orders : TimePasses(o)) \/ UNCHANGED allVars
      PROVE  number' = number
  BY <1>2 DEF TimePasses, allVars, orderVars, orderRows
<1> QED BY <1>1, <1>2, OrderCases

\* No order is ever deleted.
LEMMA OrdersStay ==
    ASSUME OrderInv, [OrderNext]_allVars, NEW o \in Orders, Exists(o)
    PROVE  Exists(o)'
<1>1. ASSUME NEW p \in Procs, PlaceCommit(p)
      PROVE  Exists(o)'
  <2>1. o # call[p].order /\ call[p].order \in Orders
    BY <1>1, PlacedIsNew
  <2> QED BY <1>1, <2>1 DEF PlaceCommit, Exists, OrderInv, OrderTypeOK
<1> QED BY <1>1, NumberCases DEF Exists

LEMMA NextJobsServeCalls ==
    ASSUME OrderInv, [OrderNext]_allVars
    PROVE  JobsServeCalls'
<1>0. OrderTypeOK /\ TypeOK /\ JobsServeCalls
  BY DEF OrderInv, OrderTypeOK
<1> USE <1>0 DEF JobsServeCalls, OrderTypeOK, TypeOK, Serves, Becomes
<1>1. ASSUME NEW p \in Procs,
             \/ \E o \in Orders : Checkout(p, o) \/ Confirm(p, o) \/ Cancel(p, o)
                                  \/ UpdateShipping(p, o)
             \/ \E o \in Orders, to \in Targets : UpdateStatus(p, o, to)
      PROVE  JobsServeCalls'
  <2>1. Free(p) /\ job' = job /\ \E x : call' = [call EXCEPT ![p] = x]
    BY <1>1 DEF Checkout, Confirm, Cancel, UpdateShipping, UpdateStatus, vars
  <2> QED BY <2>1 DEF Free
<1>2. ASSUME NEW p \in Procs, GenerateOrderNumber(p)
      PROVE  JobsServeCalls'
  BY <1>2 DEF GenerateOrderNumber, vars
<1>3. ASSUME NEW p \in Procs, PlaceRead(p)
      PROVE  JobsServeCalls'
  BY <1>3 DEF PlaceRead, ReserveRead, orderVars
<1>4. ASSUME NEW p \in Procs, PlaceCommit(p) \/ PlaceRefused(p) \/ Break(p)
      PROVE  JobsServeCalls'
  <2>1. job'[p] = Idle /\ \A q \in Procs \ {p} : job'[q] = job[q]
    BY <1>4 DEF PlaceCommit, PlaceRefused, Break, ReserveCommit, ReserveConflict, Fail, vars
  <2>2. call' = [call EXCEPT ![p] = NoCall]
    BY <1>4 DEF PlaceCommit, PlaceRefused, Break
  <2> QED BY <2>1, <2>2
<1>5. ASSUME NEW p \in Procs, ConfirmConvert(p)
      PROVE  JobsServeCalls'
  <2>1. CASE ConvertRead(p, call[p].order) /\ UNCHANGED call
    BY <1>5, <2>1 DEF ConfirmConvert, ConvertRead
  <2>2. CASE ConvertCheck(p) /\ UNCHANGED call
    BY <1>5, <2>2 DEF ConfirmConvert, ConvertCheck
  <2>3. CASE ConvertCommit(p) /\ Settled(p)
    BY <1>5, <2>3 DEF ConfirmConvert, ConvertCommit, Settled
  <2>4. CASE job[p] = Idle /\ Settled(p) /\ UNCHANGED vars
    BY <1>5, <2>4 DEF ConfirmConvert, Settled, vars
  <2> QED BY <1>5, <2>1, <2>2, <2>3, <2>4 DEF ConfirmConvert
<1>6. ASSUME NEW p \in Procs, CancelRelease(p)
      PROVE  JobsServeCalls'
  <2>1. CASE ReleaseRead(p, call[p].order) /\ UNCHANGED call
    BY <1>6, <2>1 DEF CancelRelease, ReleaseRead, StartRelease
  <2>2. CASE ReleaseCommit(p) /\ Settled(p)
    BY <1>6, <2>2 DEF CancelRelease, ReleaseCommit, Settled
  <2>3. CASE job[p] = Idle /\ Settled(p) /\ UNCHANGED vars
    BY <1>6, <2>3 DEF CancelRelease, Settled, vars
  <2> QED BY <1>6, <2>1, <2>2, <2>3 DEF CancelRelease
<1>7. ASSUME NEW p \in Procs, MarkPaid(p) \/ MarkCancelled(p) \/ Move(p)
      PROVE  JobsServeCalls'
  <2>1. /\ job[p].kind \notin {"reserve", "convert", "settle"}
        /\ p \notin Cleaners /\ job[p].kind # "release"
        /\ job' = job /\ call' = [call EXCEPT ![p] = NoCall]
    BY <1>7 DEF MarkPaid, MarkCancelled, Move, vars
  <2> QED BY <2>1
<1>8. ASSUME NEW p \in Procs, Worker(p)
      PROVE  JobsServeCalls'
  <2>1. /\ \/ job'[p] = job[p]
           \/ job'[p].kind \in {"idle", "adjust"}
           \/ p \in Cleaners /\ job'[p].kind = "release"
        /\ \A q \in Procs \ {p} : job'[q] = job[q]
        /\ call' = call
    BY <1>8 DEF Worker, Cleanup, Adjust, Fail, CleanupScan, CleanupRelease, StartRelease,
                ReleaseCommit, Crash, AdjustRead, AdjustCommit, orderVars
  <2> QED BY <2>1
<1>9. CASE (\E o \in Orders : TimePasses(o)) \/ UNCHANGED allVars
  BY <1>9 DEF TimePasses, Lapse, orderVars, allVars, vars
<1> QED BY <1>1, <1>2, <1>3, <1>4, <1>5, <1>6, <1>7, <1>8, <1>9, OrderCases

LEMMA NextCallsKnowOrders ==
    ASSUME OrderInv, [OrderNext]_allVars
    PROVE  CallsKnowOrders'
<1>0. OrderTypeOK /\ CallsKnowOrders
  BY DEF OrderInv
<1> SUFFICES ASSUME NEW q \in Procs, call'[q].op \in {"confirm", "cancel", "move"}
             PROVE  number'[call'[q].order] # 0
  BY DEF CallsKnowOrders, Exists
<1>1. ASSUME call[q].op = call'[q].op, call[q].order = call'[q].order
      PROVE  number'[call'[q].order] # 0
  <2>1. call[q].order \in Orders /\ Exists(call[q].order)
    BY <1>0, <1>1, CallFields DEF CallsKnowOrders
  <2> QED BY <1>1, <2>1, OrdersStay DEF Exists
<1>2. \/ call[q].op = call'[q].op /\ call[q].order = call'[q].order
      \/ call'[q].order \in Orders /\ Exists(call'[q].order)
  <2> USE <1>0 DEF OrderTypeOK, Serves
  <2>1. ASSUME NEW p \in Procs,
               \/ \E o \in Orders : Confirm(p, o) \/ Cancel(p, o) \/ UpdateShipping(p, o)
               \/ \E o \in Orders, to \in Targets : UpdateStatus(p, o, to)
        PROVE  \/ call'[q] = call[q]
               \/ call'[q].order \in Orders /\ Exists(call'[q].order)
    BY <2>1 DEF Confirm, Cancel, UpdateShipping, UpdateStatus
  <2>2. ASSUME NEW p \in Procs,
               \/ \E o \in Orders : Checkout(p, o)
               \/ GenerateOrderNumber(p) \/ PlaceRead(p) \/ PlaceCommit(p)
               \/ PlaceRefused(p) \/ MarkPaid(p) \/ MarkCancelled(p) \/ Move(p)
               \/ Break(p) \/ Worker(p)
        PROVE  call'[q] = call[q]
    BY <2>2 DEF Checkout, GenerateOrderNumber, PlaceRead, PlaceCommit, PlaceRefused,
                MarkPaid, MarkCancelled, Move, Break, Worker, orderVars
  <2>3. ASSUME NEW p \in Procs, ConfirmConvert(p) \/ CancelRelease(p)
        PROVE  call[q].op = call'[q].op /\ call[q].order = call'[q].order
    <3>1. \/ call' = call
          \/ call[p].op \in {"confirm", "cancel"} /\ Settled(p)
      BY <2>3 DEF ConfirmConvert, CancelRelease
    <3>2. ASSUME call[p].op \in {"confirm", "cancel"}
          PROVE  LET c == [call[p] EXCEPT !.settled = TRUE]
                 IN  c.op = call[p].op /\ c.order = call[p].order
      BY <3>2 DEF Call
    <3>3. CASE Settled(p) /\ call[p].op \in {"confirm", "cancel"}
      BY <3>2, <3>3 DEF Settled
    <3> QED BY <3>1, <3>3
  <2>4. ASSUME (\E o \in Orders : TimePasses(o)) \/ UNCHANGED allVars
        PROVE  call' = call
    BY <2>4 DEF TimePasses, orderVars, allVars
  <2> QED BY <2>1, <2>2, <2>3, <2>4, OrderCases
<1>3. ASSUME call'[q].order \in Orders, Exists(call'[q].order)
      PROVE  number'[call'[q].order] # 0
  BY <1>3, OrdersStay DEF Exists
<1> QED BY <1>1, <1>2, <1>3

LEMMA NextOrdersHaveReservations ==
    ASSUME OrderInv, [OrderNext]_allVars
    PROVE  OrdersHaveReservations'
<1>0. [Next]_vars /\ VersionInv
  BY NextImplementsReservation DEF OrderInv
<1> SUFFICES ASSUME NEW o \in Orders, Exists(o)' PROVE status'[o] # "none"
  BY DEF OrdersHaveReservations
<1>1. CASE Exists(o)
  BY <1>0, <1>1, OverStaysOver DEF OrderInv, OrdersHaveReservations
<1>2. CASE ~Exists(o)
  <2>1. PICK p \in Procs : PlaceCommit(p)
    BY <1>2, NumberCases DEF Exists
  <2>2. o = call[p].order
    BY <1>2, <2>1 DEF PlaceCommit, Exists, OrderInv, OrderTypeOK
  <2> QED BY <2>1, <2>2, PlacedIsNew DEF OrderInv, OrderTypeOK, TypeOK
<1> QED BY <1>1, <1>2
\* What the stock service itself does about the reasons: the lists of the
\* clean-up job and the reservations that were given back.
LEMMA ReasonsOfSteps ==
    ASSUME OrderInv, [Next]_vars, cancels \subseteq cancels'
    PROVE  /\ \A p \in Procs : todo'[p] \subseteq due'
           /\ \A o \in Orders : status'[o] = "expired" => o \in due' \cup cancels'
<1>0. TypeOK /\ VersionInv /\ ReleasedForReason
  BY DEF OrderInv, OrderTypeOK
<1> USE <1>0 DEF TypeOK, ReleasedForReason, rows
<1>1. ASSUME NEW p \in Procs, ReserveCommit(p) \/ ConvertCommit(p)
      PROVE  /\ UNCHANGED <<todo, due>>
             /\ \A o \in Orders : status'[o] = "expired" => status[o] = "expired"
  BY <1>1 DEF ReserveCommit, ConvertCommit, Job
<1>2. ASSUME NEW p \in Procs, ReleaseCommit(p)
      PROVE  /\ UNCHANGED <<todo, due>>
             /\ \A o \in Orders : status'[o] = "expired" =>
                    status[o] = "expired" \/ o \in due \cup cancels
  BY <1>2 DEF ReleaseCommit, Job
<1>3. ASSUME NEW p \in Procs,
             \/ CleanupScan(p) \/ Crash(p)
             \/ \E x \in Orders : CleanupRelease(p, x)
      PROVE  /\ UNCHANGED <<status, due>>
             /\ \A q \in Procs : todo'[q] \subseteq due
  BY <1>3 DEF CleanupScan, Crash, CleanupRelease, Expired
<1>4. ASSUME NEW p \in Procs,
             \/ \E x \in Orders : ReserveRead(p, x) \/ ConvertRead(p, x) \/ ReleaseRead(p, x)
             \/ ReserveConflict(p) \/ ConvertCheck(p) \/ AdjustCommit(p) \/ Fail(p)
             \/ \E u \in Units, n \in Adjustments : AdjustRead(p, u, n)
      PROVE  UNCHANGED <<status, due, todo>>
  BY <1>4 DEF ReserveRead, ConvertRead, ReleaseRead, ReserveConflict, ConvertCheck,
              AdjustCommit, Fail, AdjustRead
<1>5. ASSUME (\E x \in Orders : Lapse(x)) \/ UNCHANGED vars
      PROVE  UNCHANGED <<status, todo>> /\ due \subseteq due'
  BY <1>5 DEF Lapse, vars
<1> QED BY <1>1, <1>2, <1>3, <1>4, <1>5, NextCases

LEMMA NextReleasedForReason ==
    ASSUME OrderInv, [OrderNext]_allVars
    PROVE  ReleasedForReason'
<1>0. /\ OrderTypeOK /\ TypeOK /\ VersionInv /\ ReleasedForReason
      /\ [Next]_vars /\ due \subseteq due'
  <2>1. [Next]_vars
    BY NextImplementsReservation DEF OrderInv
  <2> QED BY <2>1, OverStaysOver DEF OrderInv, OrderTypeOK
<1> DEFINE Goal == /\ cancels \subseteq cancels'
                   /\ \A q \in Procs :
                        /\ call'[q].op = "cancel" => call'[q].order \in cancels'
                        /\ job'[q].kind = "release" => job'[q].order \in due' \cup cancels'
<1> SUFFICES Goal
  BY <1>0, ReasonsOfSteps DEF ReleasedForReason
<1> USE <1>0 DEF ReleasedForReason, OrderTypeOK, TypeOK, Serves, Becomes
<1>1. ASSUME NEW p \in Procs, NEW o \in Orders, Cancel(p, o)
      PROVE  Goal
  BY <1>1 DEF Cancel, vars
<1>2. ASSUME NEW p \in Procs,
             \/ \E o \in Orders : Checkout(p, o) \/ Confirm(p, o) \/ UpdateShipping(p, o)
             \/ \E o \in Orders, to \in Targets : UpdateStatus(p, o, to)
             \/ GenerateOrderNumber(p) \/ MarkPaid(p) \/ MarkCancelled(p) \/ Move(p)
      PROVE  Goal
  BY <1>2 DEF Checkout, Confirm, UpdateShipping, UpdateStatus, GenerateOrderNumber,
              MarkPaid, MarkCancelled, Move, vars, history
<1>3. ASSUME NEW p \in Procs, PlaceRead(p) \/ PlaceCommit(p) \/ PlaceRefused(p) \/ Break(p)
      PROVE  Goal
  <2>1. /\ cancels' = cancels
        /\ job' = job \/ job'[p].kind # "release"
        /\ \A q \in Procs \ {p} : job'[q] = job[q]
        /\ call' = call \/ call' = [call EXCEPT ![p] = NoCall]
    BY <1>3 DEF PlaceRead, PlaceCommit, PlaceRefused, Break, ReserveRead, ReserveCommit,
                ReserveConflict, Fail, vars, orderVars, history
  <2> QED BY <2>1
<1>4. ASSUME NEW p \in Procs, ConfirmConvert(p) \/ CancelRelease(p)
      PROVE  Goal
  <2>1. /\ cancels' = cancels
        /\ \A q \in Procs \ {p} : job'[q] = job[q]
        /\ call' = call \/ call' = [call EXCEPT ![p] = [call[p] EXCEPT !.settled = TRUE]]
        /\ job'[p].kind = "release" =>
               \/ job'[p] = job[p]
               \/ call[p].op = "cancel" /\ job'[p].order = call[p].order
    BY <1>4 DEF ConfirmConvert, CancelRelease, Settled, ConvertRead, ConvertCheck,
                ConvertCommit, ReleaseRead, StartRelease, ReleaseCommit, vars, history
  <2>2. LET c == [call[p] EXCEPT !.settled = TRUE]
        IN  c.op = "cancel" => call[p].op = "cancel" /\ c.order = call[p].order
    BY <1>4 DEF Call, ConfirmConvert, CancelRelease
  <2> QED BY <2>1, <2>2
<1>5. ASSUME NEW p \in Procs, Worker(p)
      PROVE  Goal
  <2>1. /\ UNCHANGED <<call, cancels>>
        /\ \A q \in Procs \ {p} : job'[q] = job[q]
        /\ job'[p].kind = "release" => job'[p] = job[p] \/ job'[p].order \in todo[p]
    BY <1>5 DEF Worker, Cleanup, Adjust, Fail, CleanupScan, CleanupRelease, StartRelease,
                ReleaseCommit, Crash, AdjustRead, AdjustCommit, orderVars, history
  <2> QED BY <2>1
<1>6. CASE (\E o \in Orders : TimePasses(o)) \/ UNCHANGED allVars
  BY <1>6 DEF TimePasses, Lapse, orderVars, allVars, vars, history
<1> QED BY <1>1, <1>2, <1>3, <1>4, <1>5, <1>6, OrderCases
\* What is settled stays over: no step makes a reservation active that was
\* not new.
LEMMA NextSettledIsOver ==
    ASSUME OrderInv, [OrderNext]_allVars
    PROVE  SettledIsOver'
<1>0. /\ OrderTypeOK /\ TypeOK /\ VersionInv /\ JobsServeCalls /\ SettledIsOver
      /\ [Next]_vars
  BY NextImplementsReservation DEF OrderInv, OrderTypeOK
<1> DEFINE HasSettled(q) == call[q].op \in {"confirm", "cancel"} /\ call[q].settled
<1> SUFFICES ASSUME NEW q \in Procs, HasSettled(q)'
             PROVE  status'[call'[q].order] # "active"
  BY DEF SettledIsOver
<1>1. CASE call'[q] = call[q]
  <2>1. /\ call[q].order \in Orders
        /\ status[call[q].order] \notin {"none", "active"}
    BY <1>0, <1>1, CallFields
       DEF OrderInv, CallsKnowOrders, OrdersHaveReservations, SettledIsOver
  <2>2. status'[call[q].order] \in {"converted", "expired"}
    BY <1>0, <2>1, OverStaysOver DEF TypeOK, Status
  <2> QED BY <1>1, <2>2
<1>2. CASE call'[q] # call[q]
  <2> USE <1>0 DEF OrderTypeOK, Serves
  <2>1. ConfirmConvert(q) \/ CancelRelease(q)
    <3>1. ASSUME NEW p \in Procs,
                 \/ \E o \in Orders : Checkout(p, o) \/ Confirm(p, o) \/ Cancel(p, o)
                                      \/ UpdateShipping(p, o)
                 \/ \E o \in Orders, to \in Targets : UpdateStatus(p, o, to)
                 \/ GenerateOrderNumber(p) \/ PlaceRead(p) \/ PlaceCommit(p)
                 \/ PlaceRefused(p) \/ MarkPaid(p) \/ MarkCancelled(p) \/ Move(p)
                 \/ Break(p) \/ Worker(p)
          PROVE  call'[q] = call[q] \/ ~HasSettled(q)'
      BY <3>1 DEF Checkout, Confirm, Cancel, UpdateShipping, UpdateStatus,
                  GenerateOrderNumber, PlaceRead, PlaceCommit, PlaceRefused, MarkPaid,
                  MarkCancelled, Move, Break, Worker, orderVars
    <3>2. ASSUME NEW p \in Procs, ConfirmConvert(p) \/ CancelRelease(p), p # q
          PROVE  call'[q] = call[q]
      BY <3>2 DEF ConfirmConvert, CancelRelease, Settled
    <3>3. ASSUME (\E o \in Orders : TimePasses(o)) \/ UNCHANGED allVars
          PROVE  call' = call
      BY <3>3 DEF TimePasses, orderVars, allVars
    <3> QED BY <1>2, <3>1, <3>2, <3>3, OrderCases
  <2>2. /\ call[q].order \in Orders /\ call[q].op \in {"confirm", "cancel"}
        /\ call'[q].order = call[q].order
    <3>1. call[q].op \in {"confirm", "cancel"} /\ call' = [call EXCEPT ![q] = [@ EXCEPT !.settled = TRUE]]
      BY <1>2, <2>1 DEF ConfirmConvert, CancelRelease, Settled
    <3>2. [call[q] EXCEPT !.settled = TRUE].order = call[q].order
      BY <3>1 DEF Call
    <3> QED BY <3>1, <3>2, CallFields
  <2>3. CASE ConvertCommit(q)
    BY <2>2, <2>3 DEF ConvertCommit, JobsServeCalls, TypeOK
  <2>4. CASE ReleaseCommit(q) /\ CancelRelease(q)
    <3>1. job[q].order = call[q].order
      BY <2>4 DEF ReleaseCommit, CancelRelease, JobsServeCalls
    <3> QED BY <2>2, <2>4, <3>1 DEF ReleaseCommit, TypeOK
  <2>5. CASE status[call[q].order] # "active" /\ UNCHANGED vars
    BY <2>2, <2>5 DEF vars
  <2> QED BY <1>2, <2>1, <2>3, <2>4, <2>5 DEF ConfirmConvert, CancelRelease
<1> QED BY <1>1, <1>2
\* A step that keeps what excuses a sale: the payment status, the confirmation
\* that is under way, or the note that it was cut off.
LEMMA ExcusesStay ==
    ASSUME OrderInv, [OrderNext]_allVars, NEW o \in Orders, status[o] = "converted"
    PROVE  \/ payStatus'[o] = "paid"
           \/ o \in interrupted'
           \/ \E p \in Procs : /\ call'[p].op = "confirm"
                               /\ call'[p].order = o
                               /\ call'[p].settled
<1> DEFINE Confirming(p) == call[p].op = "confirm" /\ call[p].order = o /\ call[p].settled
           Goal == payStatus'[o] = "paid" \/ o \in interrupted' \/ \E p \in Procs : Confirming(p)'
<1> SUFFICES Goal
  OBVIOUS
<1>0. /\ OrderTypeOK
      /\ payStatus[o] = "paid" \/ o \in interrupted \/ \E p \in Procs : Confirming(p)
  BY DEF OrderInv, SoldIsPaid
<1> USE <1>0 DEF OrderTypeOK, Serves
<1>1. ASSUME NEW p \in Procs, PlaceCommit(p)
      PROVE  Goal
  <2>1. o # call[p].order /\ call[p].op = "place"
    BY <1>1, PlacedIsNew DEF PlaceCommit
  <2> QED BY <1>1, <2>1 DEF PlaceCommit, history
<1>2. ASSUME NEW p \in Procs, MarkPaid(p)
      PROVE  Goal
  BY <1>2 DEF MarkPaid, history
<1>3. ASSUME NEW p \in Procs, Break(p)
      PROVE  Goal
  BY <1>3 DEF Break, orderRows
<1>4. ASSUME NEW p \in Procs,
             \/ \E x \in Orders : Checkout(p, x) \/ Confirm(p, x) \/ Cancel(p, x)
                                  \/ UpdateShipping(p, x)
             \/ \E x \in Orders, to \in Targets : UpdateStatus(p, x, to)
             \/ GenerateOrderNumber(p) \/ PlaceRead(p) \/ PlaceRefused(p)
             \/ MarkCancelled(p) \/ Move(p) \/ Worker(p)
      PROVE  Goal
  <2>1. /\ UNCHANGED <<payStatus, interrupted>>
        /\ \A q \in Procs : call'[q] = call[q] \/ call[q].op # "confirm"
    BY <1>4 DEF Checkout, Confirm, Cancel, UpdateShipping, UpdateStatus, Free,
                GenerateOrderNumber, PlaceRead, PlaceRefused, MarkCancelled, Move, Worker,
                orderVars, orderRows, history
  <2> QED BY <2>1
<1>5. ASSUME NEW p \in Procs, ConfirmConvert(p) \/ CancelRelease(p)
      PROVE  Goal
  <2>1. /\ UNCHANGED <<payStatus, interrupted>>
        /\ \A q \in Procs : call'[q] = call[q] \/ call[q].op # "confirm" \/ ~call[q].settled
    BY <1>5 DEF ConfirmConvert, CancelRelease, Settled, orderRows, history
  <2> QED BY <2>1
<1>6. CASE (\E x \in Orders : TimePasses(x)) \/ UNCHANGED allVars
  BY <1>6 DEF TimePasses, orderVars, allVars, orderRows, history
<1> QED BY <1>1, <1>2, <1>3, <1>4, <1>5, <1>6, OrderCases

LEMMA NextSoldIsPaid ==
    ASSUME OrderInv, [OrderNext]_allVars
    PROVE  SoldIsPaid'
<1>0. OrderTypeOK /\ TypeOK /\ VersionInv /\ JobsServeCalls
  BY DEF OrderInv, OrderTypeOK
<1> SUFFICES ASSUME NEW o \in Orders, status'[o] = "converted", status[o] # "converted"
             PROVE  \E p \in Procs : /\ call'[p].op = "confirm"
                                     /\ call'[p].order = o
                                     /\ call'[p].settled
  BY ExcusesStay DEF SoldIsPaid
<1>1. PICK p \in Procs : ConvertCommit(p) /\ ConfirmConvert(p)
  <2> USE <1>0 DEF OrderTypeOK, TypeOK
  <2>1. ASSUME NEW p \in Procs, PlaceCommit(p)
        PROVE  FALSE
    BY <2>1, PlacedIsNew
  <2>2. ASSUME NEW p \in Procs, CancelRelease(p)
        PROVE  FALSE
    <3>1. \/ UNCHANGED status
          \/ status' = [status EXCEPT ![job[p].order] = "expired"]
      BY <2>2 DEF CancelRelease, ReleaseRead, ReleaseCommit, vars
    <3> QED BY <3>1
  <2>3. ASSUME NEW p \in Procs, Worker(p)
        PROVE  FALSE
    <3>1. \/ UNCHANGED status
          \/ status' = [status EXCEPT ![job[p].order] = "expired"]
      BY <2>3 DEF Worker, Cleanup, Adjust, Fail, CleanupScan, CleanupRelease,
                  ReleaseCommit, Crash, AdjustRead, AdjustCommit
    <3> QED BY <3>1
  <2>4. ASSUME NEW p \in Procs, ConfirmConvert(p), ~ConvertCommit(p)
        PROVE  FALSE
    BY <2>4 DEF ConfirmConvert, ConvertRead, ConvertCheck, vars
  <2>5. ASSUME NEW p \in Procs,
               \/ \E x \in Orders : Checkout(p, x) \/ Confirm(p, x) \/ Cancel(p, x)
                                    \/ UpdateShipping(p, x)
               \/ \E x \in Orders, to \in Targets : UpdateStatus(p, x, to)
               \/ GenerateOrderNumber(p) \/ PlaceRead(p) \/ PlaceRefused(p)
               \/ MarkPaid(p) \/ MarkCancelled(p) \/ Move(p) \/ Break(p)
        PROVE  FALSE
    BY <2>5 DEF Checkout, Confirm, Cancel, UpdateShipping, UpdateStatus,
                GenerateOrderNumber, PlaceRead, PlaceRefused, MarkPaid, MarkCancelled,
                Move, Break, ReserveRead, ReserveConflict, Fail, vars
  <2>6. ASSUME (\E x \in Orders : TimePasses(x)) \/ UNCHANGED allVars
        PROVE  FALSE
    BY <2>6 DEF TimePasses, Lapse, allVars, vars
  <2> QED BY <2>1, <2>2, <2>3, <2>4, <2>5, <2>6, OrderCases
<1>2. o = job[p].order /\ call[p].op = "confirm" /\ call[p].order = o
  BY <1>0, <1>1 DEF ConvertCommit, JobsServeCalls, TypeOK
<1>3. call' = [call EXCEPT ![p] = [@ EXCEPT !.settled = TRUE]]
  BY <1>1 DEF ConfirmConvert, Settled, Serves, ConvertCommit, ConvertRead, ConvertCheck
<1>4. LET c == [call[p] EXCEPT !.settled = TRUE]
      IN  c.op = "confirm" /\ c.order = o /\ c.settled
  BY <1>0, <1>2 DEF OrderTypeOK, Call
<1> QED BY <1>0, <1>3, <1>4 DEF OrderTypeOK

LEMMA NextPaidInTimeIsSold ==
    ASSUME OrderInv, [OrderNext]_allVars
    PROVE  PaidInTimeIsSold'
<1>0. /\ OrderTypeOK /\ TypeOK /\ TypeOK' /\ VersionInv /\ ReleasedForReason /\ ReleasedForReason'
      /\ [Next]_vars /\ due \subseteq due'
  <2>1. [Next]_vars
    BY NextImplementsReservation DEF OrderInv
  <2> QED BY <2>1, OverStaysOver, NextTypeOK, NextReleasedForReason DEF OrderInv, OrderTypeOK
<1> SUFFICES ASSUME NEW o \in Orders, payStatus'[o] = "paid"
             PROVE  status'[o] = "converted" \/ o \in due' \/ o \in cancels'
  BY DEF PaidInTimeIsSold
<1>1. ASSUME status[o] \in {"converted", "expired"}
      PROVE  status'[o] = "converted" \/ o \in due' \/ o \in cancels'
  <2>1. status'[o] \in {"converted", "expired"}
    BY <1>0, <1>1, OverStaysOver
  <2> QED BY <1>0, <2>1 DEF ReleasedForReason
<1>2. cancels \subseteq cancels'
  <2>1. ASSUME NEW p \in Procs, NEW x \in Orders, Cancel(p, x)
        PROVE  cancels \subseteq cancels'
    BY <2>1 DEF Cancel
  <2>2. ASSUME NEW p \in Procs,
               \/ \E x \in Orders : Checkout(p, x) \/ Confirm(p, x) \/ UpdateShipping(p, x)
               \/ \E x \in Orders, to \in Targets : UpdateStatus(p, x, to)
               \/ GenerateOrderNumber(p) \/ PlaceRead(p) \/ PlaceCommit(p)
               \/ PlaceRefused(p) \/ ConfirmConvert(p) \/ MarkPaid(p) \/ CancelRelease(p)
               \/ MarkCancelled(p) \/ Move(p) \/ Break(p) \/ Worker(p)
        PROVE  cancels' = cancels
    BY <2>2 DEF Checkout, Confirm, UpdateShipping, UpdateStatus, GenerateOrderNumber,
                PlaceRead, PlaceCommit, PlaceRefused, ConfirmConvert, MarkPaid,
                CancelRelease, MarkCancelled, Move, Break, Worker, orderVars, history
  <2>3. ASSUME (\E x \in Orders : TimePasses(x)) \/ UNCHANGED allVars
        PROVE  cancels' = cancels
    BY <2>3 DEF TimePasses, allVars, orderVars, history
  <2> QED BY <2>1, <2>2, <2>3, OrderCases
<1>3. CASE payStatus[o] = "paid"
  BY <1>0, <1>1, <1>2, <1>3 DEF OrderInv, PaidInTimeIsSold
<1>4. CASE payStatus[o] # "paid"
  <2>1. PICK p \in Procs : MarkPaid(p) /\ call[p].order = o
    <3> USE <1>0 DEF OrderTypeOK
    <3>1. ASSUME NEW p \in Procs, MarkPaid(p)
          PROVE  call[p].order = o
      BY <1>4, <3>1 DEF MarkPaid
    <3>2. ASSUME NEW p \in Procs, PlaceCommit(p)
          PROVE  FALSE
      BY <1>4, <3>2 DEF PlaceCommit
    <3>3. ASSUME NEW p \in Procs,
                 \/ \E x \in Orders : Checkout(p, x) \/ Confirm(p, x) \/ Cancel(p, x)
                                      \/ UpdateShipping(p, x)
                 \/ \E x \in Orders, to \in Targets : UpdateStatus(p, x, to)
                 \/ GenerateOrderNumber(p) \/ PlaceRead(p) \/ PlaceRefused(p)
                 \/ ConfirmConvert(p) \/ CancelRelease(p) \/ MarkCancelled(p)
                 \/ Move(p) \/ Break(p) \/ Worker(p)
          PROVE  payStatus' = payStatus
      BY <3>3 DEF Checkout, Confirm, Cancel, UpdateShipping, UpdateStatus,
                  GenerateOrderNumber, PlaceRead, PlaceRefused, ConfirmConvert,
                  CancelRelease, MarkCancelled, Move, Break, Worker, orderVars, orderRows
    <3>4. ASSUME (\E x \in Orders : TimePasses(x)) \/ UNCHANGED allVars
          PROVE  payStatus' = payStatus
      BY <3>4 DEF TimePasses, allVars, orderVars, orderRows
    <3> QED BY <1>4, <3>1, <3>2, <3>3, <3>4, OrderCases
  <2>2. status[o] \in {"converted", "expired"}
    <3>1. Exists(o) /\ status[o] # "active"
      BY <2>1 DEF MarkPaid, OrderInv, CallsKnowOrders, SettledIsOver
    <3> QED BY <1>0, <3>1 DEF OrderInv, OrdersHaveReservations, TypeOK, Status
  <2> QED BY <1>1, <2>2
<1> QED BY <1>3, <1>4

LEMMA NextOrderInv == OrderInv /\ [OrderNext]_allVars => OrderInv'
<1> SUFFICES ASSUME OrderInv, [OrderNext]_allVars PROVE OrderInv'
  OBVIOUS
<1>1. OrderTypeOK' /\ [Next]_vars
  BY NextOrderTypeOK, NextImplementsReservation DEF OrderInv
<1>2. VersionInv'
  BY <1>1, NextVersionInv DEF OrderInv
<1> QED
  BY <1>1, <1>2, NextJobsServeCalls, NextCallsKnowOrders, NextOrdersHaveReservations,
     NextReleasedForReason, NextSettledIsOver, NextSoldIsPaid, NextPaidInTimeIsSold
     DEF OrderInv

\* Orders, requests and histories keep their types; the numbers given to
\* orders are natural numbers and every request is of a kind the service has.
THEOREM OrderTypeCorrect == OrderSpec => []OrderTypeOK
<1>1. OrderInv => OrderTypeOK
  BY DEF OrderInv
<1> QED BY <1>1, InitOrderInv, NextOrderInv, PTL DEF OrderSpec

\* Stock leaves for good only for money, whatever requests, failures and
\* clean-up runs interleave: no reservation is converted but for an order
\* that is paid, about to be, or whose confirmation was cut off in between.
THEOREM SoldOnlyForMoney == OrderSpec => []SoldIsPaid
<1>1. OrderInv => SoldIsPaid
  BY DEF OrderInv
<1> QED BY <1>1, InitOrderInv, NextOrderInv, PTL DEF OrderSpec

\* Whoever pays in time and does not cancel has the stock: confirmPayment
\* marks no order as paid that has lost its reservation, unless that was due
\* or the order went through cancel.
THEOREM PaidInTimeGetsStock == OrderSpec => []PaidInTimeIsSold
<1>1. OrderInv => PaidInTimeIsSold
  BY DEF OrderInv
<1> QED BY <1>1, InitOrderInv, NextOrderInv, PTL DEF OrderSpec

\* Once a confirmation or a cancellation is past its settlement, nothing
\* makes the reservation active again before the order is marked.
THEOREM SettlementIsFinal == OrderSpec => []SettledIsOver
<1>1. OrderInv => SettledIsOver
  BY DEF OrderInv
<1> QED BY <1>1, InitOrderInv, NextOrderInv, PTL DEF OrderSpec

\* The requests of the order service are no more than the processes of
\* StockReservation: every behaviour of the orders is one of the
\* reservations, so what is proved of Spec holds of the orders too.
THEOREM OrdersImplementReservation == OrderSpec => ImplementsReservation
<1>1. OrderInit => Init
  BY DEF OrderInit
<1>2. OrderInv /\ [OrderNext]_allVars => [Next]_vars
  BY NextImplementsReservation DEF OrderInv
<1> QED BY <1>1, <1>2, InitOrderInv, NextOrderInv, PTL
           DEF OrderSpec, ImplementsReservation, Spec

\* The optimistic lock counts every commit of the order service as well.
COROLLARY OrderVersionsCountCommits == OrderSpec => []VersionCountsCommits
  BY OrdersImplementReservation, VersionsCountCommits, PTL DEF ImplementsReservation
-------------------------------------------------------------------------------
(* One request at a time                                                   *)

LEMMA OneByOneIsOrderNext == [OneByOneNext]_allVars => [OrderNext]_allVars
  BY DEF OneByOneNext, OrderNext

LEMMA InitOneByOneInv == OrderInit => OneByOneInv
<1> SUFFICES ASSUME OrderInit PROVE OneByOneInv
  OBVIOUS
<1>1. OrderInv /\ NoOversellInv
  BY InitOrderInv, InitNoOversellInv DEF OrderInit
<1>2. Alone /\ SettledIsActive /\ ReservesCurrent /\ NumbersUnique
  BY <1>1 DEF OrderInit, Init, Alone, Busy, ReservesCurrent, NumbersUnique, Exists,
              NoOversellInv
<1>3. NumbersCounted
  <2>1. {o \in Orders : Exists(o)} = {}
    BY DEF OrderInit, Exists
  <2>2. NextNumber = 1
    BY <2>1, FS_EmptySet DEF NextNumber
  <2> QED BY <2>2 DEF OrderInit, NumbersCounted
<1>4. ReservedIsHeld
  <2> SUFFICES ASSUME NEW u \in Units PROVE reserved[u] = Held(u)
    BY DEF ReservedIsHeld
  <2>1. Pieces(Active(u)) = {}
    BY DEF OrderInit, Init, Active, Pieces
  <2> QED BY <2>1, FS_EmptySet DEF OrderInit, Init, Held
<1> QED BY <1>1, <1>2, <1>3, <1>4 DEF OneByOneInv

\* A process that steps leaves the others as they are, and those are free.
LEMMA OrderStepIsLocal ==
    ASSUME OrderTypeOK, NEW p \in Procs, OrderStep(p), NEW q \in Procs \ {p}
    PROVE  job'[q] = job[q] /\ call'[q] = call[q]
<1> USE DEF OrderTypeOK, TypeOK, Serves, Becomes
<1>1. CASE Create(p)
  BY <1>1 DEF Create, Checkout, GenerateOrderNumber, PlaceRead, PlaceCommit, PlaceRefused,
              ReserveRead, ReserveCommit, ReserveConflict, vars, orderVars
<1>2. CASE Pay(p) \/ CallOff(p)
  BY <1>2 DEF Pay, Confirm, ConfirmConvert, MarkPaid, CallOff, Cancel, CancelRelease,
              MarkCancelled, Settled, ConvertRead, ConvertCheck, ConvertCommit,
              ReleaseRead, StartRelease, ReleaseCommit, vars
<1>3. CASE MoveOn(p) \/ Break(p)
  BY <1>3 DEF MoveOn, UpdateStatus, UpdateShipping, Move, Break, Fail, vars
<1>4. CASE Worker(p)
  BY <1>4 DEF Worker, Cleanup, Adjust, Fail, CleanupScan, CleanupRelease, StartRelease,
              ReleaseCommit, Crash, AdjustRead, AdjustCommit, orderVars
<1> QED BY <1>1, <1>2, <1>3, <1>4 DEF OrderStep

LEMMA NextAlone ==
    ASSUME OrderTypeOK, Alone, [OneByOneNext]_allVars
    PROVE  Alone'
<1>1. ASSUME NEW p \in Procs, OnlyOne(p), OrderStep(p)
      PROVE  Alone'
  <2>1. ASSUME NEW q \in Procs \ {p} PROVE ~Busy(q)'
    BY <1>1, <2>1, OrderStepIsLocal DEF OnlyOne, Busy
  <2> QED BY <2>1 DEF Alone
<1>2. CASE (\E o \in Orders : TimePasses(o)) \/ UNCHANGED allVars
  BY <1>2 DEF TimePasses, Lapse, allVars, orderVars, vars, Alone, Busy
<1> QED BY <1>1, <1>2 DEF OneByOneNext

\* The orders can be counted, and the next number is a natural number.
LEMMA NextNumberNat == NextNumber \in Nat /\ IsFiniteSet({o \in Orders : Exists(o)})
<1>1. IsFiniteSet({o \in Orders : Exists(o)})
  BY OrdersAssumption, FS_Subset
<1> QED BY <1>1, FS_CardinalityType DEF NextNumber

\* With one request at a time the number a checkout has counted is still free
\* when it inserts the order.
LEMMA NextNumbers ==
    ASSUME OrderInv, Alone, NumbersCounted, NumbersUnique, [OneByOneNext]_allVars
    PROVE  NumbersCounted' /\ NumbersUnique'
<1>0. OrderTypeOK /\ [OrderNext]_allVars
  BY OneByOneIsOrderNext DEF OrderInv
<1> USE <1>0 DEF OrderTypeOK, Serves
<1>1. ASSUME NEW p \in Procs, PlaceCommit(p)
      PROVE  NumbersCounted' /\ NumbersUnique'
  <2> DEFINE S == {o \in Orders : Exists(o)}
  <2>1. PICK x \in Orders : x = call[p].order
    BY <1>1, PlacedIsNew
  <2>2. /\ ~Exists(x)
        /\ number' = [number EXCEPT ![x] = NextNumber]
        /\ call' = [call EXCEPT ![p] = NoCall]
    BY <1>1, <2>1, PlacedIsNew DEF PlaceCommit, NumbersCounted
  <2>3. NextNumber' = NextNumber + 1 /\ NextNumber \in Nat
    <3>1. {o \in Orders : Exists(o)}' = S \cup {x} /\ x \notin S
      <4>1. NextNumber # 0
        BY NextNumberNat, FS_CardinalityType DEF NextNumber
      <4>2. \A o \in Orders : number'[o] # 0 <=> number[o] # 0 \/ o = x
        BY <2>2, <4>1
      <4> QED BY <2>2, <4>2 DEF Exists
    <3>2. IsFiniteSet(S) /\ Cardinality(S) \in Nat
      BY NextNumberNat, FS_CardinalityType
    <3>3. Cardinality(S \cup {x}) = Cardinality(S) + 1
      BY <3>1, <3>2, FS_AddElement
    <3> QED BY <3>1, <3>2, <3>3 DEF NextNumber
  <2>4. NumbersCounted'
    <3>1. ASSUME NEW q \in Procs PROVE call'[q].op # "place"
      BY <1>1, <2>2 DEF PlaceCommit, Alone, Busy
    <3> QED BY <2>2, <2>3, <3>1 DEF NumbersCounted
  <2>5. NumbersUnique'
    BY <2>2, <2>3 DEF NumbersCounted, NumbersUnique, Exists
  <2> QED BY <2>4, <2>5
<1>2. ASSUME number' = number
      PROVE  NumbersCounted' /\ NumbersUnique'
  <2>1. NextNumber' = NextNumber /\ NumbersUnique'
    BY <1>2 DEF NextNumber, Exists, NumbersUnique
  <2>2. ASSUME NEW q \in Procs, call'[q].op = "place"
        PROVE  \/ call'[q] = call[q]
               \/ call'[q].number = NextNumber
    <3>1. ASSUME NEW p \in Procs,
                 \/ \E o \in Orders : Checkout(p, o) \/ Confirm(p, o) \/ Cancel(p, o)
                                      \/ UpdateShipping(p, o)
                 \/ \E o \in Orders, to \in Targets : UpdateStatus(p, o, to)
                 \/ GenerateOrderNumber(p) \/ PlaceRead(p) \/ PlaceCommit(p)
                 \/ PlaceRefused(p) \/ MarkPaid(p) \/ MarkCancelled(p) \/ Move(p)
                 \/ Break(p) \/ Worker(p)
          PROVE  call'[q] = call[q] \/ call'[q].number = NextNumber
      BY <2>2, <3>1 DEF Checkout, Confirm, Cancel, UpdateShipping, UpdateStatus,
                        GenerateOrderNumber, PlaceRead, PlaceCommit, PlaceRefused, MarkPaid,
                        MarkCancelled, Move, Break, Worker, orderVars
    <3>2. ASSUME NEW p \in Procs, ConfirmConvert(p) \/ CancelRelease(p)
          PROVE  call'[q] = call[q]
      <4>1. [call[p] EXCEPT !.settled = TRUE].op = call[p].op
        BY <3>2 DEF ConfirmConvert, CancelRelease, Call
      <4> QED BY <2>2, <3>2, <4>1 DEF ConfirmConvert, CancelRelease, Settled
    <3>3. ASSUME (\E o \in Orders : TimePasses(o)) \/ UNCHANGED allVars
          PROVE  call' = call
      BY <3>3 DEF TimePasses, orderVars, allVars
    <3> QED BY <3>1, <3>2, <3>3, OrderCases
  <2> QED BY <1>2, <2>1, <2>2 DEF NumbersCounted
<1> QED BY <1>1, <1>2, NumberCases

\* With one process at work at a time, what a checkout writes to
\* reserved_stock is what is held and the quantity of its line.
LEMMA NextReservedIsHeld ==
    ASSUME VersionInv, SettledIsActive, ReservesCurrent, ReservedIsHeld, Alone, [Next]_vars
    PROVE  ReservesCurrent' /\ ReservedIsHeld'
<1>0. TypeOK /\ ReservesInFlight
  BY DEF VersionInv
<1> DEFINE Goal == ReservesCurrent' /\ ReservedIsHeld'
<1> USE <1>0, OrdersAssumption
<1>1. ASSUME NEW p \in Procs, NEW q \in Procs, job[p] # Idle, q # p
      PROVE  job[q].kind # "reserve"
  BY <1>1 DEF Alone, Busy
<1>2. ASSUME UNCHANGED <<status, reserved>>,
             \A q \in Procs : job'[q].kind = "reserve" =>
                 \/ job'[q] = job[q]
                 \/ job'[q].reserved = reserved[UnitOf[job'[q].order]]
      PROVE  Goal
  BY <1>2, HeldSoldFrame DEF ReservesCurrent, ReservedIsHeld
<1>3. ASSUME NEW p \in Procs, ReserveCommit(p)
      PROVE  Goal
  <2>1. PICK o \in Orders : o = job[p].order
    BY <1>3 DEF ReserveCommit, TypeOK, Job
  <2>2. /\ status[o] = "none" /\ job[p].reserved = reserved[UnitOf[o]]
        /\ status' = [status EXCEPT ![o] = "active"]
        /\ reserved' = [reserved EXCEPT ![UnitOf[o]] = reserved[UnitOf[o]] + Qty[o]]
        /\ job' = [job EXCEPT ![p] = Idle]
    BY <1>3, <2>1 DEF ReserveCommit, Becomes, ReservesInFlight, ReservesCurrent
  <2>3. ReservesCurrent'
    BY <1>1, <1>3, <2>2 DEF ReservesCurrent, TypeOK, ReserveCommit
  <2>4. ASSUME NEW u \in Units PROVE reserved'[u] = Held(u)'
    <3>1. Held(u)' = IF u = UnitOf[o] THEN Held(u) + Qty[o] ELSE Held(u)
      BY <2>2, HeldSoldReserve
    <3> QED BY <2>2, <3>1 DEF ReservedIsHeld, TypeOK
  <2> QED BY <2>3, <2>4 DEF ReservedIsHeld
<1>4. ASSUME NEW p \in Procs, ConvertCommit(p) \/ ReleaseCommit(p)
      PROVE  Goal
  <2>1. PICK o \in Orders : o = job[p].order
    BY <1>4 DEF ConvertCommit, ReleaseCommit, TypeOK, Job
  <2>2. /\ status[o] = "active"
        /\ \/ status' = [status EXCEPT ![o] = "converted"]
           \/ status' = [status EXCEPT ![o] = "expired"]
        /\ reserved' = [reserved EXCEPT ![UnitOf[o]] = @ - Qty[o]]
        /\ job' = [job EXCEPT ![p] = Idle]
        /\ job[p] # Idle
    BY <1>4, <2>1 DEF ConvertCommit, ReleaseCommit, Becomes, SettledIsActive, Settling
  <2>3. ReservesCurrent'
    BY <1>1, <2>2 DEF ReservesCurrent, TypeOK
  <2>4. ASSUME NEW u \in Units PROVE reserved'[u] = Held(u)'
    <3>1. Held(u)' = IF u = UnitOf[o] THEN Held(u) - Qty[o] ELSE Held(u)
      BY <2>2, HeldSoldConvert, HeldSoldRelease
    <3> QED BY <2>2, <3>1 DEF ReservedIsHeld, TypeOK
  <2> QED BY <2>3, <2>4 DEF ReservedIsHeld
<1>5. ASSUME NEW p \in Procs, NEW o \in Orders, ReserveRead(p, o)
      PROVE  Goal
  <2>1. /\ UNCHANGED <<status, reserved>>
        /\ \A q \in Procs \ {p} : job'[q] = job[q]
        /\ job'[p].reserved = reserved[UnitOf[o]] /\ job'[p].order = o
    BY <1>5 DEF ReserveRead, Becomes, rows, TypeOK
  <2> QED BY <1>2, <2>1
<1>6. ASSUME NEW p \in Procs,
             \/ \E o \in Orders : ConvertRead(p, o) \/ ReleaseRead(p, o) \/ CleanupRelease(p, o)
             \/ ReserveConflict(p) \/ ConvertCheck(p) \/ AdjustCommit(p)
             \/ CleanupScan(p) \/ Crash(p) \/ Fail(p)
             \/ \E u \in Units, n \in Adjustments : AdjustRead(p, u, n)
      PROVE  Goal
  <2>1. /\ UNCHANGED <<status, reserved>>
        /\ \A q \in Procs : job'[q] = job[q] \/ job'[q].kind # "reserve"
    BY <1>6 DEF ConvertRead, ReleaseRead, CleanupRelease, StartRelease, ReserveConflict,
                ConvertCheck, AdjustCommit, CleanupScan, Crash, Fail, AdjustRead, Becomes,
                rows, TypeOK
  <2> QED BY <1>2, <2>1
<1>7. CASE (\E o \in Orders : Lapse(o)) \/ UNCHANGED vars
  <2>1. UNCHANGED <<status, reserved, job>>
    BY <1>7 DEF Lapse, vars, rows
  <2> QED BY <1>2, <2>1
<1> QED BY <1>3, <1>4, <1>5, <1>6, <1>7, NextCases

LEMMA NextOneByOneInv == OneByOneInv /\ [OneByOneNext]_allVars => OneByOneInv'
<1> SUFFICES ASSUME OneByOneInv, [OneByOneNext]_allVars PROVE OneByOneInv'
  OBVIOUS
<1>0. /\ OrderInv /\ OrderTypeOK /\ VersionInv /\ Alone /\ SettledIsActive /\ NumbersCounted
      /\ NumbersUnique /\ ReservesCurrent /\ ReservedIsHeld
      /\ [OrderNext]_allVars /\ [Next]_vars
  BY OneByOneIsOrderNext, NextImplementsReservation DEF OneByOneInv, OrderInv
<1>1. OrderInv' /\ Alone'
  BY <1>0, NextOrderInv, NextAlone
<1>2. NumbersCounted' /\ NumbersUnique'
  BY <1>0, NextNumbers
<1>3. SettledIsActive'
  <2>1. Exclusive
    BY <1>0 DEF Alone, Busy, Exclusive, Settling
  <2> QED BY <1>0, <2>1, NextSettledIsActive
<1>4. ReservesCurrent' /\ ReservedIsHeld'
  BY <1>0, NextReservedIsHeld
<1> QED BY <1>1, <1>2, <1>3, <1>4 DEF OneByOneInv

\* As long as requests come one after the other, order numbers are unique:
\* the count of the orders is still right when the order is inserted, and no
\* order is ever deleted.
THEOREM OrderNumbersAreUnique == OneByOneSpec => []NumbersUnique
<1>1. OneByOneInv => NumbersUnique
  BY DEF OneByOneInv
<1> QED BY <1>1, InitOneByOneInv, NextOneByOneInv, PTL DEF OneByOneSpec

\* As long as requests and clean-up runs come one after the other, the column
\* reserved_stock is what the unpaid orders hold, failures in between
\* included.
THEOREM ReservedStockIsHeld == OneByOneSpec => []ReservedIsHeld
<1>1. OneByOneInv => ReservedIsHeld
  BY DEF OneByOneInv
<1> QED BY <1>1, InitOneByOneInv, NextOneByOneInv, PTL DEF OneByOneSpec
=================================================================================

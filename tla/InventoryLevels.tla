---------------------------- MODULE InventoryLevels ----------------------------
(***************************************************************************)
(* The stock of one product variant in several warehouses: the operations  *)
(* of InventoryService on inventory_levels, stock_movements and            *)
(* stock_alerts, with the triggers of the migration.                       *)
(*                                                                         *)
(* A request reads a level, computes its new value in memory, and writes   *)
(* every column of it back by primary key.  executeStockTransaction opens  *)
(* a transaction, but the repository runs each statement outside of it: a  *)
(* statement commits when it returns, and an error undoes nothing.         *)
(***************************************************************************)
EXTENDS Integers

CONSTANTS
    Requests,    \* HTTP requests served at once; each is followed by others
    Warehouses,
    Kinds,       \* the operations the clients use
    Quantities,  \* the quantities they ask for
    Points,      \* the reorder points they set
    Maxima,      \* the maximum levels they set
    DefaultPoint,\* reorder_point of a new level (10 in the code)
    Apart,       \* TRUE: requests at work at once concern different warehouses
    Faults,      \* TRUE: statements fail and the process stops
    Cap          \* bound: stock, and the sum of movements, stay about this

ASSUME QuantitiesAssumption == Quantities \subseteq Nat \ {0}
ASSUME PointsAssumption == Points \subseteq Nat /\ DefaultPoint \in Nat
ASSUME MaximaAssumption == Maxima \subseteq Nat \ {0}

VARIABLES
    level,    \* inventory_levels: the row of each warehouse, or Absent
    active,   \* stock_alerts: the active ones of each warehouse and type, up to 2
    recorded, \* stock_movements: the sum of quantity_change of each warehouse
    pc,       \* what each request does next
    op,       \* the operation of the request
    copy      \* the levels it has read, with what it has done to them

rows == <<level, active, recorded>>
request == <<pc, op, copy>>
vars == <<rows, request>>

Absent == [available |-> -1]

NewLevel == [available |-> 0, reserved |-> 0, point |-> DefaultPoint, max |-> 0]

Level == [available : Nat, reserved : Nat, point : Nat, max : Nat]

AlertTypes == {"low_stock", "out_of_stock"}

Stages == {"read", "create", "write", "record", "alert"}

Idle == [do |-> "idle"]

NoOp == [kind |-> "none"]

\* max = 0: the request does not give a maximum, or the row has none.
Operations ==
    {NoOp}
    \cup [kind : {"add", "deduct", "reserve", "release", "confirm"},
          at : Warehouses, n : Quantities]
    \cup [kind : {"adjust"}, at : Warehouses, n : Quantities \cup {-q : q \in Quantities}]
    \cup {o \in [kind : {"transfer"}, at : Warehouses, to : Warehouses, n : Quantities] :
              o.at # o.to}
    \cup [kind : {"settings"}, at : Warehouses, point : Points, max : Maxima \cup {0}]

\* The quantities of a level are never negative, in the rows or in memory: the
\* CHECK of the table never fires.
TypeOK ==
    /\ level \in [Warehouses -> Level \cup {Absent}]
    /\ active \in [Warehouses -> [AlertTypes -> 0..2]]
    /\ recorded \in [Warehouses -> Int]
    /\ op \in [Requests -> Operations]
    /\ copy \in [Requests -> [Warehouses -> Level \cup {Absent}]]
    /\ pc \in [Requests ->
                {Idle} \cup [do : Stages, at : Warehouses, left : SUBSET Warehouses]]

-------------------------------------------------------------------------------
OnHand(row) == IF row = Absent THEN 0 ELSE row.available + row.reserved

IsOut(row) == row.available = 0

IsLow(row) == row.available > 0 /\ row.available <= row.point

Due(row, type) == IF type = "out_of_stock" THEN IsOut(row) ELSE IsLow(row)

\* Mutation: the available quantity is not compared with the request.
RefusedUnchecked(o, row) ==
    \/ o.kind \in {"release", "confirm"} /\ row.reserved < o.n
    \/ o.kind = "adjust" /\ row.available + o.n < 0
    \/ o.kind = "add" /\ row.max > 0 /\ OnHand(row) + o.n > row.max

\* What the service and the entity refuse, with the levels as they were read.
Refused(o, row) ==
    \/ o.kind \in {"deduct", "reserve", "transfer"} /\ row.available < o.n
    \/ o.kind \in {"release", "confirm"} /\ row.reserved < o.n
    \/ o.kind = "adjust" /\ row.available + o.n < 0
    \/ o.kind = "add" /\ row.max > 0 /\ OnHand(row) + o.n > row.max

\* Mutation: addStock counts what it receives twice.
AfterTwice(o, row) ==
    CASE o.kind = "add" -> [row EXCEPT !.available = @ + 2 * o.n]
      [] o.kind = "adjust" -> [row EXCEPT !.available = @ + o.n]
      [] o.kind \in {"deduct", "transfer"} -> [row EXCEPT !.available = @ - o.n]
      [] o.kind = "reserve" -> [row EXCEPT !.available = @ - o.n, !.reserved = @ + o.n]
      [] o.kind = "release" -> [row EXCEPT !.available = @ + o.n, !.reserved = @ - o.n]
      [] o.kind = "confirm" -> [row EXCEPT !.reserved = @ - o.n]
      [] o.kind = "settings" -> [row EXCEPT !.point = o.point,
                                            !.max = IF o.max = 0 THEN @ ELSE o.max]

\* The entity's methods.  Settings without a maximum leave the row's own.
After(o, row) ==
    CASE o.kind \in {"add", "adjust"} -> [row EXCEPT !.available = @ + o.n]
      [] o.kind \in {"deduct", "transfer"} -> [row EXCEPT !.available = @ - o.n]
      [] o.kind = "reserve" -> [row EXCEPT !.available = @ - o.n, !.reserved = @ + o.n]
      [] o.kind = "release" -> [row EXCEPT !.available = @ + o.n, !.reserved = @ - o.n]
      [] o.kind = "confirm" -> [row EXCEPT !.reserved = @ - o.n]
      [] o.kind = "settings" -> [row EXCEPT !.point = o.point,
                                            !.max = IF o.max = 0 THEN @ ELSE o.max]

\* The quantity_change of the movement that o records in warehouse w.
Change(o, w) ==
    IF o.kind \in {"deduct", "confirm"} \/ (o.kind = "transfer" /\ w = o.at)
    THEN -o.n ELSE o.n

\* The warehouses of o, and those it records a movement in.
Concerns(o) ==
    IF o = NoOp THEN {} ELSE IF o.kind = "transfer" THEN {o.at, o.to} ELSE {o.at}

\* Mutation: the sale of reserved stock is not recorded.
RecordedUnsold(o) ==
    IF o.kind \in {"reserve", "release", "confirm", "settings"} THEN {} ELSE Concerns(o)

Recorded(o) == IF o.kind \in {"reserve", "release", "settings"} THEN {} ELSE Concerns(o)

\* checkAndCreateAlerts is called, not checkAndResolveAlerts, which is empty.
ChecksAlerts(o) ==
    o.kind \in {"deduct", "reserve", "transfer"} \/ (o.kind = "adjust" /\ o.n < 0)

-------------------------------------------------------------------------------
Init ==
    /\ level = [w \in Warehouses |-> Absent]
    /\ active = [w \in Warehouses |-> [t \in AlertTypes |-> 0]]
    /\ recorded = [w \in Warehouses |-> 0]
    /\ pc = [r \in Requests |-> Idle]
    /\ op = [r \in Requests |-> NoOp]
    /\ copy = [r \in Requests |-> [w \in Warehouses |-> Absent]]

Goto(r, stage, w, left) == pc' = [pc EXCEPT ![r] = [do |-> stage, at |-> w, left |-> left]]

\* The request is over; nothing it has read is used again.
Finish(r) ==
    /\ pc' = [pc EXCEPT ![r] = Idle]
    /\ op' = [op EXCEPT ![r] = NoOp]
    /\ copy' = [copy EXCEPT ![r] = [w \in Warehouses |-> Absent]]

\* The bounds: no request adds to a level that holds Cap, in the row or in a
\* copy, or records more of what the movements have too much of.
Bounded(o) ==
    \A w \in Recorded(o) :
        IF Change(o, w) > 0
        THEN /\ recorded[w] < Cap
             /\ \A row \in {level[w]} \cup {copy[r][w] : r \in Requests} : OnHand(row) < Cap
        ELSE recorded[w] > -Cap

Start(r, o) ==
    /\ pc[r] = Idle
    /\ o.kind \in Kinds
    /\ Apart => \A q \in Requests : Concerns(op[q]) \cap Concerns(o) = {}
    /\ Bounded(o)
    /\ op' = [op EXCEPT ![r] = o]
    /\ Goto(r, "read", o.at, {})
    /\ UNCHANGED <<rows, copy>>

\* The level of the warehouse at hand has been found to be row.  A transfer
\* goes on to the other warehouse; with all it needs, the request is refused or
\* goes on to write.
Take(r, row) ==
    LET o == op[r]
        w == pc[r].at
        read == [copy[r] EXCEPT ![w] = row]
    IN  IF o.kind = "transfer" /\ w = o.at
        THEN /\ copy' = [copy EXCEPT ![r] = read]
             /\ Goto(r, "read", o.to, {})
             /\ UNCHANGED op
        ELSE IF Refused(o, read[o.at])
        THEN Finish(r)
        ELSE /\ copy' = [copy EXCEPT ![r] = read]
             /\ Goto(r, "write", o.at, {})
             /\ UNCHANGED op

\* getOrCreateInventoryLevel looks for the row.
ReadLevel(r) ==
    /\ pc[r].do = "read"
    /\ IF level[pc[r].at] = Absent
       THEN Goto(r, "create", pc[r].at, {}) /\ UNCHANGED <<op, copy>>
       ELSE Take(r, level[pc[r].at])
    /\ UNCHANGED rows

\* It found none and inserts one; when another request did so first, it reads
\* that one.  updateReorderSettings inserts with an empty tenant, which the
\* column refuses: unless the row is there by now, the request ends in an error.
CreateLevel(r) ==
    /\ pc[r].do = "create"
    /\ LET w == pc[r].at
       IN  IF level[w] # Absent
           THEN Take(r, level[w]) /\ UNCHANGED level
           ELSE IF op[r].kind = "settings"
           THEN Finish(r) /\ UNCHANGED level
           ELSE Take(r, NewLevel) /\ level' = [level EXCEPT ![w] = NewLevel]
    /\ UNCHANGED <<active, recorded>>

\* Mutation: the alerts of a level that is at its reorder point are resolved.
TriggerReached(w, row) ==
    active' = [active EXCEPT ![w] = [t \in AlertTypes |->
                  IF row.available >= row.point THEN 0
                  ELSE IF Due(row, t) /\ @[t] = 0 THEN 1
                  ELSE @[t]]]

\* Mutation: only the alert of low stock is resolved.
TriggerLow(w, row) ==
    active' = [active EXCEPT ![w] = [t \in AlertTypes |->
                  IF row.available > row.point /\ t = "low_stock" THEN 0
                  ELSE IF Due(row, t) /\ @[t] = 0 THEN 1
                  ELSE @[t]]]

\* The triggers of an UPDATE: an alert is raised unless there is one, and stock
\* above the reorder point resolves those there are.
Trigger(w, row) ==
    active' = [active EXCEPT ![w] = [t \in AlertTypes |->
                  IF row.available > row.point THEN 0
                  ELSE IF Due(row, t) /\ @[t] = 0 THEN 1
                  ELSE @[t]]]

\* updateInventoryLevelAtomic writes what the entity's method made of the copy.
\* A maximum that is not given is not written.
WriteLevel(r) ==
    /\ pc[r].do = "write"
    /\ LET o == op[r]
           w == pc[r].at
           after == IF o.kind = "transfer" /\ w = o.to
                    THEN [copy[r][w] EXCEPT !.available = @ + o.n]
                    ELSE After(o, copy[r][w])
           row == IF o.kind = "settings" /\ o.max = 0
                  THEN [after EXCEPT !.max = level[w].max] ELSE after
       IN  /\ level' = [level EXCEPT ![w] = row]
           /\ Trigger(w, row)
           /\ IF o.kind = "settings" \/ o.kind = "release"
              THEN Finish(r)
              ELSE /\ copy' = [copy EXCEPT ![r][w] = row]
                   /\ UNCHANGED op
                   /\ IF o.kind = "transfer" /\ w = o.at
                      THEN Goto(r, "write", o.to, {})
                      ELSE IF Recorded(o) # {}
                      THEN Goto(r, "record", o.at, Recorded(o))
                      ELSE Goto(r, "alert", o.at, {})
    /\ UNCHANGED recorded

\* createStockMovement; the two of a transfer are inserted side by side.
RecordMovement(r, w) ==
    /\ pc[r].do = "record"
    /\ w \in pc[r].left
    /\ recorded' = [recorded EXCEPT ![w] = @ + Change(op[r], w)]
    /\ IF pc[r].left # {w}
       THEN Goto(r, "record", pc[r].at, pc[r].left \ {w}) /\ UNCHANGED <<op, copy>>
       ELSE IF ChecksAlerts(op[r])
       THEN Goto(r, "alert", op[r].at, {}) /\ UNCHANGED <<op, copy>>
       ELSE Finish(r)
    /\ UNCHANGED <<level, active>>

\* checkAndCreateAlerts inserts an alert by the flags of the copy.
CheckAlerts(r) ==
    /\ pc[r].do = "alert"
    /\ LET w == op[r].at
       IN  active' = [active EXCEPT ![w] = [t \in AlertTypes |->
                         IF Due(copy[r][w], t) /\ @[t] < 2 THEN @[t] + 1 ELSE @[t]]]
    /\ Finish(r)
    /\ UNCHANGED <<level, recorded>>

\* A statement fails, or the process stops: what was written stays.  Of two
\* inserts under way one may still be done, and is then the last step.
Fail(r) ==
    /\ Faults
    /\ pc[r] # Idle
    /\ \/ Finish(r) /\ UNCHANGED recorded
       \/ \E w \in pc[r].left :
              /\ pc[r].left # {w}
              /\ recorded' = [recorded EXCEPT ![w] = @ + Change(op[r], w)]
              /\ Finish(r)
    /\ UNCHANGED <<level, active>>

Next ==
    \E r \in Requests :
        \/ \E o \in Operations \ {NoOp} : Start(r, o)
        \/ ReadLevel(r)
        \/ CreateLevel(r)
        \/ WriteLevel(r)
        \/ \E w \in Warehouses : RecordMovement(r, w)
        \/ CheckAlerts(r)
        \/ Fail(r)

Spec == Init /\ [][Next]_vars

-------------------------------------------------------------------------------
\* A level is at rest when no request is between writing it and recording it.
AtRest(w) ==
    \A r \in Requests : pc[r].do \in {"write", "record"} => w \notin Concerns(op[r])

\* The movements are the complete audit trail of the stock: at rest, they add up
\* to what the level holds, available or reserved (createStockMovement after
\* updateInventoryLevelAtomic).  A lost write or a lost movement breaks it.
TrailMatchesLevel == \A w \in Warehouses : AtRest(w) => recorded[w] = OnHand(level[w])

\* A level that is short of stock, and has held some, has an active alert of the
\* right type: the triggers raise one in the statement that makes it short.
ShortIsAlerted ==
    \A w \in Warehouses : LET row == level[w] IN
        row # Absent =>
            /\ IsLow(row) => active[w]["low_stock"] > 0
            /\ IsOut(row) /\ row.reserved > 0 => active[w]["out_of_stock"] > 0

\* An alert is active only while the stock is not above the reorder point: the
\* one that resolves it is the write that brings the stock back.
ActiveAlertIsDue ==
    \A w \in Warehouses :
        (\E t \in AlertTypes : active[w][t] > 0) => level[w].available <= level[w].point

-------------------------------------------------------------------------------
\* What a reader of both warehouses should see of a transfer: all of it or
\* nothing.  The stock it has taken and not yet brought counts at its
\* destination.
Bringing(w) ==
    {r \in Requests : /\ op[r].kind = "transfer"
                      /\ op[r].to = w
                      /\ pc[r].do = "write"
                      /\ pc[r].at = w}

Holds(w) ==
    OnHand(level[w]) + (IF Bringing(w) = {} THEN 0
                        ELSE op[CHOOSE r \in Bringing(w) : TRUE].n)

Ledger == INSTANCE WarehouseLedger WITH holds <- [w \in Warehouses |-> Holds(w)]

\* Requests that keep apart implement the ledger: each is one change of it.
ImplementsWarehouseLedger == Ledger!LedgerSpec

-------------------------------------------------------------------------------
(* What makes the properties inductive                                     *)

\* A request that is at work knows the levels it goes on with: one it has read
\* is there, and what it is about to write was not refused.
Knows(r) ==
    LET o == op[r] IN
        /\ \A w \in Warehouses : copy[r][w] # Absent => level[w] # Absent /\ w \in Concerns(o)
        /\ pc[r] = Idle => o = NoOp
        /\ pc[r] # Idle =>
              /\ pc[r].at \in Concerns(o)
              /\ pc[r].do # "record" => pc[r].left = {}
              /\ pc[r].left \subseteq Recorded(o)
              /\ pc[r].at # o.at => copy[r][o.at] # Absent
              /\ pc[r].do \in {"write", "record", "alert"} =>
                    \A w \in Concerns(o) : copy[r][w] # Absent
              /\ pc[r].do = "write" /\ pc[r].at = o.at => ~Refused(o, copy[r][o.at])

LevelInv == TypeOK /\ ShortIsAlerted /\ \A r \in Requests : Knows(r)

\* What r has written of the stock in w and not recorded yet.
Unrecorded(r, w) ==
    IF \/ pc[r].do = "record" /\ w \in pc[r].left
       \/ pc[r].do = "write" /\ pc[r].at # op[r].at /\ w = op[r].at
    THEN Change(op[r], w) ELSE 0

\* Requests that keep apart work on levels nobody else changes, so that what
\* they have read stays true.
ApartInv ==
    /\ LevelInv
    /\ \A q, r \in Requests : q # r => Concerns(op[q]) \cap Concerns(op[r]) = {}
    /\ \A r \in Requests, w \in Warehouses : copy[r][w] # Absent => copy[r][w] = level[w]
    /\ \A w \in Warehouses, t \in AlertTypes : active[w][t] > 0 => level[w] # Absent
    /\ ActiveAlertIsDue

TrailInv ==
    /\ ApartInv
    /\ \A w \in Warehouses :
          /\ \A r \in Requests :
                w \in Concerns(op[r]) => OnHand(level[w]) = recorded[w] + Unrecorded(r, w)
          /\ (\A r \in Requests : w \notin Concerns(op[r])) => OnHand(level[w]) = recorded[w]
===============================================================================

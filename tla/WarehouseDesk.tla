---------------------------- MODULE WarehouseDesk ----------------------------
(***************************************************************************)
(* The warehouses of a business: opening, changing, switching, making one  *)
(* the default, and closing.                                               *)
(*                                                                         *)
(* A request reads a warehouse, changes the entity in memory and writes    *)
(* all its columns back in a second statement.  updateDetails takes over   *)
(* some fields only: isActive and isDefault are not among them.  Names,    *)
(* addresses and hours are left out; the levels of a warehouse, which go   *)
(* with it, are in InventoryLevels.                                        *)
(***************************************************************************)
EXTENDS Integers, FiniteSets

CONSTANTS
  Houses, NoHouse,
  Keeps,       \* requests served at once
  HousePatches,\* bodies of PUT: records of the fields given
  MaxTasks     \* bound on the requests

VARIABLES
  houses,        \* row of each warehouse, or NoHouse
  keeps,         \* what each request does next
  tasks,         \* requests so far
  made,          \* the row each warehouse was opened with
  expected,      \* what the finished updates make of it, each on the one before
  housesCrossed  \* warehouses that two requests held at once

houseVars == <<houses, keeps, tasks, made, expected, housesCrossed>>

AtEase == [do |-> "idle"]

\* findWarehouseById
Open == {h \in Houses : houses[h] # NoHouse}

\* getWarehousesByBusiness, of the default ones.
Defaults == {h \in Open : houses[h].default}

\* Mutation: the switches are taken over too.
MergedAll(row, u) == [f \in DOMAIN row |-> IF f \in DOMAIN u THEN u[f] ELSE row[f]]

Merged(row, u) == [f \in DOMAIN row |-> IF f \in DOMAIN u \cap {"capacity", "priority"} THEN u[f] ELSE row[f]]

\* validate
IsValid(row) == row.capacity >= 0 /\ row.priority \in 1..10

Begins(k) == keeps[k] = AtEase /\ tasks < MaxTasks /\ tasks' = tasks + 1

\* Request k holds h from its read to its write.
Holders(h) == {k \in Keeps : keeps[k].do = "write" /\ keeps[k].at = h}
Hold(k, h, u, then) ==
  LET row == Merged(houses[h], u)
  IN  IF ~IsValid(row) THEN keeps' = [keeps EXCEPT ![k] = AtEase] /\ UNCHANGED housesCrossed
      ELSE /\ keeps' = [keeps EXCEPT ![k] = [do |-> "write", at |-> h, copy |-> row, with |-> u, then |-> then]]
           /\ housesCrossed' = IF Holders(h) = {} THEN housesCrossed ELSE housesCrossed \cup {h}

\* createWarehouse: no other warehouse loses its default.
NewHouse(default, active) == [capacity |-> 0, priority |-> 5, default |-> default, active |-> active]

OpenHouse(h) ==
  /\ houses[h] = NoHouse /\ made[h] = NoHouse
  /\ tasks < MaxTasks /\ tasks' = tasks + 1
  /\ \E default \in BOOLEAN, active \in BOOLEAN :
       LET row == NewHouse(default, active)
       IN  /\ houses' = [houses EXCEPT ![h] = row]
           /\ made' = [made EXCEPT ![h] = row]
           /\ expected' = [expected EXCEPT ![h] = row]
  /\ UNCHANGED <<keeps, housesCrossed>>

\* updateWarehouse; activate and deactivate are updates of isActive.
AskUpdateHouse(k, h) ==
  /\ h \in Open /\ Begins(k)
  /\ \E u \in HousePatches : Hold(k, h, u, AtEase)
  /\ UNCHANGED <<houses, made, expected>>

\* setDefaultWarehouse: the other defaults, one after the other, and then h.
AskDefault(k, h) ==
  /\ Begins(k)
  /\ keeps' = [keeps EXCEPT ![k] = [do |-> "read", left |-> Defaults \ {h}, to |-> h]]
  /\ UNCHANGED <<houses, made, expected, housesCrossed>>

\* One that is gone ends the request.
ReadHouse(k) ==
  /\ keeps[k].do = "read"
  /\ \E h \in IF keeps[k].left = {} THEN {keeps[k].to} ELSE keeps[k].left :
       IF h \notin Open THEN keeps' = [keeps EXCEPT ![k] = AtEase] /\ UNCHANGED housesCrossed
       ELSE Hold(k, h, [default |-> h = keeps[k].to],
                 IF keeps[k].left = {} THEN AtEase ELSE [keeps[k] EXCEPT !.left = @ \ {h}])
  /\ UNCHANGED <<houses, tasks, made, expected>>

WriteHouse(k) ==
  /\ keeps[k].do = "write"
  /\ LET h == keeps[k].at
     IN  IF houses[h] = NoHouse
         THEN keeps' = [keeps EXCEPT ![k] = AtEase] /\ UNCHANGED <<houses, expected>>
         ELSE /\ houses' = [houses EXCEPT ![h] = keeps[k].copy]
              /\ expected' = [expected EXCEPT ![h] = Merged(@, keeps[k].with)]
              /\ keeps' = [keeps EXCEPT ![k] = keeps[k].then]
  /\ UNCHANGED <<tasks, made, housesCrossed>>

CloseHouse(h) ==
  /\ h \in Open /\ tasks < MaxTasks /\ tasks' = tasks + 1
  /\ houses' = [houses EXCEPT ![h] = NoHouse]
  /\ UNCHANGED <<keeps, made, expected, housesCrossed>>

Init ==
  /\ houses = [h \in Houses |-> NoHouse]
  /\ made = houses /\ expected = houses
  /\ keeps = [k \in Keeps |-> AtEase]
  /\ tasks = 0 /\ housesCrossed = {}

Next ==
  \/ \E h \in Houses : OpenHouse(h) \/ CloseHouse(h)
  \/ \E k \in Keeps : ReadHouse(k) \/ WriteHouse(k) \/ \E h \in Houses : AskUpdateHouse(k, h) \/ AskDefault(k, h)

Spec == Init /\ [][Next]_houseVars

-----------------------------------------------------------------------------
\* Updates that met no other request are all there: writing the whole entity
\* back undoes nothing that was done before it was read (updateWarehouse).
UpdatesAreKept == \A h \in Open \ housesCrossed : houses[h] = expected[h]

\* A warehouse stays active or not, and the default or not, as it was opened:
\* the requests that answer "set successfully" write back what they read, so the
\* business may have any number of defaults (setDefaultWarehouse, updateDetails).
FlagsAreAsMade == \A h \in Open : houses[h].default = made[h].default /\ houses[h].active = made[h].active
=============================================================================

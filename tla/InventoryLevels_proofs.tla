------------------------ MODULE InventoryLevels_proofs ------------------------
(***************************************************************************)
(* Proofs about InventoryLevels, for any number of requests and            *)
(* warehouses, any quantities and any reorder points.                      *)
(***************************************************************************)
EXTENDS InventoryLevels, TLAPS

USE QuantitiesAssumption, PointsAssumption, MaximaAssumption

-------------------------------------------------------------------------------
(* Levels and operations                                                   *)

LEMMA AbsentIsNoLevel == Absent \notin Level /\ NewLevel \in Level /\ OnHand(Absent) = 0
  BY DEF Absent, Level, NewLevel, OnHand

LEMMA LevelFields ==
    ASSUME NEW row \in Level
    PROVE  /\ row.available \in Nat /\ row.reserved \in Nat /\ row.point \in Nat /\ row.max \in Nat
           /\ row # Absent
           /\ OnHand(row) = row.available + row.reserved
<1>1. row # Absent
  BY AbsentIsNoLevel
<1> QED BY <1>1 DEF Level, OnHand

\* What the fields of an operation are, by its kind.
LEMMA OpFields ==
    ASSUME NEW o \in Operations, o # NoOp
    PROVE  /\ o.kind \in {"add", "deduct", "reserve", "release", "confirm", "adjust",
                          "transfer", "settings"}
           /\ o.at \in Warehouses
           /\ o.kind \in {"add", "deduct", "reserve", "release", "confirm", "transfer"} =>
                 o.n \in Nat \ {0} /\ o.n \in Quantities
           /\ o.kind = "adjust" => o.n \in Int /\ (o.n \in Quantities \/ -o.n \in Quantities)
           /\ o.kind = "transfer" => o.to \in Warehouses /\ o.to # o.at
           /\ o.kind = "settings" => o.point \in Nat /\ o.max \in Nat
<1>1. CASE o \in [kind : {"add", "deduct", "reserve", "release", "confirm"},
                  at : Warehouses, n : Quantities]
  BY <1>1
<1>2. CASE o \in [kind : {"adjust"}, at : Warehouses, n : Quantities \cup {-q : q \in Quantities}]
  <2>1. o.kind = "adjust" /\ o.at \in Warehouses /\ o.n \in Quantities \cup {-q : q \in Quantities}
    BY <1>2
  <2>2. o.n \in Int /\ (o.n \in Quantities \/ -o.n \in Quantities)
    <3>1. CASE o.n \in Quantities
      <4>1. o.n \in Nat
        BY <3>1
      <4> QED BY <3>1, <4>1
    <3>2. ASSUME NEW q \in Quantities, o.n = -q PROVE o.n \in Int /\ -o.n \in Quantities
      <4>1. q \in Int /\ -(-q) = q
        OBVIOUS
      <4> QED BY <3>2, <4>1
    <3> QED BY <2>1, <3>1, <3>2
  <2> QED BY <2>1, <2>2
<1>3. CASE o \in {x \in [kind : {"transfer"}, at : Warehouses, to : Warehouses, n : Quantities] :
                      x.at # x.to}
  BY <1>3
<1>4. CASE o \in [kind : {"settings"}, at : Warehouses, point : Points, max : Maxima \cup {0}]
  BY <1>4
<1> QED BY <1>1, <1>2, <1>3, <1>4 DEF Operations

LEMMA OpConcerns ==
    ASSUME NEW o \in Operations
    PROVE  /\ Concerns(o) \subseteq Warehouses /\ Recorded(o) \subseteq Concerns(o)
           /\ o # NoOp => /\ o.at \in Concerns(o)
                          /\ o.kind = "transfer" => Concerns(o) = {o.at, o.to} /\ Recorded(o) = {o.at, o.to}
                          /\ o.kind # "transfer" => Concerns(o) = {o.at}
                          /\ \A w \in Recorded(o) : Change(o, w) \in Int
<1>1. CASE o = NoOp
  BY <1>1 DEF Concerns, Recorded
<1>2. CASE o # NoOp
  <2>1. /\ Concerns(o) \subseteq Warehouses /\ Recorded(o) \subseteq Concerns(o)
        /\ o.at \in Concerns(o)
        /\ o.kind = "transfer" => Concerns(o) = {o.at, o.to} /\ Recorded(o) = {o.at, o.to}
        /\ o.kind # "transfer" => Concerns(o) = {o.at}
    BY <1>2, OpFields DEF Concerns, Recorded
  <2>2. ASSUME NEW w \in Recorded(o) PROVE Change(o, w) \in Int
    BY <1>2, OpFields DEF Change, Recorded
  <2> QED BY <2>1, <2>2
<1> QED BY <1>1, <1>2

\* What is written is a level again, and holds more or less than before by
\* what is recorded.
LEMMA AfterLevel ==
    ASSUME NEW o \in Operations, o # NoOp, NEW row \in Level, ~Refused(o, row)
    PROVE  /\ After(o, row) \in Level
           /\ OnHand(After(o, row)) =
                 OnHand(row) + (IF Recorded(o) = {} THEN 0 ELSE Change(o, o.at))
<1>0. /\ row.available \in Nat /\ row.reserved \in Nat /\ row.point \in Nat /\ row.max \in Nat
      /\ OnHand(row) = row.available + row.reserved
  BY LevelFields
<1>1. CASE o.kind \in {"add", "adjust"}
  <2>1. row.available + o.n \in Nat /\ o.n \in Int
    BY <1>0, <1>1, OpFields DEF Refused
  <2>2. After(o, row) = [row EXCEPT !.available = @ + o.n]
    BY <1>1 DEF After
  <2>3. /\ After(o, row) \in Level /\ After(o, row).available = row.available + o.n
        /\ After(o, row).reserved = row.reserved
    BY <2>1, <2>2 DEF Level
  <2>4. Recorded(o) # {} /\ Change(o, o.at) = o.n
    BY <1>1 DEF Recorded, Change, Concerns
  <2> QED BY <1>0, <2>1, <2>3, <2>4, LevelFields
<1>2. CASE o.kind \in {"deduct", "transfer"}
  <2>1. row.available - o.n \in Nat /\ o.n \in Int
    BY <1>0, <1>2, OpFields DEF Refused
  <2>2. After(o, row) = [row EXCEPT !.available = @ - o.n]
    BY <1>2 DEF After
  <2>3. /\ After(o, row) \in Level /\ After(o, row).available = row.available - o.n
        /\ After(o, row).reserved = row.reserved
    BY <2>1, <2>2 DEF Level
  <2>4. Recorded(o) # {} /\ Change(o, o.at) = -o.n
    BY <1>2 DEF Recorded, Change, Concerns
  <2> QED BY <1>0, <2>1, <2>3, <2>4, LevelFields
<1>3. CASE o.kind = "reserve"
  <2>1. row.available - o.n \in Nat /\ o.n \in Nat /\ row.reserved + o.n \in Nat
    BY <1>0, <1>3, OpFields DEF Refused
  <2>2. After(o, row) = [row EXCEPT !.available = @ - o.n, !.reserved = @ + o.n]
    BY <1>3 DEF After
  <2>3. /\ After(o, row) \in Level /\ After(o, row).available = row.available - o.n
        /\ After(o, row).reserved = row.reserved + o.n
    BY <1>0, <2>1, <2>2 DEF Level
  <2>4. Recorded(o) = {}
    BY <1>3 DEF Recorded
  <2> QED BY <1>0, <2>1, <2>3, <2>4, LevelFields
<1>4. CASE o.kind = "release"
  <2>1. row.reserved - o.n \in Nat /\ o.n \in Nat /\ row.available + o.n \in Nat
    BY <1>0, <1>4, OpFields DEF Refused
  <2>2. After(o, row) = [row EXCEPT !.available = @ + o.n, !.reserved = @ - o.n]
    BY <1>4 DEF After
  <2>3. /\ After(o, row) \in Level /\ After(o, row).available = row.available + o.n
        /\ After(o, row).reserved = row.reserved - o.n
    BY <1>0, <2>1, <2>2 DEF Level
  <2>4. Recorded(o) = {}
    BY <1>4 DEF Recorded
  <2> QED BY <1>0, <2>1, <2>3, <2>4, LevelFields
<1>5. CASE o.kind = "confirm"
  <2>1. row.reserved - o.n \in Nat /\ o.n \in Nat
    BY <1>0, <1>5, OpFields DEF Refused
  <2>2. After(o, row) = [row EXCEPT !.reserved = @ - o.n]
    BY <1>5 DEF After
  <2>3. /\ After(o, row) \in Level /\ After(o, row).available = row.available
        /\ After(o, row).reserved = row.reserved - o.n
    BY <2>1, <2>2 DEF Level
  <2>4. Recorded(o) # {} /\ Change(o, o.at) = -o.n
    BY <1>5 DEF Recorded, Change, Concerns
  <2> QED BY <1>0, <2>1, <2>3, <2>4, LevelFields
<1>6. CASE o.kind = "settings"
  <2>1. o.point \in Nat /\ (IF o.max = 0 THEN row.max ELSE o.max) \in Nat
    BY <1>0, <1>6, OpFields
  <2>2. After(o, row) = [row EXCEPT !.point = o.point, !.max = IF o.max = 0 THEN @ ELSE o.max]
    BY <1>6 DEF After
  <2>3. /\ After(o, row) \in Level /\ After(o, row).available = row.available
        /\ After(o, row).reserved = row.reserved
    BY <2>1, <2>2 DEF Level
  <2>4. Recorded(o) = {}
    BY <1>6 DEF Recorded
  <2> QED BY <1>0, <2>1, <2>3, <2>4, LevelFields
<1> QED BY <1>1, <1>2, <1>3, <1>4, <1>5, <1>6, OpFields

-------------------------------------------------------------------------------
(* How a request goes on                                                   *)

Places == [do : Stages, at : Warehouses, left : SUBSET Warehouses]

RequestTyped ==
    /\ op \in [Requests -> Operations]
    /\ copy \in [Requests -> [Warehouses -> Level \cup {Absent}]]
    /\ pc \in [Requests -> {Idle} \cup Places]

\* The other requests stay where they are.
Others(r) ==
    \A q \in Requests : q # r => pc'[q] = pc[q] /\ op'[q] = op[q] /\ copy'[q] = copy[q]

Kept == \A w \in Warehouses : level[w] # Absent => level'[w] # Absent

LEMMA AtWork ==
    ASSUME LevelInv, NEW r \in Requests, pc[r].do \in Stages \/ pc[r] # Idle
    PROVE  /\ pc[r] \in Places /\ pc[r] # Idle /\ pc[r].do \in Stages
           /\ pc[r].at \in Concerns(op[r]) /\ pc[r].at \in Warehouses
           /\ op[r] \in Operations /\ op[r] # NoOp
           /\ RequestTyped
<1>1. RequestTyped
  BY DEF LevelInv, TypeOK, RequestTyped, Places
<1>2. Idle.do = "idle" /\ "idle" \notin Stages
  BY DEF Idle, Stages
<1>3. pc[r] # Idle /\ pc[r] \in Places
  BY <1>1, <1>2 DEF RequestTyped
<1>4. pc[r].at \in Concerns(op[r]) /\ op[r] \in Operations
  BY <1>1, <1>3 DEF LevelInv, Knows, RequestTyped
<1>5. op[r] # NoOp
  BY <1>4 DEF Concerns
<1> QED BY <1>1, <1>3, <1>4, <1>5 DEF Places

LEMMA GotoTyped ==
    ASSUME RequestTyped, NEW r \in Requests, NEW stage \in Stages, NEW w \in Warehouses,
           NEW left \in SUBSET Warehouses, Goto(r, stage, w, left)
    PROVE  /\ pc' \in [Requests -> {Idle} \cup Places]
           /\ pc'[r] # Idle /\ pc'[r].do = stage /\ pc'[r].at = w /\ pc'[r].left = left
           /\ \A q \in Requests : q # r => pc'[q] = pc[q]
<1> DEFINE place == [do |-> stage, at |-> w, left |-> left]
<1>1. place \in Places /\ place.do = stage /\ place.at = w /\ place.left = left
  BY DEF Places
<1>2. place # Idle
  BY <1>1 DEF Idle, Stages
<1>3. pc' = [pc EXCEPT ![r] = place]
  BY DEF Goto
<1> HIDE DEF place
<1> QED BY <1>1, <1>2, <1>3 DEF RequestTyped

LEMMA FinishTyped ==
    ASSUME RequestTyped, NEW r \in Requests, Finish(r)
    PROVE  /\ RequestTyped' /\ Others(r)
           /\ pc'[r] = Idle /\ op'[r] = NoOp /\ \A w \in Warehouses : copy'[r][w] = Absent
           /\ Knows(r)'
<1>1. NoOp \in Operations
  BY DEF Operations
<1>2. RequestTyped' /\ Others(r)
  BY <1>1 DEF Finish, RequestTyped, Others
<1>3. pc'[r] = Idle /\ op'[r] = NoOp /\ \A w \in Warehouses : copy'[r][w] = Absent
  BY DEF Finish, RequestTyped
<1> QED BY <1>2, <1>3 DEF Knows

\* Another request still knows what it knew.
LEMMA OthersKnow ==
    ASSUME NEW q \in Requests, Knows(q), Kept,
           pc'[q] = pc[q], op'[q] = op[q], copy'[q] = copy[q]
    PROVE  Knows(q)'
  BY DEF Knows, Kept

LEMMA LevelInvFrom ==
    ASSUME LevelInv, NEW r \in Requests, RequestTyped', Others(r), Kept, Knows(r)',
           level' \in [Warehouses -> Level \cup {Absent}],
           active' \in [Warehouses -> [AlertTypes -> 0..2]],
           recorded' \in [Warehouses -> Int],
           ShortIsAlerted'
    PROVE  LevelInv'
<1>1. ASSUME NEW q \in Requests PROVE Knows(q)'
  <2>1. CASE q = r
    BY <2>1
  <2>2. CASE q # r
    BY <2>2, OthersKnow DEF LevelInv, Others
  <2> QED BY <2>1, <2>2
<1>2. TypeOK'
  BY DEF TypeOK, RequestTyped, Places
<1> QED BY <1>1, <1>2 DEF LevelInv

\* Reading a level: the request goes on to the other one, is refused, or goes
\* on to write.
LEMMA TakeTyped ==
    ASSUME LevelInv, NEW r \in Requests, pc[r].do \in {"read", "create"}, NEW row \in Level,
           Take(r, row), Kept, level'[pc[r].at] # Absent
    PROVE  /\ RequestTyped' /\ Others(r) /\ Knows(r)'
           /\ \/ pc'[r] = Idle /\ op'[r] = NoOp /\ \A w \in Warehouses : copy'[r][w] = Absent
              \/ /\ op' = op /\ pc'[r].do \in {"read", "write"} /\ pc'[r].left = {}
                 /\ pc'[r].do = "write" => pc'[r].at = op[r].at
                 /\ \A w \in Warehouses : copy'[r][w] = (IF w = pc[r].at THEN row ELSE copy[r][w])
<1> DEFINE o == op[r]
           w == pc[r].at
           read == [copy[r] EXCEPT ![w] = row]
<1>0. /\ pc[r] # Idle /\ w \in Concerns(o) /\ w \in Warehouses /\ o \in Operations /\ o # NoOp
      /\ RequestTyped /\ row # Absent
  BY AtWork, AbsentIsNoLevel DEF Stages
<1>1. read \in [Warehouses -> Level \cup {Absent}] /\ read[w] = row
      /\ \A v \in Warehouses : v # w => read[v] = copy[r][v]
  BY <1>0 DEF RequestTyped
<1>2. /\ \A v \in Warehouses : copy[r][v] # Absent => level'[v] # Absent /\ v \in Concerns(o)
      /\ w # o.at => copy[r][o.at] # Absent
  BY <1>0 DEF LevelInv, Knows, Kept
<1>3. \A v \in Warehouses : read[v] # Absent => level'[v] # Absent /\ v \in Concerns(o)
  BY <1>0, <1>1, <1>2
<1> HIDE DEF read
<1>4. CASE o.kind = "transfer" /\ w = o.at
  <2>1. /\ op' = op /\ copy' = [copy EXCEPT ![r] = read] /\ Goto(r, "read", o.to, {})
    BY <1>4 DEF Take, read
  <2>2. o.to \in Warehouses /\ o.to \in Concerns(o) /\ o.to # o.at /\ "read" \in Stages
    BY <1>0, <1>4, OpFields, OpConcerns DEF Stages
  <2>3. /\ pc' \in [Requests -> {Idle} \cup Places]
        /\ pc'[r] # Idle /\ pc'[r].do = "read" /\ pc'[r].at = o.to /\ pc'[r].left = {}
        /\ \A q \in Requests : q # r => pc'[q] = pc[q]
    BY <1>0, <2>1, <2>2, GotoTyped
  <2>4. copy'[r] = read /\ \A q \in Requests : q # r => copy'[q] = copy[q]
    BY <1>0, <2>1 DEF RequestTyped
  <2>5. RequestTyped' /\ Others(r)
    BY <1>0, <1>1, <2>1, <2>3, <2>4 DEF RequestTyped, Others
  <2>6. Knows(r)'
    BY <1>0, <1>1, <1>3, <1>4, <2>1, <2>2, <2>3, <2>4 DEF Knows
  <2> QED BY <1>1, <2>1, <2>3, <2>4, <2>5, <2>6
<1>5. CASE ~(o.kind = "transfer" /\ w = o.at) /\ Refused(o, read[o.at])
  <2>1. Finish(r)
    BY <1>5 DEF Take, read
  <2> QED BY <1>0, <2>1, FinishTyped
<1>6. CASE ~(o.kind = "transfer" /\ w = o.at) /\ ~Refused(o, read[o.at])
  <2>1. /\ op' = op /\ copy' = [copy EXCEPT ![r] = read] /\ Goto(r, "write", o.at, {})
    BY <1>6 DEF Take, read
  <2>2. o.at \in Warehouses /\ o.at \in Concerns(o) /\ "write" \in Stages
    BY <1>0, OpFields, OpConcerns DEF Stages
  <2>3. /\ pc' \in [Requests -> {Idle} \cup Places]
        /\ pc'[r] # Idle /\ pc'[r].do = "write" /\ pc'[r].at = o.at /\ pc'[r].left = {}
        /\ \A q \in Requests : q # r => pc'[q] = pc[q]
    BY <1>0, <2>1, <2>2, GotoTyped
  <2>4. copy'[r] = read /\ \A q \in Requests : q # r => copy'[q] = copy[q]
    BY <1>0, <2>1 DEF RequestTyped
  <2>5. RequestTyped' /\ Others(r)
    BY <1>0, <1>1, <2>1, <2>3, <2>4 DEF RequestTyped, Others
  <2>6. \A v \in Concerns(o) : read[v] # Absent
    <3>1. CASE o.kind = "transfer"
      BY <1>0, <1>1, <1>2, <1>6, <3>1, OpFields, OpConcerns
    <3>2. CASE o.kind # "transfer"
      BY <1>0, <1>1, <3>2, OpConcerns
    <3> QED BY <3>1, <3>2
  <2>7. Knows(r)'
    BY <1>0, <1>3, <1>6, <2>1, <2>2, <2>3, <2>4, <2>6 DEF Knows
  <2> QED BY <1>1, <2>1, <2>3, <2>4, <2>5, <2>7
<1> QED BY <1>4, <1>5, <1>6

\* The row that WriteLevel writes.
Written(r) ==
    LET o == op[r]
        w == pc[r].at
        after == IF o.kind = "transfer" /\ w = o.to
                 THEN [copy[r][w] EXCEPT !.available = @ + o.n]
                 ELSE After(o, copy[r][w])
    IN  IF o.kind = "settings" /\ o.max = 0 THEN [after EXCEPT !.max = level[w].max] ELSE after

LEMMA WrittenLevel ==
    ASSUME LevelInv, NEW r \in Requests, pc[r].do = "write"
    PROVE  /\ Written(r) \in Level
           /\ pc[r].at \in Concerns(op[r]) /\ pc[r].at \in Warehouses
           /\ copy[r][pc[r].at] \in Level /\ level[pc[r].at] \in Level
           /\ OnHand(Written(r)) = OnHand(copy[r][pc[r].at])
                 + (IF Recorded(op[r]) = {} THEN 0 ELSE Change(op[r], pc[r].at))
<1> DEFINE o == op[r]
           w == pc[r].at
           after == IF o.kind = "transfer" /\ w = o.to
                    THEN [copy[r][w] EXCEPT !.available = @ + o.n]
                    ELSE After(o, copy[r][w])
<1>0. /\ pc[r] # Idle /\ w \in Concerns(o) /\ w \in Warehouses /\ o \in Operations /\ o # NoOp
      /\ RequestTyped
  BY AtWork DEF Stages
<1>1. copy[r][w] # Absent /\ level[w] # Absent /\ (w = o.at => ~Refused(o, copy[r][w]))
  BY <1>0 DEF LevelInv, Knows
<1>2. copy[r][w] \in Level /\ level[w] \in Level
  BY <1>0, <1>1 DEF RequestTyped, LevelInv, TypeOK
<1>3. /\ after \in Level
      /\ OnHand(after) = OnHand(copy[r][w]) + (IF Recorded(o) = {} THEN 0 ELSE Change(o, w))
  <2>1. CASE o.kind = "transfer" /\ w = o.to
    <3>1. after = [copy[r][w] EXCEPT !.available = @ + o.n]
      BY <2>1
    <3>2. o.n \in Nat /\ o.to # o.at /\ Recorded(o) # {}
      BY <1>0, <2>1, OpFields, OpConcerns
    <3>3. copy[r][w].available + o.n \in Nat
      BY <1>2, <3>2, LevelFields
    <3>4. /\ after \in Level /\ after.available = copy[r][w].available + o.n
          /\ after.reserved = copy[r][w].reserved
      BY <1>2, <3>1, <3>3 DEF Level
    <3>5. Change(o, w) = o.n
      BY <2>1, <3>2 DEF Change
    <3> HIDE DEF after
    <3> QED BY <1>2, <3>2, <3>4, <3>5, LevelFields
  <2>2. CASE ~(o.kind = "transfer" /\ w = o.to)
    <3>1. w = o.at
      BY <1>0, <2>2, OpConcerns
    <3>2. after = After(o, copy[r][w])
      BY <2>2
    <3> QED BY <1>0, <1>1, <1>2, <3>1, <3>2, AfterLevel
  <2> QED BY <2>1, <2>2
<1>4. Written(r) = IF o.kind = "settings" /\ o.max = 0 THEN [after EXCEPT !.max = level[w].max] ELSE after
  BY DEF Written
<1> HIDE DEF after
<1>5. Written(r) \in Level /\ OnHand(Written(r)) = OnHand(after)
  <2>1. CASE o.kind = "settings" /\ o.max = 0
    <3>1. Written(r) = [after EXCEPT !.max = level[w].max] /\ level[w].max \in Nat
      BY <1>2, <1>4, <2>1, LevelFields
    <3>2. /\ Written(r) \in Level /\ Written(r).available = after.available
          /\ Written(r).reserved = after.reserved
      BY <1>3, <3>1 DEF Level
    <3> QED BY <1>3, <3>2, LevelFields
  <2>2. CASE ~(o.kind = "settings" /\ o.max = 0)
    BY <1>3, <1>4, <2>2
  <2> QED BY <2>1, <2>2
<1> QED BY <1>0, <1>2, <1>3, <1>5

LEMMA WriteTyped ==
    ASSUME LevelInv, NEW r \in Requests, WriteLevel(r)
    PROVE  /\ pc[r].do = "write" /\ Kept
           /\ level' = [level EXCEPT ![pc[r].at] = Written(r)]
           /\ Trigger(pc[r].at, Written(r)) /\ UNCHANGED recorded
           /\ RequestTyped' /\ Others(r) /\ Knows(r)'
           /\ \/ /\ Recorded(op[r]) = {}
                 /\ pc'[r] = Idle /\ op'[r] = NoOp /\ \A w \in Warehouses : copy'[r][w] = Absent
              \/ /\ op' = op
                 /\ \A w \in Warehouses :
                       copy'[r][w] = (IF w = pc[r].at THEN Written(r) ELSE copy[r][w])
                 /\ \/ /\ op[r].kind = "transfer" /\ pc[r].at = op[r].at
                       /\ pc'[r].do = "write" /\ pc'[r].at = op[r].to /\ pc'[r].left = {}
                    \/ /\ op[r].kind = "transfer" => pc[r].at # op[r].at
                       /\ pc'[r].do = "record" /\ pc'[r].left = Recorded(op[r])
                    \/ Recorded(op[r]) = {} /\ pc'[r].do = "alert" /\ pc'[r].left = {}
<1> DEFINE o == op[r]
           w == pc[r].at
<1>0. pc[r].do = "write"
  BY DEF WriteLevel
<1>1. /\ pc[r] # Idle /\ w \in Concerns(o) /\ w \in Warehouses /\ o \in Operations /\ o # NoOp
      /\ RequestTyped /\ Written(r) \in Level /\ Written(r) # Absent
  BY <1>0, AtWork, WrittenLevel, AbsentIsNoLevel DEF Stages
<1>2. /\ level' = [level EXCEPT ![w] = Written(r)] /\ Trigger(w, Written(r)) /\ UNCHANGED recorded
      /\ IF o.kind = "settings" \/ o.kind = "release"
         THEN Finish(r)
         ELSE /\ copy' = [copy EXCEPT ![r][w] = Written(r)]
              /\ op' = op
              /\ IF o.kind = "transfer" /\ w = o.at
                 THEN Goto(r, "write", o.to, {})
                 ELSE IF Recorded(o) # {}
                 THEN Goto(r, "record", o.at, Recorded(o))
                 ELSE Goto(r, "alert", o.at, {})
  BY DEF WriteLevel, Written
<1>3. Kept
  BY <1>1, <1>2 DEF Kept, LevelInv, TypeOK
<1>4. CASE o.kind = "settings" \/ o.kind = "release"
  <2>1. Recorded(o) = {}
    BY <1>4 DEF Recorded
  <2>2. Finish(r)
    BY <1>2, <1>4
  <2> QED BY <1>0, <1>1, <1>2, <1>3, <2>1, <2>2, FinishTyped
<1>5. CASE ~(o.kind = "settings" \/ o.kind = "release")
  <2>1. copy' = [copy EXCEPT ![r][w] = Written(r)] /\ op' = op
    BY <1>2, <1>5
  <2>2. /\ \A v \in Warehouses : copy'[r][v] = (IF v = w THEN Written(r) ELSE copy[r][v])
        /\ \A q \in Requests : q # r => copy'[q] = copy[q]
        /\ copy' \in [Requests -> [Warehouses -> Level \cup {Absent}]]
    BY <1>1, <2>1 DEF RequestTyped
  <2>3. /\ \A v \in Warehouses : copy'[r][v] # Absent => level'[v] # Absent /\ v \in Concerns(o)
        /\ \A v \in Concerns(o) : copy'[r][v] # Absent
    <3>1. /\ \A v \in Warehouses : copy[r][v] # Absent => level'[v] # Absent /\ v \in Concerns(o)
          /\ \A v \in Concerns(o) : copy[r][v] # Absent
          /\ Concerns(o) \subseteq Warehouses
      BY <1>0, <1>1, <1>3, OpConcerns DEF LevelInv, Knows, Kept
    <3>2. level'[w] = Written(r)
      BY <1>1, <1>2 DEF LevelInv, TypeOK
    <3> QED BY <1>1, <2>2, <3>1, <3>2
  <2>4. o.at \in Warehouses /\ o.at \in Concerns(o) /\ Recorded(o) \in SUBSET Warehouses
        /\ {"write", "record", "alert"} \subseteq Stages /\ {} \in SUBSET Warehouses
        /\ Recorded(o) \subseteq Concerns(o)
    BY <1>1, OpFields, OpConcerns DEF Stages
  <2>5. ASSUME NEW stage \in {"write", "record", "alert"}, NEW at \in Concerns(o),
               NEW left \in SUBSET Recorded(o), Goto(r, stage, at, left),
               stage # "record" => left = {}, stage = "write" => at # o.at
        PROVE  /\ RequestTyped' /\ Others(r) /\ Knows(r)'
               /\ pc'[r].do = stage /\ pc'[r].at = at /\ pc'[r].left = left
    <3>1. at \in Warehouses /\ left \in SUBSET Warehouses /\ stage \in Stages
      BY <1>1, <2>4, OpConcerns
    <3>2. /\ pc' \in [Requests -> {Idle} \cup Places]
          /\ pc'[r] # Idle /\ pc'[r].do = stage /\ pc'[r].at = at /\ pc'[r].left = left
          /\ \A q \in Requests : q # r => pc'[q] = pc[q]
      BY <1>1, <2>5, <3>1, GotoTyped
    <3>3. RequestTyped' /\ Others(r)
      BY <1>1, <2>1, <2>2, <3>2 DEF RequestTyped, Others
    <3>4. Knows(r)'
      BY <2>1, <2>3, <2>4, <2>5, <3>2 DEF Knows
    <3> QED BY <3>2, <3>3, <3>4
  <2>6. CASE o.kind = "transfer" /\ w = o.at
    <3>1. Goto(r, "write", o.to, {}) /\ o.to \in Concerns(o) /\ o.to # o.at
      BY <1>1, <1>2, <1>5, <2>6, OpFields, OpConcerns
    <3> QED BY <1>0, <1>2, <1>3, <2>1, <2>2, <2>5, <2>6, <3>1
  <2>7. CASE ~(o.kind = "transfer" /\ w = o.at) /\ Recorded(o) # {}
    <3>1. Goto(r, "record", o.at, Recorded(o))
      BY <1>2, <1>5, <2>7
    <3> QED BY <1>0, <1>2, <1>3, <2>1, <2>2, <2>4, <2>5, <2>7, <3>1
  <2>8. CASE ~(o.kind = "transfer" /\ w = o.at) /\ Recorded(o) = {}
    <3>1. Goto(r, "alert", o.at, {})
      BY <1>2, <1>5, <2>8
    <3> QED BY <1>0, <1>2, <1>3, <2>1, <2>2, <2>4, <2>5, <2>8, <3>1
  <2> QED BY <2>6, <2>7, <2>8
<1> QED BY <1>4, <1>5

LEMMA StartTyped ==
    ASSUME LevelInv, NEW r \in Requests, NEW o \in Operations \ {NoOp}, Start(r, o)
    PROVE  /\ RequestTyped' /\ Others(r) /\ Knows(r)' /\ UNCHANGED <<level, active, recorded, copy>>
           /\ op[r] = NoOp /\ op'[r] = o
           /\ pc[r] = Idle /\ pc'[r].do = "read" /\ pc'[r].left = {}
           /\ \A w \in Warehouses : copy[r][w] = Absent
<1>0. RequestTyped /\ pc[r] = Idle /\ op[r] = NoOp
  BY DEF LevelInv, TypeOK, RequestTyped, Places, Start, Knows
<1>1. \A w \in Warehouses : copy[r][w] = Absent
  BY <1>0 DEF LevelInv, Knows, Concerns
<1>2. /\ UNCHANGED <<level, active, recorded, copy>> /\ op' = [op EXCEPT ![r] = o]
      /\ Goto(r, "read", o.at, {})
  BY DEF Start, rows
<1>3. o.at \in Warehouses /\ o.at \in Concerns(o) /\ "read" \in Stages
  BY OpFields, OpConcerns DEF Stages
<1>4. /\ pc' \in [Requests -> {Idle} \cup Places]
      /\ pc'[r] # Idle /\ pc'[r].do = "read" /\ pc'[r].at = o.at /\ pc'[r].left = {}
      /\ \A q \in Requests : q # r => pc'[q] = pc[q]
  BY <1>0, <1>2, <1>3, GotoTyped
<1>5. RequestTyped' /\ Others(r) /\ op'[r] = o
  BY <1>0, <1>2, <1>4 DEF RequestTyped, Others
<1>6. Knows(r)'
  BY <1>1, <1>2, <1>3, <1>4, <1>5 DEF Knows
<1> QED BY <1>0, <1>1, <1>2, <1>4, <1>5, <1>6

\* A row is read, or inserted where there was none.
LEMMA ReadTyped ==
    ASSUME LevelInv, NEW r \in Requests, ReadLevel(r) \/ CreateLevel(r)
    PROVE  /\ UNCHANGED <<active, recorded>> /\ Kept /\ pc[r].do \in {"read", "create"}
           /\ pc[r].at \in Concerns(op[r]) /\ pc[r].at \in Warehouses
           /\ RequestTyped' /\ Others(r) /\ Knows(r)'
           /\ \/ UNCHANGED level
              \/ level[pc[r].at] = Absent /\ level' = [level EXCEPT ![pc[r].at] = NewLevel]
           /\ \/ pc'[r] = Idle /\ op'[r] = NoOp /\ \A w \in Warehouses : copy'[r][w] = Absent
              \/ /\ op' = op /\ pc'[r].do \in {"read", "create", "write"} /\ pc'[r].left = {}
                 /\ pc'[r].do = "write" => pc'[r].at = op[r].at
                 /\ \A w \in Warehouses :
                       copy'[r][w] = copy[r][w] \/ (w = pc[r].at /\ copy'[r][w] = level'[w])
<1> DEFINE w == pc[r].at
<1>0. /\ pc[r].do \in {"read", "create"} /\ UNCHANGED <<active, recorded>>
  BY DEF ReadLevel, CreateLevel, rows
<1>1. /\ pc[r] # Idle /\ w \in Concerns(op[r]) /\ w \in Warehouses /\ op[r] \in Operations
      /\ op[r] # NoOp /\ RequestTyped /\ pc[r] \in Places
  BY <1>0, AtWork DEF Stages
<1>2. level \in [Warehouses -> Level \cup {Absent}]
  BY DEF LevelInv, TypeOK
<1>3. ASSUME NEW row \in Level, Take(r, row), level'[w] = row, Kept,
             \/ UNCHANGED level
             \/ level[w] = Absent /\ level' = [level EXCEPT ![w] = NewLevel]
      PROVE  /\ RequestTyped' /\ Others(r) /\ Knows(r)'
             /\ \/ pc'[r] = Idle /\ op'[r] = NoOp /\ \A v \in Warehouses : copy'[r][v] = Absent
                \/ /\ op' = op /\ pc'[r].do \in {"read", "create", "write"} /\ pc'[r].left = {}
                   /\ pc'[r].do = "write" => pc'[r].at = op[r].at
                   /\ \A v \in Warehouses :
                         copy'[r][v] = copy[r][v] \/ (v = w /\ copy'[r][v] = level'[v])
  <2>1. level'[pc[r].at] # Absent
    BY <1>3, AbsentIsNoLevel
  <2> QED BY <1>0, <1>3, <2>1, TakeTyped
<1>4. CASE ReadLevel(r)
  <2>1. UNCHANGED level /\ Kept
    BY <1>4 DEF ReadLevel, rows, Kept
  <2>2. CASE level[w] = Absent
    <3>1. Goto(r, "create", w, {}) /\ UNCHANGED <<op, copy>> /\ "create" \in Stages
      BY <1>4, <2>2 DEF ReadLevel, Stages
    <3>2. /\ pc' \in [Requests -> {Idle} \cup Places]
          /\ pc'[r] # Idle /\ pc'[r].do = "create" /\ pc'[r].at = w /\ pc'[r].left = {}
          /\ \A q \in Requests : q # r => pc'[q] = pc[q]
      BY <1>1, <3>1, GotoTyped
    <3>3. RequestTyped' /\ Others(r)
      BY <1>1, <3>1, <3>2 DEF RequestTyped, Others
    <3>4. Knows(r)'
      BY <1>1, <2>1, <3>1, <3>2 DEF Knows, LevelInv
    <3> QED BY <1>0, <1>1, <2>1, <3>1, <3>2, <3>3, <3>4
  <2>3. CASE level[w] # Absent
    <3>1. Take(r, level[w]) /\ level[w] \in Level /\ level'[w] = level[w]
      BY <1>1, <1>2, <1>4, <2>1, <2>3 DEF ReadLevel
    <3> QED BY <1>0, <1>1, <1>3, <2>1, <3>1
  <2> QED BY <2>2, <2>3
<1>5. CASE CreateLevel(r)
  <2>1. CASE level[w] # Absent
    <3>1. Take(r, level[w]) /\ UNCHANGED level
      BY <1>5, <2>1 DEF CreateLevel
    <3>2. level[w] \in Level /\ level'[w] = level[w] /\ Kept
      BY <1>1, <1>2, <2>1, <3>1 DEF Kept
    <3> QED BY <1>0, <1>1, <1>3, <3>1, <3>2
  <2>2. CASE level[w] = Absent /\ op[r].kind = "settings"
    <3>1. Finish(r) /\ UNCHANGED level
      BY <1>5, <2>2 DEF CreateLevel
    <3> QED BY <1>0, <1>1, <3>1, FinishTyped DEF Kept
  <2>3. CASE level[w] = Absent /\ op[r].kind # "settings"
    <3>1. Take(r, NewLevel) /\ level' = [level EXCEPT ![w] = NewLevel]
      BY <1>5, <2>3 DEF CreateLevel
    <3>2. NewLevel \in Level /\ level'[w] = NewLevel /\ Kept
      BY <1>1, <1>2, <2>3, <3>1, AbsentIsNoLevel DEF Kept
    <3> QED BY <1>0, <1>1, <1>3, <2>3, <3>1, <3>2
  <2> QED BY <2>1, <2>2, <2>3
<1> QED BY <1>4, <1>5

LEMMA RecordTyped ==
    ASSUME LevelInv, NEW r \in Requests, NEW w \in Warehouses, RecordMovement(r, w)
    PROVE  /\ UNCHANGED <<level, active>> /\ Kept
           /\ pc[r].do = "record" /\ w \in pc[r].left /\ w \in Concerns(op[r])
           /\ recorded' = [recorded EXCEPT ![w] = @ + Change(op[r], w)] /\ Change(op[r], w) \in Int
           /\ RequestTyped' /\ Others(r) /\ Knows(r)'
           /\ \/ /\ pc[r].left = {w}
                 /\ pc'[r] = Idle /\ op'[r] = NoOp /\ \A v \in Warehouses : copy'[r][v] = Absent
              \/ /\ op' = op /\ copy' = copy
                 /\ \/ pc'[r].do = "record" /\ pc'[r].left = pc[r].left \ {w}
                    \/ pc'[r].do = "alert" /\ pc'[r].left = {} /\ pc[r].left = {w}
<1> DEFINE o == op[r]
<1>0. /\ UNCHANGED <<level, active>> /\ pc[r].do = "record" /\ w \in pc[r].left
      /\ recorded' = [recorded EXCEPT ![w] = @ + Change(op[r], w)]
  BY DEF RecordMovement
<1>1. /\ pc[r] # Idle /\ pc[r].at \in Concerns(o) /\ pc[r].at \in Warehouses /\ o \in Operations
      /\ o # NoOp /\ RequestTyped /\ pc[r] \in Places
  BY <1>0, AtWork DEF Stages
<1>2. /\ pc[r].left \subseteq Recorded(o) /\ Recorded(o) \subseteq Concerns(o)
      /\ Concerns(o) \subseteq Warehouses /\ w \in Concerns(o) /\ Change(o, w) \in Int
      /\ o.at \in Concerns(o)
  BY <1>0, <1>1, OpConcerns DEF LevelInv, Knows
<1>3. ASSUME NEW stage \in {"record", "alert"}, NEW at \in Concerns(o),
             NEW left \in SUBSET pc[r].left, Goto(r, stage, at, left), UNCHANGED <<op, copy>>,
             stage # "record" => left = {}
      PROVE  /\ RequestTyped' /\ Others(r) /\ Knows(r)'
             /\ pc'[r].do = stage /\ pc'[r].at = at /\ pc'[r].left = left
  <2>1. at \in Warehouses /\ left \in SUBSET Warehouses /\ stage \in Stages
    BY <1>2 DEF Stages
  <2>2. /\ pc' \in [Requests -> {Idle} \cup Places]
        /\ pc'[r] # Idle /\ pc'[r].do = stage /\ pc'[r].at = at /\ pc'[r].left = left
        /\ \A q \in Requests : q # r => pc'[q] = pc[q]
    BY <1>1, <1>3, <2>1, GotoTyped
  <2>3. RequestTyped' /\ Others(r)
    BY <1>1, <1>3, <2>2 DEF RequestTyped, Others
  <2>4. Knows(r)'
    BY <1>0, <1>1, <1>2, <1>3, <2>2 DEF LevelInv, Knows
  <2> QED BY <2>2, <2>3, <2>4
<1>4. CASE pc[r].left # {w}
  <2>1. Goto(r, "record", pc[r].at, pc[r].left \ {w}) /\ UNCHANGED <<op, copy>>
    BY <1>4 DEF RecordMovement
  <2> QED BY <1>0, <1>1, <1>2, <1>3, <2>1 DEF Kept
<1>5. CASE pc[r].left = {w} /\ ChecksAlerts(o)
  <2>1. Goto(r, "alert", o.at, {}) /\ UNCHANGED <<op, copy>>
    BY <1>5 DEF RecordMovement
  <2> QED BY <1>0, <1>1, <1>2, <1>3, <1>5, <2>1 DEF Kept
<1>6. CASE pc[r].left = {w} /\ ~ChecksAlerts(o)
  <2>1. Finish(r)
    BY <1>6 DEF RecordMovement
  <2> QED BY <1>0, <1>1, <1>2, <1>6, <2>1, FinishTyped DEF Kept
<1> QED BY <1>4, <1>5, <1>6

\* The step that ends a request with its alerts, or in the middle.
LEMMA EndTyped ==
    ASSUME LevelInv, NEW r \in Requests, CheckAlerts(r) \/ Fail(r)
    PROVE  /\ UNCHANGED level /\ Kept /\ pc[r] # Idle
           /\ RequestTyped' /\ Others(r) /\ Knows(r)'
           /\ pc'[r] = Idle /\ op'[r] = NoOp /\ \A v \in Warehouses : copy'[r][v] = Absent
           /\ \/ UNCHANGED recorded
              \/ \E w \in Warehouses : recorded' = [recorded EXCEPT ![w] = @ + Change(op[r], w)]
                                       /\ Change(op[r], w) \in Int /\ Faults
<1>1. UNCHANGED level /\ Finish(r) /\ (pc[r].do \in Stages \/ pc[r] # Idle)
  BY DEF CheckAlerts, Fail, Stages
<1>2. pc[r] # Idle /\ op[r] \in Operations /\ RequestTyped /\ op[r] # NoOp
  BY <1>1, AtWork
<1>3. \/ UNCHANGED recorded
      \/ \E w \in Warehouses : recorded' = [recorded EXCEPT ![w] = @ + Change(op[r], w)]
                               /\ Change(op[r], w) \in Int /\ Faults
  <2>1. pc[r].left \subseteq Recorded(op[r]) /\ Recorded(op[r]) \subseteq Warehouses
    BY <1>2, OpConcerns DEF LevelInv, Knows
  <2>2. \/ UNCHANGED recorded
        \/ \E w \in pc[r].left : recorded' = [recorded EXCEPT ![w] = @ + Change(op[r], w)] /\ Faults
    BY DEF CheckAlerts, Fail
  <2> QED BY <1>2, <2>1, <2>2, OpConcerns
<1> QED BY <1>1, <1>2, <1>3, FinishTyped DEF Kept

-------------------------------------------------------------------------------
(* Whatever the requests do to each other, and whatever fails              *)

LEMMA NextCases ==
    ASSUME Next
    PROVE  \E r \in Requests :
              \/ \E o \in Operations \ {NoOp} : Start(r, o)
              \/ ReadLevel(r) \/ CreateLevel(r) \/ WriteLevel(r)
              \/ \E w \in Warehouses : RecordMovement(r, w)
              \/ CheckAlerts(r) \/ Fail(r)
  BY DEF Next

LEMMA InitLevelInv == Init => LevelInv
<1> SUFFICES ASSUME Init PROVE LevelInv
  OBVIOUS
<1>1. NoOp \in Operations
  BY DEF Operations
<1>2. TypeOK
  BY <1>1 DEF Init, TypeOK
<1>3. ShortIsAlerted /\ \A r \in Requests : Knows(r)
  BY DEF Init, ShortIsAlerted, Knows
<1> QED BY <1>2, <1>3 DEF LevelInv

\* What the triggers leave behind.
LEMMA TriggerValues ==
    ASSUME TypeOK, NEW w \in Warehouses, NEW row \in Level, Trigger(w, row)
    PROVE  /\ active' \in [Warehouses -> [AlertTypes -> 0..2]]
           /\ \A v \in Warehouses : v # w => active'[v] = active[v]
           /\ \A t \in AlertTypes :
                /\ row.available > row.point => active'[w][t] = 0
                /\ row.available <= row.point /\ Due(row, t) => active'[w][t] > 0
<1> DEFINE new == [t \in AlertTypes |-> IF row.available > row.point THEN 0
                                        ELSE IF Due(row, t) /\ active[w][t] = 0 THEN 1
                                        ELSE active[w][t]]
<1>1. active[w] \in [AlertTypes -> 0..2]
  BY DEF TypeOK
<1>2. new \in [AlertTypes -> 0..2]
  BY <1>1
<1>3. active' = [active EXCEPT ![w] = new]
  BY DEF Trigger
<1>4. \A t \in AlertTypes :
        /\ row.available > row.point => new[t] = 0
        /\ row.available <= row.point /\ Due(row, t) => new[t] > 0
  <2> SUFFICES ASSUME NEW t \in AlertTypes
               PROVE  /\ row.available > row.point => new[t] = 0
                      /\ row.available <= row.point /\ Due(row, t) => new[t] > 0
    OBVIOUS
  <2>1. row.available \in Nat /\ row.point \in Nat /\ active[w][t] \in 0..2
    BY <1>1, LevelFields
  <2> QED BY <2>1
<1> HIDE DEF new
<1> QED BY <1>2, <1>3, <1>4 DEF TypeOK

LEMMA AlertValues ==
    ASSUME LevelInv, NEW r \in Requests, CheckAlerts(r)
    PROVE  /\ active' \in [Warehouses -> [AlertTypes -> 0..2]]
           /\ \A w \in Warehouses, t \in AlertTypes :
                 \/ active'[w][t] = active[w][t]
                 \/ /\ active'[w][t] > active[w][t] /\ w = op[r].at /\ Due(copy[r][w], t)
<1> DEFINE w == op[r].at
           new == [t \in AlertTypes |-> IF Due(copy[r][w], t) /\ active[w][t] < 2
                                        THEN active[w][t] + 1 ELSE active[w][t]]
<1>1. active \in [Warehouses -> [AlertTypes -> 0..2]] /\ op[r] \in Operations /\ op[r] # NoOp
  BY AtWork DEF CheckAlerts, Stages, LevelInv, TypeOK
<1>2. w \in Warehouses
  BY <1>1, OpFields
<1>3. new \in [AlertTypes -> 0..2]
  BY <1>1, <1>2
<1>4. active' = [active EXCEPT ![w] = new]
  BY DEF CheckAlerts
<1>5. \A t \in AlertTypes : new[t] = active[w][t] \/ (new[t] > active[w][t] /\ Due(copy[r][w], t))
  BY <1>1, <1>2
<1> HIDE DEF new
<1> QED BY <1>1, <1>2, <1>3, <1>4, <1>5

LEMMA NextLevelInv == LevelInv /\ [Next]_vars => LevelInv'
<1> SUFFICES ASSUME LevelInv, [Next]_vars PROVE LevelInv'
  OBVIOUS
<1>0. /\ TypeOK /\ ShortIsAlerted
      /\ level \in [Warehouses -> Level \cup {Absent}]
      /\ active \in [Warehouses -> [AlertTypes -> 0..2]]
      /\ recorded \in [Warehouses -> Int]
  BY DEF LevelInv, TypeOK
<1> USE <1>0
<1>1. CASE UNCHANGED vars
  BY <1>1 DEF vars, rows, request, LevelInv, TypeOK, ShortIsAlerted, Knows
<1>2. ASSUME NEW r \in Requests, NEW o \in Operations \ {NoOp}, Start(r, o)
      PROVE  LevelInv'
  <2>1. /\ RequestTyped' /\ Others(r) /\ Knows(r)' /\ UNCHANGED <<level, active, recorded>>
    BY <1>2, StartTyped
  <2>2. Kept /\ ShortIsAlerted'
    BY <2>1 DEF Kept, ShortIsAlerted
  <2> QED BY <2>1, <2>2, LevelInvFrom
<1>3. ASSUME NEW r \in Requests, ReadLevel(r) \/ CreateLevel(r)
      PROVE  LevelInv'
  <2>1. /\ UNCHANGED <<active, recorded>> /\ Kept /\ pc[r].at \in Warehouses
        /\ RequestTyped' /\ Others(r) /\ Knows(r)'
        /\ \/ UNCHANGED level
           \/ level' = [level EXCEPT ![pc[r].at] = NewLevel]
    BY <1>3, ReadTyped
  <2>2. level' \in [Warehouses -> Level \cup {Absent}]
    BY <2>1, AbsentIsNoLevel
  <2>3. ShortIsAlerted'
    <3>1. ASSUME NEW w \in Warehouses
          PROVE  level'[w] = level[w] \/ level'[w] = NewLevel
      BY <2>1
    <3>2. ~IsLow(NewLevel) /\ ~(IsOut(NewLevel) /\ NewLevel.reserved > 0)
      BY DEF NewLevel, IsLow, IsOut
    <3> QED BY <2>1, <3>1, <3>2 DEF ShortIsAlerted
  <2> QED BY <2>1, <2>2, <2>3, LevelInvFrom
<1>4. ASSUME NEW r \in Requests, WriteLevel(r)
      PROVE  LevelInv'
  <2>1. /\ Kept /\ level' = [level EXCEPT ![pc[r].at] = Written(r)] /\ UNCHANGED recorded
        /\ Trigger(pc[r].at, Written(r)) /\ RequestTyped' /\ Others(r) /\ Knows(r)'
        /\ pc[r].do = "write"
    BY <1>4, WriteTyped
  <2>2. Written(r) \in Level /\ pc[r].at \in Warehouses
    BY <2>1, WrittenLevel
  <2>3. level' \in [Warehouses -> Level \cup {Absent}]
    BY <2>1, <2>2
  <2>4. /\ active' \in [Warehouses -> [AlertTypes -> 0..2]]
        /\ \A v \in Warehouses : v # pc[r].at => active'[v] = active[v]
        /\ \A t \in AlertTypes : Written(r).available <= Written(r).point /\ Due(Written(r), t)
                                   => active'[pc[r].at][t] > 0
    BY <2>1, <2>2, TriggerValues
  <2>5. ShortIsAlerted'
    <3> SUFFICES ASSUME NEW w \in Warehouses
                 PROVE  level'[w] # Absent =>
                          /\ IsLow(level'[w]) => active'[w]["low_stock"] > 0
                          /\ IsOut(level'[w]) /\ level'[w].reserved > 0
                                => active'[w]["out_of_stock"] > 0
      BY DEF ShortIsAlerted
    <3>1. CASE w = pc[r].at
      <4>1. level'[w] = Written(r) /\ Written(r).point \in Nat /\ Written(r).available \in Nat
        BY <2>1, <2>2, <3>1, LevelFields
      <4>2. "low_stock" \in AlertTypes /\ "out_of_stock" \in AlertTypes
        BY DEF AlertTypes
      <4>3. /\ Due(Written(r), "low_stock") = IsLow(Written(r))
            /\ Due(Written(r), "out_of_stock") = IsOut(Written(r))
        BY DEF Due
      <4>4. IsLow(Written(r)) \/ IsOut(Written(r)) => Written(r).available <= Written(r).point
        BY <4>1 DEF IsLow, IsOut
      <4> QED BY <2>4, <3>1, <4>1, <4>2, <4>3, <4>4
    <3>2. CASE w # pc[r].at
      BY <2>1, <2>4, <3>2 DEF ShortIsAlerted
    <3> QED BY <3>1, <3>2
  <2> QED BY <2>1, <2>3, <2>4, <2>5, LevelInvFrom
<1>5. ASSUME NEW r \in Requests, NEW w \in Warehouses, RecordMovement(r, w)
      PROVE  LevelInv'
  <2>1. /\ UNCHANGED <<level, active>> /\ Kept /\ RequestTyped' /\ Others(r) /\ Knows(r)'
        /\ recorded' = [recorded EXCEPT ![w] = @ + Change(op[r], w)] /\ Change(op[r], w) \in Int
    BY <1>5, RecordTyped
  <2>2. recorded' \in [Warehouses -> Int] /\ ShortIsAlerted'
    BY <2>1 DEF ShortIsAlerted
  <2> QED BY <2>1, <2>2, LevelInvFrom
<1>6. ASSUME NEW r \in Requests, CheckAlerts(r) \/ Fail(r)
      PROVE  LevelInv'
  <2>1. /\ UNCHANGED level /\ Kept /\ RequestTyped' /\ Others(r) /\ Knows(r)'
        /\ \/ UNCHANGED recorded
           \/ \E w \in Warehouses : recorded' = [recorded EXCEPT ![w] = @ + Change(op[r], w)]
                                    /\ Change(op[r], w) \in Int
    BY <1>6, EndTyped
  <2>2. recorded' \in [Warehouses -> Int]
    BY <2>1
  <2>3. /\ active' \in [Warehouses -> [AlertTypes -> 0..2]]
        /\ \A w \in Warehouses, t \in AlertTypes : active'[w][t] >= active[w][t]
    <3>1. CASE Fail(r)
      BY <3>1 DEF Fail
    <3>2. CASE CheckAlerts(r)
      <4>1. /\ active' \in [Warehouses -> [AlertTypes -> 0..2]]
            /\ \A w \in Warehouses, t \in AlertTypes :
                  active'[w][t] = active[w][t] \/ active'[w][t] > active[w][t]
        BY <3>2, AlertValues
      <4> QED BY <4>1
    <3> QED BY <1>6, <3>1, <3>2
  <2>4. ShortIsAlerted'
    <3>1. "low_stock" \in AlertTypes /\ "out_of_stock" \in AlertTypes
      BY DEF AlertTypes
    <3> QED BY <2>1, <2>3, <3>1 DEF ShortIsAlerted
  <2> QED BY <2>1, <2>2, <2>3, <2>4, LevelInvFrom
<1> QED BY <1>1, <1>2, <1>3, <1>4, <1>5, <1>6, NextCases

\* No quantity is ever negative, in a row or in what a request has read and is
\* about to write, and no warehouse has more than two active alerts of a type:
\* the CHECK of the table never fires, although every request decides by a copy
\* that others may have outrun.
THEOREM TypeCorrect == Spec => []TypeOK
<1>1. LevelInv => TypeOK
  BY DEF LevelInv
<1> QED BY <1>1, InitLevelInv, NextLevelInv, PTL DEF Spec

\* A level that is short of stock has its alert: the triggers work on the row
\* as it is written, whatever the requests have read before and whatever fails.
THEOREM ShortStockIsAlerted == Spec => []ShortIsAlerted
<1>1. LevelInv => ShortIsAlerted
  BY DEF LevelInv
<1> QED BY <1>1, InitLevelInv, NextLevelInv, PTL DEF Spec

-------------------------------------------------------------------------------
(* Requests that keep apart                                                *)

KeptApart == \A q, r \in Requests : q # r => Concerns(op[q]) \cap Concerns(op[r]) = {}

CopiesTrue == \A r \in Requests, w \in Warehouses : copy[r][w] # Absent => copy[r][w] = level[w]

\* What ApartInv says of the alerts of w.
Justified(w) ==
    /\ \A t \in AlertTypes : active[w][t] > 0 => level[w] # Absent
    /\ (\E t \in AlertTypes : active[w][t] > 0) => level[w].available <= level[w].point

LEMMA ApartParts ==
    ApartInv <=> LevelInv /\ KeptApart /\ CopiesTrue /\ \A w \in Warehouses : Justified(w)
  BY DEF ApartInv, KeptApart, CopiesTrue, Justified, ActiveAlertIsDue

LEMMA InitApartInv == Init => ApartInv
<1> SUFFICES ASSUME Init PROVE ApartInv
  OBVIOUS
<1>1. LevelInv
  BY InitLevelInv
<1>2. KeptApart /\ CopiesTrue /\ \A w \in Warehouses : Justified(w)
  BY DEF Init, KeptApart, CopiesTrue, Justified, Concerns
<1> QED BY <1>1, <1>2, ApartParts

\* A request that ends, or goes on with the same operation, comes no closer to
\* the others.
LEMMA StaysApart ==
    ASSUME KeptApart, NEW r \in Requests, Others(r), op'[r] = NoOp \/ op' = op
    PROVE  KeptApart'
<1>1. \A q \in Requests : Concerns(op'[q]) \subseteq Concerns(op[q])
  BY DEF Others, Concerns
<1> QED BY <1>1 DEF KeptApart

\* What nobody else works on, nobody else has read.
LEMMA OthersHaveNotRead ==
    ASSUME LevelInv, KeptApart, NEW r \in Requests, NEW w \in Concerns(op[r]), w \in Warehouses,
           NEW q \in Requests, q # r
    PROVE  copy[q][w] = Absent
  BY DEF LevelInv, KeptApart, Knows

LEMMA NextApartInv ==
    ASSUME Apart, ApartInv, [Next]_vars
    PROVE  ApartInv'
<1>0. /\ LevelInv /\ LevelInv' /\ KeptApart /\ CopiesTrue
      /\ \A w \in Warehouses : Justified(w)
  BY NextLevelInv, ApartParts
<1>00. /\ level \in [Warehouses -> Level \cup {Absent}] /\ TypeOK
  BY <1>0 DEF LevelInv, TypeOK
<1> DEFINE Goal == KeptApart' /\ CopiesTrue' /\ \A w \in Warehouses : Justified(w)'
<1> SUFFICES Goal
  BY <1>0 DEF ApartInv, KeptApart, CopiesTrue, Justified, ActiveAlertIsDue
<1> USE <1>0, <1>00
<1>1. CASE UNCHANGED vars
  BY <1>1 DEF vars, rows, request, KeptApart, CopiesTrue, Justified
<1>2. ASSUME NEW r \in Requests, NEW o \in Operations \ {NoOp}, Start(r, o)
      PROVE  Goal
  <2>1. /\ Others(r) /\ op'[r] = o /\ UNCHANGED <<level, active, copy>>
    BY <1>2, StartTyped
  <2>2. \A q \in Requests : Concerns(op[q]) \cap Concerns(o) = {}
    BY <1>2 DEF Start
  <2>3. KeptApart'
    BY <2>1, <2>2 DEF KeptApart, Others
  <2> QED BY <2>1, <2>3 DEF CopiesTrue, Justified
<1>3. ASSUME NEW r \in Requests, ReadLevel(r) \/ CreateLevel(r)
      PROVE  Goal
  <2> DEFINE w == pc[r].at
  <2>1. /\ UNCHANGED active /\ w \in Concerns(op[r]) /\ w \in Warehouses
        /\ Others(r) /\ (op'[r] = NoOp \/ op' = op)
        /\ \/ UNCHANGED level
           \/ level[w] = Absent /\ level' = [level EXCEPT ![w] = NewLevel]
        /\ \/ \A v \in Warehouses : copy'[r][v] = Absent
           \/ \A v \in Warehouses : copy'[r][v] = copy[r][v] \/ (v = w /\ copy'[r][v] = level'[v])
    BY <1>3, ReadTyped
  <2>2. \A v \in Warehouses : level'[v] = level[v] \/ (v = w /\ level[v] = Absent)
    BY <2>1
  <2>3. CopiesTrue'
    <3> SUFFICES ASSUME NEW q \in Requests, NEW v \in Warehouses, copy'[q][v] # Absent
                 PROVE  copy'[q][v] = level'[v]
      BY DEF CopiesTrue
    <3>1. CASE q # r
      <4>1. copy[q][v] # Absent /\ copy'[q][v] = copy[q][v] /\ level[v] = copy[q][v]
        BY <2>1, <3>1 DEF Others, CopiesTrue
      <4> QED BY <2>2, <4>1
    <3>2. CASE q = r
      BY <2>1, <2>2, <3>2 DEF CopiesTrue
    <3> QED BY <3>1, <3>2
  <2>4. \A v \in Warehouses : Justified(v)'
    BY <2>1, <2>2 DEF Justified
  <2> QED BY <2>1, <2>3, <2>4, StaysApart
<1>4. ASSUME NEW r \in Requests, WriteLevel(r)
      PROVE  Goal
  <2> DEFINE w == pc[r].at
  <2>1. /\ Trigger(w, Written(r)) /\ Others(r) /\ (op'[r] = NoOp \/ op' = op)
        /\ level' = [level EXCEPT ![w] = Written(r)] /\ pc[r].do = "write"
        /\ \/ \A v \in Warehouses : copy'[r][v] = Absent
           \/ \A v \in Warehouses : copy'[r][v] = (IF v = w THEN Written(r) ELSE copy[r][v])
    BY <1>4, WriteTyped
  <2>2. Written(r) \in Level /\ w \in Concerns(op[r]) /\ w \in Warehouses /\ Written(r) # Absent
    BY <2>1, WrittenLevel, AbsentIsNoLevel
  <2>3. \A v \in Warehouses : level'[v] = (IF v = w THEN Written(r) ELSE level[v])
    BY <2>1, <2>2
  <2>4. CopiesTrue'
    <3> SUFFICES ASSUME NEW q \in Requests, NEW v \in Warehouses, copy'[q][v] # Absent
                 PROVE  copy'[q][v] = level'[v]
      BY DEF CopiesTrue
    <3>1. CASE q # r
      <4>1. copy[q][v] # Absent /\ copy'[q][v] = copy[q][v] /\ level[v] = copy[q][v]
        BY <2>1, <3>1 DEF Others, CopiesTrue
      <4>2. v # w
        BY <2>2, <3>1, <4>1, OthersHaveNotRead
      <4> QED BY <2>3, <4>1, <4>2
    <3>2. CASE q = r
      BY <2>1, <2>3, <3>2 DEF CopiesTrue
    <3> QED BY <3>1, <3>2
  <2>5. ASSUME NEW v \in Warehouses PROVE Justified(v)'
    <3>1. /\ \A u \in Warehouses : u # w => active'[u] = active[u]
          /\ \A t \in AlertTypes : Written(r).available > Written(r).point => active'[w][t] = 0
      BY <2>1, <2>2, TriggerValues
    <3>2. Written(r).available \in Nat /\ Written(r).point \in Nat
      BY <2>2, LevelFields
    <3>3. CASE v = w
      BY <2>2, <2>3, <3>1, <3>2, <3>3 DEF Justified
    <3>4. CASE v # w
      BY <2>3, <3>1, <3>4 DEF Justified
    <3> QED BY <3>3, <3>4
  <2> QED BY <2>1, <2>4, <2>5, StaysApart
<1>5. ASSUME NEW r \in Requests, NEW w \in Warehouses, RecordMovement(r, w)
      PROVE  Goal
  <2>1. /\ UNCHANGED <<level, active>> /\ Others(r) /\ (op'[r] = NoOp \/ op' = op)
        /\ (copy' = copy \/ \A v \in Warehouses : copy'[r][v] = Absent)
    BY <1>5, RecordTyped
  <2>2. CopiesTrue' /\ \A v \in Warehouses : Justified(v)'
    BY <2>1 DEF CopiesTrue, Justified, Others
  <2> QED BY <2>1, <2>2, StaysApart
<1>6. ASSUME NEW r \in Requests, CheckAlerts(r) \/ Fail(r)
      PROVE  Goal
  <2>1. /\ UNCHANGED level /\ Others(r) /\ op'[r] = NoOp /\ \A v \in Warehouses : copy'[r][v] = Absent
    BY <1>6, EndTyped
  <2>2. CopiesTrue'
    BY <2>1 DEF CopiesTrue, Others
  <2>3. ASSUME NEW w \in Warehouses PROVE Justified(w)'
    <3>1. CASE Fail(r)
      BY <2>1, <3>1 DEF Fail, Justified
    <3>2. CASE CheckAlerts(r)
      <4>1. \A t \in AlertTypes :
               \/ active'[w][t] = active[w][t]
               \/ w = op[r].at /\ Due(copy[r][w], t)
        BY <3>2, AlertValues
      <4>2. ASSUME NEW t \in AlertTypes, w = op[r].at, Due(copy[r][w], t)
            PROVE  level[w] # Absent /\ level[w].available <= level[w].point
        <5>1. pc[r].do = "alert" /\ pc[r].do \in Stages
          BY <3>2 DEF CheckAlerts, Stages
        <5>2. op[r] \in Operations /\ op[r] # NoOp /\ pc[r] # Idle
          BY <5>1, AtWork
        <5>3. copy[r][w] # Absent
          BY <4>2, <5>1, <5>2, OpConcerns DEF LevelInv, Knows
        <5>4. copy[r][w] = level[w] /\ level[w] \in Level
          BY <5>3 DEF CopiesTrue
        <5>5. level[w].available \in Nat /\ level[w].point \in Nat /\ level[w] # Absent
          BY <5>4, LevelFields
        <5> QED BY <4>2, <5>4, <5>5 DEF Due, IsOut, IsLow
      <4> QED BY <2>1, <4>1, <4>2 DEF Justified
    <3> QED BY <1>6, <3>1, <3>2
  <2> QED BY <2>1, <2>2, <2>3, StaysApart
<1> QED BY <1>1, <1>2, <1>3, <1>4, <1>5, <1>6, NextCases

\* Requests that keep apart: an alert is active only while the stock is not
\* above the reorder point, even if requests fail half-way.  (Two requests in
\* one warehouse can leave an alert behind that checkAndCreateAlerts raised by
\* an old copy.)
THEOREM AlertsAreDue ==
    ASSUME Apart
    PROVE  Spec => []ActiveAlertIsDue
<1>1. ApartInv => ActiveAlertIsDue
  BY DEF ApartInv
<1>2. ApartInv /\ [Next]_vars => ApartInv'
  BY NextApartInv
<1> QED BY <1>1, <1>2, InitApartInv, PTL DEF Spec

-------------------------------------------------------------------------------
(* The audit trail                                                         *)

\* What TrailInv says of w.
Trail(w) ==
    /\ \A r \in Requests :
          w \in Concerns(op[r]) => OnHand(level[w]) = recorded[w] + Unrecorded(r, w)
    /\ (\A r \in Requests : w \notin Concerns(op[r])) => OnHand(level[w]) = recorded[w]

LEMMA TrailParts == TrailInv <=> ApartInv /\ \A w \in Warehouses : Trail(w)
  BY DEF TrailInv, Trail

LEMMA InitTrailInv == Init => TrailInv
<1> SUFFICES ASSUME Init PROVE TrailInv
  OBVIOUS
<1>1. ApartInv
  BY InitApartInv
<1>2. \A w \in Warehouses : Trail(w)
  BY DEF Init, Trail, OnHand, Concerns
<1> QED BY <1>1, <1>2, TrailParts

\* A step of r keeps the trail if it keeps it where r is at work.
LEMMA TrailStep ==
    ASSUME KeptApart, \A w \in Warehouses : Trail(w), NEW r \in Requests, Others(r),
           op[r] \in Operations, recorded' \in [Warehouses -> Int],
           op' = op \/ (op'[r] = NoOp /\ pc'[r] = Idle),
           \A w \in Warehouses \ Concerns(op[r]) :
              level'[w] = level[w] /\ recorded'[w] = recorded[w],
           \A w \in Concerns(op[r]) : OnHand(level'[w]) = recorded'[w] + Unrecorded(r, w)'
    PROVE  \A w \in Warehouses : Trail(w)'
<1> SUFFICES ASSUME NEW w \in Warehouses PROVE Trail(w)'
  OBVIOUS
<1>1. \A q \in Requests : q # r => Unrecorded(q, w)' = Unrecorded(q, w)
  BY DEF Others, Unrecorded
<1>2. \A q \in Requests : q # r => op'[q] = op[q]
  BY DEF Others
<1>3. op'[r] = op[r] \/ Concerns(op'[r]) = {}
  BY DEF Concerns
<1>4. CASE w \notin Concerns(op[r])
  <2>1. \A q \in Requests : w \in Concerns(op'[q]) <=> w \in Concerns(op[q])
    BY <1>2, <1>3, <1>4
  <2>2. level'[w] = level[w] /\ recorded'[w] = recorded[w]
    BY <1>4
  <2>3. \A q \in Requests : w \in Concerns(op[q]) => q # r
    BY <1>4
  <2> QED BY <1>1, <2>1, <2>2, <2>3 DEF Trail
<1>5. CASE w \in Concerns(op[r])
  <2>1. OnHand(level'[w]) = recorded'[w] + Unrecorded(r, w)' /\ recorded'[w] \in Int
    BY <1>5
  <2>2. \A q \in Requests : q # r => w \notin Concerns(op'[q])
    BY <1>2, <1>5 DEF KeptApart
  <2>3. CASE op'[r] = op[r]
    BY <1>5, <2>1, <2>2, <2>3 DEF Trail
  <2>4. CASE op'[r] = NoOp /\ pc'[r] = Idle
    <3>1. Unrecorded(r, w)' = 0
      BY <2>4 DEF Unrecorded, Idle
    <3>2. OnHand(level'[w]) = recorded'[w] /\ \A q \in Requests : w \notin Concerns(op'[q])
      BY <2>1, <2>2, <2>4, <3>1 DEF Concerns
    <3> QED BY <3>2 DEF Trail
  <2> QED BY <2>3, <2>4
<1> QED BY <1>4, <1>5

LEMMA NextTrailInv ==
    ASSUME Apart, ~Faults, TrailInv, [Next]_vars
    PROVE  TrailInv'
<1>0. /\ ApartInv /\ ApartInv' /\ LevelInv /\ LevelInv' /\ KeptApart /\ CopiesTrue
      /\ \A w \in Warehouses : Trail(w)
  BY TrailParts, NextApartInv, ApartParts DEF ApartInv
<1>00. /\ level \in [Warehouses -> Level \cup {Absent}]
       /\ recorded \in [Warehouses -> Int] /\ recorded' \in [Warehouses -> Int]
       /\ op \in [Requests -> Operations]
  BY <1>0 DEF LevelInv, TypeOK
<1> SUFFICES \A w \in Warehouses : Trail(w)'
  BY <1>0 DEF TrailInv, Trail
<1> USE <1>0, <1>00
<1>1. CASE UNCHANGED vars
  BY <1>1 DEF vars, rows, request, Trail, Unrecorded
<1>2. ASSUME NEW r \in Requests, NEW o \in Operations \ {NoOp}, Start(r, o)
      PROVE  \A w \in Warehouses : Trail(w)'
  <2>1. /\ Others(r) /\ op[r] = NoOp /\ op'[r] = o /\ UNCHANGED <<level, recorded>>
        /\ pc'[r].do = "read"
    BY <1>2, StartTyped
  <2>2. \A q \in Requests : Concerns(op[q]) \cap Concerns(o) = {}
    BY <1>2 DEF Start
  <2> SUFFICES ASSUME NEW w \in Warehouses PROVE Trail(w)'
    OBVIOUS
  <2>3. Unrecorded(r, w)' = 0 /\ \A q \in Requests : q # r => Unrecorded(q, w)' = Unrecorded(q, w)
    BY <2>1 DEF Others, Unrecorded
  <2>4. \A q \in Requests : q # r => op'[q] = op[q]
    BY <2>1 DEF Others
  <2>5. CASE w \in Concerns(o)
    <3>1. \A q \in Requests : w \notin Concerns(op[q])
      BY <2>2, <2>5
    <3>2. OnHand(level'[w]) = recorded'[w] /\ recorded'[w] + 0 = recorded'[w]
      BY <2>1, <3>1 DEF Trail
    <3> QED BY <2>1, <2>3, <2>4, <2>5, <3>1, <3>2 DEF Trail
  <2>6. CASE w \notin Concerns(o)
    <3>1. w \notin Concerns(op[r])
      BY <2>1 DEF Concerns
    <3>2. \A q \in Requests : w \in Concerns(op'[q]) <=> w \in Concerns(op[q])
      BY <2>1, <2>4, <2>6, <3>1
    <3>3. \A q \in Requests : w \in Concerns(op[q]) => q # r
      BY <3>1
    <3> QED BY <2>1, <2>3, <3>2, <3>3 DEF Trail
  <2> QED BY <2>5, <2>6
<1>3. ASSUME NEW r \in Requests, ReadLevel(r) \/ CreateLevel(r)
      PROVE  \A w \in Warehouses : Trail(w)'
  <2>1. /\ UNCHANGED recorded /\ pc[r].at \in Concerns(op[r]) /\ pc[r].at \in Warehouses
        /\ pc[r].do \in {"read", "create"} /\ Others(r)
        /\ \/ UNCHANGED level
           \/ level[pc[r].at] = Absent /\ level' = [level EXCEPT ![pc[r].at] = NewLevel]
        /\ \/ pc'[r] = Idle /\ op'[r] = NoOp
           \/ /\ op' = op /\ pc'[r].do \in {"read", "create", "write"} /\ pc'[r].left = {}
              /\ pc'[r].do = "write" => pc'[r].at = op[r].at
    BY <1>3, ReadTyped
  <2>2. \A w \in Warehouses : OnHand(level'[w]) = OnHand(level[w])
    BY <2>1 DEF OnHand, NewLevel, Absent
  <2>3. \A w \in Warehouses : w # pc[r].at => level'[w] = level[w]
    BY <2>1
  <2>4. ASSUME NEW w \in Concerns(op[r])
        PROVE  OnHand(level'[w]) = recorded'[w] + Unrecorded(r, w)'
    <3>1. w \in Warehouses /\ Unrecorded(r, w) = 0
      BY <2>1, OpConcerns DEF Unrecorded
    <3>2. Unrecorded(r, w)' = 0
      BY <2>1 DEF Unrecorded, Idle
    <3> QED BY <2>1, <2>2, <3>1, <3>2 DEF Trail
  <2> QED BY <2>1, <2>3, <2>4, TrailStep
<1>4. ASSUME NEW r \in Requests, WriteLevel(r)
      PROVE  \A w \in Warehouses : Trail(w)'
  <2> DEFINE at == pc[r].at
             o == op[r]
  <2>1. /\ pc[r].do = "write" /\ level' = [level EXCEPT ![at] = Written(r)] /\ UNCHANGED recorded
        /\ Others(r)
        /\ \/ /\ Recorded(o) = {} /\ pc'[r] = Idle /\ op'[r] = NoOp
           \/ /\ op' = op
              /\ \/ /\ o.kind = "transfer" /\ at = o.at
                    /\ pc'[r].do = "write" /\ pc'[r].at = o.to /\ pc'[r].left = {}
                 \/ /\ o.kind = "transfer" => at # o.at
                    /\ pc'[r].do = "record" /\ pc'[r].left = Recorded(o)
                 \/ Recorded(o) = {} /\ pc'[r].do = "alert" /\ pc'[r].left = {}
    BY <1>4, WriteTyped
  <2>2. /\ Written(r) \in Level /\ at \in Concerns(o) /\ at \in Warehouses
        /\ copy[r][at] \in Level
        /\ OnHand(Written(r)) = OnHand(copy[r][at])
                                + (IF Recorded(o) = {} THEN 0 ELSE Change(o, at))
    BY <2>1, WrittenLevel
  <2>3. copy[r][at] = level[at]
    BY <2>2, AbsentIsNoLevel DEF CopiesTrue
  <2>4. \A w \in Warehouses : level'[w] = (IF w = at THEN Written(r) ELSE level[w])
    BY <2>1, <2>2
  <2>5. o \in Operations /\ o # NoOp
    BY <2>1, AtWork DEF Stages
  <2>6. /\ Recorded(o) = {} \/ Recorded(o) = Concerns(o)
        /\ o.kind = "transfer" => /\ Concerns(o) = {o.at, o.to} /\ Recorded(o) = {o.at, o.to}
                                  /\ o.at # o.to
        /\ o.kind # "transfer" => Concerns(o) = {o.at}
        /\ Concerns(o) \subseteq Warehouses
    BY <2>5, OpConcerns, OpFields DEF Recorded
  <2>7. ASSUME NEW w \in Concerns(o)
        PROVE  OnHand(level'[w]) = recorded'[w] + Unrecorded(r, w)'
    <3>0. w \in Warehouses /\ OnHand(level[w]) = recorded[w] + Unrecorded(r, w)
      BY <2>6 DEF Trail
    <3>1. CASE w = at
      <4>1. Unrecorded(r, w) = 0
        BY <2>1, <3>1 DEF Unrecorded
      <4>2. Unrecorded(r, w)' = (IF Recorded(o) = {} THEN 0 ELSE Change(o, w))
        <5>1. CASE Recorded(o) = {}
          BY <2>1, <2>6, <5>1 DEF Unrecorded, Idle
        <5>2. CASE Recorded(o) # {}
          BY <2>1, <2>6, <3>1, <5>2 DEF Unrecorded
        <5> QED BY <5>1, <5>2
      <4>3. Recorded(o) # {} => Change(o, w) \in Int
        BY <2>5, <2>6, OpConcerns
      <4>4. OnHand(level'[w]) = recorded[w] + (IF Recorded(o) = {} THEN 0 ELSE Change(o, w))
        <5>1. OnHand(level'[w]) = OnHand(level[w]) + (IF Recorded(o) = {} THEN 0 ELSE Change(o, w))
          BY <2>2, <2>3, <2>4, <3>0, <3>1
        <5>2. OnHand(level[w]) = recorded[w] /\ recorded[w] \in Int
          BY <3>0, <4>1
        <5> QED BY <5>1, <5>2
      <4> QED BY <2>1, <4>2, <4>4
    <3>2. CASE w # at
      <4>1. o.kind = "transfer" /\ Recorded(o) # {}
        BY <2>2, <2>6, <3>2
      <4>2. Unrecorded(r, w)' = Unrecorded(r, w)
        <5>1. CASE at = o.at
          BY <2>1, <2>6, <3>2, <4>1, <5>1 DEF Unrecorded
        <5>2. CASE at # o.at
          <6>1. w = o.at /\ Unrecorded(r, w) = Change(o, w)
            BY <2>1, <2>2, <2>6, <3>2, <4>1, <5>2 DEF Unrecorded
          <6>2. /\ op' = op /\ pc'[r].do = "record" /\ pc'[r].left = Recorded(o) /\ w \in Recorded(o)
            BY <2>1, <2>6, <4>1, <5>2
          <6> QED BY <6>1, <6>2 DEF Unrecorded
        <5> QED BY <5>1, <5>2
      <4> QED BY <2>1, <2>4, <3>0, <3>2, <4>2
    <3> QED BY <3>1, <3>2
  <2>8. /\ op' = op \/ (op'[r] = NoOp /\ pc'[r] = Idle)
        /\ \A w \in Warehouses \ Concerns(op[r]) :
              level'[w] = level[w] /\ recorded'[w] = recorded[w]
    BY <2>1, <2>2, <2>4
  <2> QED BY <2>1, <2>5, <2>7, <2>8, TrailStep
<1>5. ASSUME NEW r \in Requests, NEW w \in Warehouses, RecordMovement(r, w)
      PROVE  \A v \in Warehouses : Trail(v)'
  <2>1. /\ UNCHANGED level /\ Others(r)
        /\ pc[r].do = "record" /\ w \in pc[r].left /\ w \in Concerns(op[r])
        /\ recorded' = [recorded EXCEPT ![w] = @ + Change(op[r], w)] /\ Change(op[r], w) \in Int
        /\ \/ pc[r].left = {w} /\ pc'[r] = Idle /\ op'[r] = NoOp
           \/ /\ op' = op
              /\ \/ pc'[r].do = "record" /\ pc'[r].left = pc[r].left \ {w}
                 \/ pc'[r].do = "alert" /\ pc'[r].left = {} /\ pc[r].left = {w}
    BY <1>5, RecordTyped
  <2>2. ASSUME NEW v \in Concerns(op[r])
        PROVE  OnHand(level'[v]) = recorded'[v] + Unrecorded(r, v)'
    <3>0. v \in Warehouses /\ OnHand(level[v]) = recorded[v] + Unrecorded(r, v)
      BY OpConcerns DEF Trail
    <3>1. CASE v = w
      <4>1. Unrecorded(r, v) = Change(op[r], v)
        BY <2>1, <3>1 DEF Unrecorded
      <4>2. Unrecorded(r, v)' = 0
        BY <2>1, <3>1 DEF Unrecorded, Idle
      <4> QED BY <2>1, <3>0, <3>1, <4>1, <4>2
    <3>2. CASE v # w
      <4>1. Unrecorded(r, v)' = Unrecorded(r, v)
        BY <2>1, <3>2 DEF Unrecorded, Idle
      <4> QED BY <2>1, <3>0, <3>2, <4>1
    <3> QED BY <3>1, <3>2
  <2>3. /\ op' = op \/ (op'[r] = NoOp /\ pc'[r] = Idle)
        /\ \A v \in Warehouses \ Concerns(op[r]) :
              level'[v] = level[v] /\ recorded'[v] = recorded[v]
    BY <2>1
  <2> QED BY <2>1, <2>2, <2>3, TrailStep
<1>6. ASSUME NEW r \in Requests, CheckAlerts(r) \/ Fail(r)
      PROVE  \A w \in Warehouses : Trail(w)'
  <2>1. /\ UNCHANGED <<level, recorded>> /\ Others(r) /\ op'[r] = NoOp /\ pc'[r] = Idle
        /\ pc[r].do = "alert"
    BY <1>6, EndTyped DEF CheckAlerts, Fail
  <2>2. ASSUME NEW w \in Concerns(op[r])
        PROVE  OnHand(level'[w]) = recorded'[w] + Unrecorded(r, w)'
    <3>1. w \in Warehouses /\ Unrecorded(r, w) = 0 /\ Unrecorded(r, w)' = 0
      BY <2>1, OpConcerns DEF Unrecorded, Idle
    <3> QED BY <2>1, <3>1 DEF Trail
  <2> QED BY <2>1, <2>2, TrailStep
<1> QED BY <1>1, <1>2, <1>3, <1>4, <1>5, <1>6, NextCases

\* Requests that keep apart and do not fail half-way: whenever a level is at
\* rest, its movements add up to what it holds.  Each change of a level has its
\* movement, of the same quantity, and reservations have none.
THEOREM MovementsMatchStock ==
    ASSUME Apart, ~Faults
    PROVE  Spec => []TrailMatchesLevel
<1>1. TrailInv => TrailMatchesLevel
  <2> SUFFICES ASSUME TrailInv, NEW w \in Warehouses, AtRest(w)
               PROVE  recorded[w] = OnHand(level[w])
    BY DEF TrailMatchesLevel
  <2>1. Trail(w) /\ recorded[w] \in Int
    BY TrailParts DEF ApartInv, LevelInv, TypeOK
  <2>2. ASSUME NEW r \in Requests, w \in Concerns(op[r]) PROVE Unrecorded(r, w) = 0
    BY <2>2 DEF AtRest, Unrecorded
  <2> QED BY <2>1, <2>2 DEF Trail
<1>2. TrailInv /\ [Next]_vars => TrailInv'
  BY NextTrailInv
<1> QED BY <1>1, <1>2, InitTrailInv, PTL DEF Spec

-------------------------------------------------------------------------------
(* The ledger                                                              *)

Stock == [w \in Warehouses |-> Holds(w)]

LEMMA ChooseOne ==
    ASSUME NEW S, NEW r, S \subseteq {r}, NEW f
    PROVE  (IF S = {} THEN 0 ELSE f[CHOOSE x \in S : TRUE].n) = (IF r \in S THEN f[r].n ELSE 0)
<1>1. CASE S = {}
  BY <1>1
<1>2. CASE S # {}
  <2>1. S = {r}
    BY <1>2
  <2>2. (CHOOSE x \in S : TRUE) \in S
    BY <1>2
  <2>3. (CHOOSE x \in S : TRUE) = r
    BY <2>1, <2>2
  <2> QED BY <1>2, <2>1, <2>3
<1> QED BY <1>1, <1>2

LEMMA BringingConcerns ==
    ASSUME LevelInv, NEW r \in Requests, NEW w, r \in Bringing(w)
    PROVE  /\ w \in Concerns(op[r]) /\ op[r].kind = "transfer" /\ op[r].to = w
           /\ op[r] \in Operations /\ op[r] # NoOp
           /\ pc[r].do = "write" /\ pc[r].at = w
<1>1. pc[r].do = "write" /\ pc[r].at = w /\ op[r].kind = "transfer" /\ op[r].to = w
  BY DEF Bringing
<1>2. op[r] \in Operations /\ op[r] # NoOp /\ w \in Concerns(op[r])
  BY <1>1, AtWork DEF Stages
<1> QED BY <1>1, <1>2

\* Only r can be bringing stock to where it is at work.
LEMMA BringsAlone ==
    ASSUME LevelInv, KeptApart, NEW r \in Requests, NEW w \in Concerns(op[r])
    PROVE  /\ Bringing(w) \subseteq {r}
           /\ Holds(w) = OnHand(level[w]) + (IF r \in Bringing(w) THEN op[r].n ELSE 0)
<1>1. ASSUME NEW q \in Bringing(w) PROVE q = r
  <2>1. q \in Requests
    BY DEF Bringing
  <2>2. w \in Concerns(op[q])
    BY <2>1, BringingConcerns
  <2> QED BY <2>1, <2>2 DEF KeptApart
<1>2. Bringing(w) \subseteq {r}
  BY <1>1
<1> QED BY <1>2, ChooseOne DEF Holds

\* A step of r leaves alone what a warehouse holds unless it changes the row
\* or what r is bringing.
LEMMA HoldsFrame ==
    ASSUME NEW r \in Requests, Others(r), NEW w \in Warehouses,
           r \notin Bringing(w), r \notin Bringing(w)', OnHand(level'[w]) = OnHand(level[w])
    PROVE  Holds(w)' = Holds(w)
<1>1. Bringing(w)' = Bringing(w)
  BY DEF Bringing, Others
<1>2. CASE Bringing(w) = {}
  BY <1>1, <1>2 DEF Holds
<1>3. CASE Bringing(w) # {}
  <2> DEFINE q == CHOOSE x \in Bringing(w) : TRUE
  <2>1. q \in Bringing(w)
    BY <1>3
  <2>2. q \in Requests /\ q # r
    BY <2>1 DEF Bringing
  <2>3. op'[q] = op[q]
    BY <2>2 DEF Others
  <2>4. Holds(w) = OnHand(level[w]) + op[q].n
    BY <1>3 DEF Holds
  <2>5. Holds(w)' = OnHand(level'[w]) + op'[q].n
    BY <1>1, <1>3 DEF Holds
  <2> QED BY <2>3, <2>4, <2>5
<1> QED BY <1>2, <1>3

LEMMA InitLedger == Init => Ledger!LedgerInit
<1> SUFFICES ASSUME Init PROVE Stock = [w \in Warehouses |-> 0]
  BY DEF Ledger!LedgerInit, Stock
<1>1. ASSUME NEW w \in Warehouses PROVE Holds(w) = 0
  <2>1. Bringing(w) = {}
    BY DEF Init, Bringing, Idle
  <2>2. OnHand(level[w]) = 0
    BY DEF Init, OnHand
  <2> QED BY <2>1, <2>2 DEF Holds
<1> QED BY <1>1 DEF Stock

\* A write is a change of one warehouse by what it records, the start of a
\* move, or nothing to a reader of the ledger.
LEMMA WriteLedger ==
    ASSUME ApartInv, NEW r \in Requests, WriteLevel(r)
    PROVE  \/ \E n \in Quantities :
                \/ \E w \in Warehouses : Stock' = [Stock EXCEPT ![w] = @ + n]
                \/ \E w \in Warehouses : /\ Holds(w) >= n
                                         /\ Stock' = [Stock EXCEPT ![w] = @ - n]
                \/ \E v, w \in Warehouses : /\ v # w /\ Holds(v) >= n
                                            /\ Stock' = [Stock EXCEPT ![v] = @ - n, ![w] = @ + n]
           \/ Stock' = Stock
<1> DEFINE Goal == \/ \E n \in Quantities :
                        \/ \E w \in Warehouses : Stock' = [Stock EXCEPT ![w] = @ + n]
                        \/ \E w \in Warehouses : /\ Holds(w) >= n
                                                 /\ Stock' = [Stock EXCEPT ![w] = @ - n]
                        \/ \E v, w \in Warehouses :
                              /\ v # w /\ Holds(v) >= n
                              /\ Stock' = [Stock EXCEPT ![v] = @ - n, ![w] = @ + n]
                   \/ Stock' = Stock
<1> SUFFICES Goal
  OBVIOUS
<1>0. LevelInv /\ KeptApart /\ CopiesTrue /\ level \in [Warehouses -> Level \cup {Absent}]
  BY ApartParts DEF LevelInv, TypeOK
<1>0a. PICK at : at = pc[r].at
  OBVIOUS
<1>0b. PICK o : o = op[r]
  OBVIOUS
<1> USE <1>0, <1>0a, <1>0b
<1>1. /\ pc[r].do = "write" /\ level' = [level EXCEPT ![at] = Written(r)]
      /\ Others(r)
      /\ \/ pc'[r] = Idle /\ Recorded(o) = {}
         \/ /\ op' = op
            /\ \/ /\ o.kind = "transfer" /\ at = o.at
                  /\ pc'[r].do = "write" /\ pc'[r].at = o.to
               \/ /\ o.kind = "transfer" => at # o.at
                  /\ pc'[r].do = "record"
               \/ Recorded(o) = {} /\ pc'[r].do = "alert"
  BY WriteTyped
<1>2. /\ Written(r) \in Level /\ at \in Concerns(o) /\ at \in Warehouses
      /\ copy[r][at] \in Level
      /\ OnHand(Written(r)) = OnHand(copy[r][at])
                              + (IF Recorded(o) = {} THEN 0 ELSE Change(o, at))
  BY <1>1, WrittenLevel
<1>3. copy[r][at] = level[at] /\ level[at] \in Level
  BY <1>2, AbsentIsNoLevel DEF CopiesTrue
<1>4. \A w \in Warehouses : level'[w] = (IF w = at THEN Written(r) ELSE level[w])
  BY <1>1, <1>2
<1>5. o \in Operations /\ o # NoOp /\ pc[r] # Idle
  BY <1>1, AtWork DEF Stages
<1>6. at = o.at => ~Refused(o, level[at])
  BY <1>1, <1>3, <1>5 DEF LevelInv, Knows
<1>7. /\ level[at].available \in Nat /\ level[at].reserved \in Nat
      /\ OnHand(level[at]) = level[at].available + level[at].reserved
  BY <1>3, LevelFields
<1>8. \A w \in Warehouses : OnHand(level[w]) \in Nat
  <2> SUFFICES ASSUME NEW w \in Warehouses PROVE OnHand(level[w]) \in Nat
    OBVIOUS
  <2>1. level[w] = Absent \/ level[w] \in Level
    OBVIOUS
  <2> QED BY <2>1, LevelFields, AbsentIsNoLevel
<1>9. Concerns(o) \subseteq Warehouses
  BY <1>5, OpConcerns
<1>10. CASE o.kind = "transfer" /\ at = o.at
  <2>1. /\ o.n \in Nat /\ o.n \in Quantities /\ o.to # o.at /\ o.to \in Concerns(o)
        /\ o.to \in Warehouses /\ Recorded(o) # {} /\ Change(o, at) = -o.n
    BY <1>5, <1>10, OpFields, OpConcerns DEF Change
  <2>2. level[at].available >= o.n
    BY <1>6, <1>7, <1>10, <2>1 DEF Refused
  <2>3. op' = op /\ pc'[r].do = "write" /\ pc'[r].at = o.to
    BY <1>1, <1>10, <2>1
  <2>4. r \notin Bringing(at) /\ r \notin Bringing(o.to)
    BY <1>10, <2>1 DEF Bringing
  <2>5. Holds(at) = OnHand(level[at]) /\ Holds(o.to) = OnHand(level[o.to])
    BY <1>2, <1>8, <2>1, <2>4, BringsAlone
  <2>6. Holds(at)' = OnHand(level[at]) - o.n
    <3>1. Bringing(at) = {} /\ Bringing(at)' = {}
      <4>1. Bringing(at) = {}
        BY <1>2, <2>4, BringsAlone
      <4>2. r \notin Bringing(at)'
        BY <1>10, <2>1, <2>3 DEF Bringing
      <4> QED BY <1>1, <4>1, <4>2 DEF Bringing, Others
    <3>2. Holds(at)' = OnHand(level'[at]) + 0
      BY <3>1 DEF Holds
    <3>3. level'[at] = Written(r) /\ OnHand(Written(r)) \in Nat
      BY <1>2, <1>4, LevelFields
    <3> QED BY <1>2, <1>3, <1>7, <2>1, <3>2, <3>3
  <2>7. Holds(o.to)' = OnHand(level[o.to]) + o.n
    <3>1. Bringing(o.to) = {}
      BY <2>1, <2>4, BringsAlone
    <3>2. Bringing(o.to)' \subseteq {r} /\ r \in Bringing(o.to)'
      BY <1>1, <1>10, <2>3, <3>1 DEF Bringing, Others
    <3>3. (IF Bringing(o.to)' = {} THEN 0 ELSE op'[CHOOSE x \in Bringing(o.to)' : TRUE].n) = op'[r].n
      BY <3>2, ChooseOne
    <3>4. Holds(o.to)' = OnHand(level'[o.to]) + op'[r].n
      BY <3>3 DEF Holds
    <3> QED BY <1>4, <1>10, <2>1, <2>3, <3>4
  <2>8. ASSUME NEW w \in Warehouses, w # at, w # o.to PROVE Holds(w)' = Holds(w)
    <3>1. r \notin Bringing(w) /\ r \notin Bringing(w)' /\ OnHand(level'[w]) = OnHand(level[w])
      BY <1>4, <2>3, <2>8 DEF Bringing
    <3> QED BY <1>1, <3>1, HoldsFrame
  <2>9. /\ at # o.to /\ Holds(at) >= o.n
        /\ Stock' = [Stock EXCEPT ![at] = @ - o.n, ![o.to] = @ + o.n]
    BY <1>2, <1>7, <1>10, <2>1, <2>2, <2>5, <2>6, <2>7, <2>8 DEF Stock
  <2> QED BY <1>2, <2>1, <2>9
<1>11. CASE o.kind = "transfer" /\ at # o.at
  <2>1. /\ o.n \in Nat /\ o.n \in Quantities /\ o.to # o.at /\ at = o.to
        /\ Recorded(o) # {} /\ Change(o, at) = o.n
    BY <1>2, <1>5, <1>11, OpFields, OpConcerns DEF Change
  <2>2. r \in Bringing(at) /\ Bringing(at) \subseteq {r} /\ Holds(at) = OnHand(level[at]) + o.n
    BY <1>1, <1>2, <1>11, <2>1, BringsAlone DEF Bringing
  <2>3. pc'[r].do # "write"
    BY <1>1, <1>11 DEF Idle
  <2>4. Bringing(at)' = {}
    BY <1>1, <2>2, <2>3 DEF Bringing, Others
  <2>5. Holds(at)' = Holds(at)
    BY <1>2, <1>3, <1>4, <2>1, <2>2, <2>4, <1>7 DEF Holds
  <2>6. ASSUME NEW w \in Warehouses, w # at PROVE Holds(w)' = Holds(w)
    <3>1. r \notin Bringing(w) /\ r \notin Bringing(w)' /\ OnHand(level'[w]) = OnHand(level[w])
      BY <1>4, <2>3, <2>6 DEF Bringing
    <3> QED BY <1>1, <3>1, HoldsFrame
  <2>7. Stock' = Stock
    BY <2>5, <2>6 DEF Stock
  <2> QED BY <2>7
<1>12. CASE o.kind # "transfer"
  <2>1. at = o.at /\ r \notin Bringing(at) /\ ~Refused(o, level[at])
    BY <1>2, <1>5, <1>6, <1>12, OpConcerns DEF Bringing
  <2>2. Bringing(at) = {} /\ Holds(at) = OnHand(level[at])
    BY <1>2, <1>8, <2>1, BringsAlone
  <2>3. pc'[r].do # "write"
    BY <1>1, <1>12 DEF Idle
  <2>4. Bringing(at)' = {}
    BY <1>1, <2>2, <2>3 DEF Bringing, Others
  <2>5. Holds(at)' = OnHand(Written(r))
    <3>1. Holds(at)' = OnHand(level'[at]) + 0
      BY <2>4 DEF Holds
    <3>2. level'[at] = Written(r) /\ OnHand(Written(r)) \in Nat
      BY <1>2, <1>4, LevelFields
    <3> QED BY <3>1, <3>2
  <2>6. ASSUME NEW w \in Warehouses, w # at PROVE Holds(w)' = Holds(w)
    <3>1. r \notin Bringing(w) /\ r \notin Bringing(w)' /\ OnHand(level'[w]) = OnHand(level[w])
      BY <1>4, <2>3, <2>6 DEF Bringing
    <3> QED BY <1>1, <3>1, HoldsFrame
  <2>7. CASE Recorded(o) = {}
    <3>1. Holds(at)' = Holds(at)
      BY <1>2, <1>3, <1>8, <2>2, <2>5, <2>7
    <3>2. Stock' = Stock
      BY <2>6, <3>1 DEF Stock
    <3> QED BY <3>2
  <2>8. CASE Recorded(o) # {}
    <3>1. o.kind \in {"add", "adjust", "deduct", "confirm"} /\ Change(o, at) \in Int
      BY <1>2, <1>5, <1>12, <2>1, <2>8, OpFields, OpConcerns DEF Recorded
    <3>2. Holds(at)' = Holds(at) + Change(o, at) /\ Holds(at) \in Nat
      BY <1>2, <1>3, <1>8, <2>2, <2>5, <2>8
    <3>3. CASE Change(o, at) \in Quantities
      <4>1. Stock' = [Stock EXCEPT ![at] = @ + Change(o, at)]
        BY <1>2, <2>6, <3>2 DEF Stock
      <4> QED BY <1>2, <3>3, <4>1
    <3>4. CASE -Change(o, at) \in Quantities /\ Holds(at) >= -Change(o, at)
      <4> DEFINE n == -Change(o, at)
      <4>1. Holds(at)' = Holds(at) - n
        BY <3>1, <3>2
      <4>2. Stock' = [Stock EXCEPT ![at] = @ - n]
        BY <1>2, <2>6, <4>1 DEF Stock
      <4>3. n \in Quantities /\ Holds(at) >= n
        BY <3>4
      <4> QED BY <1>2, <4>2, <4>3
    <3>5. \/ Change(o, at) \in Quantities
          \/ -Change(o, at) \in Quantities /\ Holds(at) >= -Change(o, at)
      <4>1. CASE o.kind = "add"
        BY <1>5, <4>1, OpFields DEF Change
      <4>2. CASE o.kind = "adjust"
        <5>1. Change(o, at) = o.n /\ o.n \in Int /\ level[at].available + o.n >= 0
          BY <1>5, <1>7, <2>1, <4>2, OpFields DEF Change, Refused
        <5>2. Holds(at) >= -o.n
          BY <1>7, <2>2, <5>1
        <5> QED BY <1>5, <4>2, <5>1, <5>2, OpFields
      <4>3. CASE o.kind \in {"deduct", "confirm"}
        <5>1. Change(o, at) = -o.n /\ o.n \in Nat /\ o.n \in Quantities
          BY <1>5, <4>3, OpFields DEF Change
        <5>2. level[at].available >= o.n \/ level[at].reserved >= o.n
          BY <1>7, <2>1, <4>3, <5>1 DEF Refused
        <5>3. Holds(at) >= o.n /\ -(-o.n) = o.n
          BY <1>7, <2>2, <5>1, <5>2
        <5> QED BY <5>1, <5>3
      <4> QED BY <3>1, <4>1, <4>2, <4>3
    <3> QED BY <3>3, <3>4, <3>5
  <2> QED BY <2>7, <2>8
<1> QED BY <1>10, <1>11, <1>12

LEMMA NextLedger ==
    ASSUME Apart, ApartInv, [Next]_vars
    PROVE  \/ \E n \in Quantities :
                \/ \E w \in Warehouses : Stock' = [Stock EXCEPT ![w] = @ + n]
                \/ \E w \in Warehouses : /\ Holds(w) >= n
                                         /\ Stock' = [Stock EXCEPT ![w] = @ - n]
                \/ \E v, w \in Warehouses : /\ v # w /\ Holds(v) >= n
                                            /\ Stock' = [Stock EXCEPT ![v] = @ - n, ![w] = @ + n]
           \/ Stock' = Stock
<1>0. LevelInv /\ KeptApart /\ level \in [Warehouses -> Level \cup {Absent}]
  BY ApartParts DEF LevelInv, TypeOK
<1> USE <1>0
\* A step of r that changes no row brings nothing, before it or after it.
<1>1. ASSUME NEW r \in Requests, Others(r), pc[r].do # "write",
             pc'[r].do = "write" => op' = op /\ pc'[r].at = op[r].at
                                    /\ op[r] \in Operations /\ op[r] # NoOp,
             \A w \in Warehouses : OnHand(level'[w]) = OnHand(level[w])
      PROVE  Stock' = Stock
  <2>1. ASSUME NEW w \in Warehouses PROVE Holds(w)' = Holds(w)
    <3>1. r \notin Bringing(w)
      BY <1>1 DEF Bringing
    <3>2. r \notin Bringing(w)'
      <4>1. CASE pc'[r].do = "write"
        <5>1. op[r].kind = "transfer" => op[r].to # op[r].at
          BY <1>1, <4>1, OpFields
        <5> QED BY <1>1, <4>1, <5>1 DEF Bringing
      <4>2. CASE pc'[r].do # "write"
        BY <4>2 DEF Bringing
      <4> QED BY <4>1, <4>2
    <3> QED BY <1>1, <3>1, <3>2, HoldsFrame
  <2> QED BY <2>1 DEF Stock
<1>2. CASE UNCHANGED vars
  <2>1. \A w \in Warehouses : Holds(w)' = Holds(w)
    BY <1>2 DEF vars, rows, request, Holds, Bringing
  <2> QED BY <2>1 DEF Stock
<1>3. ASSUME NEW r \in Requests, NEW o \in Operations \ {NoOp}, Start(r, o)
      PROVE  Stock' = Stock
  <2>1. /\ Others(r) /\ UNCHANGED level /\ pc[r] = Idle /\ pc'[r].do = "read"
    BY <1>3, StartTyped
  <2> QED BY <1>1, <2>1 DEF Idle
<1>4. ASSUME NEW r \in Requests, ReadLevel(r) \/ CreateLevel(r)
      PROVE  Stock' = Stock
  <2>1. /\ pc[r].do \in {"read", "create"} /\ Others(r)
        /\ \/ UNCHANGED level
           \/ level[pc[r].at] = Absent /\ level' = [level EXCEPT ![pc[r].at] = NewLevel]
        /\ \/ pc'[r] = Idle
           \/ op' = op /\ (pc'[r].do = "write" => pc'[r].at = op[r].at)
    BY <1>4, ReadTyped
  <2>2. \A w \in Warehouses : OnHand(level'[w]) = OnHand(level[w])
    BY <2>1 DEF OnHand, NewLevel, Absent
  <2>3. op[r] \in Operations /\ op[r] # NoOp
    BY <2>1, AtWork DEF Stages
  <2> QED BY <1>1, <2>1, <2>2, <2>3 DEF Idle
<1>5. ASSUME NEW r \in Requests, NEW w \in Warehouses, RecordMovement(r, w)
      PROVE  Stock' = Stock
  <2>1. /\ UNCHANGED level /\ Others(r) /\ pc[r].do = "record"
        /\ pc'[r] = Idle \/ pc'[r].do \in {"record", "alert"}
    BY <1>5, RecordTyped
  <2> QED BY <1>1, <2>1 DEF Idle
\* A transfer that ends half-way takes out what it was bringing.
<1>6. ASSUME NEW r \in Requests, CheckAlerts(r) \/ Fail(r)
      PROVE  \/ \E n \in Quantities, w \in Warehouses :
                   /\ Holds(w) >= n /\ Stock' = [Stock EXCEPT ![w] = @ - n]
             \/ Stock' = Stock
  <2>1. UNCHANGED level /\ Others(r) /\ pc'[r] = Idle /\ pc[r] # Idle
    BY <1>6, EndTyped
  <2>2. \A w \in Warehouses : r \notin Bringing(w)'
    BY <2>1 DEF Bringing, Idle
  <2>3. CASE \A w \in Warehouses : r \notin Bringing(w)
    <3>1. \A w \in Warehouses : Holds(w)' = Holds(w)
      BY <2>1, <2>2, <2>3, HoldsFrame
    <3> QED BY <3>1 DEF Stock
  <2>4. ASSUME NEW w \in Warehouses, r \in Bringing(w)
        PROVE  \E n \in Quantities : Holds(w) >= n /\ Stock' = [Stock EXCEPT ![w] = @ - n]
    <3>1. /\ w \in Concerns(op[r]) /\ op[r].kind = "transfer" /\ op[r] \in Operations
          /\ op[r] # NoOp /\ pc[r].do = "write" /\ pc[r].at = w
      BY <2>4, BringingConcerns
    <3>2. PICK n \in Quantities : n = op[r].n /\ n \in Nat
      BY <3>1, OpFields
    <3>3. Holds(w) = OnHand(level[w]) + n /\ Bringing(w) \subseteq {r}
      BY <2>4, <3>1, <3>2, BringsAlone
    <3>4. OnHand(level[w]) \in Nat
      <4>1. level[w] = Absent \/ level[w] \in Level
        OBVIOUS
      <4> QED BY <4>1, LevelFields, AbsentIsNoLevel
    <3>5. Bringing(w)' = {}
      BY <2>1, <2>2, <3>3 DEF Bringing, Others
    <3>6. Holds(w)' = OnHand(level'[w]) + 0
      BY <3>5 DEF Holds
    <3>7. Holds(w)' = Holds(w) - n /\ Holds(w) >= n
      BY <2>1, <3>2, <3>3, <3>4, <3>6
    <3>8. ASSUME NEW v \in Warehouses, v # w PROVE Holds(v)' = Holds(v)
      <4>1. r \notin Bringing(v) /\ r \notin Bringing(v)'
        BY <2>2, <3>1, <3>8 DEF Bringing
      <4> QED BY <2>1, <4>1, HoldsFrame
    <3>9. Stock' = [Stock EXCEPT ![w] = @ - n]
      BY <3>7, <3>8 DEF Stock
    <3> QED BY <3>7, <3>9
  <2> QED BY <2>3, <2>4
<1>7. ASSUME NEW r \in Requests, WriteLevel(r)
      PROVE  \/ \E n \in Quantities :
                  \/ \E w \in Warehouses : Stock' = [Stock EXCEPT ![w] = @ + n]
                  \/ \E w \in Warehouses : /\ Holds(w) >= n
                                           /\ Stock' = [Stock EXCEPT ![w] = @ - n]
                  \/ \E v, w \in Warehouses : /\ v # w /\ Holds(v) >= n
                                              /\ Stock' = [Stock EXCEPT ![v] = @ - n, ![w] = @ + n]
             \/ Stock' = Stock
  BY <1>7, WriteLedger
<1> QED BY <1>2, <1>3, <1>4, <1>5, <1>6, <1>7, NextCases

LEMMA NextImplementsLedger ==
    ASSUME Apart
    PROVE  ApartInv /\ [Next]_vars => [Ledger!LedgerNext]_Stock
<1> SUFFICES ASSUME ApartInv, [Next]_vars PROVE [Ledger!LedgerNext]_Stock
  OBVIOUS
<1>1. ASSUME NEW n \in Quantities, NEW w \in Warehouses, Stock' = [Stock EXCEPT ![w] = @ + n]
      PROVE  Ledger!Bring(w, n)
  BY <1>1 DEF Ledger!Bring, Stock
<1>2. ASSUME NEW n \in Quantities, NEW w \in Warehouses, Holds(w) >= n,
             Stock' = [Stock EXCEPT ![w] = @ - n]
      PROVE  Ledger!TakeOut(w, n)
  BY <1>2 DEF Ledger!TakeOut, Stock
<1>3. ASSUME NEW n \in Quantities, NEW v \in Warehouses, NEW w \in Warehouses, v # w,
             Holds(v) >= n, Stock' = [Stock EXCEPT ![v] = @ - n, ![w] = @ + n]
      PROVE  Ledger!Move(v, w, n)
  BY <1>3 DEF Ledger!Move, Stock
<1>4. Ledger!LedgerNext \/ Stock' = Stock
  BY <1>1, <1>2, <1>3, NextLedger DEF Ledger!LedgerNext
<1> QED BY <1>4

\* Requests that keep apart do what WarehouseLedger promises, even if they fail
\* half-way: stock is brought in, taken out of a warehouse that holds it, or
\* moved in one step to a reader who counts what a transfer carries; a
\* transfer that stops between its two rows loses what it carries.
THEOREM LevelsImplementLedger ==
    ASSUME Apart
    PROVE  Spec => ImplementsWarehouseLedger
<1>1. ApartInv /\ [Next]_vars => ApartInv'
  BY NextApartInv
<1>2. ApartInv /\ [Next]_vars => [Ledger!LedgerNext]_[w \in Warehouses |-> Holds(w)]
  BY NextImplementsLedger DEF Stock
<1> QED BY <1>1, <1>2, InitApartInv, InitLedger, PTL
        DEF Spec, ImplementsWarehouseLedger, Ledger!LedgerSpec
===============================================================================

-------------------------- MODULE RecordDesks_proofs ---------------------------
(***************************************************************************)
(* What each of the services that keep the books keeps, for any number of  *)
(* rows, requests and callers: the warehouses, the products, the linked    *)
(* accounts, the tree of categories, the lists and the reports of sales.   *)
(***************************************************************************)
EXTENDS RecordDesks, FiniteSetTheorems, SequenceTheorems, FunctionTheorems, WellFoundedInduction,
        FiniteSetsExt, TLAPS

LEMMA InSequence ==
  ASSUME NEW S, NEW s \in Seq(S), NEW i \in DOMAIN s
  PROVE  s[i] \in S
BY LenProperties, ElementOfSeq

-----------------------------------------------------------------------------
(* WarehouseDesk                                                           *)

LEMMA HouseStarts == House!Init => HouseInv
BY DEF House!Init, HouseInv, HouseTyped, KeepFits, House!AtEase, House!Open, House!Holders, House!UpdatesAreKept,
       House!FlagsAreAsMade

\* A warehouse that is opened has no request yet that would write to it.
LEMMA HouseOpens ==
  ASSUME HouseInv, NEW h \in Houses, House!OpenHouse(h)
  PROVE  HouseInv'
<1>1. PICK default \in BOOLEAN, active \in BOOLEAN :
        /\ houses' = [houses EXCEPT ![h] = House!NewHouse(default, active)]
        /\ made' = [made EXCEPT ![h] = House!NewHouse(default, active)]
        /\ expected' = [expected EXCEPT ![h] = House!NewHouse(default, active)]
  BY DEF House!OpenHouse
<1>2. UNCHANGED <<keeps, housesCrossed>> /\ houses[h] = NoHouse /\ made[h] = NoHouse
  BY DEF House!OpenHouse
<1>3. PICK row : row = House!NewHouse(default, active)
  OBVIOUS
<1>4. row # NoHouse /\ {"default", "active"} \subseteq DOMAIN row
  BY <1>3, RecordAssumption DEF House!NewHouse
<1>5. /\ DOMAIN houses' = Houses /\ DOMAIN made' = Houses /\ DOMAIN expected' = Houses
      /\ houses'[h] = row /\ made'[h] = row /\ expected'[h] = row
      /\ \A o \in Houses \ {h} : houses'[o] = houses[o] /\ made'[o] = made[o] /\ expected'[o] = expected[o]
  BY <1>1, <1>3 DEF HouseInv, HouseTyped
<1>6. HouseTyped'
  BY <1>2, <1>4, <1>5 DEF HouseInv, HouseTyped, House!Open
<1>7. \A k \in Keeps : keeps[k].do = "write" => keeps[k].at # h
  BY <1>2 DEF HouseInv, KeepFits
<1>8. ASSUME NEW k \in Keeps PROVE KeepFits(k)'
  <2>1. KeepFits(k) /\ keeps'[k] = keeps[k]
    BY <1>2 DEF HouseInv
  <2>2. CASE keeps[k].do = "write"
    <3>1. keeps[k].at \in Houses \ {h}
      BY <1>7, <2>1, <2>2 DEF KeepFits
    <3> QED BY <1>2, <1>5, <2>1, <2>2, <3>1 DEF KeepFits, House!Open
  <2> QED BY <2>1, <2>2 DEF KeepFits
<1>9. \A o \in House!Open' \ housesCrossed' : \A k, m \in House!Holders(o)' : k = m
  BY <1>2, <1>5, <1>7 DEF HouseInv, House!Open, House!Holders
<1>10. House!UpdatesAreKept' /\ House!FlagsAreAsMade'
  BY <1>2, <1>5 DEF HouseInv, House!UpdatesAreKept, House!FlagsAreAsMade, House!Open
<1> QED BY <1>6, <1>8, <1>9, <1>10 DEF HouseInv

\* A request whose next step changes no row keeps what the rows keep.
LEMMA KeeperGoes ==
  ASSUME HouseInv, NEW k \in Keeps, UNCHANGED <<houses, made, expected>>, housesCrossed \subseteq housesCrossed',
         DOMAIN keeps' = Keeps, \A m \in Keeps \ {k} : keeps'[m] = keeps[m], KeepFits(k)',
         keeps'[k].do = "write" /\ keeps'[k].at \notin housesCrossed' => House!Holders(keeps'[k].at) \subseteq {k}
  PROVE  HouseInv'
<1>1. HouseTyped'
  BY DEF HouseInv, HouseTyped, House!Open
<1>2. ASSUME NEW m \in Keeps PROVE KeepFits(m)'
  BY DEF HouseInv, KeepFits, House!Open
<1>3. ASSUME NEW h \in House!Open' \ housesCrossed', NEW m \in House!Holders(h)', NEW n \in House!Holders(h)' PROVE m = n
  BY <1>3 DEF HouseInv, House!Open, House!Holders
<1>4. House!UpdatesAreKept' /\ House!FlagsAreAsMade'
  BY DEF HouseInv, House!UpdatesAreKept, House!FlagsAreAsMade, House!Open
<1> QED BY <1>1, <1>2, <1>3, <1>4 DEF HouseInv

\* Taking over capacity and priority leaves the switches.
LEMMA MergedKeepsFlags ==
  ASSUME NEW row, NEW u, {"default", "active"} \subseteq DOMAIN row
  PROVE  LET r == House!Merged(row, u)
         IN  {"default", "active"} \subseteq DOMAIN r /\ r.default = row.default /\ r.active = row.active
BY DEF House!Merged

\* What a request reads it will write back with the switches as they are.
LEMMA KeeperHolds ==
  ASSUME HouseInv, NEW k \in Keeps, keeps[k].do # "write", NEW h \in House!Open, NEW u, NEW then, then.do # "write",
         House!Hold(k, h, u, then), UNCHANGED <<houses, made, expected>>
  PROVE  HouseInv'
<1>1. PICK row : row = House!Merged(houses[h], u)
  OBVIOUS
<1>2. h \in Houses /\ made[h] # NoHouse /\ {"default", "active"} \subseteq DOMAIN houses[h]
      /\ houses[h].default = made[h].default /\ houses[h].active = made[h].active
  BY DEF HouseInv, HouseTyped, House!Open, House!FlagsAreAsMade
<1>3. {"default", "active"} \subseteq DOMAIN row /\ row.default = made[h].default /\ row.active = made[h].active
  BY <1>1, <1>2, MergedKeepsFlags
<1>4. DOMAIN keeps = Keeps
  BY DEF HouseInv, HouseTyped
<1>5. CASE ~House!IsValid(row)
  <2>1. keeps' = [keeps EXCEPT ![k] = House!AtEase] /\ UNCHANGED housesCrossed
    BY <1>1, <1>5 DEF House!Hold
  <2>2. keeps'[k].do = "idle"
    BY <1>4, <2>1 DEF House!AtEase
  <2> QED BY <1>4, <2>1, <2>2, KeeperGoes DEF KeepFits
<1>6. CASE House!IsValid(row)
  <2>1. PICK w : w = [do |-> "write", at |-> h, copy |-> row, with |-> u, then |-> then]
    OBVIOUS
  <2>2. w.do = "write" /\ w.at = h /\ w.copy = row /\ w.with = u /\ w.then = then
    BY <2>1
  <2>3. /\ keeps' = [keeps EXCEPT ![k] = w]
        /\ housesCrossed' = IF House!Holders(h) = {} THEN housesCrossed ELSE housesCrossed \cup {h}
    BY <1>1, <1>6, <2>1 DEF House!Hold
  <2>4. DOMAIN keeps' = Keeps /\ keeps'[k] = w /\ \A m \in Keeps \ {k} : keeps'[m] = keeps[m]
    BY <1>4, <2>3
  <2>5. KeepFits(k)'
    BY <1>1, <1>2, <1>3, <2>2, <2>4 DEF KeepFits, House!Open
  <2> QED BY <2>2, <2>3, <2>4, <2>5, KeeperGoes
<1> QED BY <1>5, <1>6

LEMMA HouseAsks ==
  ASSUME HouseInv, NEW k \in Keeps, NEW h \in Houses, House!AskUpdateHouse(k, h) \/ House!AskDefault(k, h)
  PROVE  HouseInv'
<1>1. DOMAIN keeps = Keeps
  BY DEF HouseInv, HouseTyped
<1>2. keeps[k].do = "idle" /\ UNCHANGED <<houses, made, expected>>
  BY DEF House!AskUpdateHouse, House!AskDefault, House!Begins, House!AtEase
<1>3. CASE House!AskUpdateHouse(k, h)
  <2>1. PICK u \in HousePatches : House!Hold(k, h, u, House!AtEase)
    BY <1>3 DEF House!AskUpdateHouse
  <2>2. House!AtEase.do # "write" /\ h \in House!Open
    BY <1>3 DEF House!AskUpdateHouse, House!AtEase
  <2> QED BY <1>2, <2>1, <2>2, KeeperHolds
<1>4. CASE House!AskDefault(k, h)
  <2>1. PICK r : r = [do |-> "read", left |-> House!Defaults \ {h}, to |-> h]
    OBVIOUS
  <2>2. keeps' = [keeps EXCEPT ![k] = r] /\ r.do = "read" /\ UNCHANGED housesCrossed
    BY <1>4, <2>1 DEF House!AskDefault
  <2> QED BY <1>1, <1>2, <2>2, KeeperGoes DEF KeepFits
<1> QED BY <1>3, <1>4

LEMMA HouseReads ==
  ASSUME HouseInv, NEW k \in Keeps, House!ReadHouse(k)
  PROVE  HouseInv'
<1>1. DOMAIN keeps = Keeps
  BY DEF HouseInv, HouseTyped
<1>2. keeps[k].do = "read" /\ UNCHANGED <<houses, made, expected>>
  BY DEF House!ReadHouse
<1>3. PICK h \in IF keeps[k].left = {} THEN {keeps[k].to} ELSE keeps[k].left :
        IF h \notin House!Open THEN keeps' = [keeps EXCEPT ![k] = House!AtEase] /\ UNCHANGED housesCrossed
        ELSE House!Hold(k, h, [default |-> h = keeps[k].to],
                        IF keeps[k].left = {} THEN House!AtEase ELSE [keeps[k] EXCEPT !.left = @ \ {h}])
  BY DEF House!ReadHouse
<1>4. CASE h \notin House!Open
  <2>1. House!AtEase.do = "idle"
    BY DEF House!AtEase
  <2> QED BY <1>1, <1>2, <1>3, <1>4, <2>1, KeeperGoes DEF KeepFits
<1>5. CASE h \in House!Open
  <2>1. PICK then : then = IF keeps[k].left = {} THEN House!AtEase ELSE [keeps[k] EXCEPT !.left = @ \ {h}]
    OBVIOUS
  <2>2. then.do # "write"
    BY <1>2, <2>1 DEF House!AtEase
  <2>3. House!Hold(k, h, [default |-> h = keeps[k].to], then)
    BY <1>3, <1>5, <2>1
  <2> QED BY <1>2, <1>5, <2>2, <2>3, KeeperHolds
<1> QED BY <1>4, <1>5

\* A request that met no other writes what all updates so far make of the row.
LEMMA HouseWrites ==
  ASSUME HouseInv, NEW k \in Keeps, House!WriteHouse(k)
  PROVE  HouseInv'
<1>1. PICK h : h = keeps[k].at
  OBVIOUS
<1>2. /\ keeps[k].do = "write" /\ h \in Houses /\ made[h] # NoHouse /\ KeepFits(k)
      /\ UNCHANGED <<made, housesCrossed>> /\ DOMAIN keeps = Keeps
  BY <1>1 DEF House!WriteHouse, HouseInv, HouseTyped, KeepFits
<1>3. CASE houses[h] = NoHouse
  <2>1. keeps' = [keeps EXCEPT ![k] = House!AtEase] /\ UNCHANGED <<houses, expected>>
    BY <1>1, <1>3 DEF House!WriteHouse
  <2>2. House!AtEase.do = "idle"
    BY DEF House!AtEase
  <2> QED BY <1>2, <2>1, <2>2, KeeperGoes DEF KeepFits
<1>4. CASE houses[h] # NoHouse
  <2>1. PICK row, u, then : row = keeps[k].copy /\ u = keeps[k].with /\ then = keeps[k].then
    OBVIOUS
  <2>2. /\ houses' = [houses EXCEPT ![h] = row]
        /\ expected' = [expected EXCEPT ![h] = House!Merged(expected[h], u)]
        /\ keeps' = [keeps EXCEPT ![k] = then]
    BY <1>1, <1>4, <2>1 DEF House!WriteHouse
  <2>3. /\ DOMAIN houses' = Houses /\ DOMAIN expected' = Houses /\ DOMAIN keeps' = Keeps
        /\ houses'[h] = row /\ \A o \in Houses \ {h} : houses'[o] = houses[o] /\ expected'[o] = expected[o]
        /\ expected'[h] = House!Merged(expected[h], u)
        /\ keeps'[k] = then /\ \A m \in Keeps \ {k} : keeps'[m] = keeps[m]
    BY <1>2, <2>2 DEF HouseInv, HouseTyped
  <2>4. /\ {"default", "active"} \subseteq DOMAIN row /\ row.default = made[h].default /\ row.active = made[h].active
        /\ (h \notin housesCrossed => row = House!Merged(houses[h], u))
        /\ then.do # "write"
    BY <1>1, <1>2, <1>4, <2>1 DEF KeepFits, House!Open
  <2>5. \A o \in House!Open' : o \in House!Open
    BY <1>2, <1>4, <2>3 DEF House!Open
  <2>6. HouseTyped'
    BY <1>2, <2>3, <2>4, <2>5 DEF HouseInv, HouseTyped, House!Open
  <2>7. \A o \in House!Open \ housesCrossed : \A m, n \in House!Holders(o) : m = n
    BY DEF HouseInv
  <2>8. k \in House!Holders(h)
    BY <1>1, <1>2 DEF House!Holders
  <2>9. ASSUME NEW m \in Keeps PROVE KeepFits(m)'
    <3>1. CASE m = k
      BY <2>3, <2>4, <3>1 DEF KeepFits
    <3>2. CASE m # k /\ keeps[m].do = "write"
      <4>1. KeepFits(m) /\ keeps'[m] = keeps[m]
        BY <2>3, <3>2 DEF HouseInv
      <4>2. keeps[m].at = h => h \in housesCrossed
        BY <1>2, <1>4, <2>7, <2>8, <3>2 DEF House!Holders, House!Open
      <4> QED BY <1>2, <2>3, <2>5, <3>2, <4>1, <4>2 DEF KeepFits
    <3>3. CASE m # k /\ keeps[m].do # "write"
      BY <2>3, <3>3 DEF KeepFits
    <3> QED BY <3>1, <3>2, <3>3
  <2>10. \A o \in House!Open' \ housesCrossed' : \A m, n \in House!Holders(o)' : m = n
    <3>1. \A o : House!Holders(o)' \subseteq House!Holders(o)
      BY <2>3, <2>4 DEF House!Holders
    <3> QED BY <1>2, <2>5, <2>7, <3>1
  <2>11. House!UpdatesAreKept'
    <3>1. h \notin housesCrossed => houses[h] = expected[h]
      BY <1>2, <1>4 DEF HouseInv, House!UpdatesAreKept, House!Open
    <3> QED BY <1>2, <2>3, <2>4, <2>5, <3>1 DEF HouseInv, House!UpdatesAreKept, House!Open
  <2>12. House!FlagsAreAsMade'
    BY <1>2, <2>3, <2>4, <2>5 DEF HouseInv, House!FlagsAreAsMade, House!Open
  <2> QED BY <2>6, <2>9, <2>10, <2>11, <2>12 DEF HouseInv
<1> QED BY <1>3, <1>4

LEMMA HouseCloses ==
  ASSUME HouseInv, NEW h \in Houses, House!CloseHouse(h)
  PROVE  HouseInv'
<1>1. /\ houses' = [houses EXCEPT ![h] = NoHouse] /\ UNCHANGED <<keeps, made, expected, housesCrossed>>
  BY DEF House!CloseHouse
<1>2. /\ DOMAIN houses' = Houses /\ houses'[h] = NoHouse /\ \A o \in Houses \ {h} : houses'[o] = houses[o]
      /\ House!Open' = House!Open \ {h}
  BY <1>1 DEF HouseInv, HouseTyped, House!Open
<1>3. HouseTyped'
  BY <1>1, <1>2 DEF HouseInv, HouseTyped, House!Open
<1>4. ASSUME NEW k \in Keeps PROVE KeepFits(k)'
  BY <1>1, <1>2 DEF HouseInv, KeepFits
<1>5. \A o : House!Holders(o)' = House!Holders(o)
  BY <1>1 DEF House!Holders
<1>6. House!UpdatesAreKept' /\ House!FlagsAreAsMade'
  BY <1>1, <1>2 DEF HouseInv, House!UpdatesAreKept, House!FlagsAreAsMade, House!Open
<1> QED BY <1>1, <1>2, <1>3, <1>4, <1>5, <1>6 DEF HouseInv

LEMMA HouseKept ==
  ASSUME HouseInv, House!Next \/ UNCHANGED houseVars
  PROVE  HouseInv'
<1>1. CASE \E h \in Houses : House!OpenHouse(h) \/ House!CloseHouse(h)
  BY <1>1, HouseOpens, HouseCloses
<1>2. CASE \E k \in Keeps : House!ReadHouse(k) \/ House!WriteHouse(k)
  BY <1>2, HouseReads, HouseWrites
<1>3. CASE \E k \in Keeps, h \in Houses : House!AskUpdateHouse(k, h) \/ House!AskDefault(k, h)
  BY <1>3, HouseAsks
<1>4. CASE UNCHANGED houseVars
  BY <1>4 DEF houseVars, HouseInv, HouseTyped, KeepFits, House!Open, House!Holders, House!UpdatesAreKept, House!FlagsAreAsMade
<1> QED BY <1>1, <1>2, <1>3, <1>4 DEF House!Next

-----------------------------------------------------------------------------
(* ProductDesk                                                             *)

LEMMA ProdStarts == Prod!Init => ProdInv
<1> SUFFICES ASSUME Prod!Init PROVE ProdInv
  OBVIOUS
<1>1. /\ \A p \in Products : goods[p] = NoProduct
      /\ \A e \in Errands : errands[e].at = "none"
      /\ goods \in [Products -> GoodsRow \cup {NoProduct}] /\ DOMAIN errands = Errands
      /\ twins = {} /\ unpriced = {} /\ dropped = {}
  BY DEF Prod!Init, Prod!NoErrand
<1>2. \A e \in Errands : InsertFits(e) /\ UpdateFits(e) /\ SyncFits(e)
  BY <1>1 DEF InsertFits, UpdateFits, SyncFits
<1>3. \A p \in Products : \A s : ~Claims(p, s)
  BY <1>1 DEF Claims, Prod!OnSale
<1> QED
  BY <1>1, <1>2, <1>3 DEF ProdInv, ProdTyped, Prod!PricesMakeSense, Prod!SyncingIsWorkedOn, Prod!OnSale

\* A step that leaves SKUs and prices alone: what requests claim does not grow.
LEMMA GoodsStay ==
  ASSUME ProdInv, goods' \in [Products -> GoodsRow \cup {NoProduct}],
         \A p \in Products :
           /\ goods'[p] # NoProduct <=> goods[p] # NoProduct
           /\ goods[p] # NoProduct =>
                goods'[p].sku = goods[p].sku /\ goods'[p].price = goods[p].price /\ goods'[p].compare = goods[p].compare,
         DOMAIN errands' = Errands,
         \A o \in Errands :
           \/ errands'[o] = errands[o]
           \/ errands'[o].at \in {"none", "sync", "syncing"} /\ SyncFits(o)',
         UNCHANGED <<twins, unpriced>>, dropped' \subseteq Products, Prod!SyncingIsWorkedOn'
  PROVE  ProdInv'
<1>1. ProdTyped'
  BY DEF ProdInv, ProdTyped
<1>2. \A o \in Errands : errands'[o].at \in {"insert", "update"} => errands'[o] = errands[o]
  OBVIOUS
<1>3. ASSUME NEW e \in Errands PROVE InsertFits(e)' /\ UpdateFits(e)' /\ SyncFits(e)'
  <2>1. InsertFits(e) /\ UpdateFits(e) /\ SyncFits(e)
    BY DEF ProdInv
  <2>2. InsertFits(e)'
    BY <1>2, <2>1 DEF InsertFits, Prod!OnSale
  <2>3. UpdateFits(e)'
    BY <1>2, <2>1 DEF UpdateFits, SensibleWith, Prod!OnSale, Prod!Updates
  <2>4. SyncFits(e)'
    BY <2>1 DEF SyncFits, Prod!OnSale
  <2> QED BY <2>2, <2>3, <2>4
<1>4. \A p \in Products : \A s : Claims(p, s)' => Claims(p, s)
  BY <1>2 DEF Claims, Prod!OnSale
<1>5. Prod!PricesMakeSense'
  BY DEF ProdInv, Prod!PricesMakeSense, Prod!OnSale
<1> QED BY <1>1, <1>3, <1>4, <1>5 DEF ProdInv

\* Withdrawing a product, listing it or taking it down.
LEMMA GoodsMarked ==
  ASSUME ProdInv, UNCHANGED <<errands, twins, unpriced, dropped>>,
         goods' \in [Products -> GoodsRow \cup {NoProduct}],
         \A p \in Products :
           /\ goods'[p] # NoProduct <=> goods[p] # NoProduct
           /\ goods[p] # NoProduct =>
                /\ goods'[p].sku = goods[p].sku /\ goods'[p].price = goods[p].price
                /\ goods'[p].compare = goods[p].compare
                /\ goods'[p].sync \in {goods[p].sync, "pending", "not_synced"}
  PROVE  ProdInv'
<1>1. Prod!SyncingIsWorkedOn'
  BY DEF ProdInv, Prod!SyncingIsWorkedOn, Prod!OnSale
<1>2. DOMAIN errands' = Errands /\ dropped' \subseteq Products
  BY DEF ProdInv, ProdTyped
<1> QED BY <1>1, <1>2, GoodsStay

LEMMA Withdraws ==
  ASSUME ProdInv, NEW p \in Products, Prod!Withdraw(p)
  PROVE  ProdInv'
<1>1. PICK row : row = [goods[p] EXCEPT !.active = FALSE]
  OBVIOUS
<1>2. goods[p] \in GoodsRow /\ goods[p] # NoProduct
  BY DEF ProdInv, ProdTyped, Prod!Withdraw, Prod!OnSale
<1>3. row \in GoodsRow /\ row.sku = goods[p].sku /\ row.price = goods[p].price /\ row.compare = goods[p].compare
      /\ row.sync = goods[p].sync
  BY <1>1, <1>2 DEF GoodsRow
<1>4. goods' = [goods EXCEPT ![p] = row] /\ UNCHANGED <<errands, twins, unpriced, dropped>>
  BY <1>1 DEF Prod!Withdraw
<1>5. goods \in [Products -> GoodsRow \cup {NoProduct}]
  BY DEF ProdInv, ProdTyped
<1>6. row # NoProduct
  BY <1>3, RecordAssumption
<1> QED BY <1>2, <1>3, <1>4, <1>5, <1>6, GoodsMarked

LEMMA TakesDown ==
  ASSUME ProdInv, NEW p \in Products, Prod!TakeDown(p)
  PROVE  ProdInv'
<1>1. PICK row : row = [goods[p] EXCEPT !.listed = FALSE, !.sync = "not_synced"]
  OBVIOUS
<1>2. goods[p] \in GoodsRow /\ goods[p] # NoProduct
  BY DEF ProdInv, ProdTyped, Prod!TakeDown, Prod!OnSale
<1>3. row \in GoodsRow /\ row.sku = goods[p].sku /\ row.price = goods[p].price /\ row.compare = goods[p].compare
      /\ row.sync = "not_synced"
  BY <1>1, <1>2 DEF GoodsRow
<1>4. goods' = [goods EXCEPT ![p] = row] /\ UNCHANGED <<errands, twins, unpriced, dropped>>
  BY <1>1 DEF Prod!TakeDown
<1>5. goods \in [Products -> GoodsRow \cup {NoProduct}]
  BY DEF ProdInv, ProdTyped
<1>6. row # NoProduct
  BY <1>3, RecordAssumption
<1> QED BY <1>2, <1>3, <1>4, <1>5, <1>6, GoodsMarked

LEMMA Toggles ==
  ASSUME ProdInv, NEW S \in SUBSET Products, Prod!Toggle(S)
  PROVE  ProdInv'
<1>1. PICK b \in BOOLEAN :
        goods' = [p \in Products |->
                    IF p \in S /\ Prod!OnSale(p)
                    THEN [goods[p] EXCEPT !.listed = b, !.sync = IF b THEN "pending" ELSE "not_synced"]
                    ELSE goods[p]]
  BY DEF Prod!Toggle
<1>2. UNCHANGED <<errands, twins, unpriced, dropped>>
  BY DEF Prod!Toggle
<1>3. goods \in [Products -> GoodsRow \cup {NoProduct}]
  BY DEF ProdInv, ProdTyped
<1>4. ASSUME NEW p \in Products
      PROVE  /\ goods'[p] \in GoodsRow \cup {NoProduct}
             /\ goods'[p] # NoProduct <=> goods[p] # NoProduct
             /\ goods[p] # NoProduct =>
                  /\ goods'[p].sku = goods[p].sku /\ goods'[p].price = goods[p].price
                  /\ goods'[p].compare = goods[p].compare
                  /\ goods'[p].sync \in {goods[p].sync, "pending", "not_synced"}
  <2>1. CASE p \in S /\ Prod!OnSale(p)
    <3>1. PICK row : row = [goods[p] EXCEPT !.listed = b, !.sync = IF b THEN "pending" ELSE "not_synced"]
      OBVIOUS
    <3>2. goods[p] \in GoodsRow /\ goods[p] # NoProduct
      BY <1>3, <2>1 DEF Prod!OnSale
    <3>3. row \in GoodsRow /\ row.sku = goods[p].sku /\ row.price = goods[p].price /\ row.compare = goods[p].compare
          /\ row.sync \in {"pending", "not_synced"}
      BY <3>1, <3>2 DEF GoodsRow
    <3>4. goods'[p] = row
      BY <1>1, <2>1, <3>1
    <3>5. row # NoProduct
      BY <3>3, RecordAssumption
    <3> QED BY <3>2, <3>3, <3>4, <3>5
  <2>2. CASE ~(p \in S /\ Prod!OnSale(p))
    <3>1. goods'[p] = goods[p]
      BY <1>1, <2>2
    <3> QED BY <1>3, <3>1
  <2> QED BY <2>1, <2>2
<1>5. goods' \in [Products -> GoodsRow \cup {NoProduct}]
  <2>1. DOMAIN goods' = Products /\ goods' = [p \in Products |-> goods'[p]]
    BY <1>1
  <2> QED BY <1>4, <2>1
<1> QED BY <1>2, <1>4, <1>5, GoodsMarked

\* The list of a synchronisation is of products there are.
LEMMA SyncStarts ==
  ASSUME ProdInv, NEW e \in Errands, Prod!StartSync(e)
  PROVE  ProdInv'
<1>1. PICK j : j = [at |-> "sync", left |-> {p \in Products : Prod!SyncDue(p)}]
  OBVIOUS
<1>2. j.at = "sync" /\ j.left \subseteq {p \in Products : Prod!OnSale(p)}
  BY <1>1 DEF Prod!SyncDue
<1>3. errands' = [errands EXCEPT ![e] = j] /\ errands[e].at = "none" /\ UNCHANGED <<goods, twins, unpriced, dropped>>
  BY <1>1 DEF Prod!StartSync, Prod!Starts, Prod!NoErrand
<1>4. ProdTyped
  BY DEF ProdInv
<1>5. DOMAIN errands' = Errands /\ errands'[e] = j /\ \A o \in Errands \ {e} : errands'[o] = errands[o]
  BY <1>3, <1>4 DEF ProdTyped
<1>6. SyncFits(e)'
  BY <1>2, <1>3, <1>5 DEF SyncFits, Prod!OnSale
<1>7. Prod!SyncingIsWorkedOn'
  BY <1>3, <1>5 DEF ProdInv, Prod!SyncingIsWorkedOn, Prod!OnSale
<1> QED BY <1>2, <1>3, <1>4, <1>5, <1>6, <1>7, GoodsStay DEF ProdTyped

LEMMA SyncGoesOn ==
  ASSUME ProdInv, NEW e \in Errands, Prod!SyncNext(e)
  PROVE  ProdInv'
<1>1. PICK p \in errands[e].left :
        /\ errands' = [errands EXCEPT ![e] = [at |-> "syncing", product |-> p, left |-> errands[e].left \ {p}]]
        /\ goods' = [goods EXCEPT ![p].sync = "syncing"]
  BY DEF Prod!SyncNext, Prod!Goes
<1>2. errands[e].at = "sync" /\ UNCHANGED <<twins, unpriced, dropped>>
  BY DEF Prod!SyncNext
<1>3. ProdTyped /\ SyncFits(e)
  BY DEF ProdInv
<1>4. p \in Products /\ goods[p] \in GoodsRow /\ goods[p] # NoProduct
      /\ \A o \in errands[e].left : o \in Products /\ goods[o] # NoProduct
  BY <1>1, <1>2, <1>3 DEF SyncFits, ProdTyped, Prod!OnSale
<1>5. PICK j, row : j = [at |-> "syncing", product |-> p, left |-> errands[e].left \ {p}]
                    /\ row = [goods[p] EXCEPT !.sync = "syncing"]
  OBVIOUS
<1>6. j.at = "syncing" /\ j.product = p /\ j.left = errands[e].left \ {p}
  BY <1>5
<1>7. row \in GoodsRow /\ row.sku = goods[p].sku /\ row.price = goods[p].price /\ row.compare = goods[p].compare
  BY <1>4, <1>5 DEF GoodsRow
<1>8. row # NoProduct
  BY <1>7, RecordAssumption
<1>9. goods' = [goods EXCEPT ![p] = row] /\ errands' = [errands EXCEPT ![e] = j]
  BY <1>1, <1>5
<1>10. DOMAIN errands' = Errands /\ errands'[e] = j /\ \A o \in Errands \ {e} : errands'[o] = errands[o]
  BY <1>3, <1>9 DEF ProdTyped
<1>11. /\ goods' \in [Products -> GoodsRow \cup {NoProduct}]
       /\ goods'[p] = row /\ \A o \in Products \ {p} : goods'[o] = goods[o]
  BY <1>3, <1>4, <1>7, <1>9 DEF ProdTyped
<1>12. SyncFits(e)'
  BY <1>4, <1>6, <1>8, <1>10, <1>11 DEF SyncFits, Prod!OnSale
<1>13. Prod!SyncingIsWorkedOn'
  <2>1. ASSUME NEW o \in Products, goods'[o] # NoProduct, goods'[o].sync = "syncing", o \notin dropped
        PROVE  \E m \in Errands : errands'[m].at = "syncing" /\ errands'[m].product = o
    <3>1. CASE o = p
      BY <1>6, <1>10, <3>1
    <3>2. CASE o # p
      <4>1. PICK m \in Errands : errands[m].at = "syncing" /\ errands[m].product = o
        BY <1>11, <2>1, <3>2 DEF ProdInv, Prod!SyncingIsWorkedOn, Prod!OnSale
      <4> QED BY <1>2, <1>10, <4>1
    <3> QED BY <3>1, <3>2
  <2> QED BY <1>2, <2>1 DEF Prod!SyncingIsWorkedOn, Prod!OnSale
<1> QED BY <1>2, <1>3, <1>4, <1>6, <1>7, <1>8, <1>10, <1>11, <1>12, <1>13, GoodsStay DEF ProdTyped

LEMMA SyncReturns ==
  ASSUME ProdInv, NEW e \in Errands, Prod!Synced(e)
  PROVE  ProdInv'
<1>1. PICK p, l : p = errands[e].product /\ l = errands[e].left
  OBVIOUS
<1>2. PICK s \in {"synced", "failed"} : goods' = [goods EXCEPT ![p].sync = s]
  BY <1>1 DEF Prod!Synced
<1>3. errands[e].at = "syncing" /\ UNCHANGED <<twins, unpriced, dropped>>
      /\ errands' = [errands EXCEPT ![e] = [at |-> "sync", left |-> l]]
  BY <1>1 DEF Prod!Synced, Prod!Goes
<1>4. ProdTyped /\ SyncFits(e)
  BY DEF ProdInv
<1>5. p \in Products /\ goods[p] \in GoodsRow /\ goods[p] # NoProduct
      /\ \A o \in l : o \in Products /\ goods[o] # NoProduct
  BY <1>1, <1>3, <1>4 DEF SyncFits, ProdTyped, Prod!OnSale
<1>6. PICK j, row : j = [at |-> "sync", left |-> l] /\ row = [goods[p] EXCEPT !.sync = s]
  OBVIOUS
<1>7. j.at = "sync" /\ j.left = l
  BY <1>6
<1>8. row \in GoodsRow /\ row.sku = goods[p].sku /\ row.price = goods[p].price /\ row.compare = goods[p].compare
      /\ row.sync # "syncing"
  BY <1>5, <1>6 DEF GoodsRow
<1>9. row # NoProduct
  BY <1>8, RecordAssumption
<1>10. goods' = [goods EXCEPT ![p] = row] /\ errands' = [errands EXCEPT ![e] = j]
  BY <1>2, <1>3, <1>6
<1>11. DOMAIN errands' = Errands /\ errands'[e] = j /\ \A o \in Errands \ {e} : errands'[o] = errands[o]
  BY <1>4, <1>10 DEF ProdTyped
<1>12. /\ goods' \in [Products -> GoodsRow \cup {NoProduct}]
       /\ goods'[p] = row /\ \A o \in Products \ {p} : goods'[o] = goods[o]
  BY <1>4, <1>5, <1>8, <1>10 DEF ProdTyped
<1>13. SyncFits(e)'
  BY <1>5, <1>7, <1>9, <1>11, <1>12 DEF SyncFits, Prod!OnSale
<1>14. Prod!SyncingIsWorkedOn'
  <2>1. ASSUME NEW o \in Products, goods'[o] # NoProduct, goods'[o].sync = "syncing", o \notin dropped
        PROVE  \E m \in Errands : errands'[m].at = "syncing" /\ errands'[m].product = o
    <3>1. o # p
      BY <1>8, <1>12, <2>1
    <3>2. PICK m \in Errands : errands[m].at = "syncing" /\ errands[m].product = o
      BY <1>12, <2>1, <3>1 DEF ProdInv, Prod!SyncingIsWorkedOn, Prod!OnSale
    <3> QED BY <1>1, <1>11, <3>1, <3>2
  <2> QED BY <1>3, <2>1 DEF Prod!SyncingIsWorkedOn, Prod!OnSale
<1> QED BY <1>3, <1>4, <1>5, <1>7, <1>8, <1>9, <1>11, <1>12, <1>13, <1>14, GoodsStay DEF ProdTyped

LEMMA ErrandEnds ==
  ASSUME ProdInv, NEW e \in Errands, Prod!SyncEnds(e) \/ Prod!ErrandFails(e)
  PROVE  ProdInv'
<1>1. UNCHANGED <<goods, twins, unpriced>> /\ errands' = [errands EXCEPT ![e] = Prod!NoErrand]
  BY DEF Prod!SyncEnds, Prod!ErrandFails, Prod!Goes
<1>2. /\ dropped \subseteq dropped'
      /\ dropped' \subseteq dropped \cup (IF errands[e].at = "syncing" THEN {errands[e].product} ELSE {})
      /\ errands[e].at = "syncing" => errands[e].product \in dropped'
  BY DEF Prod!SyncEnds, Prod!ErrandFails
<1>3. ProdTyped /\ SyncFits(e)
  BY DEF ProdInv
<1>4. DOMAIN errands' = Errands /\ errands'[e].at = "none" /\ \A o \in Errands \ {e} : errands'[o] = errands[o]
  BY <1>1, <1>3 DEF ProdTyped, Prod!NoErrand
<1>5. SyncFits(e)'
  BY <1>4 DEF SyncFits
<1>6. dropped' \subseteq Products
  BY <1>2, <1>3 DEF SyncFits, ProdTyped
<1>7. Prod!SyncingIsWorkedOn'
  <2>1. ASSUME NEW o \in Products, goods[o] # NoProduct, goods[o].sync = "syncing", o \notin dropped'
        PROVE  \E m \in Errands : errands'[m].at = "syncing" /\ errands'[m].product = o
    <3>1. PICK m \in Errands : errands[m].at = "syncing" /\ errands[m].product = o
      BY <1>2, <2>1 DEF ProdInv, Prod!SyncingIsWorkedOn, Prod!OnSale
    <3> QED BY <1>2, <1>4, <2>1, <3>1
  <2> QED BY <1>1, <2>1 DEF Prod!SyncingIsWorkedOn, Prod!OnSale
<1> QED BY <1>1, <1>3, <1>4, <1>5, <1>6, <1>7, GoodsStay DEF ProdTyped

\* Who has the SKU, or is about to get it, when it is looked for: nobody, or one
\* that is noted with the product it was looked for.
LEMMA SkuIsLookedFor ==
  ASSUME ProdInv, NEW p \in Products, NEW s \in Skus \ {NoSku}, ~Prod!SkuTaken(s, p),
         NEW o \in Products \ {p}, Claims(o, s)
  PROVE  {p, o} \subseteq Prod!Paired(s, p)
<1>1. o \in Prod!SkuRacers(s, p)
  BY DEF Claims, Prod!SkuTaken, Prod!SkuRacers
<1> QED BY <1>1 DEF Prod!Paired

LEMMA PairedGrows ==
  ASSUME ProdTyped, NEW p \in Products, NEW s
  PROVE  twins \subseteq Prod!Paired(s, p) /\ Prod!Paired(s, p) \subseteq Products
BY DEF Prod!Paired, Prod!SkuRacers, ProdTyped

\* A request that is about to write product p with SKU s.
LEMMA GoodsClaimed ==
  ASSUME ProdInv, UNCHANGED <<goods, unpriced, dropped>>, NEW e \in Errands, errands[e].at = "none",
         NEW p \in Products, NEW s,
         DOMAIN errands' = Errands, errands'[e].at \in {"insert", "update"}, errands'[e].product = p,
         errands'[e].sku = s, InsertFits(e)', UpdateFits(e)',
         \A o \in Errands \ {e} :
           /\ InsertFits(o)' /\ UpdateFits(o)' /\ errands'[o].at = errands[o].at
           /\ errands[o].at # "update" => errands'[o] = errands[o]
           /\ errands'[o].product = errands[o].product /\ errands'[o].sku = errands[o].sku,
         \/ twins' = twins /\ Prod!OnSale(p) /\ goods[p].sku = s
         \/ twins' = Prod!Paired(s, p) /\ ~Prod!SkuTaken(s, p)
  PROVE  ProdInv'
<1>1. ProdTyped
  BY DEF ProdInv
<1>2. twins \subseteq twins' /\ twins' \subseteq Products
  BY <1>1, PairedGrows DEF ProdTyped
<1>3. ProdTyped'
  BY <1>1, <1>2 DEF ProdTyped
<1>4. ASSUME NEW o \in Errands PROVE SyncFits(o)'
  BY DEF ProdInv, SyncFits, Prod!OnSale
<1>5. \A o \in Products : \A q : Claims(o, q)' => Claims(o, q) \/ (o = p /\ q = s)
  BY DEF Claims, Prod!OnSale
<1>6. ASSUME NEW q \in Skus \ {NoSku}, NEW o \in Products, NEW m \in Products, o # m, Claims(o, q)', Claims(m, q)'
      PROVE  {o, m} \subseteq twins'
  <2>1. CASE Claims(o, q) /\ Claims(m, q)
    BY <1>2, <1>6, <2>1 DEF ProdInv
  <2>2. CASE twins' = twins /\ Prod!OnSale(p) /\ goods[p].sku = s
    <3>1. Claims(p, s)
      BY <2>2 DEF Claims
    <3> QED BY <1>2, <1>5, <1>6, <3>1 DEF ProdInv
  <2>3. CASE twins' = Prod!Paired(s, p) /\ ~Prod!SkuTaken(s, p) /\ ~(Claims(o, q) /\ Claims(m, q))
    BY <1>5, <1>6, <2>3, SkuIsLookedFor
  <2> QED BY <2>1, <2>2, <2>3
<1>7. Prod!PricesMakeSense'
  BY DEF ProdInv, Prod!PricesMakeSense, Prod!OnSale
<1>8. Prod!SyncingIsWorkedOn'
  BY DEF ProdInv, Prod!SyncingIsWorkedOn, Prod!OnSale
<1> QED BY <1>3, <1>4, <1>6, <1>7, <1>8 DEF ProdInv

LEMMA ProductEnters ==
  ASSUME ProdInv, NEW e \in Errands, NEW p \in Products, Prod!AskProduct(e, p) \/ Prod!ImportProduct(e, p)
  PROVE  ProdInv'
<1>1. PICK s \in Skus \cup {NoSku}, price \in Prices, compare \in Prices \cup {NoPrice}, compared \in BOOLEAN :
        (compared => Prod!Sensible(price, compare)) /\ Prod!Enters(e, p, s, price, compare, compared)
  BY DEF Prod!AskProduct, Prod!ImportProduct
<1>2. PICK row : row = [sku |-> s, price |-> price, compare |-> compare, active |-> TRUE, listed |-> FALSE,
                        sync |-> "not_synced"]
  OBVIOUS
<1>3. PICK j : j = [at |-> "insert", product |-> p, sku |-> s, compared |-> compared, row |-> row]
  OBVIOUS
<1>4. row \in GoodsRow /\ row.sku = s /\ row.sync = "not_synced" /\ row.price = price /\ row.compare = compare
  BY <1>2 DEF GoodsRow
<1>5. j.at = "insert" /\ j.product = p /\ j.sku = s /\ j.row = row /\ j.compared = compared
  BY <1>3
<1>6. /\ Prod!Unknown(p) /\ ~Prod!SkuTaken(s, p) /\ twins' = Prod!Paired(s, p)
      /\ errands[e].at = "none" /\ errands' = [errands EXCEPT ![e] = j]
      /\ UNCHANGED <<goods, unpriced, dropped>>
  BY <1>1, <1>2, <1>3 DEF Prod!Enters, Prod!Starts, Prod!NoErrand
<1>7. DOMAIN errands = Errands
  BY DEF ProdInv, ProdTyped
<1>8. DOMAIN errands' = Errands /\ errands'[e] = j /\ \A o \in Errands \ {e} : errands'[o] = errands[o]
  BY <1>6, <1>7
<1>9. \A o \in Errands : errands[o].at = "insert" => errands[o].product # p
  BY <1>6 DEF Prod!Unknown
<1>10. InsertFits(e)' /\ UpdateFits(e)'
  <2>1. \A o \in Errands : errands'[o].at = "insert" /\ errands'[o].product = p => o = e
    BY <1>8, <1>9
  <2>2. compared => Prod!Sensible(row.price, row.compare)
    BY <1>1, <1>4
  <2>3. goods'[p] = NoProduct
    BY <1>6 DEF Prod!Unknown, Prod!OnSale
  <2>4. InsertFits(e)'
    BY <1>4, <1>5, <1>8, <2>1, <2>2, <2>3 DEF InsertFits, Prod!OnSale
  <2>5. UpdateFits(e)'
    BY <1>5, <1>8 DEF UpdateFits
  <2> QED BY <2>4, <2>5
<1>11. ASSUME NEW o \in Errands \ {e} PROVE InsertFits(o)' /\ UpdateFits(o)'
  <2>1. InsertFits(o) /\ UpdateFits(o) /\ errands'[o] = errands[o]
    BY <1>8 DEF ProdInv
  <2>2. InsertFits(o)'
    BY <1>5, <1>6, <1>8, <1>9, <2>1 DEF InsertFits, Prod!OnSale
  <2>3. UpdateFits(o)'
    BY <1>5, <1>6, <1>8, <2>1 DEF UpdateFits, SensibleWith, Prod!OnSale, Prod!Updates
  <2> QED BY <2>2, <2>3
<1> QED BY <1>5, <1>6, <1>8, <1>10, <1>11, GoodsClaimed

\* An update checks the prices it gives with those that are there.
LEMMA ChangeIsSensible ==
  ASSUME NEW patch \in GoodsPatches, NEW row,
         Prod!Sensible(IF "price" \in DOMAIN patch THEN patch.price ELSE row.price,
                       IF "compare" \in DOMAIN patch /\ patch.compare # NoPrice THEN patch.compare ELSE row.compare)
  PROVE  SensibleWith(patch, row)
BY DEF SensibleWith, Prod!Sensible

LEMMA ChangeIsAsked ==
  ASSUME ProdInv, NEW e \in Errands, NEW p \in Products, Prod!AskChange(e, p)
  PROVE  ProdInv'
<1>1. PICK patch \in GoodsPatches :
       LET s == IF "sku" \in DOMAIN patch THEN patch.sku ELSE goods[p].sku
           price == IF "price" \in DOMAIN patch THEN patch.price ELSE goods[p].price
           compare == IF "compare" \in DOMAIN patch /\ patch.compare # NoPrice THEN patch.compare ELSE goods[p].compare
       IN  /\ s # goods[p].sku => ~Prod!SkuTaken(s, p)
           /\ Prod!Sensible(price, compare)
           /\ errands' = [Prod!Noticed(p) EXCEPT ![e] =
                            [at |-> "update", product |-> p, sku |-> s, patch |-> patch,
                             alone |-> Prod!Updates(p) = {}]]
           /\ twins' = IF s # goods[p].sku THEN Prod!Paired(s, p) ELSE twins
  BY DEF Prod!AskChange
<1>2. PICK s, alone : s = (IF "sku" \in DOMAIN patch THEN patch.sku ELSE goods[p].sku) /\ alone = (Prod!Updates(p) = {})
  OBVIOUS
<1>3. PICK j : j = [at |-> "update", product |-> p, sku |-> s, patch |-> patch, alone |-> alone]
  OBVIOUS
<1>4. /\ j.at = "update" /\ j.product = p /\ j.sku = s /\ j.patch = patch /\ j.alone = alone
      /\ {"at", "product", "sku", "patch", "alone"} \subseteq DOMAIN j
  BY <1>3
<1>5. /\ s # goods[p].sku => ~Prod!SkuTaken(s, p)
      /\ SensibleWith(patch, goods[p])
      /\ errands' = [Prod!Noticed(p) EXCEPT ![e] = j]
      /\ twins' = IF s # goods[p].sku THEN Prod!Paired(s, p) ELSE twins
  BY <1>1, <1>2, <1>3, ChangeIsSensible
<1>6. /\ Prod!OnSale(p) /\ errands[e].at = "none" /\ UNCHANGED <<goods, unpriced, dropped>>
  BY DEF Prod!AskChange, Prod!NoErrand
<1>7. DOMAIN errands = Errands
  BY DEF ProdInv, ProdTyped
<1>8. /\ DOMAIN errands' = Errands /\ errands'[e] = j
      /\ \A o \in Errands \ {e} :
           errands'[o] = IF o \in Prod!Updates(p) THEN [errands[o] EXCEPT !.alone = FALSE] ELSE errands[o]
  BY <1>5, <1>7 DEF Prod!Noticed
<1>9. ASSUME NEW o \in Errands \ {e}
      PROVE  /\ InsertFits(o)' /\ UpdateFits(o)' /\ errands'[o].at = errands[o].at
             /\ errands[o].at # "update" => errands'[o] = errands[o]
             /\ errands'[o].product = errands[o].product /\ errands'[o].sku = errands[o].sku
  <2>1. InsertFits(o) /\ UpdateFits(o)
    BY DEF ProdInv
  <2>2. CASE o \in Prod!Updates(p)
    <3>1. PICK n : n = [errands[o] EXCEPT !.alone = FALSE]
      OBVIOUS
    <3>2. errands[o].at = "update" /\ errands[o].product = p
          /\ {"at", "product", "sku", "patch", "alone"} \subseteq DOMAIN errands[o]
      BY <2>1, <2>2 DEF UpdateFits, Prod!Updates
    <3>3. /\ n.at = "update" /\ n.product = p /\ n.sku = errands[o].sku /\ n.patch = errands[o].patch /\ ~n.alone
          /\ {"at", "product", "sku", "patch", "alone"} \subseteq DOMAIN n
      BY <3>1, <3>2
    <3>4. errands'[o] = n
      BY <1>8, <2>2, <3>1
    <3>5. UpdateFits(o)'
      BY <1>6, <2>1, <3>2, <3>3, <3>4 DEF UpdateFits, Prod!OnSale
    <3>6. InsertFits(o)'
      BY <3>3, <3>4 DEF InsertFits
    <3> QED BY <3>2, <3>3, <3>4, <3>5, <3>6
  <2>3. CASE o \notin Prod!Updates(p)
    <3>1. errands'[o] = errands[o]
      BY <1>8, <2>3
    <3>2. \A m \in Errands : errands'[m].at = "insert" => errands[m].at = "insert" /\ errands'[m] = errands[m]
      <4>1. ASSUME NEW m \in Prod!Updates(p), m # e PROVE errands'[m].at = "update"
        <5>1. errands[m].at = "update" /\ "at" \in DOMAIN errands[m] /\ m \in Errands
          BY DEF ProdInv, UpdateFits, Prod!Updates
        <5>2. errands'[m] = [errands[m] EXCEPT !.alone = FALSE]
          BY <1>8, <4>1, <5>1
        <5> QED BY <5>1, <5>2
      <4> QED BY <1>4, <1>8, <4>1
    <3>3. InsertFits(o)'
      BY <1>6, <2>1, <3>1, <3>2 DEF InsertFits, Prod!OnSale
    <3>4. ASSUME NEW m \in Errands, errands'[m].at = "update", errands'[m].product # p
          PROVE  errands[m].at = "update" /\ errands[m].product = errands'[m].product
      <4>1. m # e
        BY <1>4, <1>8, <3>4
      <4>2. m \notin Prod!Updates(p)
        <5>1. SUFFICES ASSUME m \in Prod!Updates(p) PROVE FALSE
          OBVIOUS
        <5>2. errands[m].product = p /\ "product" \in DOMAIN errands[m]
          BY <5>1 DEF ProdInv, UpdateFits, Prod!Updates
        <5>3. errands'[m] = [errands[m] EXCEPT !.alone = FALSE]
          BY <1>8, <4>1, <5>1
        <5> QED BY <3>4, <5>2, <5>3
      <4> QED BY <1>8, <3>4, <4>1, <4>2
    <3>5. UpdateFits(o)'
      <4>1. errands[o].at = "update" => errands[o].product # p
        BY <2>3 DEF Prod!Updates
      <4>2. errands[o].at = "update" => \A m \in Prod!Updates(errands[o].product)' : m \in Prod!Updates(errands[o].product)
        BY <3>1, <3>4, <4>1 DEF Prod!Updates
      <4> QED BY <1>6, <2>1, <3>1, <4>2 DEF UpdateFits, Prod!OnSale
    <3> QED BY <3>1, <3>3, <3>5
  <2> QED BY <2>2, <2>3
<1>10. InsertFits(e)'
  BY <1>4, <1>8 DEF InsertFits
<1>11. UpdateFits(e)'
  <2>1. alone => \A m \in Prod!Updates(p)' : m = e
    <3>1. SUFFICES ASSUME alone, NEW m \in Errands, m # e, errands'[m].at = "update", errands'[m].product = p PROVE FALSE
      BY DEF Prod!Updates
    <3>2. m \notin Prod!Updates(p)
      BY <1>2, <3>1
    <3> QED BY <1>8, <3>1, <3>2 DEF Prod!Updates
  <2>2. "sku" \in DOMAIN patch => patch.sku = s
    BY <1>2
  <2> QED BY <1>4, <1>5, <1>6, <1>8, <2>1, <2>2 DEF UpdateFits, Prod!OnSale
<1> QED BY <1>4, <1>5, <1>6, <1>8, <1>9, <1>10, <1>11, GoodsClaimed

\* The product is there with the row that was prepared.
LEMMA ProductInserted ==
  ASSUME ProdInv, NEW e \in Errands, Prod!InsertProduct(e)
  PROVE  ProdInv'
<1>1. PICK p, row, compared : p = errands[e].product /\ row = errands[e].row /\ compared = errands[e].compared
  OBVIOUS
<1>2. /\ errands[e].at = "insert" /\ errands' = [errands EXCEPT ![e] = Prod!NoErrand]
      /\ goods' = [goods EXCEPT ![p] = row]
      /\ unpriced' = IF compared THEN unpriced ELSE unpriced \cup {p}
      /\ UNCHANGED <<twins, dropped>>
  BY <1>1 DEF Prod!InsertProduct, Prod!Goes
<1>3. ProdTyped /\ InsertFits(e)
  BY DEF ProdInv
<1>4. /\ p \in Products /\ goods[p] = NoProduct /\ row \in GoodsRow /\ row.sku = errands[e].sku
      /\ row.sync # "syncing" /\ (compared => Prod!Sensible(row.price, row.compare))
      /\ \A o \in Errands : errands[o].at = "insert" /\ errands[o].product = p => o = e
  BY <1>1, <1>2, <1>3 DEF InsertFits, Prod!OnSale
<1>5. DOMAIN errands' = Errands /\ errands'[e].at = "none" /\ \A o \in Errands \ {e} : errands'[o] = errands[o]
  BY <1>2, <1>3 DEF ProdTyped, Prod!NoErrand
<1>6. /\ goods' \in [Products -> GoodsRow \cup {NoProduct}]
      /\ goods'[p] = row /\ row # NoProduct /\ \A o \in Products \ {p} : goods'[o] = goods[o]
  BY <1>2, <1>3, <1>4, RecordAssumption DEF ProdTyped
<1>7. ProdTyped'
  BY <1>2, <1>3, <1>4, <1>5, <1>6 DEF ProdTyped
<1>8. ASSUME NEW o \in Errands PROVE InsertFits(o)' /\ UpdateFits(o)' /\ SyncFits(o)'
  <2>1. InsertFits(o) /\ UpdateFits(o) /\ SyncFits(o)
    BY DEF ProdInv
  <2>2. InsertFits(o)'
    BY <1>4, <1>5, <1>6, <2>1 DEF InsertFits, Prod!OnSale
  <2>3. UpdateFits(o)'
    BY <1>4, <1>5, <1>6, <2>1 DEF UpdateFits, Prod!OnSale, Prod!Updates
  <2>4. SyncFits(o)'
    BY <1>4, <1>5, <1>6, <2>1 DEF SyncFits, Prod!OnSale
  <2> QED BY <2>2, <2>3, <2>4
<1>9. \A o \in Products : \A s : Claims(o, s)' => Claims(o, s)
  BY <1>1, <1>2, <1>4, <1>5, <1>6 DEF Claims, Prod!OnSale
<1>10. Prod!PricesMakeSense'
  BY <1>2, <1>4, <1>6 DEF ProdInv, Prod!PricesMakeSense, Prod!OnSale
<1>11. Prod!SyncingIsWorkedOn'
  BY <1>2, <1>4, <1>5, <1>6 DEF ProdInv, Prod!SyncingIsWorkedOn, Prod!OnSale
<1> QED BY <1>2, <1>7, <1>8, <1>9, <1>10, <1>11 DEF ProdInv

\* What a patch makes of a row.
LEMMA PatchedRow ==
  ASSUME NEW patch \in GoodsPatches, NEW old \in GoodsRow
  PROVE  LET row == Prod!Patched(old, patch)
         IN  /\ row \in GoodsRow /\ row.sync = old.sync
             /\ row.sku = IF "sku" \in DOMAIN patch THEN patch.sku ELSE old.sku
             /\ row.price = IF "price" \in DOMAIN patch THEN patch.price ELSE old.price
             /\ row.compare = IF "compare" \in DOMAIN patch THEN patch.compare ELSE old.compare
<1>1. PICK row : row = Prod!Patched(old, patch)
  OBVIOUS
<1>2. /\ row.sync = old.sync /\ row.listed = old.listed
      /\ row.sku = (IF "sku" \in DOMAIN patch THEN patch.sku ELSE old.sku)
      /\ row.price = (IF "price" \in DOMAIN patch THEN patch.price ELSE old.price)
      /\ row.compare = (IF "compare" \in DOMAIN patch THEN patch.compare ELSE old.compare)
      /\ row.active = (IF "active" \in DOMAIN patch THEN patch.active ELSE old.active)
  BY <1>1, RecordAssumption DEF Prod!Patched, GoodsRow
<1>3. /\ old.sku \in Skus \cup {NoSku} /\ old.price \in Prices /\ old.compare \in Prices \cup {NoPrice}
      /\ old.active \in BOOLEAN /\ old.listed \in BOOLEAN
      /\ old.sync \in {"not_synced", "pending", "syncing", "synced", "failed"}
  BY DEF GoodsRow
<1>4. /\ row.sku \in Skus \cup {NoSku} /\ row.price \in Prices /\ row.compare \in Prices \cup {NoPrice}
      /\ row.active \in BOOLEAN
  BY <1>2, <1>3, RecordAssumption
<1>5. row = [f \in DOMAIN old |-> row[f]] /\ DOMAIN old = {"sku", "price", "compare", "active", "listed", "sync"}
  BY <1>1 DEF Prod!Patched, GoodsRow
<1>6. row = [sku |-> row.sku, price |-> row.price, compare |-> row.compare, active |-> row.active,
             listed |-> row.listed, sync |-> row.sync]
  BY <1>5
<1>7. row \in GoodsRow
  BY <1>2, <1>3, <1>4, <1>6 DEF GoodsRow
<1> QED BY <1>1, <1>2, <1>7

\* An update that was alone writes prices that were checked with those it meets.
LEMMA ProductChanged ==
  ASSUME ProdInv, NEW e \in Errands, Prod!ChangeProduct(e)
  PROVE  ProdInv'
<1>1. PICK p, patch, alone, row :
        p = errands[e].product /\ patch = errands[e].patch /\ alone = errands[e].alone
        /\ row = Prod!Patched(goods[p], patch)
  OBVIOUS
<1>2. /\ errands[e].at = "update" /\ errands' = [errands EXCEPT ![e] = Prod!NoErrand]
      /\ goods' = [goods EXCEPT ![p] = row]
      /\ unpriced' = IF alone THEN unpriced \ {p} ELSE unpriced \cup {p}
      /\ UNCHANGED <<twins, dropped>>
  BY <1>1 DEF Prod!ChangeProduct, Prod!Goes
<1>3. ProdTyped /\ UpdateFits(e)
  BY DEF ProdInv
<1>4. /\ p \in Products /\ goods[p] # NoProduct /\ goods[p] \in GoodsRow /\ patch \in GoodsPatches
      /\ ("sku" \in DOMAIN patch => patch.sku = errands[e].sku)
      /\ (alone => SensibleWith(patch, goods[p]) /\ \A o \in Prod!Updates(p) : o = e)
  BY <1>1, <1>2, <1>3 DEF UpdateFits, ProdTyped, Prod!OnSale
<1>5. /\ row \in GoodsRow /\ row.sync = goods[p].sync
      /\ row.sku = (IF "sku" \in DOMAIN patch THEN patch.sku ELSE goods[p].sku)
      /\ row.price = (IF "price" \in DOMAIN patch THEN patch.price ELSE goods[p].price)
      /\ row.compare = (IF "compare" \in DOMAIN patch THEN patch.compare ELSE goods[p].compare)
  BY <1>1, <1>4, PatchedRow
<1>6. DOMAIN errands' = Errands /\ errands'[e].at = "none" /\ \A o \in Errands \ {e} : errands'[o] = errands[o]
  BY <1>2, <1>3 DEF ProdTyped, Prod!NoErrand
<1>7. /\ goods' \in [Products -> GoodsRow \cup {NoProduct}]
      /\ goods'[p] = row /\ row # NoProduct /\ \A o \in Products \ {p} : goods'[o] = goods[o]
  BY <1>2, <1>3, <1>4, <1>5, RecordAssumption DEF ProdTyped
<1>8. ProdTyped'
  BY <1>2, <1>3, <1>4, <1>6, <1>7 DEF ProdTyped
<1>9. ASSUME NEW o \in Errands PROVE InsertFits(o)' /\ UpdateFits(o)' /\ SyncFits(o)'
  <2>1. InsertFits(o) /\ UpdateFits(o) /\ SyncFits(o)
    BY DEF ProdInv
  <2>2. InsertFits(o)'
    BY <1>4, <1>6, <1>7, <2>1 DEF InsertFits, Prod!OnSale
  <2>3. UpdateFits(o)'
    <3>1. CASE o # e /\ errands[o].at = "update" /\ errands[o].alone
      <4>1. errands[o].product # p
        BY <1>1, <1>2, <2>1, <3>1 DEF UpdateFits, Prod!Updates
      <4> QED BY <1>4, <1>6, <1>7, <2>1, <3>1, <4>1 DEF UpdateFits, Prod!OnSale, Prod!Updates
    <3>2. CASE ~(o # e /\ errands[o].at = "update" /\ errands[o].alone)
      BY <1>4, <1>6, <1>7, <2>1, <3>2 DEF UpdateFits, Prod!OnSale
    <3> QED BY <3>1, <3>2
  <2>4. SyncFits(o)'
    BY <1>4, <1>6, <1>7, <2>1 DEF SyncFits, Prod!OnSale
  <2> QED BY <2>2, <2>3, <2>4
<1>10. \A o \in Products : \A s : Claims(o, s)' => Claims(o, s)
  BY <1>1, <1>2, <1>4, <1>5, <1>6, <1>7 DEF Claims, Prod!OnSale
<1>11. Prod!PricesMakeSense'
  <2>1. alone => Prod!Sensible(row.price, row.compare)
    BY <1>4, <1>5 DEF SensibleWith
  <2> QED BY <1>2, <1>4, <1>7, <2>1 DEF ProdInv, Prod!PricesMakeSense, Prod!OnSale
<1>12. Prod!SyncingIsWorkedOn'
  <2>1. ASSUME NEW o \in Products, goods'[o] # NoProduct, goods'[o].sync = "syncing", o \notin dropped
        PROVE  \E m \in Errands : errands'[m].at = "syncing" /\ errands'[m].product = o
    <3>1. goods[o] # NoProduct /\ goods[o].sync = "syncing"
      BY <1>4, <1>5, <1>7, <2>1
    <3>2. PICK m \in Errands : errands[m].at = "syncing" /\ errands[m].product = o
      BY <2>1, <3>1 DEF ProdInv, Prod!SyncingIsWorkedOn, Prod!OnSale
    <3> QED BY <1>2, <1>6, <3>2
  <2> QED BY <1>2, <2>1 DEF Prod!SyncingIsWorkedOn, Prod!OnSale
<1> QED BY <1>2, <1>8, <1>9, <1>10, <1>11, <1>12 DEF ProdInv

LEMMA ProdKept ==
  ASSUME ProdInv, Prod!Next \/ UNCHANGED goodsVars
  PROVE  ProdInv'
<1>1. CASE \E e \in Errands : Prod!InsertProduct(e) \/ Prod!ChangeProduct(e)
  BY <1>1, ProductInserted, ProductChanged
<1>2. CASE \E e \in Errands :
             Prod!StartSync(e) \/ Prod!SyncNext(e) \/ Prod!Synced(e) \/ Prod!SyncEnds(e) \/ Prod!ErrandFails(e)
  BY <1>2, SyncStarts, SyncGoesOn, SyncReturns, ErrandEnds
<1>3. CASE \E e \in Errands, p \in Products : Prod!AskProduct(e, p) \/ Prod!ImportProduct(e, p) \/ Prod!AskChange(e, p)
  BY <1>3, ProductEnters, ChangeIsAsked
<1>4. CASE \E p \in Products : Prod!Withdraw(p) \/ Prod!TakeDown(p)
  BY <1>4, Withdraws, TakesDown
<1>5. CASE \E S \in SUBSET Products : Prod!Toggle(S)
  BY <1>5, Toggles
<1>6. CASE UNCHANGED goodsVars
  <2>1. UNCHANGED <<goods, errands, twins, unpriced, dropped>>
    BY <1>6 DEF goodsVars
  <2>2. ProdTyped' /\ Prod!SyncingIsWorkedOn'
    BY <2>1 DEF ProdInv, ProdTyped, Prod!SyncingIsWorkedOn, Prod!OnSale
  <2> QED BY <2>1, <2>2, GoodsStay DEF ProdTyped
<1> QED BY <1>1, <1>2, <1>3, <1>4, <1>5, <1>6 DEF Prod!Next

LEMMA ProdAccounted ==
  ASSUME ProdInv
  PROVE  Prod!TypeOK /\ Prod!SkusDiffer /\ Prod!PricesMakeSense /\ Prod!SyncingIsWorkedOn
<1>1. Prod!TypeOK
  BY DEF ProdInv, ProdTyped, Prod!TypeOK, Prod!OnSale, GoodsRow
<1>2. Prod!SkusDiffer
  <2>1. \A p \in Products : Prod!OnSale(p) => goods[p].sku \in Skus \cup {NoSku}
    BY <1>1 DEF Prod!TypeOK
  <2> QED BY <2>1 DEF ProdInv, Prod!SkusDiffer, Claims
<1> QED BY <1>1, <1>2 DEF ProdInv

-----------------------------------------------------------------------------
(* AccountDesk                                                             *)

LEMMA AcctStarts == Acct!Init => AcctInv
<1> SUFFICES ASSUME Acct!Init PROVE AcctInv
  OBVIOUS
<1>1. /\ accountRows = <<>> /\ watch = <<>> /\ today = 1 /\ ranOn = 0 /\ renewals = {} /\ viaCallback = 0 /\ overlapping = FALSE
      /\ DOMAIN linking = Linkers /\ \A l \in Linkers : linking[l].do = "idle"
  BY DEF Acct!Init, Acct!Unlinked
<1>2. accountRows \in Seq(AccountRow) /\ watch \in Seq([missed : Nat, old : BOOLEAN]) /\ Acct!Rows = {}
  BY <1>1 DEF Acct!Rows
<1>3. AcctTyped
  <2>1. overlapping \in BOOLEAN
    BY <1>1
  <2>2. today \in Nat /\ ranOn \in Nat /\ ranOn <= today /\ viaCallback \in Nat
    BY <1>1
  <2>3. DOMAIN watch = DOMAIN accountRows
    BY <1>1
  <2>4. renewals \subseteq Acct!Rows \ NumberRows
    BY <1>1
  <2> QED BY <1>1, <1>2, <2>1, <2>2, <2>3, <2>4, Zenon DEF AcctTyped
<1>4. Acct!Pages = {} /\ AskingFacebook = {}
  BY <1>1, <1>2 DEF Acct!Pages, AskingFacebook
<1> QED BY <1>1, <1>3, <1>4 DEF AcctInv, LinkerFits

LEMMA RowsTyped ==
  ASSUME AcctTyped, NEW a \in DOMAIN accountRows
  PROVE  /\ accountRows[a].expiry \in Int /\ watch[a].missed \in Nat
<1>1. accountRows[a] \in AccountRow /\ watch[a] \in [missed : Nat, old : BOOLEAN]
  BY InSequence DEF AcctTyped
<1> QED BY <1>1 DEF AccountRow

\* A page keeps its word through a step that leaves it as it is.
LEMMA PageStays ==
  ASSUME NEW a, PageFits(a), UNCHANGED <<today, ranOn>>, accountRows'[a].ends = accountRows[a].ends,
         accountRows'[a].expiry = accountRows[a].expiry, watch'[a] = watch[a], a \in renewals => a \in renewals'
  PROVE  PageFits(a)'
BY DEF PageFits, RunsMissed

\* So does one whose token is as good as new.
LEMMA PageIsNew ==
  ASSUME NEW a, today \in Nat, today' = today, accountRows'[a].ends = today + Lifetime \/ watch'[a].old,
         accountRows'[a].expiry = today + Lifetime, watch'[a].missed = 0
  PROVE  PageFits(a)'
BY RecordAssumption DEF PageFits, RunsMissed

\* What the requests know stays so while rows are added or changed.
LEMMA LinkersStay ==
  ASSUME AcctInv, NEW l \in Linkers, linking'[l] = linking[l], NumberRows \subseteq NumberRows',
         Acct!Rows \ NumberRows \subseteq Acct!Rows' \ NumberRows',
         (~overlapping' /\ linking[l].do = "link") => ~overlapping /\ viaCallback' = viaCallback
  PROVE  LinkerFits(l)'
BY DEF AcctInv, LinkerFits

\* A new row is at the end, and all others are where they were.
LEMMA RowInserted ==
  ASSUME AcctTyped, NEW net \in {"whatsapp", "instagram"}, NEW ends \in Int, Acct!Insert(net, ends),
         ends \in {today, today + Lifetime}
  PROVE  LET n == Len(accountRows) + 1
         IN  /\ accountRows' \in Seq(AccountRow) /\ watch' \in Seq([missed : Nat, old : BOOLEAN])
             /\ DOMAIN watch' = DOMAIN accountRows' /\ Acct!Rows' = Acct!Rows \cup {n} /\ n \notin Acct!Rows
             /\ \A a \in Acct!Rows : accountRows'[a] = accountRows[a] /\ watch'[a] = watch[a]
             /\ accountRows'[n].net = net /\ accountRows'[n].expiry = today + Lifetime
             /\ watch'[n].missed = 0 /\ (accountRows'[n].ends = today + Lifetime \/ watch'[n].old)
<1>1. PICK row, w : row = [net |-> net, ends |-> ends, expiry |-> today + Lifetime, active |-> TRUE]
                    /\ w = [missed |-> 0, old |-> ends < today + Lifetime]
  OBVIOUS
<1>2. /\ row \in AccountRow /\ row.net = net /\ row.ends = ends /\ row.expiry = today + Lifetime
      /\ w \in [missed : Nat, old : BOOLEAN] /\ w.missed = 0
  BY <1>1, RecordAssumption DEF AccountRow, AcctTyped
<1>3. ends = today + Lifetime \/ w.old
  <2>1. ends = today + Lifetime \/ ends < today + Lifetime
    BY RecordAssumption DEF AcctTyped
  <2>2. w.old = (ends < today + Lifetime)
    BY <1>1
  <2> QED BY <2>1, <2>2, Zenon
<1>4. accountRows' = Append(accountRows, row) /\ watch' = Append(watch, w)
  BY <1>1 DEF Acct!Insert
<1>5. accountRows \in Seq(AccountRow) /\ watch \in Seq([missed : Nat, old : BOOLEAN]) /\ DOMAIN watch = DOMAIN accountRows
  BY DEF AcctTyped
<1>6. PICK n : n = Len(accountRows) + 1
  OBVIOUS
<1>7. Len(accountRows) \in Nat /\ DOMAIN accountRows = 1..Len(accountRows) /\ Len(watch) = Len(accountRows)
      /\ DOMAIN watch = 1..Len(accountRows)
  BY <1>5, LenProperties
<1>8. /\ accountRows' \in Seq(AccountRow) /\ accountRows'[n] = row /\ DOMAIN accountRows' = 1..n
      /\ \A a \in 1..Len(accountRows) : accountRows'[a] = accountRows[a]
  BY <1>2, <1>4, <1>5, <1>6, <1>7, AppendProperties
<1>9. /\ watch' \in Seq([missed : Nat, old : BOOLEAN]) /\ watch'[n] = w /\ DOMAIN watch' = 1..n
      /\ \A a \in 1..Len(accountRows) : watch'[a] = watch[a]
  BY <1>2, <1>4, <1>5, <1>6, <1>7, AppendProperties
<1>10. Acct!Rows' = Acct!Rows \cup {n} /\ n \notin Acct!Rows
  BY <1>6, <1>7, <1>8 DEF Acct!Rows
<1> QED BY <1>2, <1>3, <1>6, <1>7, <1>8, <1>9, <1>10 DEF Acct!Rows

\* Rows that keep their network stay what they are to the requests and the job.
LEMMA RowsStay ==
  ASSUME AcctTyped, NEW n, Acct!Rows' = Acct!Rows \cup {n}, n \notin Acct!Rows,
         \A a \in Acct!Rows : accountRows'[a].net = accountRows[a].net
  PROVE  /\ NumberRows \subseteq NumberRows' /\ Acct!Rows \ NumberRows \subseteq Acct!Rows' \ NumberRows'
         /\ accountRows'[n].net = "whatsapp" => n \in NumberRows'
BY DEF NumberRows

LEMMA AccountConnected ==
  ASSUME AcctInv, NEW net \in {"whatsapp", "instagram"}, Acct!Connect(net)
  PROVE  AcctInv'
<1>1. PICK ends \in {today, today + Lifetime} : Acct!Insert(net, ends)
  BY DEF Acct!Connect
<1>2. UNCHANGED <<today, linking, overlapping, viaCallback, renewals, ranOn, mediaOf>>
  BY DEF Acct!Connect, Acct!linkVars, Acct!jobVars
<1>3. AcctTyped /\ ends \in Int
  BY RecordAssumption DEF AcctInv, AcctTyped
<1>4. PICK n : n = Len(accountRows) + 1
  OBVIOUS
<1>5. /\ accountRows' \in Seq(AccountRow) /\ watch' \in Seq([missed : Nat, old : BOOLEAN])
      /\ DOMAIN watch' = DOMAIN accountRows' /\ Acct!Rows' = Acct!Rows \cup {n} /\ n \notin Acct!Rows
      /\ \A a \in Acct!Rows : accountRows'[a] = accountRows[a] /\ watch'[a] = watch[a]
      /\ accountRows'[n].expiry = today + Lifetime
      /\ watch'[n].missed = 0 /\ (accountRows'[n].ends = today + Lifetime \/ watch'[n].old)
  BY <1>1, <1>3, <1>4, RowInserted
<1>6. NumberRows \subseteq NumberRows' /\ Acct!Rows \ NumberRows \subseteq Acct!Rows' \ NumberRows'
  BY <1>3, <1>5, RowsStay
<1>7. AcctTyped'
  BY <1>2, <1>3, <1>5, <1>6 DEF AcctTyped
<1>8. ASSUME NEW a \in Acct!Pages' PROVE PageFits(a)'
  <2>1. CASE a = n
    BY <1>2, <1>3, <1>5, <2>1, PageIsNew DEF AcctTyped
  <2>2. CASE a # n
    <3>1. a \in Acct!Pages
      BY <1>5, <2>2 DEF Acct!Pages
    <3>2. PageFits(a) /\ a \in Acct!Rows
      BY <3>1 DEF AcctInv, Acct!Pages
    <3> QED BY <1>2, <1>5, <3>2, PageStays
  <2> QED BY <2>1, <2>2
<1>9. ASSUME NEW l \in Linkers PROVE LinkerFits(l)'
  BY <1>2, <1>6, LinkersStay
<1>10. AskingFacebook' = AskingFacebook
  BY <1>2 DEF AskingFacebook
<1> QED BY <1>2, <1>6, <1>7, <1>8, <1>9, <1>10 DEF AcctInv

\* A request that does not touch the rows.
LEMMA LinkerGoes ==
  ASSUME AcctInv, NEW l \in Linkers, UNCHANGED <<accountRows, watch, today, renewals, ranOn, viaCallback>>,
         NEW e, linking' = [linking EXCEPT ![l] = e], LinkerFits(l)',
         overlapping' \in BOOLEAN, overlapping => overlapping',
         e.do \in {"find", "link"} /\ l \notin AskingFacebook /\ ~overlapping' => AskingFacebook = {}
  PROVE  AcctInv'
<1>1. AcctTyped
  BY DEF AcctInv
<1>2. DOMAIN linking' = Linkers /\ linking'[l] = e /\ \A k \in Linkers \ {l} : linking'[k] = linking[k]
  BY <1>1 DEF AcctTyped
<1>3. Acct!Rows' = Acct!Rows /\ NumberRows' = NumberRows /\ Acct!Pages' = Acct!Pages
  BY DEF Acct!Rows, NumberRows, Acct!Pages
<1>4. AcctTyped'
  BY <1>1, <1>2, <1>3 DEF AcctTyped
<1>5. ASSUME NEW a \in Acct!Pages' PROVE PageFits(a)'
  BY <1>3, PageStays DEF AcctInv
<1>6. ASSUME NEW k \in Linkers \ {l} PROVE LinkerFits(k)'
  BY <1>2, <1>3, LinkersStay
<1>7. ~overlapping' => (\A k, m \in AskingFacebook' : k = m) /\ viaCallback' <= 1
  <2>1. \A k \in AskingFacebook' : k = l \/ k \in AskingFacebook
    BY <1>2 DEF AskingFacebook
  <2>2. l \in AskingFacebook' => e.do \in {"find", "link"}
    BY <1>2 DEF AskingFacebook
  <2> QED BY <2>1, <2>2 DEF AcctInv
<1> QED BY <1>3, <1>4, <1>5, <1>6, <1>7 DEF AcctInv

LEMMA CallbackComes ==
  ASSUME AcctInv, NEW l \in Linkers, Acct!Callback(l)
  PROVE  AcctInv'
<1>1. UNCHANGED <<accountRows, watch, today, renewals, ranOn, viaCallback>>
  BY DEF Acct!Callback, Acct!jobVars
<1>2. overlapping' = (overlapping \/ \E k \in Linkers : linking[k].do \in {"find", "link"})
  BY DEF Acct!Callback
<1>3. PICK e : e \in {Acct!Unlinked, [do |-> "find"]} /\ linking' = [linking EXCEPT ![l] = e] /\ linking[l] = Acct!Unlinked
  <2>1. PICK given : IF FALSE \in {given[q] : q \in DOMAIN given} THEN linking[l] = Acct!Unlinked /\ Acct!Redirect(l)
                     ELSE Acct!Begun(l, [do |-> "find"])
    BY DEF Acct!Callback
  <2> QED BY <2>1 DEF Acct!Redirect, Acct!Begun
<1>4. linking[l].do = "idle" /\ e.do \in {"idle", "find"}
  BY <1>3 DEF Acct!Unlinked
<1>5. overlapping' \in BOOLEAN /\ (overlapping => overlapping')
  BY <1>2
<1>6. ~overlapping' => AskingFacebook = {}
  BY <1>2 DEF AskingFacebook
<1>7. DOMAIN linking = Linkers
  BY DEF AcctInv, AcctTyped
<1>8. linking'[l] = e
  BY <1>3, <1>7
<1>9. LinkerFits(l)'
  BY <1>4, <1>8 DEF LinkerFits
<1> QED BY <1>1, <1>3, <1>5, <1>6, <1>9, LinkerGoes

\* No row is found for the number when there is none, so none was inserted.
LEMMA NumberFound ==
  ASSUME AcctInv, NEW l \in Linkers, Acct!FindNumber(l)
  PROVE  AcctInv'
<1>1. PICK a \in {0} \cup NumberRows : linking' = [linking EXCEPT ![l] = [do |-> "link", row |-> a]] /\ (a = 0 => NumberRows = {})
  <2>1. PICK a \in IF NumberRows = {} THEN {0} ELSE NumberRows : linking' = [linking EXCEPT ![l] = [do |-> "link", row |-> a]]
    BY DEF Acct!FindNumber, NumberRows
  <2>2. 0 \notin NumberRows
    BY LenProperties DEF AcctInv, AcctTyped, NumberRows, Acct!Rows
  <2> QED BY <2>1, <2>2
<1>2. linking[l].do = "find" /\ UNCHANGED <<accountRows, watch, today, renewals, ranOn, viaCallback, overlapping>>
  BY DEF Acct!FindNumber, Acct!jobVars
<1>3. PICK e : e = [do |-> "link", row |-> a]
  OBVIOUS
<1>4. e.do = "link" /\ e.row = a
  BY <1>3
<1>5. linking' = [linking EXCEPT ![l] = e]
  BY <1>1, <1>3
<1>6. AcctTyped
  BY DEF AcctInv
<1>7. linking'[l] = e
  BY <1>5, <1>6 DEF AcctTyped
<1>8. a = 0 => viaCallback = 0
  BY <1>1, <1>6 DEF AcctInv, AcctTyped
<1>9. LinkerFits(l)'
  <2>1. NumberRows' = NumberRows
    BY <1>2 DEF NumberRows, Acct!Rows
  <2> QED BY <1>1, <1>2, <1>4, <1>7, <1>8, <2>1 DEF LinkerFits
<1>10. l \in AskingFacebook
  BY <1>2 DEF AskingFacebook
<1>11. overlapping' \in BOOLEAN /\ (overlapping => overlapping')
  BY <1>2, <1>6 DEF AcctTyped
<1> QED BY <1>2, <1>5, <1>9, <1>10, <1>11, LinkerGoes

LEMMA RenewalAsked ==
  ASSUME AcctInv, NEW l \in Linkers, NEW a \in Acct!Rows, Acct!AskRenewal(l, a)
  PROVE  AcctInv'
<1>1. PICK e : e = [do |-> "renew", row |-> a, token |-> accountRows[a].ends]
  OBVIOUS
<1>2. e.do = "renew" /\ e.row = a
  BY <1>1
<1>3. /\ linking' = [linking EXCEPT ![l] = e] /\ accountRows[a].net = "instagram"
      /\ UNCHANGED <<accountRows, watch, today, renewals, ranOn, viaCallback, overlapping>>
  BY <1>1 DEF Acct!AskRenewal, Acct!Begun, Acct!jobVars
<1>4. AcctTyped
  BY DEF AcctInv
<1>5. linking'[l] = e
  BY <1>3, <1>4 DEF AcctTyped
<1>6. LinkerFits(l)'
  BY <1>2, <1>3, <1>5 DEF LinkerFits, NumberRows, Acct!Rows
<1>7. overlapping' \in BOOLEAN /\ (overlapping => overlapping')
  BY <1>3, <1>4 DEF AcctTyped
<1> QED BY <1>2, <1>3, <1>6, <1>7, LinkerGoes

\* Row a is renewed: by the job, for a request, or with the number.
LEMMA RowRenewed ==
  ASSUME AcctTyped, NEW a \in Acct!Rows, Acct!Renewed(a)
  PROVE  /\ accountRows' \in Seq(AccountRow) /\ watch' \in Seq([missed : Nat, old : BOOLEAN])
         /\ DOMAIN watch' = DOMAIN accountRows' /\ Acct!Rows' = Acct!Rows
         /\ \A o \in Acct!Rows \ {a} : accountRows'[o] = accountRows[o] /\ watch'[o] = watch[o]
         /\ accountRows'[a].net = accountRows[a].net /\ accountRows'[a].active = accountRows[a].active
         /\ accountRows'[a].ends = today + Lifetime /\ accountRows'[a].expiry = today + Lifetime /\ watch'[a].missed = 0
<1>1. PICK row, w : row = [accountRows[a] EXCEPT !.ends = today + Lifetime, !.expiry = today + Lifetime]
                    /\ w = [missed |-> 0, old |-> FALSE]
  OBVIOUS
<1>2. accountRows \in Seq(AccountRow) /\ watch \in Seq([missed : Nat, old : BOOLEAN]) /\ DOMAIN watch = DOMAIN accountRows
      /\ a \in DOMAIN accountRows /\ accountRows[a] \in AccountRow /\ today + Lifetime \in Int
  BY ElementOfSeq, RecordAssumption DEF AcctTyped, Acct!Rows
<1>3. /\ row \in AccountRow /\ row.net = accountRows[a].net /\ row.active = accountRows[a].active
      /\ row.ends = today + Lifetime /\ row.expiry = today + Lifetime
  BY <1>1, <1>2 DEF AccountRow
<1>4. w \in [missed : Nat, old : BOOLEAN] /\ w.missed = 0
  BY <1>1
<1>5. accountRows' = [accountRows EXCEPT ![a] = row] /\ watch' = [watch EXCEPT ![a] = w]
  BY <1>1, <1>2 DEF Acct!Renewed
<1>6. accountRows' \in Seq(AccountRow) /\ Len(accountRows') = Len(accountRows)
  BY <1>2, <1>3, <1>5, ExceptSeq
<1>7. watch' \in Seq([missed : Nat, old : BOOLEAN]) /\ Len(watch') = Len(watch)
  BY <1>2, <1>4, <1>5, ExceptSeq
<1> QED BY <1>2, <1>3, <1>4, <1>5, <1>6, <1>7 DEF Acct!Rows

\* A step of a row: all but one page stay as they are.
LEMMA AllButOneStay ==
  ASSUME AcctInv, NEW a \in Acct!Rows, UNCHANGED <<today, ranOn>>, Acct!Rows' = Acct!Rows,
         \A o \in Acct!Rows \ {a} : accountRows'[o] = accountRows[o] /\ watch'[o] = watch[o],
         \A o \in Acct!Rows \ {a} : o \in renewals => o \in renewals',
         NEW o \in Acct!Pages', o # a
  PROVE  PageFits(o)'
<1>1. o \in Acct!Pages /\ o \in Acct!Rows
  BY DEF Acct!Pages
<1>2. PageFits(o)
  BY <1>1 DEF AcctInv
<1> QED BY <1>1, <1>2, PageStays

LEMMA NetsStay ==
  ASSUME Acct!Rows' = Acct!Rows, \A a \in Acct!Rows : accountRows'[a].net = accountRows[a].net
  PROVE  NumberRows' = NumberRows
BY DEF NumberRows

LEMMA RenewalEnds ==
  ASSUME AcctInv, NEW l \in Linkers, Acct!Renew(l)
  PROVE  AcctInv'
<1>1. PICK a : a = linking[l].row
  OBVIOUS
<1>2. /\ linking[l].do = "renew" /\ linking' = [linking EXCEPT ![l] = Acct!Unlinked]
      /\ UNCHANGED <<today, renewals, ranOn, overlapping, viaCallback>>
      /\ Acct!Renewed(a) \/ UNCHANGED <<accountRows, watch>>
  BY <1>1 DEF Acct!Renew, Acct!jobVars
<1>3. AcctTyped /\ LinkerFits(l)
  BY DEF AcctInv
<1>4. a \in Acct!Rows /\ accountRows[a].net # "whatsapp"
  BY <1>1, <1>2, <1>3 DEF LinkerFits, NumberRows
<1>5. DOMAIN linking' = Linkers /\ linking'[l].do = "idle" /\ \A k \in Linkers \ {l} : linking'[k] = linking[k]
  BY <1>2, <1>3 DEF AcctTyped, Acct!Unlinked
<1>6. LinkerFits(l)'
  BY <1>5 DEF LinkerFits
<1>7. CASE UNCHANGED <<accountRows, watch>>
  <2>1. Acct!Unlinked.do = "idle"
    BY DEF Acct!Unlinked
  <2>2. overlapping' \in BOOLEAN /\ (overlapping => overlapping')
    BY <1>2, <1>3 DEF AcctTyped
  <2> QED BY <1>2, <1>6, <1>7, <2>1, <2>2, LinkerGoes
<1>8. CASE Acct!Renewed(a)
  <2>1. /\ accountRows' \in Seq(AccountRow) /\ watch' \in Seq([missed : Nat, old : BOOLEAN])
        /\ DOMAIN watch' = DOMAIN accountRows' /\ Acct!Rows' = Acct!Rows
        /\ \A o \in Acct!Rows \ {a} : accountRows'[o] = accountRows[o] /\ watch'[o] = watch[o]
        /\ accountRows'[a].net = accountRows[a].net
        /\ accountRows'[a].ends = today + Lifetime /\ accountRows'[a].expiry = today + Lifetime /\ watch'[a].missed = 0
    BY <1>3, <1>4, <1>8, RowRenewed
  <2>2. NumberRows' = NumberRows
    BY <2>1, NetsStay
  <2>3. AcctTyped'
    BY <1>2, <1>3, <1>5, <2>1, <2>2 DEF AcctTyped
  <2>4. ASSUME NEW o \in Acct!Pages' PROVE PageFits(o)'
    <3>1. CASE o = a
      BY <1>2, <1>3, <2>1, <3>1, PageIsNew DEF AcctTyped
    <3>2. CASE o # a
      BY <1>2, <1>4, <2>1, <3>2, AllButOneStay
    <3> QED BY <3>1, <3>2
  <2>5. ASSUME NEW k \in Linkers \ {l} PROVE LinkerFits(k)'
    BY <1>2, <1>5, <2>1, <2>2, LinkersStay
  <2>6. AskingFacebook' \subseteq AskingFacebook
    BY <1>5 DEF AskingFacebook
  <2> QED BY <1>2, <1>6, <2>2, <2>3, <2>4, <2>5, <2>6 DEF AcctInv
<1> QED BY <1>2, <1>7, <1>8

\* The number is linked: its row, or, when no other request can have inserted one
\* meanwhile, the first row of it.
LEMMA NumberLinked ==
  ASSUME AcctInv, NEW l \in Linkers, Acct!Link(l)
  PROVE  AcctInv'
<1>1. PICK a : a = linking[l].row
  OBVIOUS
<1>2. /\ linking[l].do = "link" /\ linking' = [linking EXCEPT ![l] = Acct!Unlinked]
      /\ UNCHANGED <<today, renewals, ranOn, overlapping>>
  BY DEF Acct!Link, Acct!Redirect, Acct!jobVars
<1>3. AcctTyped /\ LinkerFits(l)
  BY DEF AcctInv
<1>4. a \in {0} \cup NumberRows /\ (~overlapping /\ a = 0 => viaCallback = 0)
  BY <1>1, <1>2, <1>3 DEF LinkerFits
<1>5. DOMAIN linking' = Linkers /\ linking'[l].do = "idle" /\ \A k \in Linkers \ {l} : linking'[k] = linking[k]
  BY <1>2, <1>3 DEF AcctTyped, Acct!Unlinked
<1>6. LinkerFits(l)'
  BY <1>5 DEF LinkerFits
<1>7. AskingFacebook' \subseteq AskingFacebook /\ l \in AskingFacebook /\ l \notin AskingFacebook'
  BY <1>2, <1>5 DEF AskingFacebook
<1>8. CASE a = 0
  <2>1. Acct!Insert("whatsapp", today + Lifetime) /\ viaCallback' = viaCallback + 1
    BY <1>1, <1>8 DEF Acct!Link
  <2>2. today + Lifetime \in Int
    BY <1>3, RecordAssumption DEF AcctTyped
  <2>3. PICK n : n = Len(accountRows) + 1
    OBVIOUS
  <2>4. /\ accountRows' \in Seq(AccountRow) /\ watch' \in Seq([missed : Nat, old : BOOLEAN])
        /\ DOMAIN watch' = DOMAIN accountRows' /\ Acct!Rows' = Acct!Rows \cup {n} /\ n \notin Acct!Rows
        /\ \A o \in Acct!Rows : accountRows'[o] = accountRows[o] /\ watch'[o] = watch[o]
        /\ accountRows'[n].net = "whatsapp" /\ accountRows'[n].expiry = today + Lifetime
        /\ watch'[n].missed = 0 /\ (accountRows'[n].ends = today + Lifetime \/ watch'[n].old)
    BY <1>3, <2>1, <2>2, <2>3, RowInserted
  <2>5. NumberRows \subseteq NumberRows' /\ Acct!Rows \ NumberRows \subseteq Acct!Rows' \ NumberRows' /\ NumberRows' # {}
    BY <1>3, <2>4, RowsStay
  <2>6. viaCallback' \in Nat /\ (~overlapping => viaCallback' <= 1)
    BY <1>3, <1>4, <1>8, <2>1 DEF AcctTyped
  <2>7. AcctTyped'
    BY <1>2, <1>3, <1>5, <2>4, <2>5, <2>6 DEF AcctTyped
  <2>8. ASSUME NEW o \in Acct!Pages' PROVE PageFits(o)'
    <3>1. o \in Acct!Pages /\ o \in Acct!Rows
      BY <2>4 DEF Acct!Pages
    <3>2. PageFits(o)
      BY <3>1 DEF AcctInv
    <3> QED BY <1>2, <2>4, <3>1, <3>2, PageStays
  <2>9. ASSUME NEW k \in Linkers \ {l} PROVE LinkerFits(k)'
    <3>1. ~overlapping => linking[k].do # "link"
      BY <1>7 DEF AcctInv, AskingFacebook
    <3> QED BY <1>2, <1>5, <2>5, <3>1, LinkersStay
  <2> QED BY <1>2, <1>6, <1>7, <2>5, <2>6, <2>7, <2>8, <2>9 DEF AcctInv
<1>9. CASE a # 0
  <2>1. a \in Acct!Rows /\ accountRows[a].net = "whatsapp" /\ a \in NumberRows
    BY <1>4, <1>9 DEF NumberRows
  <2>2. PICK row, w : row = [accountRows[a] EXCEPT !.ends = today + Lifetime, !.expiry = today + Lifetime, !.active = TRUE]
                      /\ w = [missed |-> 0, old |-> FALSE]
    OBVIOUS
  <2>3. accountRows \in Seq(AccountRow) /\ watch \in Seq([missed : Nat, old : BOOLEAN]) /\ DOMAIN watch = DOMAIN accountRows
        /\ a \in DOMAIN accountRows /\ accountRows[a] \in AccountRow /\ today + Lifetime \in Int
    BY <1>3, <2>1, ElementOfSeq, RecordAssumption DEF AcctTyped, Acct!Rows
  <2>4. row \in AccountRow /\ row.net = accountRows[a].net /\ w \in [missed : Nat, old : BOOLEAN]
    BY <2>2, <2>3 DEF AccountRow
  <2>5. accountRows' = [accountRows EXCEPT ![a] = row] /\ watch' = [watch EXCEPT ![a] = w] /\ UNCHANGED viaCallback
    BY <1>1, <1>9, <2>2, <2>3 DEF Acct!Link
  <2>6. accountRows' \in Seq(AccountRow) /\ Len(accountRows') = Len(accountRows)
    BY <2>3, <2>4, <2>5, ExceptSeq
  <2>7. watch' \in Seq([missed : Nat, old : BOOLEAN]) /\ Len(watch') = Len(watch)
    BY <2>3, <2>4, <2>5, ExceptSeq
  <2>8. /\ DOMAIN watch' = DOMAIN accountRows' /\ Acct!Rows' = Acct!Rows
        /\ \A o \in Acct!Rows \ {a} : accountRows'[o] = accountRows[o] /\ watch'[o] = watch[o]
        /\ accountRows'[a].net = "whatsapp"
    BY <2>1, <2>3, <2>4, <2>5, <2>6, <2>7 DEF Acct!Rows
  <2>9. NumberRows' = NumberRows
    BY <2>1, <2>8, NetsStay
  <2>10. AcctTyped'
    BY <1>2, <1>3, <1>5, <2>5, <2>6, <2>7, <2>8, <2>9 DEF AcctTyped
  <2>11. ASSUME NEW o \in Acct!Pages' PROVE PageFits(o)'
    <3>1. o # a
      BY <2>8 DEF Acct!Pages
    <3> QED BY <1>2, <2>1, <2>8, <3>1, AllButOneStay
  <2>12. ASSUME NEW k \in Linkers \ {l} PROVE LinkerFits(k)'
    BY <1>2, <1>5, <2>5, <2>8, <2>9, LinkersStay
  <2> QED BY <1>2, <1>6, <1>7, <2>5, <2>9, <2>10, <2>11, <2>12 DEF AcctInv
<1> QED BY <1>8, <1>9

LEMMA AccountOff ==
  ASSUME AcctInv, NEW a \in Acct!Rows, Acct!Disconnect(a)
  PROVE  AcctInv'
<1>1. PICK row : row = [accountRows[a] EXCEPT !.active = FALSE]
  OBVIOUS
<1>2. AcctTyped
  BY DEF AcctInv
<1>3. accountRows \in Seq(AccountRow) /\ a \in DOMAIN accountRows /\ accountRows[a] \in AccountRow
  BY <1>2, ElementOfSeq DEF AcctTyped, Acct!Rows
<1>4. row \in AccountRow /\ row.net = accountRows[a].net /\ ~row.active
  BY <1>1, <1>3 DEF AccountRow
<1>5. /\ accountRows' = [accountRows EXCEPT ![a] = row]
      /\ UNCHANGED <<today, watch, linking, overlapping, viaCallback, renewals, ranOn>>
  BY <1>1, <1>3 DEF Acct!Disconnect, Acct!linkVars, Acct!jobVars
<1>6. accountRows' \in Seq(AccountRow) /\ Len(accountRows') = Len(accountRows)
  BY <1>3, <1>4, <1>5, ExceptSeq
<1>7. /\ DOMAIN accountRows' = DOMAIN accountRows /\ Acct!Rows' = Acct!Rows
      /\ \A o \in Acct!Rows \ {a} : accountRows'[o] = accountRows[o]
      /\ accountRows'[a] = row
  BY <1>3, <1>4, <1>5 DEF Acct!Rows
<1>8. NumberRows' = NumberRows
  BY <1>4, <1>7, NetsStay
<1>9. AcctTyped'
  BY <1>2, <1>5, <1>6, <1>7, <1>8 DEF AcctTyped
<1>10. ASSUME NEW o \in Acct!Pages' PROVE PageFits(o)'
  <2>1. o # a
    BY <1>4, <1>7 DEF Acct!Pages
  <2> QED BY <1>5, <1>7, <2>1, AllButOneStay
<1>11. ASSUME NEW k \in Linkers PROVE LinkerFits(k)'
  BY <1>5, <1>7, <1>8, LinkersStay
<1>12. AskingFacebook' = AskingFacebook
  BY <1>5 DEF AskingFacebook
<1> QED BY <1>5, <1>8, <1>9, <1>10, <1>11, <1>12 DEF AcctInv

\* The run of a day takes up every page whose token is due.
LEMMA RenewalsStart ==
  ASSUME AcctInv, Acct!StartRenewals
  PROVE  AcctInv'
<1>1. /\ ranOn' = today /\ renewals' = Acct!Due
      /\ UNCHANGED <<accountRows, today, watch, linking, overlapping, viaCallback>>
  BY DEF Acct!StartRenewals, Acct!linkVars
<1>2. Acct!Rows' = Acct!Rows /\ NumberRows' = NumberRows /\ Acct!Pages' = Acct!Pages /\ AskingFacebook' = AskingFacebook
  BY <1>1 DEF Acct!Rows, NumberRows, Acct!Pages, AskingFacebook
<1>3. AcctTyped
  BY DEF AcctInv
<1>4. AcctTyped'
  <2>1. Acct!Due \subseteq Acct!Rows \ NumberRows
    BY DEF Acct!Due, Acct!Pages, NumberRows
  <2> QED BY <1>1, <1>2, <1>3, <2>1 DEF AcctTyped
<1>5. ASSUME NEW a \in Acct!Pages PROVE PageFits(a)'
  <2>1. PageFits(a) /\ a \in DOMAIN accountRows
    BY DEF AcctInv, Acct!Pages, Acct!Rows
  <2>2. accountRows[a].expiry \in Int /\ watch[a].missed \in Nat
    BY <1>3, <2>1, RowsTyped
  <2>3. today \in Nat /\ RefreshBefore \in Nat
    BY <1>3, RecordAssumption DEF AcctTyped
  <2>4. a \notin Acct!Due => RunsMissed(a, today + 1)
    <3>1. a \notin Acct!Due => ~(accountRows[a].expiry <= today + RefreshBefore)
      BY <1>5 DEF Acct!Due
    <3> QED BY <2>2, <2>3, <3>1 DEF RunsMissed
  <2> QED BY <1>1, <2>1, <2>4 DEF PageFits, RunsMissed
<1>6. ASSUME NEW k \in Linkers PROVE LinkerFits(k)'
  BY <1>1, <1>2, LinkersStay
<1> QED BY <1>1, <1>2, <1>4, <1>5, <1>6 DEF AcctInv

\* A run that did not renew account a counts, up to the bound.
LEMMA RunCounts ==
  ASSUME AcctTyped, NEW S, Acct!Missed(S)
  PROVE  /\ watch' \in Seq([missed : Nat, old : BOOLEAN]) /\ DOMAIN watch' = Acct!Rows
         /\ \A a \in Acct!Rows \ S : watch'[a] = watch[a]
         /\ \A a \in Acct!Rows \cap S :
              /\ watch'[a].old = watch[a].old
              /\ watch'[a].missed >= watch[a].missed
              /\ watch'[a].missed > RefreshBefore \/ watch'[a].missed = watch[a].missed + 1
<1>1. watch \in Seq([missed : Nat, old : BOOLEAN]) /\ DOMAIN watch = Acct!Rows /\ Acct!Rows = 1..Len(watch) /\ Len(watch) \in Nat
  BY LenProperties DEF AcctTyped, Acct!Rows
<1>2. DOMAIN watch' = Acct!Rows
  BY DEF Acct!Missed
<1>3. ASSUME NEW a \in Acct!Rows
      PROVE  /\ watch'[a] \in [missed : Nat, old : BOOLEAN]
             /\ a \notin S => watch'[a] = watch[a]
             /\ a \in S =>
                  /\ watch'[a].old = watch[a].old
                  /\ watch'[a].missed >= watch[a].missed
                  /\ watch'[a].missed > RefreshBefore \/ watch'[a].missed = watch[a].missed + 1
  <2>1. PICK w : w = [watch[a] EXCEPT !.missed = @ + 1]
    OBVIOUS
  <2>2. watch[a] \in [missed : Nat, old : BOOLEAN]
    BY <1>1, ElementOfSeq
  <2>3. w \in [missed : Nat, old : BOOLEAN] /\ w.old = watch[a].old /\ w.missed = watch[a].missed + 1
    BY <2>1, <2>2
  <2>4. watch'[a] = IF a \in S /\ watch[a].missed <= RefreshBefore THEN w ELSE watch[a]
    BY <2>1 DEF Acct!Missed
  <2>5. CASE a \in S /\ watch[a].missed <= RefreshBefore
    BY <2>2, <2>3, <2>4, <2>5
  <2>6. CASE ~(a \in S /\ watch[a].missed <= RefreshBefore)
    BY <2>2, <2>4, <2>6, RecordAssumption
  <2> QED BY <2>5, <2>6
<1>4. watch' \in [1..Len(watch) -> [missed : Nat, old : BOOLEAN]]
  <2>1. watch' = [a \in Acct!Rows |-> watch'[a]]
    BY DEF Acct!Missed
  <2> QED BY <1>1, <1>3, <2>1
<1> QED BY <1>1, <1>2, <1>3, <1>4, IsASeq

LEMMA NextRenewal ==
  ASSUME AcctInv, Acct!RenewNext
  PROVE  AcctInv'
<1>1. PICK a \in renewals : /\ renewals' = renewals \ {a}
                            /\ Acct!Renewed(a) \/ (Acct!Missed({a}) /\ UNCHANGED accountRows)
  BY DEF Acct!RenewNext
<1>2. UNCHANGED <<today, ranOn, linking, overlapping, viaCallback>>
  BY DEF Acct!RenewNext, Acct!linkVars
<1>3. AcctTyped
  BY DEF AcctInv
<1>4. a \in Acct!Rows /\ accountRows[a].net # "whatsapp" /\ DOMAIN watch = Acct!Rows
  BY <1>1, <1>3 DEF AcctTyped, NumberRows, Acct!Rows
<1>5. AskingFacebook' = AskingFacebook
  BY <1>2 DEF AskingFacebook
<1>6. /\ accountRows' \in Seq(AccountRow) /\ watch' \in Seq([missed : Nat, old : BOOLEAN])
      /\ DOMAIN watch' = DOMAIN accountRows' /\ Acct!Rows' = Acct!Rows
      /\ \A o \in Acct!Rows \ {a} : accountRows'[o] = accountRows[o] /\ watch'[o] = watch[o]
      /\ accountRows'[a].net = accountRows[a].net /\ accountRows'[a].active = accountRows[a].active
  <2>1. CASE Acct!Renewed(a)
    BY <1>3, <1>4, <2>1, RowRenewed
  <2>2. CASE Acct!Missed({a}) /\ UNCHANGED accountRows
    BY <1>3, <1>4, <2>2, RunCounts DEF AcctTyped, Acct!Rows
  <2> QED BY <1>1, <2>1, <2>2
<1>7. NumberRows' = NumberRows
  BY <1>6, NetsStay
<1>8. AcctTyped'
  BY <1>1, <1>2, <1>3, <1>6, <1>7 DEF AcctTyped
<1>9. ASSUME a \in Acct!Pages' PROVE PageFits(a)'
  <2>1. CASE Acct!Renewed(a)
    <3>1. accountRows'[a].ends = today + Lifetime /\ accountRows'[a].expiry = today + Lifetime /\ watch'[a].missed = 0
      BY <1>3, <1>4, <2>1, RowRenewed
    <3> QED BY <1>2, <1>3, <3>1, PageIsNew DEF AcctTyped
  <2>2. CASE Acct!Missed({a}) /\ UNCHANGED accountRows
    <3>1. a \in Acct!Pages
      BY <1>9, <2>2 DEF Acct!Pages, Acct!Rows
    <3>2. /\ watch'[a].old = watch[a].old /\ watch'[a].missed >= watch[a].missed
          /\ watch'[a].missed > RefreshBefore \/ watch'[a].missed = watch[a].missed + 1
      BY <1>3, <1>4, <2>2, RunCounts
    <3>3. PageFits(a)
      BY <3>1 DEF AcctInv
    <3>4. watch[a].missed \in Nat /\ watch'[a].missed \in Nat /\ accountRows[a].expiry \in Int
      <4>1. watch'[a] \in [missed : Nat, old : BOOLEAN]
        BY <1>4, <1>6, InSequence DEF Acct!Rows
      <4> QED BY <1>3, <1>4, <4>1, RowsTyped DEF Acct!Rows
    <3>5. RunsMissed(a, today) /\ today \in Nat /\ RefreshBefore \in Nat
      BY <1>3, <3>3, RecordAssumption DEF PageFits, AcctTyped
    <3>6. RunsMissed(a, today)' /\ RunsMissed(a, today + 1)'
      BY <1>2, <2>2, <3>2, <3>4, <3>5 DEF RunsMissed
    <3> QED BY <2>2, <3>2, <3>3, <3>6 DEF PageFits
  <2> QED BY <1>1, <2>1, <2>2
<1>10. ASSUME NEW o \in Acct!Pages', o # a PROVE PageFits(o)'
  BY <1>1, <1>2, <1>4, <1>6, <1>10, AllButOneStay
<1>11. ASSUME NEW k \in Linkers PROVE LinkerFits(k)'
  BY <1>2, <1>6, <1>7, LinkersStay
<1> QED BY <1>2, <1>5, <1>7, <1>8, <1>9, <1>10, <1>11 DEF AcctInv

\* At the end of a day every page whose token was due has one more run behind it.
LEMMA DayEnds ==
  ASSUME AcctInv, Acct!Midnight
  PROVE  AcctInv'
<1>1. /\ today' = today + 1 /\ renewals' = {} /\ Acct!Missed(IF ranOn = today THEN renewals ELSE Acct!Due)
      /\ UNCHANGED <<accountRows, ranOn, linking, overlapping, viaCallback>>
  BY DEF Acct!Midnight, Acct!linkVars
<1>2. AcctTyped
  BY DEF AcctInv
<1>3. PICK S : S = IF ranOn = today THEN renewals ELSE Acct!Due
  OBVIOUS
<1>4. /\ watch' \in Seq([missed : Nat, old : BOOLEAN]) /\ DOMAIN watch' = Acct!Rows
      /\ \A a \in Acct!Rows \ S : watch'[a] = watch[a]
      /\ \A a \in Acct!Rows \cap S :
           /\ watch'[a].old = watch[a].old
           /\ watch'[a].missed >= watch[a].missed
           /\ watch'[a].missed > RefreshBefore \/ watch'[a].missed = watch[a].missed + 1
  BY <1>1, <1>2, <1>3, RunCounts
<1>5. Acct!Rows' = Acct!Rows /\ NumberRows' = NumberRows /\ Acct!Pages' = Acct!Pages /\ AskingFacebook' = AskingFacebook
  BY <1>1 DEF Acct!Rows, NumberRows, Acct!Pages, AskingFacebook
<1>6. AcctTyped' /\ ranOn' # today'
  BY <1>1, <1>2, <1>4, <1>5 DEF AcctTyped, Acct!Rows
<1>7. ASSUME NEW a \in Acct!Pages PROVE PageFits(a)'
  <2>1. PageFits(a) /\ a \in DOMAIN accountRows /\ a \in Acct!Rows
    BY DEF AcctInv, Acct!Pages, Acct!Rows
  <2>2. accountRows[a].expiry \in Int /\ watch[a].missed \in Nat /\ watch'[a].missed \in Nat
    <3>1. watch'[a] \in [missed : Nat, old : BOOLEAN]
      BY <1>4, <2>1, InSequence
    <3> QED BY <1>2, <2>1, <3>1, RowsTyped
  <2>3. watch'[a].old = watch[a].old
    BY <1>4, <2>1
  <2>4. RunsMissed(a, today) /\ (ranOn = today /\ a \notin renewals => RunsMissed(a, today + 1))
    BY <2>1 DEF PageFits
  <2>5. today \in Nat /\ RefreshBefore \in Nat
    BY <1>2, RecordAssumption DEF AcctTyped
  <2>6. RunsMissed(a, today)'
    <3>1. CASE a \in S
      <4>1. /\ watch'[a].missed >= watch[a].missed
            /\ watch'[a].missed > RefreshBefore \/ watch'[a].missed = watch[a].missed + 1
        BY <1>4, <2>1, <3>1
      <4> QED BY <1>1, <2>2, <2>4, <2>5, <4>1 DEF RunsMissed
    <3>2. CASE a \notin S /\ ranOn = today
      <4>1. RunsMissed(a, today + 1) /\ watch'[a] = watch[a]
        BY <1>3, <1>4, <2>1, <2>4, <3>2
      <4> QED BY <1>1, <4>1 DEF RunsMissed
    <3>3. CASE a \notin S /\ ranOn # today
      <4>1. ~(accountRows[a].expiry <= today + RefreshBefore) /\ watch'[a] = watch[a]
        BY <1>3, <1>4, <1>7, <2>1, <3>3 DEF Acct!Due
      <4> QED BY <1>1, <2>2, <2>5, <4>1 DEF RunsMissed
    <3> QED BY <3>1, <3>2, <3>3
  <2> QED BY <1>1, <1>6, <2>1, <2>3, <2>6 DEF PageFits
<1>8. ASSUME NEW k \in Linkers PROVE LinkerFits(k)'
  BY <1>1, <1>5, LinkersStay
<1> QED BY <1>1, <1>5, <1>6, <1>7, <1>8 DEF AcctInv

LEMMA AcctKept ==
  ASSUME AcctInv, Acct!Next \/ UNCHANGED accountVars
  PROVE  AcctInv'
<1>1. CASE \E net \in {"whatsapp", "instagram"} : Acct!Connect(net)
  BY <1>1, AccountConnected
<1>2. CASE \E l \in Linkers : Acct!Callback(l) \/ Acct!FindNumber(l) \/ Acct!Link(l) \/ Acct!Renew(l)
  BY <1>2, CallbackComes, NumberFound, NumberLinked, RenewalEnds
<1>3. CASE \E l \in Linkers, a \in Acct!Rows : Acct!AskRenewal(l, a)
  BY <1>3, RenewalAsked
<1>4. CASE \E a \in Acct!Rows : Acct!Disconnect(a)
  BY <1>4, AccountOff
<1>5. CASE Acct!StartRenewals \/ Acct!RenewNext \/ Acct!Midnight
  BY <1>5, RenewalsStart, NextRenewal, DayEnds
<1>6. CASE UNCHANGED <<accountRows, today, linking, renewals, ranOn, watch, overlapping, viaCallback>>
  <2>1. Acct!Rows' = Acct!Rows /\ NumberRows' = NumberRows /\ Acct!Pages' = Acct!Pages /\ AskingFacebook' = AskingFacebook
    BY <1>6 DEF Acct!Rows, NumberRows, Acct!Pages, AskingFacebook
  <2>2. AcctTyped'
    BY <1>6, <2>1 DEF AcctInv, AcctTyped
  <2>3. ASSUME NEW a \in Acct!Pages' PROVE PageFits(a)'
    BY <1>6, <2>1, PageStays DEF AcctInv
  <2>4. ASSUME NEW k \in Linkers PROVE LinkerFits(k)'
    BY <1>6, <2>1, LinkersStay
  <2> QED BY <1>6, <2>1, <2>2, <2>3, <2>4 DEF AcctInv
<1>7. CASE \E a \in Acct!Rows : Acct!SyncAccount(a)
  BY <1>6, <1>7 DEF Acct!SyncAccount, Acct!linkVars
<1>8. CASE UNCHANGED accountVars
  BY <1>6, <1>8 DEF accountVars
<1> QED BY <1>1, <1>2, <1>3, <1>4, <1>5, <1>7, <1>8 DEF Acct!Next

LEMMA AcctAccounted ==
  ASSUME AcctInv
  PROVE  Acct!TokensStayFresh /\ Acct!NumberIsLinkedOnce
<1>1. AcctTyped
  BY DEF AcctInv
<1>2. ASSUME NEW a \in Acct!Pages, ~watch[a].old, watch[a].missed <= RefreshBefore PROVE accountRows[a].ends >= today
  <2>1. PageFits(a) /\ a \in DOMAIN accountRows
    BY DEF AcctInv, Acct!Pages, Acct!Rows
  <2>2. accountRows[a].expiry \in Int /\ watch[a].missed \in Nat
    BY <1>1, <2>1, RowsTyped
  <2> QED BY <1>1, <1>2, <2>1, <2>2, RecordAssumption DEF PageFits, RunsMissed, AcctTyped
<1>3. Acct!TokensStayFresh
  BY <1>2 DEF Acct!TokensStayFresh
<1>4. Acct!NumberIsLinkedOnce
  BY <1>1 DEF AcctInv, AcctTyped, Acct!NumberIsLinkedOnce
<1> QED BY <1>3, <1>4

-----------------------------------------------------------------------------
(* CategoryTree: paths and rows                                            *)

LEMMA FrontOfAppend ==
  ASSUME NEW S, NEW s \in Seq(S), NEW x \in S
  PROVE  Tree!Front(Append(s, x)) = s
<1>1. PICK t : t = Append(s, x)
  OBVIOUS
<1>2. t \in Seq(S) /\ Len(t) = Len(s) + 1 /\ Len(s) \in Nat /\ \A i \in 1..Len(s) : t[i] = s[i]
  BY <1>1, AppendProperties, LenProperties
<1>3. \A i \in 1..Len(s) : t[i] \in S
  BY <1>2, ElementOfSeq
<1>4. /\ SubSeq(t, 1, Len(s)) \in Seq(S) /\ Len(SubSeq(t, 1, Len(s))) = Len(s)
      /\ \A i \in 1..Len(s) : SubSeq(t, 1, Len(s))[i] = t[i]
  BY <1>2, <1>3, SubSeqProperties
<1>5. SubSeq(t, 1, Len(s)) = s
  BY <1>2, <1>4, SeqEqual
<1> QED BY <1>1, <1>2, <1>5 DEF Tree!Front

\* What precedes the last slug.
LEMMA FrontProperties ==
  ASSUME NEW S, NEW s \in Seq(S), Len(s) >= 1
  PROVE  /\ Tree!Front(s) \in Seq(S) /\ Len(Tree!Front(s)) = Len(s) - 1
         /\ \A i \in 1..Len(s) - 1 : Tree!Front(s)[i] = s[i]
<1>1. PICK n : n = Len(s) - 1
  OBVIOUS
<1>2. n \in Nat /\ Len(s) = n + 1 /\ \A i \in 1..n : s[i] \in S
  BY <1>1, LenProperties, ElementOfSeq
<1>3. /\ SubSeq(s, 1, n) \in Seq(S) /\ Len(SubSeq(s, 1, n)) = (IF 1 <= n THEN n - 1 + 1 ELSE 0)
      /\ \A i \in 1..n - 1 + 1 : SubSeq(s, 1, n)[i] = s[1 + i - 1]
  BY <1>2, SubSeqProperties
<1>4. Len(SubSeq(s, 1, n)) = n /\ \A i \in 1..n : SubSeq(s, 1, n)[i] = s[i]
  BY <1>2, <1>3
<1> QED BY <1>1, <1>3, <1>4 DEF Tree!Front

LEMMA PrefixPointwise ==
  ASSUME NEW S, NEW s \in Seq(S), NEW t \in Seq(S)
  PROVE  Tree!IsPrefix(s, t) <=> Len(s) <= Len(t) /\ \A i \in 1..Len(s) : s[i] = t[i]
<1>1. Len(s) \in Nat /\ Len(t) \in Nat /\ SubSeq(s, 1, Len(s)) = s
  BY LenProperties, SubSeqFull
<1>2. ASSUME Len(s) <= Len(t)
      PROVE  SubSeq(s, 1, Len(s)) = SubSeq(t, 1, Len(s)) <=> \A i \in 1..Len(s) : s[i] = t[i]
  <2>1. \A i \in 1..Len(s) : t[i] \in S
    BY <1>1, <1>2, ElementOfSeq
  <2>2. PICK u : u = SubSeq(t, 1, Len(s))
    OBVIOUS
  <2>3. u \in Seq(S) /\ Len(u) = Len(s) /\ \A i \in 1..Len(s) : u[i] = t[i]
    BY <1>1, <2>1, <2>2, SubSeqProperties
  <2>4. (\A i \in 1..Len(s) : s[i] = t[i]) => u = s
    BY <2>3, SeqEqual
  <2> QED BY <1>1, <2>2, <2>3, <2>4
<1> QED BY <1>2 DEF Tree!IsPrefix

\* Who has a path starts it, and with it all that start it.
LEMMA FrontIsStart ==
  ASSUME NEW S, NEW s \in Seq(S), NEW t \in Seq(S), Len(t) >= 1,
         Tree!Front(t) = s \/ Tree!IsStrictPrefix(s, Tree!Front(t))
  PROVE  Tree!IsStrictPrefix(s, t)
<1>1. PICK f : f = Tree!Front(t)
  OBVIOUS
<1>2. f \in Seq(S) /\ Len(f) = Len(t) - 1 /\ \A i \in 1..Len(t) - 1 : f[i] = t[i]
  BY <1>1, FrontProperties
<1>3. Len(s) \in Nat /\ Len(t) \in Nat
  BY LenProperties
<1>4. Len(s) <= Len(f) /\ \A i \in 1..Len(s) : s[i] = f[i]
  <2>1. CASE f = s
    BY <1>3, <2>1
  <2>2. CASE Tree!IsStrictPrefix(s, f)
    BY <1>2, <2>2, PrefixPointwise DEF Tree!IsStrictPrefix
  <2> QED BY <1>1, <2>1, <2>2
<1>5. Len(s) <= Len(t) /\ s # t /\ \A i \in 1..Len(s) : s[i] = t[i]
  BY <1>2, <1>3, <1>4
<1> QED BY <1>5, PrefixPointwise DEF Tree!IsStrictPrefix

\* A sequence of all members of a set has each of them.
LEMMA SetAsSequence ==
  ASSUME NEW C, IsFiniteSet(C), NEW s \in Tree!SetToSeqs(C)
  PROVE  /\ s \in Seq(C) /\ \A c \in C : \E i \in DOMAIN s : s[i] = c
         /\ \A i, j \in DOMAIN s : s[i] = s[j] => i = j
<1>1. PICK n : n = Cardinality(C)
  OBVIOUS
<1>2. n \in Nat
  BY <1>1, FS_CardinalityType
<1>3. s \in [1..n -> C] /\ \A i, j \in 1..n : i # j => s[i] # s[j]
  BY <1>1 DEF Tree!SetToSeqs, Tree!Cardinality, Cardinality
<1>4. s \in Injection(1..n, C)
  BY <1>3 DEF Injection, IsInjective
<1>5. IsFiniteSet(1..n) /\ Cardinality(1..n) = n
  BY <1>2, FS_Interval
<1>6. s \in Surjection(1..n, C)
  BY <1>1, <1>4, <1>5, FS_Injection
<1>7. \A c \in C : \E i \in 1..n : s[i] = c
  BY <1>6 DEF Surjection
<1>8. s \in Seq(C) /\ DOMAIN s = 1..n
  BY <1>2, <1>3
<1> QED BY <1>3, <1>7, <1>8

\* rows are those of the set C, with the path, and then the rest.
RowsOf(rows, C, path, rest) ==
  /\ rows \in Seq(Categories \X Seq(Slugs))
  /\ \A i \in DOMAIN rows : (rows[i][1] \in C /\ rows[i][2] = path) \/ \E j \in DOMAIN rest : rows[i] = rest[j]
  /\ \A c \in C : \E i \in DOMAIN rows : rows[i][1] = c
  /\ \A j \in DOMAIN rest : \E i \in DOMAIN rows : rows[i] = rest[j]
  /\ (\A i, j \in DOMAIN rest : rest[i][1] = rest[j][1] => i = j) /\ (\A j \in DOMAIN rest : rest[j][1] \notin C) =>
       \A i, j \in DOMAIN rows : rows[i][1] = rows[j][1] => i = j

LEMMA RowsAreListed ==
  ASSUME NEW C \in SUBSET Categories, NEW s \in Tree!SetToSeqs(C), NEW path \in Seq(Slugs),
         NEW rest \in Seq(Categories \X Seq(Slugs))
  PROVE  RowsOf([i \in DOMAIN s |-> <<s[i], path>>] \o rest, C, path, rest)
<1>1. IsFiniteSet(C)
  BY FS_Subset, RecordAssumption
<1>2. /\ s \in Seq(C) /\ \A c \in C : \E i \in DOMAIN s : s[i] = c
      /\ \A i, j \in DOMAIN s : s[i] = s[j] => i = j
  BY <1>1, SetAsSequence
<1>3. PICK f : f = [i \in DOMAIN s |-> <<s[i], path>>]
  OBVIOUS
<1>4. Len(s) \in Nat /\ DOMAIN s = 1..Len(s) /\ \A i \in DOMAIN s : s[i] \in C
  BY <1>2, LenProperties
<1>5. \A i \in 1..Len(s) : f[i] = <<s[i], path>> /\ f[i] \in Categories \X Seq(Slugs)
  BY <1>3, <1>4
<1>6. f \in Seq(Categories \X Seq(Slugs)) /\ Len(f) = Len(s) /\ DOMAIN f = DOMAIN s
  <2>1. f \in [1..Len(s) -> Categories \X Seq(Slugs)]
    BY <1>3, <1>4, <1>5
  <2> QED BY <1>4, <2>1
<1>7. PICK rows : rows = f \o rest
  OBVIOUS
<1>8. Len(rest) \in Nat /\ DOMAIN rest = 1..Len(rest)
  BY LenProperties
<1>9. /\ rows \in Seq(Categories \X Seq(Slugs)) /\ Len(rows) = Len(s) + Len(rest)
      /\ \A i \in 1..Len(s) + Len(rest) : rows[i] = IF i <= Len(s) THEN f[i] ELSE rest[i - Len(s)]
  <2>1. PICK T : T = Categories \X Seq(Slugs)
    OBVIOUS
  <2>2. f \in Seq(T) /\ rest \in Seq(T)
    BY <1>6, <2>1
  <2>3. /\ f \o rest \in Seq(T) /\ Len(f \o rest) = Len(f) + Len(rest)
        /\ \A i \in 1..Len(f) + Len(rest) : (f \o rest)[i] = IF i <= Len(f) THEN f[i] ELSE rest[i - Len(f)]
    BY <2>2, ConcatProperties
  <2> QED BY <1>6, <1>7, <2>1, <2>3
<1>10. DOMAIN rows = 1..Len(s) + Len(rest)
  BY <1>9, LenProperties
<1>11. \A i \in 1..Len(s) : rows[i] = f[i]
  BY <1>4, <1>8, <1>9
<1>12. \A i \in DOMAIN rows : i > Len(s) => i - Len(s) \in DOMAIN rest /\ rows[i] = rest[i - Len(s)]
  BY <1>4, <1>8, <1>9, <1>10
<1>13. ASSUME NEW j \in DOMAIN rest PROVE j + Len(s) \in DOMAIN rows /\ rows[j + Len(s)] = rest[j]
  <2>1. j + Len(s) \in 1..Len(s) + Len(rest) /\ ~(j + Len(s) <= Len(s)) /\ j + Len(s) - Len(s) = j
    BY <1>4, <1>8
  <2> QED BY <1>9, <1>10, <2>1
<1>14. \A i \in DOMAIN rows : i \in 1..Len(s) \/ i > Len(s)
  BY <1>4, <1>10
<1>15. \A i \in 1..Len(s) : i \in DOMAIN rows /\ rows[i][1] = s[i] /\ rows[i][2] = path
  BY <1>4, <1>5, <1>8, <1>10, <1>11
<1>16. \A i \in DOMAIN rows : (rows[i][1] \in C /\ rows[i][2] = path) \/ \E j \in DOMAIN rest : rows[i] = rest[j]
  BY <1>4, <1>12, <1>14, <1>15
<1>17. \A c \in C : \E i \in DOMAIN rows : rows[i][1] = c
  BY <1>2, <1>4, <1>15
<1>18. ASSUME \A i, j \in DOMAIN rest : rest[i][1] = rest[j][1] => i = j, \A j \in DOMAIN rest : rest[j][1] \notin C,
              NEW i \in DOMAIN rows, NEW j \in DOMAIN rows, rows[i][1] = rows[j][1]
       PROVE  i = j
  <2>1. CASE i \in 1..Len(s) /\ j \in 1..Len(s)
    BY <1>2, <1>4, <1>15, <1>18, <2>1
  <2>2. CASE i > Len(s) /\ j > Len(s)
    <3>1. i - Len(s) = j - Len(s)
      BY <1>12, <1>18, <2>2
    <3> QED BY <1>4, <1>8, <1>10, <3>1
  <2>3. CASE i \in 1..Len(s) /\ j > Len(s)
    BY <1>4, <1>12, <1>15, <1>18, <2>3
  <2>4. CASE i > Len(s) /\ j \in 1..Len(s)
    BY <1>4, <1>12, <1>15, <1>18, <2>4
  <2> QED BY <1>14, <2>1, <2>2, <2>3, <2>4
<1>19. \A j \in DOMAIN rest : \E i \in DOMAIN rows : rows[i] = rest[j]
  BY <1>13
<1>20. rows \in Seq(Categories \X Seq(Slugs))
  BY <1>9
<1>21. RowsOf(rows, C, path, rest)
  BY <1>16, <1>17, <1>18, <1>19, <1>20, Zenon DEF RowsOf
<1> QED BY <1>3, <1>7, <1>21

\* The least level of a set of categories.
LEMMA LowestOf ==
  ASSUME NEW C, C # {}, NEW level, \A c \in C : level[c] \in Nat
  PROVE  \E c \in C : \A d \in C : level[c] <= level[d]
<1>1. PICK T : T = {level[c] : c \in C}
  OBVIOUS
<1>2. T \subseteq Nat /\ T # {}
  BY <1>1
<1>3. \E n \in T : \A m \in T : ~(<<m, n>> \in OpToRel(<, Nat))
  BY <1>2, NatLessThanWellFounded, WFMin
<1>4. PICK n \in T : \A m \in T : ~(m < n)
  BY <1>2, <1>3 DEF OpToRel
<1> QED BY <1>1, <1>2, <1>4

-----------------------------------------------------------------------------
(* CategoryTree: what is so at the start, and edits that begin             *)

LEMMA TreeStarts == Tree!Init => TreeInv
<1> SUFFICES ASSUME Tree!Init PROVE TreeInv
  OBVIOUS
<1>1. /\ \A c \in Categories : tree[c] = NoCategory
      /\ tree \in [Categories -> CategoryRow \cup {NoCategory}]
      /\ DOMAIN treeEdits = Keepers /\ \A k \in Keepers : treeEdits[k].at = "none"
      /\ disturbed = FALSE
  BY DEF Tree!Init, Tree!NoEdit
<1>2. disturbed \in BOOLEAN
  BY <1>1
<1>3. TreeTyped
  BY <1>1, <1>2, Zenon DEF TreeTyped, Tree!Listed
<1>4. \A k \in Keepers : NewFits(k) /\ RenameFits(k) /\ RemoveFits(k) /\ MoveFits(k) /\ DescendFits(k) /\ ~Tree!Moves(k)
  BY <1>1 DEF NewFits, Inserts, RenameFits, RemoveFits, MoveFits, DescendFits, Tree!Moves
<1> QED BY <1>1, <1>3, <1>4 DEF TreeInv, Tree!Listed

\* A step of a request that leaves the tree as it is.
LEMMA EditGoes ==
  ASSUME TreeInv, NEW k \in Keepers, UNCHANGED tree, idsUsed \subseteq idsUsed',
         DOMAIN treeEdits' = Keepers, \A o \in Keepers \ {k} : treeEdits'[o] = treeEdits[o],
         disturbed' \in BOOLEAN, disturbed => disturbed',
         NewFits(k)', RenameFits(k)', RemoveFits(k)', MoveFits(k)', DescendFits(k)',
         Inserts(k)' => \A o \in Keepers \ {k} :
           Inserts(o) => treeEdits'[k].category # treeEdits[o].row.parent /\ treeEdits'[k].category # treeEdits[o].category,
         ~disturbed' /\ Tree!Moves(k)' => \A o \in Keepers \ {k} : ~Tree!Moves(o) /\ ~Tree!Grows(o),
         ~disturbed' /\ Tree!Grows(k)' => \A o \in Keepers \ {k} : ~Tree!Moves(o),
         ~disturbed' => Pending(k) \subseteq Pending(k)'
  PROVE  TreeInv'
<1>1. TreeTyped'
  BY DEF TreeInv, TreeTyped, Tree!Listed, Tree!ParentExists
<1>2. ASSUME NEW o \in Keepers \ {k}
      PROVE  NewFits(o)' /\ RenameFits(o)' /\ RemoveFits(o)' /\ MoveFits(o)' /\ DescendFits(o)'
  <2>1. NewFits(o) /\ RenameFits(o) /\ RemoveFits(o) /\ MoveFits(o) /\ DescendFits(o)
    BY DEF TreeInv
  <2>2. NewFits(o)'
    BY <2>1 DEF NewFits, Inserts, Follows, Tree!Listed, Tree!ParentExists
  <2>3. RenameFits(o)' /\ RemoveFits(o)'
    BY <2>1 DEF RenameFits, RemoveFits
  <2>4. MoveFits(o)'
    BY <2>1 DEF MoveFits, Follows, Tree!Listed, Tree!ParentExists
  <2>5. DescendFits(o)'
    <3>1. treeEdits'[o] = treeEdits[o] /\ tree' = tree
      OBVIOUS
    <3> QED BY <2>1, <3>1 DEF DescendFits, Tree!Listed
  <2> QED BY <2>2, <2>3, <2>4, <2>5
<1>3. ASSUME ~disturbed', NEW m \in Keepers, Tree!Moves(m)', NEW o \in Keepers \ {m} PROVE ~Tree!Moves(o)' /\ ~Tree!Grows(o)'
  BY <1>3 DEF TreeInv, Tree!Moves, Tree!Grows
<1>4. ASSUME ~disturbed', NEW c \in Categories, Tree!Listed(c)', \A m \in Keepers : c \notin Pending(m)'
      PROVE  Follows(tree[c].level, tree[c].path, tree[c].parent)'
  <2>1. \A m \in Keepers : c \notin Pending(m)
    BY <1>4 DEF Pending
  <2> QED BY <1>4, <2>1 DEF TreeInv, Follows, Tree!Listed
<1> QED BY <1>1, <1>2, <1>3, <1>4 DEF TreeInv

\* A request that is over.
LEMMA EditEnds ==
  ASSUME TreeInv, NEW k \in Keepers, UNCHANGED <<tree, idsUsed>>, treeEdits' = [treeEdits EXCEPT ![k] = Tree!NoEdit],
         disturbed' \in BOOLEAN, disturbed => disturbed', disturbed' \/ Pending(k) = {}
  PROVE  TreeInv'
<1>1. DOMAIN treeEdits = Keepers
  BY DEF TreeInv, TreeTyped
<1>2. DOMAIN treeEdits' = Keepers /\ treeEdits'[k].at = "none" /\ \A o \in Keepers \ {k} : treeEdits'[o] = treeEdits[o]
  BY <1>1 DEF Tree!NoEdit
<1>3. NewFits(k)' /\ RenameFits(k)' /\ RemoveFits(k)' /\ MoveFits(k)' /\ DescendFits(k)' /\ ~Inserts(k)'
      /\ ~Tree!Moves(k)' /\ ~Tree!Grows(k)'
  BY <1>2 DEF NewFits, Inserts, RenameFits, RemoveFits, MoveFits, DescendFits, Tree!Moves, Tree!Grows
<1> QED BY <1>2, <1>3, EditGoes

LEMMA PendingOf ==
  ASSUME NEW k, treeEdits[k].at # "descend"
  PROVE  Pending(k) = {}
BY DEF Pending

LEMMA EditFailed ==
  ASSUME TreeInv, NEW k \in Keepers, Tree!EditFails(k) \/ Tree!MoveEnds(k)
  PROVE  TreeInv'
<1>1. disturbed \in BOOLEAN
  BY DEF TreeInv, TreeTyped
<1>2. UNCHANGED <<tree, idsUsed>> /\ treeEdits' = [treeEdits EXCEPT ![k] = Tree!NoEdit]
  BY DEF Tree!EditFails, Tree!MoveEnds, Tree!Proceed
<1>3. disturbed' \in BOOLEAN /\ (disturbed => disturbed')
  <2>1. CASE Tree!EditFails(k)
    <3>1. disturbed' = (disturbed \/ (treeEdits[k].at = "descend" /\ treeEdits[k].rows # <<>>))
      BY <2>1 DEF Tree!EditFails
    <3> QED BY <3>1
  <2>2. CASE Tree!MoveEnds(k)
    BY <1>1, <2>2 DEF Tree!MoveEnds
  <2> QED BY <2>1, <2>2
<1>4. treeEdits[k].at = "descend" /\ treeEdits[k].rows # <<>> => disturbed' \/ Tree!MoveEnds(k)
  BY DEF Tree!EditFails
<1>5. treeEdits[k].at = "descend" /\ treeEdits[k].rows = <<>> => Pending(k) = {}
  BY DEF Pending
<1>6. disturbed' \/ Pending(k) = {}
  BY <1>4, <1>5, PendingOf DEF Tree!MoveEnds
<1> QED BY <1>2, <1>3, <1>6, EditEnds

LEMMA OneAlone ==
  ASSUME NEW S, NEW s \in S
  PROVE  <<s>> \in Seq(S) /\ Len(<<s>>) = 1
OBVIOUS

\* What the service computes for a category with slug s under parent p.
Derived(level, path, p, s) ==
  /\ level = IF p = NoCategory THEN 0 ELSE tree[p].level + 1
  /\ path = IF p = NoCategory THEN <<s>> ELSE Append(tree[p].path, s)

\* What a new category, or one that moves, derives from its parent.
LEMMA DerivedFromParent ==
  ASSUME TreeInv, NEW p \in Tree!Parents, NEW s \in Slugs, NEW level, NEW path, Derived(level, path, p, s)
  PROVE  /\ level \in Nat /\ path \in Seq(Slugs) /\ Len(path) = level + 1 /\ Follows(level, path, p)
         /\ p \in idsUsed \cup {NoCategory} /\ p \in Categories \cup {NoCategory} /\ Tree!ParentExists(p)
<1>1. CASE p = NoCategory
  <2>1. level = 0 /\ path = <<s>>
    BY <1>1 DEF Derived
  <2>2. path \in Seq(Slugs) /\ Len(path) = 1
    <3>1. <<s>> \in Seq(Slugs) /\ Len(<<s>>) = 1
      BY OneAlone
    <3> QED BY <2>1, <3>1, Zenon
  <2> QED BY <1>1, <2>1, <2>2 DEF Follows, Tree!ParentExists
<1>2. CASE p # NoCategory
  <2>1. p \in Categories /\ Tree!Listed(p)
    BY <1>2 DEF Tree!Parents
  <2>2. tree[p] \in CategoryRow /\ p \in idsUsed /\ Len(tree[p].path) = tree[p].level + 1
    BY <2>1 DEF TreeInv, TreeTyped, Tree!Listed
  <2>3. tree[p].level \in Nat /\ tree[p].path \in Seq(Slugs)
    BY <2>2 DEF CategoryRow
  <2>4. path = Append(tree[p].path, s) /\ level = tree[p].level + 1
    BY <1>2 DEF Derived
  <2>5. path \in Seq(Slugs) /\ Len(path) = Len(tree[p].path) + 1 /\ Tree!Front(path) = tree[p].path
    <3>1. path \in Seq(Slugs) /\ Len(path) = Len(tree[p].path) + 1
      BY <2>3, <2>4, AppendProperties
    <3>2. Tree!Front(path) = tree[p].path
      BY <2>3, <2>4, FrontOfAppend
    <3> QED BY <3>1, <3>2
  <2> QED BY <1>2, <2>1, <2>2, <2>3, <2>4, <2>5 DEF Follows, Tree!ParentExists
<1> QED BY <1>1, <1>2

\* Whether others move or change categories while k starts.
LEMMA CrossedTells ==
  ASSUME TreeInv, NEW k \in Keepers, NEW moving \in BOOLEAN, disturbed' = Tree!Crossed(k, moving)
  PROVE  /\ disturbed' \in BOOLEAN /\ (disturbed => disturbed')
         /\ ~disturbed' => \A o \in Keepers \ {k} : ~Tree!Moves(o) /\ (moving => ~Tree!Grows(o))
<1>1. disturbed \in BOOLEAN
  BY DEF TreeInv, TreeTyped
<1> QED BY <1>1 DEF Tree!Crossed

LEMMA NewAsked ==
  ASSUME TreeInv, NEW k \in Keepers, NEW c \in Categories, NEW p \in Categories \cup {NoCategory}, Tree!AskNew(k, c, p)
  PROVE  TreeInv'
<1>1. PICK s \in Slugs :
        Tree!Begins(k, [at |-> "insert", category |-> c,
                        row |-> [slug |-> s, parent |-> p, active |-> TRUE,
                                 level |-> IF p = NoCategory THEN 0 ELSE tree[p].level + 1,
                                 path |-> IF p = NoCategory THEN <<s>> ELSE Append(tree[p].path, s)]])
  BY DEF Tree!AskNew
<1>2. /\ Tree!Idle(k) /\ c \notin idsUsed /\ idsUsed' = idsUsed \cup {c} /\ p \in Tree!Parents
      /\ disturbed' = Tree!Crossed(k, FALSE) /\ UNCHANGED tree
  BY DEF Tree!AskNew
<1>3. PICK level, path : level = (IF p = NoCategory THEN 0 ELSE tree[p].level + 1)
                         /\ path = IF p = NoCategory THEN <<s>> ELSE Append(tree[p].path, s)
  OBVIOUS
<1>4. PICK row : row = [slug |-> s, parent |-> p, active |-> TRUE, level |-> level, path |-> path]
  OBVIOUS
<1>5. PICK e : e = [at |-> "insert", category |-> c, row |-> row]
  OBVIOUS
<1>6. e.at = "insert" /\ e.category = c /\ e.row = row
  BY <1>5
<1>7. /\ level \in Nat /\ path \in Seq(Slugs) /\ Len(path) = level + 1 /\ Follows(level, path, p)
      /\ p \in idsUsed \cup {NoCategory} /\ Tree!ParentExists(p)
  <2>1. Derived(level, path, p, s)
    BY <1>3 DEF Derived
  <2> QED BY <1>2, <2>1, DerivedFromParent
<1>8. row \in CategoryRow /\ row.parent = p /\ row.level = level /\ row.path = path
  BY <1>4, <1>7 DEF CategoryRow
<1>9. treeEdits' = [treeEdits EXCEPT ![k] = e]
  BY <1>1, <1>3, <1>4, <1>5 DEF Tree!Begins
<1>10. DOMAIN treeEdits = Keepers /\ treeEdits[k].at = "none"
  BY <1>2 DEF TreeInv, TreeTyped, Tree!Idle, Tree!NoEdit
<1>11. DOMAIN treeEdits' = Keepers /\ treeEdits'[k] = e /\ \A o \in Keepers \ {k} : treeEdits'[o] = treeEdits[o]
  BY <1>9, <1>10
<1>12. /\ disturbed' \in BOOLEAN /\ (disturbed => disturbed')
       /\ ~disturbed' => \A o \in Keepers \ {k} : ~Tree!Moves(o)
  BY <1>2, CrossedTells
<1>13. \A o \in Keepers \ {k} : Inserts(o) => c # treeEdits[o].row.parent /\ c # treeEdits[o].category /\ treeEdits[o].category # p
  <2>1. ASSUME NEW o \in Keepers \ {k}, Inserts(o)
        PROVE  c # treeEdits[o].row.parent /\ c # treeEdits[o].category /\ treeEdits[o].category # p
    <3>1. /\ treeEdits[o].category \in idsUsed /\ treeEdits[o].category \in Categories
          /\ ~Tree!Listed(treeEdits[o].category) /\ treeEdits[o].row.parent \in idsUsed \cup {NoCategory}
      BY <2>1 DEF TreeInv, NewFits
    <3>2. treeEdits[o].category # p
      BY <1>7, <3>1, RecordAssumption DEF Tree!ParentExists
    <3> QED BY <1>2, <3>1, <3>2, RecordAssumption
  <2> QED BY <2>1
<1>14. ~Tree!Listed(c)
  BY <1>2 DEF TreeInv, TreeTyped
<1>15. NewFits(k)'
  <2>1. \A o \in Keepers : Inserts(o)' => treeEdits'[o].category # p /\ (treeEdits'[o].category = c => o = k)
    <3>1. c # p
      BY <1>2, <1>7, RecordAssumption
    <3> QED BY <1>6, <1>11, <1>13, <3>1 DEF Inserts
  <2>2. Follows(level, path, p)'
    <3>1. level' = level /\ path' = path
      OBVIOUS
    <3> QED BY <1>2, <1>7 DEF Follows
  <2>3. ~Tree!Listed(c)'
    BY <1>2, <1>14 DEF Tree!Listed
  <2> QED BY <1>2, <1>6, <1>7, <1>8, <1>11, <2>1, <2>2, <2>3 DEF NewFits
<1>16. RenameFits(k)' /\ RemoveFits(k)' /\ MoveFits(k)' /\ DescendFits(k)' /\ ~Tree!Moves(k)'
  BY <1>6, <1>11 DEF RenameFits, RemoveFits, MoveFits, DescendFits, Tree!Moves
<1>17. Pending(k) = {}
  BY <1>10, PendingOf
<1>18. idsUsed \subseteq idsUsed' /\ treeEdits'[k].category = c
  BY <1>2, <1>6, <1>11
<1> QED BY <1>2, <1>11, <1>12, <1>13, <1>15, <1>16, <1>17, <1>18, EditGoes

LEMMA RenameOrRemoveAsked ==
  ASSUME TreeInv, NEW k \in Keepers, NEW c \in Categories,
         Tree!AskRename(k, c) \/ \E hard \in BOOLEAN : Tree!AskRemove(k, c, hard)
  PROVE  TreeInv'
<1>1. treeEdits[k].at = "none" /\ UNCHANGED <<tree, idsUsed>>
  <2>1. treeEdits[k] = Tree!NoEdit /\ UNCHANGED <<tree, idsUsed>>
    BY DEF Tree!AskRename, Tree!AskRemove, Tree!Idle
  <2> QED BY <2>1 DEF Tree!NoEdit
<1>2. DOMAIN treeEdits = Keepers /\ disturbed \in BOOLEAN /\ tree \in [Categories -> CategoryRow \cup {NoCategory}]
  BY DEF TreeInv, TreeTyped
<1>3. Pending(k) = {}
  BY <1>1, PendingOf
<1>4. CASE Tree!AskRename(k, c)
  <2>1. PICK s \in Slugs, p \in {tree[c].parent} \cup {o \in Categories : Tree!Listed(o)} :
          Tree!Begins(k, [at |-> "rename", category |-> c, slug |-> s, reparent |-> p # tree[c].parent, parent |-> p])
    BY <1>4 DEF Tree!AskRename
  <2>2. PICK b : b = (p # tree[c].parent)
    OBVIOUS
  <2>3. PICK e : e = [at |-> "rename", category |-> c, slug |-> s, reparent |-> b, parent |-> p]
    OBVIOUS
  <2>4. e.at = "rename" /\ e.category = c /\ e.slug = s /\ e.reparent = b /\ e.parent = p /\ b \in BOOLEAN
    BY <2>2, <2>3
  <2>5. tree[c].parent \in Categories \cup {NoCategory}
    BY <1>2, <1>4 DEF Tree!AskRename, Tree!Listed, CategoryRow
  <2>6. treeEdits' = [treeEdits EXCEPT ![k] = e] /\ disturbed' = disturbed
    BY <1>4, <2>1, <2>2, <2>3 DEF Tree!Begins, Tree!AskRename
  <2>7. DOMAIN treeEdits' = Keepers /\ treeEdits'[k] = e /\ \A o \in Keepers \ {k} : treeEdits'[o] = treeEdits[o]
    BY <1>2, <2>6
  <2>8. RenameFits(k)'
    BY <2>4, <2>5, <2>7 DEF RenameFits
  <2>9. /\ NewFits(k)' /\ RemoveFits(k)' /\ MoveFits(k)' /\ DescendFits(k)' /\ ~Tree!Moves(k)'
        /\ ~Tree!Grows(k)' /\ ~Inserts(k)'
    BY <2>4, <2>7 DEF NewFits, Inserts, RemoveFits, MoveFits, DescendFits, Tree!Moves, Tree!Grows
  <2> QED BY <1>1, <1>2, <1>3, <2>6, <2>7, <2>8, <2>9, EditGoes
<1>5. CASE \E hard \in BOOLEAN : Tree!AskRemove(k, c, hard)
  <2>1. PICK hard \in BOOLEAN : Tree!Begins(k, [at |-> "remove", category |-> c, hard |-> hard])
    BY <1>5 DEF Tree!AskRemove
  <2>2. PICK e : e = [at |-> "remove", category |-> c, hard |-> hard]
    OBVIOUS
  <2>3. e.at = "remove" /\ e.category = c
    BY <2>2
  <2>4. treeEdits' = [treeEdits EXCEPT ![k] = e] /\ disturbed' = Tree!Crossed(k, FALSE)
    BY <1>5, <2>1, <2>2 DEF Tree!Begins, Tree!AskRemove
  <2>5. DOMAIN treeEdits' = Keepers /\ treeEdits'[k] = e /\ \A o \in Keepers \ {k} : treeEdits'[o] = treeEdits[o]
    BY <1>2, <2>4
  <2>6. /\ disturbed' \in BOOLEAN /\ (disturbed => disturbed')
        /\ ~disturbed' => \A o \in Keepers \ {k} : ~Tree!Moves(o)
    BY <2>4, CrossedTells
  <2>7. RemoveFits(k)'
    BY <2>3, <2>5 DEF RemoveFits
  <2>8. /\ NewFits(k)' /\ RenameFits(k)' /\ MoveFits(k)' /\ DescendFits(k)' /\ ~Tree!Moves(k)' /\ ~Inserts(k)'
    BY <2>3, <2>5 DEF NewFits, Inserts, RenameFits, MoveFits, DescendFits, Tree!Moves
  <2> QED BY <1>1, <1>3, <2>5, <2>6, <2>7, <2>8, EditGoes
<1> QED BY <1>4, <1>5

LEMMA MoveAsked ==
  ASSUME TreeInv, NEW k \in Keepers, NEW c \in Categories, NEW p \in Categories \cup {NoCategory}, Tree!AskMove(k, c, p)
  PROVE  TreeInv'
<1>1. /\ treeEdits[k].at = "none" /\ Tree!Listed(c) /\ p \in Tree!Parents /\ UNCHANGED <<tree, idsUsed>>
      /\ ~(p # NoCategory /\ Tree!IsStrictPrefix(tree[c].path, tree[p].path))
      /\ disturbed' = (Tree!Crossed(k, TRUE) \/ c = p)
  BY DEF Tree!AskMove, Tree!Idle, Tree!NoEdit
<1>2. DOMAIN treeEdits = Keepers /\ disturbed \in BOOLEAN /\ tree[c] \in CategoryRow
  BY <1>1 DEF TreeInv, TreeTyped, Tree!Listed
<1>3. PICK s, level, path : s = tree[c].slug
        /\ level = (IF p = NoCategory THEN 0 ELSE tree[p].level + 1)
        /\ path = IF p = NoCategory THEN <<s>> ELSE Append(tree[p].path, s)
  OBVIOUS
<1>4. PICK e : e = [at |-> "move", category |-> c, parent |-> p, level |-> level, path |-> path]
  OBVIOUS
<1>5. e.at = "move" /\ e.category = c /\ e.parent = p /\ e.level = level /\ e.path = path
  BY <1>4
<1>6. treeEdits' = [treeEdits EXCEPT ![k] = e]
  BY <1>3, <1>4 DEF Tree!AskMove, Tree!Begins
<1>7. DOMAIN treeEdits' = Keepers /\ treeEdits'[k] = e /\ \A o \in Keepers \ {k} : treeEdits'[o] = treeEdits[o]
  BY <1>2, <1>6
<1>8. s \in Slugs
  BY <1>2, <1>3 DEF CategoryRow
<1>9. /\ level \in Nat /\ path \in Seq(Slugs) /\ Len(path) = level + 1 /\ Follows(level, path, p)
  <2>1. Derived(level, path, p, s)
    BY <1>3 DEF Derived
  <2> QED BY <1>1, <1>8, <2>1, DerivedFromParent
<1>10. /\ disturbed' \in BOOLEAN /\ (disturbed => disturbed')
       /\ ~disturbed' => c # p /\ \A o \in Keepers \ {k} : ~Tree!Moves(o) /\ ~Tree!Grows(o)
  BY <1>1, <1>2 DEF Tree!Crossed
<1>11. MoveFits(k)'
  <2>1. Follows(e.level, e.path, e.parent)'
    BY <1>1, <1>5, <1>9 DEF Follows
  <2> QED BY <1>1, <1>5, <1>7, <1>9, <1>10, <2>1 DEF MoveFits
<1>12. /\ NewFits(k)' /\ RenameFits(k)' /\ RemoveFits(k)' /\ DescendFits(k)' /\ ~Tree!Grows(k)' /\ ~Inserts(k)'
  BY <1>5, <1>7 DEF NewFits, Inserts, RenameFits, RemoveFits, DescendFits, Tree!Grows
<1>13. Pending(k) = {}
  BY <1>1, PendingOf
<1> QED BY <1>1, <1>7, <1>10, <1>11, <1>12, <1>13, EditGoes

-----------------------------------------------------------------------------
(* CategoryTree: edits that end                                            *)

\* A request is over that left the places of the rows that stay, a rename all rows.
LEMMA TreePlacesStay ==
  ASSUME TreeInv, NEW k \in Keepers, treeEdits[k].at \in {"rename", "remove"}, UNCHANGED idsUsed,
         treeEdits' = [treeEdits EXCEPT ![k] = Tree!NoEdit],
         tree' \in [Categories -> CategoryRow \cup {NoCategory}], disturbed' \in BOOLEAN, disturbed => disturbed',
         \A c \in Categories : Tree!Listed(c)' => Tree!Listed(c) /\ Tree!ParentExists(tree[c].parent)',
         \A c \in Categories : Tree!Listed(c)' => tree'[c].level = tree[c].level /\ tree'[c].path = tree[c].path,
         ~disturbed' => \A c \in Categories : Tree!Listed(c)' => tree'[c].parent = tree[c].parent,
         treeEdits[k].at = "rename" => \A c \in Categories : Tree!Listed(c) => Tree!Listed(c)'
  PROVE  TreeInv'
<1>1. DOMAIN treeEdits = Keepers
  BY DEF TreeInv, TreeTyped
<1>2. DOMAIN treeEdits' = Keepers /\ treeEdits'[k].at = "none" /\ \A o \in Keepers \ {k} : treeEdits'[o] = treeEdits[o]
  BY <1>1 DEF Tree!NoEdit
<1>3. TreeTyped'
  BY <1>2 DEF TreeInv, TreeTyped
<1>4. NewFits(k)' /\ RenameFits(k)' /\ RemoveFits(k)' /\ MoveFits(k)' /\ DescendFits(k)' /\ ~Inserts(k)'
      /\ ~Tree!Moves(k)' /\ ~Tree!Grows(k)' /\ Pending(k) = {}
  BY <1>2 DEF NewFits, Inserts, RenameFits, RemoveFits, MoveFits, DescendFits, Tree!Moves, Tree!Grows, Pending
<1>5. \A p \in Categories \cup {NoCategory} : Tree!ParentExists(p)' => Tree!ParentExists(p)
  BY DEF Tree!ParentExists
<1>6. ASSUME NEW level, NEW path, NEW p \in Categories \cup {NoCategory}, Tree!ParentExists(p)', Follows(level, path, p)
      PROVE  Follows(level, path, p)'
  BY <1>6 DEF Follows, Tree!ParentExists
<1>7. ASSUME NEW o \in Keepers \ {k}
      PROVE  NewFits(o)' /\ RenameFits(o)' /\ RemoveFits(o)' /\ MoveFits(o)' /\ DescendFits(o)'
  <2>1. NewFits(o) /\ RenameFits(o) /\ RemoveFits(o) /\ MoveFits(o) /\ DescendFits(o) /\ treeEdits'[o] = treeEdits[o]
    BY <1>2 DEF TreeInv
  <2>2. NewFits(o)'
    <3>1. SUFFICES ASSUME Inserts(o) PROVE NewFits(o)'
      BY <2>1 DEF NewFits, Inserts
    <3>2. /\ treeEdits[o].category \in Categories \cap idsUsed /\ ~Tree!Listed(treeEdits[o].category)
          /\ treeEdits[o].row \in CategoryRow /\ Len(treeEdits[o].row.path) = treeEdits[o].row.level + 1
          /\ treeEdits[o].row.parent \in idsUsed \cup {NoCategory}
          /\ ~disturbed /\ Tree!ParentExists(treeEdits[o].row.parent) =>
               Follows(treeEdits[o].row.level, treeEdits[o].row.path, treeEdits[o].row.parent)
          /\ \A q \in Keepers :
               Inserts(q) => /\ treeEdits[q].category # treeEdits[o].row.parent
                             /\ treeEdits[q].category = treeEdits[o].category => q = o
      BY <2>1, <3>1 DEF NewFits
    <3>3. \A q \in Keepers : Inserts(q)' => Inserts(q) /\ treeEdits'[q] = treeEdits[q]
      BY <1>2, <1>4 DEF Inserts
    <3>4. treeEdits[o].row.parent \in Categories \cup {NoCategory}
      BY <3>2 DEF CategoryRow
    <3>5. ~disturbed' /\ Tree!ParentExists(treeEdits[o].row.parent)' =>
            Follows(treeEdits[o].row.level, treeEdits[o].row.path, treeEdits[o].row.parent)'
      <4>1. PICK l, h, p : l = treeEdits[o].row.level /\ h = treeEdits[o].row.path /\ p = treeEdits[o].row.parent
        OBVIOUS
      <4>2. ~disturbed' /\ Tree!ParentExists(p)' => Follows(l, h, p)'
        BY <1>5, <1>6, <3>2, <3>4, <4>1
      <4> QED BY <2>1, <4>1, <4>2
    <3> QED BY <2>1, <3>2, <3>3, <3>5 DEF NewFits
  <2>3. RenameFits(o)' /\ RemoveFits(o)'
    BY <2>1 DEF RenameFits, RemoveFits
  <2>4. MoveFits(o)'
    <3>1. SUFFICES ASSUME treeEdits[o].at = "move" PROVE MoveFits(o)'
      BY <2>1 DEF MoveFits
    <3>2. /\ treeEdits[o].category \in Categories /\ treeEdits[o].parent \in Categories \cup {NoCategory}
          /\ treeEdits[o].level \in Nat /\ treeEdits[o].path \in Seq(Slugs)
          /\ Len(treeEdits[o].path) = treeEdits[o].level + 1
          /\ ~disturbed =>
               /\ treeEdits[o].category # treeEdits[o].parent
               /\ Tree!ParentExists(treeEdits[o].parent) =>
                    Follows(treeEdits[o].level, treeEdits[o].path, treeEdits[o].parent)
               /\ Tree!Listed(treeEdits[o].category) /\ treeEdits[o].parent # NoCategory /\ Tree!Listed(treeEdits[o].parent) =>
                    ~Tree!IsStrictPrefix(tree[treeEdits[o].category].path, tree[treeEdits[o].parent].path)
      BY <2>1, <3>1 DEF MoveFits
    <3>3. ~disturbed' /\ Tree!ParentExists(treeEdits[o].parent)' =>
            Follows(treeEdits[o].level, treeEdits[o].path, treeEdits[o].parent)'
      <4>1. PICK l, h, p : l = treeEdits[o].level /\ h = treeEdits[o].path /\ p = treeEdits[o].parent
        OBVIOUS
      <4>2. ~disturbed' /\ Tree!ParentExists(p)' => Follows(l, h, p)'
        BY <1>5, <1>6, <3>2, <4>1
      <4> QED BY <2>1, <4>1, <4>2
    <3> QED BY <2>1, <3>2, <3>3 DEF MoveFits
  <2>5. DescendFits(o)'
    <3>1. SUFFICES ASSUME treeEdits[o].at = "descend" PROVE DescendFits(o)'
      BY <2>1 DEF DescendFits
    <3>2. ~disturbed' => treeEdits[k].at = "rename"
      BY <3>1 DEF TreeInv, Tree!Moves, Tree!Grows
    <3>3. ~disturbed' => \A c \in Categories : (Tree!Listed(c)' <=> Tree!Listed(c))
                           /\ (Tree!Listed(c) => tree'[c].parent = tree[c].parent /\ tree'[c].path = tree[c].path)
      BY <3>2
    <3>4. PICK rows, t : rows = treeEdits[o].rows /\ t = tree'
      OBVIOUS
    <3>5. rows \in Seq(Categories \X Seq(Slugs)) /\ \A i \in DOMAIN rows : Len(rows[i][2]) >= 1
      BY <2>1, <3>1, <3>4 DEF DescendFits
    <3>6. ASSUME ~disturbed' PROVE Awaiting(rows, t)
      <4>1. Awaiting(rows, tree)
        BY <2>1, <3>1, <3>4, <3>6 DEF DescendFits
      <4>2. \A c \in Categories : (t[c] # NoCategory <=> tree[c] # NoCategory)
                           /\ (tree[c] # NoCategory => t[c].parent = tree[c].parent /\ t[c].path = tree[c].path)
        BY <3>3, <3>4, <3>6 DEF Tree!Listed
      <4>3. \A i \in DOMAIN rows : rows[i][1] \in Categories
        <5>1. ASSUME NEW i \in DOMAIN rows PROVE rows[i] \in Categories \X Seq(Slugs)
          BY <3>5, InSequence
        <5> QED BY <5>1
      <4>4. \A c \in Categories : tree[c] # NoCategory /\ tree[c].parent # NoCategory =>
                                    tree[c].parent \in Categories /\ tree[tree[c].parent] # NoCategory
        BY DEF TreeInv, TreeTyped, Tree!Listed, Tree!ParentExists, CategoryRow
      <4>5. ASSUME NEW i \in DOMAIN rows
            PROVE  LET c == rows[i][1]
                   IN  t[c] # NoCategory /\ t[c].parent # NoCategory /\ t[t[c].parent].path = rows[i][2]
                       /\ t[c].parent = tree[c].parent
        <5>1. PICK c : c = rows[i][1]
          OBVIOUS
        <5>2. c \in Categories /\ tree[c] # NoCategory /\ tree[c].parent # NoCategory
              /\ tree[tree[c].parent].path = rows[i][2]
          BY <4>1, <4>3, <5>1 DEF Awaiting
        <5> QED BY <4>2, <4>4, <5>1, <5>2
      <4>6. PICK A \in SUBSET Categories :
              /\ \A i \in DOMAIN rows : rows[i][1] \notin A /\ tree[rows[i][1]].parent \in A
              /\ \A c \in A : tree[c] # NoCategory => tree[c].parent \in A \cup {NoCategory}
        BY <4>1 DEF Awaiting
      <4>7. \A c \in A : t[c] # NoCategory => t[c].parent \in A \cup {NoCategory}
        BY <4>2, <4>6
      <4>8. \A i \in DOMAIN rows : rows[i][1] \notin A /\ t[rows[i][1]].parent \in A
        BY <4>5, <4>6
      <4>9. \A i, j \in DOMAIN rows : rows[i][1] = rows[j][1] => i = j
        BY <4>1 DEF Awaiting
      <4> QED BY <4>5, <4>7, <4>8, <4>9 DEF Awaiting
    <3> QED BY <2>1, <3>4, <3>5, <3>6 DEF DescendFits
  <2> QED BY <2>2, <2>3, <2>4, <2>5
<1>8. ASSUME ~disturbed', NEW m \in Keepers, Tree!Moves(m)', NEW o \in Keepers \ {m} PROVE ~Tree!Moves(o)' /\ ~Tree!Grows(o)'
  BY <1>2, <1>4, <1>8 DEF TreeInv, Tree!Moves, Tree!Grows
<1>9. ASSUME ~disturbed', NEW c \in Categories, Tree!Listed(c)', \A m \in Keepers : c \notin Pending(m)'
      PROVE  Follows(tree[c].level, tree[c].path, tree[c].parent)'
  <2>1. \A m \in Keepers : c \notin Pending(m)
    BY <1>2, <1>4, <1>9 DEF Pending
  <2>2. Follows(tree[c].level, tree[c].path, tree[c].parent)
    BY <1>9, <2>1 DEF TreeInv
  <2>3. tree[c].parent \in Categories \cup {NoCategory} /\ tree'[c].parent = tree[c].parent
        /\ tree'[c].level = tree[c].level /\ tree'[c].path = tree[c].path
    <3>1. tree[c] \in CategoryRow
      BY <1>9 DEF TreeInv, TreeTyped, Tree!Listed
    <3> QED BY <1>9, <3>1 DEF CategoryRow
  <2>4. PICK l, h, p : l = tree[c].level /\ h = tree[c].path /\ p = tree[c].parent
    OBVIOUS
  <2>5. Tree!ParentExists(tree[c].parent)'
    BY <1>9
  <2>6. Tree!ParentExists(p)'
    BY <2>3, <2>4, <2>5
  <2>7. Follows(l, h, p)'
    BY <1>6, <2>2, <2>3, <2>4, <2>6
  <2> QED BY <2>3, <2>4, <2>7
<1> QED BY <1>3, <1>4, <1>7, <1>8, <1>9 DEF TreeInv

-----------------------------------------------------------------------------
(* CategoryTree: the checks of a move                                      *)

LEMMA ListedRow ==
  ASSUME TreeInv, NEW c \in Categories, Tree!Listed(c)
  PROVE  /\ tree[c] \in CategoryRow /\ c \in idsUsed /\ Tree!ParentExists(tree[c].parent)
         /\ tree[c].slug \in Slugs /\ tree[c].parent \in Categories \cup {NoCategory} /\ tree[c].active \in BOOLEAN
         /\ tree[c].level \in Nat /\ tree[c].path \in Seq(Slugs)
         /\ Len(tree[c].path) = tree[c].level + 1 /\ Len(tree[c].path) <= MaxPath
<1>1. tree[c] \in CategoryRow /\ c \in idsUsed /\ Tree!ParentExists(tree[c].parent)
      /\ Len(tree[c].path) = tree[c].level + 1 /\ Len(tree[c].path) <= MaxPath
  BY DEF TreeInv, TreeTyped, Tree!Listed
<1> QED BY <1>1 DEF CategoryRow

LEMMA RenameDone ==
  ASSUME TreeInv, NEW k \in Keepers, Tree!Rename(k)
  PROVE  TreeInv'
<1>1. PICK c, s, p, b : c = treeEdits[k].category /\ s = treeEdits[k].slug /\ p = treeEdits[k].parent /\ b = treeEdits[k].reparent
  OBVIOUS
<1>2. PICK ok \in BOOLEAN : ok = (Tree!Listed(c) /\ ~Tree!SlugTaken(s, c) /\ (b => Tree!ParentExists(p)))
  OBVIOUS
<1>3. PICK row : row = [tree[c] EXCEPT !.slug = s, !.parent = IF b THEN p ELSE tree[c].parent]
  OBVIOUS
<1>4. /\ treeEdits[k].at = "rename" /\ treeEdits' = [treeEdits EXCEPT ![k] = Tree!NoEdit] /\ UNCHANGED idsUsed
      /\ tree' = IF ~ok THEN tree ELSE [tree EXCEPT ![c] = row]
  BY <1>1, <1>2, <1>3 DEF Tree!Rename, Tree!Proceed
<1>5. disturbed' = (disturbed \/ (ok /\ b))
  BY <1>1, <1>2 DEF Tree!Rename
<1>6. RenameFits(k) /\ TreeTyped
  BY DEF TreeInv
<1>7. c \in Categories /\ s \in Slugs /\ p \in Categories \cup {NoCategory} /\ b \in BOOLEAN
  BY <1>1, <1>4, <1>6 DEF RenameFits
<1>8. disturbed' \in BOOLEAN /\ (disturbed => disturbed')
  BY <1>5
<1>9. CASE ~ok
  <2>1. Pending(k) = {}
    BY <1>4, PendingOf
  <2> QED BY <1>4, <1>8, <1>9, <2>1, EditEnds
<1>10. CASE ok
  <2>1. Tree!Listed(c) /\ (b => Tree!ParentExists(p))
    BY <1>2, <1>10
  <2>2. PICK up : up = IF b THEN p ELSE tree[c].parent
    OBVIOUS
  <2>3. up \in Categories \cup {NoCategory} /\ Tree!ParentExists(up)
    BY <1>7, <2>1, <2>2, ListedRow
  <2>4. row = [tree[c] EXCEPT !.slug = s, !.parent = up] /\ tree[c] \in CategoryRow
    BY <1>3, <1>7, <2>1, <2>2, ListedRow
  <2>5. row \in CategoryRow /\ row.parent = up /\ row.level = tree[c].level /\ row.path = tree[c].path
    BY <1>7, <2>3, <2>4 DEF CategoryRow
  <2>6. row # NoCategory
    BY <2>5, RecordAssumption
  <2>7. tree' = [tree EXCEPT ![c] = row] /\ tree \in [Categories -> CategoryRow \cup {NoCategory}]
    BY <1>4, <1>6, <1>10 DEF TreeTyped
  <2>8. /\ tree' \in [Categories -> CategoryRow \cup {NoCategory}]
        /\ tree'[c] = row /\ \A o \in Categories \ {c} : tree'[o] = tree[o]
    BY <1>7, <2>5, <2>7
  <2>9. \A o \in Categories : Tree!Listed(o)' <=> Tree!Listed(o)
    BY <1>7, <2>1, <2>6, <2>8 DEF Tree!Listed
  <2>10. \A o \in Categories : Tree!Listed(o)' => Tree!ParentExists(tree[o].parent)'
    <3>1. ASSUME NEW o \in Categories, Tree!Listed(o)' PROVE Tree!ParentExists(tree[o].parent)'
      <4>1. PICK q : q = tree'[o].parent
        OBVIOUS
      <4>2. q \in Categories \cup {NoCategory} /\ Tree!ParentExists(q)
        BY <2>3, <2>5, <2>8, <2>9, <3>1, <4>1, ListedRow
      <4>3. Tree!ParentExists(q)'
        BY <2>9, <4>2 DEF Tree!ParentExists
      <4> QED BY <4>1, <4>3
    <3> QED BY <3>1
  <2>11. \A o \in Categories : tree'[o].level = tree[o].level /\ tree'[o].path = tree[o].path
    BY <2>5, <2>8
  <2>12. ~disturbed' => \A o \in Categories : tree'[o].parent = tree[o].parent
    BY <1>5, <1>10, <2>2, <2>5, <2>8
  <2> QED BY <1>4, <1>8, <2>8, <2>9, <2>10, <2>11, <2>12, TreePlacesStay
<1> QED BY <1>9, <1>10

\* What is below a category has with a category its children.
LEMMA BelowHasChildren ==
  ASSUME NEW c, NEW o \in Categories, Tree!Listed(o), tree[o].parent \in Tree!Below(c)
  PROVE  o \in Tree!Below(c)
BY DEF Tree!Below, Tree!HasChildren

LEMMA RemoveDone ==
  ASSUME TreeInv, NEW k \in Keepers, Tree!RemoveCategory(k)
  PROVE  TreeInv'
<1>1. PICK c, hard : c = treeEdits[k].category /\ hard = treeEdits[k].hard
  OBVIOUS
<1>2. /\ treeEdits[k].at = "remove" /\ treeEdits' = [treeEdits EXCEPT ![k] = Tree!NoEdit] /\ UNCHANGED <<idsUsed, disturbed>>
      /\ tree' = IF ~Tree!Listed(c) THEN tree
                 ELSE IF hard THEN [o \in Categories |-> IF o \in Tree!Below(c) THEN NoCategory ELSE tree[o]]
                 ELSE [tree EXCEPT ![c].active = FALSE]
  BY <1>1 DEF Tree!RemoveCategory, Tree!Proceed
<1>3. RemoveFits(k) /\ TreeTyped
  BY DEF TreeInv
<1>4. c \in Categories /\ tree \in [Categories -> CategoryRow \cup {NoCategory}] /\ disturbed' \in BOOLEAN
  BY <1>1, <1>2, <1>3 DEF RemoveFits, TreeTyped
<1>5. CASE ~Tree!Listed(c)
  <2>1. Pending(k) = {}
    BY <1>2, PendingOf
  <2> QED BY <1>2, <1>4, <1>5, <2>1, EditEnds
<1>6. CASE Tree!Listed(c) /\ hard
  <2>1. tree' = [o \in Categories |-> IF o \in Tree!Below(c) THEN NoCategory ELSE tree[o]]
    BY <1>2, <1>6
  <2>2. \A o \in Categories : tree'[o] = IF o \in Tree!Below(c) THEN NoCategory ELSE tree[o]
    BY <2>1
  <2>3. tree' \in [Categories -> CategoryRow \cup {NoCategory}]
    BY <1>4, <2>1
  <2>4. \A o \in Categories : Tree!Listed(o)' <=> Tree!Listed(o) /\ o \notin Tree!Below(c)
    BY <2>2 DEF Tree!Listed
  <2>5. \A o \in Categories : Tree!Listed(o)' => Tree!ParentExists(tree[o].parent)'
    <3>1. ASSUME NEW o \in Categories, Tree!Listed(o)' PROVE Tree!ParentExists(tree[o].parent)'
      <4>1. PICK q : q = tree'[o].parent
        OBVIOUS
      <4>2. Tree!Listed(o) /\ tree'[o] = tree[o] /\ o \notin Tree!Below(c)
        BY <2>2, <2>4, <3>1
      <4>3. q \in Categories \cup {NoCategory} /\ Tree!ParentExists(q) /\ q \notin Tree!Below(c)
        BY <4>1, <4>2, ListedRow, BelowHasChildren
      <4>4. Tree!ParentExists(q)'
        BY <2>4, <4>3 DEF Tree!ParentExists
      <4> QED BY <4>1, <4>4
    <3> QED BY <3>1
  <2>6. \A o \in Categories : Tree!Listed(o)' => tree'[o] = tree[o]
    BY <2>2 DEF Tree!Listed
  <2> QED BY <1>2, <1>4, <2>3, <2>4, <2>5, <2>6, TreePlacesStay
<1>7. CASE Tree!Listed(c) /\ ~hard
  <2>1. PICK row : row = [tree[c] EXCEPT !.active = FALSE]
    OBVIOUS
  <2>2. tree[c] \in CategoryRow
    BY <1>4, <1>7, ListedRow
  <2>3. row \in CategoryRow /\ row.parent = tree[c].parent /\ row.level = tree[c].level /\ row.path = tree[c].path
    BY <2>1, <2>2 DEF CategoryRow
  <2>4. row # NoCategory
    BY <2>3, RecordAssumption
  <2>5. tree' = [tree EXCEPT ![c] = row]
    BY <1>2, <1>7, <2>1
  <2>6. /\ tree' \in [Categories -> CategoryRow \cup {NoCategory}]
        /\ tree'[c] = row /\ \A o \in Categories \ {c} : tree'[o] = tree[o]
    BY <1>4, <2>3, <2>5
  <2>7. \A o \in Categories : Tree!Listed(o)' <=> Tree!Listed(o)
    BY <1>4, <1>7, <2>4, <2>6 DEF Tree!Listed
  <2>8. \A o \in Categories : tree'[o].parent = tree[o].parent /\ tree'[o].level = tree[o].level /\ tree'[o].path = tree[o].path
    BY <2>3, <2>6
  <2>9. \A o \in Categories : Tree!Listed(o)' => Tree!ParentExists(tree[o].parent)'
    <3>1. ASSUME NEW o \in Categories, Tree!Listed(o)' PROVE Tree!ParentExists(tree[o].parent)'
      <4>1. PICK q : q = tree'[o].parent
        OBVIOUS
      <4>2. q \in Categories \cup {NoCategory} /\ Tree!ParentExists(q)
        BY <2>7, <2>8, <3>1, <4>1, ListedRow
      <4>3. Tree!ParentExists(q)'
        BY <2>7, <4>2 DEF Tree!ParentExists
      <4> QED BY <4>1, <4>3
    <3> QED BY <3>1
  <2> QED BY <1>2, <1>4, <2>6, <2>7, <2>8, <2>9, TreePlacesStay
<1> QED BY <1>5, <1>6, <1>7

\* While something is about to be inserted nothing moves.
LEMMA NothingMoves ==
  ASSUME TreeInv, ~disturbed, NEW k \in Keepers, Tree!Grows(k)
  PROVE  \A o \in Keepers : ~Tree!Moves(o) /\ Pending(o) = {} /\ treeEdits[o].at \notin {"move", "descend"}
<1>1. \A o \in Keepers : ~Tree!Moves(o)
  BY DEF TreeInv, Tree!Moves, Tree!Grows
<1> QED BY <1>1 DEF Tree!Moves, Pending

LEMMA InsertDone ==
  ASSUME TreeInv, NEW k \in Keepers, Tree!InsertNew(k)
  PROVE  TreeInv'
<1>1. PICK n, row : n = treeEdits[k].category /\ row = treeEdits[k].row
  OBVIOUS
<1>2. PICK taken \in BOOLEAN :
        taken = (Tree!SlugTaken(row.slug, n) \/ ~Tree!ParentExists(row.parent) \/ Len(row.path) > MaxPath)
  OBVIOUS
<1>3. /\ treeEdits[k].at = "insert" /\ treeEdits' = [treeEdits EXCEPT ![k] = Tree!NoEdit] /\ UNCHANGED <<idsUsed, disturbed>>
      /\ tree' = IF taken THEN tree ELSE [tree EXCEPT ![n] = row]
  BY <1>1, <1>2 DEF Tree!InsertNew, Tree!Proceed
<1>4. TreeTyped /\ NewFits(k)
  BY DEF TreeInv
<1>5. DOMAIN treeEdits = Keepers /\ tree \in [Categories -> CategoryRow \cup {NoCategory}] /\ disturbed' \in BOOLEAN
  BY <1>3, <1>4 DEF TreeTyped
<1>6. CASE taken
  <2>1. Pending(k) = {}
    BY <1>3, PendingOf
  <2> QED BY <1>3, <1>5, <1>6, <2>1, EditEnds
<1>7. CASE ~taken
  <2>1. /\ n \in Categories /\ n \in idsUsed /\ ~Tree!Listed(n) /\ row \in CategoryRow
        /\ Len(row.path) = row.level + 1 /\ row.parent \in idsUsed \cup {NoCategory}
        /\ ~disturbed => Follows(row.level, row.path, row.parent)
        /\ \A o \in Keepers : Inserts(o) => treeEdits[o].category # row.parent /\ (treeEdits[o].category = n => o = k)
    BY <1>1, <1>2, <1>3, <1>4, <1>7 DEF NewFits, Inserts
  <2>2. Tree!ParentExists(row.parent) /\ ~(Len(row.path) > MaxPath)
    BY <1>2, <1>7
  <2>3. /\ row.level \in Nat /\ row.path \in Seq(Slugs) /\ row.parent \in Categories \cup {NoCategory}
        /\ Len(row.path) \in Nat /\ row # NoCategory /\ row.parent # n
    <3>1. row.level \in Nat /\ row.path \in Seq(Slugs) /\ row.parent \in Categories \cup {NoCategory}
      BY <2>1 DEF CategoryRow
    <3>2. Len(row.path) \in Nat
      BY <3>1, LenProperties
    <3>3. row # NoCategory
      BY <2>1, RecordAssumption
    <3>4. Inserts(k)
      BY <1>3 DEF Inserts
    <3>5. row.parent # n
      BY <1>1, <2>1, <3>4
    <3> QED BY <3>1, <3>2, <3>3, <3>5
  <2>4. Len(row.path) <= MaxPath
    BY <2>2, <2>3, RecordAssumption
  <2>5. /\ tree' \in [Categories -> CategoryRow \cup {NoCategory}]
        /\ tree'[n] = row /\ \A o \in Categories \ {n} : tree'[o] = tree[o]
    BY <1>3, <1>5, <1>7, <2>1
  <2>6. \A o \in Categories : Tree!Listed(o)' <=> Tree!Listed(o) \/ o = n
    BY <2>3, <2>5 DEF Tree!Listed
  <2>7. DOMAIN treeEdits' = Keepers /\ treeEdits'[k].at = "none" /\ \A o \in Keepers \ {k} : treeEdits'[o] = treeEdits[o]
    BY <1>3, <1>5 DEF Tree!NoEdit
  <2>8. \A p \in Categories \cup {NoCategory} : p # n => (Tree!ParentExists(p)' <=> Tree!ParentExists(p))
    BY <2>6 DEF Tree!ParentExists
  <2>9. \A o \in Categories : Tree!Listed(o) => o # n /\ tree[o].parent # n /\ tree'[o] = tree[o]
    <3>1. ASSUME NEW o \in Categories, Tree!Listed(o) PROVE o # n /\ tree[o].parent # n
      BY <2>1, <3>1, ListedRow, RecordAssumption DEF Tree!ParentExists
    <3> QED BY <2>5, <3>1
  <2>10. TreeTyped'
    <3>1. ASSUME NEW o \in Categories, Tree!Listed(o)'
          PROVE  /\ o \in idsUsed' /\ Tree!ParentExists(tree[o].parent)'
                 /\ Len(tree'[o].path) = tree'[o].level + 1 /\ Len(tree'[o].path) <= MaxPath
      <4>1. PICK q : q = tree'[o].parent
        OBVIOUS
      <4>2. CASE o = n
        <5>1. Tree!ParentExists(q)'
          BY <2>2, <2>3, <2>5, <2>8, <4>1, <4>2
        <5> QED BY <1>3, <2>1, <2>4, <2>5, <4>1, <4>2, <5>1
      <4>3. CASE o # n
        <5>1. Tree!Listed(o) /\ tree'[o] = tree[o]
          BY <2>5, <2>6, <3>1, <4>3
        <5>2. Tree!ParentExists(q) /\ q \in Categories \cup {NoCategory} /\ q # n /\ o \in idsUsed
              /\ Len(tree[o].path) = tree[o].level + 1 /\ Len(tree[o].path) <= MaxPath
          BY <2>9, <4>1, <5>1, ListedRow
        <5>3. Tree!ParentExists(q)'
          BY <2>8, <5>2
        <5> QED BY <1>3, <4>1, <5>1, <5>2, <5>3
      <4> QED BY <4>2, <4>3
    <3> QED BY <1>5, <2>5, <2>7, <3>1 DEF TreeTyped
  <2>11. NewFits(k)' /\ RenameFits(k)' /\ RemoveFits(k)' /\ MoveFits(k)' /\ DescendFits(k)' /\ ~Inserts(k)'
         /\ ~Tree!Moves(k)' /\ ~Tree!Grows(k)'
    BY <2>7 DEF NewFits, Inserts, RenameFits, RemoveFits, MoveFits, DescendFits, Tree!Moves, Tree!Grows
  <2>12. Tree!Grows(k)
    BY <1>3 DEF Tree!Grows
  <2>13. ~disturbed => \A o \in Keepers : ~Tree!Moves(o) /\ Pending(o) = {} /\ treeEdits[o].at \notin {"move", "descend"}
    BY <2>12, NothingMoves
  <2>14. ASSUME NEW level, NEW path, NEW p \in Categories \cup {NoCategory}, p # n, Follows(level, path, p)
         PROVE  Follows(level, path, p)'
    BY <2>5, <2>14 DEF Follows
  <2>15. ASSUME NEW o \in Keepers \ {k} PROVE NewFits(o)'
    <3>1. SUFFICES ASSUME Inserts(o) PROVE NewFits(o)'
      BY <2>7 DEF NewFits, Inserts
    <3>2. PICK x, r, p : x = treeEdits[o].category /\ r = treeEdits[o].row /\ p = r.parent
      OBVIOUS
    <3>3. /\ x \in Categories \cap idsUsed /\ ~Tree!Listed(x)
          /\ r \in CategoryRow /\ Len(r.path) = r.level + 1 /\ p \in idsUsed \cup {NoCategory}
          /\ ~disturbed /\ Tree!ParentExists(p) => Follows(r.level, r.path, p)
          /\ \A q \in Keepers : Inserts(q) => treeEdits[q].category # p /\ (treeEdits[q].category = x => q = o)
      BY <3>1, <3>2 DEF TreeInv, NewFits
    <3>4. x # n /\ p # n
      BY <1>1, <1>3, <3>2, <3>3 DEF Inserts
    <3>5. p \in Categories \cup {NoCategory}
      BY <3>2, <3>3 DEF CategoryRow
    <3>6. PICK level, path : level = r.level /\ path = r.path
      OBVIOUS
    <3>7. ~disturbed' /\ Tree!ParentExists(p)' => Follows(level, path, p)'
      BY <1>3, <2>8, <2>14, <3>3, <3>4, <3>5, <3>6
    <3>8. ~Tree!Listed(x)'
      BY <2>6, <3>3, <3>4
    <3>9. \A q \in Keepers : Inserts(q)' => Inserts(q) /\ treeEdits'[q] = treeEdits[q]
      BY <2>7, <2>11 DEF Inserts
    <3>10. treeEdits'[o].category = x /\ treeEdits'[o].row = r /\ treeEdits'[o].row.parent = p
      BY <2>7, <3>2
    <3> QED BY <1>3, <3>3, <3>6, <3>7, <3>8, <3>9, <3>10 DEF NewFits
  <2>16. ASSUME NEW o \in Keepers \ {k} PROVE RenameFits(o)' /\ RemoveFits(o)' /\ MoveFits(o)' /\ DescendFits(o)'
    <3>1. RenameFits(o) /\ RemoveFits(o) /\ MoveFits(o) /\ DescendFits(o) /\ treeEdits'[o] = treeEdits[o]
      BY <2>7 DEF TreeInv
    <3>2. ~disturbed' => treeEdits[o].at \notin {"move", "descend"}
      BY <1>3, <2>13
    <3>3. RenameFits(o)' /\ RemoveFits(o)'
      BY <3>1 DEF RenameFits, RemoveFits
    <3>4. MoveFits(o)'
      BY <3>1, <3>2 DEF MoveFits
    <3>5. DescendFits(o)'
      BY <3>1, <3>2 DEF DescendFits
    <3> QED BY <3>3, <3>4, <3>5
  <2>17. ~disturbed' => \A o \in Keepers : ~Tree!Moves(o)'
    BY <1>3, <2>7, <2>11, <2>13 DEF Tree!Moves
  <2>18. ASSUME ~disturbed', NEW c \in Categories, Tree!Listed(c)' PROVE Follows(tree[c].level, tree[c].path, tree[c].parent)'
    <3>1. PICK level, path, p : level = tree'[c].level /\ path = tree'[c].path /\ p = tree'[c].parent
      OBVIOUS
    <3>2. CASE c = n
      BY <1>3, <2>1, <2>3, <2>5, <2>14, <2>18, <3>1, <3>2
    <3>3. CASE c # n
      <4>1. Tree!Listed(c) /\ tree'[c] = tree[c]
        BY <2>5, <2>6, <2>18, <3>3
      <4>2. Follows(level, path, p)
        BY <1>3, <2>13, <2>18, <3>1, <4>1 DEF TreeInv
      <4>3. p \in Categories \cup {NoCategory} /\ p # n
        BY <2>9, <3>1, <4>1, ListedRow
      <4>4. Follows(level, path, p)'
        BY <2>14, <4>2, <4>3
      <4> QED BY <3>1, <4>4
    <3> QED BY <3>2, <3>3
  <2> QED BY <2>10, <2>11, <2>15, <2>16, <2>17, <2>18 DEF TreeInv
<1> QED BY <1>6, <1>7

-----------------------------------------------------------------------------
(* CategoryTree: a row in its new place                                    *)

\* The categories of a list of rows.
Named(rows) == {rows[i][1] : i \in DOMAIN rows}

\* The step that writes row for c, after which rows are left to write.
Places(k, c, row, rows) ==
  /\ Tree!Listed(c) /\ tree' = [tree EXCEPT ![c] = row] /\ UNCHANGED <<idsUsed, disturbed>>
  /\ \E d : treeEdits' = [treeEdits EXCEPT ![k] = d] /\ d.at = "descend" /\ d.rows = rows

\* What is written is a row, and so is what is left to write.
RowsFit(row, rows) ==
  /\ row \in CategoryRow
  /\ Tree!ParentExists(row.parent) /\ Len(row.path) = row.level + 1 /\ Len(row.path) <= MaxPath
  /\ rows \in Seq(Categories \X Seq(Slugs)) /\ \A i \in DOMAIN rows : Len(rows[i][2]) >= 1

\* Nothing is left that continues no longer the path of its parent.
NothingForgotten(k, c, row, rows) ==
  /\ Awaiting(rows, tree') /\ row.parent # c /\ Follows(row.level, row.path, row.parent)
  /\ Pending(k) \ {c} \subseteq Named(rows)
  /\ \A o \in Categories \ {c} : Tree!Listed(o) /\ tree[o].parent = c => o \in Named(rows)

\* A row gets its new place, and its children are next.
LEMMA RowPlaced ==
  ASSUME TreeInv, NEW k \in Keepers, Tree!Moves(k), NEW c \in Categories, NEW row, NEW rows,
         Places(k, c, row, rows), RowsFit(row, rows), ~disturbed => NothingForgotten(k, c, row, rows)
  PROVE  TreeInv'
<1>a. PICK d : treeEdits' = [treeEdits EXCEPT ![k] = d] /\ d.at = "descend" /\ d.rows = rows
  BY DEF Places
<1>b. /\ Tree!Listed(c) /\ tree' = [tree EXCEPT ![c] = row] /\ UNCHANGED <<idsUsed, disturbed>>
  BY DEF Places
<1>c. /\ row \in CategoryRow
      /\ Tree!ParentExists(row.parent) /\ Len(row.path) = row.level + 1 /\ Len(row.path) <= MaxPath
      /\ rows \in Seq(Categories \X Seq(Slugs)) /\ \A i \in DOMAIN rows : Len(rows[i][2]) >= 1
  BY DEF RowsFit
<1>d. ~disturbed =>
        /\ Awaiting(rows, tree') /\ row.parent # c /\ Follows(row.level, row.path, row.parent)
        /\ Pending(k) \ {c} \subseteq Named(rows)
        /\ \A o \in Categories \ {c} : Tree!Listed(o) /\ tree[o].parent = c => o \in Named(rows)
  BY DEF NothingForgotten
<1> USE <1>a, <1>b, <1>c, <1>d
<1>1. /\ DOMAIN treeEdits = Keepers /\ tree \in [Categories -> CategoryRow \cup {NoCategory}] /\ disturbed \in BOOLEAN
  BY DEF TreeInv, TreeTyped
<1>2. /\ tree' \in [Categories -> CategoryRow \cup {NoCategory}] /\ tree'[c] = row
      /\ \A o \in Categories \ {c} : tree'[o] = tree[o]
  BY <1>1
<1>3. DOMAIN treeEdits' = Keepers /\ treeEdits'[k] = d /\ \A o \in Keepers \ {k} : treeEdits'[o] = treeEdits[o]
  BY <1>1
<1>4. row # NoCategory /\ row.parent \in Categories \cup {NoCategory}
  BY RecordAssumption DEF CategoryRow
<1>5. \A o \in Categories : Tree!Listed(o)' <=> Tree!Listed(o)
  BY <1>2, <1>4 DEF Tree!Listed
<1>6. \A p \in Categories \cup {NoCategory} : Tree!ParentExists(p)' <=> Tree!ParentExists(p)
  BY <1>5 DEF Tree!ParentExists
<1>7. TreeTyped'
  <2>1. ASSUME NEW o \in Categories, Tree!Listed(o)'
        PROVE  /\ o \in idsUsed' /\ Tree!ParentExists(tree[o].parent)'
               /\ Len(tree'[o].path) = tree'[o].level + 1 /\ Len(tree'[o].path) <= MaxPath
    <3>1. PICK q : q = tree'[o].parent
      OBVIOUS
    <3>2. o \in idsUsed /\ Tree!ParentExists(tree[o].parent) /\ tree[o].parent \in Categories \cup {NoCategory}
          /\ Len(tree[o].path) = tree[o].level + 1 /\ Len(tree[o].path) <= MaxPath
      BY <1>5, <2>1, ListedRow
    <3>3. q \in Categories \cup {NoCategory} /\ Tree!ParentExists(q)
      BY <1>2, <1>4, <3>1, <3>2
    <3>4. Tree!ParentExists(q)'
      BY <1>6, <3>3
    <3> QED BY <1>2, <3>1, <3>2, <3>4
  <2> QED BY <1>1, <1>2, <1>3, <2>1 DEF TreeTyped
<1>8. ~disturbed => \A o \in Keepers \ {k} : ~Tree!Moves(o) /\ ~Tree!Grows(o)
  BY DEF TreeInv
<1>9. ASSUME NEW o \in Keepers \ {k}
      PROVE  NewFits(o)' /\ RenameFits(o)' /\ RemoveFits(o)' /\ MoveFits(o)' /\ DescendFits(o)'
  <2>1. NewFits(o) /\ RenameFits(o) /\ RemoveFits(o) /\ MoveFits(o) /\ DescendFits(o) /\ treeEdits'[o] = treeEdits[o]
    BY <1>3 DEF TreeInv
  <2>2. ~disturbed' => treeEdits[o].at \notin {"move", "descend", "insert", "remove"}
    BY <1>8 DEF Tree!Moves, Tree!Grows
  <2>3. NewFits(o)'
    <3>1. \A q \in Keepers : Inserts(q)' => Inserts(q) /\ treeEdits'[q] = treeEdits[q]
      BY <1>3 DEF Inserts
    <3>2. Inserts(o) => treeEdits[o].category \in Categories /\ ~Tree!Listed(treeEdits[o].category)'
      BY <1>5, <2>1 DEF NewFits
    <3> QED BY <2>1, <2>2, <3>1, <3>2 DEF NewFits, Inserts
  <2>4. RenameFits(o)' /\ RemoveFits(o)'
    BY <2>1 DEF RenameFits, RemoveFits
  <2>5. MoveFits(o)'
    BY <2>1, <2>2 DEF MoveFits
  <2>6. DescendFits(o)'
    BY <2>1, <2>2 DEF DescendFits
  <2> QED BY <2>3, <2>4, <2>5, <2>6
<1>10. NewFits(k)' /\ RenameFits(k)' /\ RemoveFits(k)' /\ MoveFits(k)' /\ DescendFits(k)'
  <2>1. DescendFits(k)'
    BY <1>3 DEF DescendFits
  <2> QED BY <1>3, <2>1 DEF NewFits, Inserts, RenameFits, RemoveFits, MoveFits
<1>11. ~disturbed' => \A m \in Keepers : Tree!Moves(m)' => \A o \in Keepers \ {m} : ~Tree!Moves(o)' /\ ~Tree!Grows(o)'
  BY <1>3, <1>8 DEF Tree!Moves, Tree!Grows
<1>12. Pending(k)' = Named(rows) /\ \A m \in Keepers \ {k} : Pending(m)' = Pending(m)
  BY <1>3 DEF Pending, Named
<1>13. ASSUME NEW level, NEW path, NEW p \in Categories \cup {NoCategory}, p # c, Follows(level, path, p)
       PROVE  Follows(level, path, p)'
  BY <1>2, <1>13 DEF Follows
<1>14. ASSUME ~disturbed', NEW o \in Categories, Tree!Listed(o)', \A m \in Keepers : o \notin Pending(m)'
       PROVE  Follows(tree[o].level, tree[o].path, tree[o].parent)'
  <2>1. PICK level, path, p : level = tree'[o].level /\ path = tree'[o].path /\ p = tree'[o].parent
    OBVIOUS
  <2>2. CASE o = c
    <3>1. level = row.level /\ path = row.path /\ p = row.parent /\ p # c /\ p \in Categories \cup {NoCategory}
      BY <1>2, <1>4, <1>14, <2>1, <2>2
    <3>2. Follows(level, path, p)'
      BY <1>13, <1>14, <3>1
    <3> QED BY <2>1, <3>2
  <2>3. CASE o # c
    <3>1. Tree!Listed(o) /\ tree'[o] = tree[o] /\ o \notin Named(rows)
      BY <1>2, <1>5, <1>12, <1>14, <2>3
    <3>2. \A m \in Keepers : o \notin Pending(m)
      BY <1>12, <1>14, <2>3, <3>1
    <3>3. Follows(level, path, p)
      BY <1>14, <2>1, <3>1, <3>2 DEF TreeInv
    <3>4. p # c /\ p \in Categories \cup {NoCategory}
      BY <1>14, <2>1, <2>3, <3>1, ListedRow
    <3>5. Follows(level, path, p)'
      BY <1>13, <3>3, <3>4
    <3> QED BY <2>1, <3>5
  <2> QED BY <2>2, <2>3
<1> QED BY <1>7, <1>9, <1>10, <1>11, <1>14 DEF TreeInv

\* While k is about to move c, every path continues that of its parent.
LEMMA AllFollow ==
  ASSUME TreeInv, ~disturbed, NEW k \in Keepers, treeEdits[k].at = "move", NEW c \in Categories, Tree!Listed(c)
  PROVE  Follows(tree[c].level, tree[c].path, tree[c].parent)
<1>1. \A o \in Keepers : treeEdits[o].at # "descend"
  BY DEF TreeInv, Tree!Moves
<1>2. \A o \in Keepers : c \notin Pending(o)
  BY <1>1 DEF Pending
<1> QED BY <1>2 DEF TreeInv

LEMMA MoveDone ==
  ASSUME TreeInv, NEW k \in Keepers, Tree!Move(k)
  PROVE  TreeInv'
<1>1. PICK c, p, level, path : /\ c = treeEdits[k].category /\ p = treeEdits[k].parent
                               /\ level = treeEdits[k].level /\ path = treeEdits[k].path
  OBVIOUS
<1>2. PICK ok \in BOOLEAN : ok = (Tree!Listed(c) /\ Tree!ParentExists(p) /\ Len(path) <= MaxPath)
  OBVIOUS
<1>3. treeEdits[k].at = "move" /\ UNCHANGED disturbed /\ disturbed \in BOOLEAN
  BY DEF Tree!Move, TreeInv, TreeTyped
<1>4. MoveFits(k)
  BY DEF TreeInv
<1>5. /\ c \in Categories /\ p \in Categories \cup {NoCategory} /\ level \in Nat /\ path \in Seq(Slugs)
      /\ Len(path) = level + 1
      /\ ~disturbed =>
           /\ c # p /\ (Tree!ParentExists(p) => Follows(level, path, p))
           /\ Tree!Listed(c) /\ p # NoCategory /\ Tree!Listed(p) => ~Tree!IsStrictPrefix(tree[c].path, tree[p].path)
  BY <1>1, <1>3, <1>4 DEF MoveFits
<1>6. CASE ~ok
  <2>1. UNCHANGED <<tree, idsUsed>> /\ treeEdits' = [treeEdits EXCEPT ![k] = Tree!NoEdit]
    BY <1>1, <1>2, <1>6 DEF Tree!Move, Tree!Proceed
  <2>2. Pending(k) = {}
    BY <1>3, PendingOf
  <2> QED BY <1>3, <2>1, <2>2, EditEnds
<1>7. CASE ok
  <2>1. Tree!Listed(c) /\ Tree!ParentExists(p) /\ Len(path) <= MaxPath
    BY <1>2, <1>7
  <2>2. PICK row : row = [tree[c] EXCEPT !.parent = p, !.level = level, !.path = path]
    OBVIOUS
  <2>3. /\ tree' = [tree EXCEPT ![c] = row]
        /\ \E d \in Tree!Onward(c, path, <<>>) : Tree!Proceed(k, d)
    BY <1>1, <1>2, <1>7, <2>2 DEF Tree!Move
  <2>4. row \in CategoryRow /\ row.parent = p /\ row.level = level /\ row.path = path
    <3>1. tree[c] \in CategoryRow
      BY <1>5, <2>1, ListedRow
    <3> QED BY <1>5, <2>2, <3>1 DEF CategoryRow
  <2>5. PICK t : t = tree'
    OBVIOUS
  <2>6. tree \in [Categories -> CategoryRow \cup {NoCategory}] /\ row # NoCategory
    BY <2>4, RecordAssumption DEF TreeInv, TreeTyped
  <2>7. t[c] = row /\ \A o \in Categories \ {c} : t[o] = tree[o]
    BY <1>5, <2>3, <2>5, <2>6
  <2>8. PICK C : C = Tree!ChildrenIn(t, c)
    OBVIOUS
  <2>9. C \in SUBSET Categories /\ \A o \in C : t[o] # NoCategory /\ t[o].parent = c
    BY <2>8 DEF Tree!ChildrenIn
  <2>10. PICK s \in Tree!SetToSeqs(C) :
          Tree!Proceed(k, [at |-> "descend", rows |-> [i \in DOMAIN s |-> <<s[i], path>>] \o <<>>])
    BY <2>3, <2>5, <2>8 DEF Tree!Onward
  <2>11. PICK rows : rows = [i \in DOMAIN s |-> <<s[i], path>>] \o <<>>
    OBVIOUS
  <2>12. PICK d : d = [at |-> "descend", rows |-> rows]
    OBVIOUS
  <2>13. d.at = "descend" /\ d.rows = rows
    BY <2>12
  <2>14. treeEdits' = [treeEdits EXCEPT ![k] = d] /\ UNCHANGED <<idsUsed>>
    BY <2>10, <2>11, <2>12 DEF Tree!Proceed
  <2>15. RowsOf(rows, C, path, <<>>)
    <3>1. <<>> \in Seq(Categories \X Seq(Slugs))
      BY EmptySeq
    <3> QED BY <1>5, <2>9, <2>11, <3>1, RowsAreListed
  <2>16. /\ rows \in Seq(Categories \X Seq(Slugs)) /\ \A i \in DOMAIN rows : rows[i][1] \in C /\ rows[i][2] = path
         /\ \A o \in C : \E i \in DOMAIN rows : rows[i][1] = o
         /\ \A i, j \in DOMAIN rows : rows[i][1] = rows[j][1] => i = j
    <3>1. DOMAIN <<>> = {}
      OBVIOUS
    <3> QED BY <2>15, <3>1 DEF RowsOf
  <2>17. \A i \in DOMAIN rows : Len(rows[i][2]) >= 1
    BY <1>5, <2>16
  <2>18. ASSUME ~disturbed, NEW o \in Categories \ {c}, Tree!Listed(o), tree[o].parent = c PROVE o \in C
    BY <2>7, <2>8, <2>18 DEF Tree!ChildrenIn, Tree!Listed
  <2>19. ASSUME ~disturbed PROVE Awaiting(rows, t)
    <3>1. c # p /\ c # NoCategory /\ (p # NoCategory => Tree!Listed(p) /\ ~Tree!IsStrictPrefix(tree[c].path, tree[p].path))
      BY <1>5, <2>1, <2>19, RecordAssumption DEF Tree!ParentExists
    <3>2. \A o \in C : o # c /\ Tree!Listed(o) /\ tree[o].parent = c
      BY <2>4, <2>7, <2>9, <3>1 DEF Tree!Listed
    <3>3. PICK A : A = {o \in Categories : ~(Tree!Listed(o) /\ Tree!IsStrictPrefix(tree[c].path, tree[o].path))}
      OBVIOUS
    <3>4. c \in A /\ A \in SUBSET Categories
      BY <1>5, <3>3 DEF Tree!IsStrictPrefix
    <3>5. ASSUME NEW o \in Categories, Tree!Listed(o), tree[o].parent # NoCategory
          PROVE  /\ tree[o].parent \in Categories /\ Tree!Listed(tree[o].parent)
                 /\ Tree!Front(tree[o].path) = tree[tree[o].parent].path
                 /\ tree[o].path \in Seq(Slugs) /\ Len(tree[o].path) >= 1
      <4>1. Follows(tree[o].level, tree[o].path, tree[o].parent)
        BY <1>3, <2>19, <3>5, AllFollow
      <4>2. /\ tree[o].parent \in Categories \cup {NoCategory} /\ Tree!ParentExists(tree[o].parent) /\ tree[o].level \in Nat
            /\ tree[o].path \in Seq(Slugs) /\ Len(tree[o].path) = tree[o].level + 1
        BY <3>5, ListedRow
      <4> QED BY <3>5, <4>1, <4>2 DEF Follows, Tree!ParentExists
    <3>6. tree[c].path \in Seq(Slugs)
      BY <1>5, <2>1, ListedRow
    <3>7. \A o \in C : o \notin A
      <4>1. ASSUME NEW o \in C PROVE Tree!IsStrictPrefix(tree[c].path, tree[o].path)
        <5>1. o \in Categories /\ Tree!Listed(o) /\ tree[o].parent = c
          BY <2>9, <3>2
        <5>2. Tree!Front(tree[o].path) = tree[c].path /\ tree[o].path \in Seq(Slugs) /\ Len(tree[o].path) >= 1
          BY <3>1, <3>5, <5>1
        <5> QED BY <3>6, <5>2, FrontIsStart
      <4> QED BY <3>2, <3>3, <4>1
    <3>8. ASSUME NEW o \in A, t[o] # NoCategory PROVE t[o].parent \in A \cup {NoCategory}
      <4>1. CASE o = c
        BY <1>5, <2>4, <2>7, <3>1, <3>3, <4>1
      <4>2. CASE o # c
        <5>1. Tree!Listed(o) /\ t[o] = tree[o] /\ ~Tree!IsStrictPrefix(tree[c].path, tree[o].path) /\ o \in Categories
          BY <2>7, <3>3, <3>4, <3>8, <4>2 DEF Tree!Listed
        <5>2. CASE tree[o].parent = NoCategory
          BY <5>1, <5>2
        <5>3. CASE tree[o].parent # NoCategory
          <6>1. PICK q : q = tree[o].parent
            OBVIOUS
          <6>2. q \in Categories /\ Tree!Front(tree[o].path) = tree[q].path
                /\ tree[o].path \in Seq(Slugs) /\ Len(tree[o].path) >= 1
            BY <3>5, <5>1, <5>3, <6>1
          <6>3. ~Tree!IsStrictPrefix(tree[c].path, tree[q].path)
            BY <3>6, <5>1, <6>2, FrontIsStart
          <6> QED BY <3>3, <5>1, <6>1, <6>2, <6>3
        <5> QED BY <5>2, <5>3
      <4> QED BY <4>1, <4>2
    <3>9. \A i \in DOMAIN rows : rows[i][1] \notin A /\ t[rows[i][1]].parent \in A
      BY <2>9, <2>16, <3>4, <3>7
    <3>10. ASSUME NEW i \in DOMAIN rows
           PROVE  LET o == rows[i][1] IN t[o] # NoCategory /\ t[o].parent # NoCategory /\ t[t[o].parent].path = rows[i][2]
      BY <2>4, <2>7, <2>9, <2>16, <3>1
    <3> QED BY <2>16, <3>4, <3>8, <3>9, <3>10 DEF Awaiting
  <2>20. Pending(k) = {} /\ Tree!Moves(k)
    BY <1>3, PendingOf DEF Tree!Moves
  <2>21. \A o \in C : o \in Named(rows)
    BY <2>16 DEF Named
  <2>22. Len(row.path) = row.level + 1 /\ Len(row.path) <= MaxPath /\ Tree!ParentExists(row.parent)
    BY <1>5, <2>1, <2>4
  <2>23. ~disturbed => /\ Awaiting(rows, tree') /\ row.parent # c /\ Follows(row.level, row.path, row.parent)
                       /\ Pending(k) \ {c} \subseteq Named(rows)
                       /\ \A o \in Categories \ {c} : Tree!Listed(o) /\ tree[o].parent = c => o \in Named(rows)
    <3>1. ~disturbed => Awaiting(rows, tree')
      BY <2>5, <2>19
    <3>2. ~disturbed => row.parent # c /\ Follows(row.level, row.path, row.parent)
      BY <1>5, <2>1, <2>4
    <3>3. ~disturbed => Pending(k) \ {c} \subseteq Named(rows)
      BY <2>20
    <3>4. ~disturbed => \A o \in Categories \ {c} : Tree!Listed(o) /\ tree[o].parent = c => o \in Named(rows)
      BY <2>18, <2>21
    <3> QED BY <3>1, <3>2, <3>3, <3>4
  <2>24. Places(k, c, row, rows)
    BY <1>3, <2>1, <2>3, <2>13, <2>14 DEF Places
  <2>25. RowsFit(row, rows)
    BY <2>4, <2>16, <2>17, <2>22 DEF RowsFit
  <2>26. ~disturbed => NothingForgotten(k, c, row, rows)
    BY <2>23 DEF NothingForgotten
  <2> QED BY <1>5, <2>20, <2>24, <2>25, <2>26, RowPlaced
<1> QED BY <1>6, <1>7

-----------------------------------------------------------------------------
(* CategoryTree: the move, step by step                                    *)

LEMMA DescendDone ==
  ASSUME TreeInv, NEW k \in Keepers, Tree!Descend(k)
  PROVE  TreeInv'
<1>1. PICK rest, c, h, path : /\ rest = Tail(treeEdits[k].rows) /\ c = Head(treeEdits[k].rows)[1]
                              /\ h = Head(treeEdits[k].rows)[2] /\ path = Append(h, tree[c].slug)
  OBVIOUS
<1>2. treeEdits[k].at = "descend" /\ treeEdits[k].rows # <<>> /\ DescendFits(k) /\ Tree!Moves(k)
  BY DEF Tree!Descend, TreeInv, Tree!Moves
<1>3. PICK was : was = treeEdits[k].rows
  OBVIOUS
<1>4. /\ was \in Seq(Categories \X Seq(Slugs)) /\ was # <<>> /\ \A i \in DOMAIN was : Len(was[i][2]) >= 1
      /\ ~disturbed => Awaiting(was, tree)
  BY <1>2, <1>3 DEF DescendFits
<1>5. /\ c = was[1][1] /\ h = was[1][2] /\ 1 \in DOMAIN was /\ was[1] \in Categories \X Seq(Slugs)
      /\ rest \in Seq(Categories \X Seq(Slugs))
      /\ \A j \in DOMAIN rest : j + 1 \in DOMAIN was /\ rest[j] = was[j + 1] /\ j + 1 # 1
      /\ \A i \in DOMAIN was : i # 1 => i - 1 \in DOMAIN rest /\ was[i] = rest[i - 1]
  <2>1. PICK T : T = Categories \X Seq(Slugs)
    OBVIOUS
  <2>2. was \in Seq(T) /\ was # <<>>
    BY <1>4, <2>1
  <2>3. /\ Head(was) \in T /\ Tail(was) \in Seq(T) /\ Head(was) = was[1]
        /\ Len(Tail(was)) = Len(was) - 1 /\ \A i \in 1..Len(Tail(was)) : Tail(was)[i] = was[i + 1]
    BY <2>2, HeadTailProperties, ElementOfSeq, EmptySeq
  <2>4. Len(was) \in Nat /\ DOMAIN was = 1..Len(was) /\ DOMAIN Tail(was) = 1..Len(was) - 1
    BY <2>2, <2>3, LenProperties
  <2>5. Len(was) >= 1
    BY <2>2, <2>4, EmptySeq
  <2>6. \A j \in DOMAIN rest : j + 1 \in DOMAIN was /\ rest[j] = was[j + 1] /\ j + 1 # 1
    BY <1>1, <1>3, <2>3, <2>4
  <2>7. \A i \in DOMAIN was : i # 1 => i - 1 \in DOMAIN rest /\ was[i] = rest[i - 1]
    <3>1. ASSUME NEW i \in DOMAIN was, i # 1 PROVE i - 1 \in DOMAIN rest /\ was[i] = rest[i - 1]
      <4>1. i - 1 \in DOMAIN rest /\ (i - 1) + 1 = i
        BY <1>1, <1>3, <2>4, <3>1
      <4> QED BY <2>6, <4>1
    <3> QED BY <3>1
  <2>8. c = was[1][1] /\ h = was[1][2] /\ rest = Tail(was)
    BY <1>1, <1>3, <2>3
  <2>9. 1 \in DOMAIN was
    BY <2>4, <2>5
  <2>10. was[1] \in Categories \X Seq(Slugs) /\ rest \in Seq(Categories \X Seq(Slugs))
    <3>1. was[1] \in T /\ rest \in Seq(T)
      BY <2>3, <2>8
    <3> QED BY <2>1, <3>1
  <2> QED BY <2>6, <2>7, <2>8, <2>9, <2>10
<1>6. c \in Categories /\ h \in Seq(Slugs) /\ Len(h) >= 1 /\ Len(h) \in Nat
  BY <1>4, <1>5, LenProperties
<1>7. PICK ok \in BOOLEAN : ok = (Tree!Listed(c) /\ Len(path) <= MaxPath)
  OBVIOUS
<1>8. disturbed \in BOOLEAN /\ tree \in [Categories -> CategoryRow \cup {NoCategory}]
  BY DEF TreeInv, TreeTyped
<1>9. CASE ~ok
  <2>1. UNCHANGED <<tree, idsUsed>> /\ treeEdits' = [treeEdits EXCEPT ![k] = Tree!NoEdit] /\ disturbed' = TRUE
    BY <1>1, <1>7, <1>9 DEF Tree!Descend, Tree!Proceed
  <2> QED BY <2>1, EditEnds
<1>10. CASE ok
  <2>1. Tree!Listed(c) /\ Len(path) <= MaxPath
    BY <1>7, <1>10
  <2>2. PICK row : row = [tree[c] EXCEPT !.path = path, !.level = Len(h)]
    OBVIOUS
  <2>3. /\ tree' = [tree EXCEPT ![c] = row] /\ UNCHANGED disturbed
        /\ \E d \in Tree!Onward(c, path, rest) : Tree!Proceed(k, d)
    BY <1>1, <1>7, <1>10, <2>2 DEF Tree!Descend
  <2>4. PICK p : p = tree[c].parent
    OBVIOUS
  <2>5. /\ tree[c] \in CategoryRow /\ tree[c].slug \in Slugs /\ p \in Categories \cup {NoCategory} /\ Tree!ParentExists(p)
    BY <1>6, <2>1, <2>4, ListedRow
  <2>6. path \in Seq(Slugs) /\ Len(path) = Len(h) + 1 /\ Tree!Front(path) = h
    <3>1. path = Append(h, tree[c].slug) /\ tree[c].slug \in Slugs /\ h \in Seq(Slugs)
      BY <1>1, <1>6, <2>5
    <3>2. path \in Seq(Slugs) /\ Len(path) = Len(h) + 1
      BY <3>1, AppendProperties
    <3>3. Tree!Front(path) = h
      BY <3>1, FrontOfAppend
    <3> QED BY <3>2, <3>3
  <2>7. row \in CategoryRow /\ row.parent = p /\ row.level = Len(h) /\ row.path = path
    BY <1>6, <2>2, <2>4, <2>5, <2>6 DEF CategoryRow
  <2>8. row # NoCategory
    BY <2>7, RecordAssumption
  <2>9. PICK t : t = tree'
    OBVIOUS
  <2>10. t[c] = row /\ \A o \in Categories \ {c} : t[o] = tree[o]
    BY <1>6, <1>8, <2>3, <2>9
  <2>11. PICK C : C = Tree!ChildrenIn(t, c)
    OBVIOUS
  <2>12. C \in SUBSET Categories /\ \A o \in C : t[o] # NoCategory /\ t[o].parent = c
    BY <2>11 DEF Tree!ChildrenIn
  <2>13. PICK s \in Tree!SetToSeqs(C) :
           Tree!Proceed(k, [at |-> "descend", rows |-> [i \in DOMAIN s |-> <<s[i], path>>] \o rest])
    BY <2>3, <2>9, <2>11 DEF Tree!Onward
  <2>14. PICK rows : rows = [i \in DOMAIN s |-> <<s[i], path>>] \o rest
    OBVIOUS
  <2>15. PICK d : d = [at |-> "descend", rows |-> rows]
    OBVIOUS
  <2>16. d.at = "descend" /\ d.rows = rows
    BY <2>15
  <2>17. treeEdits' = [treeEdits EXCEPT ![k] = d] /\ UNCHANGED idsUsed
    BY <2>13, <2>14, <2>15 DEF Tree!Proceed
  <2>18. RowsOf(rows, C, path, rest)
    BY <1>5, <2>6, <2>12, <2>14, RowsAreListed
  <2>19. /\ rows \in Seq(Categories \X Seq(Slugs))
         /\ \A i \in DOMAIN rows : (rows[i][1] \in C /\ rows[i][2] = path) \/ \E j \in DOMAIN rest : rows[i] = rest[j]
         /\ \A o \in C : o \in Named(rows)
         /\ \A j \in DOMAIN rest : \E i \in DOMAIN rows : rows[i] = rest[j]
    BY <2>18 DEF RowsOf, Named
  <2>20. \A i \in DOMAIN rows : Len(rows[i][2]) >= 1
    BY <1>4, <1>5, <1>6, <2>6, <2>19
  <2>21. ASSUME NEW o \in Categories \ {c}, Tree!Listed(o), tree[o].parent = c PROVE o \in C
    BY <2>10, <2>11, <2>21 DEF Tree!ChildrenIn, Tree!Listed
  <2>22. Pending(k) \ {c} \subseteq Named(rows)
    <3>1. ASSUME NEW i \in DOMAIN was, was[i][1] # c PROVE was[i][1] \in Named(rows)
      <4>1. PICK j \in DOMAIN rest : was[i] = rest[j]
        BY <1>5, <3>1
      <4>2. PICK n \in DOMAIN rows : rows[n] = rest[j]
        BY <2>19
      <4> QED BY <4>1, <4>2 DEF Named
    <3> QED BY <1>2, <1>3, <3>1 DEF Pending
  <2>23. ASSUME ~disturbed PROVE Awaiting(rows, t) /\ p # c /\ Follows(Len(h), path, p)
    <3>1. /\ \A i, j \in DOMAIN was : was[i][1] = was[j][1] => i = j
          /\ \A i \in DOMAIN was :
               LET o == was[i][1] IN tree[o] # NoCategory /\ tree[o].parent # NoCategory /\ tree[tree[o].parent].path = was[i][2]
      BY <1>4, <2>23 DEF Awaiting
    <3>2. PICK A \in SUBSET Categories :
            /\ \A i \in DOMAIN was : was[i][1] \notin A /\ tree[was[i][1]].parent \in A
            /\ \A o \in A : tree[o] # NoCategory => tree[o].parent \in A \cup {NoCategory}
      BY <1>4, <2>23 DEF Awaiting
    <3>3. c \notin A /\ p \in A /\ p # NoCategory /\ tree[p].path = h
      BY <1>5, <2>4, <3>1, <3>2
    <3>4. p # c /\ p \in Categories /\ Tree!Listed(p)
      BY <2>5, <3>2, <3>3 DEF Tree!ParentExists
    <3>5. Follows(Len(h), path, p)
      <4>1. Len(tree[p].path) = tree[p].level + 1
        BY <3>4, ListedRow
      <4> QED BY <2>6, <3>3, <4>1 DEF Follows
    <3>6. \A j \in DOMAIN rest :
            LET o == rest[j][1]
            IN  /\ o # c /\ o \in Categories /\ o \notin A /\ tree[o] # NoCategory
                /\ tree[o].parent \in A /\ tree[o].parent # NoCategory /\ tree[tree[o].parent].path = rest[j][2]
      <4>1. ASSUME NEW j \in DOMAIN rest
            PROVE  LET o == rest[j][1]
                   IN  /\ o # c /\ o \in Categories /\ o \notin A /\ tree[o] # NoCategory
                       /\ tree[o].parent \in A /\ tree[o].parent # NoCategory /\ tree[tree[o].parent].path = rest[j][2]
        <5>1. PICK i \in DOMAIN was : i # 1 /\ rest[j] = was[i]
          BY <1>5
        <5>2. was[i] \in Categories \X Seq(Slugs)
          BY <1>4, InSequence
        <5>3. was[i][1] # c
          BY <1>5, <3>1, <5>1
        <5> QED BY <3>1, <3>2, <5>1, <5>2, <5>3
      <4> QED BY <4>1
    <3>7. \A o \in C : o # c /\ o \notin A /\ tree[o].parent = c /\ tree[o] # NoCategory
      <4>1. ASSUME NEW o \in C PROVE o # c /\ o \notin A /\ tree[o].parent = c /\ tree[o] # NoCategory
        <5>1. o # c /\ o \in Categories
          BY <2>7, <2>10, <2>12, <3>4
        <5>2. tree[o].parent = c /\ tree[o] # NoCategory
          BY <2>10, <2>12, <5>1
        <5>3. c # NoCategory
          BY <1>6, RecordAssumption
        <5> QED BY <3>2, <3>3, <5>1, <5>2, <5>3
      <4> QED BY <4>1
    <3>8. \A i, j \in DOMAIN rows : rows[i][1] = rows[j][1] => i = j
      <4>1. \A j \in DOMAIN rest : rest[j][1] \notin C
        <5>1. ASSUME NEW j \in DOMAIN rest, rest[j][1] \in C PROVE FALSE
          BY <3>3, <3>6, <3>7, <5>1
        <5> QED BY <5>1
      <4>2. \A i, j \in DOMAIN rest : rest[i][1] = rest[j][1] => i = j
        <5>1. ASSUME NEW i \in DOMAIN rest, NEW j \in DOMAIN rest, rest[i][1] = rest[j][1] PROVE i = j
          <6>1. i + 1 = j + 1
            BY <1>5, <3>1, <5>1
          <6>2. DOMAIN rest \subseteq Nat
            BY <1>5, LenProperties
          <6> QED BY <6>1, <6>2
        <5> QED BY <5>1
      <4> QED BY <2>18, <4>1, <4>2 DEF RowsOf
    <3>9. PICK B : B = A \cup {c}
      OBVIOUS
    <3>10. B \in SUBSET Categories /\ c \in B
      BY <1>6, <3>9
    <3>11. \A o \in B : t[o] # NoCategory => t[o].parent \in B \cup {NoCategory}
      <4>1. ASSUME NEW o \in B, t[o] # NoCategory PROVE t[o].parent \in B \cup {NoCategory}
        <5>1. CASE o = c
          BY <2>7, <2>10, <3>3, <3>9, <5>1
        <5>2. CASE o # c
          BY <2>10, <3>2, <3>9, <4>1, <5>2
        <5> QED BY <5>1, <5>2
      <4> QED BY <4>1
    <3>12. ASSUME NEW i \in DOMAIN rows
           PROVE  LET o == rows[i][1]
                  IN  t[o] # NoCategory /\ t[o].parent # NoCategory /\ t[t[o].parent].path = rows[i][2]
                      /\ o \notin B /\ t[o].parent \in B
      <4>1. CASE rows[i][1] \in C /\ rows[i][2] = path
        <5>1. PICK o : o = rows[i][1]
          OBVIOUS
        <5>2. o # c /\ o \notin A /\ t[o].parent = c /\ t[o] # NoCategory /\ c # NoCategory
          BY <1>6, <2>12, <3>7, <4>1, <5>1, RecordAssumption
        <5> QED BY <2>7, <2>10, <3>9, <4>1, <5>1, <5>2
      <4>2. CASE \E j \in DOMAIN rest : rows[i] = rest[j]
        <5>1. PICK j \in DOMAIN rest : rows[i] = rest[j]
          BY <4>2
        <5>2. PICK o, q : o = rows[i][1] /\ q = tree[o].parent
          OBVIOUS
        <5>3. /\ o # c /\ o \in Categories /\ o \notin A /\ tree[o] # NoCategory
              /\ q \in A /\ q # NoCategory /\ tree[q].path = rows[i][2]
          BY <3>6, <5>1, <5>2
        <5>4. t[o] = tree[o] /\ t[q] = tree[q] /\ o \notin B /\ q \in B
          BY <2>10, <3>2, <3>3, <3>9, <5>3
        <5> QED BY <5>2, <5>3, <5>4
      <4> QED BY <2>19, <4>1, <4>2
    <3>13. Awaiting(rows, t)
      BY <3>8, <3>10, <3>11, <3>12 DEF Awaiting
    <3> QED BY <3>4, <3>5, <3>13
  <2>24. ~disturbed => /\ Awaiting(rows, tree') /\ row.parent # c /\ Follows(row.level, row.path, row.parent)
                       /\ Pending(k) \ {c} \subseteq Named(rows)
                       /\ \A o \in Categories \ {c} : Tree!Listed(o) /\ tree[o].parent = c => o \in Named(rows)
    BY <2>7, <2>9, <2>19, <2>21, <2>22, <2>23
  <2>25. Len(row.path) = row.level + 1 /\ Len(row.path) <= MaxPath /\ Tree!ParentExists(row.parent)
    BY <2>1, <2>5, <2>6, <2>7
  <2>26. UNCHANGED idsUsed /\ UNCHANGED disturbed /\ tree' = [tree EXCEPT ![c] = row] /\ row \in CategoryRow
    BY <2>3, <2>7, <2>17
  <2>27. rows \in Seq(Categories \X Seq(Slugs))
    BY <2>19
  <2>28. Tree!Moves(k) /\ c \in Categories /\ Tree!Listed(c)
    BY <1>2, <1>6, <2>1
  <2>29. Places(k, c, row, rows)
    BY <2>16, <2>17, <2>26, <2>28 DEF Places
  <2>30. RowsFit(row, rows)
    BY <2>20, <2>25, <2>26, <2>27 DEF RowsFit
  <2>31. ~disturbed => NothingForgotten(k, c, row, rows)
    BY <2>24 DEF NothingForgotten
  <2> QED BY <2>28, <2>29, <2>30, <2>31, RowPlaced
<1> QED BY <1>9, <1>10

LEMMA TreeKept == TreeInv /\ [Tree!Next]_treeVars => TreeInv'
<1> SUFFICES ASSUME TreeInv, [Tree!Next]_treeVars PROVE TreeInv'
  OBVIOUS
<1>1. CASE Tree!Next
  <2>1. PICK k \in Keepers :
          \/ Tree!InsertNew(k) \/ Tree!Rename(k) \/ Tree!RemoveCategory(k) \/ Tree!Move(k) \/ Tree!Descend(k)
          \/ Tree!MoveEnds(k) \/ Tree!EditFails(k)
          \/ \E c \in Categories :
               \/ Tree!AskRename(k, c) \/ \E hard \in BOOLEAN : Tree!AskRemove(k, c, hard)
               \/ \E p \in Categories \cup {NoCategory} : Tree!AskNew(k, c, p) \/ Tree!AskMove(k, c, p)
    BY <1>1 DEF Tree!Next
  <2>2. CASE Tree!InsertNew(k)
    BY <2>2, InsertDone
  <2>3. CASE Tree!Rename(k)
    BY <2>3, RenameDone
  <2>4. CASE Tree!RemoveCategory(k)
    BY <2>4, RemoveDone
  <2>5. CASE Tree!Move(k)
    BY <2>5, MoveDone
  <2>6. CASE Tree!Descend(k)
    BY <2>6, DescendDone
  <2>7. CASE Tree!EditFails(k) \/ Tree!MoveEnds(k)
    BY <2>7, EditFailed
  <2>8. CASE \E c \in Categories :
               \/ Tree!AskRename(k, c) \/ \E hard \in BOOLEAN : Tree!AskRemove(k, c, hard)
               \/ \E p \in Categories \cup {NoCategory} : Tree!AskNew(k, c, p) \/ Tree!AskMove(k, c, p)
    <3>1. PICK c \in Categories :
            \/ Tree!AskRename(k, c) \/ \E hard \in BOOLEAN : Tree!AskRemove(k, c, hard)
            \/ \E p \in Categories \cup {NoCategory} : Tree!AskNew(k, c, p) \/ Tree!AskMove(k, c, p)
      BY <2>8
    <3>2. CASE Tree!AskRename(k, c) \/ \E hard \in BOOLEAN : Tree!AskRemove(k, c, hard)
      BY <3>2, RenameOrRemoveAsked
    <3>3. CASE \E p \in Categories \cup {NoCategory} : Tree!AskNew(k, c, p) \/ Tree!AskMove(k, c, p)
      BY <3>3, NewAsked, MoveAsked
    <3> QED BY <3>1, <3>2, <3>3
  <2> QED BY <2>1, <2>2, <2>3, <2>4, <2>5, <2>6, <2>7, <2>8
<1>2. CASE UNCHANGED treeVars
  <2>1. UNCHANGED <<tree, idsUsed, treeEdits, disturbed>>
    BY <1>2 DEF treeVars
  <2> QED BY <2>1 DEF TreeInv, TreeTyped, NewFits, Inserts, RenameFits, RemoveFits, MoveFits, DescendFits, Pending, Follows,
                      Tree!Listed, Tree!ParentExists, Tree!Moves, Tree!Grows
<1> QED BY <1>1, <1>2

LEMMA TreeAccounted == TreeInv => Tree!TypeOK /\ Tree!TreeIsSound
<1> SUFFICES ASSUME TreeInv PROVE Tree!TypeOK /\ Tree!TreeIsSound
  OBVIOUS
<1>1. Tree!TypeOK
  <2>1. ASSUME NEW c \in Categories, Tree!Listed(c)
        PROVE  Len(tree[c].path) \in 1..MaxPath /\ Tree!ParentExists(tree[c].parent)
    BY <2>1, ListedRow, RecordAssumption
  <2> QED BY <2>1 DEF Tree!TypeOK
<1>2. Tree!TreeIsSound
  <2>1. SUFFICES ASSUME ~disturbed, \A k \in Keepers : ~Tree!Moves(k), NEW c \in Categories, Tree!Listed(c)
                 PROVE  /\ Tree!Reached(c)
                        /\ (tree[c].parent = NoCategory => tree[c].level = 0 /\ Len(tree[c].path) = 1)
                        /\ tree[c].parent # NoCategory =>
                             /\ tree[c].level = tree[tree[c].parent].level + 1
                             /\ Tree!Front(tree[c].path) = tree[tree[c].parent].path
    BY DEF Tree!TreeIsSound
  <2>2. \A k \in Keepers, o \in Categories : o \notin Pending(k)
    BY <2>1 DEF Pending, Tree!Moves
  <2>3. \A o \in Categories : Tree!Listed(o) => Follows(tree[o].level, tree[o].path, tree[o].parent)
    BY <2>1, <2>2 DEF TreeInv
  <2>4. /\ (tree[c].parent = NoCategory => tree[c].level = 0 /\ Len(tree[c].path) = 1)
        /\ tree[c].parent # NoCategory =>
             /\ tree[c].level = tree[tree[c].parent].level + 1
             /\ Tree!Front(tree[c].path) = tree[tree[c].parent].path
    <3>1. Follows(tree[c].level, tree[c].path, tree[c].parent)
      BY <2>1, <2>3
    <3>2. Len(tree[c].path) = tree[c].level + 1
      BY <2>1, ListedRow
    <3>3. CASE tree[c].parent = NoCategory
      BY <3>1, <3>2, <3>3 DEF Follows
    <3>4. CASE tree[c].parent # NoCategory
      BY <3>1, <3>4 DEF Follows
    <3> QED BY <3>3, <3>4
  <2>5. ASSUME NEW S \in SUBSET (Categories \cup {NoCategory}), NoCategory \in S, Tree!HasChildren(S), c \notin S PROVE FALSE
    <3>1. PICK U : U = {o \in Categories : Tree!Listed(o) /\ o \notin S}
      OBVIOUS
    <3>2. U # {} /\ U \subseteq Categories
      BY <2>1, <2>5, <3>1
    <3>3. PICK level : level = [o \in Categories |-> tree[o].level]
      OBVIOUS
    <3>4. \A o \in U : level[o] \in Nat
      BY <3>1, <3>3, ListedRow
    <3>5. PICK o \in U : \A x \in U : level[o] <= level[x]
      BY <3>2, <3>4, LowestOf
    <3>6. o \in Categories /\ Tree!Listed(o) /\ o \notin S
      BY <3>1
    <3>7. PICK q : q = tree[o].parent
      OBVIOUS
    <3>8. q \in Categories \cup {NoCategory} /\ Tree!ParentExists(q)
      BY <3>6, <3>7, ListedRow
    <3>9. q \notin S
      BY <2>5, <3>6, <3>7 DEF Tree!HasChildren
    <3>10. q \in U
      BY <2>5, <3>1, <3>8, <3>9 DEF Tree!ParentExists
    <3>11. q # NoCategory /\ q \in Categories
      BY <2>5, <3>8, <3>9
    <3>12. tree[o].level = tree[q].level + 1
      BY <2>3, <3>6, <3>7, <3>11 DEF Follows
    <3>13. level[o] <= level[q] /\ level[q] \in Nat /\ level[o] = level[q] + 1
      BY <3>3, <3>4, <3>5, <3>6, <3>10, <3>11, <3>12
    <3> QED BY <3>13
  <2>6. Tree!Reached(c)
    BY <2>1, <2>5 DEF Tree!Reached, Tree!Below
  <2> QED BY <2>4, <2>6
<1> QED BY <1>1, <1>2

-----------------------------------------------------------------------------
(* Listings                                                                *)

\* A sequence of the elements of a finite set, each once, has them all.
LEMMA AllAreListed ==
  ASSUME NEW S, IsFiniteSet(S), NEW s \in [1..Cardinality(S) -> S],
         \A m, n \in 1..Cardinality(S) : m # n => s[m] # s[n]
  PROVE  /\ s \in Seq(S) /\ Len(s) = Cardinality(S) /\ DOMAIN s = 1..Cardinality(S) /\ Cardinality(S) \in Nat
         /\ \A x \in S : \E n \in DOMAIN s : s[n] = x
<1>1. PICK c : c = Cardinality(S) /\ c \in Nat
  BY FS_CardinalityType
<1>2. IsFiniteSet(1..c) /\ Cardinality(1..c) = c
  BY <1>1, FS_Interval
<1>3. s \in Injection(1..c, S)
  BY <1>1 DEF Injection, IsInjective
<1>4. s \in Surjection(1..c, S)
  BY <1>1, <1>2, <1>3, FS_Injection
<1>5. \A x \in S : \E n \in 1..c : s[n] = x
  BY <1>4 DEF Surjection
<1>6. s \in Seq(S) /\ Len(s) = c
  BY <1>1
<1> QED BY <1>1, <1>5, <1>6

\* In a strictly sorted one, as many are less than an element as come before it.
LEMMA PlaceOf ==
  ASSUME NEW S, IsFiniteSet(S), NEW s \in [1..Cardinality(S) -> S],
         \A m, n \in 1..Cardinality(S) : m # n => s[m] # s[n],
         NEW k, \A x \in S : k[x] \in Int,
         \A m, n \in 1..Cardinality(S) : m < n => k[s[m]] < k[s[n]],
         NEW n \in 1..Cardinality(S)
  PROVE  Cardinality({j \in S : k[j] < k[s[n]]}) = n - 1
<1>1. PICK c : c = Cardinality(S) /\ c \in Nat
  BY FS_CardinalityType
<1>2. PICK T : T = {j \in S : k[j] < k[s[n]]}
  OBVIOUS
<1>3. n \in 1..c /\ n - 1 \in Nat
  BY <1>1
<1>4. IsFiniteSet(1..n - 1) /\ Cardinality(1..n - 1) = n - 1
  BY <1>3, FS_Interval
<1>5. PICK f : f = [m \in 1..n - 1 |-> s[m]]
  OBVIOUS
<1>6. \A m \in 1..n - 1 : m \in 1..c /\ m < n
  BY <1>1, <1>3
<1>7. \A m \in 1..n - 1 : f[m] = s[m] /\ s[m] \in T
  BY <1>1, <1>2, <1>3, <1>5, <1>6
<1>8. f \in [1..n - 1 -> T]
  BY <1>5, <1>7
<1>9. \A x \in T : \E m \in 1..n - 1 : f[m] = x
  <2> SUFFICES ASSUME NEW x \in T PROVE \E m \in 1..n - 1 : f[m] = x
    OBVIOUS
  <2>1. x \in S /\ k[x] < k[s[n]]
    BY <1>2
  <2>2. PICK m \in 1..c : s[m] = x
    BY <1>1, <2>1, AllAreListed
  <2>3. m \in 1..n - 1
    <3>1. ~(n < m)
      <4> SUFFICES ASSUME n < m PROVE FALSE
        OBVIOUS
      <4>1. k[s[n]] < k[x] /\ k[x] \in Int /\ k[s[n]] \in Int
        BY <1>1, <2>1, <2>2
      <4> QED BY <2>1, <4>1
    <3>2. m # n
      <4> SUFFICES ASSUME m = n PROVE FALSE
        OBVIOUS
      <4>1. k[x] < k[x] /\ k[x] \in Int
        BY <2>1, <2>2
      <4> QED BY <4>1
    <3> QED BY <1>1, <1>3, <2>2, <3>1, <3>2
  <2> QED BY <1>7, <2>2, <2>3
<1>10. \A a, b \in 1..n - 1 : f[a] = f[b] => a = b
  BY <1>1, <1>6, <1>7
<1>11. f \in Bijection(1..n - 1, T)
  BY <1>8, <1>9, <1>10 DEF Bijection, Injection, Surjection, IsInjective
<1>12. ExistsBijection(1..n - 1, T)
  BY <1>11 DEF ExistsBijection
<1> QED BY <1>2, <1>4, <1>12, FS_Bijection

\* What a page has.
LEMMA TakeParts ==
  ASSUME NEW S, NEW s \in Seq(S), NEW skip \in Nat, NEW take \in Nat \ {0}, NEW p, p = List!Take(s, skip, take)
  PROVE  /\ p \in Seq(S) /\ DOMAIN p = 1..Len(p)
         /\ Len(p) = IF skip >= Len(s) THEN 0 ELSE IF skip + take < Len(s) THEN take ELSE Len(s) - skip
         /\ \A m \in 1..Len(p) : p[m] = s[skip + m]
         /\ p = <<>> <=> Len(p) = 0
<1>1. PICK len \in Nat : len = Len(s)
  BY LenProperties
<1>2. CASE skip >= len
  <2>1. p = <<>>
    BY <1>1, <1>2 DEF List!Take
  <2> QED BY <1>1, <1>2, <2>1, EmptySeq
<1>3. CASE ~(skip >= len)
  <2>0. PICK to : to = IF skip + take < len THEN skip + take ELSE len
    OBVIOUS
  <2>1. to \in Int /\ to = IF skip + take < len THEN skip + take ELSE len
    BY <1>1, <2>0
  <2>2. p = SubSeq(s, skip + 1, to)
    BY <1>1, <1>3, <2>1 DEF List!Take
  <2>3. skip + 1 \in Int /\ skip + 1 <= to /\ to <= len
    BY <1>1, <1>3, <2>1
  <2>4. \A i \in skip + 1..to : s[i] \in S
    <3>1. \A i \in skip + 1..to : i \in 1..Len(s)
      BY <1>1, <2>1, <2>3
    <3> QED BY <3>1, ElementOfSeq
  <2>5. /\ p \in Seq(S) /\ Len(p) = to - (skip + 1) + 1
        /\ \A i \in 1..to - (skip + 1) + 1 : p[i] = s[(skip + 1) + i - 1]
    BY <2>1, <2>2, <2>3, <2>4, SubSeqProperties
  <2>6. Len(p) = to - skip /\ \A i \in 1..Len(p) : p[i] = s[skip + i]
    <3>1. to - (skip + 1) + 1 = to - skip
      BY <2>1
    <3>2. \A i \in 1..to - skip : (skip + 1) + i - 1 = skip + i
      BY <2>1
    <3> QED BY <2>5, <3>1, <3>2
  <2>7. DOMAIN p = 1..Len(p) /\ (p = <<>> <=> Len(p) = 0)
    BY <2>5, LenProperties, EmptySeq
  <2>8. to - skip = IF skip + take < len THEN take ELSE len - skip
    BY <1>1, <2>1
  <2> QED BY <1>1, <1>3, <2>5, <2>6, <2>7, <2>8
<1> QED BY <1>1, <1>2, <1>3

\* A page shows an element once or not at all.
LEMMA OnThePage ==
  ASSUME NEW S, NEW s \in Seq(S), \A m, n \in 1..Len(s) : m # n => s[m] # s[n],
         NEW skip \in Nat, NEW take \in Nat \ {0}, NEW p, p = List!Take(s, skip, take), NEW n \in 1..Len(s)
  PROVE  Cardinality({m \in DOMAIN p : p[m] = s[n]}) = IF skip < n /\ n <= skip + take THEN 1 ELSE 0
<1>1. PICK len \in Nat : len = Len(s)
  BY LenProperties
<1>2. /\ p \in Seq(S) /\ DOMAIN p = 1..Len(p)
      /\ Len(p) = IF skip >= Len(s) THEN 0 ELSE IF skip + take < Len(s) THEN take ELSE Len(s) - skip
      /\ \A m \in 1..Len(p) : p[m] = s[skip + m]
  BY TakeParts
<1>3. PICK size \in Nat : size = Len(p)
  BY <1>2, LenProperties
<1>4. \A m \in 1..size : skip + m \in 1..len /\ skip + m <= skip + take
  BY <1>1, <1>2, <1>3
<1>5. \A m \in 1..size : p[m] = s[n] => skip + m = n
  BY <1>1, <1>2, <1>3, <1>4
<1>6. CASE skip < n /\ n <= skip + take
  <2>1. n - skip \in 1..size /\ skip + (n - skip) = n
    BY <1>1, <1>2, <1>3, <1>6
  <2>2. p[n - skip] = s[n]
    BY <1>2, <1>3, <2>1
  <2>3. {m \in DOMAIN p : p[m] = s[n]} = {n - skip}
    <3>1. DOMAIN p = 1..size
      BY <1>2, <1>3
    <3>2. \A m \in 1..size : p[m] = s[n] => m = n - skip
      BY <1>1, <1>3, <1>5
    <3> QED BY <2>1, <2>2, <3>1, <3>2
  <2> QED BY <1>6, <2>3, FS_Singleton
<1>7. CASE ~(skip < n /\ n <= skip + take)
  <2>1. {m \in DOMAIN p : p[m] = s[n]} = {}
    BY <1>1, <1>2, <1>3, <1>4, <1>5, <1>7
  <2> QED BY <1>7, <2>1, FS_EmptySet
<1> QED BY <1>6, <1>7

LEMMA CountsTheSame == \A S : List!Cardinality(S) = Cardinality(S)
BY DEF List!Cardinality, Cardinality

\* What is known of the rows that fit.
LEMMA RowsThatFit ==
  ASSUME ListTyped
  PROVE  /\ IsFiniteSet(List!Items) /\ List!Items = 0..MaxTicks - 1
         /\ List!Stored \subseteq List!Items /\ List!Matching(walk.q) \subseteq List!Stored
         /\ IsFiniteSet(List!Matching(walk.q)) /\ Cardinality(List!Matching(walk.q)) \in Nat
         /\ \A i \in List!Stored : items[i] \in ItemRow
         /\ \A r \in ItemRow : List!SortKey(r, walk.q) \in Int
         /\ \A i \in List!Stored : KeyOf(i) \in Int
<1>1. MaxTicks \in Nat /\ List!Items = 0..MaxTicks - 1
  BY RecordAssumption DEF List!Items
<1>2. IsFiniteSet(List!Items)
  BY <1>1, FS_Interval
<1>3. List!Stored \subseteq List!Items /\ List!Matching(walk.q) \subseteq List!Stored
  BY DEF List!Stored, List!Matching
<1>4. IsFiniteSet(List!Matching(walk.q))
  BY <1>2, <1>3, FS_Subset
<1>5. \A i \in List!Stored : items[i] \in ItemRow
  BY DEF List!Stored, ListTyped
<1>6. \A r \in Shapes : r.grade \in Int
  BY RecordAssumption
<1>7. \A r \in ItemRow : r.grade \in Int /\ r.made \in Int /\ r.touched \in Int
  BY <1>6 DEF ItemRow
<1>8. \A r \in ItemRow : List!SortKey(r, walk.q) \in Int
  BY <1>7 DEF List!SortKey
<1>9. \A i \in List!Stored : KeyOf(i) \in Int
  BY <1>5, <1>8 DEF KeyOf
<1>10. Cardinality(List!Matching(walk.q)) \in Nat
  BY <1>4, FS_CardinalityType
<1> QED BY <1>1, <1>2, <1>3, <1>4, <1>5, <1>8, <1>9, <1>10

\* As many rows come before a row.
LEMMA SomePrecede ==
  ASSUME ListTyped, NEW i
  PROVE  Precedes(i) \subseteq List!Matching(walk.q) /\ IsFiniteSet(Precedes(i)) /\ Cardinality(Precedes(i)) \in Nat
<1>1. Precedes(i) \subseteq List!Matching(walk.q)
  BY DEF Precedes
<1>2. IsFiniteSet(Precedes(i))
  BY <1>1, RowsThatFit, FS_Subset
<1> QED BY <1>1, <1>2, FS_CardinalityType

\* An order the database returns.
LEMMA AnOrder ==
  ASSUME ListTyped, NEW s \in List!Orders(walk.q)
  PROVE  /\ s \in [1..Cardinality(List!Matching(walk.q)) -> List!Matching(walk.q)]
         /\ \A m, n \in 1..Cardinality(List!Matching(walk.q)) : m # n => s[m] # s[n]
         /\ \A m, n \in 1..Cardinality(List!Matching(walk.q)) : m < n => KeyOf(s[m]) <= KeyOf(s[n])
         /\ s \in Seq(List!Matching(walk.q)) /\ Len(s) = Cardinality(List!Matching(walk.q))
<1>1. /\ s \in [1..Cardinality(List!Matching(walk.q)) -> List!Matching(walk.q)]
      /\ \A m, n \in 1..Cardinality(List!Matching(walk.q)) : m # n => s[m] # s[n]
      /\ \A m, n \in DOMAIN s : m < n => KeyOf(s[m]) <= KeyOf(s[n])
  BY CountsTheSame DEF List!Orders, List!SetToSeqs, KeyOf
<1>2. s \in Seq(List!Matching(walk.q)) /\ Len(s) = Cardinality(List!Matching(walk.q))
  BY <1>1, RowsThatFit, AllAreListed
<1> QED BY <1>1, <1>2

\* A row that fits stands where the number of those before it says.
LEMMA StandsAt ==
  ASSUME ListTyped, NEW s \in List!Orders(walk.q), ~List!Tied, NEW i \in List!Matching(walk.q)
  PROVE  /\ Cardinality(Precedes(i)) + 1 \in 1..Len(s) /\ s[Cardinality(Precedes(i)) + 1] = i
         /\ \A j \in List!Matching(walk.q) : KeyOf(i) > KeyOf(j) <=> Cardinality(Precedes(i)) > Cardinality(Precedes(j))
<1>1. PICK M, c : M = List!Matching(walk.q) /\ c = Cardinality(M)
  OBVIOUS
<1>2. /\ IsFiniteSet(M) /\ c \in Nat /\ M \subseteq List!Stored
      /\ s \in [1..c -> M] /\ Len(s) = c
      /\ \A m, n \in 1..c : m # n => s[m] # s[n]
      /\ \A m, n \in 1..c : m < n => KeyOf(s[m]) <= KeyOf(s[n])
  BY <1>1, AnOrder, RowsThatFit
<1>3. PICK k : k = [x \in M |-> KeyOf(x)]
  OBVIOUS
<1>4. \A x \in M : k[x] = KeyOf(x) /\ k[x] \in Int
  BY <1>2, <1>3, RowsThatFit
<1>5. \A m, n \in 1..c : m < n => k[s[m]] < k[s[n]]
  <2> SUFFICES ASSUME NEW m \in 1..c, NEW n \in 1..c, m < n PROVE k[s[m]] < k[s[n]]
    OBVIOUS
  <2>1. s[m] \in M /\ s[n] \in M /\ s[m] # s[n] /\ KeyOf(s[m]) <= KeyOf(s[n])
    BY <1>2
  <2>2. KeyOf(s[m]) # KeyOf(s[n])
    BY <1>1, <2>1 DEF List!Tied, KeyOf
  <2> QED BY <1>4, <2>1, <2>2
<1>6. \A n \in 1..c : Cardinality(Precedes(s[n])) = n - 1
  <2> SUFFICES ASSUME NEW n \in 1..c PROVE Cardinality(Precedes(s[n])) = n - 1
    OBVIOUS
  <2>1. Cardinality({j \in M : k[j] < k[s[n]]}) = n - 1
    BY <1>1, <1>2, <1>4, <1>5, PlaceOf
  <2>2. Precedes(s[n]) = {j \in M : k[j] < k[s[n]]}
    BY <1>1, <1>2, <1>4 DEF Precedes
  <2> QED BY <2>1, <2>2
<1>7. \A x \in M : \E n \in 1..c : s[n] = x /\ n = Cardinality(Precedes(x)) + 1
  <2> SUFFICES ASSUME NEW x \in M PROVE \E n \in 1..c : s[n] = x /\ n = Cardinality(Precedes(x)) + 1
    OBVIOUS
  <2>1. PICK n \in 1..c : s[n] = x
    BY <1>1, <1>2, AllAreListed
  <2>2. Cardinality(Precedes(x)) = n - 1
    BY <1>6, <2>1
  <2> QED BY <1>2, <2>1, <2>2
<1>8. \A j \in M : KeyOf(i) > KeyOf(j) <=> Cardinality(Precedes(i)) > Cardinality(Precedes(j))
  <2> SUFFICES ASSUME NEW j \in M PROVE KeyOf(i) > KeyOf(j) <=> Cardinality(Precedes(i)) > Cardinality(Precedes(j))
    OBVIOUS
  <2>1. PICK m \in 1..c : s[m] = i /\ m = Cardinality(Precedes(i)) + 1
    BY <1>1, <1>7
  <2>2. PICK n \in 1..c : s[n] = j /\ n = Cardinality(Precedes(j)) + 1
    BY <1>7
  <2>3. KeyOf(i) = k[s[m]] /\ KeyOf(j) = k[s[n]] /\ KeyOf(i) \in Int /\ KeyOf(j) \in Int
    BY <1>1, <1>4, <2>1, <2>2
  <2>4. Cardinality(Precedes(i)) \in Nat /\ Cardinality(Precedes(j)) \in Nat
    BY SomePrecede
  <2>5. KeyOf(i) > KeyOf(j) <=> m > n
    <3>1. CASE m < n
      BY <1>2, <1>5, <2>3, <3>1
    <3>2. CASE n < m
      BY <1>2, <1>5, <2>3, <3>2
    <3>3. CASE m = n
      BY <2>3, <3>3
    <3> QED BY <1>2, <3>1, <3>2, <3>3
  <2> QED BY <2>1, <2>2, <2>4, <2>5
<1> QED BY <1>1, <1>2, <1>7, <1>8

\* What reading a page shows, in whatever order equals come.
LEMMA PageShows ==
  ASSUME ListTyped, NEW p \in Seq(List!Matching(walk.q))
  PROVE  /\ List!Shows(p) \in [List!Items -> Nat]
         /\ \A i \in List!Items : List!Shows(p)[i] = walk.shown[i] + Cardinality({n \in DOMAIN p : p[n] = i})
         /\ \A i \in List!Items : List!Shows(p)[i] >= walk.shown[i]
<1>1. \A i \in List!Items : List!Shows(p)[i] = walk.shown[i] + Cardinality({n \in DOMAIN p : p[n] = i})
  BY CountsTheSame DEF List!Shows
<1>2. PICK c \in Nat : c = Len(p)
  BY LenProperties
<1>3. IsFiniteSet(DOMAIN p)
  <2>1. DOMAIN p = 1..c /\ c \in Int /\ 1 \in Int
    BY <1>2, LenProperties
  <2> QED BY <2>1, FS_Interval
<1>4. ASSUME NEW i \in List!Items PROVE walk.shown[i] \in Nat /\ Cardinality({n \in DOMAIN p : p[n] = i}) \in Nat
  <2>1. IsFiniteSet({n \in DOMAIN p : p[n] = i})
    BY <1>3, FS_Subset
  <2> QED BY <2>1, FS_CardinalityType DEF ListTyped
<1>5. DOMAIN List!Shows(p) = List!Items /\ List!Shows(p) = [i \in List!Items |-> List!Shows(p)[i]]
  BY DEF List!Shows
<1>6. ASSUME NEW i \in List!Items PROVE List!Shows(p)[i] \in Nat /\ List!Shows(p)[i] >= walk.shown[i]
  <2>1. PICK a \in Nat, b \in Nat : a = walk.shown[i] /\ b = Cardinality({n \in DOMAIN p : p[n] = i})
    BY <1>4
  <2>2. List!Shows(p)[i] = a + b
    BY <1>1, <2>1
  <2> QED BY <2>1, <2>2
<1> QED BY <1>1, <1>5, <1>6

\* When no two rows are equal, the page shows those whose place is on it.
LEMMA PageShowsItsPlaces ==
  ASSUME ListTyped, NEW s \in List!Orders(walk.q), ~List!Tied, NEW skip \in Nat, NEW take \in Nat \ {0},
         NEW p, p = List!Take(s, skip, take), NEW i \in List!Matching(walk.q)
  PROVE  List!Shows(p)[i] =
           walk.shown[i] + (IF skip <= Cardinality(Precedes(i)) /\ Cardinality(Precedes(i)) < skip + take THEN 1 ELSE 0)
<1>1. PICK n : n = Cardinality(Precedes(i)) + 1
  OBVIOUS
<1>2. n \in 1..Len(s) /\ s[n] = i /\ Cardinality(Precedes(i)) \in Nat
  BY <1>1, StandsAt, SomePrecede
<1>3. s \in Seq(List!Matching(walk.q)) /\ \A m, k \in 1..Len(s) : m # k => s[m] # s[k]
  BY AnOrder
<1>4. Cardinality({m \in DOMAIN p : p[m] = s[n]}) = IF skip < n /\ n <= skip + take THEN 1 ELSE 0
  BY <1>2, <1>3, OnThePage
<1>5. p \in Seq(List!Matching(walk.q)) /\ i \in List!Items
  BY <1>3, TakeParts, RowsThatFit
<1>6. List!Shows(p)[i] = walk.shown[i] + Cardinality({m \in DOMAIN p : p[m] = i})
  BY <1>5, PageShows
<1>7. (skip < n /\ n <= skip + take) <=> (skip <= Cardinality(Precedes(i)) /\ Cardinality(Precedes(i)) < skip + take)
  BY <1>1, <1>2
<1> QED BY <1>2, <1>4, <1>6, <1>7

\* What is to be shown of a step.
SeesAll == ~shaken => PagesFit /\ CursorFits /\ (walk.at = "done" => \A i \in steady : walk.shown[i] >= 1)

LEMMA ListFits == ListTyped /\ SeesAll => ListInv
<1> SUFFICES ASSUME ListTyped,
                    ~shaken => PagesFit /\ CursorFits /\ (walk.at = "done" => \A i \in steady : walk.shown[i] >= 1)
             PROVE  ListInv
  BY DEF SeesAll
<1>1. ASSUME ~shaken, List!Has(walk.q, "cursor"), NEW i \in steady PROVE walk.shown[i] <= 1
  <2>1. walk.at \in {"idle", "next", "done"}
    BY <1>1 DEF ListTyped, List!Counted
  <2>2. walk.at # "idle"
    BY <1>1 DEF ListTyped
  <2>3. CursorFits
    BY <1>1
  <2> QED BY <1>1, <2>1, <2>2, <2>3 DEF CursorFits
<1>2. List!NothingIsMissed
  BY <1>1 DEF List!NothingIsMissed
<1> QED BY <1>2 DEF ListInv

LEMMA ListFitsNext == ListTyped' /\ SeesAll' => ListInv'
BY ListFits, PTL

LEMMA ListStarts ==
  ASSUME List!Init
  PROVE  ListInv
<1>1. /\ items = [i \in List!Items |-> NoItemRow] /\ ticks = 0 /\ steady = {} /\ shaken = FALSE
      /\ \E q \in Queries :
           walk = [at |-> "idle", q |-> q, page |-> 1, total |-> 0, last |-> NoItemRow, shown |-> [i \in List!Items |-> 0]]
  BY DEF List!Init
<1>2. PICK q \in Queries :
        walk = [at |-> "idle", q |-> q, page |-> 1, total |-> 0, last |-> NoItemRow, shown |-> [i \in List!Items |-> 0]]
  BY <1>1
<1>3. PICK none : none = [i \in List!Items |-> 0]
  OBVIOUS
<1>4. none \in [List!Items -> Nat] /\ \A i \in List!Items : none[i] = 0
  BY <1>3
<1>5. /\ DOMAIN walk = {"at", "q", "page", "total", "last", "shown"}
      /\ walk.at = "idle" /\ walk.q = q /\ walk.page = 1 /\ walk.last = NoItemRow /\ walk.shown = none
  BY <1>2, <1>3
<1>6. List!Stored = {} /\ MaxTicks \in Nat
  BY <1>1, RecordAssumption DEF List!Stored
<1>7. ListTyped
  <2>1. items \in [List!Items -> ItemRow \cup {NoItemRow}] /\ ticks \in 0..MaxTicks /\ shaken \in BOOLEAN
    <3>1. 0 \in 0..MaxTicks
      BY <1>6
    <3>2. items \in [List!Items -> ItemRow \cup {NoItemRow}]
      BY <1>1
    <3> QED BY <1>1, <3>1, <3>2
  <2>2. \A i \in List!Stored : i < ticks /\ items[i].made <= items[i].touched /\ items[i].touched < ticks
    BY <1>6
  <2>3. walk.q \in Queries /\ walk.page \in Nat \ {0} /\ walk.shown \in [List!Items -> Nat]
    BY <1>4, <1>5
  <2>4. \A i \in List!Items : walk.shown[i] = 0
    BY <1>4, <1>5
  <2> QED BY <1>1, <1>5, <2>1, <2>2, <2>3, <2>4 DEF ListTyped
<1>8. PagesFit /\ CursorFits
  BY <1>1, <1>5 DEF PagesFit, CursorFits
<1>9. walk.at = "done" => \A i \in steady : walk.shown[i] >= 1
  BY <1>5
<1> QED BY <1>7, <1>8, <1>9, ListFits DEF SeesAll

-----------------------------------------------------------------------------
(* The rows change                                                         *)

\* What may become of a row.
LEMMA AlteredRow ==
  ASSUME ListTyped, NEW i \in List!Stored, NEW r \in List!Altered(i), r # NoItemRow
  PROVE  r \in ItemRow /\ r.made = items[i].made /\ (r.touched = items[i].touched \/ r.touched = ticks)
<1>1. PICK old \in ItemRow : old = items[i]
  BY RowsThatFit
<1>2. ticks \in Int /\ MaxTicks \in Nat
  BY RecordAssumption DEF ListTyped
<1>3. \/ r = [old EXCEPT !.touched = ticks] \/ r = [old EXCEPT !.live = ~old.live]
      \/ \E sh \in Shapes : r = [old EXCEPT !.grade = sh.grade] \/ r = [old EXCEPT !.kind = sh.kind]
  BY <1>1 DEF List!Altered
<1>4. CASE r = [old EXCEPT !.touched = ticks]
  BY <1>1, <1>2, <1>4 DEF ItemRow
<1>5. CASE r = [old EXCEPT !.live = ~old.live]
  <2>1. PICK b \in BOOLEAN : b = ~old.live
    OBVIOUS
  <2>2. r = [old EXCEPT !.live = b]
    BY <1>5, <2>1
  <2> QED BY <1>1, <2>2 DEF ItemRow
<1>6. CASE \E sh \in Shapes : r = [old EXCEPT !.grade = sh.grade] \/ r = [old EXCEPT !.kind = sh.kind]
  <2>1. PICK sh \in Shapes : r = [old EXCEPT !.grade = sh.grade] \/ r = [old EXCEPT !.kind = sh.kind]
    BY <1>6
  <2>2. PICK K, G : K = {s.kind : s \in Shapes} /\ G = {s.grade : s \in Shapes}
    OBVIOUS
  <2>3. PICK k \in K, g \in G : k = sh.kind /\ g = sh.grade
    BY <2>1, <2>2
  <2>4. old \in [kind : K, grade : G, live : BOOLEAN, made : Int, touched : Int]
    BY <2>2 DEF ItemRow
  <2>5. r = [old EXCEPT !.grade = g] \/ r = [old EXCEPT !.kind = k]
    BY <2>1, <2>3
  <2>6. r \in [kind : K, grade : G, live : BOOLEAN, made : Int, touched : Int] /\ r.made = old.made /\ r.touched = old.touched
    BY <2>4, <2>5
  <2> QED BY <1>1, <2>2, <2>6 DEF ItemRow
<1> QED BY <1>3, <1>4, <1>5, <1>6

\* Rows that come, and rows that go to the top, move the others down or not at
\* all: what is not yet shown is still ahead.
LEMMA StillAhead ==
  ASSUME ListTyped, PagesFit, CursorFits, walk' = walk, steady' \subseteq steady,
         List!Matching(walk.q) \subseteq List!Matching(walk.q)', List!Matching(walk.q)' \subseteq List!Items,
         \A i \in steady' : KeyOf(i)' = KeyOf(i),
         \A j \in List!Matching(walk.q) :
           KeyOf(j)' = KeyOf(j) \/ \A i \in List!Matching(walk.q) \ {j} : KeyOf(j)' < KeyOf(i),
         walk.at = "counted" => List!Matching(walk.q)' = List!Matching(walk.q),
         List!Has(walk.q, "cursor") => \A j \in List!Matching(walk.q) : KeyOf(j)' = KeyOf(j)
  PROVE  PagesFit' /\ CursorFits'
<1>1. ASSUME NEW i \in steady'
      PROVE  Cardinality(Precedes(i)) <= Cardinality(Precedes(i)') /\ Cardinality(Precedes(i)) \in Nat /\ Cardinality(Precedes(i)') \in Nat
  <2>1. i \in steady /\ i \in List!Matching(walk.q) /\ KeyOf(i)' = KeyOf(i) /\ KeyOf(i) \in Int
    BY <1>1, RowsThatFit DEF ListTyped
  <2>2. Precedes(i)' = {j \in List!Matching(walk.q)' : KeyOf(j)' < KeyOf(i)'}
    BY DEF Precedes
  <2>3. Precedes(i) \subseteq Precedes(i)'
    <3> SUFFICES ASSUME NEW j \in Precedes(i) PROVE j \in Precedes(i)'
      OBVIOUS
    <3>1. j \in List!Matching(walk.q) /\ KeyOf(j) < KeyOf(i) /\ KeyOf(j) \in Int
      BY RowsThatFit DEF Precedes
    <3>2. j # i
      BY <2>1, <3>1
    <3>3. KeyOf(j)' < KeyOf(i)
      BY <2>1, <3>1, <3>2
    <3>4. j \in List!Matching(walk.q)'
      BY <3>1
    <3> QED BY <2>1, <2>2, <3>3, <3>4
  <2>4. IsFiniteSet(Precedes(i)')
    <3>1. Precedes(i)' \subseteq List!Items /\ IsFiniteSet(List!Items)
      BY <2>2, RowsThatFit
    <3> QED BY <3>1, FS_Subset
  <2>5. Cardinality(Precedes(i)) <= Cardinality(Precedes(i)')
    BY <2>3, <2>4, FS_Subset
  <2>6. Cardinality(Precedes(i)') \in Nat
    BY <2>4, FS_CardinalityType
  <2> QED BY <2>5, <2>6, SomePrecede
<1>2. walk.page \in Nat /\ walk.q.limit \in Nat
  BY RecordAssumption DEF ListTyped
<1>3. PICK before, here : before = (walk.page - 1) * walk.q.limit /\ here = walk.page * walk.q.limit
  OBVIOUS
<1>4. before \in Int /\ here \in Int
  BY <1>2, <1>3
<1>5. PagesFit'
  <2> SUFFICES ASSUME ~List!Has(walk'.q, "cursor")
               PROVE  /\ \A i \in steady' :
                           walk'.shown[i] = 0 =>
                             /\ walk'.at \in {"next", "counted"} => (walk'.page - 1) * walk'.q.limit <= Cardinality(Precedes(i)')
                             /\ walk'.at = "paged" => walk'.page * walk'.q.limit <= Cardinality(Precedes(i)')
                      /\ walk'.at = "counted" => walk'.total = Cardinality(List!Matching(walk.q)')
    BY DEF PagesFit
  <2>1. ~List!Has(walk.q, "cursor")
    OBVIOUS
  <2>2. ASSUME NEW i \in steady', walk.shown[i] = 0
        PROVE  /\ walk.at \in {"next", "counted"} => before <= Cardinality(Precedes(i)')
               /\ walk.at = "paged" => here <= Cardinality(Precedes(i)')
    <3>1. /\ walk.at \in {"next", "counted"} => before <= Cardinality(Precedes(i))
          /\ walk.at = "paged" => here <= Cardinality(Precedes(i))
      BY <1>3, <2>1, <2>2 DEF PagesFit
    <3> QED BY <1>1, <1>4, <2>2, <3>1
  <2>3. walk.at = "counted" => walk.total = Cardinality(List!Matching(walk.q)')
    BY <2>1 DEF PagesFit
  <2> QED BY <1>3, <2>2, <2>3
<1>6. CursorFits'
  <2> SUFFICES ASSUME List!Has(walk'.q, "cursor")
               PROVE  /\ walk'.at = "next" /\ walk'.last = NoItemRow => walk'.page = 1 /\ \A i \in steady' : walk'.shown[i] = 0
                      /\ walk'.at = "next" /\ walk'.last # NoItemRow =>
                           /\ walk'.last \in List!Matching(walk.q)'
                           /\ \A i \in steady' : walk'.shown[i] = IF KeyOf(i)' > KeyOf(walk.last)' THEN 0 ELSE 1
                      /\ walk'.at = "done" => \A i \in steady' : walk'.shown[i] = 1
    BY DEF CursorFits
  <2>1. List!Has(walk.q, "cursor")
    OBVIOUS
  <2>2. ASSUME walk.at = "next", walk.last # NoItemRow
        PROVE  /\ walk.last \in List!Matching(walk.q)'
               /\ \A i \in steady' : walk.shown[i] = IF KeyOf(i)' > KeyOf(walk.last)' THEN 0 ELSE 1
    <3>1. /\ walk.last \in List!Matching(walk.q)
          /\ \A i \in steady : walk.shown[i] = IF KeyOf(i) > KeyOf(walk.last) THEN 0 ELSE 1
      BY <2>1, <2>2 DEF CursorFits
    <3>2. KeyOf(walk.last)' = KeyOf(walk.last)
      <4>1. \A j \in List!Matching(walk.q) : KeyOf(j)' = KeyOf(j)
        BY <2>1
      <4>2. PICK l : l = walk.last
        OBVIOUS
      <4>3. KeyOf(l)' = KeyOf(l)
        BY <3>1, <4>1, <4>2
      <4>4. walk'.last = l
        BY <4>2
      <4> QED BY <4>2, <4>3, <4>4 DEF KeyOf
    <3> QED BY <3>1, <3>2
  <2> QED BY <2>1, <2>2 DEF CursorFits
<1> QED BY <1>5, <1>6

\* A row that no other has been before comes.
LEMMA RowComes ==
  ASSUME ListInv, List!Enter
  PROVE  ListInv'
<1>1. ListTyped /\ (~shaken => PagesFit /\ CursorFits)
  BY DEF ListInv
<1>2. /\ walk.at # "done" /\ ticks < MaxTicks /\ ticks' = ticks + 1
      /\ shaken' = (shaken \/ walk.at = "counted") /\ walk' = walk /\ steady' = steady
  BY DEF List!Enter, List!Changes
<1>3. ticks \in Nat /\ MaxTicks \in Nat /\ shaken \in BOOLEAN
  <2>1. MaxTicks \in Nat
    BY RecordAssumption
  <2> QED BY <1>1, <2>1 DEF ListTyped
<1>4. PICK sh \in Shapes :
        items' = [items EXCEPT ![ticks] = [kind |-> sh.kind, grade |-> sh.grade, live |-> TRUE, made |-> ticks, touched |-> ticks]]
  BY DEF List!Enter
<1>5. PICK row : row = [kind |-> sh.kind, grade |-> sh.grade, live |-> TRUE, made |-> ticks, touched |-> ticks]
  OBVIOUS
<1>6. row \in ItemRow /\ row.made = ticks /\ row.touched = ticks
  <2>1. PICK K, G : K = {s.kind : s \in Shapes} /\ G = {s.grade : s \in Shapes}
    OBVIOUS
  <2>2. sh.kind \in K /\ sh.grade \in G
    BY <2>1
  <2>3. row \in [kind : K, grade : G, live : BOOLEAN, made : Int, touched : Int]
    BY <1>3, <1>5, <2>2
  <2> QED BY <1>5, <2>1, <2>3 DEF ItemRow
<1>7. items' = [items EXCEPT ![ticks] = row]
  BY <1>4, <1>5
<1>8. ticks \in List!Items /\ DOMAIN items = List!Items
  BY <1>1, <1>2, <1>3 DEF List!Items, ListTyped
<1>9. ticks \notin List!Stored
  BY <1>1, <1>3 DEF ListTyped
<1>10. /\ items'[ticks] = row /\ \A i \in List!Items : i # ticks => items'[i] = items[i]
       /\ items' \in [List!Items -> ItemRow \cup {NoItemRow}]
  BY <1>1, <1>6, <1>7, <1>8 DEF ListTyped
<1>11. List!Stored' = List!Stored \cup {ticks}
  <2>1. row # NoItemRow
    BY <1>6, RecordAssumption
  <2> QED BY <1>8, <1>10, <2>1 DEF List!Stored
<1>12. \A i \in List!Stored : i \in List!Items /\ i # ticks /\ items'[i] = items[i]
  BY <1>9, <1>10 DEF List!Stored
<1>13. List!Matching(walk.q) \subseteq List!Matching(walk.q)' /\ List!Matching(walk.q)' \subseteq List!Matching(walk.q) \cup {ticks}
  BY <1>2, <1>11, <1>12 DEF List!Matching, List!Fits
<1>14. \A i \in List!Stored : KeyOf(i)' = KeyOf(i)
  BY <1>2, <1>12 DEF KeyOf, List!SortKey
<1>15. ListTyped'
  <2>1. ticks' \in 0..MaxTicks /\ shaken' \in BOOLEAN
    BY <1>2, <1>3
  <2>2. ASSUME NEW i \in List!Stored' PROVE i < ticks' /\ items'[i].made <= items'[i].touched /\ items'[i].touched < ticks'
    <3>1. CASE i = ticks
      BY <1>2, <1>3, <1>6, <1>10, <3>1
    <3>2. CASE i \in List!Stored
      <4>1. i < ticks /\ items[i].made <= items[i].touched /\ items[i].touched < ticks /\ items'[i] = items[i]
        BY <1>1, <1>12, <3>2 DEF ListTyped
      <4>2. i \in Int /\ items[i].touched \in Int
        <5>1. items[i] \in ItemRow /\ i \in 0..MaxTicks - 1
          BY <1>1, <3>2, RowsThatFit
        <5> QED BY <1>3, <5>1 DEF ItemRow
      <4> QED BY <1>2, <1>3, <4>1, <4>2
    <3> QED BY <1>11, <3>1, <3>2
  <2>3. steady' \subseteq List!Matching(walk.q)'
    BY <1>1, <1>2, <1>13 DEF ListTyped
  <2>4. List!Counted' <=> List!Counted
    BY <1>2 DEF List!Counted, List!Has
  <2> QED BY <1>1, <1>2, <1>10, <2>1, <2>2, <2>3, <2>4 DEF ListTyped
<1>16. SeesAll'
  <2> SUFFICES ASSUME ~shaken' PROVE PagesFit' /\ CursorFits' /\ (walk'.at = "done" => \A i \in steady' : walk'.shown[i] >= 1)
    BY DEF SeesAll
  <2>1. ~shaken /\ walk.at # "counted"
    BY <1>2
  <2>2. PagesFit /\ CursorFits /\ List!Matching(walk.q) \subseteq List!Stored /\ List!Stored \subseteq List!Items
    BY <1>1, <2>1, RowsThatFit
  <2>3. List!Matching(walk.q)' \subseteq List!Items
    BY <1>8, <1>13, <2>2
  <2>4. \A j \in List!Matching(walk.q) : KeyOf(j)' = KeyOf(j)
    BY <1>14, <2>2
  <2>5. \A i \in steady' : KeyOf(i)' = KeyOf(i)
    BY <1>1, <1>2, <2>4 DEF ListTyped
  <2>6. \A j \in List!Matching(walk.q) :
          KeyOf(j)' = KeyOf(j) \/ \A i \in List!Matching(walk.q) \ {j} : KeyOf(j)' < KeyOf(i)
    BY <2>4
  <2>7. PagesFit' /\ CursorFits'
    BY <1>1, <1>2, <1>13, <2>1, <2>2, <2>3, <2>4, <2>5, <2>6, StillAhead
  <2> QED BY <1>2, <2>7
<1> QED BY <1>15, <1>16, ListFitsNext

\* A row is altered.
LEMMA RowAltered ==
  ASSUME ListInv, NEW i \in List!Items, List!Alter(i)
  PROVE  ListInv'
<1>1. ListTyped /\ (~shaken => PagesFit /\ CursorFits)
  BY DEF ListInv
<1>2. /\ i \in List!Stored /\ walk.at # "idle" /\ walk.at # "done" /\ ticks < MaxTicks /\ ticks' = ticks + 1 /\ walk' = walk
  BY DEF List!Alter, List!Changes
<1>3. ticks \in Nat /\ MaxTicks \in Nat /\ shaken \in BOOLEAN
  <2>1. MaxTicks \in Nat
    BY RecordAssumption
  <2> QED BY <1>1, <2>1 DEF ListTyped
<1>4. PICK r \in List!Altered(i) \ {items[i]} :
        LET was == i \in List!Matching(walk.q)
            is == r # NoItemRow /\ List!Fits(r, walk.q)
            moved == was /\ is /\ List!SortKey(r, walk.q) # List!SortKey(items[i], walk.q)
        IN  /\ is # was \/ moved
            /\ items' = [items EXCEPT ![i] = r]
            /\ steady' = IF is /\ ~moved THEN steady ELSE steady \ {i}
            /\ shaken' = (shaken \/ (was /\ ~is) \/ (is /\ ~was /\ walk.at = "counted") \/ (moved /\ List!Has(walk.q, "by")))
  BY DEF List!Alter
<1>5. PICK was, is, moved :
        /\ was = (i \in List!Matching(walk.q)) /\ is = (r # NoItemRow /\ List!Fits(r, walk.q))
        /\ moved = (was /\ is /\ List!SortKey(r, walk.q) # List!SortKey(items[i], walk.q))
  OBVIOUS
<1>6. /\ items' = [items EXCEPT ![i] = r] /\ steady' = IF is /\ ~moved THEN steady ELSE steady \ {i}
      /\ shaken' = (shaken \/ (was /\ ~is) \/ (is /\ ~was /\ walk.at = "counted") \/ (moved /\ List!Has(walk.q, "by")))
  BY <1>4, <1>5
<1>7. was <=> i \in List!Matching(walk.q)
  BY <1>5
<1>8. is <=> r # NoItemRow /\ List!Fits(r, walk.q)
  BY <1>5
<1>9. moved <=> was /\ is /\ List!SortKey(r, walk.q) # List!SortKey(items[i], walk.q)
  BY <1>5
<1>10. r # NoItemRow => r \in ItemRow /\ r.made = items[i].made /\ (r.touched = items[i].touched \/ r.touched = ticks)
  BY <1>1, <1>2, AlteredRow
<1>11. DOMAIN items = List!Items /\ List!Stored \subseteq List!Items /\ List!Matching(walk.q) \subseteq List!Stored
  BY <1>1, RowsThatFit DEF ListTyped
<1>12. /\ items'[i] = r /\ \A j \in List!Items : j # i => items'[j] = items[j]
       /\ items' \in [List!Items -> ItemRow \cup {NoItemRow}]
  BY <1>1, <1>6, <1>10, <1>11 DEF ListTyped
<1>13. \A j \in List!Items : j # i => (j \in List!Stored' <=> j \in List!Stored)
  BY <1>12 DEF List!Stored
<1>14. i \in List!Stored' <=> r # NoItemRow
  BY <1>12 DEF List!Stored
<1>15. \A j \in List!Items : j # i => (j \in List!Matching(walk.q)' <=> j \in List!Matching(walk.q))
  BY <1>2, <1>12, <1>13 DEF List!Matching, List!Fits
<1>16. i \in List!Matching(walk.q)' <=> is
  BY <1>2, <1>8, <1>12, <1>14 DEF List!Matching, List!Fits
<1>17. List!Matching(walk.q)' \subseteq List!Items /\ List!Stored' \subseteq List!Items
  BY DEF List!Matching, List!Stored
<1>18. \A j \in List!Items : j # i => KeyOf(j)' = KeyOf(j)
  BY <1>2, <1>12 DEF KeyOf, List!SortKey
<1>19. KeyOf(i)' = List!SortKey(r, walk.q) /\ KeyOf(i) = List!SortKey(items[i], walk.q)
  BY <1>2, <1>12 DEF KeyOf, List!SortKey
<1>20. ListTyped'
  <2>1. ticks' \in 0..MaxTicks
    BY <1>2, <1>3
  <2>2. shaken' \in BOOLEAN
    BY <1>3, <1>6
  <2>3. ASSUME NEW j \in List!Stored' PROVE j < ticks' /\ items'[j].made <= items'[j].touched /\ items'[j].touched < ticks'
    <3>1. j \in List!Stored /\ j \in List!Items
      BY <1>2, <1>13, <1>17
    <3>2. j < ticks /\ items[j].made <= items[j].touched /\ items[j].touched < ticks
      BY <1>1, <3>1 DEF ListTyped
    <3>3. j \in Int /\ items[j].made \in Int /\ items[j].touched \in Int
      <4>1. items[j] \in ItemRow /\ j \in 0..MaxTicks - 1
        BY <1>1, <3>1, RowsThatFit
      <4> QED BY <1>3, <4>1 DEF ItemRow
    <3>4. CASE j # i
      <4>1. items'[j] = items[j]
        BY <1>12, <3>1, <3>4
      <4> QED BY <1>2, <1>3, <3>2, <3>3, <4>1
    <3>5. CASE j = i
      <4>1. items'[j].made = items[j].made /\ (items'[j].touched = items[j].touched \/ items'[j].touched = ticks)
        BY <1>10, <1>12, <1>14, <3>5
      <4> QED BY <1>2, <1>3, <3>2, <3>3, <4>1
    <3> QED BY <3>4, <3>5
  <2>4. steady' \subseteq List!Matching(walk.q)'
    <3> SUFFICES ASSUME NEW j \in steady' PROVE j \in List!Matching(walk.q)'
      OBVIOUS
    <3>1. j \in steady /\ (j = i => is)
      BY <1>6
    <3>2. j \in List!Matching(walk.q) /\ j \in List!Items
      BY <1>1, <1>11, <3>1 DEF ListTyped
    <3> QED BY <1>15, <1>16, <3>1, <3>2
  <2>5. List!Counted' <=> List!Counted
    BY <1>2 DEF List!Counted, List!Has
  <2> QED BY <1>1, <1>2, <1>12, <2>1, <2>2, <2>3, <2>4, <2>5 DEF ListTyped
<1>21. SeesAll'
  <2> SUFFICES ASSUME ~shaken' PROVE PagesFit' /\ CursorFits' /\ (walk'.at = "done" => \A j \in steady' : walk'.shown[j] >= 1)
    BY DEF SeesAll
  <2>1. ~shaken /\ (was => is) /\ (walk.at = "counted" /\ is => was) /\ (moved => ~List!Has(walk.q, "by"))
    BY <1>6
  <2>2. PagesFit /\ CursorFits
    BY <1>1, <2>1
  <2>3. List!Matching(walk.q) \subseteq List!Matching(walk.q)'
    BY <1>7, <1>11, <1>15, <1>16, <2>1
  <2>4. walk.at = "counted" => List!Matching(walk.q)' = List!Matching(walk.q)
    BY <1>7, <1>11, <1>15, <1>16, <1>17, <2>1
  <2>5. ~moved /\ i \in List!Matching(walk.q) => KeyOf(i)' = KeyOf(i)
    BY <1>7, <1>9, <1>19, <2>1
  <2>6. \A j \in steady' : KeyOf(j)' = KeyOf(j)
    <3> SUFFICES ASSUME NEW j \in steady' PROVE KeyOf(j)' = KeyOf(j)
      OBVIOUS
    <3>1. j \in steady /\ (j = i => ~moved)
      BY <1>6
    <3>2. j \in List!Matching(walk.q) /\ j \in List!Items
      BY <1>1, <1>11, <3>1 DEF ListTyped
    <3> QED BY <1>18, <2>5, <3>1, <3>2
  \* What moves is a conversation that was answered: it goes to the top.
  <2>7. ASSUME moved
        PROVE  /\ walk.q.list = "conversations" /\ r.touched = ticks
               /\ KeyOf(i)' = -ticks
    <3>1. r \in ItemRow /\ r.made = items[i].made /\ (r.touched = items[i].touched \/ r.touched = ticks)
      BY <1>8, <1>9, <1>10, <2>7
    <3>2. ~List!Has(walk.q, "by") /\ List!SortKey(r, walk.q) # List!SortKey(items[i], walk.q)
      BY <1>9, <2>1, <2>7
    <3>3. walk.q.list = "conversations"
      BY <3>1, <3>2 DEF List!SortKey
    <3>4. r.touched # items[i].touched
      BY <3>2, <3>3 DEF List!SortKey
    <3>5. r.touched = ticks /\ List!SortKey(r, walk.q) = -ticks
      BY <3>1, <3>3, <3>4 DEF List!SortKey
    <3> QED BY <1>19, <3>3, <3>5
  <2>8. \A j \in List!Matching(walk.q) :
          KeyOf(j)' = KeyOf(j) \/ \A o \in List!Matching(walk.q) \ {j} : KeyOf(j)' < KeyOf(o)
    <3> SUFFICES ASSUME NEW j \in List!Matching(walk.q), KeyOf(j)' # KeyOf(j), NEW o \in List!Matching(walk.q) \ {j}
                 PROVE  KeyOf(j)' < KeyOf(o)
      OBVIOUS
    <3>1. j = i /\ moved
      BY <1>11, <1>18, <2>5
    <3>2. KeyOf(j)' = -ticks /\ walk.q.list = "conversations"
      BY <2>7, <3>1
    <3>3. o \in List!Stored /\ items[o].touched < ticks
      BY <1>1, <1>11 DEF ListTyped
    <3>4. items[o].touched \in Int
      <4>1. items[o] \in ItemRow
        BY <1>1, <3>3, RowsThatFit
      <4> QED BY <4>1 DEF ItemRow
    <3>5. KeyOf(o) = -items[o].touched
      BY <3>2 DEF KeyOf, List!SortKey
    <3> QED BY <1>3, <3>2, <3>3, <3>4, <3>5
  <2>9. List!Has(walk.q, "cursor") => \A j \in List!Matching(walk.q) : KeyOf(j)' = KeyOf(j)
    <3> SUFFICES ASSUME List!Has(walk.q, "cursor"), NEW j \in List!Matching(walk.q) PROVE KeyOf(j)' = KeyOf(j)
      OBVIOUS
    <3>1. walk.q.list = "products"
      <4>1. walk.q \in Queries
        BY <1>1 DEF ListTyped
      <4> QED BY <4>1, RecordAssumption DEF List!Has
    <3>2. ~moved
      BY <2>7, <3>1
    <3> QED BY <1>11, <1>18, <2>5, <3>2
  <2>10. steady' \subseteq steady
    BY <1>6
  <2>11. PagesFit' /\ CursorFits'
    BY <1>1, <1>2, <1>17, <2>2, <2>3, <2>4, <2>6, <2>8, <2>9, <2>10, StillAhead
  <2> QED BY <1>2, <2>11
<1> QED BY <1>20, <1>21, ListFitsNext

LEMMA PagesAdd ==
  ASSUME NEW page \in Nat \ {0}, NEW limit \in Nat
  PROVE  (page - 1) * limit \in Nat /\ (page - 1) * limit + limit = page * limit /\ (page + 1 - 1) * limit = page * limit
<1>1. PICK k \in Nat : k = page - 1
  OBVIOUS
<1>2. page = k + 1 /\ page + 1 - 1 = page
  BY <1>1
<1>3. k * limit \in Nat /\ (k + 1) * limit = k * limit + limit
  BY <1>1
<1> QED BY <1>1, <1>2, <1>3

\* As long as the rows stay, so does what is said of them.
LEMMA SameRows ==
  ASSUME items' = items, walk'.q = walk.q
  PROVE  /\ List!Stored' = List!Stored /\ List!Matching(walk.q)' = List!Matching(walk.q)
         /\ \A i : KeyOf(i)' = KeyOf(i)
         /\ \A i : Precedes(i)' = Precedes(i)
         /\ (List!Counted' <=> List!Counted)
<1>1. List!Stored' = List!Stored
  BY DEF List!Stored
<1>2. List!Matching(walk.q)' = List!Matching(walk.q)
  BY <1>1 DEF List!Matching, List!Fits
<1>3. \A i : KeyOf(i)' = KeyOf(i)
  BY DEF KeyOf, List!SortKey
<1>4. \A i : Precedes(i)' = Precedes(i)
  BY <1>2, <1>3 DEF Precedes
<1>5. List!Counted' <=> List!Counted
  BY DEF List!Counted, List!Has
<1> QED BY <1>1, <1>2, <1>3, <1>4, <1>5

\* The types of a step of the walk.
LEMMA WalkGoesOn ==
  ASSUME ListTyped, UNCHANGED <<items, ticks, steady>>, walk'.q = walk.q, shaken' \in BOOLEAN,
         DOMAIN walk' = {"at", "q", "page", "total", "last", "shown"}, walk'.at \in {"next", "counted", "paged", "done"},
         walk'.at \in {"counted", "paged"} => List!Counted, walk'.page \in Nat \ {0}, walk'.shown \in [List!Items -> Nat]
  PROVE  ListTyped'
<1>1. /\ List!Stored' = List!Stored /\ List!Matching(walk.q)' = List!Matching(walk.q)
      /\ (List!Counted' <=> List!Counted)
  BY SameRows
<1>2. walk'.at # "idle"
  OBVIOUS
<1> QED BY <1>1, <1>2 DEF ListTyped

LEMMA WalkBegins ==
  ASSUME ListInv, List!Begin
  PROVE  ListInv'
<1>1. ListTyped
  BY DEF ListInv
<1>2. /\ walk.at = "idle" /\ walk' = [walk EXCEPT !.at = "next"] /\ steady' = List!Matching(walk.q) /\ shaken' = FALSE
      /\ items' = items /\ ticks' = ticks
  BY DEF List!Begin
<1>3. /\ DOMAIN walk' = {"at", "q", "page", "total", "last", "shown"} /\ walk'.at = "next" /\ walk'.q = walk.q
      /\ walk'.page = walk.page /\ walk'.last = walk.last /\ walk'.shown = walk.shown
  BY <1>1, <1>2 DEF ListTyped
<1>4. /\ List!Stored' = List!Stored /\ List!Matching(walk.q)' = List!Matching(walk.q)
      /\ (List!Counted' <=> List!Counted)
  BY <1>2, <1>3, SameRows
<1>5. ListTyped'
  BY <1>1, <1>2, <1>3, <1>4 DEF ListTyped
<1>6. walk.page = 1 /\ walk.last = NoItemRow /\ \A i \in List!Items : walk.shown[i] = 0
  BY <1>1, <1>2 DEF ListTyped
<1>7. steady' \subseteq List!Items
  BY <1>1, <1>2, RowsThatFit
<1>8. PagesFit'
  <2>1. walk'.q.limit \in Nat
    <3>1. walk.q \in Queries
      BY <1>1 DEF ListTyped
    <3> QED BY <1>3, <3>1, RecordAssumption
  <2>2. (walk'.page - 1) * walk'.q.limit = 0
    <3>1. walk'.page - 1 = 0
      BY <1>3, <1>6
    <3> QED BY <2>1, <3>1
  <2>3. ASSUME NEW i \in steady' PROVE (walk'.page - 1) * walk'.q.limit <= Cardinality(Precedes(i)')
    <3>1. Precedes(i)' = Precedes(i)
      BY <1>2, <1>3, SameRows
    <3>2. Cardinality(Precedes(i)) \in Nat
      BY <1>1, SomePrecede
    <3> QED BY <2>2, <3>1, <3>2
  <2> QED BY <1>3, <2>3 DEF PagesFit
<1>9. CursorFits'
  BY <1>3, <1>6, <1>7 DEF CursorFits
<1> QED BY <1>3, <1>5, <1>8, <1>9, ListFitsNext DEF SeesAll

\* The page shows what stands on it, and is then behind.
LEMMA PageRead ==
  ASSUME ListTyped, NEW s \in List!Orders(walk.q), ~List!Tied, NEW p, p = List!Page(s, walk.page, walk.q.limit), NEW i \in steady,
         walk.shown[i] = 0 => (walk.page - 1) * walk.q.limit <= Cardinality(Precedes(i)),
         List!Shows(p)[i] = 0
  PROVE  walk.page * walk.q.limit <= Cardinality(Precedes(i))
<1>1. walk.page \in Nat \ {0} /\ walk.q.limit \in Nat \ {0} /\ i \in List!Matching(walk.q)
  BY RecordAssumption DEF ListTyped
<1>2. PICK skip \in Nat : skip = (walk.page - 1) * walk.q.limit
  BY <1>1, PagesAdd
<1>3. p = List!Take(s, skip, walk.q.limit)
  BY <1>2 DEF List!Page
<1>4. List!Shows(p)[i] =
        walk.shown[i] + (IF skip <= Cardinality(Precedes(i)) /\ Cardinality(Precedes(i)) < skip + walk.q.limit THEN 1 ELSE 0)
  BY <1>1, <1>3, PageShowsItsPlaces
<1>5. walk.shown[i] \in Nat /\ Cardinality(Precedes(i)) \in Nat
  BY <1>1, SomePrecede, RowsThatFit DEF ListTyped
<1>6. walk.shown[i] = 0 /\ ~(skip <= Cardinality(Precedes(i)) /\ Cardinality(Precedes(i)) < skip + walk.q.limit)
  BY <1>4, <1>5
<1>7. skip + walk.q.limit = walk.page * walk.q.limit
  BY <1>1, <1>2, PagesAdd
<1> QED BY <1>1, <1>2, <1>5, <1>6, <1>7

\* A row that fits comes after fewer rows than there are.
LEMMA FewerPrecede ==
  ASSUME ListTyped, NEW i \in List!Matching(walk.q)
  PROVE  /\ Cardinality(Precedes(i)) \in Nat /\ Cardinality(List!Matching(walk.q)) \in Nat
         /\ Cardinality(Precedes(i)) < Cardinality(List!Matching(walk.q))
<1>1. PICK M, P : M = List!Matching(walk.q) /\ P = Precedes(i)
  OBVIOUS
<1>2. IsFiniteSet(M) /\ P \subseteq M /\ Cardinality(P) \in Nat /\ Cardinality(M) \in Nat
  BY <1>1, RowsThatFit, SomePrecede
<1>3. i \notin P
  BY <1>1, RowsThatFit DEF Precedes
<1>4. Cardinality(P) <= Cardinality(M) /\ (Cardinality(M) = Cardinality(P) => M = P)
  BY <1>2, FS_Subset
<1>5. M # P
  BY <1>1, <1>3
<1> QED BY <1>1, <1>2, <1>4, <1>5

LEMMA RowsCounted ==
  ASSUME ListInv, List!CountRows
  PROVE  ListInv'
<1>1. ListTyped /\ (~shaken => PagesFit /\ CursorFits)
  BY DEF ListInv
<1>2. PICK c : c = Cardinality(List!Matching(walk.q))
  OBVIOUS
<1>3. /\ walk.at = "next" /\ List!Counted /\ walk' = [walk EXCEPT !.at = "counted", !.total = c]
      /\ items' = items /\ ticks' = ticks /\ steady' = steady /\ shaken' = shaken
  BY <1>2, CountsTheSame DEF List!CountRows
<1>4. /\ DOMAIN walk' = {"at", "q", "page", "total", "last", "shown"} /\ walk'.at = "counted" /\ walk'.q = walk.q
      /\ walk'.page = walk.page /\ walk'.last = walk.last /\ walk'.shown = walk.shown /\ walk'.total = c
  BY <1>1, <1>3 DEF ListTyped
<1>5. ListTyped'
  <2>1. walk.page \in Nat \ {0} /\ walk.shown \in [List!Items -> Nat] /\ shaken \in BOOLEAN
    BY <1>1 DEF ListTyped
  <2> QED BY <1>1, <1>3, <1>4, <2>1, WalkGoesOn
<1>6. ~List!Has(walk.q, "cursor") /\ ~List!Has(walk'.q, "cursor")
  BY <1>3, <1>4 DEF List!Counted
<1>7. SeesAll'
  <2> SUFFICES ASSUME ~shaken' PROVE PagesFit' /\ CursorFits' /\ (walk'.at = "done" => \A j \in steady' : walk'.shown[j] >= 1)
    BY DEF SeesAll
  <2>1. \A i \in steady : walk.shown[i] = 0 => (walk.page - 1) * walk.q.limit <= Cardinality(Precedes(i))
    BY <1>1, <1>3, <1>6 DEF PagesFit
  <2>2. List!Matching(walk.q)' = List!Matching(walk.q) /\ \A i : Precedes(i)' = Precedes(i)
    BY <1>3, <1>4, SameRows
  <2>3. PagesFit'
    BY <1>2, <1>3, <1>4, <2>1, <2>2 DEF PagesFit
  <2>4. CursorFits'
    BY <1>6 DEF CursorFits
  <2> QED BY <1>4, <2>3, <2>4
<1> QED BY <1>5, <1>7, ListFitsNext

\* A page of the list, after the count or before it.
LEMMA PageByNumber ==
  ASSUME ListTyped, NEW s \in List!Orders(walk.q), NEW p, p = List!Page(s, walk.page, walk.q.limit)
  PROVE  /\ walk.page \in Nat \ {0} /\ walk.q.limit \in Nat \ {0} /\ p \in Seq(List!Matching(walk.q))
         /\ List!Shows(p) \in [List!Items -> Nat]
<1>1. walk.page \in Nat \ {0} /\ walk.q.limit \in Nat \ {0}
  BY RecordAssumption DEF ListTyped
<1>2. p \in Seq(List!Matching(walk.q))
  <2>1. (walk.page - 1) * walk.q.limit \in Nat /\ s \in Seq(List!Matching(walk.q))
    BY <1>1, PagesAdd, AnOrder
  <2>2. p = List!Take(s, (walk.page - 1) * walk.q.limit, walk.q.limit)
    BY DEF List!Page
  <2>3. PICK skip \in Nat, take \in Nat \ {0} : skip = (walk.page - 1) * walk.q.limit /\ take = walk.q.limit
    BY <1>1, <2>1
  <2>4. PICK S : S = List!Matching(walk.q)
    OBVIOUS
  <2>5. s \in Seq(S) /\ p = List!Take(s, skip, take)
    BY <2>1, <2>2, <2>3, <2>4
  <2>6. p \in Seq(S)
    BY <2>5, TakeParts
  <2> QED BY <2>4, <2>6
<1> QED BY <1>1, <1>2, PageShows

LEMMA PageAfterCount ==
  ASSUME ListInv, List!ReadPage
  PROVE  ListInv'
<1>1. ListTyped /\ (~shaken => PagesFit /\ CursorFits)
  BY DEF ListInv
<1>2. /\ walk.at = "counted" /\ shaken' = (shaken \/ List!Tied)
      /\ items' = items /\ ticks' = ticks /\ steady' = steady
  BY DEF List!ReadPage
<1>3. PICK s \in List!Orders(walk.q) :
        walk' = [walk EXCEPT !.at = IF List!HasNext(walk.page, walk.q.limit, walk.total) THEN "next" ELSE "done",
                             !.page = @ + 1, !.shown = List!Shows(List!Page(s, walk.page, walk.q.limit))]
  BY DEF List!ReadPage
<1>4. PICK p, sh, at, pg :
        /\ p = List!Page(s, walk.page, walk.q.limit) /\ sh = List!Shows(p) /\ pg = walk.page + 1
        /\ at = IF List!HasNext(walk.page, walk.q.limit, walk.total) THEN "next" ELSE "done"
  OBVIOUS
<1>5. walk' = [walk EXCEPT !.at = at, !.page = pg, !.shown = sh]
  BY <1>3, <1>4
<1>6. /\ DOMAIN walk' = {"at", "q", "page", "total", "last", "shown"} /\ walk'.at = at /\ walk'.q = walk.q
      /\ walk'.page = pg /\ walk'.shown = sh
  BY <1>1, <1>5 DEF ListTyped
<1>7. walk.page \in Nat \ {0} /\ walk.q.limit \in Nat \ {0} /\ sh \in [List!Items -> Nat]
  BY <1>1, <1>4, PageByNumber
<1>8. at \in {"next", "done"} /\ pg \in Nat \ {0}
  BY <1>4, <1>7
<1>9. ListTyped'
  <2>1. shaken' \in BOOLEAN
    BY <1>1, <1>2 DEF ListTyped
  <2> QED BY <1>1, <1>2, <1>6, <1>7, <1>8, <2>1, WalkGoesOn
<1>10. ~List!Has(walk.q, "cursor") /\ ~List!Has(walk'.q, "cursor")
  BY <1>1, <1>2, <1>6 DEF ListTyped, List!Counted
<1>11. SeesAll'
  <2> SUFFICES ASSUME ~shaken' PROVE PagesFit' /\ CursorFits' /\ (walk'.at = "done" => \A j \in steady' : walk'.shown[j] >= 1)
    BY DEF SeesAll
  <2>1. ~shaken /\ ~List!Tied
    BY <1>2
  <2>2. /\ \A i \in steady : walk.shown[i] = 0 => (walk.page - 1) * walk.q.limit <= Cardinality(Precedes(i))
        /\ walk.total = Cardinality(List!Matching(walk.q))
    BY <1>1, <1>2, <1>10, <2>1 DEF PagesFit
  <2>3. \A i \in steady : sh[i] = 0 => walk.page * walk.q.limit <= Cardinality(Precedes(i))
    BY <1>1, <1>4, <2>1, <2>2, PageRead
  <2>4. \A i : Precedes(i)' = Precedes(i)
    BY <1>2, <1>6, SameRows
  <2>5. (pg - 1) * walk.q.limit = walk.page * walk.q.limit
    BY <1>4, <1>7, PagesAdd
  <2>6. PagesFit'
    BY <1>2, <1>6, <1>8, <2>3, <2>4, <2>5 DEF PagesFit
  <2>7. CursorFits'
    BY <1>10 DEF CursorFits
  <2>8. ASSUME at = "done", NEW i \in steady PROVE sh[i] >= 1
    <3>1. ~(walk.page * walk.q.limit < Cardinality(List!Matching(walk.q)))
      BY <1>4, <2>2, <2>8 DEF List!HasNext
    <3>2. /\ Cardinality(Precedes(i)) \in Nat /\ Cardinality(List!Matching(walk.q)) \in Nat
          /\ Cardinality(Precedes(i)) < Cardinality(List!Matching(walk.q))
      BY <1>1, FewerPrecede DEF ListTyped
    <3>3. walk.page * walk.q.limit \in Nat
      BY <1>7
    <3>4. sh[i] # 0
      BY <2>3, <3>1, <3>2, <3>3
    <3>5. sh[i] \in Nat
      BY <1>1, <1>7, RowsThatFit DEF ListTyped
    <3> QED BY <3>4, <3>5
  <2> QED BY <1>2, <1>6, <2>6, <2>7, <2>8
<1> QED BY <1>9, <1>11, ListFitsNext

LEMMA PageBeforeCount ==
  ASSUME ListInv, List!ReadPageFirst
  PROVE  ListInv'
<1>1. ListTyped /\ (~shaken => PagesFit /\ CursorFits)
  BY DEF ListInv
<1>2. /\ walk.at = "next" /\ List!Counted /\ shaken' = (shaken \/ List!Tied)
      /\ items' = items /\ ticks' = ticks /\ steady' = steady
  BY DEF List!ReadPageFirst
<1>3. PICK s \in List!Orders(walk.q) :
        walk' = [walk EXCEPT !.at = "paged", !.shown = List!Shows(List!Page(s, walk.page, walk.q.limit))]
  BY DEF List!ReadPageFirst
<1>4. PICK p, sh : p = List!Page(s, walk.page, walk.q.limit) /\ sh = List!Shows(p)
  OBVIOUS
<1>5. walk' = [walk EXCEPT !.at = "paged", !.shown = sh]
  BY <1>3, <1>4
<1>6. /\ DOMAIN walk' = {"at", "q", "page", "total", "last", "shown"} /\ walk'.at = "paged" /\ walk'.q = walk.q
      /\ walk'.page = walk.page /\ walk'.shown = sh
  BY <1>1, <1>5 DEF ListTyped
<1>7. walk.page \in Nat \ {0} /\ walk.q.limit \in Nat \ {0} /\ sh \in [List!Items -> Nat]
  BY <1>1, <1>4, PageByNumber
<1>8. ListTyped'
  <2>1. shaken' \in BOOLEAN
    BY <1>1, <1>2 DEF ListTyped
  <2> QED BY <1>1, <1>2, <1>6, <1>7, <2>1, WalkGoesOn
<1>9. ~List!Has(walk.q, "cursor") /\ ~List!Has(walk'.q, "cursor")
  BY <1>2, <1>6 DEF List!Counted
<1>10. SeesAll'
  <2> SUFFICES ASSUME ~shaken' PROVE PagesFit' /\ CursorFits' /\ (walk'.at = "done" => \A j \in steady' : walk'.shown[j] >= 1)
    BY DEF SeesAll
  <2>1. ~shaken /\ ~List!Tied
    BY <1>2
  <2>2. \A i \in steady : walk.shown[i] = 0 => (walk.page - 1) * walk.q.limit <= Cardinality(Precedes(i))
    BY <1>1, <1>2, <1>9, <2>1 DEF PagesFit
  <2>3. \A i \in steady : sh[i] = 0 => walk.page * walk.q.limit <= Cardinality(Precedes(i))
    BY <1>1, <1>4, <2>1, <2>2, PageRead
  <2>4. \A i : Precedes(i)' = Precedes(i)
    BY <1>2, <1>6, SameRows
  <2>5. PagesFit'
    BY <1>2, <1>6, <2>3, <2>4 DEF PagesFit
  <2>6. CursorFits'
    BY <1>9 DEF CursorFits
  <2> QED BY <1>6, <2>5, <2>6
<1> QED BY <1>8, <1>10, ListFitsNext

LEMMA CountAfterPage ==
  ASSUME ListInv, List!CountRowsAfter
  PROVE  ListInv'
<1>1. ListTyped /\ (~shaken => PagesFit /\ CursorFits)
  BY DEF ListInv
<1>2. walk.at = "paged" /\ items' = items /\ ticks' = ticks /\ steady' = steady /\ shaken' = shaken
  BY DEF List!CountRowsAfter
<1>3. PICK at, pg :
        /\ at = IF List!HasNext(walk.page, walk.q.limit, Cardinality(List!Matching(walk.q))) THEN "next" ELSE "done"
        /\ pg = walk.page + 1
  OBVIOUS
<1>4. walk' = [walk EXCEPT !.at = at, !.page = pg]
  BY <1>3, CountsTheSame DEF List!CountRowsAfter
<1>5. /\ DOMAIN walk' = {"at", "q", "page", "total", "last", "shown"} /\ walk'.at = at /\ walk'.q = walk.q
      /\ walk'.page = pg /\ walk'.shown = walk.shown
  BY <1>1, <1>4 DEF ListTyped
<1>6. walk.page \in Nat \ {0} /\ walk.q.limit \in Nat \ {0} /\ walk.shown \in [List!Items -> Nat]
  BY <1>1, RecordAssumption DEF ListTyped
<1>7. at \in {"next", "done"} /\ pg \in Nat \ {0}
  BY <1>3, <1>6
<1>8. ListTyped'
  <2>1. shaken' \in BOOLEAN
    BY <1>1, <1>2 DEF ListTyped
  <2> QED BY <1>1, <1>2, <1>5, <1>6, <1>7, <2>1, WalkGoesOn
<1>9. ~List!Has(walk.q, "cursor") /\ ~List!Has(walk'.q, "cursor")
  BY <1>1, <1>2, <1>5 DEF ListTyped, List!Counted
<1>10. SeesAll'
  <2> SUFFICES ASSUME ~shaken' PROVE PagesFit' /\ CursorFits' /\ (walk'.at = "done" => \A j \in steady' : walk'.shown[j] >= 1)
    BY DEF SeesAll
  <2>1. \A i \in steady : walk.shown[i] = 0 => walk.page * walk.q.limit <= Cardinality(Precedes(i))
    BY <1>1, <1>2, <1>9 DEF PagesFit
  <2>2. \A i : Precedes(i)' = Precedes(i)
    BY <1>2, <1>5, SameRows
  <2>3. (pg - 1) * walk.q.limit = walk.page * walk.q.limit
    BY <1>3, <1>6, PagesAdd
  <2>4. PagesFit'
    BY <1>2, <1>5, <1>7, <2>1, <2>2, <2>3 DEF PagesFit
  <2>5. CursorFits'
    BY <1>9 DEF CursorFits
  <2>6. ASSUME at = "done", NEW i \in steady PROVE walk.shown[i] >= 1
    <3>1. ~(walk.page * walk.q.limit < Cardinality(List!Matching(walk.q)))
      BY <1>3, <2>6 DEF List!HasNext
    <3>2. /\ Cardinality(Precedes(i)) \in Nat /\ Cardinality(List!Matching(walk.q)) \in Nat
          /\ Cardinality(Precedes(i)) < Cardinality(List!Matching(walk.q))
      BY <1>1, FewerPrecede DEF ListTyped
    <3>3. walk.page * walk.q.limit \in Nat
      BY <1>6
    <3>4. walk.shown[i] # 0
      BY <2>1, <3>1, <3>2, <3>3
    <3>5. walk.shown[i] \in Nat
      BY <1>1, <1>6, RowsThatFit DEF ListTyped
    <3> QED BY <3>4, <3>5
  <2> QED BY <1>2, <1>5, <2>4, <2>5, <2>6
<1> QED BY <1>8, <1>10, ListFitsNext

\* What comes after the first skip rows: what was before has been shown once, and
\* what is on the page is now.
LEMMA AfterSkipped ==
  ASSUME ListTyped, NEW s \in List!Orders(walk.q), ~List!Tied, NEW skip \in Nat, NEW limit \in Nat \ {0},
         NEW p, p = List!Take(s, skip, limit),
         \A i \in steady : walk.shown[i] = IF Cardinality(Precedes(i)) >= skip THEN 0 ELSE 1
  PROVE  /\ Len(p) = limit =>
              /\ p # <<>> /\ List!Last(p) \in List!Matching(walk.q)
              /\ \A i \in steady : List!Shows(p)[i] = IF KeyOf(i) > KeyOf(List!Last(p)) THEN 0 ELSE 1
         /\ Len(p) # limit => \A i \in steady : List!Shows(p)[i] = 1
<1>1. s \in Seq(List!Matching(walk.q)) /\ Len(s) = Cardinality(List!Matching(walk.q))
  BY AnOrder
<1>2. PICK len \in Nat : len = Len(s)
  BY <1>1, LenProperties
<1>3. /\ p \in Seq(List!Matching(walk.q)) /\ DOMAIN p = 1..Len(p)
      /\ Len(p) = IF skip >= len THEN 0 ELSE IF skip + limit < len THEN limit ELSE len - skip
      /\ \A m \in 1..Len(p) : p[m] = s[skip + m]
      /\ p = <<>> <=> Len(p) = 0
  BY <1>1, <1>2, TakeParts
<1>4. ASSUME NEW i \in steady
      PROVE  /\ Cardinality(Precedes(i)) \in Nat /\ Cardinality(Precedes(i)) < len /\ i \in List!Matching(walk.q)
             /\ List!Shows(p)[i] = IF Cardinality(Precedes(i)) >= skip + limit THEN 0 ELSE 1
  <2>1. i \in List!Matching(walk.q)
    BY DEF ListTyped
  <2>2. Cardinality(Precedes(i)) \in Nat /\ Cardinality(Precedes(i)) < len
    BY <1>1, <1>2, <2>1, FewerPrecede
  <2>3. List!Shows(p)[i] =
          walk.shown[i] + (IF skip <= Cardinality(Precedes(i)) /\ Cardinality(Precedes(i)) < skip + limit THEN 1 ELSE 0)
    BY <2>1, PageShowsItsPlaces
  <2> QED BY <2>1, <2>2, <2>3
<1>5. ASSUME Len(p) = limit
      PROVE  /\ p # <<>> /\ List!Last(p) \in List!Matching(walk.q)
             /\ \A i \in steady : List!Shows(p)[i] = IF KeyOf(i) > KeyOf(List!Last(p)) THEN 0 ELSE 1
  <2>1. PICK l : l = List!Last(p)
    OBVIOUS
  <2>2. l = p[limit] /\ p[limit] = s[skip + limit] /\ skip + limit \in 1..len /\ p # <<>>
    <3>1. l = p[Len(p)]
      BY <2>1 DEF List!Last
    <3>2. skip + limit \in 1..len
      BY <1>2, <1>3, <1>5
    <3> QED BY <1>3, <1>5, <3>1, <3>2
  <2>3. l \in List!Matching(walk.q)
    BY <1>1, <1>2, <2>2, ElementOfSeq
  <2>4. Cardinality(Precedes(l)) = skip + limit - 1
    <3>1. PICK n : n = Cardinality(Precedes(l)) + 1
      OBVIOUS
    <3>2. n \in 1..len /\ s[n] = l /\ Cardinality(Precedes(l)) \in Nat
      BY <1>2, <2>3, <3>1, StandsAt, SomePrecede
    <3>3. n = skip + limit
      BY <1>1, <1>2, <2>2, <3>2, AnOrder
    <3> QED BY <3>1, <3>2, <3>3
  <2>5. ASSUME NEW i \in steady PROVE List!Shows(p)[i] = IF KeyOf(i) > KeyOf(l) THEN 0 ELSE 1
    <3>1. KeyOf(i) > KeyOf(l) <=> Cardinality(Precedes(i)) > Cardinality(Precedes(l))
      BY <1>4, <2>3, StandsAt
    <3>2. KeyOf(i) > KeyOf(l) <=> Cardinality(Precedes(i)) >= skip + limit
      BY <1>4, <2>4, <3>1
    <3> QED BY <1>4, <3>2
  <2> QED BY <2>1, <2>2, <2>3, <2>5
<1>6. ASSUME Len(p) # limit, NEW i \in steady PROVE List!Shows(p)[i] = 1
  <2>1. len <= skip + limit
    BY <1>2, <1>3, <1>6
  <2> QED BY <1>2, <1>4, <2>1
<1> QED BY <1>5, <1>6

LEMMA ReadFurther ==
  ASSUME ListInv, List!ReadOn
  PROVE  ListInv'
<1>1. ListTyped /\ (~shaken => PagesFit /\ CursorFits)
  BY DEF ListInv
<1>2. /\ walk.at = "next" /\ ~List!Counted /\ shaken' = (shaken \/ List!Tied)
      /\ items' = items /\ ticks' = ticks /\ steady' = steady
  BY DEF List!ReadOn
<1>3. PICK s \in List!Orders(walk.q) :
        LET page == IF ~List!Has(walk.q, "cursor") \/ walk.last = NoItemRow THEN List!Page(s, walk.page, walk.q.limit)
                    ELSE List!PageAfter(s, walk.last, walk.q.limit)
        IN  walk' = [walk EXCEPT !.at = IF Len(page) = walk.q.limit THEN "next" ELSE "done", !.page = @ + 1,
                                 !.last = IF page = <<>> THEN @ ELSE List!Last(page), !.shown = List!Shows(page)]
  BY DEF List!ReadOn
<1>4. PICK p : p = IF ~List!Has(walk.q, "cursor") \/ walk.last = NoItemRow THEN List!Page(s, walk.page, walk.q.limit)
                   ELSE List!PageAfter(s, walk.last, walk.q.limit)
  OBVIOUS
<1>5. PICK sh, at, pg, l :
        /\ sh = List!Shows(p) /\ at = (IF Len(p) = walk.q.limit THEN "next" ELSE "done") /\ pg = walk.page + 1
        /\ l = IF p = <<>> THEN walk.last ELSE List!Last(p)
  OBVIOUS
<1>6. walk' = [walk EXCEPT !.at = at, !.page = pg, !.last = l, !.shown = sh]
  BY <1>3, <1>4, <1>5
<1>7. /\ DOMAIN walk' = {"at", "q", "page", "total", "last", "shown"} /\ walk'.at = at /\ walk'.q = walk.q
      /\ walk'.page = pg /\ walk'.last = l /\ walk'.shown = sh
  BY <1>1, <1>6 DEF ListTyped
<1>8. walk.page \in Nat \ {0} /\ walk.q.limit \in Nat \ {0}
  BY <1>1, RecordAssumption DEF ListTyped
<1>9. at \in {"next", "done"} /\ pg \in Nat \ {0}
  BY <1>5, <1>8
<1>10. p \in Seq(List!Matching(walk.q))
  <2>1. CASE ~List!Has(walk.q, "cursor") \/ walk.last = NoItemRow
    BY <1>1, <1>4, <2>1, PageByNumber
  <2>2. CASE ~(~List!Has(walk.q, "cursor") \/ walk.last = NoItemRow)
    <3>1. p = List!PageAfter(s, walk.last, walk.q.limit)
      BY <1>4, <2>2
    <3>2. PICK where : where = {n \in DOMAIN s : s[n] = walk.last}
      OBVIOUS
    <3>3. s \in Seq(List!Matching(walk.q))
      BY <1>1, AnOrder
    <3>4. CASE where = {}
      <4>1. p = <<>>
        BY <3>1, <3>2, <3>4 DEF List!PageAfter
      <4> QED BY <4>1, EmptySeq
    <3>5. CASE where # {}
      <4>1. PICK n \in where : n = CHOOSE m \in where : TRUE
        BY <3>5
      <4>2. p = List!Take(s, n, walk.q.limit)
        BY <3>1, <3>2, <3>5, <4>1 DEF List!PageAfter
      <4>3. n \in Nat
        <5>1. n \in DOMAIN s
          BY <3>2
        <5>2. DOMAIN s = 1..Len(s)
          BY <3>3, LenProperties
        <5> QED BY <5>1, <5>2
      <4> QED BY <1>8, <3>3, <4>2, <4>3, TakeParts
    <3> QED BY <3>4, <3>5
  <2> QED BY <2>1, <2>2
<1>11. ListTyped'
  <2>1. shaken' \in BOOLEAN
    BY <1>1, <1>2 DEF ListTyped
  <2>2. sh \in [List!Items -> Nat]
    BY <1>1, <1>5, <1>10, PageShows
  <2> QED BY <1>1, <1>2, <1>7, <1>9, <2>1, <2>2, WalkGoesOn
<1>12. SeesAll'
  <2> SUFFICES ASSUME ~shaken' PROVE PagesFit' /\ CursorFits' /\ (walk'.at = "done" => \A j \in steady' : walk'.shown[j] >= 1)
    BY DEF SeesAll
  <2>1. ~shaken /\ ~List!Tied
    BY <1>2
  <2>2. /\ List!Matching(walk.q)' = List!Matching(walk.q) /\ \A i : Precedes(i)' = Precedes(i)
        /\ \A i : KeyOf(i)' = KeyOf(i)
    BY <1>2, <1>7, SameRows
  <2>3. PagesFit /\ CursorFits
    BY <1>1, <2>1
  <2>4. CASE ~List!Has(walk.q, "cursor")
    <3>1. p = List!Page(s, walk.page, walk.q.limit) /\ ~List!Has(walk'.q, "cursor")
      BY <1>4, <1>7, <2>4
    <3>2. \A i \in steady : walk.shown[i] = 0 => (walk.page - 1) * walk.q.limit <= Cardinality(Precedes(i))
      BY <1>2, <2>3, <2>4 DEF PagesFit
    <3>3. \A i \in steady : sh[i] = 0 => walk.page * walk.q.limit <= Cardinality(Precedes(i))
      BY <1>1, <1>5, <2>1, <3>1, <3>2, PageRead
    <3>4. (pg - 1) * walk.q.limit = walk.page * walk.q.limit
      BY <1>5, <1>8, PagesAdd
    <3>5. PagesFit'
      BY <1>2, <1>7, <1>9, <2>2, <3>3, <3>4 DEF PagesFit
    <3>6. CursorFits'
      BY <3>1 DEF CursorFits
    <3>7. ASSUME at = "done", NEW i \in steady PROVE sh[i] >= 1
      <4>1. PICK skip \in Nat : skip = (walk.page - 1) * walk.q.limit /\ skip + walk.q.limit = walk.page * walk.q.limit
        BY <1>8, PagesAdd
      <4>2. p = List!Take(s, skip, walk.q.limit)
        BY <3>1, <4>1 DEF List!Page
      <4>3. s \in Seq(List!Matching(walk.q)) /\ Len(s) = Cardinality(List!Matching(walk.q))
        BY <1>1, AnOrder
      <4>4. Len(p) = IF skip >= Len(s) THEN 0 ELSE IF skip + walk.q.limit < Len(s) THEN walk.q.limit ELSE Len(s) - skip
        BY <1>8, <4>2, <4>3, TakeParts
      <4>5. Len(p) # walk.q.limit
        BY <1>5, <3>7
      <4>6. /\ Cardinality(Precedes(i)) \in Nat /\ Cardinality(List!Matching(walk.q)) \in Nat
            /\ Cardinality(Precedes(i)) < Cardinality(List!Matching(walk.q))
        BY <1>1, FewerPrecede DEF ListTyped
      <4>7. PICK len \in Nat : len = Cardinality(List!Matching(walk.q))
        BY <4>6
      <4>8. len <= skip + walk.q.limit
        BY <1>8, <4>3, <4>4, <4>5, <4>7
      <4>9. sh[i] # 0
        BY <1>8, <3>3, <4>1, <4>6, <4>7, <4>8
      <4>10. sh[i] \in Nat
        BY <1>1, <1>5, <1>10, PageShows, RowsThatFit DEF ListTyped
      <4> QED BY <4>9, <4>10
    <3> QED BY <1>2, <1>7, <3>5, <3>6, <3>7
  <2>5. CASE List!Has(walk.q, "cursor")
    <3>1. List!Has(walk'.q, "cursor")
      BY <1>7, <2>5
    <3>2. PICK skip \in Nat :
            /\ p = List!Take(s, skip, walk.q.limit)
            /\ \A i \in steady : walk.shown[i] = IF Cardinality(Precedes(i)) >= skip THEN 0 ELSE 1
      <4>1. CASE walk.last = NoItemRow
        <5>1. walk.page = 1 /\ \A i \in steady : walk.shown[i] = 0
          BY <1>2, <2>3, <2>5, <4>1 DEF CursorFits
        <5>2. p = List!Page(s, walk.page, walk.q.limit)
          BY <1>4, <4>1
        <5>3. (walk.page - 1) * walk.q.limit = 0
          <6>1. walk.page - 1 = 0
            BY <5>1
          <6> QED BY <1>8, <6>1
        <5>4. p = List!Take(s, 0, walk.q.limit)
          BY <5>2, <5>3 DEF List!Page
        <5>5. \A i \in steady : Cardinality(Precedes(i)) >= 0
          BY <1>1, SomePrecede
        <5> QED BY <5>1, <5>4, <5>5
      <4>2. CASE walk.last # NoItemRow
        <5>1. PICK last : last = walk.last
          OBVIOUS
        <5>2. /\ last \in List!Matching(walk.q)
              /\ \A i \in steady : walk.shown[i] = IF KeyOf(i) > KeyOf(last) THEN 0 ELSE 1
          BY <1>2, <2>3, <2>5, <4>2, <5>1 DEF CursorFits
        <5>3. PICK n : n = Cardinality(Precedes(last)) + 1
          OBVIOUS
        <5>4. n \in 1..Len(s) /\ s[n] = last /\ Cardinality(Precedes(last)) \in Nat
          BY <1>1, <2>1, <5>2, <5>3, StandsAt, SomePrecede
        <5>5. {m \in DOMAIN s : s[m] = last} = {n}
          <6>1. DOMAIN s = 1..Len(s) /\ \A m, k \in 1..Len(s) : m # k => s[m] # s[k]
            BY <1>1, AnOrder, LenProperties
          <6> QED BY <5>4, <6>1
        <5>6. p = List!PageAfter(s, last, walk.q.limit)
          BY <1>4, <2>5, <4>2, <5>1
        <5>7. p = List!Take(s, n, walk.q.limit)
          <6>1. (CHOOSE m \in {n} : TRUE) = n /\ {n} # {}
            OBVIOUS
          <6> QED BY <5>5, <5>6, <6>1 DEF List!PageAfter
        <5>8. ASSUME NEW i \in steady PROVE walk.shown[i] = IF Cardinality(Precedes(i)) >= n THEN 0 ELSE 1
          <6>1. i \in List!Matching(walk.q) /\ Cardinality(Precedes(i)) \in Nat
            BY <1>1, SomePrecede DEF ListTyped
          <6>2. KeyOf(i) > KeyOf(last) <=> Cardinality(Precedes(i)) > Cardinality(Precedes(last))
            BY <1>1, <2>1, <5>2, <6>1, StandsAt
          <6>3. KeyOf(i) > KeyOf(last) <=> Cardinality(Precedes(i)) >= n
            BY <5>3, <5>4, <6>1, <6>2
          <6> QED BY <5>2, <6>3
        <5>9. n \in Nat
          BY <5>3, <5>4
        <5> QED BY <5>7, <5>8, <5>9
      <4> QED BY <4>1, <4>2
    <3>3. /\ Len(p) = walk.q.limit =>
               /\ p # <<>> /\ List!Last(p) \in List!Matching(walk.q)
               /\ \A i \in steady : List!Shows(p)[i] = IF KeyOf(i) > KeyOf(List!Last(p)) THEN 0 ELSE 1
          /\ Len(p) # walk.q.limit => \A i \in steady : List!Shows(p)[i] = 1
      BY <1>1, <1>8, <2>1, <3>2, AfterSkipped
    <3>4. at = "next" => /\ l \in List!Matching(walk.q)
                         /\ \A i \in steady : sh[i] = IF KeyOf(i) > KeyOf(l) THEN 0 ELSE 1
      BY <1>5, <3>3
    <3>5. at = "done" => \A i \in steady : sh[i] = 1
      BY <1>5, <3>3
    <3>6. l \in List!Matching(walk.q) => l # NoItemRow
      BY <1>1, RowsThatFit, RecordAssumption
    <3>7. KeyOf(l)' = KeyOf(l)
      BY <2>2
    <3>8. KeyOf(walk.last)' = KeyOf(l)
      BY <1>7, <3>7 DEF KeyOf
    <3>9. CursorFits'
      BY <1>2, <1>7, <2>2, <3>4, <3>5, <3>6, <3>8 DEF CursorFits
    <3>10. PagesFit'
      BY <3>1 DEF PagesFit
    <3>11. at = "done" => \A i \in steady : sh[i] >= 1
      BY <3>5
    <3> QED BY <1>2, <1>7, <3>9, <3>10, <3>11
  <2> QED BY <2>4, <2>5
<1> QED BY <1>11, <1>12, ListFitsNext

-----------------------------------------------------------------------------
\* Every step of who follows a list, and of who changes its rows.
LEMMA ListKept ==
  ASSUME ListInv, [List!Next]_listVars
  PROVE  ListInv'
<1>1. CASE UNCHANGED listVars
  <2>1. items' = items /\ ticks' = ticks /\ walk' = walk /\ steady' = steady /\ shaken' = shaken
    BY <1>1 DEF listVars
  <2>2. /\ List!Stored' = List!Stored /\ List!Matching(walk.q)' = List!Matching(walk.q)
        /\ (\A i : KeyOf(i)' = KeyOf(i)) /\ (\A i : Precedes(i)' = Precedes(i))
        /\ (List!Counted' <=> List!Counted)
    BY <2>1, SameRows
  <2>3. ListTyped'
    BY <2>1, <2>2 DEF ListInv, ListTyped
  <2>4. KeyOf(walk.last)' = KeyOf(walk.last)
    BY <2>1 DEF KeyOf, List!SortKey
  <2>5. SeesAll'
    BY <2>1, <2>2, <2>4 DEF ListInv, SeesAll, PagesFit, CursorFits, List!NothingIsMissed
  <2> QED BY <2>3, <2>5, ListFitsNext
<1>2. CASE \E i \in List!Items : List!Alter(i)
  BY <1>2, RowAltered
<1>3. CASE List!Enter \/ List!Begin \/ List!CountRows
  BY <1>3, RowComes, WalkBegins, RowsCounted
<1>4. CASE List!ReadPage \/ List!ReadPageFirst \/ List!CountRowsAfter \/ List!ReadOn
  BY <1>4, PageAfterCount, PageBeforeCount, CountAfterPage, ReadFurther
<1> QED BY <1>1, <1>2, <1>3, <1>4 DEF List!Next

LEMMA ListAccounted == ListInv => List!TypeOK /\ List!NothingIsMissed
<1> SUFFICES ASSUME ListInv PROVE List!TypeOK /\ List!NothingIsMissed
  OBVIOUS
<1>1. ListTyped /\ List!NothingIsMissed
  BY DEF ListInv
<1>2. steady \subseteq List!Stored
  BY <1>1, RowsThatFit DEF ListTyped
<1> QED BY <1>1, <1>2 DEF ListTyped, List!TypeOK
-----------------------------------------------------------------------------
(* Sums                                                                    *)

\* A set of subsets of a finite set that has the empty set, and with a set each
\* that has one element more, has the whole.
LEMMA OneByOne ==
  ASSUME NEW D, IsFiniteSet(D), NEW F, {} \in F,
         \A T \in F : \A x \in D \ T : T \subseteq D => T \cup {x} \in F
  PROVE  D \in F
<1> SUFFICES ASSUME D \notin F PROVE FALSE
  OBVIOUS
<1>1. PICK N : N = {n \in Nat : \E T \in F : T \subseteq D /\ Cardinality(D \ T) = n}
  OBVIOUS
<1>2. \A T \in SUBSET D : IsFiniteSet(D \ T) /\ Cardinality(D \ T) \in Nat
  BY FS_Difference, FS_CardinalityType
<1>3. N # {} /\ N \subseteq Nat
  BY <1>1, <1>2
<1>4. PICK n \in N : \A m \in N : ~(<<m, n>> \in OpToRel(<, Nat))
  BY <1>3, NatLessThanWellFounded, WFMin
<1>5. \A m \in N : ~(m < n)
  BY <1>3, <1>4 DEF OpToRel
<1>6. PICK T \in F : T \subseteq D /\ Cardinality(D \ T) = n
  BY <1>1
<1>7. PICK x \in D \ T : TRUE
  BY <1>6
<1>8. T \cup {x} \in F /\ T \cup {x} \subseteq D /\ D \ (T \cup {x}) = (D \ T) \ {x}
  BY <1>6
<1>9. Cardinality((D \ T) \ {x}) = n - 1
  BY <1>2, <1>6, FS_RemoveElement
<1>10. n - 1 \in N
  BY <1>1, <1>2, <1>6, <1>8, <1>9
<1> QED BY <1>3, <1>5, <1>10

-----------------------------------------------------------------------------
(* The sum of a function                                                   *)

SumOf(f) == MapThenSumSet(LAMBDA x : f[x], DOMAIN f)

\* What the fold of SumOf computes: the sums over all subsets.
First(s) == CHOOSE x \in s : TRUE
Iterates(f, g) == g = [s \in SUBSET DOMAIN f |-> IF s = {} THEN 0 ELSE f[First(s)] + g[s \ {First(s)}]]

LEMMA SumIterates ==
  ASSUME NEW f
  PROVE  SumOf(f) = (CHOOSE g : Iterates(f, g))[DOMAIN f]
BY DEF SumOf, MapThenSumSet, MapThenFoldSet, Iterates, First

\* The sums over the subsets of k elements at most.
UpTo(f, k) == {s \in SUBSET DOMAIN f : Cardinality(s) <= k}
PartSums(f, k, g) ==
  g = [s \in UpTo(f, k) |-> IF s = {} THEN 0 ELSE f[First(s)] + g[s \ {First(s)}]]

LEMMA PartSumsExist ==
  ASSUME NEW f, IsFiniteSet(DOMAIN f), NEW k \in Nat, \E g : PartSums(f, k, g)
  PROVE  \E g : PartSums(f, k + 1, g)
<1>1. PICK g : PartSums(f, k, g)
  OBVIOUS
<1>2. PICK h : h = [s \in UpTo(f, k + 1) |-> IF s \in UpTo(f, k) THEN g[s] ELSE f[First(s)] + g[s \ {First(s)}]]
  OBVIOUS
<1>3. ASSUME NEW s \in SUBSET DOMAIN f
      PROVE  /\ IsFiniteSet(s) /\ Cardinality(s) \in Nat
             /\ s # {} => First(s) \in s /\ Cardinality(s \ {First(s)}) = Cardinality(s) - 1 /\ s \ {First(s)} \in SUBSET DOMAIN f
             /\ s = {} => Cardinality(s) = 0
  <2>1. IsFiniteSet(s) /\ Cardinality(s) \in Nat
    BY FS_Subset, FS_CardinalityType
  <2>2. s # {} => First(s) \in s
    BY DEF First
  <2> QED BY <2>1, <2>2, FS_RemoveElement, FS_EmptySet
<1>4. ASSUME NEW s \in UpTo(f, k + 1)
      PROVE  h[s] = IF s = {} THEN 0 ELSE f[First(s)] + h[s \ {First(s)}]
  <2>1. s \in SUBSET DOMAIN f /\ Cardinality(s) <= k + 1
    BY DEF UpTo
  <2>2. CASE s \in UpTo(f, k)
    <3>1. h[s] = g[s] /\ g[s] = IF s = {} THEN 0 ELSE f[First(s)] + g[s \ {First(s)}]
      BY <1>1, <1>2, <2>2 DEF PartSums
    <3>2. s # {} => s \ {First(s)} \in UpTo(f, k) /\ s \ {First(s)} \in UpTo(f, k + 1)
      BY <1>3, <2>1 DEF UpTo
    <3>3. s # {} => h[s \ {First(s)}] = g[s \ {First(s)}]
      BY <1>2, <3>2
    <3> QED BY <3>1, <3>3
  <2>3. CASE s \notin UpTo(f, k)
    <3>1. s # {}
      <4>1. s = {} => Cardinality(s) = 0
        BY <1>3, <2>1
      <4> QED BY <4>1, <2>1, <2>3 DEF UpTo
    <3>2. s \ {First(s)} \in UpTo(f, k) /\ s \ {First(s)} \in UpTo(f, k + 1)
      BY <1>3, <2>1, <3>1 DEF UpTo
    <3>3. h[s \ {First(s)}] = g[s \ {First(s)}] /\ h[s] = f[First(s)] + g[s \ {First(s)}]
      BY <1>2, <2>3, <3>2
    <3> QED BY <3>1, <3>3
  <2> QED BY <2>2, <2>3
<1>5. h = [s \in UpTo(f, k + 1) |-> IF s = {} THEN 0 ELSE f[First(s)] + h[s \ {First(s)}]]
  BY <1>2, <1>4
<1> QED BY <1>5 DEF PartSums

\* So there are the sums over all subsets.
LEMMA IteratesExists ==
  ASSUME NEW f, IsFiniteSet(DOMAIN f)
  PROVE  \E g : Iterates(f, g)
<1>1. PICK c : c = Cardinality(DOMAIN f) /\ c \in Nat
  BY FS_CardinalityType
<1>2. PICK F : F = {s \in SUBSET DOMAIN f : \E g : PartSums(f, Cardinality(s), g)}
  OBVIOUS
<1>3. {} \in F
  <2>1. UpTo(f, 0) = {{}}
    <3>1. \A s \in SUBSET DOMAIN f : IsFiniteSet(s) /\ Cardinality(s) \in Nat
      BY FS_Subset, FS_CardinalityType
    <3> QED BY <3>1, FS_EmptySet DEF UpTo
  <2>2. PICK g : g = [s \in {{}} |-> 0]
    OBVIOUS
  <2>3. g = [s \in UpTo(f, 0) |-> IF s = {} THEN 0 ELSE f[First(s)] + g[s \ {First(s)}]]
    BY <2>1, <2>2
  <2> QED BY <1>2, <2>3, FS_EmptySet DEF PartSums
<1>4. \A T \in F : \A x \in DOMAIN f \ T : T \cup {x} \in F
  <2> SUFFICES ASSUME NEW T \in F, NEW x \in DOMAIN f \ T PROVE T \cup {x} \in F
    OBVIOUS
  <2>1. IsFiniteSet(T) /\ T \in SUBSET DOMAIN f
    BY <1>2, FS_Subset
  <2>2. Cardinality(T) \in Nat
    BY <2>1, FS_CardinalityType
  <2>3. Cardinality(T \cup {x}) = Cardinality(T) + 1
    BY <2>1, FS_AddElement
  <2>4. \E g : PartSums(f, Cardinality(T) + 1, g)
    BY <1>2, <2>2, PartSumsExist
  <2> QED BY <1>2, <2>1, <2>3, <2>4
<1>5. DOMAIN f \in F
  BY <1>3, <1>4, OneByOne
<1>6. PICK g : PartSums(f, c, g)
  BY <1>1, <1>2, <1>5
<1>7. UpTo(f, c) = SUBSET DOMAIN f
  BY <1>1, FS_Subset DEF UpTo
<1> QED BY <1>6, <1>7 DEF PartSums, Iterates

\* Two functions have the same sum over a set on which they agree.
LEMMA IteratesAgree ==
  ASSUME NEW f, NEW h, NEW g, NEW k, Iterates(f, g), Iterates(h, k),
         NEW D, IsFiniteSet(D), D \subseteq DOMAIN f, D \subseteq DOMAIN h, \A x \in D : f[x] = h[x]
  PROVE  g[D] = k[D]
<1> SUFFICES ASSUME g[D] # k[D] PROVE FALSE
  OBVIOUS
<1>1. PICK N : N = {n \in Nat : \E s \in SUBSET D : g[s] # k[s] /\ Cardinality(s) = n}
  OBVIOUS
<1>2. \A s \in SUBSET D : IsFiniteSet(s) /\ Cardinality(s) \in Nat
  BY FS_Subset, FS_CardinalityType
<1>3. N # {} /\ N \subseteq Nat
  BY <1>1, <1>2
<1>4. PICK n \in N : \A m \in N : ~(<<m, n>> \in OpToRel(<, Nat))
  BY <1>3, NatLessThanWellFounded, WFMin
<1>5. \A m \in N : ~(m < n)
  BY <1>3, <1>4 DEF OpToRel
<1>6. PICK s \in SUBSET D : g[s] # k[s] /\ Cardinality(s) = n
  BY <1>1
<1>7. /\ g[s] = IF s = {} THEN 0 ELSE f[First(s)] + g[s \ {First(s)}]
      /\ k[s] = IF s = {} THEN 0 ELSE h[First(s)] + k[s \ {First(s)}]
  BY DEF Iterates
<1>8. s # {} /\ First(s) \in s /\ s \ {First(s)} \in SUBSET D
  BY <1>6, <1>7 DEF First
<1>9. Cardinality(s \ {First(s)}) = n - 1 /\ n - 1 \in Nat
  <2>1. Cardinality(s \ {First(s)}) = n - 1
    BY <1>2, <1>6, <1>8, FS_RemoveElement
  <2> QED BY <1>2, <1>8, <2>1
<1>10. g[s \ {First(s)}] = k[s \ {First(s)}]
  BY <1>1, <1>3, <1>5, <1>8, <1>9
<1> QED BY <1>6, <1>7, <1>8, <1>10

\* Numbers have a least.
LEMMA Least ==
  ASSUME NEW N, N \subseteq Nat, N # {}
  PROVE  \E n \in N : \A m \in N : n <= m
<1>1. PICK n \in N : \A m \in N : ~(<<m, n>> \in OpToRel(<, Nat))
  BY NatLessThanWellFounded, WFMin
<1>2. \A m \in N : ~(m < n)
  BY <1>1 DEF OpToRel
<1> QED BY <1>2

LEMMA PartsAreInts ==
  ASSUME NEW f, NEW g, Iterates(f, g), IsFiniteSet(DOMAIN f), \A x \in DOMAIN f : f[x] \in Int
  PROVE  \A s \in SUBSET DOMAIN f : g[s] \in Int
<1> SUFFICES ASSUME NEW t \in SUBSET DOMAIN f, g[t] \notin Int PROVE FALSE
  OBVIOUS
<1>1. PICK N : N = {n \in Nat : \E s \in SUBSET DOMAIN f : g[s] \notin Int /\ Cardinality(s) = n}
  OBVIOUS
<1>2. \A s \in SUBSET DOMAIN f : IsFiniteSet(s) /\ Cardinality(s) \in Nat
  BY FS_Subset, FS_CardinalityType
<1>3. N # {} /\ N \subseteq Nat
  BY <1>1, <1>2
<1>4. PICK n \in N : \A m \in N : n <= m
  BY <1>3, Least
<1>5. PICK s \in SUBSET DOMAIN f : g[s] \notin Int /\ Cardinality(s) = n
  BY <1>1
<1>6. g[s] = IF s = {} THEN 0 ELSE f[First(s)] + g[s \ {First(s)}]
  BY DEF Iterates
<1>7. s # {} /\ First(s) \in s /\ s \ {First(s)} \in SUBSET DOMAIN f
  BY <1>5, <1>6 DEF First
<1>8. Cardinality(s \ {First(s)}) = n - 1
  BY <1>2, <1>5, <1>7, FS_RemoveElement
<1>9. n - 1 \in Nat
  BY <1>2, <1>7, <1>8
<1>10. g[s \ {First(s)}] \in Int
  BY <1>1, <1>3, <1>4, <1>7, <1>8, <1>9
<1> QED BY <1>5, <1>6, <1>7, <1>10

\* It does not matter which element is first.
LEMMA AnyIsFirst ==
  ASSUME NEW f, NEW g, Iterates(f, g), IsFiniteSet(DOMAIN f), \A x \in DOMAIN f : f[x] \in Int,
         NEW t \in SUBSET DOMAIN f, NEW y \in t
  PROVE  g[t] = f[y] + g[t \ {y}]
<1> SUFFICES ASSUME g[t] # f[y] + g[t \ {y}] PROVE FALSE
  OBVIOUS
<1>1. PICK N : N = {n \in Nat : \E s \in SUBSET DOMAIN f : Cardinality(s) = n /\ \E x \in s : g[s] # f[x] + g[s \ {x}]}
  OBVIOUS
<1>2. \A s \in SUBSET DOMAIN f : IsFiniteSet(s) /\ Cardinality(s) \in Nat
  BY FS_Subset, FS_CardinalityType
<1>3. N # {} /\ N \subseteq Nat
  BY <1>1, <1>2
<1>4. PICK n \in N : \A m \in N : n <= m
  BY <1>3, Least
<1>5. PICK s \in SUBSET DOMAIN f : Cardinality(s) = n /\ \E x \in s : g[s] # f[x] + g[s \ {x}]
  BY <1>1
<1>6. PICK x \in s : g[s] # f[x] + g[s \ {x}]
  BY <1>5
<1>7. PICK c : c = First(s)
  OBVIOUS
<1>8. c \in s /\ s # {}
  BY <1>6, <1>7 DEF First
<1>9. g[s] = f[c] + g[s \ {c}]
  BY <1>7, <1>8 DEF Iterates
<1>10. c # x
  BY <1>6, <1>9
<1>11. \A z \in s : s \ {z} \in SUBSET DOMAIN f /\ Cardinality(s \ {z}) = n - 1 /\ n - 1 \in Nat
  <2> SUFFICES ASSUME NEW z \in s PROVE s \ {z} \in SUBSET DOMAIN f /\ Cardinality(s \ {z}) = n - 1 /\ n - 1 \in Nat
    OBVIOUS
  <2>1. Cardinality(s \ {z}) = n - 1 /\ s \ {z} \in SUBSET DOMAIN f
    BY <1>2, <1>5, FS_RemoveElement
  <2> QED BY <1>2, <2>1
<1>12. \A z \in s : \A w \in s \ {z} : g[s \ {z}] = f[w] + g[(s \ {z}) \ {w}]
  <2> SUFFICES ASSUME NEW z \in s, NEW w \in s \ {z}, g[s \ {z}] # f[w] + g[(s \ {z}) \ {w}] PROVE FALSE
    OBVIOUS
  <2>1. n - 1 \in N
    BY <1>1, <1>11
  <2> QED BY <1>3, <1>4, <2>1
<1>13. g[s \ {c}] = f[x] + g[(s \ {c}) \ {x}] /\ g[s \ {x}] = f[c] + g[(s \ {x}) \ {c}]
  BY <1>6, <1>8, <1>10, <1>12
<1>14. (s \ {c}) \ {x} = (s \ {x}) \ {c} /\ (s \ {x}) \ {c} \in SUBSET DOMAIN f
  OBVIOUS
<1>15. g[(s \ {x}) \ {c}] \in Int /\ f[c] \in Int /\ f[x] \in Int
  <2>1. g[(s \ {x}) \ {c}] \in Int
    BY <1>14, PartsAreInts
  <2> QED BY <1>5, <1>6, <1>8, <2>1
<1>16. PICK r : r = g[(s \ {x}) \ {c}] /\ r \in Int
  BY <1>15
<1>17. g[s] = f[c] + (f[x] + r) /\ g[s \ {x}] = f[c] + r
  BY <1>9, <1>13, <1>14, <1>16
<1> QED BY <1>6, <1>15, <1>16, <1>17

\* f on S.
On(f, S) == [x \in S |-> f[x]]

LEMMA SumNone == \A f : SumOf(On(f, {})) = 0
<1> SUFFICES ASSUME NEW f PROVE SumOf(On(f, {})) = 0
  OBVIOUS
<1>1. PICK h : h = On(f, {})
  OBVIOUS
<1>2. DOMAIN h = {}
  BY <1>1 DEF On
<1>3. PICK g : g = (CHOOSE c : Iterates(h, c))
  OBVIOUS
<1>4. Iterates(h, g)
  BY <1>2, <1>3, IteratesExists, FS_EmptySet
<1>5. g[{}] = 0
  BY <1>2, <1>4 DEF Iterates
<1> QED BY <1>1, <1>2, <1>3, <1>5, SumIterates

\* What one element adds.
LEMMA SumInsert ==
  ASSUME NEW f, NEW S, IsFiniteSet(S), NEW x, x \notin S, \A y \in S \cup {x} : f[y] \in Int
  PROVE  SumOf(On(f, S \cup {x})) = f[x] + SumOf(On(f, S))
<1>1. PICK h, k : h = On(f, S \cup {x}) /\ k = On(f, S)
  OBVIOUS
<1>2. /\ DOMAIN h = S \cup {x} /\ \A y \in S \cup {x} : h[y] = f[y]
      /\ DOMAIN k = S /\ \A y \in S : k[y] = f[y]
  BY <1>1 DEF On
<1>3. IsFiniteSet(S \cup {x})
  BY FS_AddElement
<1>4. PICK g, i : g = (CHOOSE c : Iterates(h, c)) /\ i = (CHOOSE c : Iterates(k, c))
  OBVIOUS
<1>5. Iterates(h, g)
  BY <1>2, <1>3, <1>4, IteratesExists
<1>6. Iterates(k, i)
  BY <1>2, <1>4, IteratesExists
<1>7. SumOf(h) = g[S \cup {x}] /\ SumOf(k) = i[S]
  BY <1>2, <1>4, SumIterates
<1>8. g[S] = i[S]
  BY <1>2, <1>5, <1>6, IteratesAgree
<1>9. g[S \cup {x}] = h[x] + g[(S \cup {x}) \ {x}]
  <2>1. IsFiniteSet(DOMAIN h) /\ (\A y \in DOMAIN h : h[y] \in Int) /\ S \cup {x} \in SUBSET DOMAIN h
    BY <1>2, <1>3
  <2> QED BY <1>5, <2>1, AnyIsFirst
<1>10. (S \cup {x}) \ {x} = S
  OBVIOUS
<1> QED BY <1>1, <1>2, <1>7, <1>8, <1>9, <1>10

LEMMA SumIsInt ==
  ASSUME NEW f, NEW S, IsFiniteSet(S), \A y \in S : f[y] \in Int
  PROVE  SumOf(On(f, S)) \in Int
<1>1. PICK k : k = On(f, S)
  OBVIOUS
<1>2. DOMAIN k = S /\ \A y \in S : k[y] = f[y]
  BY <1>1 DEF On
<1>3. PICK i : i = (CHOOSE g : Iterates(k, g))
  OBVIOUS
<1>4. Iterates(k, i)
  BY <1>2, <1>3, IteratesExists
<1> QED BY <1>1, <1>2, <1>3, <1>4, PartsAreInts, SumIterates

\* The sum over a part is not more when nothing is negative.
LEMMA SumOfPart ==
  ASSUME NEW f, NEW S, IsFiniteSet(S), \A y \in S : f[y] \in Nat, NEW P \in SUBSET S
  PROVE  SumOf(On(f, P)) \in Nat /\ SumOf(On(f, P)) <= SumOf(On(f, S))
<1>1. \A T \in SUBSET S : IsFiniteSet(T)
  BY FS_Subset
<1>2. \A T \in SUBSET S : SumOf(On(f, T)) \in Int
  BY <1>1, SumIsInt
<1>3. \A T \in SUBSET S, x \in S : x \notin T => SumOf(On(f, T \cup {x})) = f[x] + SumOf(On(f, T))
  BY <1>1, SumInsert
<1>4. SumOf(On(f, P)) \in Nat
  <2>1. PICK F : F = {T \in SUBSET S : SumOf(On(f, T)) \in Nat}
    OBVIOUS
  <2>2. {} \in F
    BY <2>1, SumNone
  <2>3. \A T \in F : \A x \in P \ T : T \subseteq P => T \cup {x} \in F
    BY <1>3, <2>1
  <2>4. P \in F
    BY <1>1, <2>2, <2>3, OneByOne
  <2> QED BY <2>1, <2>4
<1>5. SumOf(On(f, P)) <= SumOf(On(f, S))
  <2>1. PICK F : F = {T \in SUBSET (S \ P) : SumOf(On(f, P)) <= SumOf(On(f, P \cup T))}
    OBVIOUS
  <2>2. {} \in F
    <3>1. P \cup {} = P
      OBVIOUS
    <3> QED BY <1>2, <2>1, <3>1
  <2>3. \A T \in F : \A x \in (S \ P) \ T : T \cup {x} \in F
    <3> SUFFICES ASSUME NEW T \in F, NEW x \in (S \ P) \ T PROVE T \cup {x} \in F
      OBVIOUS
    <3>1. T \in SUBSET (S \ P) /\ SumOf(On(f, P)) <= SumOf(On(f, P \cup T))
      BY <2>1
    <3>2. P \cup T \in SUBSET S /\ x \in S /\ x \notin P \cup T /\ P \cup (T \cup {x}) = (P \cup T) \cup {x}
      BY <3>1
    <3>3. SumOf(On(f, P \cup (T \cup {x}))) = f[x] + SumOf(On(f, P \cup T))
      BY <1>3, <3>2
    <3>4. SumOf(On(f, P)) \in Int /\ SumOf(On(f, P \cup T)) \in Int /\ f[x] \in Nat
      BY <1>2, <3>2
    <3>5. SumOf(On(f, P)) <= SumOf(On(f, P \cup (T \cup {x})))
      BY <3>1, <3>3, <3>4
    <3> QED BY <2>1, <3>1, <3>5
  <2>4. IsFiniteSet(S \ P)
    BY <1>1
  <2>5. S \ P \in F
    BY <2>2, <2>3, <2>4, OneByOne
  <2>6. P \cup (S \ P) = S
    OBVIOUS
  <2> QED BY <2>1, <2>5, <2>6
<1> QED BY <1>4, <1>5

\* A number for each.
LEMMA SumOfOnes ==
  ASSUME NEW f, NEW S, IsFiniteSet(S), \A y \in S : f[y] \in Nat /\ f[y] >= 1
  PROVE  /\ SumOf(On(f, S)) >= Cardinality(S)
         /\ (\A y \in S : f[y] = 1) => SumOf(On(f, S)) = Cardinality(S)
<1>1. \A T \in SUBSET S : IsFiniteSet(T) /\ Cardinality(T) \in Nat
  BY FS_Subset, FS_CardinalityType
<1>2. \A T \in SUBSET S : SumOf(On(f, T)) \in Int
  BY <1>1, SumIsInt
<1>3. \A T \in SUBSET S, x \in S : x \notin T => SumOf(On(f, T \cup {x})) = f[x] + SumOf(On(f, T))
  BY <1>1, SumInsert
<1>4. PICK F : F = {T \in SUBSET S : /\ SumOf(On(f, T)) >= Cardinality(T)
                                     /\ (\A y \in S : f[y] = 1) => SumOf(On(f, T)) = Cardinality(T)}
  OBVIOUS
<1>5. {} \in F
  BY <1>4, SumNone, FS_EmptySet
<1>6. \A T \in F : \A x \in S \ T : T \cup {x} \in F
  <2> SUFFICES ASSUME NEW T \in F, NEW x \in S \ T PROVE T \cup {x} \in F
    OBVIOUS
  <2>1. T \in SUBSET S /\ Cardinality(T \cup {x}) = Cardinality(T) + 1
    BY <1>1, <1>4, FS_AddElement
  <2>2. SumOf(On(f, T \cup {x})) = f[x] + SumOf(On(f, T)) /\ f[x] \in Nat /\ f[x] >= 1
    BY <1>3, <2>1
  <2>3. SumOf(On(f, T)) \in Int /\ Cardinality(T) \in Nat
    BY <1>1, <1>2, <2>1
  <2>4. /\ SumOf(On(f, T)) >= Cardinality(T)
        /\ (\A y \in S : f[y] = 1) => SumOf(On(f, T)) = Cardinality(T)
    BY <1>4
  <2>5. SumOf(On(f, T \cup {x})) >= Cardinality(T \cup {x})
    BY <2>1, <2>2, <2>3, <2>4
  <2>6. (\A y \in S : f[y] = 1) => SumOf(On(f, T \cup {x})) = Cardinality(T \cup {x})
    BY <2>1, <2>2, <2>3, <2>4
  <2> QED BY <1>4, <2>1, <2>5, <2>6
<1>7. S \in F
  BY <1>5, <1>6, OneByOne
<1> QED BY <1>4, <1>7

LEMMA SumOfBoth ==
  ASSUME NEW f, NEW A, NEW B, IsFiniteSet(A), IsFiniteSet(B), A \cap B = {}, \A y \in A \cup B : f[y] \in Int
  PROVE  SumOf(On(f, A \cup B)) = SumOf(On(f, A)) + SumOf(On(f, B))
<1>1. \A T \in SUBSET B : IsFiniteSet(T) /\ IsFiniteSet(A \cup T)
  BY FS_Subset, FS_Union
<1>2. \A T \in SUBSET B : SumOf(On(f, T)) \in Int /\ SumOf(On(f, A \cup T)) \in Int
  BY <1>1, SumIsInt
<1>3. SumOf(On(f, A)) \in Int
  BY SumIsInt
<1>4. PICK F : F = {T \in SUBSET B : SumOf(On(f, A \cup T)) = SumOf(On(f, A)) + SumOf(On(f, T))}
  OBVIOUS
<1>5. {} \in F
  <2>1. A \cup {} = A
    OBVIOUS
  <2> QED BY <1>3, <1>4, <2>1, SumNone
<1>6. \A T \in F : \A x \in B \ T : T \cup {x} \in F
  <2> SUFFICES ASSUME NEW T \in F, NEW x \in B \ T PROVE T \cup {x} \in F
    OBVIOUS
  <2>1. T \in SUBSET B /\ SumOf(On(f, A \cup T)) = SumOf(On(f, A)) + SumOf(On(f, T))
    BY <1>4
  <2>2. SumOf(On(f, T \cup {x})) = f[x] + SumOf(On(f, T))
    BY <1>1, <2>1, SumInsert
  <2>3. x \notin A \cup T /\ A \cup (T \cup {x}) = (A \cup T) \cup {x}
    BY <2>1
  <2>4. SumOf(On(f, (A \cup T) \cup {x})) = f[x] + SumOf(On(f, A \cup T))
    BY <1>1, <2>1, <2>3, SumInsert
  <2>5. SumOf(On(f, A \cup (T \cup {x}))) = SumOf(On(f, A)) + SumOf(On(f, T \cup {x}))
    <3>1. SumOf(On(f, T)) \in Int /\ f[x] \in Int
      BY <1>2, <2>1
    <3>2. SumOf(On(f, A \cup (T \cup {x}))) = f[x] + (SumOf(On(f, A)) + SumOf(On(f, T)))
      BY <2>1, <2>3, <2>4
    <3> QED BY <1>3, <2>2, <3>1, <3>2
  <2> QED BY <1>4, <2>1, <2>5
<1>7. B \in F
  BY <1>5, <1>6, OneByOne
<1> QED BY <1>4, <1>7

\* What is broken down adds up to the whole.
LEMMA SumByParts ==
  ASSUME NEW f, NEW S, IsFiniteSet(S), \A y \in S : f[y] \in Int,
         NEW k, NEW K, IsFiniteSet(K), \A y \in S : k[y] \in K
  PROVE  SumOf([v \in K |-> SumOf(On(f, {s \in S : k[s] = v}))]) = SumOf(On(f, S))
<1>1. PICK p : p = [v \in K |-> SumOf(On(f, {s \in S : k[s] = v}))]
  OBVIOUS
<1>2. \A T \in SUBSET S : IsFiniteSet(T) /\ SumOf(On(f, T)) \in Int
  BY FS_Subset, SumIsInt
<1>3. \A v \in K : p[v] = SumOf(On(f, {s \in S : k[s] = v})) /\ p[v] \in Int
  BY <1>1, <1>2
<1>4. PICK F : F = {V \in SUBSET K : SumOf(On(p, V)) = SumOf(On(f, {s \in S : k[s] \in V}))}
  OBVIOUS
<1>5. {} \in F
  <2>1. {s \in S : k[s] \in {}} = {}
    OBVIOUS
  <2> QED BY <1>4, <2>1, SumNone
<1>6. \A V \in F : \A v \in K \ V : V \cup {v} \in F
  <2> SUFFICES ASSUME NEW V \in F, NEW v \in K \ V PROVE V \cup {v} \in F
    OBVIOUS
  <2>1. PICK A, B : A = {s \in S : k[s] \in V} /\ B = {s \in S : k[s] = v}
    OBVIOUS
  <2>2. V \in SUBSET K /\ SumOf(On(p, V)) = SumOf(On(f, A)) /\ p[v] = SumOf(On(f, B))
    BY <1>3, <1>4, <2>1
  <2>3. A \in SUBSET S /\ B \in SUBSET S /\ A \cap B = {} /\ A \cup B = {s \in S : k[s] \in V \cup {v}}
    BY <2>1
  <2>4. IsFiniteSet(A) /\ IsFiniteSet(B) /\ SumOf(On(f, A)) \in Int /\ SumOf(On(f, B)) \in Int
    BY <1>2, <2>3
  <2>5. SumOf(On(f, A \cup B)) = SumOf(On(f, A)) + SumOf(On(f, B))
    <3>1. \A y \in A \cup B : f[y] \in Int
      BY <2>3
    <3> QED BY <2>3, <2>4, <3>1, SumOfBoth
  <2>6. SumOf(On(p, V \cup {v})) = p[v] + SumOf(On(p, V))
    <3>1. IsFiniteSet(V)
      BY <2>2, FS_Subset
    <3>2. v \notin V /\ \A y \in V \cup {v} : p[y] \in Int
      BY <1>3, <2>2
    <3> QED BY <3>1, <3>2, SumInsert
  <2>7. SumOf(On(p, V \cup {v})) = SumOf(On(f, A \cup B))
    BY <2>2, <2>4, <2>5, <2>6
  <2> QED BY <1>4, <2>2, <2>3, <2>7
<1>7. K \in F
  BY <1>5, <1>6, OneByOne
<1>8. {s \in S : k[s] \in K} = S
  OBVIOUS
<1>9. On(p, K) = p
  BY <1>1 DEF On
<1> QED BY <1>1, <1>4, <1>7, <1>8, <1>9

\* The values on a finite set are finitely many.
LEMMA FiniteImage ==
  ASSUME NEW k, NEW S, IsFiniteSet(S)
  PROVE  IsFiniteSet({k[s] : s \in S}) /\ Cardinality({k[s] : s \in S}) <= Cardinality(S)
<1>1. PICK f, T : f = [s \in S |-> k[s]] /\ T = {k[s] : s \in S}
  OBVIOUS
<1>2. f \in Surjection(S, T)
  BY <1>1 DEF Surjection
<1> QED BY <1>1, <1>2, FS_Surjection

\* A finite set of numbers has a largest.
LEMMA Largest ==
  ASSUME NEW S, IsFiniteSet(S), S # {}, NEW v, \A s \in S : v[s] \in Int
  PROVE  \E m \in S : \A s \in S : v[s] <= v[m]
<1>1. PICK F : F = {T \in SUBSET S : T # {} => \E m \in T : \A s \in T : v[s] <= v[m]}
  OBVIOUS
<1>2. {} \in F
  BY <1>1
<1>3. \A T \in F : \A x \in S \ T : T \cup {x} \in F
  <2> SUFFICES ASSUME NEW T \in F, NEW x \in S \ T PROVE T \cup {x} \in F
    OBVIOUS
  <2>1. T \in SUBSET S /\ (T # {} => \E m \in T : \A s \in T : v[s] <= v[m])
    BY <1>1
  <2>2. CASE T = {}
    <3>1. \A s \in T \cup {x} : v[s] <= v[x]
      BY <2>2
    <3> QED BY <1>1, <2>1, <3>1
  <2>3. CASE T # {}
    <3>1. PICK m \in T : \A s \in T : v[s] <= v[m]
      BY <2>1, <2>3
    <3>2. v[m] \in Int /\ v[x] \in Int /\ \A s \in T : v[s] \in Int
      BY <2>1, <3>1
    <3>3. CASE v[x] <= v[m]
      <4>1. m \in T \cup {x} /\ \A s \in T \cup {x} : v[s] <= v[m]
        BY <3>1, <3>3
      <4> QED BY <1>1, <2>1, <4>1
    <3>4. CASE ~(v[x] <= v[m])
      <4>1. \A s \in T \cup {x} : v[s] <= v[x]
        BY <3>1, <3>2, <3>4
      <4> QED BY <1>1, <2>1, <4>1
    <3> QED BY <3>3, <3>4
  <2> QED BY <2>2, <2>3
<1>4. S \in F
  BY <1>2, <1>3, OneByOne
<1> QED BY <1>1, <1>4

-----------------------------------------------------------------------------
(* SalesReports                                                            *)

LEMMA SaleStarts ==
  ASSUME Sale!Init
  PROVE  SaleInv
BY RecordAssumption DEF Sale!Init, SaleInv

\* The stages of a report are sets of its statements.
LEMMA StagesAreSets == \A kind : Sale!Stages(kind) \in Seq(SUBSET QueriesIn(Sale!Stages(kind)))
<1> SUFFICES ASSUME NEW kind PROVE Sale!Stages(kind) \in Seq(SUBSET QueriesIn(Sale!Stages(kind)))
  OBVIOUS
<1>1. PICK s : s = Sale!Stages(kind)
  OBVIOUS
<1>2. \A a, b, c, d :
        /\ s = <<a>> => DOMAIN s = 1..1 /\ s = [n \in 1..1 |-> s[n]]
        /\ s = <<a, b>> => DOMAIN s = 1..2 /\ s = [n \in 1..2 |-> s[n]]
        /\ s = <<a, b, c, d>> => DOMAIN s = 1..4 /\ s = [n \in 1..4 |-> s[n]]
  OBVIOUS
<1>3. \E a, b, c, d : s = <<a>> \/ s = <<a, b>> \/ s = <<a, b, c, d>>
  BY <1>1 DEF Sale!Stages
<1>4. PICK n \in Nat : DOMAIN s = 1..n /\ s = [i \in 1..n |-> s[i]]
  BY <1>2, <1>3
<1>5. \A i \in 1..n : s[i] \in SUBSET QueriesIn(s)
  BY <1>4 DEF QueriesIn
<1> QED BY <1>1, <1>4, <1>5, IsASeq

LEMMA AllAreIn ==
  ASSUME NEW s, NEW Q, \A n \in DOMAIN s : s[n] \subseteq Q
  PROVE  QueriesIn(s) \subseteq Q
<1> SUFFICES ASSUME NEW x \in QueriesIn(s) PROVE x \in Q
  OBVIOUS
<1>1. PICK n \in DOMAIN s : x \in s[n]
  BY DEF QueriesIn
<1> QED BY <1>1

\* A report that has read one more statement, which was in its next stage.
LEMMA StageRead ==
  ASSUME NEW U, NEW left \in Seq(SUBSET U), left # <<>>, NEW q \in Head(left), NEW rest, rest = Head(left) \ {q},
         NEW now, now = (IF rest = {} THEN <<>> ELSE <<rest>>) \o Tail(left)
  PROVE  now \in Seq(SUBSET U) /\ QueriesIn(left) \subseteq {q} \cup QueriesIn(now)
<1>1. PICK T : T = SUBSET U
  OBVIOUS
<1>2. left \in Seq(T) /\ Head(left) \in T /\ Tail(left) \in Seq(T) /\ Len(Tail(left)) = Len(left) - 1
      /\ Len(left) \in Nat \ {0} /\ DOMAIN left = 1..Len(left) /\ Head(left) = left[1]
      /\ \A n \in 1..Len(Tail(left)) : Tail(left)[n] = left[n + 1]
  <2>1. left \in Seq(T) /\ left # <<>>
    BY <1>1
  <2>2. Head(left) \in T /\ Tail(left) \in Seq(T)
    BY <2>1, HeadTailProperties
  <2>3. Len(Tail(left)) = Len(left) - 1 /\ \A n \in 1..Len(Tail(left)) : Tail(left)[n] = left[n + 1]
    BY <2>1, HeadTailProperties
  <2>4. Len(left) \in Nat /\ DOMAIN left = 1..Len(left)
    BY <2>1, LenProperties
  <2>5. Len(left) # 0
    BY <2>1, EmptySeq
  <2> QED BY <2>1, <2>2, <2>3, <2>4, <2>5
<1>3. PICK t : t = Tail(left)
  OBVIOUS
<1>4. PICK l \in Nat \ {0} : l = Len(left)
  BY <1>2
<1>5. t \in Seq(T) /\ Len(t) = l - 1 /\ DOMAIN left = 1..l /\ \A n \in 1..(l - 1) : t[n] = left[n + 1]
  BY <1>2, <1>3, <1>4
<1>6. rest \in T
  BY <1>1
<1>7. CASE rest = {}
  <2>1. now = t
    BY <1>3, <1>5, <1>7, ConcatEmptySeq
  <2>2. DOMAIN t = 1..(l - 1)
    BY <1>5, LenProperties
  <2>3. ASSUME NEW n \in 1..l PROVE left[n] \subseteq {q} \cup QueriesIn(now)
    <3>1. CASE n = 1
      BY <1>2, <1>7, <3>1
    <3>2. CASE n # 1
      <4>1. n - 1 \in DOMAIN now /\ now[n - 1] = left[n]
        BY <1>5, <2>1, <2>2, <3>2
      <4> QED BY <4>1 DEF QueriesIn
    <3> QED BY <3>1, <3>2
  <2>4. QueriesIn(left) \subseteq {q} \cup QueriesIn(now)
    BY <1>5, <2>3, AllAreIn
  <2> QED BY <1>1, <1>5, <2>1, <2>4
<1>8. CASE rest # {}
  <2>1. now = <<rest>> \o t /\ <<rest>> \in Seq(T) /\ Len(<<rest>>) = 1
    BY <1>3, <1>6, <1>8
  <2>2. /\ now \in Seq(T) /\ Len(now) = 1 + (l - 1)
        /\ \A n \in 1..(1 + (l - 1)) : now[n] = IF n <= 1 THEN <<rest>>[n] ELSE t[n - 1]
    <3>1. PICK one : one = <<rest>>
      OBVIOUS
    <3>2. one \in Seq(T) /\ t \in Seq(T) /\ Len(one) = 1 /\ Len(t) = l - 1
      BY <1>5, <2>1, <3>1
    <3>3. one \o t \in Seq(T) /\ Len(one \o t) = 1 + (l - 1) /\ \A n \in 1..(1 + (l - 1)) : (one \o t)[n] = IF n <= 1 THEN one[n] ELSE t[n - 1]
      <4>1. /\ one \o t \in Seq(T) /\ Len(one \o t) = Len(one) + Len(t)
            /\ \A n \in 1..(Len(one) + Len(t)) : (one \o t)[n] = IF n <= Len(one) THEN one[n] ELSE t[n - Len(one)]
        BY <3>2, ConcatProperties
      <4> QED BY <3>2, <4>1
    <3> QED BY <2>1, <3>1, <3>3
  <2>3. DOMAIN now = 1..l
    BY <2>2, LenProperties
  <2>4. ASSUME NEW n \in 1..l PROVE left[n] \subseteq {q} \cup QueriesIn(now)
    <3>1. CASE n = 1
      <4>1. 1 \in DOMAIN now /\ now[1] = rest
        BY <2>2, <2>3
      <4>2. left[1] \subseteq {q} \cup rest
        BY <1>2
      <4> QED BY <3>1, <4>1, <4>2 DEF QueriesIn
    <3>2. CASE n # 1
      <4>1. now[n] = t[n - 1] /\ t[n - 1] = left[n] /\ n \in DOMAIN now
        BY <1>5, <2>2, <2>3, <3>2
      <4> QED BY <4>1 DEF QueriesIn
    <3> QED BY <3>1, <3>2
  <2>5. QueriesIn(left) \subseteq {q} \cup QueriesIn(now)
    BY <1>5, <2>4, AllAreIn
  <2> QED BY <1>1, <2>2, <2>5
<1> QED BY <1>7, <1>8

LEMMA ReportIsAsked ==
  ASSUME SaleInv, Sale!Ask
  PROVE  SaleInv'
<1>1. PICK kind, range, month :
        /\ kind \in Sale!Kinds
        /\ report' = [kind |-> kind, range |-> range, month |-> month, left |-> Sale!Stages(kind), seen |-> <<>>, failed |-> FALSE]
  BY DEF Sale!Ask
<1>2. DOMAIN <<>> = {}
  OBVIOUS
<1>3. sales' = sales
  BY DEF Sale!Ask
<1>4. /\ DOMAIN report' = {"kind", "range", "month", "left", "seen", "failed"}
      /\ report'.kind = kind /\ report'.left = Sale!Stages(kind) /\ report'.seen = <<>>
  BY <1>1
<1>5. report'.left \in Seq(SUBSET QueriesIn(Sale!Stages(kind)))
  BY <1>4, StagesAreSets
<1>6. \A q \in DOMAIN report'.seen : report'.seen[q] \in OrderTables
  BY <1>2, <1>4
<1>7. sales' \in OrderTables
  BY <1>3 DEF SaleInv
<1>8. QueriesIn(Sale!Stages(kind)) \subseteq DOMAIN report'.seen \cup QueriesIn(report'.left)
  BY <1>4
<1>9. kind \in Sale!Kinds
  BY <1>1
<1> QED BY <1>4, <1>5, <1>6, <1>7, <1>8, <1>9 DEF SaleInv

LEMMA ReportIsAnswered ==
  ASSUME SaleInv, Sale!Answer
  PROVE  SaleInv'
<1>1. report # NoReport /\ report.left # <<>> /\ sales' = sales
  BY DEF Sale!Answer
<1>2. PICK left, seen, kind : left = report.left /\ seen = report.seen /\ kind = report.kind
  OBVIOUS
<1>3. /\ sales \in OrderTables /\ DOMAIN report = {"kind", "range", "month", "left", "seen", "failed"}
      /\ kind \in Sale!Kinds /\ left \in Seq(SUBSET QueriesIn(Sale!Stages(kind))) /\ left # <<>>
      /\ \A q \in DOMAIN seen : seen[q] \in OrderTables
      /\ QueriesIn(Sale!Stages(kind)) \subseteq DOMAIN seen \cup QueriesIn(left)
  BY <1>1, <1>2 DEF SaleInv
<1>4. PICK q \in Head(left) :
        report' = IF Sale!Names(kind, q) \cap lacks # {} THEN [report EXCEPT !.failed = TRUE]
                  ELSE [report EXCEPT !.left = (IF Head(left) \ {q} = {} THEN <<>> ELSE <<Head(left) \ {q}>>) \o Tail(left),
                                      !.seen = [p \in DOMAIN seen \cup {q} |-> IF p = q THEN sales ELSE seen[p]]]
  BY <1>2 DEF Sale!Answer
<1>5. CASE report' = [report EXCEPT !.failed = TRUE]
  <2>1. /\ DOMAIN report' = {"kind", "range", "month", "left", "seen", "failed"}
        /\ report'.kind = kind /\ report'.left = left /\ report'.seen = seen
    BY <1>2, <1>3, <1>5
  <2> QED BY <1>1, <1>3, <2>1 DEF SaleInv
<1>6. CASE report' # [report EXCEPT !.failed = TRUE]
  <2>1. PICK rest : rest = Head(left) \ {q}
    OBVIOUS
  <2>2. PICK now : now = (IF rest = {} THEN <<>> ELSE <<rest>>) \o Tail(left)
    OBVIOUS
  <2>3. PICK more : more = [p \in DOMAIN seen \cup {q} |-> IF p = q THEN sales ELSE seen[p]]
    OBVIOUS
  <2>4. report' = [report EXCEPT !.left = now, !.seen = more]
    BY <1>4, <1>6, <2>1, <2>2, <2>3
  <2>5. /\ DOMAIN report' = {"kind", "range", "month", "left", "seen", "failed"}
        /\ report'.kind = kind /\ report'.left = now /\ report'.seen = more
    BY <1>2, <1>3, <2>4
  <2>6. DOMAIN more = DOMAIN seen \cup {q} /\ \A p \in DOMAIN more : more[p] \in OrderTables
    BY <1>3, <2>3
  <2>7. now \in Seq(SUBSET QueriesIn(Sale!Stages(kind))) /\ QueriesIn(left) \subseteq {q} \cup QueriesIn(now)
    BY <1>3, <2>1, <2>2, StageRead
  <2>8. QueriesIn(Sale!Stages(kind)) \subseteq DOMAIN more \cup QueriesIn(now)
    BY <1>3, <2>6, <2>7
  <2> QED BY <1>1, <1>3, <2>5, <2>6, <2>7, <2>8 DEF SaleInv
<1> QED BY <1>5, <1>6

LEMMA OrdersShift ==
  ASSUME SaleInv, Sale!Shift
  PROVE  SaleInv'
<1>1. report' = report /\ sales \in [Sales -> SaleRow \cup {NoSale}]
  BY DEF Sale!Shift, SaleInv, OrderTables
<1>2. sales' \in [Sales -> SaleRow \cup {NoSale}]
  <2>1. CASE \E s \in Sales \ Sale!Placed(sales), b \in Buyers, t \in Amounts :
               sales' = [sales EXCEPT ![s] = [buyer |-> b, at |-> Today, total |-> t, items |-> 1, status |-> "pending", paid |-> FALSE]]
    <3>1. PICK s \in Sales, b \in Buyers, t \in Amounts :
               sales' = [sales EXCEPT ![s] = [buyer |-> b, at |-> Today, total |-> t, items |-> 1, status |-> "pending", paid |-> FALSE]]
      BY <2>1
    <3>2. Today \in Int /\ t \in Nat
      BY RecordAssumption
    <3>3. [buyer |-> b, at |-> Today, total |-> t, items |-> 1, status |-> "pending", paid |-> FALSE] \in SaleRow
      BY <3>2 DEF SaleRow
    <3> QED BY <1>1, <3>1, <3>3
  <2>2. CASE \E s \in Sale!Placed(sales) : \E t \in Sale!After(sales[s].status) :
               sales' = [sales EXCEPT ![s].status = t, ![s].paid = IF t = "paid" THEN TRUE ELSE IF t = "refunded" THEN FALSE ELSE @]
    <3>1. PICK s \in Sale!Placed(sales) : \E t \in Sale!After(sales[s].status) :
               sales' = [sales EXCEPT ![s].status = t, ![s].paid = IF t = "paid" THEN TRUE ELSE IF t = "refunded" THEN FALSE ELSE @]
      BY <2>2
    <3> PICK t \in Sale!After(sales[s].status) :
               sales' = [sales EXCEPT ![s].status = t, ![s].paid = IF t = "paid" THEN TRUE ELSE IF t = "refunded" THEN FALSE ELSE @]
      BY <3>1
    <3>2. s \in Sales /\ sales[s] \in SaleRow
      BY <1>1 DEF Sale!Placed
    <3>3. t \in {"pending", "paid", "processing", "shipped", "delivered", "refunded", "cancelled"}
      BY DEF Sale!After
    <3>4. PICK old \in SaleRow : old = sales[s]
      BY <3>2
    <3>5. PICK p : p = (IF t = "paid" THEN TRUE ELSE IF t = "refunded" THEN FALSE ELSE old.paid)
      OBVIOUS
    <3>6. p \in BOOLEAN
      BY <3>5 DEF SaleRow
    <3>7. PICK row : row = [old EXCEPT !.status = t, !.paid = p]
      OBVIOUS
    <3>8. sales' = [sales EXCEPT ![s] = row]
      BY <1>1, <3>1, <3>2, <3>4, <3>5, <3>7 DEF SaleRow
    <3>9. row \in SaleRow
      BY <3>3, <3>6, <3>7 DEF SaleRow
    <3> QED BY <1>1, <3>8, <3>9
  <2> QED BY <2>1, <2>2 DEF Sale!Shift
<1> QED BY <1>1, <1>2 DEF SaleInv, OrderTables

\* What a report has read and has to read stays typed.
LEMMA SaleKept ==
  ASSUME SaleInv, [Sale!Next]_reportVars
  PROVE  SaleInv'
<1>1. CASE UNCHANGED reportVars
  BY <1>1 DEF reportVars, SaleInv
<1>2. CASE Sale!Next
  BY <1>2, ReportIsAsked, ReportIsAnswered, OrdersShift DEF Sale!Next
<1> QED BY <1>1, <1>2

LEMMA SaleSums == \A f : Sale!Sum(f) = SumOf(f)
BY DEF Sale!Sum, Sale!MapThenSumSet, Sale!MapThenFoldSet, SumOf, MapThenSumSet, MapThenFoldSet

LEMMA SaleCounts == \A S : Sale!Cardinality(S) = Cardinality(S)
BY DEF Sale!Cardinality, Cardinality

\* The orders of a table have their fields, and are finitely many.
LEMMA OrdersAreThere ==
  ASSUME NEW rows \in OrderTables
  PROVE  /\ IsFiniteSet(Sale!Placed(rows)) /\ Sale!Kept(rows) \subseteq Sale!Placed(rows)
         /\ \A S \in SUBSET Sale!Placed(rows) : IsFiniteSet(S) /\ Cardinality(S) \in Nat
         /\ \A s \in Sale!Placed(rows) :
              rows[s] \in SaleRow /\ rows[s].total \in Nat /\ rows[s].items \in Nat \ {0} /\ rows[s].at \in Int
         /\ \A r : /\ Sale!Within(rows, r) \subseteq Sale!Placed(rows)
                   /\ Sale!KeptWithin(rows, r) \subseteq Sale!Placed(rows)
                   /\ Sale!KeptWithin(rows, r) \subseteq Sale!Kept(rows)
                   /\ Sale!KeptWithin(rows, r) \subseteq Sale!Within(rows, r)
<1>1. Sale!Placed(rows) \subseteq Sales /\ IsFiniteSet(Sales)
  BY RecordAssumption DEF Sale!Placed
<1>2. IsFiniteSet(Sale!Placed(rows)) /\ \A S \in SUBSET Sale!Placed(rows) : IsFiniteSet(S)
  BY <1>1, FS_Subset
<1>3. \A S \in SUBSET Sale!Placed(rows) : Cardinality(S) \in Nat
  BY <1>2, FS_CardinalityType
<1>4. \A s \in Sale!Placed(rows) : rows[s] \in SaleRow
  BY DEF OrderTables, Sale!Placed
<1>5. \A s \in Sale!Placed(rows) : rows[s].total \in Nat /\ rows[s].items \in Nat \ {0} /\ rows[s].at \in Int
  BY <1>4 DEF SaleRow
<1> QED BY <1>2, <1>3, <1>4, <1>5 DEF Sale!Kept, Sale!Within, Sale!KeptWithin

LEMMA RevenueIsSum ==
  ASSUME NEW rows \in OrderTables, NEW S \in SUBSET Sale!Placed(rows)
  PROVE  Sale!Revenue(rows, S) = SumOf(On([s \in Sale!Placed(rows) |-> rows[s].total], S))
<1>1. PICK f : f = [s \in Sale!Placed(rows) |-> rows[s].total]
  OBVIOUS
<1>2. On(f, S) = [s \in S |-> rows[s].total]
  BY <1>1 DEF On
<1>3. Sale!Revenue(rows, S) = SumOf([s \in S |-> rows[s].total])
  BY SaleSums DEF Sale!Revenue
<1> QED BY <1>1, <1>2, <1>3

\* Revenue that is broken down by days, and by a key k.
ByDay(rows, S) == [d \in {rows[s].at : s \in S} |-> Sale!Revenue(rows, {s \in S : rows[s].at = d})]
ByKey(rows, S, k) == [d \in {k[s] : s \in S} |-> Sale!Revenue(rows, {s \in S : k[s] = d})]

\* The days of some orders, as a key of each.
LEMMA DaysAsKeys ==
  ASSUME NEW rows, NEW S, NEW k, \A s \in S : k[s] = rows[s].at
  PROVE  ByDay(rows, S) = ByKey(rows, S, k)
<1>1. PICK D : D = {rows[s].at : s \in S}
  OBVIOUS
<1>2. D = {k[s] : s \in S}
  BY <1>1
<1>3. \A d : {s \in S : k[s] = d} = {s \in S : rows[s].at = d}
  OBVIOUS
<1>4. \A d : Sale!Revenue(rows, {s \in S : k[s] = d}) = Sale!Revenue(rows, {s \in S : rows[s].at = d})
  BY <1>3
<1>5. [d \in D |-> Sale!Revenue(rows, {s \in S : k[s] = d})] = [d \in D |-> Sale!Revenue(rows, {s \in S : rows[s].at = d})]
  BY <1>4
<1> QED BY <1>1, <1>2, <1>5 DEF ByDay, ByKey

\* Revenue that is broken down by k adds up to the whole.
LEMMA RevenueByParts ==
  ASSUME NEW rows \in OrderTables, NEW S \in SUBSET Sale!Placed(rows), NEW k,
         NEW p, p = [v \in {k[s] : s \in S} |-> Sale!Revenue(rows, {s \in S : k[s] = v})]
  PROVE  SumOf(p) = Sale!Revenue(rows, S)
<1>1. PICK f : f = [s \in Sale!Placed(rows) |-> rows[s].total]
  OBVIOUS
<1>2. IsFiniteSet(S) /\ \A s \in S : f[s] \in Int
  BY <1>1, OrdersAreThere
<1>3. PICK K : K = {k[s] : s \in S}
  OBVIOUS
<1>4. IsFiniteSet(K) /\ \A s \in S : k[s] \in K
  BY <1>2, <1>3, FiniteImage
<1>5. \A T \in SUBSET Sale!Placed(rows) : Sale!Revenue(rows, T) = SumOf(On(f, T))
  BY <1>1, RevenueIsSum
<1>6. SumOf([v \in K |-> SumOf(On(f, {s \in S : k[s] = v}))]) = SumOf(On(f, S))
  BY <1>2, <1>4, SumByParts
<1>7. [v \in K |-> SumOf(On(f, {s \in S : k[s] = v}))] = p
  BY <1>3, <1>5
<1> QED BY <1>5, <1>6, <1>7

LEMMA RevenueOfPart ==
  ASSUME NEW rows \in OrderTables, NEW S \in SUBSET Sale!Placed(rows), NEW T \in SUBSET S
  PROVE  Sale!Revenue(rows, T) \in Nat /\ Sale!Revenue(rows, T) <= Sale!Revenue(rows, S)
<1>1. PICK f : f = [s \in Sale!Placed(rows) |-> rows[s].total]
  OBVIOUS
<1>2. IsFiniteSet(S) /\ \A s \in S : f[s] \in Nat
  BY <1>1, OrdersAreThere
<1>3. SumOf(On(f, T)) \in Nat /\ SumOf(On(f, T)) <= SumOf(On(f, S))
  BY <1>2, SumOfPart
<1> QED BY <1>1, <1>3, RevenueIsSum

\* So do the numbers of what is counted by k.
LEMMA CountByParts ==
  ASSUME NEW S, IsFiniteSet(S), NEW k, NEW K, IsFiniteSet(K), \A s \in S : k[s] \in K,
         NEW p, p = [v \in K |-> Cardinality({s \in S : k[s] = v})]
  PROVE  SumOf(p) = Cardinality(S)
<1>1. PICK one : one = [s \in S |-> 1]
  OBVIOUS
<1>2. \A T \in SUBSET S : SumOf(On(one, T)) = Cardinality(T)
  <2> TAKE T \in SUBSET S
  <2>1. IsFiniteSet(T) /\ \A y \in T : one[y] \in Nat /\ one[y] >= 1 /\ one[y] = 1
    BY <1>1, FS_Subset
  <2> QED BY <2>1, SumOfOnes
<1>3. \A s \in S : one[s] \in Int
  BY <1>1
<1>4. SumOf([v \in K |-> SumOf(On(one, {s \in S : k[s] = v}))]) = SumOf(On(one, S))
  BY <1>3, SumByParts
<1>5. [v \in K |-> SumOf(On(one, {s \in S : k[s] = v}))] = p
  BY <1>2
<1> QED BY <1>2, <1>4, <1>5

\* A part of the whole is no more than a hundred percent.
LEMMA PercentIsBounded ==
  \A some, whole \in Nat : some <= whole => Sale!Percent(some, whole) <= 100
<1> SUFFICES ASSUME NEW some \in Nat, NEW whole \in Nat, some <= whole PROVE Sale!Percent(some, whole) <= 100
  OBVIOUS
<1>1. CASE whole > 0
  <2>1. (some * 100) \div whole <= 100
    BY <1>1
  <2> QED BY <1>1, <2>1 DEF Sale!Percent
<1>2. CASE ~(whole > 0)
  BY <1>2 DEF Sale!Percent
<1> QED BY <1>1, <1>2

\* Two parts that are apart are together no more than the whole.
LEMMA PartsFit ==
  ASSUME NEW S, IsFiniteSet(S), NEW A \in SUBSET S, NEW B \in SUBSET S, A \cap B = {}
  PROVE  Cardinality(A) + Cardinality(B) <= Cardinality(S)
<1>1. IsFiniteSet(A) /\ IsFiniteSet(B)
  BY FS_Subset
<1>2. Cardinality(A \cup B) = Cardinality(A) + Cardinality(B) - Cardinality(A \cap B)
  BY <1>1, FS_Union
<1>3. Cardinality(A \cap B) = 0
  BY FS_EmptySet
<1>4. Cardinality(A \cup B) <= Cardinality(S)
  BY FS_Subset
<1>5. Cardinality(A) \in Nat /\ Cardinality(B) \in Nat
  BY <1>1, FS_CardinalityType
<1> QED BY <1>2, <1>3, <1>4, <1>5

\* The sales report.
LEMMA SalesFit ==
  ASSUME NEW rows \in OrderTables, NEW seen, NEW r,
         seen["current"] = rows, seen["daily"] = rows, seen["byStatus"] = rows
  PROVE  Sale!SalesAgree(Sale!SalesFigures(seen, r))
<1>1. PICK f : f = Sale!SalesFigures(seen, r)
  OBVIOUS
<1>2. PICK now, all : now = Sale!KeptWithin(rows, r) /\ all = Sale!Within(rows, r)
  OBVIOUS
<1>3. /\ f.revenue = Sale!Revenue(rows, now) /\ f.orders = Sale!Cardinality(now)
      /\ f.daily = [d \in {rows[s].at : s \in now} |-> Sale!Revenue(rows, {s \in now : rows[s].at = d})]
      /\ f.byStatus = [t \in {rows[s].status : s \in all} |-> Sale!Cardinality(Sale!WithStatus(rows, all, {t}))]
  BY <1>1, <1>2 DEF Sale!SalesFigures
<1>4. now \subseteq Sale!Placed(rows) /\ all \subseteq Sale!Placed(rows) /\ now = {s \in all : rows[s].status # "cancelled"}
  BY <1>2 DEF Sale!KeptWithin, Sale!Within, Sale!Kept, Sale!Placed
<1>5. Sale!Sum(f.daily) = f.revenue
  <2>1. PICK k : k = [s \in Sale!Placed(rows) |-> rows[s].at]
    OBVIOUS
  <2>2. \A s \in now : k[s] = rows[s].at
    BY <1>4, <2>1
  <2>4. f.daily = [d \in {k[s] : s \in now} |-> Sale!Revenue(rows, {s \in now : k[s] = d})]
    <3>1. f.daily = ByDay(rows, now)
      BY <1>3 DEF ByDay
    <3>2. f.daily = ByKey(rows, now, k)
      BY <2>2, <3>1, DaysAsKeys
    <3> QED BY <3>2 DEF ByKey
  <2>5. SumOf(f.daily) = Sale!Revenue(rows, now)
    BY <1>4, <2>4, RevenueByParts
  <2> QED BY <1>3, <2>5, SaleSums
<1>6. f.orders = Sale!Sum([t \in DOMAIN f.byStatus \ {"cancelled"} |-> f.byStatus[t]])
  <2>1. PICK k : k = [s \in Sale!Placed(rows) |-> rows[s].status]
    OBVIOUS
  <2>2. PICK K : K = {rows[s].status : s \in all} \ {"cancelled"}
    OBVIOUS
  <2>3. IsFiniteSet(now) /\ IsFiniteSet(all)
    BY <1>4, OrdersAreThere
  <2>4. IsFiniteSet(K)
    <3>1. IsFiniteSet({k[s] : s \in all})
      BY <2>3, FiniteImage
    <3>2. K \subseteq {k[s] : s \in all}
      BY <1>4, <2>1, <2>2
    <3> QED BY <3>1, <3>2, FS_Subset
  <2>5. \A s \in now : k[s] \in K
    BY <1>4, <2>1, <2>2
  <2>6. PICK p : p = [t \in DOMAIN f.byStatus \ {"cancelled"} |-> f.byStatus[t]]
    OBVIOUS
  <2>7. DOMAIN f.byStatus \ {"cancelled"} = K
    BY <1>3, <2>2
  <2>8. \A t \in K : f.byStatus[t] = Cardinality({s \in now : k[s] = t})
    <3> TAKE t \in K
    <3>1. Sale!WithStatus(rows, all, {t}) = {s \in now : k[s] = t}
      BY <1>4, <2>1, <2>2 DEF Sale!WithStatus
    <3> QED BY <1>3, <2>2, <3>1, SaleCounts
  <2>9. p = [t \in K |-> Cardinality({s \in now : k[s] = t})]
    BY <2>6, <2>7, <2>8
  <2>10. SumOf(p) = Cardinality(now)
    BY <2>3, <2>4, <2>5, <2>9, CountByParts
  <2> QED BY <1>3, <2>6, <2>10, SaleSums, SaleCounts
<1> QED BY <1>1, <1>5, <1>6 DEF Sale!SalesAgree

\* What each product sold: its table, and the sum of it.
LEMMA ItemsByParts ==
  ASSUME NEW rows \in OrderTables, NEW r, NEW limit,
         NEW S, S = Sale!KeptWithin(rows, r), NEW units, units = Sale!ProductFigures(rows, r, limit).sold
  PROVE  /\ IsFiniteSet(DOMAIN units) /\ \A p \in DOMAIN units : units[p] \in Int
         /\ SumOf(units) >= Cardinality(S)
<1>1. S \subseteq Sale!Placed(rows) /\ IsFiniteSet(S)
  BY OrdersAreThere
<1>2. PICK f : f = [s \in Sale!Placed(rows) |-> rows[s].items]
  OBVIOUS
<1>3. PICK k : k = [s \in Sale!Placed(rows) |-> rows[s].total]
  OBVIOUS
<1>4. PICK K : K = {k[s] : s \in S}
  OBVIOUS
<1>5. K = {rows[s].total : s \in S} /\ (\A p : {x \in S : rows[x].total = p} = {x \in S : k[x] = p}) /\ \A s \in S : k[s] \in K
  BY <1>1, <1>3, <1>4
<1>6. \A s \in S : f[s] \in Nat /\ f[s] >= 1 /\ f[s] \in Int
  BY <1>1, <1>2, OrdersAreThere
<1>7. \A T \in SUBSET S : Sale!Sum([s \in T |-> rows[s].items]) = SumOf(On(f, T)) /\ SumOf(On(f, T)) \in Int
  <2> TAKE T \in SUBSET S
  <2>1. On(f, T) = [s \in T |-> rows[s].items]
    BY <1>1, <1>2 DEF On
  <2>2. IsFiniteSet(T) /\ \A s \in T : f[s] \in Int
    BY <1>1, <1>6, FS_Subset
  <2> QED BY <2>1, <2>2, SaleSums, SumIsInt
<1>8. units = [p \in {rows[s].total : s \in S} |-> Sale!Sum([s \in {x \in S : rows[x].total = p} |-> rows[s].items])]
  BY DEF Sale!ProductFigures
<1>9. \A p \in K : Sale!Sum([s \in {x \in S : rows[x].total = p} |-> rows[s].items]) = SumOf(On(f, {x \in S : k[x] = p}))
  <2> TAKE p \in K
  <2>1. {x \in S : rows[x].total = p} = {x \in S : k[x] = p} /\ {x \in S : k[x] = p} \in SUBSET S
    BY <1>5
  <2> QED BY <1>7, <2>1
<1>10. units = [p \in K |-> SumOf(On(f, {x \in S : k[x] = p}))]
  BY <1>5, <1>8, <1>9
<1>11. DOMAIN units = K /\ \A p \in K : units[p] \in Int
  <2>1. \A p \in K : {x \in S : k[x] = p} \in SUBSET S
    OBVIOUS
  <2> QED BY <1>7, <1>10, <2>1
<1>12. IsFiniteSet(K)
  BY <1>1, <1>4, FiniteImage
<1>13. SumOf([v \in K |-> SumOf(On(f, {s \in S : k[s] = v}))]) = SumOf(On(f, S))
  BY <1>1, <1>5, <1>6, <1>12, SumByParts
<1>14. SumOf(On(f, S)) >= Cardinality(S)
  BY <1>1, <1>6, SumOfOnes
<1> QED BY <1>10, <1>11, <1>12, <1>13, <1>14

\* The one best of some has no better among them.
LEMMA BestIsBest ==
  ASSUME NEW score, NEW S, IsFiniteSet(S), \A p \in S : score[p] \in Int
  PROVE  \A p \in S : \E t \in Sale!Top(score, S, 1) : score[p] <= score[t]
<1> SUFFICES ASSUME NEW p \in S PROVE \E t \in Sale!Top(score, S, 1) : score[p] <= score[t]
  OBVIOUS
<1>1. PICK c : c = IF 1 < Cardinality(S) THEN 1 ELSE Cardinality(S)
  OBVIOUS
<1>2. Cardinality(S) \in Nat /\ Cardinality(S) # 0
  <2>1. Cardinality(S) \in Nat
    BY FS_CardinalityType
  <2>2. Cardinality(S) # 0
    BY FS_EmptySet
  <2> QED BY <2>1, <2>2
<1>3. c = 1
  BY <1>1, <1>2
<1>4. PICK m \in S : \A s \in S : score[s] <= score[m]
  BY Largest
<1>5. Cardinality({m}) = 1
  BY FS_Singleton
<1>6. PICK T \in SUBSET S : T = Sale!Top(score, S, 1) /\ Cardinality(T) = 1 /\ \A in \in T, out \in S \ T : score[out] <= score[in]
  <2>1. Sale!Top(score, S, 1) = CHOOSE T \in SUBSET S : Cardinality(T) = 1 /\ \A in \in T, out \in S \ T : score[out] <= score[in]
    <3>1. Sale!Top(score, S, 1) = CHOOSE T \in SUBSET S : Cardinality(T) = c /\ \A in \in T, out \in S \ T : score[out] <= score[in]
      BY <1>1, SaleCounts DEF Sale!Top
    <3> QED BY <1>3, <3>1
  <2>2. {m} \in SUBSET S /\ Cardinality({m}) = 1 /\ \A in \in {m}, out \in S \ {m} : score[out] <= score[in]
    BY <1>4, <1>5
  <2> QED BY <2>1, <2>2
<1>7. PICK t \in T : TRUE
  <2>1. T # {}
    BY <1>6, FS_EmptySet
  <2> QED BY <2>1
<1>8. CASE p \in T
  BY <1>6, <1>8
<1>9. CASE p \notin T
  BY <1>6, <1>7, <1>9
<1> QED BY <1>8, <1>9

LEMMA ProductsFit ==
  ASSUME NEW rows \in OrderTables, NEW r, NEW f, f = Sale!ProductFigures(rows, r, 1)
  PROVE  \A p \in DOMAIN f.sold : \E t \in f.top : f.sold[p] <= f.sold[t]
<1>1. PICK units : units = f.sold
  OBVIOUS
<1>2. f.top = Sale!Top(units, DOMAIN units, 1)
  BY <1>1 DEF Sale!ProductFigures
<1>3. IsFiniteSet(DOMAIN units) /\ \A p \in DOMAIN units : units[p] \in Int
  BY <1>1, ItemsByParts
<1>4. \A p \in DOMAIN units : \E t \in Sale!Top(units, DOMAIN units, 1) : units[p] <= units[t]
  BY <1>3, BestIsBest
<1> QED BY <1>1, <1>2, <1>4

LEMMA PeriodFits ==
  ASSUME NEW rows \in OrderTables, NEW r
  PROVE  Sale!Sum(Sale!PeriodFigures(rows, r)) = Sale!Revenue(rows, Sale!KeptWithin(rows, r))
<1>1. PICK S : S = Sale!KeptWithin(rows, r)
  OBVIOUS
<1>2. S \subseteq Sale!Placed(rows)
  BY <1>1, OrdersAreThere
<1>3. PICK k : k = [s \in Sale!Placed(rows) |-> Sale!Month(rows[s].at)]
  OBVIOUS
<1>4. {k[s] : s \in S} = {Sale!Month(rows[s].at) : s \in S} /\ \A v : {s \in S : k[s] = v} = {s \in S : Sale!Month(rows[s].at) = v}
  BY <1>2, <1>3
<1>5. Sale!PeriodFigures(rows, r) = [m \in {Sale!Month(rows[s].at) : s \in S} |-> Sale!Revenue(rows, {s \in S : Sale!Month(rows[s].at) = m})]
  BY <1>1 DEF Sale!PeriodFigures
<1>6. Sale!PeriodFigures(rows, r) = [m \in {k[s] : s \in S} |-> Sale!Revenue(rows, {s \in S : k[s] = m})]
  BY <1>4, <1>5
<1>7. SumOf(Sale!PeriodFigures(rows, r)) = Sale!Revenue(rows, S)
  BY <1>2, <1>6, RevenueByParts
<1> QED BY <1>1, <1>7, SaleSums

\* Each buyer of some orders has one of them.
LEMMA BuyersFit ==
  ASSUME NEW rows \in OrderTables, NEW S \in SUBSET Sale!Placed(rows)
  PROVE  IsFiniteSet(Sale!BuyersOf(rows, S)) /\ Cardinality(Sale!BuyersOf(rows, S)) <= Cardinality(S)
<1>1. IsFiniteSet(S)
  BY OrdersAreThere
<1>2. PICK k : k = [s \in S |-> rows[s].buyer]
  OBVIOUS
<1>3. {k[s] : s \in S} = Sale!BuyersOf(rows, S)
  BY <1>2 DEF Sale!BuyersOf
<1>4. IsFiniteSet({k[s] : s \in S}) /\ Cardinality({k[s] : s \in S}) <= Cardinality(S)
  BY <1>1, FiniteImage
<1> QED BY <1>3, <1>4

\* Who of a cohort came back is of it.
LEMMA CohortFits ==
  ASSUME NEW seen, NEW rows \in OrderTables, seen["members"] = rows, NEW day, NEW month
  PROVE  Sale!CohortAgrees(Sale!CohortFigures(seen, day, month))
<1>1. PICK members, back :
        /\ members = Sale!BuyersOf(rows, {s \in Sale!Kept(rows) : Sale!Month(rows[s].at) = Sale!Month(day)})
        /\ Sale!CohortFigures(seen, day, month) = [size |-> Sale!Cardinality(members), active |-> Sale!Cardinality(back \cap members)]
  BY DEF Sale!CohortFigures
<1>2. IsFiniteSet(members)
  <2>1. PICK S : S = {s \in Sale!Kept(rows) : Sale!Month(rows[s].at) = Sale!Month(day)}
    OBVIOUS
  <2>2. S \subseteq Sale!Placed(rows) /\ IsFiniteSet(S)
    BY <2>1, OrdersAreThere
  <2>3. members = Sale!BuyersOf(rows, S)
    BY <1>1, <2>1
  <2> QED BY <2>2, <2>3, BuyersFit
<1>3. Cardinality(back \cap members) <= Cardinality(members)
  BY <1>2, FS_Subset
<1> QED BY <1>1, <1>3, SaleCounts DEF Sale!CohortAgrees

\* Who is gone has not bought of late.
LEMMA ChurnFits ==
  ASSUME NEW rows \in OrderTables
  PROVE  LET f == Sale!ChurnFigures(rows, MonthDays)
         IN  f.gone \cap Sale!BuyersOf(rows, Sale!KeptWithin(rows, Sale!Last(MonthDays))) = {}
<1>1. PICK gone : gone = {b \in DOMAIN Sale!Spent(rows) : \A s \in Sale!Of(rows, Sale!Kept(rows), b) : rows[s].at < Today - MonthDays}
  OBVIOUS
<1>2. Sale!ChurnFigures(rows, MonthDays).gone = gone
  BY <1>1 DEF Sale!ChurnFigures
<1>3. ASSUME NEW b \in gone, b \in Sale!BuyersOf(rows, Sale!KeptWithin(rows, Sale!Last(MonthDays))) PROVE FALSE
  <2>1. PICK s \in Sale!KeptWithin(rows, Sale!Last(MonthDays)) : rows[s].buyer = b
    BY <1>3 DEF Sale!BuyersOf
  <2>2. s \in Sale!Kept(rows) /\ rows[s].at \in (Today - MonthDays)..Today
    BY <2>1 DEF Sale!KeptWithin, Sale!Within, Sale!Last
  <2>3. rows[s].at < Today - MonthDays
    BY <1>1, <2>1, <2>2 DEF Sale!Of
  <2>4. Today \in Int /\ MonthDays \in Int /\ rows[s].at \in Int
    BY <2>2, RecordAssumption, OrdersAreThere
  <2> QED BY <2>2, <2>3, <2>4
<1> QED BY <1>2, <1>3

LEMMA KpisFit ==
  ASSUME NEW seen, NEW rows \in OrderTables, NEW r,
         seen["stats"] = rows, seen["timing"] = rows, seen["returned"] = rows, seen["customers"] = rows,
         NEW f, f = Sale!KpiFigures(seen, r)
  PROVE  f.fulfilled <= 100 /\ f.returned <= 100 /\ f.buyers <= f.orders
<1>1. PICK all, back, done :
        /\ all = Sale!KeptWithin(rows, r) /\ back = Sale!WithStatus(rows, Sale!Within(rows, r), {"refunded"})
        /\ done = Sale!WithStatus(rows, all, {"shipped", "delivered"})
  OBVIOUS
<1>2. /\ f.orders = Sale!Cardinality(all) /\ f.buyers = Sale!Cardinality(Sale!BuyersOf(rows, all))
      /\ f.fulfilled = Sale!Percent(Sale!Cardinality(done), Sale!Cardinality(all))
      /\ f.returned = Sale!Percent(Sale!Cardinality(back), Sale!Cardinality(all))
  BY <1>1 DEF Sale!KpiFigures
<1>3. all \subseteq Sale!Placed(rows) /\ IsFiniteSet(all) /\ Cardinality(all) \in Nat
  BY <1>1, OrdersAreThere
<1>4. done \subseteq all /\ back \subseteq all
  BY <1>1, "refunded" # "cancelled" DEF Sale!WithStatus, Sale!KeptWithin, Sale!Kept, Sale!Within
<1>5. \A T \in SUBSET all : Cardinality(T) \in Nat /\ Cardinality(T) <= Cardinality(all)
  BY <1>3, FS_Subset, FS_CardinalityType
<1>6. f.fulfilled <= 100 /\ f.returned <= 100
  BY <1>2, <1>3, <1>4, <1>5, PercentIsBounded, SaleCounts
<1>7. f.buyers <= f.orders
  BY <1>2, <1>3, BuyersFit, SaleCounts
<1> QED BY <1>6, <1>7

LEMMA StatsReportFits ==
  ASSUME NEW seen, NEW rows \in OrderTables, NEW r,
         seen["total"] = rows, seen["pending"] = rows, seen["completed"] = rows,
         NEW f, f = Sale!StatsFigures(seen, r)
  PROVE  f.pending + f.completed <= f.orders
<1>1. PICK all, A, B : all = Sale!Within(rows, r) /\ A = Sale!WithStatus(rows, all, {"pending"}) /\ B = Sale!WithStatus(rows, all, {"delivered"})
  OBVIOUS
<1>2. f.orders = Sale!Cardinality(all) /\ f.pending = Sale!Cardinality(A) /\ f.completed = Sale!Cardinality(B)
  BY <1>1 DEF Sale!StatsFigures
<1>3. IsFiniteSet(all)
  BY <1>1, OrdersAreThere
<1>4. A \subseteq all /\ B \subseteq all /\ A \cap B = {}
  BY <1>1 DEF Sale!WithStatus
<1> QED BY <1>2, <1>3, <1>4, PartsFit, SaleCounts

\* The month that a day is in begins no later than the day.
LEMMA MonthBegins == Sale!Month(Today) * MonthDays <= Today /\ Sale!Month(Today) * MonthDays \in Int
<1>1. \A a \in Int, m \in Nat \ {0} : (a \div m) * m <= a /\ (a \div m) * m \in Int
  OBVIOUS
<1> QED BY <1>1, RecordAssumption DEF Sale!Month

LEMMA DashboardFits ==
  ASSUME NEW seen, NEW rows \in OrderTables,
         \A q \in {"today", "week", "month", "counts", "customers", "top", "trends"} : seen[q] = rows
  PROVE  Sale!DashboardAgrees(Sale!DashboardFigures(seen))
<1>1. PICK f : f = Sale!DashboardFigures(seen)
  OBVIOUS
<1>2. PICK day, week, month, A, B :
        /\ day = Sale!KeptWithin(rows, Sale!Last(0)) /\ week = Sale!KeptWithin(rows, Sale!Last(WeekDays))
        /\ month = Sale!KeptWithin(rows, Sale!ThisMonth)
        /\ A = Sale!WithStatus(rows, month, {"pending", "processing"}) /\ B = Sale!WithStatus(rows, month, {"delivered"})
  OBVIOUS
<1>3. /\ f.today = Sale!Revenue(rows, day) /\ f.week = Sale!Revenue(rows, week) /\ f.month = Sale!Revenue(rows, month)
      /\ f.orders = Sale!Cardinality(month) /\ f.pending = Sale!Cardinality(A) /\ f.completed = Sale!Cardinality(B)
      /\ f.sold = Sale!ProductFigures(rows, Sale!ThisMonth, 5).sold
      /\ f.trend = [d \in {rows[s].at : s \in week} |-> Sale!Revenue(rows, {s \in week : rows[s].at = d})]
  <2>1. f.today = Sale!Revenue(rows, day) /\ f.week = Sale!Revenue(rows, week) /\ f.month = Sale!Revenue(rows, month)
    BY <1>1, <1>2 DEF Sale!DashboardFigures
  <2>2. f.orders = Sale!Cardinality(month) /\ f.pending = Sale!Cardinality(A) /\ f.completed = Sale!Cardinality(B)
    BY <1>1, <1>2 DEF Sale!DashboardFigures
  <2>3. f.sold = Sale!ProductFigures(rows, Sale!ThisMonth, 5).sold
    BY <1>1 DEF Sale!DashboardFigures
  <2>4. f.trend = [d \in {rows[s].at : s \in week} |-> Sale!Revenue(rows, {s \in week : rows[s].at = d})]
    <3>1. f.trend = ByDay(seen["trends"], Sale!KeptWithin(seen["trends"], Sale!Last(WeekDays)))
      BY <1>1 DEF Sale!DashboardFigures, ByDay
    <3>2. f.trend = ByDay(rows, week)
      BY <1>2, <3>1
    <3> QED BY <3>2 DEF ByDay
  <2> QED BY <2>1, <2>2, <2>3, <2>4
<1>4. day \subseteq Sale!Placed(rows) /\ week \subseteq Sale!Placed(rows) /\ month \subseteq Sale!Placed(rows) /\ IsFiniteSet(month)
  BY <1>2, OrdersAreThere
<1>5. day \subseteq week /\ day \subseteq month
  <2>1. Today \in Int /\ WeekDays \in Nat
    BY RecordAssumption
  <2>2. \A d \in (Today - 0)..Today : d \in (Today - WeekDays)..Today /\ d \in (Sale!Month(Today) * MonthDays)..Today
    BY <2>1, MonthBegins
  <2> QED BY <1>2, <2>2 DEF Sale!KeptWithin, Sale!Within, Sale!Last, Sale!ThisMonth
<1>6. f.today <= f.week /\ f.today <= f.month
  BY <1>3, <1>4, <1>5, RevenueOfPart
<1>7. f.pending + f.completed <= f.orders
  <2>1. A \subseteq month /\ B \subseteq month /\ A \cap B = {}
    BY <1>2 DEF Sale!WithStatus
  <2> QED BY <1>3, <1>4, <2>1, PartsFit, SaleCounts
<1>8. Sale!Sum(f.trend) = f.week
  <2>1. PICK k : k = [s \in Sale!Placed(rows) |-> rows[s].at]
    OBVIOUS
  <2>2. \A s \in week : k[s] = rows[s].at
    BY <1>4, <2>1
  <2>3. f.trend = [d \in {k[s] : s \in week} |-> Sale!Revenue(rows, {s \in week : k[s] = d})]
    <3>1. f.trend = ByDay(rows, week)
      BY <1>3 DEF ByDay
    <3>2. f.trend = ByKey(rows, week, k)
      BY <2>2, <3>1, DaysAsKeys
    <3> QED BY <3>2 DEF ByKey
  <2>4. SumOf(f.trend) = Sale!Revenue(rows, week)
    BY <1>4, <2>3, RevenueByParts
  <2> QED BY <1>3, <2>4, SaleSums
<1>9. Sale!Sum(f.sold) >= f.orders
  <2>1. PICK units : units = Sale!ProductFigures(rows, Sale!ThisMonth, 5).sold
    OBVIOUS
  <2>2. SumOf(units) >= Cardinality(month)
    BY <1>2, <2>1, ItemsByParts
  <2> QED BY <1>3, <2>1, <2>2, SaleSums, SaleCounts
<1> QED BY <1>1, <1>6, <1>7, <1>8, <1>9 DEF Sale!DashboardAgrees

\* A finite set of numbers has a least.
LEMMA Smallest ==
  ASSUME NEW S, IsFiniteSet(S), S # {}, NEW v, \A s \in S : v[s] \in Int
  PROVE  \E m \in S : \A s \in S : v[m] <= v[s]
<1>1. PICK w : w = [s \in S |-> -v[s]]
  OBVIOUS
<1>2. \A s \in S : w[s] = -v[s] /\ w[s] \in Int
  BY <1>1
<1>3. PICK m \in S : \A s \in S : w[s] <= w[m]
  BY <1>2, Largest
<1> QED BY <1>2, <1>3

\* There is a k-th smallest value.
LEMMA KthIsThere ==
  ASSUME NEW f, NEW S, IsFiniteSet(S), \A b \in S : f[b] \in Int, NEW k \in Nat \ {0}, k <= Cardinality(S)
  PROVE  Sale!Kth(f, S, k) \in Int
<1>1. PICK least : least = [b \in S |-> Cardinality({o \in S : f[o] <= f[b]})]
  OBVIOUS
<1>2. \A T \in SUBSET S : IsFiniteSet(T) /\ Cardinality(T) \in Nat
  BY FS_Subset, FS_CardinalityType
<1>3. PICK G : G = {b \in S : k <= Cardinality({o \in S : f[o] <= f[b]})}
  OBVIOUS
<1>4. S # {}
  BY FS_EmptySet
<1>5. PICK last \in S : \A s \in S : f[s] <= f[last]
  BY <1>4, Largest
<1>6. {o \in S : f[o] <= f[last]} = S
  BY <1>5
<1>7. G # {} /\ IsFiniteSet(G) /\ \A b \in G : f[b] \in Int
  BY <1>2, <1>3, <1>5, <1>6
<1>8. PICK m \in G : \A b \in G : f[m] <= f[b]
  BY <1>7, Smallest
<1>9. PICK L : L = {o \in S : f[o] < f[m]}
  OBVIOUS
<1>10. Cardinality(L) < k
  <2>1. CASE L = {}
    BY <2>1, FS_EmptySet
  <2>2. CASE L # {}
    <3>1. IsFiniteSet(L) /\ \A b \in L : f[b] \in Int
      BY <1>2, <1>9
    <3>2. PICK u \in L : \A b \in L : f[b] <= f[u]
      BY <2>2, <3>1, Largest
    <3>3. f[m] \in Int /\ f[u] \in Int /\ f[u] < f[m] /\ u \in S
      BY <1>3, <1>8, <1>9, <3>2
    <3>4. u \notin G
      BY <1>8, <3>3
    <3>5. ~(k <= Cardinality({o \in S : f[o] <= f[u]}))
      BY <1>3, <3>3, <3>4
    <3>6. {o \in S : f[o] <= f[u]} = L
      BY <1>9, <3>2, <3>3
    <3> QED BY <1>2, <1>9, <3>5, <3>6
  <2> QED BY <2>1, <2>2
<1>11. \E v \in {f[b] : b \in S} : Sale!Cardinality({b \in S : f[b] < v}) < k /\ k <= Sale!Cardinality({b \in S : f[b] <= v})
  BY <1>3, <1>8, <1>9, <1>10, SaleCounts
<1>12. Sale!Kth(f, S, k) \in {f[b] : b \in S}
  BY <1>11 DEF Sale!Kth
<1> QED BY <1>12

\* The least of some numbers from 1 on.
LEMMA MinIsLeast ==
  ASSUME NEW N, N \subseteq Nat, N # {}
  PROVE  Sale!Min(N) \in N /\ \A n \in N : Sale!Min(N) <= n
<1>1. \E n \in N : \A m \in N : n <= m
  BY Least
<1> QED BY <1>1 DEF Sale!Min

LEMMA MaxIsLargest ==
  ASSUME NEW N, N \subseteq Int, N # {}, IsFiniteSet(N)
  PROVE  Sale!Max(N) \in N /\ \A n \in N : n <= Sale!Max(N)
<1>1. PICK v : v = [n \in N |-> n]
  OBVIOUS
<1>2. PICK m \in N : \A n \in N : v[n] <= v[m]
  BY <1>1, Largest
<1>3. \A n \in N : m >= n
  BY <1>1, <1>2
<1>4. Sale!Max(N) \in N /\ \A n \in N : Sale!Max(N) >= n
  BY <1>3 DEF Sale!Max
<1> QED BY <1>4

\* Who has no more is in no higher fifth.
LEMMA QuintilesAscend ==
  ASSUME NEW f, NEW S, IsFiniteSet(S), \A b \in S : f[b] \in Int, NEW o \in S, NEW b \in S
  PROVE  /\ Sale!Quintile(f, S, b) \in 1..5
         /\ f[o] <= f[b] => Sale!Quintile(f, S, o) <= Sale!Quintile(f, S, b)
<1>1. Cardinality(S) \in Nat /\ Cardinality(S) # 0
  BY FS_EmptySet, FS_CardinalityType
<1>2. PICK c \in Nat \ {0} : c = Cardinality(S)
  BY <1>1
<1>3. \A k \in 1..4 : (c * k) \div 5 + 1 \in Nat \ {0} /\ (c * k) \div 5 + 1 <= c
  OBVIOUS
<1>4. PICK K : K = [k \in 1..4 |-> Sale!Kth(f, S, (c * k) \div 5 + 1)]
  OBVIOUS
<1>5. \A k \in 1..4 : K[k] \in Int
  BY <1>2, <1>3, <1>4, KthIsThere
<1>6. PICK met : met = [x \in S |-> {k \in 1..4 : f[x] <= K[k]}]
  OBVIOUS
<1>7. \A x \in S : Sale!Quintile(f, S, x) = IF met[x] = {} THEN 5 ELSE Sale!Min(met[x])
  BY <1>2, <1>4, <1>6, SaleCounts DEF Sale!Quintile
<1>8. \A x \in S : met[x] \subseteq 1..4 /\ (met[x] # {} => Sale!Min(met[x]) \in met[x] /\ \A n \in met[x] : Sale!Min(met[x]) <= n)
  <2> TAKE x \in S
  <2>1. met[x] \subseteq 1..4 /\ met[x] \subseteq Nat
    BY <1>6
  <2> QED BY <2>1, MinIsLeast
<1>9. Sale!Quintile(f, S, b) \in 1..5
  BY <1>7, <1>8
<1>10. ASSUME f[o] <= f[b] PROVE Sale!Quintile(f, S, o) <= Sale!Quintile(f, S, b)
  <2>1. met[b] \subseteq met[o]
    BY <1>5, <1>6, <1>10
  <2>2. CASE met[b] = {}
    BY <1>7, <1>8, <2>2
  <2>3. CASE met[b] # {}
    <3>1. met[o] # {} /\ Sale!Min(met[b]) \in met[o]
      BY <1>8, <2>1, <2>3
    <3> QED BY <1>7, <1>8, <2>3, <3>1
  <2> QED BY <2>2, <2>3
<1> QED BY <1>9, <1>10

\* The branches that are not reached, and the first.
LEMMA SegmentsAre ==
  ASSUME NEW r \in Int, NEW f \in Int, NEW m \in Int
  PROVE  /\ Sale!Segment(r, f, m) \notin {"atRisk", "cantLose"}
         /\ Sale!Segment(r, f, m) = "champions" <=> r >= 4 /\ f >= 4 /\ m >= 4
<1>1. PICK branches :
        branches = << <<"champions", r >= 4 /\ f >= 4 /\ m >= 4>>, <<"loyalCustomers", r >= 3 /\ f >= 4 /\ m >= 4>>,
           <<"potentialLoyalists", r >= 4 /\ f <= 2 /\ m >= 3>>, <<"recentCustomers", r >= 4 /\ f <= 2 /\ m <= 2>>,
           <<"promising", r >= 3 /\ f <= 2 /\ m <= 3>>, <<"needsAttention", r <= 3 /\ f >= 3 /\ m >= 3>>,
           <<"atRisk", r <= 2 /\ f >= 3 /\ m >= 3>>, <<"cantLose", r <= 2 /\ f >= 4 /\ m >= 4>>,
           <<"hibernating", r <= 2 /\ f <= 2 /\ m >= 3>>, <<"lost", TRUE>> >>
  OBVIOUS
<1>2. PICK N : N = {n \in DOMAIN branches : branches[n][2]}
  OBVIOUS
<1>3. Sale!Segment(r, f, m) = branches[Sale!Min(N)][1]
  BY <1>1, <1>2 DEF Sale!Segment
<1>4. DOMAIN branches = 1..10
  BY <1>1
<1>5. /\ 1 \in N <=> r >= 4 /\ f >= 4 /\ m >= 4
      /\ 6 \in N <=> r <= 3 /\ f >= 3 /\ m >= 3
      /\ 7 \in N <=> r <= 2 /\ f >= 3 /\ m >= 3
      /\ 8 \in N <=> r <= 2 /\ f >= 4 /\ m >= 4
      /\ 10 \in N
  <2>1. PICK c1, c6, c7, c8 :
          /\ c1 = (r >= 4 /\ f >= 4 /\ m >= 4) /\ c6 = (r <= 3 /\ f >= 3 /\ m >= 3)
          /\ c7 = (r <= 2 /\ f >= 3 /\ m >= 3) /\ c8 = (r <= 2 /\ f >= 4 /\ m >= 4)
    OBVIOUS
  <2>2. branches[1] = <<"champions", c1>> /\ branches[6] = <<"needsAttention", c6>>
    BY <1>1, <2>1
  <2>3. branches[7] = <<"atRisk", c7>> /\ branches[8] = <<"cantLose", c8>> /\ branches[10] = <<"lost", TRUE>>
    BY <1>1, <2>1
  <2>4. branches[1][2] = c1 /\ branches[6][2] = c6
    BY <2>2
  <2>5. branches[7][2] = c7 /\ branches[8][2] = c8 /\ branches[10][2]
    BY <2>3
  <2>6. 1 \in DOMAIN branches /\ 6 \in DOMAIN branches /\ 7 \in DOMAIN branches /\ 8 \in DOMAIN branches /\ 10 \in DOMAIN branches
    BY <1>4
  <2>7. (1 \in N <=> c1) /\ (6 \in N <=> c6)
    BY <1>2, <2>4, <2>6
  <2>8. (7 \in N <=> c7) /\ (8 \in N <=> c8) /\ 10 \in N
    BY <1>2, <2>5, <2>6
  <2> QED BY <2>1, <2>7, <2>8
<1>6. PICK n : n = Sale!Min(N)
  OBVIOUS
<1>7. n \in N /\ \A x \in N : n <= x
  <2>1. N \subseteq Nat /\ N # {}
    BY <1>2, <1>4, <1>5
  <2> QED BY <1>6, <2>1, MinIsLeast
<1>8. n \in 1..10 /\ n # 7 /\ n # 8
  BY <1>2, <1>4, <1>5, <1>7
<1>9. n = 1 <=> r >= 4 /\ f >= 4 /\ m >= 4
  <2>1. 1 \in N => n = 1
    BY <1>7, <1>8
  <2> QED BY <1>5, <1>7, <2>1
<1>10. branches[n][1] \notin {"atRisk", "cantLose"} /\ (branches[n][1] = "champions" <=> n = 1)
  BY <1>1, <1>8
<1> QED BY <1>3, <1>6, <1>9, <1>10

\* What is known of each who bought: its orders, what it spent, and when it bought last.
LEMMA BuyersAreKnown ==
  ASSUME NEW rows \in OrderTables, NEW S, S = Sale!Kept(rows), NEW b \in Sale!BuyersOf(rows, S)
  PROVE  /\ IsFiniteSet(Sale!Of(rows, S, b)) /\ Sale!Of(rows, S, b) # {} /\ Sale!Of(rows, S, b) \subseteq Sale!Placed(rows)
         /\ Cardinality(Sale!Of(rows, S, b)) \in Nat /\ Sale!Revenue(rows, Sale!Of(rows, S, b)) \in Nat
         /\ Sale!Max({rows[s].at : s \in Sale!Of(rows, S, b)}) \in Int
<1>1. PICK T : T = Sale!Of(rows, S, b)
  OBVIOUS
<1>2. T \subseteq Sale!Placed(rows) /\ T # {}
  <2>1. T \subseteq S
    BY <1>1 DEF Sale!Of
  <2>2. T # {}
    BY <1>1 DEF Sale!Of, Sale!BuyersOf
  <2> QED BY <2>1, <2>2, OrdersAreThere
<1>3. IsFiniteSet(T) /\ Cardinality(T) \in Nat
  BY <1>2, OrdersAreThere
<1>4. Sale!Revenue(rows, T) \in Nat
  BY <1>2, RevenueOfPart
<1>5. Sale!Max({rows[s].at : s \in T}) \in Int
  <2>1. PICK k : k = [s \in T |-> rows[s].at]
    OBVIOUS
  <2>2. PICK N : N = {k[s] : s \in T}
    OBVIOUS
  <2>3. N = {rows[s].at : s \in T} /\ N # {} /\ N \subseteq Int
    BY <1>2, <2>1, <2>2, OrdersAreThere
  <2>4. IsFiniteSet(N)
    BY <1>3, <2>2, FiniteImage
  <2>5. Sale!Max(N) \in N
    BY <2>3, <2>4, MaxIsLargest
  <2> QED BY <2>3, <2>5
<1> QED BY <1>1, <1>2, <1>3, <1>4, <1>5

\* Nobody is ranked over who did better in everything.
LEMMA SegmentsAgree ==
  ASSUME NEW rows \in OrderTables, NEW S, S = Sale!Kept(rows), NEW g, g = Sale!Segments(rows),
         NEW b \in Sale!BuyersOf(rows, S), NEW o \in Sale!BuyersOf(rows, S)
  PROVE  /\ g[b] \notin {"atRisk", "cantLose"}
         /\ /\ Sale!Spent(rows)[o] <= Sale!Spent(rows)[b]
            /\ Sale!Cardinality(Sale!Of(rows, S, o)) <= Sale!Cardinality(Sale!Of(rows, S, b))
            /\ Sale!Max({rows[s].at : s \in Sale!Of(rows, S, o)}) <= Sale!Max({rows[s].at : s \in Sale!Of(rows, S, b)})
            /\ g[o] = "champions"
            => g[b] = "champions"
<1>1. PICK B : B = Sale!BuyersOf(rows, S)
  OBVIOUS
<1>2. PICK rec : rec = [x \in B |-> Today - Sale!Max({rows[s].at : s \in Sale!Of(rows, S, x)})]
  OBVIOUS
<1>3. PICK fre : fre = [x \in B |-> Sale!Cardinality(Sale!Of(rows, S, x))]
  OBVIOUS
<1>4. PICK mon : mon = [x \in B |-> Sale!Revenue(rows, Sale!Of(rows, S, x))]
  OBVIOUS
<1>5. g = [x \in B |-> Sale!Segment(6 - Sale!Quintile(rec, B, x), Sale!Quintile(fre, B, x), Sale!Quintile(mon, B, x))]
  BY <1>1, <1>2, <1>3, <1>4 DEF Sale!Segments
<1>6. IsFiniteSet(B)
  <2>1. S \subseteq Sale!Placed(rows)
    BY OrdersAreThere
  <2> QED BY <1>1, <2>1, BuyersFit
<1>7. \A x \in B : rec[x] \in Int /\ fre[x] \in Int /\ mon[x] \in Int
  <2> TAKE x \in B
  <2>1. /\ Cardinality(Sale!Of(rows, S, x)) \in Nat /\ Sale!Revenue(rows, Sale!Of(rows, S, x)) \in Nat
        /\ Sale!Max({rows[s].at : s \in Sale!Of(rows, S, x)}) \in Int
    BY <1>1, BuyersAreKnown
  <2>2. Today \in Int
    BY RecordAssumption
  <2> QED BY <1>2, <1>3, <1>4, <2>1, <2>2, SaleCounts
<1>8. b \in B /\ o \in B
  BY <1>1
<1>9. \A x \in B : Sale!Quintile(rec, B, x) \in 1..5 /\ Sale!Quintile(fre, B, x) \in 1..5 /\ Sale!Quintile(mon, B, x) \in 1..5
  BY <1>6, <1>7, QuintilesAscend
<1>10. PICK q : q = [x \in B |-> <<6 - Sale!Quintile(rec, B, x), Sale!Quintile(fre, B, x), Sale!Quintile(mon, B, x)>>]
  OBVIOUS
<1>11. \A x \in B :
         /\ q[x][1] = 6 - Sale!Quintile(rec, B, x) /\ q[x][2] = Sale!Quintile(fre, B, x) /\ q[x][3] = Sale!Quintile(mon, B, x)
         /\ q[x][1] \in Int /\ q[x][2] \in Int /\ q[x][3] \in Int
         /\ g[x] = Sale!Segment(q[x][1], q[x][2], q[x][3])
  BY <1>5, <1>9, <1>10
<1>12. \A x \in B : g[x] \notin {"atRisk", "cantLose"} /\ (g[x] = "champions" <=> q[x][1] >= 4 /\ q[x][2] >= 4 /\ q[x][3] >= 4)
  BY <1>11, SegmentsAre
<1>13. ASSUME Sale!Spent(rows)[o] <= Sale!Spent(rows)[b],
              Sale!Cardinality(Sale!Of(rows, S, o)) <= Sale!Cardinality(Sale!Of(rows, S, b)),
              Sale!Max({rows[s].at : s \in Sale!Of(rows, S, o)}) <= Sale!Max({rows[s].at : s \in Sale!Of(rows, S, b)}),
              g[o] = "champions"
       PROVE  g[b] = "champions"
  <2>1. mon[o] <= mon[b]
    BY <1>1, <1>4, <1>8, <1>13 DEF Sale!Spent
  <2>2. fre[o] <= fre[b]
    BY <1>3, <1>8, <1>13
  <2>3. rec[b] <= rec[o]
    <3>1. \A x \in {o, b} : Sale!Max({rows[s].at : s \in Sale!Of(rows, S, x)}) \in Int
      BY BuyersAreKnown
    <3>2. Today \in Int
      BY RecordAssumption
    <3> QED BY <1>2, <1>8, <1>13, <3>1, <3>2
  <2>4. Sale!Quintile(mon, B, o) <= Sale!Quintile(mon, B, b)
    BY <1>6, <1>7, <1>8, <2>1, QuintilesAscend
  <2>5. Sale!Quintile(fre, B, o) <= Sale!Quintile(fre, B, b)
    BY <1>6, <1>7, <1>8, <2>2, QuintilesAscend
  <2>6. Sale!Quintile(rec, B, b) <= Sale!Quintile(rec, B, o)
    BY <1>6, <1>7, <1>8, <2>3, QuintilesAscend
  <2>7. q[b][1] >= q[o][1] /\ q[b][2] >= q[o][2] /\ q[b][3] >= q[o][3]
    BY <1>8, <1>9, <1>11, <2>4, <2>5, <2>6
  <2>8. q[o][1] >= 4 /\ q[o][2] >= 4 /\ q[o][3] >= 4
    BY <1>8, <1>12, <1>13
  <2> QED BY <1>8, <1>11, <1>12, <2>7, <2>8
<1> QED BY <1>8, <1>12, <1>13

LEMMA CustomersFit ==
  ASSUME NEW seen, NEW rows \in OrderTables, NEW r,
         seen["counts"] = rows, seen["current"] = rows, seen["previous"] = rows, seen["rfm"] = rows
  PROVE  Sale!CustomersAgree(rows, Sale!CustomerFigures(seen, r))
<1>1. PICK f : f = Sale!CustomerFigures(seen, r)
  OBVIOUS
<1>2. PICK now, before :
        /\ now = Sale!BuyersOf(rows, Sale!KeptWithin(rows, r))
        /\ before = Sale!BuyersOf(rows, Sale!KeptWithin(rows, [from |-> r.from - (r.to - r.from), to |-> r.from - 1]))
  OBVIOUS
<1>3. /\ f.repeat = Sale!Repeat(rows) /\ f.value = Sale!Sum(Sale!Spent(rows)) /\ f.segments = Sale!Segments(rows)
      /\ f.retention = Sale!Percent(Sale!Cardinality(now \cap before), Sale!Cardinality(before))
  BY <1>1, <1>2 DEF Sale!CustomerFigures
<1>4. f.retention <= 100
  <2>1. IsFiniteSet(before)
    BY <1>2, OrdersAreThere, BuyersFit
  <2>2. Cardinality(now \cap before) <= Cardinality(before) /\ IsFiniteSet(now \cap before)
    BY <2>1, FS_Subset
  <2>3. Cardinality(now \cap before) \in Nat /\ Cardinality(before) \in Nat
    BY <2>1, <2>2, FS_CardinalityType
  <2> QED BY <1>3, <2>2, <2>3, PercentIsBounded, SaleCounts
<1>5. PICK S : S = Sale!Kept(rows)
  OBVIOUS
<1>6. DOMAIN f.segments = Sale!BuyersOf(rows, S)
  BY <1>3, <1>5 DEF Sale!Segments
<1>7. f.repeat \subseteq DOMAIN f.segments
  <2>1. ASSUME NEW b \in f.repeat PROVE b \in Sale!BuyersOf(rows, S)
    <3>1. Cardinality(Sale!Of(rows, S, b)) > 1
      BY <1>3, <1>5, <2>1, SaleCounts DEF Sale!Repeat
    <3>2. Sale!Of(rows, S, b) # {}
      BY <3>1, FS_EmptySet
    <3> QED BY <3>2 DEF Sale!Of, Sale!BuyersOf
  <2> QED BY <1>6, <2>1
<1>8. \A b \in DOMAIN f.segments : f.segments[b] \notin {"atRisk", "cantLose"}
  BY <1>3, <1>5, <1>6, SegmentsAgree
<1>9. ASSUME NEW b \in DOMAIN f.segments, NEW o \in DOMAIN f.segments,
             Sale!Spent(rows)[o] <= Sale!Spent(rows)[b],
             Sale!Cardinality(Sale!Of(rows, S, o)) <= Sale!Cardinality(Sale!Of(rows, S, b)),
             Sale!Max({rows[s].at : s \in Sale!Of(rows, S, o)}) <= Sale!Max({rows[s].at : s \in Sale!Of(rows, S, b)}),
             f.segments[o] = "champions"
      PROVE  f.segments[b] = "champions"
  <2>1. PICK g : g = Sale!Segments(rows) /\ f.segments = g
    BY <1>3
  <2>2. b \in Sale!BuyersOf(rows, S) /\ o \in Sale!BuyersOf(rows, S)
    BY <1>6, <1>9
  <2>3. g[o] = "champions" => g[b] = "champions"
    BY <1>5, <1>9, <2>1, <2>2, SegmentsAgree
  <2> QED BY <1>9, <2>1, <2>3
<1> QED BY <1>1, <1>3, <1>4, <1>5, <1>6, <1>7, <1>8, <1>9 DEF Sale!CustomersAgree

\* The statements that each report reads.
LEMMA StatementsOf ==
  \A kind \in Sale!Kinds :
    /\ kind = "sales" => {"current", "previous", "daily", "byStatus"} \subseteq QueriesIn(Sale!Stages(kind))
    /\ kind \in {"products", "period", "churn"} => {"only"} \subseteq QueriesIn(Sale!Stages(kind))
    /\ kind = "customers" => {"counts", "current", "previous", "top", "rfm"} \subseteq QueriesIn(Sale!Stages(kind))
    /\ kind = "cohort" => {"members", "active"} \subseteq QueriesIn(Sale!Stages(kind))
    /\ kind = "kpis" => {"stats", "timing", "inventory", "returned", "customers"} \subseteq QueriesIn(Sale!Stages(kind))
    /\ kind = "dashboard" => {"today", "week", "month", "counts", "customers", "top", "trends"} \subseteq QueriesIn(Sale!Stages(kind))
    /\ kind = "stats" => {"total", "pending", "completed", "revenue"} \subseteq QueriesIn(Sale!Stages(kind))
<1>1. /\ \A A : A \subseteq QueriesIn(<<A>>)
      /\ \A A, B : A \cup B \subseteq QueriesIn(<<A, B>>)
      /\ \A A, B, C, D : A \cup B \cup C \cup D \subseteq QueriesIn(<<A, B, C, D>>)
  BY DEF QueriesIn
<1> SUFFICES ASSUME NEW kind \in Sale!Kinds
             PROVE  /\ kind = "sales" => {"current", "previous", "daily", "byStatus"} \subseteq QueriesIn(Sale!Stages(kind))
                    /\ kind \in {"products", "period", "churn"} => {"only"} \subseteq QueriesIn(Sale!Stages(kind))
                    /\ kind = "customers" => {"counts", "current", "previous", "top", "rfm"} \subseteq QueriesIn(Sale!Stages(kind))
                    /\ kind = "cohort" => {"members", "active"} \subseteq QueriesIn(Sale!Stages(kind))
                    /\ kind = "kpis" => {"stats", "timing", "inventory", "returned", "customers"} \subseteq QueriesIn(Sale!Stages(kind))
                    /\ kind = "dashboard" => {"today", "week", "month", "counts", "customers", "top", "trends"} \subseteq QueriesIn(Sale!Stages(kind))
                    /\ kind = "stats" => {"total", "pending", "completed", "revenue"} \subseteq QueriesIn(Sale!Stages(kind))
  OBVIOUS
<1>2. CASE kind = "sales"
  <2>1. Sale!Stages(kind) = <<{"current", "previous", "daily", "byStatus"}>>
    BY <1>2 DEF Sale!Stages
  <2> QED BY <1>1, <1>2, <2>1
<1>3. CASE kind \in {"products", "period", "churn"}
  <2>1. Sale!Stages(kind) = <<{"only"}>>
    BY <1>3 DEF Sale!Stages
  <2> QED BY <1>1, <1>3, <2>1
<1>4. CASE kind = "customers"
  <2>1. Sale!Stages(kind) = <<{"counts"}, {"current", "previous"}, {"top"}, {"rfm"}>>
    BY <1>4 DEF Sale!Stages
  <2>2. {"counts"} \cup {"current", "previous"} \cup {"top"} \cup {"rfm"} \subseteq QueriesIn(Sale!Stages(kind))
    BY <1>1, <2>1
  <2> QED BY <1>4, <2>2
<1>5. CASE kind = "cohort"
  <2>1. Sale!Stages(kind) = <<{"members"}, {"active"}>>
    BY <1>5 DEF Sale!Stages
  <2>2. {"members"} \cup {"active"} \subseteq QueriesIn(Sale!Stages(kind))
    BY <1>1, <2>1
  <2> QED BY <1>5, <2>2
<1>6. CASE kind = "kpis"
  <2>1. Sale!Stages(kind) = <<{"stats", "timing", "inventory", "returned", "customers"}>>
    BY <1>6 DEF Sale!Stages
  <2> QED BY <1>1, <1>6, <2>1
<1>7. CASE kind = "dashboard"
  <2>1. Sale!Stages(kind) = <<{"today", "week", "month", "counts", "customers", "top", "trends"}>>
    BY <1>7 DEF Sale!Stages
  <2> QED BY <1>1, <1>7, <2>1
<1>8. CASE kind = "stats"
  <2>1. Sale!Stages(kind) = <<{"total", "pending", "completed", "revenue"}>>
    BY <1>8 DEF Sale!Stages
  <2> QED BY <1>1, <1>8, <2>1
<1> QED BY <1>2, <1>3, <1>4, <1>5, <1>6, <1>7, <1>8 DEF Sale!Kinds

\* The figures of a report whose statements saw the same orders agree.
LEMMA SaleAccounted ==
  ASSUME SaleInv
  PROVE  Sale!FiguresAgree
<1> SUFFICES ASSUME Sale!Told, Sale!OneMoment PROVE Sale!FiguresAgree
  BY DEF Sale!FiguresAgree
<1>1. PICK kind, seen, r, month : kind = report.kind /\ seen = report.seen /\ r = report.range /\ month = report.month
  OBVIOUS
<1>2. /\ kind \in Sale!Kinds /\ \A q \in DOMAIN seen : seen[q] \in OrderTables
      /\ QueriesIn(Sale!Stages(kind)) \subseteq DOMAIN seen
  <2>1. QueriesIn(<<>>) = {}
    BY DEF QueriesIn
  <2> QED BY <1>1, <2>1 DEF Sale!Told, SaleInv
<1>3. \A p, q \in DOMAIN seen : seen[p] = seen[q]
  BY <1>1 DEF Sale!OneMoment
<1>4. CASE kind = "sales"
  <2>1. {"current", "daily", "byStatus"} \subseteq DOMAIN seen
    BY <1>2, <1>4, StatementsOf
  <2>2. PICK rows \in OrderTables : seen["current"] = rows /\ seen["daily"] = rows /\ seen["byStatus"] = rows
    BY <1>2, <1>3, <2>1
  <2>3. Sale!SalesAgree(Sale!SalesFigures(seen, r))
    BY <2>2, SalesFit
  <2> QED BY <1>1, <1>4, <2>3 DEF Sale!FiguresAgree
<1>5. CASE kind \in {"products", "period", "churn"}
  <2>1. "only" \in DOMAIN seen
    BY <1>2, <1>5, StatementsOf
  <2>2. PICK rows \in OrderTables : seen["only"] = rows
    BY <1>2, <2>1
  <2>3. CASE kind = "products"
    <3>1. \A p \in DOMAIN Sale!ProductFigures(rows, r, 1).sold : \E t \in Sale!ProductFigures(rows, r, 1).top :
             Sale!ProductFigures(rows, r, 1).sold[p] <= Sale!ProductFigures(rows, r, 1).sold[t]
      BY ProductsFit
    <3> QED BY <1>1, <2>2, <2>3, <3>1 DEF Sale!FiguresAgree
  <2>4. CASE kind = "period"
    BY <1>1, <2>2, <2>4, PeriodFits DEF Sale!FiguresAgree
  <2>5. CASE kind = "churn"
    BY <1>1, <2>2, <2>5, ChurnFits DEF Sale!FiguresAgree
  <2> QED BY <1>5, <2>3, <2>4, <2>5
<1>6. CASE kind = "customers"
  <2>1. {"counts", "current", "previous", "rfm"} \subseteq DOMAIN seen
    BY <1>2, <1>6, StatementsOf
  <2>2. PICK rows \in OrderTables : seen["counts"] = rows /\ seen["current"] = rows /\ seen["previous"] = rows /\ seen["rfm"] = rows
    BY <1>2, <1>3, <2>1
  <2>3. Sale!CustomersAgree(rows, Sale!CustomerFigures(seen, r))
    BY <2>2, CustomersFit
  <2> QED BY <1>1, <1>6, <2>2, <2>3 DEF Sale!FiguresAgree
<1>7. CASE kind = "cohort"
  <2>1. "members" \in DOMAIN seen
    BY <1>2, <1>7, StatementsOf
  <2>2. PICK rows \in OrderTables : seen["members"] = rows
    BY <1>2, <2>1
  <2>3. Sale!CohortAgrees(Sale!CohortFigures(seen, r.from, month))
    BY <2>2, CohortFits
  <2> QED BY <1>1, <1>7, <2>3 DEF Sale!FiguresAgree
<1>8. CASE kind = "kpis"
  <2>1. {"stats", "timing", "returned", "customers"} \subseteq DOMAIN seen
    BY <1>2, <1>8, StatementsOf
  <2>2. PICK rows \in OrderTables : seen["stats"] = rows /\ seen["timing"] = rows /\ seen["returned"] = rows /\ seen["customers"] = rows
    BY <1>2, <1>3, <2>1
  <2>3. PICK f : f = Sale!KpiFigures(seen, r)
    OBVIOUS
  <2>4. f.fulfilled <= 100 /\ f.returned <= 100 /\ f.buyers <= f.orders
    BY <2>2, <2>3, KpisFit
  <2> QED BY <1>1, <1>8, <2>3, <2>4 DEF Sale!FiguresAgree
<1>9. CASE kind = "dashboard"
  <2>1. {"today", "week", "month", "counts", "customers", "top", "trends"} \subseteq DOMAIN seen
    BY <1>2, <1>9, StatementsOf
  <2>2. PICK rows \in OrderTables : \A q \in {"today", "week", "month", "counts", "customers", "top", "trends"} : seen[q] = rows
    BY <1>2, <1>3, <2>1
  <2>3. Sale!DashboardAgrees(Sale!DashboardFigures(seen))
    BY <2>2, DashboardFits
  <2> QED BY <1>1, <1>9, <2>3 DEF Sale!FiguresAgree
<1>10. CASE kind = "stats"
  <2>1. {"total", "pending", "completed"} \subseteq DOMAIN seen
    BY <1>2, <1>10, StatementsOf
  <2>2. PICK rows \in OrderTables : seen["total"] = rows /\ seen["pending"] = rows /\ seen["completed"] = rows
    BY <1>2, <1>3, <2>1
  <2>3. PICK f : f = Sale!StatsFigures(seen, r)
    OBVIOUS
  <2>4. f.pending + f.completed <= f.orders
    BY <2>2, <2>3, StatsReportFits
  <2> QED BY <1>1, <1>10, <2>3, <2>4 DEF Sale!FiguresAgree
<1> QED BY <1>2, <1>4, <1>5, <1>6, <1>7, <1>8, <1>9, <1>10 DEF Sale!Kinds

=============================================================================

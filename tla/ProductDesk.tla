------------------------------ MODULE ProductDesk ------------------------------
(***************************************************************************)
(* features/products without the stock movements (StockReservation has     *)
(* them), and the WhatsApp catalogue that is filled from it.               *)
(*                                                                         *)
(* Neither the uniqueness of an SKU nor the rule for prices is known to    *)
(* the database: both are checked by reads that precede the write.  The    *)
(* platform call of a synchronisation is a stub in the code; the writes    *)
(* around it are the model's.  Names, texts, media, slugs, variants and    *)
(* the stock a form may set are left out.                                  *)
(***************************************************************************)
EXTENDS Integers, FiniteSets

CONSTANTS
  Products, NoProduct,
  Skus, NoSku,
  Prices, NoPrice,   \* NoPrice: no price to compare with
  Errands,           \* requests that are served at once
  GoodsPatches,      \* what an update may say: functions from some of "sku", "price",
                     \* "compare" and, always, "active"
  MaxErrands         \* bound on the requests that are served

VARIABLES
  goods,     \* row of each product, or NoProduct
  errands,   \* what each request is about to write
  served,      \* requests so far
  twins,     \* products whose SKU was checked while another was about to get it
  unpriced,  \* products whose prices were not checked as they are now: imported
             \* in bulk, or last written by an update that another overlapped
  dropped    \* products a synchronisation was working on when it broke off

goodsVars == <<goods, errands, served, twins, unpriced, dropped>>

NoErrand == [at |-> "none"]
Counted == served < MaxErrands /\ served' = served + 1
Starts(e, j) ==
  /\ errands[e] = NoErrand /\ Counted
  /\ errands' = [errands EXCEPT ![e] = j]
Goes(e, j) == errands' = [errands EXCEPT ![e] = j] /\ UNCHANGED served

OnSale(p) == goods[p] # NoProduct

\* validateSkuUniqueness, for anyone but p.
SkuTaken(s, p) == s # NoSku /\ \E o \in Products \ {p} : OnSale(o) /\ goods[o].sku = s

\* Who is about to write the SKU meanwhile.
SkuRacers(s, p) ==
  IF s = NoSku THEN {}
  ELSE {o \in Products \ {p} : \E e \in Errands :
          errands[e].at \in {"insert", "update"} /\ errands[e].product = o /\ errands[e].sku = s}

\* The products that may get the same SKU from now on.
Paired(s, p) == IF SkuRacers(s, p) = {} THEN twins ELSE twins \cup {p} \cup SkuRacers(s, p)

Sensible(price, compare) == ~(compare # NoPrice /\ compare <= price)

Updates(p) == {e \in Errands : errands[e].at = "update" /\ errands[e].product = p}

-----------------------------------------------------------------------------
Unknown(p) == ~OnSale(p) /\ ~\E o \in Errands : errands[o].at = "insert" /\ errands[o].product = p

\* The product is about to be inserted, its prices compared or not.
Enters(e, p, s, price, compare, compared) ==
  /\ Unknown(p) /\ ~SkuTaken(s, p) /\ twins' = Paired(s, p)
  /\ Starts(e, [at |-> "insert", product |-> p, sku |-> s, compared |-> compared,
                row |-> [sku |-> s, price |-> price, compare |-> compare, active |-> TRUE,
                         listed |-> FALSE, sync |-> "not_synced"]])
  /\ UNCHANGED <<goods, unpriced, dropped>>

AskProduct(e, p) ==
  \E s \in Skus \cup {NoSku}, price \in Prices, compare \in Prices \cup {NoPrice} :
    Sensible(price, compare) /\ Enters(e, p, s, price, compare, TRUE)

\* bulkCreate, one of its products: the prices are not compared.
ImportProduct(e, p) ==
  \E s \in Skus \cup {NoSku}, price \in Prices, compare \in Prices \cup {NoPrice} :
    Enters(e, p, s, price, compare, FALSE)

InsertProduct(e) ==
  LET j == errands[e]
  IN  /\ j.at = "insert" /\ Goes(e, NoErrand)
      /\ goods' = [goods EXCEPT ![j.product] = j.row]
      /\ unpriced' = IF j.compared THEN unpriced ELSE unpriced \cup {j.product}
      /\ UNCHANGED <<twins, dropped>>

\* Of the updates of p that are under way, none is alone any more.
Noticed(p) == [o \in Errands |-> IF o \in Updates(p) THEN [errands[o] EXCEPT !.alone = FALSE] ELSE errands[o]]

\* What the request leaves out is checked as it was read: only prices that are
\* given are compared, with the stored one in place of one that is not.
AskChange(e, p) ==
  /\ OnSale(p) /\ errands[e] = NoErrand /\ Counted
  /\ \E patch \in GoodsPatches :
       LET s == IF "sku" \in DOMAIN patch THEN patch.sku ELSE goods[p].sku
           price == IF "price" \in DOMAIN patch THEN patch.price ELSE goods[p].price
           compare == IF "compare" \in DOMAIN patch /\ patch.compare # NoPrice THEN patch.compare ELSE goods[p].compare
       IN  /\ s # goods[p].sku => ~SkuTaken(s, p)
           /\ Sensible(price, compare)
           /\ errands' = [Noticed(p) EXCEPT ![e] =
                            [at |-> "update", product |-> p, sku |-> s, patch |-> patch, alone |-> Updates(p) = {}]]
           /\ twins' = IF s # goods[p].sku THEN Paired(s, p) ELSE twins
  /\ UNCHANGED <<goods, unpriced, dropped>>

Patched(row, patch) == [f \in DOMAIN row |-> IF f \in DOMAIN patch THEN patch[f] ELSE row[f]]

\* The request object carries the defaults of the creating one: is_active comes
\* as TRUE unless the request says otherwise.
ChangeProduct(e) ==
  LET j == errands[e]
  IN  /\ j.at = "update" /\ Goes(e, NoErrand)
      /\ goods' = [goods EXCEPT ![j.product] = Patched(@, j.patch)]
      /\ unpriced' = IF j.alone THEN unpriced \ {j.product} ELSE unpriced \cup {j.product}
      /\ UNCHANGED <<twins, dropped>>

\* delete only deactivates.
Withdraw(p) ==
  /\ OnSale(p) /\ goods' = [goods EXCEPT ![p].active = FALSE]
  /\ Counted /\ UNCHANGED <<errands, twins, unpriced, dropped>>

-----------------------------------------------------------------------------
(* The catalogue                                                           *)

\* toggleProductInCatalog and bulkUpdateCatalog, whatever is being synchronised.
Toggle(S) ==
  /\ \E b \in BOOLEAN :
       goods' = [p \in Products |->
                   IF p \in S /\ OnSale(p) THEN [goods[p] EXCEPT !.listed = b, !.sync = IF b THEN "pending" ELSE "not_synced"]
                   ELSE goods[p]]
  /\ Counted /\ UNCHANGED <<errands, twins, unpriced, dropped>>

\* syncToWhatsApp reads its list once; what is "syncing" is not on it.
SyncDue(p) == OnSale(p) /\ goods[p].listed /\ goods[p].active /\ goods[p].sync \in {"pending", "failed", "not_synced"}

StartSync(e) ==
  /\ Starts(e, [at |-> "sync", left |-> {p \in Products : SyncDue(p)}])
  /\ UNCHANGED <<goods, twins, unpriced, dropped>>

\* Mutation: all products of the list are marked at once.
SyncNextMarked(e) ==
  /\ errands[e].at = "sync"
  /\ \E p \in errands[e].left :
       /\ Goes(e, [at |-> "syncing", product |-> p, left |-> errands[e].left \ {p}])
       /\ goods' = [o \in Products |-> IF o \in errands[e].left THEN [goods[o] EXCEPT !.sync = "syncing"] ELSE goods[o]]
  /\ UNCHANGED <<twins, unpriced, dropped>>

SyncNext(e) ==
  /\ errands[e].at = "sync"
  /\ \E p \in errands[e].left :
       /\ Goes(e, [at |-> "syncing", product |-> p, left |-> errands[e].left \ {p}])
       /\ goods' = [goods EXCEPT ![p].sync = "syncing"]
  /\ UNCHANGED <<twins, unpriced, dropped>>

\* The platform took it, or the attempt failed and is written down.
Synced(e) ==
  /\ errands[e].at = "syncing"
  /\ \E s \in {"synced", "failed"} : goods' = [goods EXCEPT ![errands[e].product].sync = s]
  /\ Goes(e, [at |-> "sync", left |-> errands[e].left])
  /\ UNCHANGED <<twins, unpriced, dropped>>

SyncEnds(e) ==
  /\ errands[e].at = "sync" /\ errands[e].left = {} /\ Goes(e, NoErrand)
  /\ UNCHANGED <<goods, twins, unpriced, dropped>>

\* removeFromWhatsAppCatalog: only what was synchronised once.
TakeDown(p) ==
  /\ OnSale(p) /\ goods[p].sync = "synced"
  /\ goods' = [goods EXCEPT ![p] = [@ EXCEPT !.listed = FALSE, !.sync = "not_synced"]]
  /\ Counted /\ UNCHANGED <<errands, twins, unpriced, dropped>>

\* A statement fails, that of an error's record included, or the process stops.
ErrandFails(e) ==
  /\ errands[e] # NoErrand /\ Goes(e, NoErrand)
  /\ dropped' = IF errands[e].at = "syncing" THEN dropped \cup {errands[e].product} ELSE dropped
  /\ UNCHANGED <<goods, twins, unpriced>>

-----------------------------------------------------------------------------
Init ==
  /\ goods = [p \in Products |-> NoProduct]
  /\ errands = [e \in Errands |-> NoErrand]
  /\ served = 0 /\ twins = {} /\ unpriced = {} /\ dropped = {}

Next ==
  \/ \E e \in Errands :
       \/ InsertProduct(e) \/ ChangeProduct(e) \/ StartSync(e) \/ SyncNext(e) \/ Synced(e) \/ SyncEnds(e) \/ ErrandFails(e)
       \/ \E p \in Products : AskProduct(e, p) \/ ImportProduct(e, p) \/ AskChange(e, p)
  \/ \E p \in Products : Withdraw(p) \/ TakeDown(p)
  \/ \E S \in SUBSET Products : Toggle(S)

Spec == Init /\ [][Next]_goodsVars

-----------------------------------------------------------------------------
TypeOK ==
  /\ twins \cup unpriced \cup dropped \subseteq Products
  /\ \A p \in Products : OnSale(p) => goods[p].sku \in Skus \cup {NoSku} /\ goods[p].price \in Prices

\* Two products have the same SKU only if it was looked for while the other was
\* about to get it (validateSkuUniqueness; no index forbids it).
SkusDiffer ==
  \A p, o \in Products :
    p # o /\ OnSale(p) /\ OnSale(o) /\ goods[p].sku = goods[o].sku /\ goods[p].sku # NoSku => {p, o} \subseteq twins

\* The price to compare with is the higher one, unless the product was imported
\* or the last update of it overlapped another, whose prices it did not see.
PricesMakeSense ==
  \A p \in Products \ unpriced : OnSale(p) => Sensible(goods[p].price, goods[p].compare)

\* A product is "syncing", which no later synchronisation takes up, only while
\* one is at it or if one broke off at it (syncToWhatsApp).
SyncingIsWorkedOn ==
  \A p \in Products :
    OnSale(p) /\ goods[p].sync = "syncing" =>
      p \in dropped \/ \E e \in Errands : errands[e].at = "syncing" /\ errands[e].product = p
=============================================================================

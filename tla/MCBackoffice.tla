------------------------------ MODULE MCBackoffice ------------------------------
EXTENDS Backoffice, TLC

CONSTANTS mail, v, w, own, visitor

\* NotificationTemplates: a text refers to no variable, to the required one, or
\* to both, or is not there.
SomeTexts == [Channels -> {Absent, {v}, {v, w}}]
SomePatches ==
  {("enabled" :> {}), ("enabled" :> {mail}), ("active" :> TRUE)}
    \cup {("text" :> t) : t \in SomeTexts}
    \cup {("defined" :> d) : d \in {{v}, {v, w}}}
    \cup {("text" :> [c \in Channels |-> {v, w}]) @@ ("defined" :> {v, w})}

\* InstagramDesk: the comment is the account's own.
SomeIgAuthor == [i \in Comments \cup Directs |-> IF i \in Comments THEN own ELSE visitor]

\* ProductDesk: an import, a price raised, a price to compare with, an SKU taken.
SomeGoodsPatches ==
  {("active" :> FALSE)}
    \cup {("active" :> TRUE) @@ f : f \in {("price" :> 2), ("compare" :> 1), ("compare" :> 2), ("sku" :> "x")}}

\* Listings: every list, with a filter of each sort.
List1(name) == [list |-> name, limit |-> 1]
SomeShapes == {[kind |-> "a", grade |-> 1], [kind |-> "b", grade |-> 2]}
SomeQueries ==
  {List1("products") @@ ("cursor" :> TRUE), List1("customers") @@ ("by" :> "grade"),
   List1("leads") @@ ("least" :> 2), List1("orders") @@ ("asc" :> TRUE) @@ ("kind" :> "a"),
   [list |-> "payments", limit |-> 2, most |-> 1], List1("movements") @@ ("from" :> 1),
   List1("reviews") @@ ("live" :> TRUE) @@ ("from" :> 1), List1("templates") @@ ("kind" :> "a"),
   [list |-> "campaigns", limit |-> 2], List1("conversations")}

\* SalesReports: an order table that is empty, and one that reaches over the
\* months and the statuses; a database that has all names, and one that lacks
\* those the schema does not have.
Sale1(buyer, at, total, status) ==
  [buyer |-> buyer, at |-> at, total |-> total, items |-> 1, status |-> status,
   paid |-> status \in {"paid", "shipped", "delivered"}]
SomeHistories ==
  {[s \in Sales |-> NoSale],
   [s \in Sales |-> CASE s = 1 -> Sale1("a", 1, 1, "refunded")
                      [] s = 2 -> Sale1("b", 2, 2, "cancelled")
                      [] s = 3 -> Sale1("b", 5, 2, "shipped")
                      [] s \in 4..5 -> Sale1("c", 5, 2, "pending")
                      [] s = 6 -> Sale1("d", 2, 2, "paid")
                      [] s = 7 -> Sale1("b", 3, 1, "delivered")
                      [] OTHER -> NoSale]}
SomeDatabases ==
  {{}, {"product_name", "order_items.price", "one grouping", "customer_name", "inventory_movements"}}

\* StockReports: a shelf in each of two warehouses.
SomeShelves == {<<"h", "p">>, <<"k", "q">>}
SomeSchemas == {{}, {"product_name", "reorder_point NULL", "inventory_movements"}}

\* WarehouseDesk and SendPace.
SomeHousePatches == {[capacity |-> 1], [priority |-> 1], [active |-> FALSE], [capacity |-> -1]}
SomeNumbers == {[digits |-> 10, coded |-> coded] : coded \in BOOLEAN}

\* AudienceDesk: two leads and two customers, one phone of both, one lead with
\* or without a phone.
BookLead(phone, city) ==
  [type |-> "lead", phone |-> phone, active |-> TRUE, status |-> "new", quality |-> "hot", tags |-> {}, city |-> city]
BookCustomer(phone, score, orders, ago) ==
  [type |-> "customer", phone |-> phone, score |-> score, spent |-> orders, orders |-> orders, ago |-> ago]
SomeBooks ==
  {[i \in 1..4 |-> CASE i = 1 -> BookLead("p1", "x")
                     [] i = 2 -> BookLead(second, "y")
                     [] i = 3 -> BookCustomer("p1", 10, 1, 3)
                     [] i = 4 -> BookCustomer("p2", 50, 0, 9)] : second \in {"p1", NoNumber}}
SomeWanted ==
  {[type |-> "all"],
   [type |-> "leads", status |-> {"new"}, tags |-> {"vip"}], [type |-> "leads", city |-> {"x"}],
   [type |-> "customers", minScore |-> 20, maxOrders |-> 2],
   [type |-> "customers", maxScore |-> 20, minSpent |-> 1], [type |-> "customers", lastOrder |-> 5],
   [type |-> "segment", quality |-> {"hot"}, lastOrder |-> 5, minOrders |-> 1, maxSpent |-> 5],
   [type |-> "segment", lastOrder |-> 5], [type |-> "custom", city |-> {"y"}]}
=============================================================================

------------------------------- MODULE Backoffice -------------------------------
(***************************************************************************)
(* The services of the application that stand beside the flow of an order  *)
(* and of a message: fifteen parts, each a module of its own.              *)
(*                                                                         *)
(* They are modules of one Nest application, but keep their own rows: what *)
(* another part does to a row of theirs is an action of their module too   *)
(* (a campaign that refers to a template, an order that a customer is      *)
(* counted for).  They share no variable, so a property of one part holds  *)
(* of all behaviours of all parts when it holds of those in which the      *)
(* others rest; here one part, chosen at the start, moves.                 *)
(***************************************************************************)
EXTENDS MessageDesks, RecordDesks

VARIABLE part  \* the part that moves

vars ==
  <<part, templateVars, deskVars, inboxVars, postVars, igVars, customerVars, treeVars,
    goodsVars, listVars, reportVars, stockReportVars, houseVars, paceVars, audienceVars, accountVars>>

Parts ==
  {"templates", "leads", "inbox", "outbound", "instagram", "customers", "categories",
   "products", "listings", "sales", "stock", "warehouses", "pace", "audience", "accounts"}

\* Of a part that rests only one of the initial states is taken.
Resting ==
  /\ part # "listings" => walk.q = CHOOSE q \in Queries : TRUE
  /\ part # "sales" => sales = (CHOOSE h \in Histories : TRUE) /\ lacks = CHOOSE d \in Databases : TRUE
  /\ part # "stock" => absent = CHOOSE s \in Schemas : TRUE
  /\ part # "audience" =>
       book = (CHOOSE b \in Books : TRUE) /\ asking.w = (CHOOSE w \in Wanted : TRUE) /\ ~asking.strict

Init ==
  /\ part \in Parts
  /\ Tmpl!Init
  /\ Lead!Init
  /\ Inbox!Init
  /\ Out!Init
  /\ Insta!Init
  /\ Cust!Init
  /\ Tree!Init
  /\ Prod!Init
  /\ List!Init
  /\ Sale!Init
  /\ Stock!Init
  /\ House!Init
  /\ Pace!Init
  /\ Aud!Init
  /\ Acct!Init
  /\ Resting

\* The other parts stay as they are.
Only(p) ==
  /\ part = p /\ UNCHANGED part
  /\ IF p = "templates" THEN TRUE ELSE UNCHANGED templateVars
  /\ IF p = "leads" THEN TRUE ELSE UNCHANGED deskVars
  /\ IF p = "inbox" THEN TRUE ELSE UNCHANGED inboxVars
  /\ IF p = "outbound" THEN TRUE ELSE UNCHANGED postVars
  /\ IF p = "instagram" THEN TRUE ELSE UNCHANGED igVars
  /\ IF p = "customers" THEN TRUE ELSE UNCHANGED customerVars
  /\ IF p = "categories" THEN TRUE ELSE UNCHANGED treeVars
  /\ IF p = "products" THEN TRUE ELSE UNCHANGED goodsVars
  /\ IF p = "listings" THEN TRUE ELSE UNCHANGED listVars
  /\ IF p = "sales" THEN TRUE ELSE UNCHANGED reportVars
  /\ IF p = "stock" THEN TRUE ELSE UNCHANGED stockReportVars
  /\ IF p = "warehouses" THEN TRUE ELSE UNCHANGED houseVars
  /\ IF p = "pace" THEN TRUE ELSE UNCHANGED paceVars
  /\ IF p = "audience" THEN TRUE ELSE UNCHANGED audienceVars
  /\ IF p = "accounts" THEN TRUE ELSE UNCHANGED accountVars

Next ==
  \/ Only("templates") /\ Tmpl!Next
  \/ Only("leads") /\ Lead!Next
  \/ Only("inbox") /\ Inbox!Next
  \/ Only("outbound") /\ Out!Next
  \/ Only("instagram") /\ Insta!Next
  \/ Only("customers") /\ Cust!Next
  \/ Only("categories") /\ Tree!Next
  \/ Only("products") /\ Prod!Next
  \/ Only("listings") /\ List!Next
  \/ Only("sales") /\ Sale!Next
  \/ Only("stock") /\ Stock!Next
  \/ Only("warehouses") /\ House!Next
  \/ Only("pace") /\ Pace!Next
  \/ Only("audience") /\ Aud!Next
  \/ Only("accounts") /\ Acct!Next

Spec == Init /\ [][Next]_vars

-----------------------------------------------------------------------------
\* The variables of the parts hold what they are meant to hold.
TypeOK ==
  /\ part = "templates" => Tmpl!TypeOK
  /\ part = "leads" => Lead!TypeOK
  /\ part = "inbox" => Inbox!TypeOK
  /\ part = "outbound" => Out!TypeOK
  /\ part = "instagram" => Insta!TypeOK
  /\ part = "customers" => Cust!TypeOK
  /\ part = "categories" => Tree!TypeOK
  /\ part = "products" => Prod!TypeOK
  /\ part = "listings" => List!TypeOK

\* What the services that prepare and record messages say of them is so,
\* whatever overlaps, fails or comes late: a template that was checked can be
\* sent, a duplicate lead is found, a status has its history, the inbox shows
\* the latest message, a delivery status is the furthest, a comment is
\* answered once and a direct message not forgotten, posts keep their distance, and
\* a preview covers who is written to; each but for the races and failures its
\* module names.
MessagesAreAccounted ==
  /\ part = "templates" => Tmpl!CheckedIsValid /\ Tmpl!PreviewIsComplete
  /\ part = "leads" => Lead!DuplicatesAreFound /\ Lead!StatusIsExplained
  /\ part = "inbox" => Inbox!LastIsLatest /\ Inbox!LastIsAMessage
  /\ part = "outbound" => Out!ShownIsFurthest
  /\ part = "instagram" => Insta!CommentsAnsweredOnce /\ Insta!DroppedHaveCrossed
  /\ part = "pace" => Pace!PaceIsKept
  /\ part = "audience" => Aud!PreviewCovers

\* What the services that keep the books record agrees with itself and with what
\* happened: a customer's figures, the tree of categories, SKUs and prices, what
\* a list shows, what a report adds up, the value of the stock, the rows of the
\* warehouses and the tokens of the accounts; each but for the races and failures
\* its module names.
RecordsAgree ==
  /\ part = "customers" => Cust!FiguresBelongTogether /\ Cust!ReportedIsHidden
  /\ part = "categories" => Tree!TreeIsSound
  /\ part = "products" => Prod!SkusDiffer /\ Prod!PricesMakeSense /\ Prod!SyncingIsWorkedOn
  /\ part = "listings" => List!NothingIsMissed
  /\ part = "sales" => Sale!FiguresAgree
  /\ part = "stock" => Stock!ValueIsOfStock /\ Stock!StockFiguresAgree
  /\ part = "warehouses" => House!UpdatesAreKept /\ House!FlagsAreAsMade
  /\ part = "accounts" => Acct!TokensStayFresh /\ Acct!NumberIsLinkedOnce

-----------------------------------------------------------------------------
(* What every step of the part that moves keeps.                           *)

BackInv ==
  /\ part = "templates" => TmplInv /\ TmplTyped
  /\ part = "leads" => LeadInv /\ LeadTyped
  /\ part = "inbox" => InboxInv /\ ThreadTyped
  /\ part = "outbound" => OutInv /\ PostTyped
  /\ part = "instagram" => IgInv /\ IgLinked
  /\ part = "customers" => CustInv
  /\ part = "categories" => TreeInv
  /\ part = "products" => ProdInv
  /\ part = "listings" => ListInv
  /\ part = "sales" => SaleInv
  /\ part = "stock" => StockInv
  /\ part = "warehouses" => HouseInv
  /\ part = "pace" => PaceInv
  /\ part = "audience" => AudInv
  /\ part = "accounts" => AcctInv
=============================================================================

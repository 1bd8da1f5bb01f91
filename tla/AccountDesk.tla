------------------------------ MODULE AccountDesk ------------------------------
(***************************************************************************)
(* The accounts a business has linked: its WhatsApp number and its         *)
(* Instagram page, linked through the API or through Facebook's callback,  *)
(* and the daily and hourly jobs that renew the tokens and fetch what the  *)
(* page shows.  MessageIntake and InstagramDesk take an account as given.  *)
(*                                                                         *)
(* A day is a step of the clock.  A token is the last day it works;        *)
(* Facebook exchanges one that still works.  A call that fails, for any    *)
(* reason or because the circuit is open, changes nothing.  A request *)
(* is over the day it began.                                               *)
(***************************************************************************)
EXTENDS Integers, Sequences, FiniteSets

CONSTANTS
  Linkers,       \* requests served at once
  Lifetime,      \* days a token works (60), and the days that are recorded
  RefreshBefore, \* days before its end from which a token is renewed (7)
  MaxAccounts, MaxDay  \* bounds

VARIABLES
  accountRows, \* social_accounts: [net, ends: of the token, expiry: recorded, active]
  today,
  linking,     \* what each request does next
  renewals,    \* accounts the daily job has yet to renew
  ranOn,       \* the day it last began
  mediaOf,     \* the account the page's media are kept for; 0: none
  watch,       \* of each account: the runs that did not renew it since the last
               \* that did, and whether its token was old when it was linked
  overlapping, \* two callbacks were under way at once
  viaCallback  \* accounts that a callback inserted

accountVars == <<accountRows, today, linking, renewals, ranOn, mediaOf, watch, overlapping, viaCallback>>
linkVars == <<linking, overlapping, viaCallback>>
jobVars == <<renewals, ranOn, mediaOf>>

Rows == DOMAIN accountRows
Pages == {a \in Rows : accountRows[a].net = "instagram" /\ accountRows[a].active}
Unlinked == [do |-> "idle"]
Begun(l, step) == linking[l] = Unlinked /\ linking' = [linking EXCEPT ![l] = step]

Insert(net, ends) ==
  /\ accountRows' = Append(accountRows, [net |-> net, ends |-> ends, expiry |-> today + Lifetime, active |-> TRUE])
  /\ watch' = Append(watch, [missed |-> 0, old |-> ends < today + Lifetime])

\* connectWhatsAppAccount and connectInstagramAccount insert a row whatever rows
\* there are, and record a token that is some days old as if it were new.
Connect(net) ==
  /\ Len(accountRows) < MaxAccounts
  /\ \E ends \in {today, today + Lifetime} : Insert(net, ends)
  /\ UNCHANGED <<today, linkVars, jobVars>>

\* What a callback needs before it looks for the account: a state of the last
\* thirty minutes, a token for the code, a business account and a number of it.
Answers == [{"state", "token", "business account", "number"} -> BOOLEAN]

\* Facebook's redirect is answered with one to the settings page, error or not.
Redirect(l) == linking' = [linking EXCEPT ![l] = Unlinked]

Callback(l) ==
  /\ \E given \in Answers : IF FALSE \in {given[q] : q \in DOMAIN given} THEN linking[l] = Unlinked /\ Redirect(l) ELSE Begun(l, [do |-> "find"])
  /\ overlapping' = (overlapping \/ \E k \in Linkers : linking[k].do \in {"find", "link"})
  /\ UNCHANGED <<accountRows, today, jobVars, watch, viaCallback>>

\* findFirst: any row of the number, linked or not.
FindNumber(l) ==
  /\ linking[l].do = "find"
  /\ LET W == {a \in Rows : accountRows[a].net = "whatsapp"}
     IN  \E a \in IF W = {} THEN {0} ELSE W :
           linking' = [linking EXCEPT ![l] = [do |-> "link", row |-> a]]
  /\ UNCHANGED <<accountRows, today, jobVars, watch, overlapping, viaCallback>>

Renewed(a) ==
  /\ accountRows' = [accountRows EXCEPT ![a].ends = today + Lifetime, ![a].expiry = today + Lifetime]
  /\ watch' = [watch EXCEPT ![a] = [missed |-> 0, old |-> FALSE]]

\* Mutation: the row is inserted whatever was found.
LinkAnew(l) ==
  /\ linking[l].do = "link" /\ Len(accountRows) < MaxAccounts
  /\ Insert("whatsapp", today + Lifetime) /\ viaCallback' = viaCallback + 1
  /\ Redirect(l)
  /\ UNCHANGED <<today, jobVars, overlapping>>

Link(l) ==
  /\ linking[l].do = "link"
  /\ LET a == linking[l].row
     IN  IF a = 0
         THEN /\ Len(accountRows) < MaxAccounts
              /\ Insert("whatsapp", today + Lifetime) /\ viaCallback' = viaCallback + 1
         ELSE /\ accountRows' = [accountRows EXCEPT ![a].ends = today + Lifetime, ![a].expiry = today + Lifetime, ![a].active = TRUE]
              /\ watch' = [watch EXCEPT ![a] = [missed |-> 0, old |-> FALSE]]
              /\ UNCHANGED viaCallback
  /\ Redirect(l)
  /\ UNCHANGED <<today, jobVars, overlapping>>

\* The row is only switched off.
Disconnect(a) ==
  /\ accountRows[a].active
  /\ accountRows' = [accountRows EXCEPT ![a].active = FALSE]
  /\ UNCHANGED <<today, linkVars, jobVars, watch>>

\* POST accounts/:id/refresh: the token that was read is exchanged, and the
\* account, switched off meanwhile or not, gets the new one.
AskRenewal(l, a) ==
  /\ accountRows[a].net = "instagram"
  /\ Begun(l, [do |-> "renew", row |-> a, token |-> accountRows[a].ends])
  /\ UNCHANGED <<accountRows, today, jobVars, watch, overlapping, viaCallback>>

Renew(l) ==
  /\ linking[l].do = "renew"
  /\ linking' = [linking EXCEPT ![l] = Unlinked]
  /\ \/ linking[l].token >= today /\ Renewed(linking[l].row)
     \/ UNCHANGED <<accountRows, watch>>
  /\ UNCHANGED <<today, jobVars, overlapping, viaCallback>>

-----------------------------------------------------------------------------
\* Mutation: only tokens that are at their end are renewed.
DueNow == {a \in Pages : accountRows[a].expiry <= today}

Due == {a \in Pages : accountRows[a].expiry <= today + RefreshBefore}

Missed(S) == watch' = [a \in Rows |-> IF a \in S /\ watch[a].missed <= RefreshBefore THEN [watch[a] EXCEPT !.missed = @ + 1] ELSE watch[a]]

\* instagram-token-refresh-daily.  WhatsApp's tokens are in no job.
StartRenewals ==
  /\ ranOn < today /\ ranOn' = today
  /\ renewals' = Due
  /\ UNCHANGED <<accountRows, today, linkVars, mediaOf, watch>>

\* One account after the other, switched off meanwhile or not; one that fails
\* does not stop the others, and is not tried again before the next day.
RenewNext ==
  /\ \E a \in renewals :
       /\ renewals' = renewals \ {a}
       /\ \/ accountRows[a].ends >= today /\ Renewed(a)
          \/ Missed({a}) /\ UNCHANGED accountRows
  /\ UNCHANGED <<today, linkVars, ranOn, mediaOf>>

\* instagram-insights-sync-hourly: its list may be from before the page was
\* switched off.  The media are inserted for the first account that brings them,
\* and stay there.
SyncAccount(a) ==
  /\ accountRows[a].net = "instagram" /\ accountRows[a].ends >= today
  /\ mediaOf = 0 /\ mediaOf' = a
  /\ UNCHANGED <<accountRows, today, linkVars, renewals, ranOn, watch>>

\* A job that the process stops in is lost here; so is the run of a day without.
Midnight ==
  /\ today < MaxDay /\ \A l \in Linkers : linking[l] = Unlinked
  /\ today' = today + 1
  /\ renewals' = {}
  /\ Missed(IF ranOn = today THEN renewals ELSE Due)
  /\ UNCHANGED <<accountRows, linkVars, ranOn, mediaOf>>

Init ==
  /\ accountRows = <<>> /\ watch = <<>>
  /\ today = 1 /\ ranOn = 0
  /\ linking = [l \in Linkers |-> Unlinked]
  /\ renewals = {} /\ mediaOf = 0
  /\ overlapping = FALSE /\ viaCallback = 0

Next ==
  \/ \E net \in {"whatsapp", "instagram"} : Connect(net)
  \/ \E l \in Linkers : Callback(l) \/ FindNumber(l) \/ Link(l) \/ Renew(l) \/ \E a \in Rows : AskRenewal(l, a)
  \/ \E a \in Rows : Disconnect(a) \/ SyncAccount(a)
  \/ StartRenewals \/ RenewNext \/ Midnight

Spec == Init /\ [][Next]_accountVars

-----------------------------------------------------------------------------
\* The token of a linked page works, unless it was old when it was linked or every
\* run of the last days missed it: one renewal that succeeds, of as many as
\* RefreshBefore gives and one more, is enough (TokenRefreshProcessor).
TokensStayFresh ==
  \A a \in Pages : ~watch[a].old /\ watch[a].missed <= RefreshBefore => accountRows[a].ends >= today

\* A number that is linked again through Facebook keeps its row: callbacks insert
\* a second one only when two of them are under way at once (handleCallback).
NumberIsLinkedOnce == viaCallback > 1 => overlapping
=============================================================================

------------------------------ MODULE InstagramDesk ------------------------------
(***************************************************************************)
(* features/instagram: comments and direct messages, and the AI's replies. *)
(*                                                                         *)
(* A webhook is answered at once and handled afterwards.  What an AI reply *)
(* needs is kept in the memory of the process under the lead: a context,   *)
(* which the next message of the lead replaces and a reply deletes, and a  *)
(* handler, which nothing deletes.  A comment always makes a new lead.     *)
(* All calls of the platform share one circuit, and a call that takes too  *)
(* long counts as failed although it may have done its work.               *)
(***************************************************************************)
EXTENDS Naturals, Sequences, FiniteSets

CONSTANTS
  Comments, Directs,     \* items that arrive
  IgAuthor,              \* the user who wrote each item
  IgHandlers, NoItem,
  Owner,                 \* the user id of the connected account
  MaxArrivals, MaxStops, MaxLinks, MaxStaffCalls,  \* bounds: deliveries, stops of the process, accounts, calls of the staff
  FailureThreshold, SuccessThreshold, ResetAfter

Breaker == INSTANCE CircuitBreaker

Items == Comments \cup Directs

VARIABLES
  links,      \* social_accounts in order of creation: whether each is active
  igLeads,    \* leads in order of creation: their author, and whether of a direct message
  contexts,   \* pendingMessages: the item and the account kept for each lead
  hooks,      \* leads with a registered handler
  catching,   \* what each webhook handler does
  igResults,  \* AI results that are to come: item and lead
  replying,   \* the result that is handled, one at a time
  igReplies,  \* replies that reached the platform for each item
  igAsked,    \* times the AI was asked about each item
  crossed,    \* leads with two items pending at once
  unanswered, \* items whose result found no context
  igCircuit, staffCalls, arrivals, stops

igVars == <<links, igLeads, contexts, hooks, catching, igResults, replying, igReplies, igAsked,
            crossed, unanswered, igCircuit, staffCalls, arrivals, stops>>

memory == <<contexts, hooks, crossed>>
outside == <<links, igCircuit, staffCalls, arrivals, stops>>

NotCatching == [at |-> "idle", item |-> NoItem, lead |-> 0, link |-> 0]
NotReplying == [at |-> "idle", item |-> NoItem, lead |-> 0, to |-> NoItem]

-----------------------------------------------------------------------------
(* Webhooks                                                                *)

Catch(h, i) ==
  /\ catching[h] = NotCatching /\ arrivals < MaxArrivals
  /\ arrivals' = arrivals + 1
  /\ catching' = [catching EXCEPT ![h] = [NotCatching EXCEPT !.at = "account", !.item = i]]
  /\ UNCHANGED <<links, igLeads, memory, igResults, replying, igReplies, igAsked, unanswered, igCircuit, staffCalls, stops>>

\* The account of a direct message is its recipient's; that of a comment is
\* looked for under the user who wrote it.  Without one the item is ignored.
FindLink(h) ==
  LET i == catching[h].item
  IN  /\ catching[h].at = "account"
      /\ \/ \E k \in DOMAIN links :
              /\ links[k] /\ (i \in Comments => IgAuthor[i] = Owner)
              /\ catching' = [catching EXCEPT ![h].at = "lead", ![h].link = k]
         \/ /\ (\A k \in DOMAIN links : ~links[k]) \/ (i \in Comments /\ IgAuthor[i] # Owner)
            /\ catching' = [catching EXCEPT ![h] = NotCatching]
      /\ UNCHANGED <<igLeads, memory, igResults, replying, igReplies, igAsked, unanswered, outside>>

FindIgLead(h) ==
  LET i == catching[h].item
      found == {l \in DOMAIN igLeads : i \in Directs /\ igLeads[l] = [author |-> IgAuthor[i], direct |-> TRUE]}
  IN  /\ catching[h].at = "lead"
      /\ \/ \E l \in found : catching' = [catching EXCEPT ![h].at = "remember", ![h].lead = l]
         \/ found = {} /\ catching' = [catching EXCEPT ![h].at = "newlead"]
      /\ UNCHANGED <<igLeads, memory, igResults, replying, igReplies, igAsked, unanswered, outside>>

CreateIgLead(h) ==
  LET i == catching[h].item
  IN  /\ catching[h].at = "newlead"
      /\ igLeads' = Append(igLeads, [author |-> IgAuthor[i], direct |-> i \in Directs])
      /\ catching' = [catching EXCEPT ![h].at = "remember", ![h].lead = Len(igLeads')]
      /\ UNCHANGED <<memory, igResults, replying, igReplies, igAsked, unanswered, outside>>

\* The context and the handler are set, and the request is on its way.
Remember(h) ==
  LET c == catching[h]
  IN  /\ c.at = "remember"
      /\ contexts' = {x \in contexts : x.lead # c.lead} \cup {[lead |-> c.lead, item |-> c.item, link |-> c.link]}
      /\ crossed' = IF \E x \in contexts : x.lead = c.lead THEN crossed \cup {c.lead} ELSE crossed
      /\ hooks' = hooks \cup {c.lead}
      /\ catching' = [catching EXCEPT ![h].at = "ask"]
      /\ UNCHANGED <<igLeads, igResults, replying, igReplies, igAsked, unanswered, outside>>

AskAi(h) ==
  LET c == catching[h]
  IN  /\ c.at = "ask"
      /\ igResults' = igResults \cup {[item |-> c.item, lead |-> c.lead]}
      /\ igAsked' = [igAsked EXCEPT ![c.item] = @ + 1]
      /\ catching' = [catching EXCEPT ![h] = NotCatching]
      /\ UNCHANGED <<igLeads, memory, replying, igReplies, unanswered, outside>>

\* A statement or the publishing fails; the error is logged, the context stays.
DropItem(h) ==
  /\ catching[h].at \in {"account", "lead", "newlead", "ask"}
  /\ catching' = [catching EXCEPT ![h] = NotCatching]
  /\ UNCHANGED <<igLeads, memory, igResults, replying, igReplies, igAsked, unanswered, outside>>

-----------------------------------------------------------------------------
(* Replies                                                                 *)

\* A result without a handler or a context is passed over.  The results of a
\* lead come in any order; the reply is for the item of the context.
TakeIgResult(r) ==
  /\ replying = NotReplying /\ r \in igResults
  /\ igResults' = igResults \ {r}
  /\ \/ \E x \in contexts :
          /\ x.lead = r.lead /\ r.lead \in hooks
          /\ replying' = [at |-> "call", item |-> r.item, lead |-> r.lead, to |-> x.item]
          /\ UNCHANGED unanswered
     \/ /\ ~\E x \in contexts : x.lead = r.lead /\ r.lead \in hooks
        /\ unanswered' = unanswered \cup {r.item}
        /\ UNCHANGED replying
  /\ UNCHANGED <<igLeads, memory, catching, igReplies, igAsked, outside>>

\* The circuit is asked once the account, active or not, has been read.
CallIg ==
  /\ replying.at = "call"
  /\ IF Breaker!IgRefuses(igCircuit)
     THEN replying' = NotReplying /\ UNCHANGED igCircuit
     ELSE replying' = [replying EXCEPT !.at = "calling"] /\ igCircuit' = Breaker!IgEntered(igCircuit)
  /\ UNCHANGED <<links, igLeads, memory, catching, igResults, igReplies, igAsked, unanswered, staffCalls, arrivals, stops>>

ReplySent ==
  /\ replying.at = "calling"
  /\ igReplies' = [igReplies EXCEPT ![replying.to] = @ + 1]
  /\ igCircuit' = Breaker!IgGood(igCircuit)
  /\ replying' = [replying EXCEPT !.at = "log"]
  /\ UNCHANGED <<links, igLeads, memory, catching, igResults, igAsked, unanswered, staffCalls, arrivals, stops>>

\* The call fails, or takes too long and may have sent the reply.
ReplyFailed ==
  /\ replying.at = "calling"
  /\ \E sent \in 0..1 : igReplies' = [igReplies EXCEPT ![replying.to] = @ + sent]
  /\ igCircuit' = Breaker!IgBad(igCircuit)
  /\ replying' = NotReplying
  /\ UNCHANGED <<links, igLeads, memory, catching, igResults, igAsked, unanswered, staffCalls, arrivals, stops>>

\* Mutation: the contexts of all leads are forgotten.
LogAndForgetAll ==
  /\ replying.at = "log"
  /\ \/ contexts' = {} \/ UNCHANGED contexts
  /\ replying' = NotReplying
  /\ UNCHANGED <<igLeads, hooks, crossed, catching, igResults, igReplies, igAsked, unanswered, outside>>

\* The activity is logged and the context deleted, also one that has
\* taken its place meanwhile; when logging fails it stays.
LogAndForget ==
  /\ replying.at = "log"
  /\ \/ contexts' = {x \in contexts : x.lead # replying.lead}
     \/ UNCHANGED contexts
  /\ replying' = NotReplying
  /\ UNCHANGED <<igLeads, hooks, crossed, catching, igResults, igReplies, igAsked, unanswered, outside>>

-----------------------------------------------------------------------------
(* Accounts, the staff and the process                                     *)

\* connectInstagramAccount does not look for the account it adds.
Link ==
  /\ Len(links) < MaxLinks /\ links' = Append(links, TRUE)
  /\ UNCHANGED <<igLeads, memory, catching, igResults, replying, igReplies, igAsked, unanswered, igCircuit, staffCalls, arrivals, stops>>

Unlink(k) ==
  /\ links[k] /\ links' = [links EXCEPT ![k] = FALSE]
  /\ UNCHANGED <<igLeads, memory, catching, igResults, replying, igReplies, igAsked, unanswered, igCircuit, staffCalls, arrivals, stops>>

\* Replies, comments, media and insights of the staff, and token refreshes.
StaffCall ==
  /\ staffCalls < MaxStaffCalls /\ ~Breaker!IgRefuses(igCircuit)
  /\ staffCalls' = staffCalls + 1
  /\ igCircuit' = Breaker!IgEntered(igCircuit)
  /\ UNCHANGED <<links, igLeads, memory, catching, igResults, replying, igReplies, igAsked, unanswered, arrivals, stops>>

StaffCallEnds ==
  /\ staffCalls > 0 /\ staffCalls' = staffCalls - 1
  /\ \/ igCircuit' = Breaker!IgGood(igCircuit)
     \/ igCircuit' = Breaker!IgBad(igCircuit)
  /\ UNCHANGED <<links, igLeads, memory, catching, igResults, replying, igReplies, igAsked, unanswered, arrivals, stops>>

IgWaitOver ==
  /\ igCircuit.recent /\ igCircuit' = [igCircuit EXCEPT !.recent = FALSE]
  /\ UNCHANGED <<links, igLeads, memory, catching, igResults, replying, igReplies, igAsked, unanswered, staffCalls, arrivals, stops>>

\* The process stops; a result that was being handled comes again.
Stop ==
  /\ stops < MaxStops /\ stops' = stops + 1
  /\ contexts' = {} /\ hooks' = {} /\ catching' = [h \in IgHandlers |-> NotCatching]
  /\ igResults' = igResults \cup {[item |-> r.item, lead |-> r.lead] : r \in {replying} \ {NotReplying}}
  /\ replying' = NotReplying /\ igCircuit' = Breaker!Fresh /\ staffCalls' = 0
  /\ UNCHANGED <<links, igLeads, igReplies, igAsked, crossed, unanswered, arrivals>>

Init ==
  /\ links = <<>> /\ igLeads = <<>> /\ contexts = {} /\ hooks = {}
  /\ catching = [h \in IgHandlers |-> NotCatching]
  /\ igResults = {} /\ replying = NotReplying
  /\ igReplies = [i \in Items |-> 0] /\ igAsked = [i \in Items |-> 0]
  /\ crossed = {} /\ unanswered = {}
  /\ igCircuit = Breaker!Fresh /\ staffCalls = 0 /\ arrivals = 0 /\ stops = 0

CatchStep(h) == FindLink(h) \/ FindIgLead(h) \/ CreateIgLead(h) \/ Remember(h) \/ AskAi(h) \/ DropItem(h)
ReplyStep == (\E r \in igResults : TakeIgResult(r)) \/ CallIg \/ ReplySent \/ ReplyFailed \/ LogAndForget

Next ==
  \/ \E h \in IgHandlers : CatchStep(h) \/ \E i \in Items : Catch(h, i)
  \/ ReplyStep
  \/ Link \/ (\E k \in DOMAIN links : Unlink(k))
  \/ StaffCall \/ StaffCallEnds \/ IgWaitOver \/ Stop

Spec == Init /\ [][Next]_igVars

-----------------------------------------------------------------------------
TypeOK ==
  /\ igCircuit \in Breaker!Circuit
  /\ \A x \in contexts : x.lead \in DOMAIN igLeads /\ x.link \in DOMAIN links /\ x.item \in Items
  /\ \A x, y \in contexts : x.lead = y.lead => x = y
  /\ {x.lead : x \in contexts} \subseteq hooks
  /\ replying.at # "idle" => replying.to \in Items /\ replying.lead \in hooks

\* A comment is not replied to more often than the AI was asked about it, a
\* stop of the process included (handleAiResponse).
CommentsAnsweredOnce == \A i \in Comments : igReplies[i] <= igAsked[i] + stops

\* As long as the process runs, a result is passed over only when messages of
\* its lead crossed each other (pendingMessages holds one context per lead).
DroppedHaveCrossed ==
  stops = 0 => \A i \in unanswered : \E l \in crossed : igLeads[l].author = IgAuthor[i]
=============================================================================

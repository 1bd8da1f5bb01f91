----------------------------- MODULE MessageDesks ------------------------------
(***************************************************************************)
(* The seven services of Backoffice that prepare and record messages, each *)
(* a module of its own, and what every step of each keeps.                 *)
(***************************************************************************)
EXTENDS Integers, FiniteSets, Sequences

CONSTANTS
  \* NotificationTemplates
  Templates, Keys, Channels, Variables, Editors, Absent, Required, Defaulted, NewTexts, Patches,
  \* LeadDesk
  Leads, Phones, Agents, NoLead, LeadStatuses, MaxMatches,
  \* StaffInbox
  Threads, Clerks, NoThread, Letters, ThreadStatuses, MaxLetters,
  \* OutboundMessages
  DeskPosts, FlowPosts, NoRow, MaxNotices, FailureThreshold, SuccessThreshold, ResetAfter,
  \* InstagramDesk
  Comments, Directs, IgAuthor, IgHandlers, NoItem, Owner, MaxArrivals, MaxStops, MaxLinks,
  MaxStaffCalls,
  \* SendPace
  Callers, Businesses, Numbers, MinDelay, MaxClock,
  \* AudienceDesk
  Books, Wanted, NoNumber, SampleSize, MaxMoves

VARIABLES
  \* NotificationTemplates
  templates, used, edits,
  \* LeadDesk
  leadRows, checking, dupes, history, desks, lapses, crowded,
  \* StaffInbox
  threads, letters, clerks, raced, torn,
  \* OutboundMessages
  posting, outRows, progress, notices, early, sendCircuit,
  \* InstagramDesk
  links, igLeads, contexts, hooks, catching, igResults, replying, igReplies, igAsked, crossed,
  unanswered, igCircuit, staffCalls, arrivals, stops,
  \* SendPace
  paceClock, lastSend, calls, posted, abreast, misdialled,
  \* AudienceDesk
  book, moves, asking, moved

templateVars ==
  <<templates, used, edits>>
deskVars ==
  <<leadRows, checking, dupes, history, desks, lapses, crowded>>
inboxVars ==
  <<threads, letters, clerks, raced, torn>>
postVars ==
  <<posting, outRows, progress, notices, early, sendCircuit>>
igVars ==
  <<links, igLeads, contexts, hooks, catching, igResults, replying, igReplies, igAsked, crossed,
    unanswered, igCircuit, staffCalls, arrivals, stops>>
paceVars ==
  <<paceClock, lastSend, calls, posted, abreast, misdialled>>
audienceVars ==
  <<book, moves, asking, moved>>

Tmpl == INSTANCE NotificationTemplates
Lead == INSTANCE LeadDesk
Inbox == INSTANCE StaffInbox
Out == INSTANCE OutboundMessages
Insta == INSTANCE InstagramDesk
Pace == INSTANCE SendPace
Aud == INSTANCE AudienceDesk

-----------------------------------------------------------------------------
(* Why messages are accounted: what every step of a part keeps.            *)

LeadRow ==
  [phone : Phones, status : LeadStatuses \cup {"new", "won"}, converted : BOOLEAN, deleted : BOOLEAN,
   source : {"service", "channel"}, edited : BOOLEAN]

ThreadRow ==
  [status : ThreadStatuses \cup {"unread", "read", "replied"}, last : Letters \cup {NoThread}, unread : 0..1]

\* As the code has them: rows are no value that stands for none, tables and
\* limits are finite, a patch has values of fields of the DTO, and an item of
\* Instagram is a comment or a direct message.
ASSUME MessageAssumption ==
  /\ MinDelay \in Nat /\ \A n \in Numbers : n.digits \in Nat /\ n.coded \in BOOLEAN
  /\ IsFiniteSet(Leads) /\ MaxMatches \in Nat /\ NoLead \notin Leads
  /\ NoLead \notin LeadRow /\ NoRow \notin Out!Row /\ NoThread \notin ThreadRow /\ Absent \notin Tmpl!Row
  /\ {FailureThreshold, SuccessThreshold, ResetAfter} \subseteq Nat
  /\ Absent \notin Templates /\ NewTexts \subseteq [Channels -> (SUBSET Variables) \cup {Absent}]
  /\ \A p \in Patches :
       /\ DOMAIN p \subseteq {"key", "active", "enabled", "text", "defined"}
       /\ "key" \in DOMAIN p => p["key"] \in Keys
       /\ "active" \in DOMAIN p => p["active"] \in BOOLEAN
       /\ "enabled" \in DOMAIN p => p["enabled"] \subseteq Channels
       /\ "text" \in DOMAIN p => p["text"] \in [Channels -> (SUBSET Variables) \cup {Absent}]
       /\ "defined" \in DOMAIN p => p["defined"] \subseteq Variables
  /\ NoThread \notin Threads /\ NoThread \notin Letters
  /\ Comments \cap Directs = {}
  /\ \A b \in Books : IsFiniteSet(DOMAIN b)
  /\ \A w \in Wanted : w.type \in {"all", "leads", "customers", "segment", "custom"}

\* Only one call waits for a business, and until its messages are apart.
PaceInv ==
  /\ paceClock \in Int /\ lastSend \in [Businesses -> Int]
  /\ posted \in [Businesses -> [before : Int, last : Int]]
  /\ DOMAIN calls = Callers
  /\ \A c \in Callers : calls[c].do = "wait" =>
       calls[c].for \in Businesses /\ calls[c].to \in Numbers /\ calls[c].until \in Int
  /\ \A b \in Businesses : posted[b].last = lastSend[b]
  /\ \A b \in Businesses \ abreast : \A c \in Pace!Waiting(b) :
       calls[c].until >= lastSend[b] + MinDelay /\ \A d \in Pace!Waiting(b) : c = d
  /\ Pace!PaceIsKept

\* An agent writes to a lead that is there, and records what he set.
LeadInv ==
  /\ leadRows \in [Leads -> LeadRow \cup {NoLead}]
  /\ history \in [Leads -> SUBSET LeadStatuses]
  /\ desks \in [Agents -> [at : {"idle", "write", "record"}, lead : Leads \cup {NoLead},
                           op : {"none", "update", "remove", "assign", "convert", "status"},
                           to : LeadStatuses \cup {"none"}]]
  /\ checking \cup lapses \cup crowded \subseteq {l \in Leads : leadRows[l] # NoLead}
  /\ \A a \in Agents :
       /\ desks[a].at # "idle" =>
            desks[a].lead \in Leads /\ leadRows[desks[a].lead] # NoLead /\ desks[a].op # "none"
       /\ desks[a].at = "record" \/ desks[a].op = "status" => desks[a].to \in LeadStatuses
  /\ Lead!DuplicatesAreFound /\ Lead!StatusIsExplained

\* What an editor has validated, and nobody overwrote, is valid with the row.
TmplInv ==
  /\ DOMAIN templates = Templates /\ DOMAIN edits = Editors
  /\ \A t \in Templates : templates[t] # Absent =>
       /\ {"key", "system", "active", "enabled", "text", "defined", "checked"} \subseteq DOMAIN templates[t]
       /\ templates[t].checked \in BOOLEAN
  /\ edits \in [Editors -> [template : Templates \cup {Absent}, patch : Patches \cup {<<>>}, stale : BOOLEAN]]
  /\ \A e \in Editors : edits[e].template # Absent /\ ~edits[e].stale =>
       LET p == edits[e].patch
       IN  DOMAIN p \cap Tmpl!Content # {} => Tmpl!Valid(Tmpl!Patched(p, templates[edits[e].template]))
  /\ Tmpl!CheckedIsValid

\* An update that waits for its write is of a template.
TmplTyped ==
  /\ \A t \in Templates : templates[t] = Absent \/ templates[t] \in Tmpl!Row
  /\ used \subseteq {t \in Templates : templates[t] # Absent}
  /\ \A e \in Editors : edits[e] = Tmpl!NoEdit \/ edits[e].template \in Templates

\* A duplicate is recorded of a lead and another.
LeadTyped == \A d \in dupes : \E l, o \in Leads : l # o /\ d = {l, o}

\* The message a conversation should be listed with.
Latest(t) == IF letters[t] = <<>> THEN NoThread ELSE Inbox!Last(letters[t])

Clerk ==
  [at : {"rest", "first", "insert", "update", "mark", "change", "delete"}, thread : Threads \cup {NoThread},
   text : Letters \cup {NoThread}]

Writes(c, t) == clerks[c].thread = t /\ clerks[c].at \in {"first", "insert", "update"}

Stored(t, x) == \E i \in DOMAIN letters[t] : letters[t][i] = x

InboxTyped ==
  /\ DOMAIN threads = Threads
  /\ \A t \in Threads : threads[t] # NoThread => {"status", "last", "unread"} \subseteq DOMAIN threads[t]
  /\ letters \in [Threads -> Seq(Letters)]
  /\ clerks \in [Clerks -> Clerk]

ClerkFits(c) ==
  /\ clerks[c].at # "rest" => clerks[c].thread \in Threads
  /\ clerks[c].at \in {"first", "insert", "update"} => clerks[c].text \in Letters

\* Until its one writer is done, a conversation is listed with the message before,
\* or with the first.
OneWriter(t) == t \notin raced => \A c, d \in Clerks : Writes(c, t) /\ Writes(d, t) => c = d

LastIsThere(t) ==
  t \notin torn /\ threads[t] # NoThread =>
    /\ \/ threads[t].last = NoThread \/ Stored(t, threads[t].last)
       \/ \E c \in Clerks : clerks[c].thread = t /\ clerks[c].at = "first" /\ clerks[c].text = threads[t].last
    /\ \A c \in Clerks : clerks[c].thread = t /\ clerks[c].at = "update" => Stored(t, clerks[c].text)

LastIsRight(t) ==
  t \notin raced \cup torn /\ threads[t] # NoThread =>
    /\ \A c \in Clerks : clerks[c].thread = t =>
         /\ clerks[c].at = "first" => letters[t] = <<>> /\ threads[t].last = clerks[c].text
         /\ clerks[c].at = "insert" => threads[t].last = Latest(t)
         /\ clerks[c].at = "update" => Latest(t) = clerks[c].text
    /\ (\A c \in Clerks : ~Writes(c, t)) => threads[t].last = Latest(t)

InboxInv ==
  /\ InboxTyped
  /\ \A c \in Clerks : ClerkFits(c)
  /\ \A t \in Threads : OneWriter(t) /\ LastIsThere(t) /\ LastIsRight(t)

\* The messages of a conversation are gone when it is.
ThreadTyped ==
  /\ threads \in [Threads -> ThreadRow \cup {NoThread}]
  /\ \A t \in Threads : threads[t] = NoThread => letters[t] = <<>>
  /\ \A c \in Clerks : clerks[c].at = "rest" => clerks[c] = Inbox!AtRest

Said == {"sent", "delivered", "read", "failed"}

OutTyped ==
  /\ DOMAIN posting = Out!Posts /\ DOMAIN outRows = Out!Posts
  /\ progress \in [Out!Posts -> Seq(Said)]
  /\ notices \in [Out!Posts -> Seq(Said)]

\* A row that is there before any notice has noted each of them.
PostFits(p) ==
  /\ outRows[p] # NoRow => posting[p] = "done" /\ outRows[p] \in Out!Row
  /\ outRows[p] = NoRow /\ p \notin early => notices[p] = <<>>
  /\ outRows[p] # NoRow /\ p \notin early =>
       /\ outRows[p].readAt <=> \E i \in DOMAIN notices[p] : notices[p][i] = "read"
       /\ notices[p] # <<>> => outRows[p].status = notices[p][Len(notices[p])]

OutInv == OutTyped /\ \A p \in Out!Posts : PostFits(p)

\* Only messages of workflows are stored.
PostTyped ==
  /\ sendCircuit \in Out!Breaker!Circuit
  /\ \A p \in Out!Posts : posting[p] = "save" \/ outRows[p] # NoRow => p \in FlowPosts

AudTyped ==
  /\ IsFiniteSet(DOMAIN book)
  /\ asking \in [w : Wanted, strict : BOOLEAN, leads : Nat \cup {-1}, customers : Nat \cup {-1},
                 sample : SUBSET DOMAIN book, audience : SUBSET DOMAIN book, fetched : BOOLEAN, failed : BOOLEAN]

LeadCount(w) == IF w.type = "customers" THEN 0 ELSE Cardinality(Aud!CountedLeads(Aud!Counting(w)))
CustomerCount(w) == IF w.type = "leads" THEN 0 ELSE Cardinality(Aud!CountedCustomers(Aud!Counting(w)))

\* What was counted, sampled and fetched before anything changed is still so.
StillSo(w) ==
  /\ asking.leads # -1 => asking.leads = LeadCount(w)
  /\ asking.customers # -1 => asking.customers = CustomerCount(w)
  /\ asking.sample \subseteq Aud!Audience(w)
  /\ asking.fetched => asking.leads # -1 /\ asking.customers # -1 /\ asking.audience = Aud!Audience(w)

AudInv ==
  /\ AudTyped
  /\ \A w \in Wanted : asking.w = w /\ ~moved => StillSo(w)

Catcher ==
  [at : {"idle", "account", "lead", "newlead", "remember", "ask"}, item : Insta!Items \cup {NoItem}, lead : Nat,
   link : Nat]
Replier ==
  [at : {"idle", "call", "calling", "log"}, item : Insta!Items \cup {NoItem}, lead : Nat, to : Insta!Items \cup {NoItem}]

\* Item i is worked on under lead l.
Holds(l, i) ==
  \/ \E h \in IgHandlers : catching[h].at \in {"remember", "ask"} /\ catching[h].lead = l /\ catching[h].item = i
  \/ \E r \in igResults : r.lead = l /\ r.item = i
  \/ \E x \in contexts : x.lead = l /\ x.item = i
  \/ replying.at # "idle" /\ replying.lead = l /\ i \in {replying.item, replying.to}

\* Results of an item, and the reply to it that is under way.
Due(i) == {r \in igResults : r.item = i}
UnderWay(i) == IF replying.at \in {"call", "calling"} /\ replying.to = i THEN 1 ELSE 0

\* Lead l is asked about, waits for an answer, is replied to, or has its context.
Asking(h, l) == catching[h].at = "ask" /\ catching[h].lead = l
Answered(l) == \E r \in igResults : r.lead = l
RepliedTo(l) == replying.at # "idle" /\ replying.lead = l
Remembered(l) == \E x \in contexts : x.lead = l

IgTyped ==
  /\ igLeads \in Seq([author : {IgAuthor[i] : i \in Insta!Items}, direct : BOOLEAN])
  /\ stops \in Nat /\ crossed \subseteq DOMAIN igLeads
  /\ contexts \subseteq [lead : DOMAIN igLeads \cap hooks, item : Insta!Items, link : Nat]
  /\ igResults \subseteq [item : Insta!Items, lead : DOMAIN igLeads] /\ IsFiniteSet(igResults)
  /\ catching \in [IgHandlers -> Catcher]
  /\ \A h \in IgHandlers :
       /\ catching[h].at # "idle" => catching[h].item \in Insta!Items
       /\ catching[h].at \in {"remember", "ask"} => catching[h].lead \in DOMAIN igLeads
  /\ replying \in Replier
  /\ IF replying.at = "idle" THEN replying = Insta!NotReplying
     ELSE replying.lead \in DOMAIN igLeads /\ replying.item \in Insta!Items /\ replying.to \in Insta!Items
  /\ igReplies \in [Insta!Items -> Nat] /\ igAsked \in [Insta!Items -> Nat]
  /\ links \in Seq(BOOLEAN)

\* A lead is the author's; that of a comment is of this comment alone.
LeadFits(l, i) ==
  Holds(l, i) =>
    /\ igLeads[l] = [author |-> IgAuthor[i], direct |-> i \in Directs]
    /\ i \in Comments => \A j \in Insta!Items : Holds(l, j) => i = j

\* Each asking is good for one reply.
ReplyDue(i) == igReplies[i] + Cardinality(Due(i)) + UnderWay(i) <= igAsked[i] + stops

\* A lead whose messages did not cross is at one place only, with its context.
OnePlace(l) ==
  /\ \A g, h \in IgHandlers : Asking(g, l) /\ Asking(h, l) => g = h
  /\ \A r, s \in igResults : r.lead = l /\ s.lead = l => r = s
  /\ Answered(l) => \A h \in IgHandlers : ~Asking(h, l)
  /\ RepliedTo(l) => ~Answered(l) /\ \A h \in IgHandlers : ~Asking(h, l)
  /\ ~Remembered(l) => ~Answered(l) /\ ~RepliedTo(l) /\ \A h \in IgHandlers : ~Asking(h, l)

IgInv ==
  /\ IgTyped
  /\ \A l \in DOMAIN igLeads, i \in Insta!Items : LeadFits(l, i)
  /\ \A i \in Comments : ReplyDue(i)
  /\ stops = 0 => \A l \in DOMAIN igLeads \ crossed : OnePlace(l)
  /\ Insta!DroppedHaveCrossed

\* An account that was found stays in the table, whatever it becomes, and a lead
\* has one context.
IgLinked ==
  /\ igCircuit \in Insta!Breaker!Circuit
  /\ \A h \in IgHandlers : catching[h].at \in {"lead", "newlead", "remember"} => catching[h].link \in DOMAIN links
  /\ \A x, y \in contexts : x.link \in DOMAIN links /\ (x.lead = y.lead => x = y)
  /\ replying.at # "idle" => replying.lead \in hooks
=============================================================================

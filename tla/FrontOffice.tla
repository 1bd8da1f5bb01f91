------------------------------ MODULE FrontOffice ------------------------------
(***************************************************************************)
(* The services that answer people: the message pipeline (WhatsApp, the AI *)
(* and the workflows), notifications and the chat widget.                  *)
(*                                                                         *)
(* They share the process, Kafka and the database, but no row that two of  *)
(* them write, so one part, chosen at the start, moves and the others rest *)
(* (as in Backoffice).  Each has the fairness of its own module.           *)
(***************************************************************************)
EXTENDS MessagePipeline

CONSTANTS
  \* NotificationDelivery
  Notes, Senders, NoNote, Attempts, MaxRetries,
  \* ChatWidget
  Visitors, WidgetMessages, WidgetHandlers, NoChat, Author, MaxClosings

VARIABLES
  part,  \* the part that moves
  \* NotificationDelivery
  notes, noteJobs, hands, toSend, reported, reached, events,
  \* ChatWidget
  visitorLeads, chats, chatRows, serving, published, confirmed, rejected, overlap

noteVars == <<notes, noteJobs, hands, toSend, reported, reached, events>>
widgetVars == <<visitorLeads, chats, chatRows, serving, published, confirmed, rejected, overlap>>
frontVars == <<part, pipelineVars, noteVars, widgetVars>>

Note == INSTANCE NotificationDelivery
Chat == INSTANCE ChatWidget

Parts == {"pipeline", "notifications", "widget"}

FrontInit == part \in Parts /\ Init /\ Note!NoteInit /\ Chat!Init

\* The other parts stay as they are.
Only(p) ==
  /\ part = p /\ UNCHANGED part
  /\ IF p = "pipeline" THEN TRUE ELSE UNCHANGED pipelineVars
  /\ IF p = "notifications" THEN TRUE ELSE UNCHANGED noteVars
  /\ IF p = "widget" THEN TRUE ELSE UNCHANGED widgetVars

FrontNext ==
  \/ Only("pipeline") /\ Next
  \/ Only("notifications") /\ Note!Next
  \/ Only("widget") /\ Chat!Next

FrontSpec ==
  /\ FrontInit /\ [][FrontNext]_frontVars
  /\ Fairness /\ Note!NoteFairness /\ Chat!WidgetFairness

-----------------------------------------------------------------------------
\* The variables hold what they are meant to hold.
FrontTypeOK ==
  /\ TypeOK
  /\ part = "notifications" => Note!TypeOK
  /\ part = "widget" => Chat!TypeOK

\* What a person or the staff is told was sent or stored is so: a notification
\* that is sent was delivered and one that is failed is over, and a message that
\* was confirmed to a visitor is stored, published and shown to him; each but for
\* the stops and overlaps its module names (sendImmediately, processMessage).
AnswersAreAccounted ==
  /\ part = "notifications" => Note!SentIsBacked /\ Note!FailedIsFinal
  /\ part = "widget" => Chat!ConfirmedIsKept /\ Chat!ConfirmedIsShown

\* What was taken up comes to an end: the AI is asked about every message that is
\* delivered unless a step failed, its result is handled, the job of a
\* notification is completed or has failed, and a visitor's message is confirmed
\* or refused.
WorkEnds ==
  DeliveredIsAsked /\ ResultIsHandled /\ Note!JobsEnd /\ Chat!MessagesAreAnswered

-----------------------------------------------------------------------------
(* Why it is so: what every step of a part keeps.                          *)

\* As the code has them: a row of notes is no value that stands for none, a job
\* is tried at least once, every message of the widget has a visitor who wrote
\* it, and a conversation is told from no conversation.
ASSUME FrontAssumption ==
  /\ IsFiniteSet(WidgetHandlers)
  /\ Senders \cap Notes = {}
  /\ NoNote \notin Notes
  /\ NoNote \notin [channel : {"email", "other"}, status : {"pending", "queued", "sent", "failed"}, retries : Nat]
  /\ Attempts \in Nat \ {0} /\ MaxRetries \in Nat
  /\ Author \in [WidgetMessages -> Visitors]
  /\ NoChat \notin WidgetMessages /\ NoChat \notin Nat

NoteRows ==
  [channel : {"email", "other"}, status : {"pending", "queued", "sent", "failed"}, retries : Nat]

NoteTyped ==
  /\ notes \in [Notes -> NoteRows \cup {NoNote}]
  /\ noteJobs \in [Notes -> [state : {"none", "waiting", "active", "completed", "failed"},
                             tries : Nat, stalled : BOOLEAN]]
  /\ hands \in [Senders \cup Notes ->
                 [at : {"idle", "add", "mark", "claim", "call", "record", "log", "count", "fail", "gone"},
                  note : Notes \cup {NoNote}]]
  /\ toSend \in [Senders -> SUBSET Notes]
  /\ reported \in [Senders -> [sent : SUBSET Notes, failed : SUBSET Notes]]
  /\ reached \in [Notes -> Nat] /\ events \in [Notes -> Nat]

\* A worker works on the notification of its name, while its job is active; a
\* notification that is nobody's row has no job; only one caller has it or is to
\* send it, and when he does more than to mark it, it has no job.
HandsInv ==
  /\ \A a \in Senders \cup Notes :
       /\ hands[a].at \in {"idle", "gone"} <=> hands[a].note = NoNote
       /\ hands[a].note # NoNote => notes[hands[a].note] # NoNote
  /\ \A n \in Notes :
       /\ hands[n].note \in {n, NoNote} /\ hands[n].at \notin {"gone", "add", "mark"}
       /\ hands[n].at # "idle" <=> noteJobs[n].state = "active"
  /\ \A c \in Senders :
       /\ hands[c].note # NoNote => (hands[c].at = "mark" <=> noteJobs[hands[c].note].state # "none")
       /\ \A d \in Senders : hands[c].note # NoNote /\ hands[c].note = hands[d].note => c = d
       /\ \A n \in toSend[c] : notes[n] = NoNote
       /\ \A d \in Senders : c # d => toSend[c] \cap toSend[d] = {}

Stalls(n) == IF noteJobs[n].stalled THEN 1 ELSE 0

\* A row counts no more retries, and the provider has delivered no more often,
\* than attempts of the job are over, one for a stall and one that is under way.
TriesInv ==
  /\ \A n \in Notes :
       /\ notes[n] = NoNote => noteJobs[n].state = "none" /\ reached[n] = 0 /\ events[n] = 0
       /\ noteJobs[n].state = "none" =>
            noteJobs[n].tries = 0 /\ ~noteJobs[n].stalled /\ reached[n] <= 1
            /\ (notes[n] # NoNote => notes[n].retries <= 1)
       /\ noteJobs[n].tries <= Attempts
       /\ noteJobs[n].state \in {"waiting", "active"} => noteJobs[n].tries < Attempts
       /\ noteJobs[n].state # "none" =>
            /\ reached[n] <= noteJobs[n].tries + Stalls(n)
                               + (IF hands[n].at \in {"record", "log", "count", "fail"} THEN 1 ELSE 0)
            /\ notes[n].retries <= noteJobs[n].tries + Stalls(n) + (IF hands[n].at = "fail" THEN 1 ELSE 0)
  /\ \A c \in Senders : hands[c].note # NoNote =>
       /\ hands[c].at \in {"add", "claim", "call"} => reached[hands[c].note] = 0
       /\ hands[c].at \in {"add", "claim", "call", "record", "log", "count"} => notes[hands[c].note].retries = 0

\* An event follows a delivery of its own.
BackedInv ==
  /\ \A n \in Notes :
       /\ notes[n] # NoNote /\ notes[n].status = "sent" => reached[n] > 0
       /\ notes[n] # NoNote /\ notes[n].status = "failed" => notes[n].retries >= MaxRetries
       /\ noteJobs[n].state = "completed" => reached[n] > 0 /\ events[n] > 0
       /\ events[n] <= reached[n]
  /\ \A a \in Senders \cup Notes : hands[a].note # NoNote =>
       /\ hands[a].at \in {"record", "log"} => events[hands[a].note] < reached[hands[a].note]
       /\ hands[a].at = "fail" => notes[hands[a].note].retries >= MaxRetries
  /\ \A c \in Senders : \A n \in reported[c].sent : reached[n] > 0 \/ noteJobs[n].state # "none"

NoteInv == NoteTyped /\ HandsInv /\ TriesInv /\ BackedInv

WidgetTyped ==
  /\ visitorLeads \in Seq(Visitors)
  /\ chats \in Seq([lead : Nat, active : BOOLEAN])
  /\ chatRows \in [WidgetMessages -> Nat \cup {NoChat}]
  /\ serving \in [WidgetHandlers ->
                   [at : {"idle", "lead", "newlead", "chat", "newchat", "store", "publish"},
                    msg : WidgetMessages \cup {NoChat}, lead : Nat, chat : Nat]]
  /\ confirmed \subseteq WidgetMessages /\ rejected \subseteq WidgetMessages
  /\ overlap \in Nat

\* What a handler has found or created is there, and of its visitor.
ServingInv ==
  /\ \A i \in DOMAIN chats : chats[i].lead \in DOMAIN visitorLeads
  /\ \A m \in WidgetMessages : chatRows[m] # NoChat => chatRows[m] \in DOMAIN chats
  /\ \A h \in WidgetHandlers :
       LET k == serving[h]
       IN  /\ k.at = "idle" <=> k.msg = NoChat
           /\ k.at \in {"chat", "newchat", "store", "publish"} =>
                k.lead \in DOMAIN visitorLeads /\ visitorLeads[k.lead] = Author[k.msg]
           /\ k.at \in {"store", "publish"} => k.chat \in DOMAIN chats /\ chats[k.chat].lead = k.lead
           /\ k.at = "publish" => chatRows[k.msg] = k.chat

\* One handler at most serves a message, and none one that is answered.
ConfirmedInv ==
  /\ \A g, h \in WidgetHandlers : serving[g].msg # NoChat /\ serving[g].msg = serving[h].msg => g = h
  /\ \A h \in WidgetHandlers : serving[h].msg \notin confirmed \cup rejected
  /\ confirmed \cap rejected = {} /\ confirmed \subseteq published
  /\ \A m \in confirmed :
       chatRows[m] \in DOMAIN chats /\ visitorLeads[chats[chatRows[m]].lead] = Author[m]

\* While handlers never overlapped, one is busy at most, and a visitor has one
\* lead at most and it one open conversation.
SingleInv ==
  overlap <= 1 =>
    /\ \A g, h \in WidgetHandlers : serving[g].at # "idle" /\ serving[h].at # "idle" => g = h
    /\ \A i, j \in DOMAIN visitorLeads : visitorLeads[i] = visitorLeads[j] => i = j
    /\ \A i, j \in DOMAIN chats :
         chats[i].lead = chats[j].lead /\ chats[i].active /\ chats[j].active => i = j
    /\ \A h \in WidgetHandlers :
         /\ serving[h].at = "newlead" => \A i \in DOMAIN visitorLeads : visitorLeads[i] # Author[serving[h].msg]
         /\ serving[h].at = "newchat" =>
              \A i \in DOMAIN chats : ~(chats[i].lead = serving[h].lead /\ chats[i].active)

WidgetInv == WidgetTyped /\ ServingInv /\ ConfirmedInv /\ SingleInv

FrontInv == PipelineInv /\ NoteInv /\ WidgetInv
=============================================================================

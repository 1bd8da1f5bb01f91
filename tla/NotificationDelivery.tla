-------------------------- MODULE NotificationDelivery --------------------------
(***************************************************************************)
(* features/notifications: NotificationService, its queue and processor,   *)
(* and the providers.                                                      *)
(*                                                                         *)
(* A caller sends notifications one after another: one for send, several   *)
(* for sendMultiChannel and sendBulk.  An urgent one is sent while the     *)
(* caller waits, the others by a job.  Whoever sends a notification (a     *)
(* caller, or the worker of its job, named by the notification) goes       *)
(* through the statements of sendImmediately, each of which may fail.      *)
(***************************************************************************)
EXTENDS Naturals, FiniteSets

CONSTANTS
  Notes,       \* notifications
  Senders,     \* callers
  NoNote,
  Attempts,    \* attempts of a job
  MaxRetries   \* retries of a row before it counts as failed

VARIABLES
  notes,      \* row of each notification, or NoNote
  noteJobs,   \* BullMQ job of each notification
  hands,      \* who works on which notification, and its next statement
  toSend,      \* what each caller still has to send
  reported,   \* notifications each caller was told are sent, and are not
  reached,    \* times the provider delivered each notification
  events      \* rows of notification_events

noteVars == <<notes, noteJobs, hands, toSend, reported, reached, events>>

Actors == Senders \cup Notes

\* Only e-mail is sent; the services for SMS and WhatsApp, and push, throw.
NoteChannels == {"email", "other"}

Idle == [at |-> "idle", note |-> NoNote]
NoJob == [state |-> "none", tries |-> 0, stalled |-> FALSE]

-----------------------------------------------------------------------------
Move(a, at) == hands' = [hands EXCEPT ![a].at = at]

SetStatus(n, s) == notes' = [notes EXCEPT ![n].status = s]

\* What a caller or a job does when sendImmediately is over.
TellCaller(c, ok) ==
  LET n == hands[c].note
  IN  /\ reported' = IF ok THEN [reported EXCEPT ![c].sent = @ \cup {n}]
                          ELSE [reported EXCEPT ![c].failed = @ \cup {n}]
      /\ hands' = [hands EXCEPT ![c] = Idle]
      /\ UNCHANGED noteJobs

EndJob(n, ok) ==
  LET tries == noteJobs[n].tries + 1
      state == IF ok THEN "completed" ELSE IF tries < Attempts THEN "waiting" ELSE "failed"
  IN  /\ noteJobs' = [noteJobs EXCEPT ![n] = [state |-> state, tries |-> tries, stalled |-> @.stalled]]
      /\ hands' = [hands EXCEPT ![n] = Idle]
      /\ UNCHANGED reported

Over(a, ok) == IF a \in Senders THEN TellCaller(a, ok) ELSE EndJob(a, ok)

-----------------------------------------------------------------------------
(* send, sendMultiChannel, sendBulk                                        *)

Ask(c) ==
  /\ hands[c] = Idle /\ toSend[c] = {}
  /\ \E S \in SUBSET {n \in Notes : notes[n] = NoNote /\ \A d \in Senders : n \notin toSend[d] \cup reported[d].failed} :
       toSend' = [toSend EXCEPT ![c] = S]
  /\ UNCHANGED <<notes, noteJobs, hands, reported, reached, events>>

\* No recipient, no template of that key, a channel it does not enable, or a
\* text that cannot be rendered: no row, and the next one is sent.
Refuse(c, n) ==
  /\ hands[c] = Idle /\ n \in toSend[c]
  /\ toSend' = [toSend EXCEPT ![c] = @ \ {n}]
  /\ reported' = [reported EXCEPT ![c].failed = @ \cup {n}]
  /\ UNCHANGED <<notes, noteJobs, hands, reached, events>>

NewNote(ch) == [channel |-> ch, status |-> "pending", retries |-> 0]

\* The row is created; scheduled_at is stored in it and never looked at.
CreateMessage(c, n) ==
  /\ hands[c] = Idle /\ n \in toSend[c]
  /\ toSend' = [toSend EXCEPT ![c] = @ \ {n}]
  /\ \E ch \in NoteChannels : notes' = [notes EXCEPT ![n] = NewNote(ch)]
  /\ \E urgent \in BOOLEAN : hands' = [hands EXCEPT ![c] = [at |-> IF urgent THEN "claim" ELSE "add", note |-> n]]
  /\ UNCHANGED <<noteJobs, reported, reached, events>>

\* queueNotification: first the job is added, then the row says so.
AddJob(c) ==
  /\ hands[c].at = "add"
  /\ \/ /\ noteJobs' = [noteJobs EXCEPT ![hands[c].note].state = "waiting"]
        /\ Move(c, "mark")
        /\ UNCHANGED reported
     \/ TellCaller(c, FALSE)
  /\ UNCHANGED <<notes, toSend, reached, events>>

MarkQueued(c) ==
  /\ hands[c].at = "mark"
  /\ \/ SetStatus(hands[c].note, "queued") /\ TellCaller(c, TRUE)
     \/ TellCaller(c, FALSE) /\ UNCHANGED notes
  /\ UNCHANGED <<toSend, reached, events>>

-----------------------------------------------------------------------------
(* sendImmediately                                                         *)

Claim(a) ==
  /\ hands[a].at = "claim"
  /\ \/ SetStatus(hands[a].note, "queued") /\ Move(a, "call")
     \/ Move(a, "count") /\ UNCHANGED notes
  /\ UNCHANGED <<noteJobs, toSend, reported, reached, events>>

\* The provider delivers or not; its answer may be lost.
Call(a) ==
  LET n == hands[a].note
  IN  /\ hands[a].at = "call"
      /\ \/ /\ notes[n].channel = "email"
            /\ reached' = [reached EXCEPT ![n] = @ + 1]
            /\ \E next \in {"record", "count"} : Move(a, next)
         \/ Move(a, "count") /\ UNCHANGED reached
      /\ UNCHANGED <<notes, noteJobs, toSend, reported, events>>

RecordSent(a) ==
  /\ hands[a].at = "record"
  /\ \/ SetStatus(hands[a].note, "sent") /\ Move(a, "log")
     \/ Move(a, "count") /\ UNCHANGED notes
  /\ UNCHANGED <<noteJobs, toSend, reported, reached, events>>

CreateEvent(a) ==
  /\ hands[a].at = "log"
  /\ \/ events' = [events EXCEPT ![hands[a].note] = @ + 1] /\ Over(a, TRUE)
     \/ Move(a, "count") /\ UNCHANGED <<noteJobs, reported, events>>
  /\ UNCHANGED <<notes, toSend, reached>>

\* The catch clause counts the retry, whichever statement failed, and marks the
\* row as failed after the last one.  (Mutation: one retry too early.)
CountEarly(a) ==
  LET n == hands[a].note
  IN  /\ hands[a].at = "count"
      /\ \/ /\ notes' = [notes EXCEPT ![n].retries = @ + 1]
            /\ IF notes[n].retries + 2 >= MaxRetries
               THEN Move(a, "fail") /\ UNCHANGED <<noteJobs, reported>>
               ELSE Over(a, FALSE)
         \/ Over(a, FALSE) /\ UNCHANGED notes
      /\ UNCHANGED <<toSend, reached, events>>

CountRetry(a) ==
  LET n == hands[a].note
  IN  /\ hands[a].at = "count"
      /\ \/ /\ notes' = [notes EXCEPT ![n].retries = @ + 1]
            /\ IF notes[n].retries + 1 >= MaxRetries
               THEN Move(a, "fail") /\ UNCHANGED <<noteJobs, reported>>
               ELSE Over(a, FALSE)
         \/ Over(a, FALSE) /\ UNCHANGED notes
      /\ UNCHANGED <<toSend, reached, events>>

MarkFailed(a) ==
  /\ hands[a].at = "fail"
  /\ \/ SetStatus(hands[a].note, "failed")
     \/ UNCHANGED notes
  /\ Over(a, FALSE)
  /\ UNCHANGED <<toSend, reached, events>>

SendImmediately(a) ==
  Claim(a) \/ Call(a) \/ RecordSent(a) \/ CreateEvent(a) \/ CountRetry(a) \/ MarkFailed(a)

-----------------------------------------------------------------------------
\* A worker takes the job of n (processSendNotification).
Process(n) ==
  /\ noteJobs[n].state = "waiting"
  /\ noteJobs' = [noteJobs EXCEPT ![n].state = "active"]
  /\ hands' = [hands EXCEPT ![n] = [at |-> "claim", note |-> n]]
  /\ UNCHANGED <<notes, toSend, reported, reached, events>>

\* The worker of n stops.  BullMQ hands a stalled job to another one, once.
Stall(n) ==
  /\ noteJobs[n].state = "active" /\ ~noteJobs[n].stalled
  /\ noteJobs' = [noteJobs EXCEPT ![n].state = "waiting", ![n].stalled = TRUE]
  /\ hands' = [hands EXCEPT ![n] = Idle]
  /\ UNCHANGED <<notes, toSend, reported, reached, events>>

\* The process of a caller stops: nobody goes on with its request.
Vanish(c) ==
  /\ hands[c] # Idle
  /\ hands' = [hands EXCEPT ![c] = [at |-> "gone", note |-> NoNote]]
  /\ UNCHANGED <<notes, noteJobs, toSend, reported, reached, events>>

NoteInit ==
  /\ notes = [n \in Notes |-> NoNote]
  /\ noteJobs = [n \in Notes |-> NoJob]
  /\ hands = [a \in Actors |-> Idle]
  /\ toSend = [c \in Senders |-> {}]
  /\ reported = [c \in Senders |-> [sent |-> {}, failed |-> {}]]
  /\ reached = [n \in Notes |-> 0]
  /\ events = [n \in Notes |-> 0]

Serve(c) == AddJob(c) \/ MarkQueued(c) \/ \E n \in Notes : Refuse(c, n) \/ CreateMessage(c, n)

Next ==
  \/ \E c \in Senders : Ask(c) \/ Serve(c) \/ Vanish(c)
  \/ \E n \in Notes : Process(n) \/ Stall(n)
  \/ \E a \in Actors : SendImmediately(a)

\* A worker that runs goes on, and BullMQ finds a job that waits.
NoteFairness == \A n \in Notes : WF_noteVars(Process(n)) /\ WF_noteVars(SendImmediately(n))

Spec == NoteInit /\ [][Next]_noteVars /\ NoteFairness

-----------------------------------------------------------------------------
TypeOK ==
  /\ \A n \in Notes :
       /\ notes[n] = NoNote \/ notes[n] \in [channel : NoteChannels, retries : 0..(Attempts + 1),
                                             status : {"pending", "queued", "sent", "failed"}]
       /\ noteJobs[n].state \in {"none", "waiting", "active", "completed", "failed"}
       /\ noteJobs[n].tries \in 0..Attempts
       /\ hands[n].at # "idle" <=> noteJobs[n].state = "active"
  /\ \A c \in Senders : toSend[c] \subseteq {n \in Notes : notes[n] = NoNote}

\* What a row or a report says was sent, was delivered or has a job that sends
\* it; and nothing is delivered more often than it is tried.
SentIsBacked ==
  /\ \A n \in Notes :
       /\ notes[n] # NoNote /\ notes[n].status = "sent" => reached[n] > 0
       /\ noteJobs[n].state = "completed" => reached[n] > 0 /\ events[n] > 0
       /\ events[n] <= reached[n]
       /\ reached[n] <= Attempts + 1
  /\ \A c \in Senders : \A n \in reported[c].sent : reached[n] > 0 \/ noteJobs[n].state # "none"

\* The retries of a row and the attempts of its job are counted apart, and yet
\* a row that is failed has no attempt left, unless a worker stopped in the
\* middle of one (sendImmediately, queueNotification).
FailedIsFinal ==
  \A n \in Notes : notes[n] # NoNote /\ notes[n].status = "failed" /\ ~noteJobs[n].stalled =>
    /\ notes[n].retries >= MaxRetries
    /\ noteJobs[n].state # "waiting"

\* Every job ends.
JobsEnd == \A n \in Notes : noteJobs[n].state = "waiting" ~> noteJobs[n].state \in {"completed", "failed"}
=============================================================================

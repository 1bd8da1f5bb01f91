----------------------------- MODULE MessageIntake -----------------------------
(***************************************************************************)
(* How a WhatsApp message becomes a row and a request to the AI processor  *)
(* (features/whatsapp: the webhook of whatsapp.controller.ts and           *)
(* handleMessageWebhook of whatsapp.service.ts).                           *)
(*                                                                         *)
(* The controller hands every webhook to setImmediate, so one process runs *)
(* many handlers at once, and a handler can be interleaved at each of its  *)
(* awaits.  Meta delivers a webhook again when it was not answered, and    *)
(* this controller never answers: it takes the response object and returns *)
(* without using it.  A handler swallows every error, so a step that fails *)
(* ends it and keeps the rows that were written before (GiveUp).           *)
(*                                                                         *)
(* Of a message only its sender matters here.  Leads and conversations are *)
(* numbered in the order of their creation.                                *)
(***************************************************************************)
EXTENDS Naturals, Sequences, FiniteSets, Functions

CONSTANTS
  Messages,       \* the platform's message ids
  Contacts,       \* the phones that write
  Sender,         \* the phone that wrote each message
  Handlers,       \* webhooks that can be handled at once
  MaxDeliveries,  \* bound: webhooks delivered
  MaxClosures,    \* bound: times a conversation is closed
  MaxSwitches,    \* bound: times the account is connected or disconnected
  Nothing,        \* no message and no row
  FailureThreshold, SuccessThreshold, ResetAfter

Breaker == INSTANCE CircuitBreaker

VARIABLES
  leads,      \* leads[i]: the phone of the i-th lead
  convs,      \* convs[i]: the lead of the i-th conversation, and whether it is active
  rows,       \* lead_messages: the lead and the conversation of each message stored
  connected,  \* whether an active account has the phone number
  circuit,    \* the circuit of markAsRead
  handlers,   \* what each handler is doing
  delivered,  \* times each message was delivered
  asked,      \* ai.process.request events published for each message
  dropped,    \* messages a handler gave up on after a step that failed
  most,       \* the largest number of handlers that were at work at once
  closures,   \* conversations closed so far
  switches    \* connections and disconnections so far

intakeVars == <<leads, convs, rows, connected, circuit, handlers, delivered,
                asked, dropped, most, closures, switches>>

Steps == {"idle", "check", "lead", "newlead", "conversation", "newconversation",
          "store", "mark", "marking", "ask"}

Idle == [at |-> "idle", msg |-> Nothing, lead |-> 0, conv |-> 0]

Rows == [lead : Nat, conv : Nat]

Handler == [at : Steps, msg : Messages \cup {Nothing}, lead : Nat, conv : Nat]

LeadsOf(p) == {i \in DOMAIN leads : leads[i] = p}
ActiveOf(l) == {i \in DOMAIN convs : convs[i].lead = l /\ convs[i].active}

IntakeInit ==
  /\ leads = <<>>
  /\ convs = <<>>
  /\ rows = [m \in Messages |-> Nothing]
  /\ connected = TRUE
  /\ circuit \in {Breaker!Fresh, Breaker!Bad(Breaker!Fresh)}  \* the call for an earlier message may have failed
  /\ handlers = [h \in Handlers |-> Idle]
  /\ delivered = [m \in Messages |-> 0]
  /\ asked = [m \in Messages |-> 0]
  /\ dropped = {}
  /\ most = 0
  /\ closures = 0
  /\ switches = 0

-----------------------------------------------------------------------------
At(h, step) == handlers[h].at = step

Goes(h, step) == handlers' = [handlers EXCEPT ![h].at = step]

\* Mutation: the handler keeps its message.
EndsHolding(h) == handlers' = [handlers EXCEPT ![h].at = "idle"]

Ends(h) == handlers' = [handlers EXCEPT ![h] = Idle]

\* A webhook with message m arrives; its signature and its shape are right.
Deliver(h, m) ==
  /\ At(h, "idle")
  /\ FoldFunction(+, 0, delivered) < MaxDeliveries
  /\ delivered' = [delivered EXCEPT ![m] = @ + 1]
  /\ handlers' = [handlers EXCEPT ![h] = [Idle EXCEPT !.at = "check", !.msg = m]]
  /\ LET busy == 1 + Cardinality({g \in Handlers : ~At(g, "idle")})
     IN  most' = IF busy > most THEN busy ELSE most
  /\ UNCHANGED <<leads, convs, rows, connected, circuit, asked, dropped, closures, switches>>

\* A message that has a row was handled before, and one for a number without
\* an active account is ignored: the handler returns.
Check(h) ==
  /\ At(h, "check")
  /\ IF rows[handlers[h].msg] = Nothing /\ connected THEN Goes(h, "lead") ELSE Ends(h)
  /\ dropped' = dropped \cup {m \in {handlers[h].msg} : rows[m] = Nothing /\ ~connected}
  /\ UNCHANGED <<leads, convs, rows, connected, circuit, delivered, asked, most, closures, switches>>

\* Mutation: a lead is created for every message.
FindLeadNever(h) ==
  /\ At(h, "lead")
  /\ Goes(h, "newlead")
  /\ UNCHANGED <<leads, convs, rows, connected, circuit, delivered, asked, dropped, most, closures, switches>>

\* findFirst takes any lead of the phone.
FindLead(h) ==
  /\ At(h, "lead")
  /\ LET found == LeadsOf(Sender[handlers[h].msg])
     IN  \/ \E l \in found :
              handlers' = [handlers EXCEPT ![h].at = "conversation", ![h].lead = l]
         \/ found = {} /\ Goes(h, "newlead")
  /\ UNCHANGED <<leads, convs, rows, connected, circuit, delivered, asked, dropped, most, closures, switches>>

CreateLead(h) ==
  /\ At(h, "newlead")
  /\ leads' = Append(leads, Sender[handlers[h].msg])
  /\ handlers' = [handlers EXCEPT ![h].at = "conversation", ![h].lead = Len(leads) + 1]
  /\ UNCHANGED <<convs, rows, connected, circuit, delivered, asked, dropped, most, closures, switches>>

FindConversation(h) ==
  /\ At(h, "conversation")
  /\ LET found == ActiveOf(handlers[h].lead)
     IN  \/ \E c \in found : handlers' = [handlers EXCEPT ![h].at = "store", ![h].conv = c]
         \/ found = {} /\ Goes(h, "newconversation")
  /\ UNCHANGED <<leads, convs, rows, connected, circuit, delivered, asked, dropped, most, closures, switches>>

CreateConversation(h) ==
  /\ At(h, "newconversation")
  /\ convs' = Append(convs, [lead |-> handlers[h].lead, active |-> TRUE])
  /\ handlers' = [handlers EXCEPT ![h].at = "store", ![h].conv = Len(convs) + 1]
  /\ UNCHANGED <<leads, rows, connected, circuit, delivered, asked, dropped, most, closures, switches>>

\* Mutation: the message is stored again when it has a row already.
StoreAgain(h) ==
  /\ At(h, "store")
  /\ rows' = [rows EXCEPT ![handlers[h].msg] = [lead |-> handlers[h].lead, conv |-> handlers[h].conv]]
  /\ Goes(h, "mark")
  /\ UNCHANGED <<leads, convs, connected, circuit, delivered, asked, dropped, most, closures, switches>>

\* The insert: platform_message_id is unique, so of two handlers of a message
\* that both found no row one inserts it and the other fails.
Store(h) ==
  /\ At(h, "store")
  /\ LET m == handlers[h].msg
     IN  IF rows[m] = Nothing
         THEN /\ rows' = [rows EXCEPT ![m] = [lead |-> handlers[h].lead, conv |-> handlers[h].conv]]
              /\ Goes(h, "mark")
         ELSE UNCHANGED rows /\ Ends(h)
  /\ UNCHANGED <<leads, convs, connected, circuit, delivered, asked, dropped, most, closures, switches>>

\* markAsRead goes through the circuit.  A refusal is an exception: the message
\* is stored and nobody will ask the AI about it.
MarkAsRead(h) ==
  /\ At(h, "mark")
  /\ \/ /\ Breaker!Refuses(circuit)
        /\ Ends(h)
        /\ dropped' = dropped \cup {handlers[h].msg}
        /\ UNCHANGED circuit
     \/ /\ ~Breaker!Refuses(circuit)
        /\ circuit' = Breaker!Entered(circuit)
        /\ Goes(h, "marking")
        /\ UNCHANGED dropped
  /\ UNCHANGED <<leads, convs, rows, connected, delivered, asked, most, closures, switches>>

\* The platform answers the call, or refuses it, or times out.
Marked(h) ==
  /\ At(h, "marking")
  /\ \/ /\ circuit' = Breaker!Good(circuit)
        /\ Goes(h, "ask")
        /\ UNCHANGED dropped
     \/ /\ circuit' = Breaker!Bad(circuit)
        /\ Ends(h)
        /\ dropped' = dropped \cup {handlers[h].msg}
  /\ UNCHANGED <<leads, convs, rows, connected, delivered, asked, most, closures, switches>>

\* requestAiProcessing: the broker has taken the event.
Publish(m) == asked' = [asked EXCEPT ![m] = @ + 1]

\* Mutation: a refusal by the broker ends the handler like a success.
AskForgetful(h) ==
  /\ At(h, "ask")
  /\ Ends(h)
  /\ \/ Publish(handlers[h].msg)
     \/ UNCHANGED asked
  /\ UNCHANGED <<leads, convs, rows, connected, circuit, delivered, dropped, most, closures, switches>>

\* The history is read and the request is published on ai.process.request.
Ask(h) ==
  /\ At(h, "ask")
  /\ Ends(h)
  /\ Publish(handlers[h].msg)
  /\ UNCHANGED <<leads, convs, rows, connected, circuit, delivered, dropped, most, closures, switches>>

\* A statement fails, or the broker refuses the request: the error is logged.
GiveUp(h) ==
  /\ handlers[h].at \notin {"idle", "mark", "marking"}
  /\ Ends(h)
  /\ dropped' = dropped \cup {handlers[h].msg}
  /\ UNCHANGED <<leads, convs, rows, connected, circuit, delivered, asked, most, closures, switches>>

Handle(h) ==
  \/ Check(h) \/ FindLead(h) \/ CreateLead(h) \/ FindConversation(h)
  \/ CreateConversation(h) \/ Store(h) \/ MarkAsRead(h) \/ Marked(h) \/ Ask(h) \/ GiveUp(h)

-----------------------------------------------------------------------------
\* The waiting time of the circuit passes.
Cool ==
  /\ circuit.recent
  /\ circuit' = [circuit EXCEPT !.recent = FALSE]
  /\ UNCHANGED <<leads, convs, rows, connected, handlers, delivered, asked, dropped, most, closures, switches>>

\* closeConversation
Close(c) ==
  /\ closures < MaxClosures
  /\ convs[c].active
  /\ convs' = [convs EXCEPT ![c].active = FALSE]
  /\ closures' = closures + 1
  /\ UNCHANGED <<leads, rows, connected, circuit, handlers, delivered, asked, dropped, most, switches>>

\* connectWhatsAppAccount inserts an active account; disconnectAccount clears
\* is_active of the one there is.
Switch ==
  /\ switches < MaxSwitches
  /\ connected' = ~connected
  /\ switches' = switches + 1
  /\ UNCHANGED <<leads, convs, rows, circuit, handlers, delivered, asked, dropped, most, closures>>

\* The process stops: what its handlers held in memory is gone.
IntakeCrash ==
  /\ handlers' = [h \in Handlers |-> Idle]
  /\ circuit' = Breaker!Fresh
  /\ dropped' = dropped \cup {handlers[h].msg : h \in {g \in Handlers : ~At(g, "idle")}}
  /\ UNCHANGED <<leads, convs, rows, connected, delivered, asked, most, closures, switches>>

Intake ==
  \/ \E h \in Handlers : Handle(h)
  \/ \E h \in Handlers, m \in Messages : Deliver(h, m)
  \/ \E c \in DOMAIN convs : Close(c)
  \/ Cool
  \/ Switch
=============================================================================

---------------------------- MODULE MessagePipeline ----------------------------
(***************************************************************************)
(* A message from its webhook to the reply: MessageIntake and              *)
(* WorkflowExecution in one process, with the AI processor between them.   *)
(*                                                                         *)
(* The AI processor is not part of this repository.  It takes what is on   *)
(* ai.process.request and publishes a result or an error, at its own pace; *)
(* nothing says that it ever does.                                         *)
(***************************************************************************)
EXTENDS MessageIntake

CONSTANTS
  Consumers, Intents, Assigned, Default, Workflows, MaxIterations,
  MaxCrashes  \* bound: times the process stops

\* Nothing is no message, no row and no result.
ASSUME PipelineAssumption ==
  /\ IsFiniteSet(Messages) /\ IsFiniteSet(Handlers) /\ IsFiniteSet(Consumers)
  /\ Sender \in [Messages -> Contacts]
  /\ Nothing \notin Messages
  /\ Nothing \notin Rows
  /\ Nothing \notin [lead : Nat, intent : Intents \cup {Nothing}]
  /\ FailureThreshold \in Nat /\ SuccessThreshold \in Nat /\ ResetAfter \in Nat
  /\ MaxIterations \in Nat /\ MaxCrashes \in Nat

VARIABLES
  results, consumers, executions, replies, stored, unsettled,  \* as in WorkflowExecution
  answered,  \* results and errors published for each message
  crashes    \* stops so far

Orchestration == INSTANCE WorkflowExecution

orchestrationVars == <<results, consumers, executions, replies, stored, unsettled>>

pipelineVars == <<intakeVars, orchestrationVars, answered, crashes>>

Init ==
  /\ IntakeInit
  /\ Orchestration!FlowInit
  /\ answered = [m \in Messages |-> 0]
  /\ crashes = 0

\* The AI processor answers a request about m, with an intent or an error.
Answer(m) ==
  /\ answered[m] < asked[m]
  /\ results[m] = Nothing
  /\ \E i \in Intents \cup {Nothing} : results' = [results EXCEPT ![m] = [lead |-> rows[m].lead, intent |-> i]]
  /\ answered' = [answered EXCEPT ![m] = @ + 1]
  /\ UNCHANGED <<intakeVars, consumers, executions, replies, stored, unsettled, crashes>>

\* The process stops, and starts again at once.
Crash ==
  /\ crashes < MaxCrashes
  /\ crashes' = crashes + 1
  /\ IntakeCrash
  /\ Orchestration!FlowCrash
  /\ UNCHANGED answered

TakesIn == Intake /\ UNCHANGED <<orchestrationVars, answered, crashes>>
WorksOn == Orchestration!Flow /\ UNCHANGED <<intakeVars, answered, crashes>>

Next == TakesIn \/ WorksOn \/ Crash \/ \E m \in Messages : Answer(m)

\* The event loop runs every handler that can go on, and the consumer polls.
\* Webhooks, the AI processor and the people who close conversations or switch
\* the account need not act at all.
Fairness ==
  /\ \A h \in Handlers :
       WF_pipelineVars(Handle(h) /\ UNCHANGED <<orchestrationVars, answered, crashes>>)
  /\ \A c \in Consumers :
       /\ WF_pipelineVars(Orchestration!Work(c) /\ UNCHANGED <<intakeVars, answered, crashes>>)
       /\ WF_pipelineVars((\E m \in Messages : Orchestration!Take(c, m)) /\ UNCHANGED <<intakeVars, answered, crashes>>)

Spec == Init /\ [][Next]_pipelineVars /\ Fairness

-----------------------------------------------------------------------------
\* The variables hold what they are meant to hold.
TypeOK ==
  /\ leads \in Seq(Contacts)
  /\ \A i \in DOMAIN convs : convs[i] \in [lead : DOMAIN leads, active : BOOLEAN]
  /\ \A m \in Messages : rows[m] = Nothing \/ rows[m] \in [lead : DOMAIN leads, conv : DOMAIN convs]
  /\ circuit \in Breaker!Circuit
  /\ handlers \in [Handlers -> Handler]
  /\ \A h \in Handlers : handlers[h].at = "idle" <=> handlers[h].msg = Nothing
  /\ connected \in BOOLEAN /\ dropped \subseteq Messages
  /\ \A c \in Consumers : consumers[c].at \in Orchestration!Phases
  /\ \A m \in Messages : stored[m] <= replies[m] /\ answered[m] <= asked[m]

\* However often and however concurrently a message is delivered, the AI is
\* asked about it at most once, and only when it is stored in a conversation of
\* a lead of the phone that wrote it (handleMessageWebhook).
AskedOnce ==
  \A m \in Messages :
    asked[m] > 0 => /\ asked[m] = 1
                    /\ rows[m] # Nothing
                    /\ leads[rows[m].lead] = Sender[m]
                    /\ convs[rows[m].conv].lead = rows[m].lead

\* A phone has more than one lead, and a lead more than one active conversation,
\* only as far as as many handlers were at work at once: deliveries handled one
\* after the other never duplicate either (findFirst and create in
\* handleMessageWebhook).
DuplicatesAreConcurrent ==
  /\ \A p \in Contacts : Cardinality(LeadsOf(p)) <= most
  /\ \A l \in DOMAIN leads : Cardinality(ActiveOf(l)) <= most

\* A result is handled again only when the process stopped in between, and no
\* handling of it sends more messages than a workflow may visit states.
RepliesAreBounded ==
  \A m \in Messages :
    /\ Len(executions[m]) <= answered[m] + crashes
    /\ replies[m] <= Len(executions[m]) * MaxIterations

\* The executions shown as running, and the consumers that work on one.
Shown(e) == e[2] \in DOMAIN executions[e[1]] /\ executions[e[1]][e[2]] = "running"
Running == {e \in Messages \X (1..(MaxCrashes + 1)) : Shown(e)}
Working == {c \in Consumers : consumers[c].at \in {"visit", "send", "save", "follow", "settle", "fail"}}

\* An execution shown as running has a consumer that works on it, except for
\* those whose process stopped or whose last update failed.
RunningIsWorkedOn == Cardinality(Running) = Cardinality(Working) + unsettled

\* Every message that is delivered is eventually the subject of a request to
\* the AI, unless a step of its handling failed; and every result is
\* eventually handled.
DeliveredIsAsked ==
  \A m \in Messages : (delivered[m] > 0) ~> (asked[m] > 0 \/ m \in dropped)

ResultIsHandled ==
  \A m \in Messages : (results[m] # Nothing) ~> (results[m] = Nothing)

-----------------------------------------------------------------------------
(* What makes the invariants inductive.                                    *)

Results == [lead : Nat, intent : Intents \cup {Nothing}]

Outcomes == {"running", "completed", "waiting", "failed"}

\* The types, without what relates one variable to another.
IntakeTyped ==
  /\ leads \in Seq(Contacts)
  /\ convs \in Seq([lead : Nat, active : BOOLEAN])
  /\ rows \in [Messages -> Rows \cup {Nothing}]
  /\ connected \in BOOLEAN /\ dropped \subseteq Messages
  /\ circuit \in Breaker!Circuit
  /\ handlers \in [Handlers -> Handler]
  /\ \A h \in Handlers : handlers[h].at = "idle" <=> handlers[h].msg = Nothing
  /\ asked \in [Messages -> Nat]
  /\ most \in Nat

\* A handler that has found or created the lead knows one of the phone that
\* wrote; with the conversation it is the same.
Knows(h) ==
  LET k == handlers[h]
  IN  /\ k.at \in {"conversation", "newconversation", "store"} =>
           k.lead \in DOMAIN leads /\ leads[k.lead] = Sender[k.msg]
      /\ k.at = "store" => k.conv \in DOMAIN convs /\ convs[k.conv].lead = k.lead

\* The handler that stored the message of h, and has yet to ask.
HasStored(h) == handlers[h].at \in {"mark", "marking", "ask"}

\* One handler at most has stored a message, and it asks once.
IntakeInv ==
  /\ \A h \in Handlers : Knows(h)
  /\ \A i \in DOMAIN convs : convs[i].lead \in DOMAIN leads
  /\ \A m \in Messages :
       rows[m] # Nothing => /\ rows[m].lead \in DOMAIN leads /\ leads[rows[m].lead] = Sender[m]
                            /\ rows[m].conv \in DOMAIN convs /\ convs[rows[m].conv].lead = rows[m].lead
  /\ \A m \in Messages : asked[m] > 0 => asked[m] = 1 /\ rows[m] # Nothing
  /\ \A h \in Handlers : HasStored(h) => rows[handlers[h].msg] # Nothing /\ asked[handlers[h].msg] = 0
  /\ \A g, h \in Handlers : HasStored(g) /\ HasStored(h) /\ handlers[g].msg = handlers[h].msg => g = h

\* The handlers that are at work, those that are about to create a lead of a
\* phone, and those that are about to create a conversation of a lead.
AtWork == {h \in Handlers : ~At(h, "idle")}
LeadsToCome(p) == {h \in Handlers : At(h, "newlead") /\ Sender[handlers[h].msg] = p}
ConvsToCome(l) == {h \in Handlers : At(h, "newconversation") /\ handlers[h].lead = l}

\* Nobody begins to create a lead or a conversation once there is one.
DuplicatesInv ==
  /\ Cardinality(AtWork) <= most
  /\ \A p \in Contacts : Cardinality(LeadsOf(p)) + Cardinality(LeadsToCome(p)) <= most
  /\ \A l \in DOMAIN leads : Cardinality(ActiveOf(l)) + Cardinality(ConvsToCome(l)) <= most

\* The fields a consumer has are those of one that rests; what is in "flow" and
\* "state" is up to the workflows.
FlowTyped ==
  /\ results \in [Messages -> Results \cup {Nothing}]
  /\ consumers = [c \in Consumers |-> consumers[c]]
  /\ \A c \in Consumers :
       /\ DOMAIN consumers[c] = DOMAIN Orchestration!Resting
       /\ consumers[c].at \in Orchestration!Phases
       /\ consumers[c].msg \in Messages \cup {Nothing}
       /\ consumers[c].at = "idle" <=> consumers[c].msg = Nothing
       /\ consumers[c].visits \in 0..MaxIterations
       /\ consumers[c].at \in {"record", "prepare", "begin"} => consumers[c].visits = 0
       /\ consumers[c].at = "settle" => consumers[c].outcome \in {"completed", "waiting"}
  /\ executions \in [Messages -> Seq(Outcomes)]
  /\ replies \in [Messages -> Nat] /\ stored \in [Messages -> Nat]
  /\ unsettled \in Nat
  /\ answered \in [Messages -> Nat]
  /\ crashes \in 0..MaxCrashes

\* The result of m waits for an execution of its own.
Awaits(m) ==
  /\ results[m] # Nothing
  /\ \A c \in Consumers : consumers[c].msg = m => consumers[c].at \in {"record", "prepare", "begin"}

\* A result that no consumer has begun to execute was answered, or came back
\* after a stop, once more than it was executed; an execution that is under way
\* has sent no more than one message for each state it visited.
FlowInv ==
  /\ \A c \in Consumers : consumers[c].msg # Nothing => results[consumers[c].msg] # Nothing
  /\ \A c, d \in Consumers : consumers[c].msg # Nothing /\ consumers[c].msg = consumers[d].msg => c = d
  /\ \A m \in Messages :
       /\ answered[m] <= asked[m]
       /\ Len(executions[m]) <= answered[m] + crashes
       /\ Awaits(m) => Len(executions[m]) < answered[m] + crashes
       /\ stored[m] <= replies[m]
       /\ replies[m] <= Len(executions[m]) * MaxIterations
  /\ \A c \in Working :
       LET m == consumers[c].msg
       IN  /\ executions[m] # <<>>
           /\ executions[m][Len(executions[m])] = "running"
           /\ replies[m] + (IF consumers[c].at = "send" THEN 1 ELSE 0)
                <= (Len(executions[m]) - 1) * MaxIterations + consumers[c].visits
  /\ \A c \in Consumers : consumers[c].at = "save" => stored[consumers[c].msg] < replies[consumers[c].msg]

PipelineInv == IntakeTyped /\ IntakeInv /\ DuplicatesInv /\ FlowTyped /\ FlowInv /\ RunningIsWorkedOn
=============================================================================

--------------------------- MODULE WorkflowExecution ---------------------------
(***************************************************************************)
(* What happens to the AI's result for a message: the Kafka consumer       *)
(* (features/kafka/kafka-consumer.service.ts), the orchestrator, the       *)
(* resolver and the executor of features/orchestration, and the            *)
(* send_message action.                                                    *)
(*                                                                         *)
(* A consumer takes one result at a time.  Everything its handler throws   *)
(* is caught, so the offset moves on whatever happened; only a stop of the *)
(* process before the commit brings the result back.  The rows of          *)
(* workflow_executions stay behind.                                        *)
(*                                                                         *)
(* A workflow is a graph of named states.  Conditions are JavaScript over  *)
(* the context and may come out either way, so a state simply has a set of *)
(* states that may follow; the set holds "end" when no transition need     *)
(* match.  Of the actions only send_message changes what is modelled here; *)
(* the others either read or end in a send_message of their own.           *)
(***************************************************************************)
EXTENDS Naturals, Sequences, FiniteSets

CONSTANTS
  Messages, Consumers, Nothing,
  Intents,        \* what the AI takes a message for; "UNKNOWN" is one of them
  Assigned,       \* the workflow a business gave to an intent, or Nothing
  Default,        \* the workflow of the business's type for an intent, or Nothing
  Workflows,      \* each workflow: [initial, states]
  MaxIterations   \* states a workflow may visit

VARIABLES
  convs,       \* as in MessageIntake
  connected,   \* as in MessageIntake
  results,     \* results on the topic that are not committed: message -> [lead, intent]
  consumers,   \* what each consumer is doing
  executions,  \* workflow_executions of each message, in the order of creation
  replies,     \* messages sent to the contact on behalf of each message
  stored,      \* how many of them have a row
  unsettled    \* rows left at "running": their process stopped, or the last write failed

flowVars == <<results, consumers, executions, replies, stored, unsettled>>

Phases == {"idle", "record", "prepare", "begin", "visit", "send", "save", "follow", "settle", "fail", "commit"}

Resting == [at |-> "idle", msg |-> Nothing, conv |-> 0, flow |-> Nothing, state |-> "end",
            visits |-> 0, outcome |-> "running"]

FlowInit ==
  /\ results = [m \in Messages |-> Nothing]
  /\ consumers = [c \in Consumers |-> Resting]
  /\ executions = [m \in Messages |-> <<>>]
  /\ replies = [m \in Messages |-> 0]
  /\ stored = [m \in Messages |-> 0]
  /\ unsettled = 0

-----------------------------------------------------------------------------
(* The resolver.                                                           *)

\* The business's workflow for the intent, else its one for UNKNOWN, else the
\* default of its type for the intent, else that for UNKNOWN.
Resolve(intent) ==
  LET found == SelectSeq(<<Assigned[intent], Assigned["UNKNOWN"], Default[intent], Default["UNKNOWN"]>>,
                         LAMBDA w : w # Nothing)
  IN  IF found = <<>> THEN Nothing ELSE Head(found)

\* The conversation the reply goes to: the latest active one of the lead.
Latest(lead) ==
  LET active == {i \in DOMAIN convs : convs[i].lead = lead /\ convs[i].active}
  IN  IF active = {} THEN 0 ELSE CHOOSE i \in active : \A j \in active : j <= i

-----------------------------------------------------------------------------
(* The consumer.                                                           *)

Is(c, phase) == consumers[c].at = phase

To(c, phase) == consumers' = [consumers EXCEPT ![c].at = phase]

Msg(c) == consumers[c].msg

\* eachMessage: a result is taken and routed.
Take(c, m) ==
  /\ Is(c, "idle")
  /\ results[m] # Nothing
  /\ \A d \in Consumers : Msg(d) # m
  /\ consumers' = [consumers EXCEPT ![c] = [Resting EXCEPT !.at = "record", !.msg = m]]
  /\ UNCHANGED <<results, executions, replies, stored, unsettled>>

\* The activity is recorded, or not: the error is logged.  An ai.error event
\* ends there; a result goes to the global handler.
Record(c) ==
  /\ Is(c, "record")
  /\ To(c, IF results[Msg(c)].intent = Nothing THEN "commit" ELSE "prepare")
  /\ UNCHANGED <<results, executions, replies, stored, unsettled>>

\* processAiResult up to the executor: the lead's conversation, the channel's
\* account and the workflow must be there, or it throws.
Prepare(c) ==
  /\ Is(c, "prepare")
  /\ LET r == results[Msg(c)]
         conv == Latest(r.lead)
         flow == Resolve(r.intent)
     IN  IF conv # 0 /\ connected /\ flow # Nothing
         THEN consumers' = [consumers EXCEPT ![c].at = "begin", ![c].conv = conv, ![c].flow = flow]
         ELSE To(c, "commit")
  /\ UNCHANGED <<results, executions, replies, stored, unsettled>>

\* A row "running" is created and the workflow starts.
Begin(c) ==
  /\ Is(c, "begin")
  /\ executions' = [executions EXCEPT ![Msg(c)] = Append(@, "running")]
  /\ consumers' = [consumers EXCEPT ![c].at = "visit",
                                    ![c].state = Workflows[consumers[c].flow].initial]
  /\ UNCHANGED <<results, replies, stored, unsettled>>

\* Mutation: the limit is forgotten.
VisitForEver(c) ==
  /\ Is(c, "visit")
  /\ LET k == consumers[c]
         states == Workflows[k.flow].states
     IN  \/ k.state = "end" /\ consumers' = [consumers EXCEPT ![c].at = "settle", ![c].outcome = "completed"]
         \/ /\ k.state # "end"
            /\ k.state \notin DOMAIN states
            /\ To(c, "fail")
         \/ /\ k.state # "end"
            /\ k.state \in DOMAIN states
            /\ consumers' = [consumers EXCEPT ![c].at = IF states[k.state].kind = "action" THEN "send" ELSE "follow"]
  /\ UNCHANGED <<results, executions, replies, stored, unsettled>>

\* The head of the loop.  The limit is tested after the loop, so a workflow
\* that reaches its end with its last visit fails all the same.
Visit(c) ==
  /\ Is(c, "visit")
  /\ LET k == consumers[c]
         states == Workflows[k.flow].states
     IN  \/ /\ k.visits = MaxIterations
            /\ To(c, "fail")
         \/ /\ k.visits < MaxIterations
            /\ k.state = "end"
            /\ consumers' = [consumers EXCEPT ![c].at = "settle", ![c].outcome = "completed"]
         \/ /\ k.visits < MaxIterations
            /\ k.state # "end"
            /\ k.state \in DOMAIN states => states[k.state].kind = "parallel"
            /\ To(c, "fail")
         \/ /\ k.visits < MaxIterations
            /\ k.state \in DOMAIN states
            /\ states[k.state].kind # "parallel"
            /\ consumers' = [consumers EXCEPT ![c].visits = @ + 1,
                                              ![c].at = IF states[k.state].kind = "action" THEN "send" ELSE "follow"]
  /\ UNCHANGED <<results, executions, replies, stored, unsettled>>

\* send_message calls the platform.  A failure of an action is logged and the
\* workflow goes on; a condition may also skip the action.
Send(c) ==
  /\ Is(c, "send")
  /\ \/ replies' = [replies EXCEPT ![Msg(c)] = @ + 1] /\ To(c, "save")
     \/ UNCHANGED replies /\ To(c, "follow")
  /\ UNCHANGED <<results, executions, stored, unsettled>>

\* ... and stores what it sent, which may fail like the action itself.
Save(c) ==
  /\ Is(c, "save")
  /\ To(c, "follow")
  /\ \/ stored' = [stored EXCEPT ![Msg(c)] = @ + 1]
     \/ UNCHANGED stored
  /\ UNCHANGED <<results, executions, replies, unsettled>>

\* executeState: what may come after a state that does not wait.  The first
\* transition whose condition holds is taken, in the order of their priorities.
Following(s) == IF s.kind = "end" THEN {"end"} ELSE s.next

\* Mutation: a failed update of the row ends the execution without a word.
FollowLost(c) ==
  /\ Is(c, "follow")
  /\ LET s == Workflows[consumers[c].flow].states[consumers[c].state]
     IN  \/ To(c, "commit")
         \/ /\ s.kind = "wait"
            /\ consumers' = [consumers EXCEPT ![c].at = "settle", ![c].outcome = "waiting"]
         \/ /\ s.kind # "wait"
            /\ \E n \in Following(s) :
                 consumers' = [consumers EXCEPT ![c].at = "visit", ![c].state = n]
  /\ UNCHANGED <<results, executions, replies, stored, unsettled>>

\* The next state is determined and the row updated, which may fail.
Follow(c) ==
  /\ Is(c, "follow")
  /\ LET s == Workflows[consumers[c].flow].states[consumers[c].state]
     IN  \/ To(c, "fail")
         \/ /\ s.kind = "wait"
            /\ consumers' = [consumers EXCEPT ![c].at = "settle", ![c].outcome = "waiting"]
         \/ /\ s.kind # "wait"
            /\ \E n \in Following(s) :
                 consumers' = [consumers EXCEPT ![c].at = "visit", ![c].state = n]
  /\ UNCHANGED <<results, executions, replies, stored, unsettled>>

Last(m) == Len(executions[m])

\* completeExecution or markExecutionWaiting; when the write fails the catch
\* clause marks the execution as failed.
Settle(c) ==
  /\ Is(c, "settle")
  /\ \/ /\ executions' = [executions EXCEPT ![Msg(c)][Last(Msg(c))] = consumers[c].outcome]
        /\ To(c, "commit")
     \/ UNCHANGED executions /\ To(c, "fail")
  /\ UNCHANGED <<results, replies, stored, unsettled>>

\* failExecution; when that fails too the row stays "running" for ever.
Fails(c) ==
  /\ Is(c, "fail")
  /\ \/ /\ executions' = [executions EXCEPT ![Msg(c)][Last(Msg(c))] = "failed"]
        /\ UNCHANGED unsettled
     \/ /\ unsettled' = unsettled + 1
        /\ UNCHANGED executions
  /\ To(c, "commit")
  /\ UNCHANGED <<results, replies, stored>>

\* A statement before the execution exists fails: caught, like everything else.
Throws(c) ==
  /\ consumers[c].at \in {"prepare", "begin"}
  /\ To(c, "commit")
  /\ UNCHANGED <<results, executions, replies, stored, unsettled>>

\* eachMessage has returned: the offset moves past the result.
Commit(c) ==
  /\ Is(c, "commit")
  /\ results' = [results EXCEPT ![Msg(c)] = Nothing]
  /\ consumers' = [consumers EXCEPT ![c] = Resting]
  /\ UNCHANGED <<executions, replies, stored, unsettled>>

Work(c) ==
  \/ Record(c) \/ Prepare(c) \/ Begin(c) \/ Visit(c) \/ Send(c) \/ Save(c)
  \/ Follow(c) \/ Settle(c) \/ Fails(c) \/ Throws(c) \/ Commit(c)

\* The process stops.  Results that were not committed are delivered again; an
\* execution that was under way keeps its row.
FlowCrash ==
  /\ consumers' = [c \in Consumers |-> Resting]
  /\ unsettled' = unsettled
       + Cardinality({c \in Consumers : consumers[c].at \in {"visit", "send", "save", "follow", "settle", "fail"}})
  /\ UNCHANGED <<results, executions, replies, stored>>

Flow ==
  \/ \E c \in Consumers : Work(c)
  \/ \E c \in Consumers, m \in Messages : Take(c, m)
=============================================================================

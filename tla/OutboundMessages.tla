---------------------------- MODULE OutboundMessages ----------------------------
(***************************************************************************)
(* WhatsApp messages that go out, and what the platform says of them later *)
(* (sendMessage and handleStatusWebhook of features/whatsapp/              *)
(* whatsapp.service.ts, the send_message action of features/orchestration).*)
(*                                                                         *)
(* A message of the desk (POST whatsapp/messages/...) goes through the     *)
(* circuit of its phone number and is stored only if the answer has a      *)
(* messageId, a field the platform's answers do not have; a message of a   *)
(* workflow passes no circuit and is stored after it was sent.  A status   *)
(* is written to the rows that have its message id, in whatever order the  *)
(* webhooks are handled, one statement for each.                           *)
(***************************************************************************)
EXTENDS Naturals, SequencesExt

CONSTANTS
  DeskPosts, FlowPosts,  \* messages by where they come from
  NoRow,
  MaxNotices,            \* bound: statuses that are handled
  FailureThreshold, SuccessThreshold, ResetAfter

Breaker == INSTANCE CircuitBreaker

Posts == DeskPosts \cup FlowPosts

VARIABLES
  posting,      \* how far the sending of each message has come
  outRows,      \* its row of lead_messages, or NoRow
  progress,     \* statuses the platform has reached for it, in order
  notices,      \* those that were handled, in the order they were
  early,        \* messages with a status that was handled before there was a row
  sendCircuit

postVars == <<posting, outRows, progress, notices, early, sendCircuit>>

\* The statuses a message may go through, one after the other.
Courses == {<<"sent", "delivered", "read">>, <<"sent", "failed">>, <<"failed">>}

Row == [status : {"sent", "delivered", "read", "failed"}, deliveredAt : BOOLEAN, readAt : BOOLEAN, reason : BOOLEAN]

NewRow == [status |-> "sent", deliveredAt |-> FALSE, readAt |-> FALSE, reason |-> FALSE]

Steps(p, to) == posting' = [posting EXCEPT ![p] = to]

-----------------------------------------------------------------------------
\* The account is found and the circuit lets the call through, or not.
Post(p) ==
  /\ posting[p] = "new"
  /\ IF p \in FlowPosts THEN Steps(p, "calling") /\ UNCHANGED sendCircuit
     ELSE IF Breaker!Refuses(sendCircuit) THEN Steps(p, "blocked") /\ UNCHANGED sendCircuit
     ELSE Steps(p, "calling") /\ sendCircuit' = Breaker!Entered(sendCircuit)
  /\ UNCHANGED <<outRows, progress, notices, early>>

\* The platform takes the message, and the answer arrives.
Accepted(p) ==
  /\ posting[p] = "calling"
  /\ IF p \in FlowPosts THEN Steps(p, "save") /\ UNCHANGED sendCircuit
     ELSE Steps(p, "done") /\ sendCircuit' = Breaker!Good(sendCircuit)
  /\ UNCHANGED <<outRows, progress, notices, early>>

\* It does not, or the answer does not arrive.
Refused(p) ==
  /\ posting[p] = "calling"
  /\ Steps(p, "failed")
  /\ sendCircuit' = IF p \in DeskPosts THEN Breaker!Bad(sendCircuit) ELSE sendCircuit
  /\ UNCHANGED <<outRows, progress, notices, early>>

\* The action stores what it sent.
StorePost(p) ==
  /\ posting[p] = "save"
  /\ \/ Steps(p, "done") /\ outRows' = [outRows EXCEPT ![p] = NewRow]
     \/ Steps(p, "unsaved") /\ UNCHANGED outRows
  /\ UNCHANGED <<progress, notices, early, sendCircuit>>

WaitOver ==
  /\ sendCircuit.recent /\ sendCircuit' = [sendCircuit EXCEPT !.recent = FALSE]
  /\ UNCHANGED <<posting, outRows, progress, notices, early>>

-----------------------------------------------------------------------------
\* The platform gets on with a message it has, also with one whose answer was
\* lost or has not arrived.
Proceeds(p) ==
  /\ posting[p] \notin {"new", "blocked"}
  /\ \E course \in Courses :
       /\ IsStrictPrefix(progress[p], course)
       /\ progress' = [progress EXCEPT ![p] = SubSeq(course, 1, Len(@) + 1)]
  /\ UNCHANGED <<posting, outRows, notices, early, sendCircuit>>

\* Mutation: a row that has a status keeps it.
NotedOnce(row, status) ==
  IF row.status # "sent" THEN row
  ELSE [row EXCEPT !.status = status, !.deliveredAt = @ \/ status = "delivered", !.readAt = @ \/ status = "read", !.reason = @ \/ status = "failed"]

\* The row after a status, whichever it had.
Noted(row, status) ==
  [row EXCEPT !.status = status,
              !.deliveredAt = @ \/ status = "delivered",
              !.readAt = @ \/ status = "read",
              !.reason = @ \/ status = "failed"]

\* handleStatusWebhook, for any status that was reached, late or repeated.
HandleStatus(p) ==
  /\ FoldFunction(LAMBDA seq, n : Len(seq) + n, 0, notices) < MaxNotices
  /\ \E i \in DOMAIN progress[p] :
       /\ notices' = [notices EXCEPT ![p] = Append(@, progress[p][i])]
       /\ IF outRows[p] = NoRow THEN early' = early \cup {p} /\ UNCHANGED outRows
          ELSE outRows' = [outRows EXCEPT ![p] = Noted(@, progress[p][i])] /\ UNCHANGED early
  /\ UNCHANGED <<posting, progress, sendCircuit>>

Init ==
  /\ posting = [p \in Posts |-> "new"]
  /\ outRows = [p \in Posts |-> NoRow]
  /\ progress = [p \in Posts |-> <<>>]
  /\ notices = [p \in Posts |-> <<>>]
  /\ early = {}
  /\ sendCircuit = Breaker!Fresh

Send(p) == Post(p) \/ Accepted(p) \/ Refused(p) \/ StorePost(p)

Next ==
  \/ WaitOver
  \/ \E p \in Posts : Send(p) \/ Proceeds(p) \/ HandleStatus(p)

Spec == Init /\ [][Next]_postVars

-----------------------------------------------------------------------------
TypeOK ==
  /\ sendCircuit \in Breaker!Circuit
  /\ \A p \in Posts : outRows[p] \in Row \cup {NoRow}
  /\ \A p \in Posts : outRows[p] # NoRow => posting[p] = "done" /\ p \in FlowPosts

\* Statuses that are handled in the order the platform reached them, and none
\* before the row was there, leave a row that shows the furthest of them
\* (handleStatusWebhook); no order of them loses that a message was read.
ShownIsFurthest ==
  \A p \in Posts :
    outRows[p] # NoRow /\ p \notin early =>
      /\ outRows[p].readAt = \E i \in DOMAIN notices[p] : notices[p][i] = "read"
      /\ notices[p] # <<>> /\ IsPrefix(notices[p], progress[p])
           => outRows[p].status = Last(notices[p])
=============================================================================

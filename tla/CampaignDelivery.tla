--------------------------- MODULE CampaignDelivery ---------------------------
(***************************************************************************)
(* One campaign: CampaignService, which turns the audience into recipients *)
(* and jobs, the BullMQ queue campaign-messages, and                       *)
(* CampaignMessageProcessor, which works on up to ten jobs at a time and   *)
(* decides from two counters when the campaign is complete.                *)
(*                                                                         *)
(* A contact is its phone number.  A recipient row belongs to the request  *)
(* that created it, so two requests to send make two rows of one contact.  *)
(***************************************************************************)
EXTENDS Integers, FiniteSets

CONSTANTS
    Phones,     \* the contacts of the business
    Customers,  \* those that may be customers; all may be leads
    Senders,    \* requests to send the campaign
    Editors,    \* processes that update or delete it
    NewStatuses,\* the statuses the updates ask for
    Attempts,   \* attempts of a job, 3 in the code
    BatchSize   \* jobs added to the queue at once, 100 in the code

ASSUME CampaignAssumption ==
    /\ IsFiniteSet(Phones) /\ Customers \subseteq Phones /\ IsFiniteSet(Senders)
    /\ Attempts \in Nat \ {0} /\ BatchSize \in Nat \ {0}

VARIABLES
    status,     \* campaigns.status
    total,      \* campaigns.total_recipients
    sentCount,  \* campaigns.sent_count
    failedCount,\* campaigns.failed_count
    leads,      \* the phones of the active leads
    customers,  \* the phones of the customers
    sender,     \* where each request to send is
    target,     \* the audience it has read
    editor,     \* what each editor has checked and is about to write
    row,        \* campaign_recipients.status, "none" while there is no row
    job,        \* the job of each row
    delivered   \* the messages WhatsApp has delivered for each row

campaign == <<status, total, sentCount, failedCount>>
people == <<leads, customers>>
requests == <<sender, target>>
vars == <<campaign, people, requests, editor, row, job, delivered>>

CampaignStatus == {"draft", "scheduled", "sending", "sent", "completed", "failed", "cancelled"}

ASSUME StatusAssumption == NewStatuses \subseteq CampaignStatus

Rows == Senders \X Phones
RowOf(s, c) == <<s, c>>

NoJob == [at |-> "none", tries |-> 0, stalled |-> FALSE, left |-> {}]

\* A job that is over; what was counted of its attempts is not asked again.
Over(at) == [NoJob EXCEPT !.at = at]

\* left: the writes of Promise.all that are still to be done.
Job == [at : {"none", "waiting", "send", "sent", "refused", "check",
              "complete", "caught", "done", "failed"},
        tries : 0..(Attempts - 1), stalled : BOOLEAN, left : SUBSET {"row", "count"}]

TypeOK ==
    /\ status \in CampaignStatus
    /\ total \in Nat /\ sentCount \in Nat /\ failedCount \in Nat
    /\ leads \subseteq Phones /\ customers \subseteq Customers
    /\ sender \in [Senders -> {"idle", "checked", "claimed", "rows", "queue", "done", "stopped"}]
    /\ target \in [Senders -> SUBSET Phones]
    /\ editor \in [Editors -> {"idle", "update", "delete"}]
    /\ row \in [Rows -> {"none", "pending", "queued", "sent", "failed"}]
    /\ job \in [Rows -> Job]
    /\ delivered \in [Rows -> Nat]

-------------------------------------------------------------------------------
(* AudienceSegmentationService, for audience type "all"                    *)

\* previewAudienceCount: the customers among the leads count twice.
PreviewCount == Cardinality(leads) + Cardinality(customers)

\* getAudience: one entry for each phone number.
Audience == leads \cup customers

\* createCampaign: the count is taken when the campaign is created.
Init ==
    /\ status \in {"draft", "scheduled"}
    /\ leads \in SUBSET Phones /\ customers \in SUBSET Customers
    /\ total = PreviewCount
    /\ total > 0
    /\ sentCount = 0 /\ failedCount = 0
    /\ sender = [s \in Senders |-> "idle"]
    /\ target = [s \in Senders |-> {}]
    /\ editor = [e \in Editors |-> "idle"]
    /\ row = [r \in Rows |-> "none"]
    /\ job = [r \in Rows |-> NoJob]
    /\ delivered = [r \in Rows |-> 0]

\* Leads come and go, customers come.
PeopleChange ==
    /\ leads' \in SUBSET Phones
    /\ customers' \in SUBSET Customers /\ customers \subseteq customers'
    /\ UNCHANGED <<campaign, requests, editor, row, job, delivered>>

-------------------------------------------------------------------------------
(* sendCampaign                                                            *)

SenderGoes(s, from, to) == sender[s] = from /\ sender' = [sender EXCEPT ![s] = to]

SendCheck(s) ==
    /\ SenderGoes(s, "idle", "checked")
    /\ status \in {"draft", "scheduled"}
    /\ UNCHANGED <<campaign, people, target, editor, row, job, delivered>>

SendClaim(s) ==
    /\ SenderGoes(s, "checked", "claimed")
    /\ status' = "sending"
    /\ UNCHANGED <<total, sentCount, failedCount, people, target, editor, row, job, delivered>>

SendAudience(s) ==
    /\ SenderGoes(s, "claimed", "rows")
    /\ target' = [target EXCEPT ![s] = Audience]
    /\ UNCHANGED <<campaign, people, editor, row, job, delivered>>

\* lead_id refers to a lead: the row of a customer without one is refused.
HasLead(c) == c \in leads

CreateRows(s, C) ==
    row' = [r \in Rows |-> IF r[1] = s /\ r[2] \in C THEN "pending" ELSE row[r]]

SendRows(s) ==
    /\ SenderGoes(s, "rows", "queue")
    /\ \A c \in target[s] : HasLead(c)
    /\ CreateRows(s, target[s])
    /\ UNCHANGED <<campaign, people, target, editor, job, delivered>>

\* Promise.all throws for the row that is refused; the others stay.
SendRowsRefused(s) ==
    /\ SenderGoes(s, "rows", "stopped")
    /\ \E c \in target[s] : ~HasLead(c)
    /\ CreateRows(s, {c \in target[s] : HasLead(c)})
    /\ UNCHANGED <<campaign, people, target, editor, job, delivered>>

\* Mutation: every batch starts from the first recipient again.
EveryBatch(s) == target[s]

Unqueued(s) == {c \in target[s] : job[RowOf(s, c)] = NoJob}

AddJobs(s, C) ==
    job' = [r \in Rows |-> IF r[1] = s /\ r[2] \in C THEN [NoJob EXCEPT !.at = "waiting"] ELSE job[r]]

\* Mutation: the last batch is left out.
SendWholeBatches(s) ==
    /\ sender[s] = "queue"
    /\ \E C \in SUBSET Unqueued(s) :
          /\ IF Cardinality(Unqueued(s)) <= BatchSize
             THEN C = {} /\ SenderGoes(s, "queue", "done")
             ELSE Cardinality(C) = BatchSize /\ UNCHANGED sender
          /\ AddJobs(s, C)
    /\ UNCHANGED <<campaign, people, target, editor, row, delivered>>

\* addBulk, batch by batch.
SendQueue(s) ==
    /\ sender[s] = "queue"
    /\ \E C \in SUBSET Unqueued(s) :
          /\ IF Cardinality(Unqueued(s)) <= BatchSize
             THEN C = Unqueued(s) /\ SenderGoes(s, "queue", "done")
             ELSE Cardinality(C) = BatchSize /\ UNCHANGED sender
          /\ AddJobs(s, C)
    /\ UNCHANGED <<campaign, people, target, editor, row, delivered>>

\* A statement fails or the process stops, with some of the rows created.
SendStops(s) ==
    /\ \/ /\ \E at \in {"checked", "claimed", "queue"} : SenderGoes(s, at, "stopped")
          /\ UNCHANGED row
       \/ /\ SenderGoes(s, "rows", "stopped")
          /\ \E C \in SUBSET {c \in target[s] : HasLead(c)} : CreateRows(s, C)
    /\ UNCHANGED <<campaign, people, target, editor, job, delivered>>

-------------------------------------------------------------------------------
(* updateCampaign and deleteCampaign                                       *)

EditorGoes(e, from, to) == editor[e] = from /\ editor' = [editor EXCEPT ![e] = to]

UpdateCheck(e) ==
    /\ EditorGoes(e, "idle", "update")
    /\ status \notin {"sending", "sent", "completed"}
    /\ UNCHANGED <<campaign, people, requests, row, job, delivered>>

\* The request may name any status.
UpdateWrite(e) ==
    /\ EditorGoes(e, "update", "idle")
    /\ status' \in NewStatuses
    /\ UNCHANGED <<total, sentCount, failedCount, people, requests, row, job, delivered>>

DeleteCheck(e) ==
    /\ EditorGoes(e, "idle", "delete")
    /\ status # "sending"
    /\ UNCHANGED <<campaign, people, requests, row, job, delivered>>

DeleteWrite(e) ==
    /\ EditorGoes(e, "delete", "idle")
    /\ status' = "cancelled"
    /\ UNCHANGED <<total, sentCount, failedCount, people, requests, row, job, delivered>>

-------------------------------------------------------------------------------
(* CampaignMessageProcessor.process, one row's job at a time               *)

\* The job of row r goes on from one point to another, with nothing left.
Goes(r, from, to) ==
    /\ job[r].at = from
    /\ job' = [job EXCEPT ![r].at = to, ![r].left = {}]

Ends(r, from) == job[r].at = from /\ job' = [job EXCEPT ![r] = Over("done")]

SetRow(r, s) == row' = [row EXCEPT ![r] = s]

JobStart(r) ==
    /\ Goes(r, "waiting", "send")
    /\ SetRow(r, "queued")
    /\ UNCHANGED <<campaign, people, requests, editor, delivered>>

Deliver(r) == delivered' = [delivered EXCEPT ![r] = @ + 1]

BothWrites(r, to) ==
    /\ job[r].at = "send"
    /\ job' = [job EXCEPT ![r].at = to, ![r].left = {"row", "count"}]

\* Mutation: what WhatsApp refuses is booked as sent.
JobSendBlind(r) ==
    /\ BothWrites(r, "sent")
    /\ Deliver(r) \/ UNCHANGED delivered
    /\ UNCHANGED <<campaign, people, requests, editor, row>>

\* The sender turns every exception into a refusal.
JobSend(r) ==
    /\ \/ BothWrites(r, "sent") /\ Deliver(r)
       \/ BothWrites(r, "refused") /\ UNCHANGED delivered
    /\ UNCHANGED <<campaign, people, requests, editor, row>>

\* The answer to a delivery is lost.
JobSendLost(r) ==
    /\ BothWrites(r, "refused")
    /\ Deliver(r)
    /\ UNCHANGED <<campaign, people, requests, editor, row>>

\* One of the two writes is done; after both the campaign is looked at.
Wrote(r, w) ==
    /\ w \in job[r].left
    /\ job' = [job EXCEPT ![r].left = @ \ {w}, ![r].at = IF job[r].left = {w} THEN "check" ELSE @]

JobWriteRow(r) ==
    /\ Wrote(r, "row")
    /\ SetRow(r, IF job[r].at = "sent" THEN "sent" ELSE "failed")
    /\ UNCHANGED <<campaign, people, requests, editor, delivered>>

JobWriteCount(r) ==
    /\ Wrote(r, "count")
    /\ IF job[r].at = "sent"
       THEN sentCount' = sentCount + 1 /\ UNCHANGED failedCount
       ELSE failedCount' = failedCount + 1 /\ UNCHANGED sentCount
    /\ UNCHANGED <<status, total, people, requests, editor, row, delivered>>

\* Mutation: one message less is enough.
CompletesEarly == sentCount + failedCount + 1 >= total

\* Mutation: one message more is awaited.
CompletesLate == sentCount + failedCount > total

\* The counters are read, whatever the rows say.
Completes == sentCount + failedCount >= total

JobCheck(r) ==
    /\ IF Completes THEN Goes(r, "check", "complete") ELSE Ends(r, "check")
    /\ UNCHANGED <<campaign, people, requests, editor, row, delivered>>

JobComplete(r) ==
    /\ Ends(r, "complete")
    /\ status' = "completed"
    /\ UNCHANGED <<total, sentCount, failedCount, people, requests, editor, row, delivered>>

\* A statement of the job fails.
JobThrows(r) ==
    /\ \E at \in {"waiting", "send", "sent", "refused", "check", "complete"} : Goes(r, at, "caught")
    /\ UNCHANGED <<campaign, people, requests, editor, row, delivered>>

\* Mutation: the attempts are not counted.
RetryUncounted(r) ==
    /\ job[r].at = "caught"
    /\ job' = [job EXCEPT ![r].at = "waiting"]

\* Mutation: one attempt more.
RetryOnceMore(r) ==
    /\ job[r].at = "caught"
    /\ LET n == job[r].tries + 1
       IN  job' = [job EXCEPT ![r] =
                     IF n <= Attempts THEN [@ EXCEPT !.at = "waiting", !.tries = n]
                     ELSE Over("failed")]

Retry(r) ==
    /\ job[r].at = "caught"
    /\ LET n == job[r].tries + 1
       IN  job' = [job EXCEPT ![r] =
                     IF n < Attempts THEN [@ EXCEPT !.at = "waiting", !.tries = n]
                     ELSE Over("failed")]

\* The catch clause sets the row to failed, or fails too, and BullMQ tries
\* again as long as attempts remain.
JobCaught(r) ==
    /\ Retry(r)
    /\ SetRow(r, "failed") \/ UNCHANGED row
    /\ UNCHANGED <<campaign, people, requests, editor, delivered>>

\* The process stops in the middle of the job: BullMQ gives it to a worker
\* once more without counting it as an attempt.
JobStalls(r) ==
    /\ job[r].at \notin {"none", "waiting", "done", "failed"}
    /\ job' = [job EXCEPT ![r] =
                  IF job[r].stalled THEN Over("failed")
                  ELSE [@ EXCEPT !.at = "waiting", !.stalled = TRUE, !.left = {}]]
    /\ UNCHANGED <<campaign, people, requests, editor, row, delivered>>

-------------------------------------------------------------------------------
Send(s) == SendCheck(s) \/ SendClaim(s) \/ SendAudience(s) \/ SendRows(s)
           \/ SendRowsRefused(s) \/ SendQueue(s)

Work(r) ==
    \/ JobStart(r) \/ JobSend(r) \/ JobWriteRow(r) \/ JobWriteCount(r)
    \/ JobCheck(r) \/ JobComplete(r)

Edit(e) == UpdateCheck(e) \/ UpdateWrite(e) \/ DeleteCheck(e) \/ DeleteWrite(e)

Next ==
    \/ PeopleChange
    \/ \E s \in Senders : Send(s) \/ SendStops(s)
    \/ \E e \in Editors : Edit(e)
    \/ \E r \in Rows : Work(r) \/ JobSendLost(r) \/ JobThrows(r) \/ JobCaught(r) \/ JobStalls(r)

Spec == Init /\ [][Next]_vars

\* Nobody comes or goes, nobody edits, and nothing fails.
SteadyNext == (\E s \in Senders : Send(s)) \/ (\E r \in Rows : Work(r))

\* Node goes on with its requests and BullMQ with its jobs.
SteadySpec ==
    /\ Init /\ [][SteadyNext]_vars
    /\ \A s \in Senders : WF_vars(Send(s))
    /\ \A r \in Rows : WF_vars(Work(r))

-------------------------------------------------------------------------------
(* Properties                                                              *)

\* The single items that f counts for the rows, so that adding up is counting.
Items(f) == {x \in Rows \X (1..(Attempts + 1)) : x[2] <= f[x[1]]}

Sum(f) == Cardinality(Items(f))

\* "Number of messages successfully sent": sent_count never claims a message
\* that was not delivered, whatever fails and however many requests there are.
SentIsDelivered == sentCount <= Sum(delivered)

\* A retry sends the message again: a contact gets it at most once for each
\* attempt, and once more for a worker that stopped.
DeliveredWithinAttempts == \A r \in Rows : delivered[r] <= Attempts + 1

Processed(r) == job[r].at \notin {"none", "waiting", "send"}

\* "If all recipients have been processed": a completed campaign has nobody
\* of its audience left.
CompletedIsProcessed ==
    status = "completed" =>
        \A s \in Senders : \A c \in target[s] : Processed(RowOf(s, c))

\* Nothing failing, nobody gets the message twice, and who is booked as sent
\* got it.
MessagedOnce == \A r \in Rows : delivered[r] <= 1 /\ (row[r] = "sent" => delivered[r] = 1)

\* "Send campaign immediately to all recipients": what a request has read as
\* its audience is processed in the end.
AllProcessed ==
    \A s \in Senders, c \in Phones :
        (sender[s] = "rows" /\ c \in target[s]) ~> (row[RowOf(s, c)] \in {"sent", "failed"})

\* "Check if campaign is complete and update status": a campaign that was
\* sent is completed in the end.
CampaignCompletes == (status = "sending") ~> (status = "completed")

-------------------------------------------------------------------------------
(* What makes the properties inductive                                     *)

\* Writes are left to be done only after the send.
WritesFollowSend == \A r \in Rows : job[r].left # {} => job[r].at \in {"sent", "refused"}

\* How often the message of a row can have been sent: once for each attempt
\* that is over, once for a stop, and once for the attempt that is going on.
Sendings(r) ==
    IF job[r].at = "none" THEN 0
    ELSE IF job[r].at \in {"done", "failed"} THEN Attempts + 1
    ELSE job[r].tries + (IF job[r].stalled THEN 1 ELSE 0)
         + (IF job[r].at \in {"waiting", "send"} THEN 0 ELSE 1)

\* The rows whose delivery is still to be counted.
Uncounted == {r \in Rows : job[r].at = "sent" /\ "count" \in job[r].left}

DeliveryInv ==
    /\ TypeOK
    /\ WritesFollowSend
    /\ \A r \in Rows : delivered[r] <= Sendings(r)
    /\ sentCount + Cardinality(Uncounted) <= Sum(delivered)

\* With nothing failing a job is worked on once: what is before the send is
\* not delivered, and what is after it, once at most.
OnceInv ==
    /\ TypeOK
    /\ WritesFollowSend
    /\ \A s \in Senders, c \in Phones :
          sender[s] \in {"idle", "checked", "claimed", "rows"} => job[RowOf(s, c)] = NoJob
    /\ \A r \in Rows :
          /\ job[r].at \notin {"caught", "failed"}
          /\ ~Processed(r) => delivered[r] = 0 /\ row[r] # "sent"
          /\ job[r].at = "sent" => delivered[r] = 1
    /\ MessagedOnce

\* The rows that were counted, as sent or as failed.
Counted == {r \in Rows : Processed(r) /\ "count" \notin job[r].left}

\* With one request, the counters count rows of its audience, and no more
\* people are in it than the campaign was created for.
CompletionInv ==
    /\ OnceInv
    /\ total = PreviewCount /\ total > 0
    /\ sentCount + failedCount = Cardinality(Counted)
    /\ \A s \in Senders :
          /\ target[s] \subseteq Audience
          /\ sender[s] \in {"idle", "checked", "claimed"} => target[s] = {}
          /\ \A c \in Phones : job[RowOf(s, c)] # NoJob => c \in target[s]
    /\ (status = "completed" \/ \E r \in Rows : job[r].at = "complete") => Completes

===============================================================================

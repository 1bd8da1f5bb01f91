------------------------ MODULE CampaignDelivery_proofs ------------------------
(***************************************************************************)
(* Proofs about CampaignDelivery, for any number of contacts, requests,    *)
(* editors and attempts and any size of the batches.                       *)
(***************************************************************************)
EXTENDS CampaignDelivery, FiniteSetTheorems, TLAPS

-------------------------------------------------------------------------------
(* Steps and types                                                         *)

\* The steps of the campaign, one disjunct per action.
LEMMA NextCases ==
    ASSUME Next
    PROVE  \/ PeopleChange
           \/ \E s \in Senders :
                \/ SendCheck(s) \/ SendClaim(s) \/ SendAudience(s) \/ SendRows(s)
                \/ SendRowsRefused(s) \/ SendQueue(s) \/ SendStops(s)
           \/ \E e \in Editors :
                UpdateCheck(e) \/ UpdateWrite(e) \/ DeleteCheck(e) \/ DeleteWrite(e)
           \/ \E r \in Rows :
                \/ JobStart(r) \/ JobSend(r) \/ JobWriteRow(r) \/ JobWriteCount(r)
                \/ JobCheck(r) \/ JobComplete(r) \/ JobSendLost(r) \/ JobThrows(r)
                \/ JobCaught(r) \/ JobStalls(r)
  BY DEF Next, Send, Edit, Work

LEMMA PeopleFinite ==
    ASSUME TypeOK
    PROVE  /\ IsFiniteSet(leads) /\ IsFiniteSet(customers) /\ IsFiniteSet(Rows)
           /\ PreviewCount \in Nat
<1>1. IsFiniteSet(leads) /\ IsFiniteSet(customers)
  BY CampaignAssumption, FS_Subset DEF TypeOK
<1>2. IsFiniteSet(Rows)
  BY CampaignAssumption, FS_Product DEF Rows
<1>3. PreviewCount \in Nat
  BY <1>1, FS_CardinalityType DEF PreviewCount
<1> QED BY <1>1, <1>2, <1>3

LEMMA InitTypeOK == Init => TypeOK
<1> SUFFICES ASSUME Init PROVE TypeOK
  OBVIOUS
<1>1. leads \subseteq Phones /\ customers \subseteq Customers
  BY DEF Init
<1>2. IsFiniteSet(leads) /\ IsFiniteSet(customers)
  BY <1>1, CampaignAssumption, FS_Subset
<1>3. total \in Nat
  BY <1>2, FS_CardinalityType DEF Init, PreviewCount
<1>4. NoJob \in Job
  BY CampaignAssumption DEF NoJob, Job
<1> QED BY <1>1, <1>3, <1>4 DEF Init, TypeOK, CampaignStatus

JobPoint == {"none", "waiting", "send", "sent", "refused", "check", "complete", "caught",
             "done", "failed"}

\* A job that is new or over.
LEMMA OverValues ==
    ASSUME NEW at \in JobPoint
    PROVE  Over(at) \in Job /\ Over(at).at = at /\ Over(at).left = {} /\ NoJob \in Job
<1>1. NoJob \in Job
  BY CampaignAssumption DEF Job, NoJob
<1>2. Over(at).at = at /\ Over(at).left = {}
  BY DEF Over, NoJob
<1>3. Over(at) \in Job
  BY <1>1 DEF Over, Job, JobPoint
<1> QED BY <1>1, <1>2, <1>3

\* A job that goes on.
LEMMA JobValues ==
    ASSUME NEW j \in Job, NEW at \in JobPoint, NEW l \in SUBSET {"row", "count"}
    PROVE  [j EXCEPT !.at = at, !.left = l] \in Job
  BY DEF Job, JobPoint

LEMMA BothWritesValues ==
    ASSUME TypeOK, NEW r \in Rows, NEW to \in JobPoint, BothWrites(r, to)
    PROVE  \E j \in Job : /\ j.at = to /\ j.left = {"row", "count"}
                          /\ j.tries = job[r].tries /\ j.stalled = job[r].stalled
                          /\ job' = [job EXCEPT ![r] = j]
<1> DEFINE j == [job[r] EXCEPT !.at = to, !.left = {"row", "count"}]
<1>1. job[r] \in Job
  BY DEF TypeOK
<1>2. j \in Job
  BY <1>1, JobValues
<1>3. job' = [job EXCEPT ![r] = j]
  BY DEF TypeOK, BothWrites
<1>4. /\ j.at = to /\ j.left = {"row", "count"}
      /\ j.tries = job[r].tries /\ j.stalled = job[r].stalled
  BY <1>1 DEF Job
<1> QED BY <1>2, <1>3, <1>4

LEMMA GoesValues ==
    ASSUME TypeOK, NEW r \in Rows, NEW from, NEW to \in JobPoint, Goes(r, from, to)
    PROVE  \E j \in Job : /\ j.at = to /\ j.left = {}
                          /\ j.tries = job[r].tries /\ j.stalled = job[r].stalled
                          /\ job' = [job EXCEPT ![r] = j]
<1> DEFINE j == [job[r] EXCEPT !.at = to, !.left = {}]
<1>1. job[r] \in Job
  BY DEF TypeOK
<1>2. j \in Job
  BY <1>1, JobValues
<1>3. job' = [job EXCEPT ![r] = j]
  BY DEF TypeOK, Goes
<1>4. /\ j.at = to /\ j.left = {} /\ j.tries = job[r].tries /\ j.stalled = job[r].stalled
  BY <1>1 DEF Job
<1> QED BY <1>2, <1>3, <1>4

LEMMA NextTypeOK == TypeOK /\ [Next]_vars => TypeOK'
<1> SUFFICES ASSUME TypeOK, [Next]_vars PROVE TypeOK'
  OBVIOUS
<1> USE CampaignAssumption, StatusAssumption
        DEF TypeOK, campaign, people, requests, CampaignStatus
<1>1. CASE PeopleChange
  BY <1>1 DEF PeopleChange
<1>2. ASSUME NEW s \in Senders,
             SendCheck(s) \/ SendClaim(s) \/ SendAudience(s) \/ SendRows(s)
             \/ SendRowsRefused(s) \/ SendStops(s)
      PROVE  TypeOK'
  <2>1. UNCHANGED <<total, sentCount, failedCount, leads, customers, editor, job, delivered>>
    BY <1>2 DEF SendCheck, SendClaim, SendAudience, SendRows, SendRowsRefused, SendStops
  <2>2. status' \in CampaignStatus
    BY <1>2 DEF SendCheck, SendClaim, SendAudience, SendRows, SendRowsRefused, SendStops
  <2>3. sender' \in [Senders -> {"idle", "checked", "claimed", "rows", "queue", "done", "stopped"}]
    BY <1>2 DEF SendCheck, SendClaim, SendAudience, SendRows, SendRowsRefused, SendStops,
                SenderGoes
  <2>4. target' \in [Senders -> SUBSET Phones]
    BY <1>2 DEF SendCheck, SendClaim, SendAudience, SendRows, SendRowsRefused, SendStops,
                Audience
  <2>5. row' = row \/ \E C : CreateRows(s, C)
    <3>1. CASE SendStops(s)
      BY <3>1 DEF SendStops
    <3>2. CASE SendRows(s) \/ SendRowsRefused(s)
      BY <3>2 DEF SendRows, SendRowsRefused
    <3>3. CASE SendCheck(s) \/ SendClaim(s) \/ SendAudience(s)
      BY <3>3 DEF SendCheck, SendClaim, SendAudience
    <3> QED BY <1>2, <3>1, <3>2, <3>3
  <2>6. row' \in [Rows -> {"none", "pending", "queued", "sent", "failed"}]
    BY <2>5 DEF CreateRows
  <2> QED BY <2>1, <2>2, <2>3, <2>4, <2>6
<1>3. ASSUME NEW s \in Senders, SendQueue(s)
      PROVE  TypeOK'
  <2>1. PICK C : AddJobs(s, C)
    BY <1>3 DEF SendQueue
  <2>2. [NoJob EXCEPT !.at = "waiting"] \in Job
    BY OverValues DEF Over, JobPoint
  <2>3. job' \in [Rows -> Job]
    BY <2>1, <2>2 DEF AddJobs
  <2>4. sender' \in [Senders -> {"idle", "checked", "claimed", "rows", "queue", "done", "stopped"}]
    BY <1>3 DEF SendQueue, SenderGoes
  <2> QED BY <1>3, <2>3, <2>4 DEF SendQueue
<1>4. ASSUME NEW e \in Editors, UpdateCheck(e) \/ UpdateWrite(e) \/ DeleteCheck(e) \/ DeleteWrite(e)
      PROVE  TypeOK'
  BY <1>4 DEF UpdateCheck, UpdateWrite, DeleteCheck, DeleteWrite, EditorGoes
<1>5. ASSUME NEW r \in Rows,
             JobStart(r) \/ JobSend(r) \/ JobSendLost(r) \/ JobCheck(r) \/ JobComplete(r)
             \/ JobThrows(r)
      PROVE  TypeOK'
  <2>1. \/ \E at \in {"send", "sent", "refused", "complete", "caught"}, l \in SUBSET {"row", "count"} :
             job' = [job EXCEPT ![r].at = at, ![r].left = l]
        \/ job' = [job EXCEPT ![r] = Over("done")]
    BY <1>5 DEF JobStart, JobSend, JobSendLost, JobCheck, JobComplete, JobThrows, Goes, Ends,
                BothWrites
  <2>2. job' \in [Rows -> Job]
    <3>1. CASE job' = [job EXCEPT ![r] = Over("done")]
      BY <3>1, OverValues DEF JobPoint
    <3>2. ASSUME NEW at \in {"send", "sent", "refused", "complete", "caught"},
                 NEW l \in SUBSET {"row", "count"},
                 job' = [job EXCEPT ![r].at = at, ![r].left = l]
          PROVE  job' \in [Rows -> Job]
      <4>1. [job[r] EXCEPT !.at = at, !.left = l] \in Job
        BY JobValues DEF JobPoint
      <4> QED BY <3>2, <4>1
    <3> QED BY <2>1, <3>1, <3>2
  <2> QED BY <1>5, <2>2 DEF JobStart, JobSend, JobSendLost, JobCheck, JobComplete, JobThrows,
                            SetRow, Deliver
<1>6. ASSUME NEW r \in Rows, JobWriteRow(r) \/ JobWriteCount(r)
      PROVE  TypeOK'
  <2>1. job[r].at \in {"none", "waiting", "send", "sent", "refused", "check",
                       "complete", "caught", "done", "failed"}
    BY DEF Job
  <2>2. job' \in [Rows -> Job]
    <3>1. PICK w : Wrote(r, w)
      BY <1>6 DEF JobWriteRow, JobWriteCount
    <3>2. job[r].left \ {w} \in SUBSET {"row", "count"} /\ job[r] \in Job
      BY DEF Job
    <3>3. [job[r] EXCEPT !.left = @ \ {w},
                         !.at = IF job[r].left = {w} THEN "check" ELSE @] \in Job
      BY <2>1, <3>2 DEF Job
    <3> QED BY <3>1, <3>3 DEF Wrote
  <2> QED BY <1>6, <2>2 DEF JobWriteRow, JobWriteCount, SetRow
<1>7. ASSUME NEW r \in Rows, JobCaught(r) \/ JobStalls(r)
      PROVE  TypeOK'
  <2>1. \E j \in Job : job' = [job EXCEPT ![r] = j]
    <3>0. job[r] \in Job
      OBVIOUS
    <3>1. CASE JobCaught(r)
      <4>1. ASSUME job[r].tries + 1 < Attempts
            PROVE  [job[r] EXCEPT !.at = "waiting", !.tries = job[r].tries + 1] \in Job
        <5>1. job[r].tries + 1 \in 0..(Attempts - 1)
          BY <3>0, <4>1 DEF Job
        <5> QED BY <3>0, <5>1 DEF Job
      <4>2. Over("failed") \in Job
        BY OverValues DEF JobPoint
      <4> QED BY <3>1, <4>1, <4>2 DEF JobCaught, Retry
    <3>2. CASE JobStalls(r)
      <4>1. [job[r] EXCEPT !.at = "waiting", !.stalled = TRUE, !.left = {}] \in Job
        BY <3>0 DEF Job
      <4>2. Over("failed") \in Job
        BY OverValues DEF JobPoint
      <4> QED BY <3>2, <4>1, <4>2 DEF JobStalls
    <3> QED BY <1>7, <3>1, <3>2
  <2> QED BY <1>7, <2>1 DEF JobCaught, JobStalls, SetRow
<1>8. CASE UNCHANGED vars
  BY <1>8 DEF vars
<1> QED BY <1>1, <1>2, <1>3, <1>4, <1>5, <1>6, <1>7, <1>8, NextCases

\* Every reachable state is well typed: a job never has more than its attempts,
\* and the counters never go below zero.
THEOREM TypeCorrect == Spec => []TypeOK
  BY InitTypeOK, NextTypeOK, PTL DEF Spec

-------------------------------------------------------------------------------
(* Adding up deliveries                                                    *)

LEMMA ItemsFinite ==
    ASSUME NEW f
    PROVE  IsFiniteSet(Items(f)) /\ Sum(f) \in Nat
<1>1. IsFiniteSet(Rows)
  BY CampaignAssumption, FS_Product DEF Rows
<1>2. IsFiniteSet(1..(Attempts + 1))
  BY CampaignAssumption, FS_Interval
<1>3. IsFiniteSet(Rows \X (1..(Attempts + 1)))
  BY <1>1, <1>2, FS_Product
<1>4. Items(f) \in SUBSET (Rows \X (1..(Attempts + 1)))
  BY DEF Items
<1> QED BY <1>3, <1>4, FS_Subset, FS_CardinalityType DEF Sum

\* One delivery more makes the sum one larger, as long as it is within what
\* the attempts allow.
LEMMA SumAdd ==
    ASSUME NEW f \in [Rows -> Nat], NEW r \in Rows, f[r] <= Attempts
    PROVE  Sum([f EXCEPT ![r] = @ + 1]) = Sum(f) + 1
<1> DEFINE g == [f EXCEPT ![r] = @ + 1]
           x == <<r, f[r] + 1>>
<1>1. x \in Rows \X (1..(Attempts + 1)) /\ x \notin Items(f)
  BY CampaignAssumption DEF Items
<1>2. Items(g) = Items(f) \cup {x}
  <2>1. ASSUME NEW y \in Rows \X (1..(Attempts + 1))
        PROVE  y[2] <= g[y[1]] <=> (y[2] <= f[y[1]] \/ y = x)
    <3>1. PICK q \in Rows, n \in 1..(Attempts + 1) : y = <<q, n>>
      BY <2>1
    <3>2. CASE q = r
      BY <3>1, <3>2, CampaignAssumption
    <3>3. CASE q # r
      BY <3>1, <3>3
    <3> QED BY <3>2, <3>3
  <2> QED BY <1>1, <2>1 DEF Items
<1>3. Cardinality(Items(f) \cup {x}) = Cardinality(Items(f)) + 1
  BY <1>1, ItemsFinite, FS_AddElement
<1> QED BY <1>2, <1>3 DEF Sum

LEMMA UncountedFinite == IsFiniteSet(Uncounted) /\ Cardinality(Uncounted) \in Nat
<1>1. IsFiniteSet(Rows)
  BY CampaignAssumption, FS_Product DEF Rows
<1>2. IsFiniteSet(Uncounted)
  BY <1>1, FS_Subset DEF Uncounted
<1> QED BY <1>2, FS_CardinalityType

\* A step that neither delivers nor counts, and forgets at most what was still
\* to be counted.
LEMMA SentFrame ==
    ASSUME sentCount + Cardinality(Uncounted) <= Sum(delivered), TypeOK,
           UNCHANGED <<sentCount, delivered>>, Uncounted' \subseteq Uncounted
    PROVE  sentCount' + Cardinality(Uncounted)' <= Sum(delivered)'
<1>1. IsFiniteSet(Uncounted) /\ Cardinality(Uncounted) \in Nat
  BY UncountedFinite
<1>2. IsFiniteSet(Uncounted') /\ Cardinality(Uncounted') <= Cardinality(Uncounted)
  BY <1>1, FS_Subset
<1>3. Cardinality(Uncounted') \in Nat /\ Sum(delivered)' = Sum(delivered) /\ Sum(delivered) \in Nat
  BY <1>2, FS_CardinalityType, ItemsFinite DEF Sum, Items
<1> QED BY <1>1, <1>2, <1>3 DEF TypeOK

\* The jobs a batch adds are new.
LEMMA QueuedJobs ==
    ASSUME TypeOK, NEW s \in Senders, SendQueue(s), NEW r \in Rows
    PROVE  job'[r] = job[r] \/ (r[1] = s /\ r[2] \in target[s]
                                /\ job[r] = NoJob /\ job'[r] = Over("waiting"))
<1>1. PICK C \in SUBSET Unqueued(s) : AddJobs(s, C)
  BY DEF SendQueue
<1>2. PICK q \in Senders, c \in Phones : r = <<q, c>>
  BY DEF Rows
<1> QED BY <1>1, <1>2 DEF AddJobs, Unqueued, RowOf, TypeOK, Over

-------------------------------------------------------------------------------
(* Whatever fails                                                          *)

LEMMA InitDeliveryInv == Init => DeliveryInv
<1> SUFFICES ASSUME Init PROVE DeliveryInv
  OBVIOUS
<1>1. TypeOK
  BY InitTypeOK
<1>2. WritesFollowSend /\ \A r \in Rows : delivered[r] <= Sendings(r)
  BY DEF Init, Sendings, NoJob, WritesFollowSend
<1>3. Uncounted = {}
  BY DEF Init, Uncounted, NoJob
<1>4. sentCount + Cardinality(Uncounted) = 0
  BY <1>3, FS_EmptySet DEF Init
<1> QED BY <1>1, <1>2, <1>4, ItemsFinite DEF DeliveryInv

LEMMA NextDeliveryInv == DeliveryInv /\ [Next]_vars => DeliveryInv'
<1> SUFFICES ASSUME DeliveryInv, [Next]_vars PROVE DeliveryInv'
  OBVIOUS
<1>0. TypeOK /\ TypeOK' /\ WritesFollowSend
  BY NextTypeOK DEF DeliveryInv
<1> DEFINE Within == \A r \in Rows : delivered'[r] <= Sendings(r)'
           Booked == sentCount' + Cardinality(Uncounted)' <= Sum(delivered)'
           Goal == WritesFollowSend' /\ Within /\ Booked
<1> SUFFICES Goal
  BY <1>0 DEF DeliveryInv
<1> USE <1>0, CampaignAssumption
<1>1. ASSUME UNCHANGED <<sentCount, delivered, job>>
      PROVE  Goal
  <2>1. Uncounted' = Uncounted /\ \A r \in Rows : Sendings(r)' = Sendings(r)
    BY <1>1 DEF Uncounted, Sendings
  <2> QED BY <1>1, <2>1, SentFrame DEF DeliveryInv, WritesFollowSend
<1>2. ASSUME \/ PeopleChange
             \/ \E s \in Senders :
                  SendCheck(s) \/ SendClaim(s) \/ SendAudience(s) \/ SendRows(s)
                  \/ SendRowsRefused(s) \/ SendStops(s)
             \/ \E e \in Editors :
                  UpdateCheck(e) \/ UpdateWrite(e) \/ DeleteCheck(e) \/ DeleteWrite(e)
             \/ UNCHANGED vars
      PROVE  UNCHANGED <<sentCount, delivered, job>>
  BY <1>2 DEF PeopleChange, SendCheck, SendClaim, SendAudience, SendRows, SendRowsRefused,
              SendStops, UpdateCheck, UpdateWrite, DeleteCheck, DeleteWrite, vars, campaign
<1>3. ASSUME NEW s \in Senders, SendQueue(s)
      PROVE  Goal
  <2>1. UNCHANGED <<sentCount, delivered>>
    BY <1>3 DEF SendQueue, campaign
  <2>2. /\ NoJob.at = "none" /\ NoJob.left = {}
        /\ Over("waiting").at = "waiting" /\ Over("waiting").stalled = FALSE
        /\ Over("waiting").tries = 0 /\ Over("waiting").left = {}
    BY DEF NoJob, Over
  <2>3. ASSUME NEW r \in Rows
        PROVE  job'[r] = job[r] \/ (job[r] = NoJob /\ job'[r] = Over("waiting"))
    BY <1>3, QueuedJobs
  <2>4. ASSUME NEW r \in Rows PROVE delivered'[r] <= Sendings(r)'
    <3>1. CASE job'[r] = job[r]
      BY <2>1, <3>1 DEF DeliveryInv, Sendings
    <3>2. CASE job[r] = NoJob /\ job'[r] = Over("waiting")
      <4>1. delivered[r] <= 0
        BY <2>2, <3>2 DEF DeliveryInv, Sendings
      <4>2. Sendings(r)' = 0
        BY <2>2, <3>2 DEF Sendings
      <4> QED BY <2>1, <4>1, <4>2
    <3> QED BY <2>3, <3>1, <3>2
  <2>5. Uncounted' \subseteq Uncounted /\ WritesFollowSend'
    BY <2>2, <2>3 DEF Uncounted, WritesFollowSend
  <2> QED BY <2>1, <2>4, <2>5, SentFrame DEF DeliveryInv
\* A job that goes on without sending.
<1>4. ASSUME NEW r \in Rows, NEW j \in Job, UNCHANGED <<sentCount, delivered>>,
             job' = [job EXCEPT ![r] = j],
             delivered[r] <= Sendings(r)',
             j.left # {} => j.at \in {"sent", "refused"},
             j.at = "sent" => job[r].at = "sent" /\ j.left \subseteq job[r].left
      PROVE  Goal
  <2>1. Within
    BY <1>4 DEF DeliveryInv, Sendings, TypeOK
  <2>2. Uncounted' \subseteq Uncounted /\ WritesFollowSend'
    BY <1>4 DEF Uncounted, WritesFollowSend, TypeOK
  <2> QED BY <1>4, <2>1, <2>2, SentFrame DEF DeliveryInv
<1>5. ASSUME NEW r \in Rows, JobSend(r) \/ JobSendLost(r)
      PROVE  Goal
  <2>0. job[r] \in Job /\ delivered[r] \in Nat
    BY DEF TypeOK
  <2>1. PICK at \in {"sent", "refused"} : BothWrites(r, at) /\ (at = "sent" => Deliver(r))
    BY <1>5 DEF JobSend, JobSendLost
  <2>2. PICK j \in Job : /\ j.at = at /\ j.left = {"row", "count"}
                         /\ j.tries = job[r].tries /\ j.stalled = job[r].stalled
                         /\ job' = [job EXCEPT ![r] = j]
    <3>1. at \in JobPoint /\ BothWrites(r, at)
      BY <2>1 DEF JobPoint
    <3> QED BY <3>1, BothWritesValues
  <2>3. /\ j.at = at /\ j.left = {"row", "count"} /\ j.tries = job[r].tries
        /\ j.stalled = job[r].stalled /\ job[r].at = "send"
    BY <2>1, <2>2 DEF BothWrites
  <2>4. /\ delivered[r] <= job[r].tries + (IF job[r].stalled THEN 1 ELSE 0)
        /\ Sendings(r)' = job[r].tries + (IF job[r].stalled THEN 1 ELSE 0) + 1
        /\ job[r].tries \in 0..(Attempts - 1)
    BY <2>0, <2>1, <2>2, <2>3 DEF DeliveryInv, Sendings, TypeOK, Job
  <2>5. delivered[r] <= Attempts
    BY <2>0, <2>4
  <2>6. sentCount' = sentCount
    BY <1>5 DEF JobSend, JobSendLost, campaign
  <2>7. CASE Deliver(r)
    <3>1. delivered' = [delivered EXCEPT ![r] = @ + 1]
      BY <2>7 DEF Deliver
    <3>2. Sum(delivered)' = Sum(delivered) + 1
      <4>1. Sum([delivered EXCEPT ![r] = @ + 1]) = Sum(delivered) + 1
        BY <2>5, SumAdd DEF TypeOK
      <4> QED BY <3>1, <4>1 DEF Sum, Items
    <3>3. Cardinality(Uncounted)' <= Cardinality(Uncounted) + 1 /\ Cardinality(Uncounted)' \in Nat
      <4>1. r \notin Uncounted /\ Uncounted' \subseteq Uncounted \cup {r}
        BY <2>2, <2>3 DEF Uncounted, TypeOK
      <4>2. /\ IsFiniteSet(Uncounted \cup {r})
            /\ Cardinality(Uncounted \cup {r}) = Cardinality(Uncounted) + 1
        BY <4>1, UncountedFinite, FS_AddElement
      <4>3. IsFiniteSet(Uncounted') /\ Cardinality(Uncounted') <= Cardinality(Uncounted \cup {r})
        BY <4>1, <4>2, FS_Subset
      <4> QED BY <4>2, <4>3, FS_CardinalityType
    <3>4. Booked
      BY <2>6, <3>2, <3>3, UncountedFinite, ItemsFinite DEF DeliveryInv, TypeOK
    <3>5. Within
      <4>1. \A q \in Rows : q # r => delivered'[q] = delivered[q] /\ Sendings(q)' = Sendings(q)
        BY <2>2, <3>1 DEF Sendings, TypeOK
      <4>2. delivered'[r] <= Sendings(r)'
        BY <2>0, <2>4, <3>1 DEF TypeOK
      <4> QED BY <4>1, <4>2 DEF DeliveryInv
    <3> QED BY <2>2, <2>3, <3>4, <3>5 DEF WritesFollowSend, TypeOK
  <2>8. CASE ~Deliver(r)
    <3>1. delivered' = delivered /\ at = "refused"
      BY <1>5, <2>1, <2>8 DEF JobSend, JobSendLost
    <3>2. delivered[r] <= Sendings(r)'
      BY <2>0, <2>4, <3>1 DEF Job
    <3>3. UNCHANGED <<sentCount, delivered>> /\ j.at = "refused"
      BY <2>3, <2>6, <3>1
    <3> QED BY <1>4, <2>2, <3>2, <3>3
  <2> QED BY <2>7, <2>8
<1>6. ASSUME NEW r \in Rows, NEW w, Wrote(r, w), delivered' = delivered,
             \/ sentCount' = sentCount
             \/ sentCount' = sentCount + 1 /\ w = "count" /\ job[r].at = "sent"
      PROVE  Goal
  <2>0. job[r] \in Job /\ job[r].at \in {"sent", "refused"}
    BY <1>6 DEF TypeOK, Wrote, WritesFollowSend
  <2>1. PICK j : /\ j = [job[r] EXCEPT !.left = @ \ {w},
                                        !.at = IF job[r].left = {w} THEN "check" ELSE @]
                  /\ job' = [job EXCEPT ![r] = j]
    BY <1>6 DEF Wrote
  <2>2. /\ j \in Job /\ j.left = job[r].left \ {w} /\ w \in job[r].left
        /\ j.at = (IF job[r].left = {w} THEN "check" ELSE job[r].at)
        /\ j.tries = job[r].tries /\ j.stalled = job[r].stalled
    BY <1>6, <2>0, <2>1 DEF Wrote, Job
  <2>3. delivered[r] <= Sendings(r)'
    <3>1. Sendings(r)' = Sendings(r)
      BY <2>0, <2>1, <2>2 DEF Sendings, TypeOK
    <3> QED BY <3>1 DEF DeliveryInv
  <2>4. CASE sentCount' = sentCount
    <3>1. j.left # {} => j.at \in {"sent", "refused"}
      BY <2>0, <2>2
    <3>2. j.at = "sent" => job[r].at = "sent" /\ j.left \subseteq job[r].left
      BY <2>2
    <3> QED BY <1>4, <1>6, <2>1, <2>2, <2>3, <2>4, <3>1, <3>2
  <2>5. CASE sentCount' = sentCount + 1 /\ w = "count" /\ job[r].at = "sent"
    <3>1. Within
      BY <1>6, <2>1, <2>3 DEF DeliveryInv, Sendings, TypeOK
    <3>2. WritesFollowSend'
      BY <2>0, <2>1, <2>2 DEF WritesFollowSend, TypeOK
    <3>3. r \in Uncounted /\ Uncounted' = Uncounted \ {r}
      BY <2>1, <2>2, <2>5 DEF Uncounted, TypeOK
    <3>4. Cardinality(Uncounted') = Cardinality(Uncounted) - 1
      BY <3>3, UncountedFinite, FS_RemoveElement
    <3>5. Sum(delivered)' = Sum(delivered)
      BY <1>6 DEF Sum, Items
    <3> QED BY <2>5, <3>1, <3>2, <3>4, <3>5, UncountedFinite, ItemsFinite DEF DeliveryInv, TypeOK
  <2> QED BY <1>6, <2>4, <2>5
<1>7. ASSUME NEW r \in Rows, JobWriteRow(r) \/ JobWriteCount(r)
      PROVE  Goal
  <2>1. CASE JobWriteRow(r)
    BY <1>6, <2>1 DEF JobWriteRow, campaign
  <2>2. CASE JobWriteCount(r)
    BY <1>6, <2>2 DEF JobWriteCount
  <2> QED BY <1>7, <2>1, <2>2
<1>8. ASSUME NEW r \in Rows, JobStart(r) \/ JobThrows(r) \/ JobCheck(r) \/ JobComplete(r)
      PROVE  Goal
  <2>0. job[r] \in Job /\ delivered[r] \in Nat /\ UNCHANGED <<sentCount, delivered>>
    BY <1>8 DEF TypeOK, JobStart, JobThrows, JobCheck, JobComplete, campaign
  <2>1. ASSUME NEW from \in JobPoint \ {"none", "done", "failed"}, NEW to \in {"send", "complete", "caught"},
               Goes(r, from, to), from \in {"waiting", "send"} \/ to \in {"complete", "caught"}
        PROVE  Goal
    <3>1. PICK j \in Job : /\ j.at = to /\ j.left = {}
                           /\ j.tries = job[r].tries /\ j.stalled = job[r].stalled
                           /\ job' = [job EXCEPT ![r] = j]
      <4>1. to \in JobPoint
        BY DEF JobPoint
      <4> QED BY <2>1, <4>1, GoesValues
    <3>2. /\ j.at = to /\ j.left = {} /\ j.tries = job[r].tries
          /\ j.stalled = job[r].stalled /\ job[r].at = from
      BY <2>1, <3>1 DEF Goes
    <3>3. /\ job[r].tries \in 0..(Attempts - 1) /\ job[r].stalled \in BOOLEAN
          /\ delivered[r] <= Sendings(r)
      BY <2>0 DEF Job, DeliveryInv
    <3>4. Sendings(r) <= Sendings(r)' /\ Sendings(r)' \in Nat /\ Sendings(r) \in Nat
      BY <2>0, <2>1, <3>1, <3>2, <3>3 DEF Sendings, TypeOK, JobPoint
    <3>5. delivered[r] <= Sendings(r)'
      BY <2>0, <3>3, <3>4
    <3> QED BY <1>4, <2>0, <2>1, <3>1, <3>2, <3>5
  <2>2. ASSUME NEW from, Ends(r, from), from \in {"check", "complete"}
        PROVE  Goal
    <3>1. job' = [job EXCEPT ![r] = Over("done")] /\ Over("done") \in Job
          /\ Over("done").at = "done" /\ Over("done").left = {}
      BY <2>2, OverValues DEF Ends, JobPoint
    <3>2. Sendings(r)' = Attempts + 1
      BY <2>0, <3>1 DEF Sendings, TypeOK
    <3>3. delivered[r] <= Attempts + 1
      BY <2>0 DEF DeliveryInv, Sendings, Job
    <3> QED BY <1>4, <2>0, <3>1, <3>2, <3>3
  <2>3. CASE JobStart(r)
    BY <2>1, <2>3 DEF JobStart, JobPoint
  <2>4. CASE JobThrows(r)
    BY <2>1, <2>4 DEF JobThrows, JobPoint
  <2>5. CASE JobCheck(r)
    BY <2>1, <2>2, <2>5 DEF JobCheck, JobPoint
  <2>6. CASE JobComplete(r)
    BY <2>2, <2>6 DEF JobComplete
  <2> QED BY <1>8, <2>3, <2>4, <2>5, <2>6
<1>9. ASSUME NEW r \in Rows, JobCaught(r) \/ JobStalls(r)
      PROVE  Goal
  <2>0. /\ job[r] \in Job /\ delivered[r] \in Nat /\ UNCHANGED <<sentCount, delivered>>
        /\ job[r].tries \in 0..(Attempts - 1) /\ job[r].stalled \in BOOLEAN
        /\ delivered[r] <= Sendings(r)
    BY <1>9 DEF TypeOK, JobCaught, JobStalls, campaign, Job, DeliveryInv
  <2>1. CASE job' = [job EXCEPT ![r] = Over("failed")]
    <3>1. Over("failed") \in Job /\ Over("failed").at = "failed" /\ Over("failed").left = {}
      BY OverValues DEF JobPoint
    <3>2. Sendings(r)' = Attempts + 1
      BY <2>1, <3>1 DEF Sendings, TypeOK
    <3>3. delivered[r] <= Attempts + 1
      BY <2>0 DEF Sendings
    <3> QED BY <1>4, <2>0, <2>1, <3>1, <3>2, <3>3
  <2>2. CASE /\ job[r].at = "caught" /\ job[r].tries + 1 < Attempts
             /\ job' = [job EXCEPT ![r] = [@ EXCEPT !.at = "waiting", !.tries = job[r].tries + 1]]
    <3>1. PICK j : /\ j = [job[r] EXCEPT !.at = "waiting", !.tries = job[r].tries + 1]
                   /\ job' = [job EXCEPT ![r] = j]
      BY <2>2
    <3>2. /\ j.at = "waiting" /\ j.tries = job[r].tries + 1 /\ j.left = job[r].left
          /\ j.stalled = job[r].stalled
      BY <2>0, <3>1 DEF Job
    <3>3. j \in Job
      <4>1. job[r].tries + 1 \in 0..(Attempts - 1)
        BY <2>0, <2>2
      <4> QED BY <2>0, <3>1, <4>1 DEF Job
    <3>4. job[r].left = {}
      BY <2>2 DEF WritesFollowSend
    <3>5. Sendings(r)' = Sendings(r)
      BY <2>0, <2>2, <3>1, <3>2 DEF Sendings, TypeOK
    <3> QED BY <1>4, <2>0, <3>1, <3>2, <3>3, <3>4, <3>5
  <2>3. CASE /\ job[r].at \notin {"none", "done", "failed"} /\ ~job[r].stalled
             /\ job' = [job EXCEPT ![r] = [@ EXCEPT !.at = "waiting", !.stalled = TRUE, !.left = {}]]
    <3>1. PICK j : /\ j = [job[r] EXCEPT !.at = "waiting", !.stalled = TRUE, !.left = {}]
                   /\ job' = [job EXCEPT ![r] = j]
      BY <2>3
    <3>2. /\ j.at = "waiting" /\ j.tries = job[r].tries /\ j.left = {} /\ j.stalled
          /\ j \in Job
      BY <2>0, <3>1 DEF Job
    <3>3. Sendings(r) <= Sendings(r)'
      BY <2>0, <2>3, <3>1, <3>2 DEF Sendings, TypeOK
    <3>4. delivered[r] <= Sendings(r)'
      BY <2>0, <2>3, <3>1, <3>2, <3>3 DEF Sendings, TypeOK
    <3> QED BY <1>4, <2>0, <3>1, <3>2, <3>4
  <2>4. CASE JobCaught(r)
    BY <2>1, <2>2, <2>4 DEF JobCaught, Retry
  <2>5. CASE JobStalls(r)
    BY <2>1, <2>3, <2>5 DEF JobStalls
  <2> QED BY <1>9, <2>4, <2>5
<1> QED BY <1>1, <1>2, <1>3, <1>5, <1>7, <1>8, <1>9, NextCases

\* However often attempts fail, answers are lost and workers stop, a contact
\* gets the message of one request at most once for each attempt and once
\* more for the one stop BullMQ forgives.
THEOREM DeliveriesAreBounded == Spec => []DeliveredWithinAttempts
<1>1. DeliveryInv => DeliveredWithinAttempts
  <2> SUFFICES ASSUME DeliveryInv, NEW r \in Rows PROVE delivered[r] <= Attempts + 1
    BY DEF DeliveredWithinAttempts
  <2>1. /\ job[r] \in Job /\ delivered[r] \in Nat /\ delivered[r] <= Sendings(r)
    BY DEF DeliveryInv, TypeOK
  <2> QED BY <2>1, CampaignAssumption DEF Sendings, Job
<1> QED BY <1>1, InitDeliveryInv, NextDeliveryInv, PTL DEF Spec

\* sent_count never claims a message that WhatsApp has not delivered: every
\* increment is paid for by a delivery of the same attempt.
THEOREM SentCountIsDelivered == Spec => []SentIsDelivered
<1>1. DeliveryInv => SentIsDelivered
  <2> SUFFICES ASSUME DeliveryInv PROVE sentCount <= Sum(delivered)
    BY DEF SentIsDelivered
  <2> QED BY UncountedFinite, ItemsFinite DEF DeliveryInv, TypeOK
<1> QED BY <1>1, InitDeliveryInv, NextDeliveryInv, PTL DEF Spec

-------------------------------------------------------------------------------
(* As long as nothing fails                                                *)

LEMMA SteadyCases ==
    ASSUME SteadyNext
    PROVE  \/ \E s \in Senders :
                \/ SendCheck(s) \/ SendClaim(s) \/ SendAudience(s) \/ SendRows(s)
                \/ SendRowsRefused(s) \/ SendQueue(s)
           \/ \E r \in Rows :
                \/ JobStart(r) \/ JobSend(r) \/ JobWriteRow(r) \/ JobWriteCount(r)
                \/ JobCheck(r) \/ JobComplete(r)
  BY DEF SteadyNext, Send, Work

LEMMA SteadyIsNext == [SteadyNext]_vars => [Next]_vars
  BY DEF SteadyNext, Next

\* What a step of the job of row r does to the jobs when nothing fails.
LEMMA SteadyJob ==
    ASSUME TypeOK, WritesFollowSend, NEW r \in Rows,
           \/ JobStart(r) \/ JobSend(r) \/ JobWriteRow(r) \/ JobWriteCount(r)
           \/ JobCheck(r) \/ JobComplete(r)
    PROVE  \E j \in Job :
             /\ job' = [job EXCEPT ![r] = j]
             /\ <<job[r].at, j.at>> \in
                  {<<"waiting", "send">>, <<"send", "sent">>, <<"send", "refused">>,
                   <<"sent", "sent">>, <<"refused", "refused">>, <<"sent", "check">>,
                   <<"refused", "check">>, <<"check", "complete">>, <<"check", "done">>,
                   <<"complete", "done">>}
             /\ job[r].at = "send" <=> JobSend(r)
             /\ job[r].at = "send" => j.left = {"row", "count"}
             /\ j.at = "send" \/ j.left \subseteq job[r].left \/ job[r].at = "send"
<1>0. job[r] \in Job
  BY DEF TypeOK
<1>1. CASE JobStart(r)
  <2>1. Goes(r, "waiting", "send") /\ "send" \in JobPoint
    BY <1>1 DEF JobStart, JobPoint
  <2>2. job[r].at = "waiting" /\ ~JobSend(r)
    BY <2>1 DEF Goes, JobSend, BothWrites
  <2> QED BY <2>1, <2>2, GoesValues
<1>2. CASE JobSend(r)
  <2>1. PICK at \in {"sent", "refused"} : BothWrites(r, at)
    BY <1>2 DEF JobSend
  <2>1a. job[r].at = "send"
    BY <2>1 DEF BothWrites
  <2>2. at \in JobPoint /\ BothWrites(r, at)
    BY <2>1 DEF JobPoint
  <2>4. PICK j \in Job : /\ j.at = at /\ j.left = {"row", "count"}
                         /\ j.tries = job[r].tries /\ j.stalled = job[r].stalled
                         /\ job' = [job EXCEPT ![r] = j]
    BY <2>2, BothWritesValues
  <2> QED BY <1>2, <2>1a, <2>4
<1>3. CASE JobWriteRow(r) \/ JobWriteCount(r)
  <2>1. PICK w : Wrote(r, w)
    BY <1>3 DEF JobWriteRow, JobWriteCount
  <2>2. job[r].at \in {"sent", "refused"} /\ w \in job[r].left
    BY <2>1 DEF WritesFollowSend, Wrote
  <2>3. PICK j : /\ j = [job[r] EXCEPT !.left = @ \ {w},
                                        !.at = IF job[r].left = {w} THEN "check" ELSE @]
                  /\ job' = [job EXCEPT ![r] = j]
    BY <2>1 DEF Wrote
  <2>4. /\ j \in Job /\ j.left = job[r].left \ {w}
        /\ j.at = (IF job[r].left = {w} THEN "check" ELSE job[r].at)
    BY <1>0, <2>2, <2>3 DEF Job
  <2>5. ~JobSend(r)
    BY <2>2 DEF JobSend, BothWrites
  <2> QED BY <2>2, <2>3, <2>4, <2>5
<1>4. ASSUME NEW from \in {"check", "complete"}, Ends(r, from)
      PROVE  /\ job' = [job EXCEPT ![r] = Over("done")] /\ job[r].at = from
             /\ Over("done") \in Job /\ Over("done").at = "done" /\ Over("done").left = {}
  BY <1>4, OverValues DEF Ends, JobPoint
<1>5. CASE JobCheck(r) \/ JobComplete(r)
  <2>1. job[r].at \in {"check", "complete"} /\ ~JobSend(r)
    BY <1>5 DEF JobCheck, JobComplete, Goes, Ends, JobSend, BothWrites
  <2>2. CASE Goes(r, "check", "complete")
    <3>1. "complete" \in JobPoint /\ job[r].at = "check"
      BY <2>2 DEF Goes, JobPoint
    <3> QED BY <2>1, <2>2, <3>1, GoesValues
  <2>3. CASE Ends(r, "check") \/ Ends(r, "complete")
    BY <1>4, <2>1, <2>3
  <2> QED BY <1>5, <2>2, <2>3 DEF JobCheck, JobComplete
<1> QED BY <1>1, <1>2, <1>3, <1>5

\* What OnceInv says of one row.
Once(r) ==
    /\ job[r].at \notin {"caught", "failed"}
    /\ ~Processed(r) => delivered[r] = 0 /\ row[r] # "sent"
    /\ job[r].at = "sent" => delivered[r] = 1
    /\ delivered[r] <= 1 /\ (row[r] = "sent" => delivered[r] = 1)

\* What OnceInv says of a request that has not queued anything.
Unsent(s) ==
    sender[s] \in {"idle", "checked", "claimed", "rows"} =>
        \A c \in Phones : job[RowOf(s, c)] = NoJob

LEMMA OnceParts ==
    OnceInv <=> /\ TypeOK /\ WritesFollowSend
                /\ \A s \in Senders : Unsent(s)
                /\ \A r \in Rows : Once(r)
  BY DEF OnceInv, Once, Unsent, MessagedOnce

LEMMA InitOnceInv == Init => OnceInv
<1> SUFFICES ASSUME Init PROVE OnceInv
  OBVIOUS
<1>1. TypeOK /\ WritesFollowSend
  BY InitDeliveryInv DEF DeliveryInv
<1>2. \A s \in Senders : Unsent(s)
  BY DEF Init, Unsent, RowOf, Rows
<1>3. \A r \in Rows : Once(r)
  BY DEF Init, Once, NoJob, Processed
<1> QED BY <1>1, <1>2, <1>3, OnceParts

LEMMA NextOnceInv == DeliveryInv /\ OnceInv /\ [SteadyNext]_vars => OnceInv'
<1> SUFFICES ASSUME DeliveryInv, OnceInv, [SteadyNext]_vars PROVE OnceInv'
  OBVIOUS
<1>0. /\ TypeOK /\ WritesFollowSend /\ TypeOK' /\ WritesFollowSend'
      /\ \A s \in Senders : Unsent(s)
      /\ \A r \in Rows : Once(r)
  BY NextDeliveryInv, SteadyIsNext, OnceParts DEF DeliveryInv
<1> DEFINE Goal == (\A s \in Senders : Unsent(s)') /\ (\A r \in Rows : Once(r)')
<1> SUFFICES Goal
  BY <1>0 DEF OnceInv, Once, Unsent, MessagedOnce
<1>00. NoJob.at = "none" /\ Over("waiting").at = "waiting"
  BY DEF NoJob, Over
<1> USE <1>0
<1>1. CASE UNCHANGED vars
  BY <1>1 DEF vars, requests, Unsent, Once, Processed
<1>2. ASSUME NEW s \in Senders, SendCheck(s) \/ SendClaim(s) \/ SendAudience(s)
      PROVE  Goal
  <2>1. UNCHANGED <<row, job, delivered>>
    BY <1>2 DEF SendCheck, SendClaim, SendAudience
  <2>2. sender[s] \in {"idle", "checked", "claimed"} /\ \E to : sender' = [sender EXCEPT ![s] = to]
    BY <1>2 DEF SendCheck, SendClaim, SendAudience, SenderGoes
  <2>3. ASSUME NEW t \in Senders PROVE Unsent(t)'
    BY <2>1, <2>2 DEF Unsent, TypeOK
  <2> QED BY <2>1, <2>3 DEF Once, Processed
<1>3. ASSUME NEW s \in Senders, SendRows(s) \/ SendRowsRefused(s)
      PROVE  Goal
  <2>1. PICK C : CreateRows(s, C)
    BY <1>3 DEF SendRows, SendRowsRefused
  <2>2. /\ UNCHANGED <<job, delivered>> /\ sender[s] = "rows"
        /\ \E to \in {"queue", "stopped"} : sender' = [sender EXCEPT ![s] = to]
    BY <1>3 DEF SendRows, SendRowsRefused, SenderGoes
  <2>3. ASSUME NEW t \in Senders PROVE Unsent(t)'
    BY <2>2 DEF Unsent, TypeOK
  <2>4. ASSUME NEW r \in Rows PROVE Once(r)'
    <3>1. row'[r] = row[r] \/ row'[r] = "pending"
      BY <2>1 DEF CreateRows
    <3> QED BY <2>2, <3>1 DEF Once, Processed
  <2> QED BY <2>3, <2>4
<1>4. ASSUME NEW s \in Senders, SendQueue(s)
      PROVE  Goal
  <2>1. /\ UNCHANGED <<row, delivered>> /\ sender[s] = "queue"
        /\ sender' = sender \/ sender' = [sender EXCEPT ![s] = "done"]
    BY <1>4 DEF SendQueue, SenderGoes
  <2>2. ASSUME NEW r \in Rows
        PROVE  job'[r] = job[r] \/ (r[1] = s /\ job[r] = NoJob /\ job'[r] = Over("waiting"))
    BY <1>4, QueuedJobs
  <2>3. ASSUME NEW t \in Senders PROVE Unsent(t)'
    <3>1. t # s \/ sender'[t] \notin {"idle", "checked", "claimed", "rows"}
      BY <2>1 DEF TypeOK
    <3>2. sender'[t] = sender[t] \/ t = s
      BY <2>1 DEF TypeOK
    <3>3. ASSUME NEW c \in Phones, t # s PROVE job'[RowOf(t, c)] = job[RowOf(t, c)]
      BY <2>2, <3>3 DEF Rows, RowOf
    <3> QED BY <3>1, <3>2, <3>3 DEF Unsent
  <2>4. ASSUME NEW r \in Rows PROVE Once(r)'
    <3>1. CASE job'[r] = job[r]
      BY <2>1, <3>1 DEF Once, Processed
    <3>2. CASE job[r] = NoJob /\ job'[r] = Over("waiting")
      BY <1>00, <2>1, <3>2 DEF Once, Processed
    <3> QED BY <2>2, <3>1, <3>2
  <2> QED BY <2>3, <2>4
<1>5. ASSUME NEW r \in Rows,
             \/ JobStart(r) \/ JobSend(r) \/ JobWriteRow(r) \/ JobWriteCount(r)
             \/ JobCheck(r) \/ JobComplete(r)
      PROVE  Goal
  <2>1. PICK j \in Job :
             /\ job' = [job EXCEPT ![r] = j]
             /\ <<job[r].at, j.at>> \in
                  {<<"waiting", "send">>, <<"send", "sent">>, <<"send", "refused">>,
                   <<"sent", "sent">>, <<"refused", "refused">>, <<"sent", "check">>,
                   <<"refused", "check">>, <<"check", "complete">>, <<"check", "done">>,
                   <<"complete", "done">>}
             /\ job[r].at = "send" <=> JobSend(r)
             /\ job[r].at = "send" => j.left = {"row", "count"}
             /\ j.at = "send" \/ j.left \subseteq job[r].left \/ job[r].at = "send"
    BY <1>5, SteadyJob
  <2>2. UNCHANGED sender /\ job[r].at # "none"
    BY <1>5, <2>1 DEF JobStart, JobSend, JobWriteRow, JobWriteCount, JobCheck, JobComplete, requests
  <2>3. ASSUME NEW s \in Senders PROVE Unsent(s)'
    <3>1. ASSUME NEW c \in Phones, job[RowOf(s, c)] = NoJob
          PROVE  job'[RowOf(s, c)] = NoJob
      BY <1>00, <2>1, <2>2, <3>1 DEF TypeOK, RowOf, Rows
    <3> QED BY <2>2, <3>1 DEF Unsent
  <2>4. ASSUME NEW q \in Rows, q # r PROVE Once(q)'
    <3>1. job'[q] = job[q] /\ row'[q] = row[q] /\ delivered'[q] = delivered[q]
      BY <1>5, <2>1, <2>4 DEF TypeOK, JobStart, JobSend, JobWriteRow, JobWriteCount, JobCheck,
                              JobComplete, SetRow, Deliver
    <3> QED BY <3>1 DEF Once, Processed
  <2>5. Once(r)'
    <3>0. job'[r].at = j.at /\ delivered[r] \in Nat
      BY <2>1 DEF TypeOK
    <3>1. CASE JobStart(r)
      <4>1. row'[r] = "queued" /\ delivered'[r] = delivered[r] /\ job[r].at = "waiting" /\ j.at = "send"
        BY <2>1, <3>1 DEF JobStart, SetRow, TypeOK, Goes
      <4> QED BY <3>0, <4>1 DEF Once, Processed
    <3>2. CASE JobSend(r)
      <4>1. /\ row'[r] = row[r] /\ job[r].at = "send" /\ j.at \in {"sent", "refused"}
            /\ \/ j.at = "sent" /\ delivered'[r] = delivered[r] + 1
               \/ j.at = "refused" /\ delivered'[r] = delivered[r]
        <5>1. CASE BothWrites(r, "sent") /\ Deliver(r)
          BY <2>1, <3>2, <5>1 DEF JobSend, BothWrites, Deliver, TypeOK, Job
        <5>2. CASE BothWrites(r, "refused") /\ UNCHANGED delivered
          BY <2>1, <3>2, <5>2 DEF JobSend, BothWrites, TypeOK, Job
        <5> QED BY <3>2, <5>1, <5>2 DEF JobSend
      <4> QED BY <3>0, <4>1 DEF Once, Processed
    <3>3. CASE JobWriteRow(r)
      <4>1. /\ job[r].at \in {"sent", "refused"} /\ delivered'[r] = delivered[r]
            /\ row'[r] = (IF job[r].at = "sent" THEN "sent" ELSE "failed")
        BY <3>3 DEF JobWriteRow, Wrote, SetRow, TypeOK, WritesFollowSend
      <4>2. j.at \in {job[r].at, "check"}
        BY <2>1, <4>1
      <4> QED BY <3>0, <4>1, <4>2 DEF Once, Processed
    <3>4. CASE JobWriteCount(r)
      <4>1. job[r].at \in {"sent", "refused"} /\ UNCHANGED <<row, delivered>>
        BY <3>4 DEF JobWriteCount, Wrote, TypeOK, WritesFollowSend
      <4>2. j.at \in {job[r].at, "check"}
        BY <2>1, <4>1
      <4> QED BY <3>0, <4>1, <4>2 DEF Once, Processed
    <3>5. CASE JobCheck(r) \/ JobComplete(r)
      <4>1. job[r].at \in {"check", "complete"} /\ UNCHANGED <<row, delivered>>
        BY <3>5 DEF JobCheck, JobComplete, Goes, Ends
      <4>2. j.at \in {"complete", "done"}
        BY <2>1, <4>1
      <4> QED BY <3>0, <4>1, <4>2 DEF Once, Processed
    <3> QED BY <1>5, <3>1, <3>2, <3>3, <3>4, <3>5
  <2> QED BY <2>3, <2>4, <2>5
<1> QED BY <1>1, <1>2, <1>3, <1>4, <1>5, SteadyCases

\* As long as nothing fails, nobody gets the message of one request twice, and
\* a recipient whose row says "sent" has got it: a row is queued once, and its
\* job is worked on once.
THEOREM SteadyMessagesOnce == SteadySpec => []MessagedOnce
<1>1. OnceInv => MessagedOnce
  BY DEF OnceInv
<1> QED BY <1>1, InitDeliveryInv, NextDeliveryInv, SteadyIsNext, InitOnceInv, NextOnceInv,
           PTL DEF SteadySpec

-------------------------------------------------------------------------------
(* When the counters say that a campaign is complete                       *)

LEMMA CountedFinite == IsFiniteSet(Counted) /\ Cardinality(Counted) \in Nat
<1>1. IsFiniteSet(Rows)
  BY CampaignAssumption, FS_Product DEF Rows
<1>2. IsFiniteSet(Counted)
  BY <1>1, FS_Subset DEF Counted
<1> QED BY <1>2, FS_CardinalityType

\* What CompletionInv says of the people: nobody comes or goes.
Gathered ==
    /\ total = PreviewCount /\ total > 0
    /\ \A s \in Senders :
          /\ target[s] \subseteq Audience
          /\ sender[s] \in {"idle", "checked", "claimed"} => target[s] = {}
          /\ \A c \in Phones : job[RowOf(s, c)] # NoJob => c \in target[s]

\* What CompletionInv says of the counters.
Tallied ==
    /\ sentCount + failedCount = Cardinality(Counted)
    /\ (status = "completed" \/ \E r \in Rows : job[r].at = "complete") => Completes

LEMMA InitCompletionInv == Init => CompletionInv
<1> SUFFICES ASSUME Init PROVE CompletionInv
  OBVIOUS
<1>1. OnceInv
  BY InitOnceInv
<1>2. Gathered
  BY DEF Init, Gathered, PreviewCount, RowOf, Rows
<1>3. Counted = {}
  BY DEF Init, Counted, Processed, NoJob
<1>4. Tallied
  BY <1>3, FS_EmptySet DEF Init, Tallied, NoJob
<1> QED BY <1>1, <1>2, <1>4 DEF CompletionInv, Gathered, Tallied

LEMMA NextGathered ==
    ASSUME OnceInv, Gathered, [SteadyNext]_vars
    PROVE  Gathered'
<1>0. TypeOK /\ WritesFollowSend /\ \A s \in Senders : Unsent(s)
  BY OnceParts
<1>1. UNCHANGED <<total, leads, customers>>
  <2>1. CASE UNCHANGED vars
    BY <2>1 DEF vars, campaign, people
  <2>2. CASE SteadyNext
    BY <2>2, SteadyCases
       DEF campaign, people, SendCheck, SendClaim, SendAudience, SendRows, SendRowsRefused,
           SendQueue, JobStart, JobSend, JobWriteRow, JobWriteCount, JobCheck, JobComplete
  <2> QED BY <2>1, <2>2
<1>2. total' = PreviewCount' /\ total' > 0 /\ Audience' = Audience
  BY <1>1 DEF Gathered, PreviewCount, Audience
<1>3. ASSUME NEW s \in Senders
      PROVE  /\ target'[s] \subseteq Audience
             /\ sender'[s] \in {"idle", "checked", "claimed"} => target'[s] = {}
             /\ \A c \in Phones : job'[RowOf(s, c)] # NoJob => c \in target'[s]
  <2>0. /\ target[s] \subseteq Audience
        /\ sender[s] \in {"idle", "checked", "claimed"} => target[s] = {}
        /\ \A c \in Phones : job[RowOf(s, c)] # NoJob => c \in target[s]
    BY DEF Gathered
  <2>1. CASE UNCHANGED vars
    BY <2>0, <2>1 DEF vars, requests
  <2>2. ASSUME NEW t \in Senders,
               SendCheck(t) \/ SendClaim(t) \/ SendRows(t) \/ SendRowsRefused(t)
        PROVE  /\ target'[s] \subseteq Audience
               /\ sender'[s] \in {"idle", "checked", "claimed"} => target'[s] = {}
               /\ \A c \in Phones : job'[RowOf(s, c)] # NoJob => c \in target'[s]
    <3>1. UNCHANGED <<target, job>>
      BY <2>2 DEF SendCheck, SendClaim, SendRows, SendRowsRefused
    <3>2. sender'[s] \in {"idle", "checked", "claimed"} => sender[s] \in {"idle", "checked", "claimed"}
      BY <1>0, <2>2 DEF SendCheck, SendClaim, SendRows, SendRowsRefused, SenderGoes, TypeOK
    <3> QED BY <2>0, <3>1, <3>2
  <2>3. ASSUME NEW t \in Senders, SendAudience(t)
        PROVE  /\ target'[s] \subseteq Audience
               /\ sender'[s] \in {"idle", "checked", "claimed"} => target'[s] = {}
               /\ \A c \in Phones : job'[RowOf(s, c)] # NoJob => c \in target'[s]
    <3>1. /\ UNCHANGED job /\ sender[t] = "claimed" /\ sender' = [sender EXCEPT ![t] = "rows"]
          /\ target' = [target EXCEPT ![t] = Audience]
      BY <2>3 DEF SendAudience, SenderGoes
    <3>2. CASE s = t
      <4>1. \A c \in Phones : job[RowOf(s, c)] = NoJob
        BY <1>0, <3>1, <3>2 DEF Unsent
      <4> QED BY <1>0, <3>1, <3>2, <4>1 DEF TypeOK
    <3>3. CASE s # t
      BY <1>0, <2>0, <3>1, <3>3 DEF TypeOK
    <3> QED BY <3>2, <3>3
  <2>4. ASSUME NEW t \in Senders, SendQueue(t)
        PROVE  /\ target'[s] \subseteq Audience
               /\ sender'[s] \in {"idle", "checked", "claimed"} => target'[s] = {}
               /\ \A c \in Phones : job'[RowOf(s, c)] # NoJob => c \in target'[s]
    <3>1. /\ UNCHANGED target /\ sender[t] = "queue"
          /\ sender' = sender \/ sender' = [sender EXCEPT ![t] = "done"]
      BY <2>4 DEF SendQueue, SenderGoes
    <3>2. ASSUME NEW c \in Phones, job'[RowOf(s, c)] # NoJob PROVE c \in target[s]
      <4>1. RowOf(s, c) \in Rows /\ RowOf(s, c)[1] = s /\ RowOf(s, c)[2] = c
        BY DEF RowOf, Rows
      <4>2. job'[RowOf(s, c)] = job[RowOf(s, c)] \/ (s = t /\ c \in target[t])
        BY <1>0, <2>4, <4>1, QueuedJobs
      <4> QED BY <2>0, <3>2, <4>2
    <3>3. sender'[s] \in {"idle", "checked", "claimed"} => sender[s] \in {"idle", "checked", "claimed"}
      BY <1>0, <3>1 DEF TypeOK
    <3> QED BY <2>0, <3>1, <3>2, <3>3
  <2>5. ASSUME NEW r \in Rows,
               \/ JobStart(r) \/ JobSend(r) \/ JobWriteRow(r) \/ JobWriteCount(r)
               \/ JobCheck(r) \/ JobComplete(r)
        PROVE  /\ target'[s] \subseteq Audience
               /\ sender'[s] \in {"idle", "checked", "claimed"} => target'[s] = {}
               /\ \A c \in Phones : job'[RowOf(s, c)] # NoJob => c \in target'[s]
    <3>1. UNCHANGED <<sender, target>>
      BY <2>5 DEF JobStart, JobSend, JobWriteRow, JobWriteCount, JobCheck, JobComplete, requests
    <3>2. PICK j \in Job : /\ job' = [job EXCEPT ![r] = j]
                           /\ job[r].at # "none"
      BY <1>0, <2>5, SteadyJob
    <3>3. ASSUME NEW c \in Phones, job'[RowOf(s, c)] # NoJob PROVE c \in target[s]
      <4>1. job[RowOf(s, c)] # NoJob
        BY <1>0, <3>2, <3>3 DEF TypeOK, NoJob, RowOf, Rows
      <4> QED BY <2>0, <4>1
    <3> QED BY <2>0, <3>1, <3>3
  <2> QED BY <2>1, <2>2, <2>3, <2>4, <2>5, SteadyCases
<1> QED BY <1>2, <1>3 DEF Gathered

LEMMA NextTallied ==
    ASSUME OnceInv, OnceInv', Gathered, Tallied, [SteadyNext]_vars
    PROVE  Tallied'
<1>0. TypeOK /\ WritesFollowSend /\ TypeOK' /\ WritesFollowSend'
  BY OnceParts DEF OnceInv
<1>00. /\ NoJob.at = "none" /\ Over("waiting").at = "waiting"
       /\ sentCount \in Nat /\ failedCount \in Nat /\ total \in Nat
  BY <1>0 DEF NoJob, Over, TypeOK
<1> USE <1>0
\* A step that counts nothing and completes nothing.
<1>1. ASSUME UNCHANGED <<total, sentCount, failedCount>>,
             \A r \in Rows : job'[r].at = "complete" => job[r].at = "complete" \/ Completes,
             \A r \in Rows : (Processed(r) /\ "count" \notin job[r].left)'
                              <=> (Processed(r) /\ "count" \notin job[r].left),
             status' = "completed" => status = "completed" \/ \E r \in Rows : job[r].at = "complete"
      PROVE  Tallied'
  <2>1. Counted' = Counted
    BY <1>1 DEF Counted
  <2>2. sentCount' + failedCount' = Cardinality(Counted)'
    BY <1>1, <2>1 DEF Tallied
  <2> QED BY <1>1, <2>2 DEF Tallied, Completes
<1>2. CASE UNCHANGED vars
  <2>1. UNCHANGED <<total, sentCount, failedCount, job, status>>
    BY <1>2 DEF vars, campaign
  <2> QED BY <1>1, <2>1 DEF Processed
<1>3. ASSUME NEW s \in Senders,
             SendCheck(s) \/ SendClaim(s) \/ SendAudience(s) \/ SendRows(s) \/ SendRowsRefused(s)
      PROVE  Tallied'
  <2>1. /\ UNCHANGED <<total, sentCount, failedCount, job>>
        /\ status' = "completed" => status = "completed"
    BY <1>3 DEF SendCheck, SendClaim, SendAudience, SendRows, SendRowsRefused, campaign
  <2> QED BY <1>1, <2>1 DEF Processed
<1>4. ASSUME NEW s \in Senders, SendQueue(s)
      PROVE  Tallied'
  <2>1. UNCHANGED <<total, sentCount, failedCount, status>>
    BY <1>4 DEF SendQueue, campaign
  <2>2. ASSUME NEW r \in Rows
        PROVE  job'[r] = job[r] \/ (job[r] = NoJob /\ job'[r] = Over("waiting"))
    BY <1>4, QueuedJobs
  <2>3. ASSUME NEW r \in Rows
        PROVE  /\ job'[r].at = "complete" => job[r].at = "complete"
               /\ (Processed(r) /\ "count" \notin job[r].left)'
                  <=> (Processed(r) /\ "count" \notin job[r].left)
    BY <1>00, <2>2 DEF Processed
  <2> QED BY <1>1, <2>1, <2>3
\* A job that goes on without being counted.
<1>5. ASSUME NEW r \in Rows, NEW j \in Job, job' = [job EXCEPT ![r] = j],
             UNCHANGED <<total, sentCount, failedCount>>,
             j.at = "complete" => Completes,
             j.at \in {"none", "waiting", "send"} \/ "count" \in j.left
                <=> (job[r].at \in {"none", "waiting", "send"} \/ "count" \in job[r].left),
             status' = "completed" => status = "completed" \/ job[r].at = "complete"
      PROVE  Tallied'
  <2>1. \A q \in Rows : job'[q] = (IF q = r THEN j ELSE job[q])
    BY <1>5 DEF TypeOK
  <2>2. ASSUME NEW q \in Rows
        PROVE  /\ job'[q].at = "complete" => job[q].at = "complete" \/ Completes
               /\ (Processed(q) /\ "count" \notin job[q].left)'
                  <=> (Processed(q) /\ "count" \notin job[q].left)
    BY <1>5, <2>1 DEF Processed
  <2> QED BY <1>1, <1>5, <2>2
<1>6. ASSUME NEW r \in Rows, JobStart(r) \/ JobSend(r) \/ JobCheck(r) \/ JobComplete(r)
      PROVE  Tallied'
  <2>1. PICK j \in Job :
             /\ job' = [job EXCEPT ![r] = j]
             /\ <<job[r].at, j.at>> \in
                  {<<"waiting", "send">>, <<"send", "sent">>, <<"send", "refused">>,
                   <<"sent", "sent">>, <<"refused", "refused">>, <<"sent", "check">>,
                   <<"refused", "check">>, <<"check", "complete">>, <<"check", "done">>,
                   <<"complete", "done">>}
             /\ job[r].at = "send" <=> JobSend(r)
             /\ job[r].at = "send" => j.left = {"row", "count"}
             /\ j.at = "send" \/ j.left \subseteq job[r].left \/ job[r].at = "send"
    BY <1>6, SteadyJob
  <2>2. /\ UNCHANGED <<total, sentCount, failedCount>>
        /\ status' = "completed" => status = "completed" \/ job[r].at = "complete"
    BY <1>6 DEF JobStart, JobSend, JobCheck, JobComplete, Ends, campaign
  <2>3. j.at = "complete" => Completes
    <3>1. CASE JobCheck(r)
      <4>1. CASE Ends(r, "check")
        <5>1. job'[r] = Over("done") /\ Over("done").at = "done"
          BY <4>1, OverValues DEF Ends, TypeOK, JobPoint
        <5> QED BY <2>1, <5>1 DEF TypeOK
      <4> QED BY <3>1, <4>1 DEF JobCheck
    <3>2. CASE JobStart(r) \/ JobSend(r) \/ JobComplete(r)
      <4>1. job[r].at \in {"waiting", "send", "complete"}
        BY <3>2 DEF JobStart, JobSend, JobComplete, Goes, BothWrites, Ends
      <4> QED BY <2>1, <4>1
    <3> QED BY <1>6, <3>1, <3>2
  <2>4. j.at \in {"none", "waiting", "send"} \/ "count" \in j.left
          <=> (job[r].at \in {"none", "waiting", "send"} \/ "count" \in job[r].left)
    <3>1. job[r].at \in {"waiting", "send", "check", "complete"}
      BY <1>6 DEF JobStart, JobSend, JobCheck, JobComplete, Goes, BothWrites, Ends
    <3>2. job[r].at \in {"check", "complete"} => job[r].left = {} /\ j.left = {}
      BY <2>1 DEF WritesFollowSend, TypeOK
    <3> QED BY <2>1, <3>1, <3>2
  <2> QED BY <1>5, <2>1, <2>2, <2>3, <2>4
<1>7. ASSUME NEW r \in Rows, JobWriteRow(r) \/ JobWriteCount(r)
      PROVE  Tallied'
  <2>0. PICK w \in {"row", "count"} : /\ Wrote(r, w)
                                      /\ w = "row" => JobWriteRow(r)
                                      /\ w = "count" => JobWriteCount(r)
    BY <1>7 DEF JobWriteRow, JobWriteCount
  <2>1. job[r] \in Job /\ job[r].at \in {"sent", "refused"} /\ w \in job[r].left
    BY <2>0 DEF TypeOK, Wrote, WritesFollowSend
  <2>2. PICK j : /\ j = [job[r] EXCEPT !.left = @ \ {w},
                                        !.at = IF job[r].left = {w} THEN "check" ELSE @]
                  /\ job' = [job EXCEPT ![r] = j]
    BY <2>0 DEF Wrote
  <2>3. /\ j \in Job /\ j.left = job[r].left \ {w}
        /\ j.at = (IF job[r].left = {w} THEN "check" ELSE job[r].at)
    BY <2>1, <2>2 DEF Job
  <2>4. CASE w = "row"
    <3>1. UNCHANGED <<total, sentCount, failedCount, status>>
      BY <2>0, <2>4 DEF JobWriteRow, campaign
    <3>2. j.at # "complete"
      BY <2>1, <2>3
    <3>3. j.at \in {"none", "waiting", "send"} \/ "count" \in j.left
          <=> (job[r].at \in {"none", "waiting", "send"} \/ "count" \in job[r].left)
      BY <2>1, <2>3, <2>4
    <3> QED BY <1>5, <2>2, <2>3, <3>1, <3>2, <3>3
  <2>5. CASE w = "count"
    <3>1. /\ UNCHANGED <<total, status>>
          /\ \/ sentCount' = sentCount + 1 /\ failedCount' = failedCount
             \/ sentCount' = sentCount /\ failedCount' = failedCount + 1
      BY <2>0, <2>5 DEF JobWriteCount
    <3>2. \A q \in Rows : job'[q] = (IF q = r THEN j ELSE job[q])
      BY <2>2 DEF TypeOK
    <3>3. r \notin Counted /\ Counted' = Counted \cup {r}
      BY <2>1, <2>3, <2>5, <3>2 DEF Counted, Processed
    <3>4. Cardinality(Counted') = Cardinality(Counted) + 1
      BY <3>3, CountedFinite, FS_AddElement
    <3>5. sentCount' + failedCount' = Cardinality(Counted)'
      BY <1>00, <3>1, <3>4, CountedFinite DEF Tallied
    <3>6. Completes => Completes'
      BY <1>00, <3>1 DEF Completes
    <3>7. ASSUME NEW q \in Rows, job'[q].at = "complete" PROVE job[q].at = "complete"
      BY <2>1, <2>3, <3>2, <3>7
    <3> QED BY <3>1, <3>5, <3>6, <3>7 DEF Tallied
  <2> QED BY <2>4, <2>5
<1> QED BY <1>2, <1>3, <1>4, <1>6, <1>7, SteadyCases

LEMMA NextCompletionInv == DeliveryInv /\ CompletionInv /\ [SteadyNext]_vars => CompletionInv'
<1> SUFFICES ASSUME DeliveryInv, CompletionInv, [SteadyNext]_vars PROVE CompletionInv'
  OBVIOUS
<1>1. OnceInv /\ Gathered /\ Tallied
  BY DEF CompletionInv, Gathered, Tallied
<1>2. OnceInv'
  BY <1>1, NextOnceInv
<1>3. Gathered'
  BY <1>1, NextGathered
<1>4. Tallied'
  BY <1>1, <1>2, NextTallied
<1> QED BY <1>2, <1>3, <1>4 DEF CompletionInv, Gathered, Tallied

\* As long as nothing fails and the campaign is sent by one request, the
\* counters complete it only when everybody of its audience was processed:
\* what is counted are rows of the audience, each once, and the audience is no
\* larger than what the campaign was created for.  (Two requests count two
\* rows of one contact, and the counters are full too early.)
THEOREM CompletedMeansProcessed ==
    ASSUME \A s, t \in Senders : s = t
    PROVE  SteadySpec => []CompletedIsProcessed
<1>1. CompletionInv => CompletedIsProcessed
  <2> SUFFICES ASSUME CompletionInv, status = "completed", NEW s \in Senders, NEW c \in target[s],
                      RowOf(s, c) \notin Counted
               PROVE  FALSE
    BY DEF CompletedIsProcessed, Counted, TypeOK, CompletionInv, OnceInv, RowOf, Rows
  <2>0. TypeOK /\ target[s] \subseteq Audience
    BY DEF CompletionInv, OnceInv
  <2>1. IsFiniteSet(leads) /\ IsFiniteSet(customers)
    BY <2>0, PeopleFinite
  <2>2. /\ IsFiniteSet(Audience) /\ Cardinality(Audience) \in Nat
        /\ Cardinality(Audience) <= total
    <3>1. IsFiniteSet(Audience) /\ Cardinality(Audience)
             = Cardinality(leads) + Cardinality(customers) - Cardinality(leads \cap customers)
      BY <2>1, FS_Union DEF Audience
    <3>2. /\ Cardinality(leads) \in Nat /\ Cardinality(customers) \in Nat
          /\ Cardinality(Audience) \in Nat
          /\ Cardinality(leads \cap customers) \in Nat
      BY <2>1, <3>1, FS_CardinalityType, FS_Intersection
    <3> QED BY <3>1, <3>2 DEF CompletionInv, PreviewCount
  <2>3. IsFiniteSet(target[s]) /\ Cardinality(target[s]) <= Cardinality(Audience)
        /\ Cardinality(target[s]) \in Nat
    BY <2>0, <2>2, FS_Subset, FS_CardinalityType
  <2>4. IsFiniteSet({s} \X target[s]) /\ Cardinality({s} \X target[s]) = Cardinality(target[s])
    <3>1. IsFiniteSet({s}) /\ Cardinality({s}) = 1
      BY FS_Singleton
    <3>2. /\ IsFiniteSet({s} \X target[s])
          /\ Cardinality({s} \X target[s]) = Cardinality({s}) * Cardinality(target[s])
      BY <2>3, <3>1, FS_Product
    <3>3. \A n \in Nat : 1 * n = n
      OBVIOUS
    <3> QED BY <2>3, <3>1, <3>2, <3>3
  <2>5. Counted \subseteq ({s} \X target[s]) \ {RowOf(s, c)}
    <3> SUFFICES ASSUME NEW r \in Counted PROVE r \in {s} \X target[s]
      OBVIOUS
    <3>1. PICK t \in Senders, d \in Phones : r = <<t, d>>
      BY DEF Counted, Rows
    <3>2. job[RowOf(t, d)] # NoJob
      BY <3>1 DEF Counted, Processed, NoJob, RowOf
    <3>3. d \in target[t] /\ t = s
      BY <3>2 DEF CompletionInv
    <3> QED BY <3>1, <3>3
  <2>6. Cardinality(({s} \X target[s]) \ {RowOf(s, c)}) = Cardinality(target[s]) - 1
        /\ IsFiniteSet(({s} \X target[s]) \ {RowOf(s, c)})
    <3>1. RowOf(s, c) \in {s} \X target[s]
      BY DEF RowOf
    <3> QED BY <2>4, <3>1, FS_RemoveElement
  <2>7. Cardinality(Counted) <= Cardinality(target[s]) - 1
    BY <2>5, <2>6, FS_Subset
  <2>8. Cardinality(Counted) >= total
    BY DEF CompletionInv, Completes
  <2> QED BY <2>0, <2>2, <2>3, <2>7, <2>8, CountedFinite DEF TypeOK
<1> QED BY <1>1, InitDeliveryInv, NextDeliveryInv, SteadyIsNext, InitCompletionInv,
           NextCompletionInv, PTL DEF SteadySpec
===============================================================================

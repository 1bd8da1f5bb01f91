------------------------- MODULE MessageDesks_proofs ---------------------------
(***************************************************************************)
(* Proofs that the services which prepare and record messages keep what    *)
(* MessageDesks says every step of each keeps, and that this is enough for *)
(* what Backoffice promises of them.                                       *)
(***************************************************************************)
EXTENDS MessageDesks, FiniteSetTheorems, SequenceTheorems, TLAPS

-----------------------------------------------------------------------------
(* SendPace                                                                *)

\* No call waits before the first one, and the first posts are apart.
LEMMA PaceStarts == Pace!Init => PaceInv
<1>1. MinDelay \in Nat BY MessageAssumption
<1> QED
  BY <1>1 DEF Pace!Init, PaceInv, Pace!PaceIsKept, Pace!Waiting, Pace!NoCall, Pace!Epoch

\* A call that begins waits until the last send is far enough.
LEMMA PaceCall ==
  ASSUME PaceInv, NEW c \in Callers, Pace!Call(c)
  PROVE  PaceInv'
<1>1. PICK b \in Businesses, kind \in Pace!MessageKinds, n \in Numbers :
        /\ calls' = [calls EXCEPT ![c] = [do |-> "wait", for |-> b, kind |-> kind, to |-> n, until |-> Pace!Until(b)]]
        /\ abreast' = IF Pace!Waiting(b) = {} THEN abreast ELSE abreast \cup {b}
  BY DEF Pace!Call
<1>2. UNCHANGED <<paceClock, lastSend, posted, misdialled>>
  BY DEF Pace!Call
<1> DEFINE k == [do |-> "wait", for |-> b, kind |-> kind, to |-> n, until |-> Pace!Until(b)]
<1>3. Pace!Until(b) \in Int /\ Pace!Until(b) >= lastSend[b] + MinDelay
  BY MessageAssumption DEF Pace!Until, PaceInv
<1>4. k.do = "wait" /\ k.for = b /\ k.to = n /\ k.until = Pace!Until(b)
  OBVIOUS
<1> HIDE DEF k
<1>5. /\ DOMAIN calls' = Callers /\ calls'[c] = k
      /\ \A d \in Callers \ {c} : calls'[d] = calls[d]
  BY <1>1 DEF k, PaceInv
<1>6. ASSUME NEW d \in Callers, calls'[d].do = "wait"
      PROVE  calls'[d].for \in Businesses /\ calls'[d].to \in Numbers /\ calls'[d].until \in Int
  BY <1>3, <1>4, <1>5, <1>6 DEF PaceInv
<1>7. ASSUME NEW e \in Businesses \ abreast', NEW d \in Pace!Waiting(e)'
      PROVE  calls'[d].until >= lastSend'[e] + MinDelay /\ \A f \in Pace!Waiting(e)' : d = f
  <2>1. e \notin abreast
    BY <1>1, <1>7
  <2>2. CASE e = b
    <3>1. Pace!Waiting(b) = {}
      BY <1>1, <2>2
    <3>2. \A f \in Pace!Waiting(e)' : f = c
      BY <1>5, <2>2, <3>1 DEF Pace!Waiting
    <3> QED
      BY <1>2, <1>3, <1>4, <1>5, <2>2, <3>2
  <2>3. CASE e # b
    BY <1>2, <1>4, <1>5, <2>1, <2>3 DEF Pace!Waiting, PaceInv
  <2> QED
    BY <2>2, <2>3
<1>8. Pace!PaceIsKept'
  BY <1>1, <1>2 DEF PaceInv, Pace!PaceIsKept
<1> QED
  BY <1>2, <1>5, <1>6, <1>7, <1>8 DEF PaceInv

\* The one call that waited posts when its time has come.
LEMMA PacePost ==
  ASSUME PaceInv, NEW c \in Callers, Pace!Post(c)
  PROVE  PaceInv'
<1> DEFINE b == calls[c].for
<1>1. /\ calls[c].do = "wait" /\ calls[c].until <= paceClock
      /\ lastSend' = [lastSend EXCEPT ![b] = paceClock]
      /\ posted' = [posted EXCEPT ![b] = [before |-> posted[b].last, last |-> paceClock]]
      /\ misdialled' = IF Pace!FormatNumber(calls[c].to).digits = 10 THEN misdialled \cup {calls[c].to} ELSE misdialled
      /\ calls' = [calls EXCEPT ![c] = Pace!NoCall]
      /\ UNCHANGED <<paceClock, abreast>>
  BY DEF Pace!Post
<1>2. b \in Businesses /\ calls[c].to \in Numbers /\ calls[c].until \in Int
  BY <1>1 DEF PaceInv
<1>3. c \in Pace!Waiting(b)
  BY <1>1 DEF Pace!Waiting
<1> HIDE DEF b
<1>4. /\ DOMAIN calls' = Callers /\ calls'[c].do = "idle"
      /\ \A d \in Callers \ {c} : calls'[d] = calls[d]
  BY <1>1 DEF PaceInv, Pace!NoCall
<1>5. ASSUME NEW e \in Businesses \ abreast', NEW d \in Pace!Waiting(e)'
      PROVE  calls'[d].until >= lastSend'[e] + MinDelay /\ \A f \in Pace!Waiting(e)' : d = f
  <2>1. d # c /\ d \in Pace!Waiting(e) /\ Pace!Waiting(e)' \subseteq Pace!Waiting(e)
    BY <1>4, <1>5 DEF Pace!Waiting
  <2>2. e # b
    BY <1>1, <1>3, <1>5, <2>1 DEF PaceInv
  <2> QED
    BY <1>1, <1>4, <1>5, <2>1, <2>2 DEF PaceInv
<1>6. /\ lastSend' \in [Businesses -> Int] /\ posted' \in [Businesses -> [before : Int, last : Int]]
      /\ lastSend'[b] = paceClock /\ posted'[b].last = paceClock /\ posted'[b].before = lastSend[b]
      /\ \A e \in Businesses \ {b} : lastSend'[e] = lastSend[e] /\ posted'[e] = posted[e]
  BY <1>1, <1>2 DEF PaceInv
<1>7. ASSUME b \notin abreast
      PROVE  paceClock - lastSend[b] >= MinDelay
  BY <1>1, <1>2, <1>3, <1>7, MessageAssumption DEF PaceInv
<1>8. \A n \in misdialled' : n.coded
  <2>1. Pace!FormatNumber(calls[c].to).digits = 10 => calls[c].to.coded
    BY <1>2, MessageAssumption DEF Pace!FormatNumber
  <2> QED
    BY <1>1, <2>1 DEF PaceInv, Pace!PaceIsKept
<1>9. Pace!PaceIsKept'
  BY <1>1, <1>6, <1>7, <1>8 DEF PaceInv, Pace!PaceIsKept
<1>10. ASSUME NEW d \in Callers, calls'[d].do = "wait"
       PROVE  calls'[d].for \in Businesses /\ calls'[d].to \in Numbers /\ calls'[d].until \in Int
  BY <1>4, <1>10 DEF PaceInv
<1> QED
  BY <1>1, <1>4, <1>5, <1>6, <1>9, <1>10 DEF PaceInv

LEMMA PaceKept ==
  ASSUME PaceInv, Pace!Next \/ UNCHANGED paceVars
  PROVE  PaceInv'
<1>1. CASE UNCHANGED paceVars
  BY <1>1 DEF paceVars, PaceInv, Pace!PaceIsKept, Pace!Waiting
<1>2. CASE Pace!Tick
  BY <1>2 DEF Pace!Tick, PaceInv, Pace!PaceIsKept, Pace!Waiting
<1> QED
  BY <1>1, <1>2, PaceCall, PacePost DEF Pace!Next

-----------------------------------------------------------------------------
(* LeadDesk                                                                *)

\* A row is no value that stands for none.
LEMMA LeadRows ==
  /\ NoLead \notin LeadRow
  /\ \A p \in Phones, src \in {"service", "channel"} : Lead!NewLead(p, src) \in LeadRow
  BY MessageAssumption DEF LeadRow, Lead!NewLead

LEMMA LeadStarts == Lead!Init => LeadInv
  BY DEF Lead!Init, LeadInv, LeadRow, Lead!NoDesk, Lead!DuplicatesAreFound, Lead!StatusIsExplained, Lead!Live

\* A lead that is new to the table finds nobody who refers to it.
LEMMA LeadAdded ==
  ASSUME LeadInv, NEW l \in Leads, leadRows[l] = NoLead, NEW p \in Phones, NEW src \in {"service", "channel"},
         leadRows' = [leadRows EXCEPT ![l] = Lead!NewLead(p, src)],
         checking' = IF src = "service" THEN checking \cup {l} ELSE checking,
         UNCHANGED <<dupes, history, desks, lapses, crowded>>
  PROVE  LeadInv'
<1>1. PICK row \in LeadRow : row = Lead!NewLead(p, src)
  BY LeadRows
<1>2. row.status = "new" /\ row.source = src /\ row # NoLead
  BY <1>1, LeadRows DEF Lead!NewLead
<1>3. /\ leadRows' \in [Leads -> LeadRow \cup {NoLead}] /\ leadRows'[l] = row
      /\ \A o \in Leads \ {l} : leadRows'[o] = leadRows[o]
  BY <1>1 DEF LeadInv
<1>4. Lead!DuplicatesAreFound'
  <2> SUFFICES ASSUME NEW a \in Leads, NEW o \in Leads,
                      Lead!Live(a)', Lead!Live(o)', leadRows'[a].source = "service", leadRows'[o].source = "service",
                      ~leadRows'[a].edited, ~leadRows'[o].edited,
                      a \notin checking' \cup lapses' \cup crowded', o \notin checking' \cup lapses' \cup crowded',
                      a # o, leadRows'[a].phone = leadRows'[o].phone
               PROVE  {a, o} \in dupes'
    BY DEF Lead!DuplicatesAreFound
  <2>1. a # l /\ o # l
    BY <1>2, <1>3
  <2>2. leadRows'[a] = leadRows[a] /\ leadRows'[o] = leadRows[o]
    BY <1>3, <2>1
  <2>3. Lead!Live(a) /\ Lead!Live(o) /\ a \notin checking \cup lapses \cup crowded /\ o \notin checking \cup lapses \cup crowded
    BY <2>2 DEF Lead!Live
  <2> QED
    BY <2>2, <2>3 DEF LeadInv, Lead!DuplicatesAreFound
<1>5. Lead!StatusIsExplained'
  BY <1>2, <1>3 DEF LeadInv, Lead!StatusIsExplained
<1>6. /\ checking' \cup lapses' \cup crowded' \subseteq {x \in Leads : leadRows'[x] # NoLead}
      /\ \A a \in Agents : desks'[a].at # "idle" =>
           desks'[a].lead \in Leads /\ leadRows'[desks'[a].lead] # NoLead /\ desks'[a].op # "none"
  BY <1>2, <1>3 DEF LeadInv
<1> QED
  BY <1>3, <1>4, <1>5, <1>6 DEF LeadInv

\* Unless there are more of them, or an insert fails, all duplicates are recorded.
LEMMA LeadCompared ==
  ASSUME LeadInv, NEW l \in Leads, Lead!CheckDuplicates(l)
  PROVE  LeadInv'
<1>1. PICK S \in SUBSET Lead!Matches(l) :
        /\ Lead!Cardinality(S) <= MaxMatches
        /\ dupes' = dupes \cup {{l, o} : o \in S}
        /\ lapses' = IF Lead!Cardinality(S) = MaxMatches \/ S = Lead!Matches(l) THEN lapses ELSE lapses \cup {l}
  BY DEF Lead!CheckDuplicates
<1>2. /\ l \in checking /\ checking' = checking \ {l} /\ UNCHANGED <<leadRows, history, desks>>
      /\ crowded' = IF Lead!Cardinality(Lead!Matches(l)) > MaxMatches THEN crowded \cup {l} ELSE crowded
  BY DEF Lead!CheckDuplicates
<1>3. ASSUME l \notin lapses' \cup crowded'
      PROVE  S = Lead!Matches(l)
  <2>1. IsFiniteSet(Lead!Matches(l))
    BY FS_Subset, MessageAssumption DEF Lead!Matches
  <2>2. Cardinality(Lead!Matches(l)) \in Nat /\ Cardinality(S) <= Cardinality(Lead!Matches(l))
        /\ (Cardinality(S) = Cardinality(Lead!Matches(l)) => S = Lead!Matches(l)) /\ Cardinality(S) \in Nat
    BY <2>1, FS_Subset, FS_CardinalityType
  <2>3. ASSUME NEW T PROVE Lead!Cardinality(T) = Cardinality(T)
    BY DEF Lead!Cardinality, Cardinality
  <2>4. Cardinality(Lead!Matches(l)) <= MaxMatches
    BY <1>2, <1>3, <2>2, <2>3, MessageAssumption
  <2>5. Cardinality(S) = MaxMatches \/ S = Lead!Matches(l)
    BY <1>1, <1>3, <2>3
  <2> QED
    BY <2>2, <2>4, <2>5, MessageAssumption
<1>4. Lead!DuplicatesAreFound'
  <2> SUFFICES ASSUME NEW a \in Leads, NEW o \in Leads,
                      Lead!Live(a)', Lead!Live(o)', leadRows'[a].source = "service", leadRows'[o].source = "service",
                      ~leadRows'[a].edited, ~leadRows'[o].edited,
                      a \notin checking' \cup lapses' \cup crowded', o \notin checking' \cup lapses' \cup crowded',
                      a # o, leadRows'[a].phone = leadRows'[o].phone
               PROVE  {a, o} \in dupes'
    BY DEF Lead!DuplicatesAreFound
  <2>1. Lead!Live(a) /\ Lead!Live(o) /\ lapses \subseteq lapses' /\ crowded \subseteq crowded'
    BY <1>1, <1>2 DEF Lead!Live
  <2>2. CASE a # l /\ o # l
    BY <1>1, <1>2, <2>1, <2>2 DEF LeadInv, Lead!DuplicatesAreFound
  <2>3. CASE a = l
    <3>1. o \in S
      BY <1>2, <1>3, <2>1, <2>3 DEF Lead!Matches
    <3> QED
      BY <1>1, <2>3, <3>1
  <2>4. CASE o = l
    <3>1. a \in S
      BY <1>2, <1>3, <2>1, <2>4 DEF Lead!Matches
    <3>2. {l, a} \in dupes' /\ {l, a} = {a, o}
      BY <1>1, <2>4, <3>1
    <3> QED
      BY <3>2
  <2> QED
    BY <2>2, <2>3, <2>4
<1>5. Lead!StatusIsExplained'
  BY <1>1, <1>2 DEF LeadInv, Lead!StatusIsExplained
<1>6. checking' \cup lapses' \cup crowded' \subseteq {x \in Leads : leadRows'[x] # NoLead}
  BY <1>1, <1>2 DEF LeadInv
<1> QED
  BY <1>2, <1>4, <1>5, <1>6 DEF LeadInv

\* What operation op of an agent makes of a row.
Becomes(row, new, op, to) ==
  /\ new \in LeadRow
  /\ ~new.edited => ~row.edited /\ new.phone = row.phone
  /\ new.source = row.source
  /\ ~new.deleted => ~row.deleted
  /\ row.converted => new.converted
  /\ new.status = IF op = "convert" THEN "won" ELSE IF op = "status" THEN to ELSE row.status
  /\ op = "convert" => new.converted

LEMMA LeadChanges ==
  ASSUME NEW row \in LeadRow, NEW p \in Phones, NEW to \in LeadStatuses \cup {"none"},
         NEW op \in {"update", "remove", "assign", "convert", "status"}, op = "status" => to \in LeadStatuses
  PROVE  Becomes(row, Lead!Changed(row, op, to, p), op, to)
<1>1. CASE op = "update" BY <1>1 DEF Lead!Changed, LeadRow, Becomes
<1>2. CASE op = "remove" BY <1>2 DEF Lead!Changed, LeadRow, Becomes
<1>3. CASE op = "assign" BY <1>3 DEF Lead!Changed, LeadRow, Becomes
<1>4. CASE op = "convert" BY <1>4 DEF Lead!Changed, LeadRow, Becomes
<1>5. CASE op = "status" BY <1>5 DEF Lead!Changed, LeadRow, Becomes
<1> QED
  BY <1>1, <1>2, <1>3, <1>4, <1>5

AgentDesk ==
  [at : {"idle", "write", "record"}, lead : Leads \cup {NoLead},
   op : {"none", "update", "remove", "assign", "convert", "status"}, to : LeadStatuses \cup {"none"}]

LEMMA LeadFound ==
  ASSUME LeadInv, NEW a \in Agents, NEW l \in Leads, Lead!FindOne(a, l)
  PROVE  LeadInv'
<1>1. PICK o \in Lead!Ops : desks' = [desks EXCEPT ![a] = [at |-> "write", lead |-> l, op |-> o.op, to |-> o.to]]
  BY DEF Lead!FindOne
<1>2. /\ desks[a] = Lead!NoDesk /\ leadRows[l] # NoLead
      /\ UNCHANGED <<leadRows, checking, dupes, history, lapses, crowded>>
  BY DEF Lead!FindOne, Lead!Live
<1>3. /\ o.op \in {"update", "remove", "assign", "convert", "status"} /\ o.to \in LeadStatuses \cup {"none"}
      /\ o.op = "status" => o.to \in LeadStatuses
  BY DEF Lead!Ops
<1>4. PICK d \in AgentDesk : d = [at |-> "write", lead |-> l, op |-> o.op, to |-> o.to]
  BY <1>3 DEF AgentDesk
<1>5. d.at = "write" /\ d.lead = l /\ d.op = o.op /\ d.to = o.to
  BY <1>4
<1>6. desks' \in [Agents -> AgentDesk] /\ desks'[a] = d /\ \A b \in Agents \ {a} : desks'[b] = desks[b]
  BY <1>1, <1>4 DEF LeadInv, AgentDesk
<1>7. \A b \in Agents :
        /\ desks'[b].at # "idle" =>
             desks'[b].lead \in Leads /\ leadRows'[desks'[b].lead] # NoLead /\ desks'[b].op # "none"
        /\ desks'[b].at = "record" \/ desks'[b].op = "status" => desks'[b].to \in LeadStatuses
  BY <1>2, <1>3, <1>5, <1>6 DEF LeadInv
<1>8. Lead!DuplicatesAreFound'
  BY <1>2 DEF LeadInv, Lead!DuplicatesAreFound, Lead!Live
<1>9. Lead!StatusIsExplained'
  BY <1>2, <1>6 DEF LeadInv, Lead!StatusIsExplained, Lead!NoDesk
<1> QED
  BY <1>2, <1>6, <1>7, <1>8, <1>9 DEF LeadInv, AgentDesk

\* Whatever an agent writes, the lead keeps its source, and a status is explained.
LEMMA LeadWritten ==
  ASSUME LeadInv, NEW a \in Agents, Lead!WriteLead(a)
  PROVE  LeadInv'
<1> DEFINE l == desks[a].lead
           op == desks[a].op
           to == desks[a].to
<1>1. PICK p \in Phones : leadRows' = [leadRows EXCEPT ![l] = Lead!Changed(leadRows[l], op, to, p)]
  BY DEF Lead!WriteLead
<1>2. /\ desks[a].at = "write" /\ UNCHANGED <<checking, dupes, history, lapses, crowded>>
      /\ desks' = [desks EXCEPT ![a] = IF op = "status" THEN [desks[a] EXCEPT !.at = "record"] ELSE Lead!NoDesk]
  BY DEF Lead!WriteLead
<1>3. /\ l \in Leads /\ leadRows[l] \in LeadRow /\ desks[a] \in AgentDesk
      /\ op \in {"update", "remove", "assign", "convert", "status"}
      /\ op = "status" => to \in LeadStatuses
      /\ to \in LeadStatuses \cup {"none"}
  BY <1>2 DEF LeadInv, AgentDesk
<1> DEFINE row == Lead!Changed(leadRows[l], op, to, p)
<1>4. /\ row \in LeadRow
      /\ ~row.edited => ~leadRows[l].edited /\ row.phone = leadRows[l].phone
      /\ row.source = leadRows[l].source
      /\ ~row.deleted => ~leadRows[l].deleted
      /\ leadRows[l].converted => row.converted
      /\ row.status = IF op = "convert" THEN "won" ELSE IF op = "status" THEN to ELSE leadRows[l].status
      /\ op = "convert" => row.converted
  <2>1. Becomes(leadRows[l], row, op, to)
    BY <1>1, <1>3, LeadChanges
  <2> QED
    BY <2>1 DEF Becomes
<1>5. PICK d \in AgentDesk :
        /\ desks' = [desks EXCEPT ![a] = d]
        /\ d.at = IF op = "status" THEN "record" ELSE "idle"
        /\ op = "status" => d.lead = l /\ d.to = to /\ d.op = "status"
        /\ d.op = "status" => op = "status"
  <2>1. CASE op = "status"
    <3>1. [desks[a] EXCEPT !.at = "record"] \in AgentDesk
      BY <1>3 DEF AgentDesk
    <3> WITNESS [desks[a] EXCEPT !.at = "record"] \in AgentDesk
    <3> QED BY <1>2, <1>3, <2>1 DEF AgentDesk
  <2>2. CASE op # "status"
    <3>1. Lead!NoDesk \in AgentDesk
      BY DEF AgentDesk, Lead!NoDesk
    <3> WITNESS Lead!NoDesk \in AgentDesk
    <3> QED BY <1>2, <2>2 DEF Lead!NoDesk
  <2> QED
    BY <2>1, <2>2
<1>a. leadRows' = [leadRows EXCEPT ![l] = row]
  BY <1>1
<1> HIDE DEF l, op, to, row
<1>6. /\ leadRows' \in [Leads -> LeadRow \cup {NoLead}] /\ leadRows'[l] = row /\ row # NoLead
      /\ \A o \in Leads \ {l} : leadRows'[o] = leadRows[o]
  BY <1>a, <1>3, <1>4, LeadRows DEF LeadInv
<1>7. desks' \in [Agents -> AgentDesk] /\ desks'[a] = d /\ \A b \in Agents \ {a} : desks'[b] = desks[b]
  BY <1>5 DEF LeadInv, AgentDesk
<1>8. \A b \in Agents :
        /\ desks'[b].at # "idle" =>
             desks'[b].lead \in Leads /\ leadRows'[desks'[b].lead] # NoLead /\ desks'[b].op # "none"
        /\ desks'[b].at = "record" \/ desks'[b].op = "status" => desks'[b].to \in LeadStatuses
  <2>1. \A o \in Leads : leadRows[o] # NoLead => leadRows'[o] # NoLead
    BY <1>6
  <2> QED
    BY <1>3, <1>5, <1>6, <1>7, <2>1 DEF LeadInv
<1>9. Lead!DuplicatesAreFound'
  <2> SUFFICES ASSUME NEW x \in Leads, NEW y \in Leads,
                      Lead!Live(x)', Lead!Live(y)', leadRows'[x].source = "service", leadRows'[y].source = "service",
                      ~leadRows'[x].edited, ~leadRows'[y].edited,
                      x \notin checking' \cup lapses' \cup crowded', y \notin checking' \cup lapses' \cup crowded',
                      x # y, leadRows'[x].phone = leadRows'[y].phone
               PROVE  {x, y} \in dupes'
    BY DEF Lead!DuplicatesAreFound
  <2>1. \A o \in {x, y} : /\ Lead!Live(o) /\ leadRows[o].source = "service" /\ ~leadRows[o].edited
                          /\ leadRows[o].phone = leadRows'[o].phone
    BY <1>4, <1>6, LeadRows, <1>3 DEF Lead!Live
  <2> QED
    BY <1>2, <2>1 DEF LeadInv, Lead!DuplicatesAreFound
<1>10. Lead!StatusIsExplained'
  <2> SUFFICES ASSUME NEW o \in Leads, leadRows'[o] # NoLead, o \notin lapses'
               PROVE  \/ leadRows'[o].status \in {"new"} \cup history'[o]
                      \/ leadRows'[o].status = "won" /\ leadRows'[o].converted
                      \/ \E b \in Agents : desks'[b].lead = o /\ desks'[b].at = "record" /\ desks'[b].to = leadRows'[o].status
    BY DEF Lead!StatusIsExplained
  <2>1. CASE o = l /\ op = "status"
    BY <1>4, <1>5, <1>6, <1>7, <2>1
  <2>2. CASE o = l /\ op = "convert"
    BY <1>4, <1>6, <2>2
  <2>3. CASE o # l \/ op \notin {"status", "convert"}
    <3>1. /\ leadRows[o] # NoLead /\ leadRows'[o].status = leadRows[o].status
          /\ leadRows[o].converted => leadRows'[o].converted
      BY <1>3, <1>4, <1>6, <2>3, LeadRows
    <3>2. \A b \in Agents : desks[b].at = "record" => desks'[b] = desks[b]
      BY <1>2, <1>7
    <3> QED
      BY <1>2, <3>1, <3>2 DEF LeadInv, Lead!StatusIsExplained
  <2> QED
    BY <2>1, <2>2, <2>3
<1>11. checking' \cup lapses' \cup crowded' \subseteq {x \in Leads : leadRows'[x] # NoLead}
  BY <1>2, <1>6 DEF LeadInv
<1> QED
  BY <1>2, <1>6, <1>7, <1>8, <1>9, <1>10, <1>11 DEF LeadInv, AgentDesk

\* A status is recorded, or known to be missing.
LEMMA LeadRecorded ==
  ASSUME LeadInv, NEW a \in Agents, Lead!RecordStatus(a)
  PROVE  LeadInv'
<1> DEFINE l == desks[a].lead
           to == desks[a].to
<1>1. /\ desks[a].at = "record" /\ UNCHANGED <<leadRows, checking, dupes, crowded>>
      /\ \/ history' = [history EXCEPT ![l] = history[l] \cup {to}] /\ UNCHANGED lapses
         \/ lapses' = lapses \cup {l} /\ UNCHANGED history
      /\ desks' = [desks EXCEPT ![a] = Lead!NoDesk]
  BY DEF Lead!RecordStatus
<1>2. l \in Leads /\ leadRows[l] # NoLead /\ to \in LeadStatuses
  BY <1>1 DEF LeadInv
<1> HIDE DEF l, to
<1>3. /\ desks' \in [Agents -> AgentDesk] /\ desks'[a] = Lead!NoDesk
      /\ \A b \in Agents \ {a} : desks'[b] = desks[b]
  <2>1. Lead!NoDesk \in AgentDesk
    BY DEF AgentDesk, Lead!NoDesk
  <2> QED
    BY <1>1, <2>1 DEF LeadInv, AgentDesk
<1>4. /\ history' \in [Leads -> SUBSET LeadStatuses] /\ lapses \subseteq lapses' /\ lapses' \subseteq lapses \cup {l}
      /\ \A o \in Leads : history[o] \subseteq history'[o]
      /\ l \in lapses' \/ to \in history'[l]
  BY <1>1, <1>2 DEF LeadInv
<1>5. Lead!DuplicatesAreFound'
  BY <1>1, <1>4 DEF LeadInv, Lead!DuplicatesAreFound, Lead!Live
<1>6. Lead!StatusIsExplained'
  <2> SUFFICES ASSUME NEW o \in Leads, leadRows'[o] # NoLead, o \notin lapses'
               PROVE  \/ leadRows'[o].status \in {"new"} \cup history'[o]
                      \/ leadRows'[o].status = "won" /\ leadRows'[o].converted
                      \/ \E b \in Agents : desks'[b].lead = o /\ desks'[b].at = "record" /\ desks'[b].to = leadRows'[o].status
    BY DEF Lead!StatusIsExplained
  <2>1. CASE \E b \in Agents : desks[b].lead = o /\ desks[b].at = "record" /\ desks[b].to = leadRows[o].status
    BY <1>1, <1>3, <1>4, <2>1 DEF l, to
  <2>2. CASE ~\E b \in Agents : desks[b].lead = o /\ desks[b].at = "record" /\ desks[b].to = leadRows[o].status
    BY <1>1, <1>4, <2>2 DEF LeadInv, Lead!StatusIsExplained
  <2> QED
    BY <2>1, <2>2
<1>7. /\ checking' \cup lapses' \cup crowded' \subseteq {x \in Leads : leadRows'[x] # NoLead}
      /\ leadRows' \in [Leads -> LeadRow \cup {NoLead}]
  BY <1>1, <1>2, <1>4 DEF LeadInv
<1>8. \A b \in Agents :
        /\ desks'[b].at # "idle" =>
             desks'[b].lead \in Leads /\ leadRows'[desks'[b].lead] # NoLead /\ desks'[b].op # "none"
        /\ desks'[b].at = "record" \/ desks'[b].op = "status" => desks'[b].to \in LeadStatuses
  BY <1>1, <1>3 DEF LeadInv, Lead!NoDesk
<1> QED
  BY <1>3, <1>4, <1>5, <1>6, <1>7, <1>8 DEF LeadInv, AgentDesk

LEMMA LeadKept ==
  ASSUME LeadInv, Lead!Next \/ UNCHANGED deskVars
  PROVE  LeadInv'
<1>1. CASE UNCHANGED deskVars
  BY <1>1 DEF deskVars, LeadInv, Lead!DuplicatesAreFound, Lead!StatusIsExplained, Lead!Live
<1>2. ASSUME NEW l \in Leads, Lead!CreateByService(l) \/ Lead!Arrive(l)
      PROVE  LeadInv'
  BY <1>2, LeadAdded DEF Lead!CreateByService, Lead!Arrive
<1> QED
  BY <1>1, <1>2, LeadCompared, LeadFound, LeadWritten, LeadRecorded DEF Lead!Next

-----------------------------------------------------------------------------
(* NotificationTemplates                                                   *)

Fields == {"key", "system", "active", "enabled", "text", "defined", "checked"}

Edit == [template : Templates \cup {Absent}, patch : Patches \cup {<<>>}, stale : BOOLEAN]

\* A row that stands as CheckedIsValid has it.
RowStands(row) ==
  Fields \subseteq DOMAIN row /\ row.checked \in BOOLEAN /\ (row.checked => Tmpl!Valid(row))

\* What is written leaves the row of a patch as valid as it was, but for content.
LEMMA Patching ==
  ASSUME NEW row, Fields \subseteq DOMAIN row, NEW p, DOMAIN p \subseteq {"key", "active", "enabled", "text", "defined"},
         NEW c \in BOOLEAN
  PROVE  LET new == [Tmpl!Patched(p, row) EXCEPT !.checked = c]
         IN  /\ Fields \subseteq DOMAIN new /\ new.checked = c /\ Tmpl!Patched(p, row).checked = row.checked
             /\ Tmpl!Valid(new) = Tmpl!Valid(Tmpl!Patched(p, row))
             /\ DOMAIN p \cap Tmpl!Content = {} => Tmpl!Valid(new) = Tmpl!Valid(row)
<1> DEFINE all == Tmpl!Patched(p, row)
           new == [all EXCEPT !.checked = c]
<1>1. /\ DOMAIN all = DOMAIN p \cup DOMAIN row
      /\ \A f \in DOMAIN all : all[f] = IF f \in DOMAIN p THEN p[f] ELSE row[f]
  BY DEF Tmpl!Patched
<1> HIDE DEF all
<1>2. /\ DOMAIN new = DOMAIN all /\ new["checked"] = c
      /\ \A f \in DOMAIN all \ {"checked"} : new[f] = all[f]
  BY <1>1 DEF Fields
<1> HIDE DEF new
<1>3. /\ new.enabled = all.enabled /\ new.text = all.text /\ new.defined = all.defined
      /\ all.checked = row.checked
  BY <1>1, <1>2 DEF Fields
<1>4. DOMAIN p \cap Tmpl!Content = {} => /\ new.enabled = row.enabled /\ new.text = row.text /\ new.defined = row.defined
  BY <1>1, <1>3 DEF Fields, Tmpl!Content
<1>5. Tmpl!Valid(new) = Tmpl!Valid(all)
  BY <1>3 DEF Tmpl!Valid
<1>6. DOMAIN p \cap Tmpl!Content = {} => Tmpl!Valid(new) = Tmpl!Valid(row)
  BY <1>4 DEF Tmpl!Valid
<1>7. Fields \subseteq DOMAIN new /\ new.checked = c
  BY <1>1, <1>2
<1> QED
  BY <1>3, <1>5, <1>6, <1>7 DEF new, all

\* A write that leaves rows that stand, and makes the updates stale that were
\* validated against them.
LEMMA TemplatesWritten ==
  ASSUME TmplInv, NEW S \in SUBSET Templates, DOMAIN templates' = Templates,
         \A t \in Templates \ S : templates'[t] = templates[t],
         \A t \in S : templates'[t] = Absent \/ RowStands(templates'[t]),
         edits' \in [Editors -> Edit],
         \A e \in Editors : edits'[e].template # Absent /\ ~edits'[e].stale =>
           edits'[e] = edits[e] /\ edits[e].template \notin S
  PROVE  TmplInv'
<1>1. \A t \in Templates : templates'[t] # Absent => RowStands(templates'[t])
  <2> SUFFICES ASSUME NEW t \in Templates, templates'[t] # Absent
               PROVE  RowStands(templates'[t])
    OBVIOUS
  <2>1. CASE t \in S
    BY <2>1
  <2>2. CASE t \notin S
    BY <2>2 DEF TmplInv, Tmpl!CheckedIsValid, RowStands, Fields
  <2> QED
    BY <2>1, <2>2
<1>2. Tmpl!CheckedIsValid'
  BY <1>1 DEF Tmpl!CheckedIsValid, RowStands
<1>3. ASSUME NEW e \in Editors, edits'[e].template # Absent, ~edits'[e].stale,
             DOMAIN edits'[e].patch \cap Tmpl!Content # {}
      PROVE  Tmpl!Valid(Tmpl!Patched(edits'[e].patch, templates'[edits'[e].template]))
  <2>1. edits'[e] = edits[e] /\ edits[e].template \in Templates \ S
    BY <1>3 DEF TmplInv
  <2>2. templates'[edits[e].template] = templates[edits[e].template]
    BY <2>1
  <2> QED
    BY <1>3, <2>1, <2>2 DEF TmplInv
<1> QED
  BY <1>1, <1>2, <1>3 DEF TmplInv, Edit, RowStands, Fields

LEMMA TemplatesStay ==
  ASSUME TmplInv, DOMAIN templates' = Templates, \A t \in Templates : templates'[t] = templates[t],
         edits' \in [Editors -> Edit],
         \A e \in Editors : edits'[e].template # Absent /\ ~edits'[e].stale => edits'[e] = edits[e]
  PROVE  TmplInv'
<1>1. {} \in SUBSET Templates /\ (\A t \in Templates \ {} : templates'[t] = templates[t])
  OBVIOUS
<1>2. \A t \in {} : templates'[t] = Absent \/ RowStands(templates'[t])
  OBVIOUS
<1>3. \A e \in Editors : edits'[e].template # Absent /\ ~edits'[e].stale =>
        edits'[e] = edits[e] /\ edits[e].template \notin {}
  OBVIOUS
<1> QED
  BY <1>1, <1>2, <1>3, TemplatesWritten

LEMMA TmplStarts == Tmpl!Init => TmplInv
  BY DEF Tmpl!Init, TmplInv, Tmpl!NoEdit, Tmpl!CheckedIsValid

\* Whoever validated an update of t before t was written is late.
LEMMA WrittenOutdates ==
  ASSUME TmplInv, NEW t
  PROVE  /\ Tmpl!Written(t) \in [Editors -> Edit]
         /\ \A e \in Editors : Tmpl!Written(t)[e].template # Absent /\ ~Tmpl!Written(t)[e].stale =>
              Tmpl!Written(t)[e] = edits[e] /\ edits[e].template # t
<1>0. PICK f : f = Tmpl!Written(t)
  OBVIOUS
<1>1. \A e \in Editors : edits[e] \in Edit
  BY DEF TmplInv, Edit
<1>2. \A e \in Editors : f[e] = [edits[e] EXCEPT !.stale = edits[e].stale \/ edits[e].template = t]
  BY <1>0 DEF Tmpl!Written
<1>3. \A e \in Editors : /\ f[e] \in Edit /\ f[e].template = edits[e].template
                         /\ f[e].stale = (edits[e].stale \/ edits[e].template = t)
                         /\ f[e].patch = edits[e].patch
  BY <1>1, <1>2 DEF Edit
<1>4. \A e \in Editors : ~f[e].stale => f[e] = edits[e] /\ edits[e].template # t
  BY <1>1, <1>2, <1>3 DEF Edit
<1>5. f \in [Editors -> Edit]
  <2>1. f = [e \in Editors |-> [edits[e] EXCEPT !.stale = edits[e].stale \/ edits[e].template = t]]
    BY <1>0 DEF Tmpl!Written
  <2> QED
    BY <1>3, <2>1
<1> QED
  BY <1>0, <1>4, <1>5

\* A new row, valid if it says that it was checked.
LEMMA TmplAdds ==
  ASSUME TmplInv, NEW t \in Templates, Tmpl!Create(t) \/ Tmpl!Insert(t)
  PROVE  TmplInv'
<1>1. \E row : RowStands(row) /\ templates' = [templates EXCEPT ![t] = row]
  <2>1. CASE Tmpl!Create(t)
    <3>1. PICK k \in Keys, s \in BOOLEAN, on \in SUBSET Channels, x \in NewTexts, d \in SUBSET Variables :
            LET row == [key |-> k, system |-> s, active |-> TRUE, enabled |-> on, text |-> x, defined |-> d, checked |-> TRUE]
            IN  Tmpl!Valid(row) /\ templates' = [templates EXCEPT ![t] = row]
      BY <2>1 DEF Tmpl!Create
    <3> DEFINE row == [key |-> k, system |-> s, active |-> TRUE, enabled |-> on, text |-> x, defined |-> d, checked |-> TRUE]
    <3>2. RowStands(row)
      BY <3>1 DEF RowStands, Fields
    <3> QED
      BY <3>1, <3>2
  <2>2. CASE Tmpl!Insert(t)
    <3>1. PICK k \in Keys, on \in SUBSET Channels, x \in NewTexts, d \in SUBSET Variables :
            templates' = [templates EXCEPT ![t] = [key |-> k, system |-> FALSE, active |-> TRUE, enabled |-> on,
                                                   text |-> x, defined |-> d, checked |-> FALSE]]
      BY <2>2 DEF Tmpl!Insert
    <3> DEFINE row == [key |-> k, system |-> FALSE, active |-> TRUE, enabled |-> on, text |-> x, defined |-> d, checked |-> FALSE]
    <3>2. RowStands(row)
      BY DEF RowStands, Fields
    <3> QED
      BY <3>1, <3>2
  <2> QED
    BY <2>1, <2>2
<1>2. PICK row : RowStands(row) /\ templates' = [templates EXCEPT ![t] = row]
  BY <1>1
<1>3. UNCHANGED edits /\ \A e \in Editors : edits[e].template # t
  BY DEF Tmpl!Create, Tmpl!Insert, Tmpl!Unknown
<1>4. /\ DOMAIN templates' = Templates /\ templates'[t] = row
      /\ \A u \in Templates \ {t} : templates'[u] = templates[u]
  BY <1>2 DEF TmplInv
<1>5. edits' \in [Editors -> Edit]
  BY <1>3 DEF TmplInv, Edit
<1>6. \A u \in {t} : templates'[u] = Absent \/ RowStands(templates'[u])
  BY <1>2, <1>4
<1>7. \A e \in Editors : edits'[e].template # Absent /\ ~edits'[e].stale =>
        edits'[e] = edits[e] /\ edits[e].template \notin {t}
  BY <1>3
<1> QED
  BY <1>4, <1>5, <1>6, <1>7, TemplatesWritten

\* What an update writes to the row of t.
LEMMA PatchWritten ==
  ASSUME TmplInv, NEW t \in Templates, templates[t] # Absent, NEW p \in Patches \cup {<<>>}, NEW valid \in BOOLEAN,
         templates' = [templates EXCEPT ![t] = Tmpl!Rewritten(p, templates[t], valid)],
         valid => Tmpl!Valid(Tmpl!Patched(p, templates[t])),
         edits' \in [Editors -> Edit],
         \A e \in Editors : edits'[e].template # Absent /\ ~edits'[e].stale =>
           edits'[e] = edits[e] /\ edits[e].template # t
  PROVE  TmplInv'
<1>1. PICK c \in BOOLEAN : c = (valid \/ (templates[t].checked /\ DOMAIN p \cap Tmpl!Content = {}))
  OBVIOUS
<1> DEFINE new == [Tmpl!Patched(p, templates[t]) EXCEPT !.checked = c]
<1>2. RowStands(templates[t]) /\ DOMAIN p \subseteq {"key", "active", "enabled", "text", "defined"}
  BY MessageAssumption DEF TmplInv, Tmpl!CheckedIsValid, RowStands, Fields
<1>3. /\ Fields \subseteq DOMAIN new /\ new.checked = c
      /\ Tmpl!Valid(new) = Tmpl!Valid(Tmpl!Patched(p, templates[t]))
      /\ DOMAIN p \cap Tmpl!Content = {} => Tmpl!Valid(new) = Tmpl!Valid(templates[t])
  BY <1>2, Patching DEF RowStands
<1>4. templates' = [templates EXCEPT ![t] = new]
  BY <1>1 DEF Tmpl!Rewritten
<1> HIDE DEF new
<1>5. RowStands(new)
  BY <1>1, <1>2, <1>3 DEF RowStands
<1>6. /\ DOMAIN templates' = Templates /\ templates'[t] = new
      /\ \A u \in Templates \ {t} : templates'[u] = templates[u]
  BY <1>4 DEF TmplInv
<1>7. \A u \in {t} : templates'[u] = Absent \/ RowStands(templates'[u])
  BY <1>5, <1>6
<1>8. \A e \in Editors : edits'[e].template # Absent /\ ~edits'[e].stale =>
        edits'[e] = edits[e] /\ edits[e].template \notin {t}
  OBVIOUS
<1> QED
  BY <1>6, <1>7, <1>8, TemplatesWritten

LEMMA TmplOverwrites ==
  ASSUME TmplInv, NEW t \in Templates, NEW p \in Patches, Tmpl!Overwrite(t, p)
  PROVE  TmplInv'
<1>1. templates[t] # Absent /\ edits' = Tmpl!Written(t)
      /\ templates' = [templates EXCEPT ![t] = Tmpl!Rewritten(p, templates[t], FALSE)]
  BY DEF Tmpl!Overwrite
<1>2. /\ edits' \in [Editors -> Edit]
      /\ \A e \in Editors : edits'[e].template # Absent /\ ~edits'[e].stale =>
           edits'[e] = edits[e] /\ edits[e].template # t
  BY <1>1, WrittenOutdates
<1> QED
  BY <1>1, <1>2, PatchWritten

\* What was validated against the row as it still is, is written as valid.
LEMMA TmplUpdates ==
  ASSUME TmplInv, NEW e \in Editors, Tmpl!Update(e)
  PROVE  TmplInv'
<1> DEFINE t == edits[e].template
           p == edits[e].patch
           whole == DOMAIN p \cap Tmpl!Content # {} /\ ~edits[e].stale
<1>1. edits \in [Editors -> Edit] /\ Tmpl!NoEdit \in Edit /\ Tmpl!NoEdit.template = Absent
  BY DEF TmplInv, Edit, Tmpl!NoEdit
<1>2. p \in Patches \cup {<<>>} /\ t \in Templates \cup {Absent}
  BY <1>1 DEF Edit
<1>3. CASE /\ templates' = [templates EXCEPT ![t] = Tmpl!Rewritten(p, templates[t], whole)]
           /\ edits' = [Tmpl!Written(t) EXCEPT ![e] = Tmpl!NoEdit]
           /\ templates[t] # Absent
  <2>1. PICK f : f = Tmpl!Written(t)
    OBVIOUS
  <2>2. /\ f \in [Editors -> Edit]
        /\ \A d \in Editors : f[d].template # Absent /\ ~f[d].stale =>
             f[d] = edits[d] /\ edits[d].template # t
    BY <2>1, WrittenOutdates
  <2>3. edits' = [f EXCEPT ![e] = Tmpl!NoEdit]
    BY <1>3, <2>1
  <2>4. /\ edits' \in [Editors -> Edit]
        /\ \A d \in Editors : edits'[d].template # Absent /\ ~edits'[d].stale =>
             edits'[d] = edits[d] /\ edits[d].template # t
    BY <1>1, <2>2, <2>3
  <2>5. CASE t \in Templates
    <3>1. PICK valid \in BOOLEAN : valid = whole
      OBVIOUS
    <3>2. valid => Tmpl!Valid(Tmpl!Patched(p, templates[t]))
      BY <1>3, <2>5, <3>1, MessageAssumption DEF TmplInv
    <3>3. templates' = [templates EXCEPT ![t] = Tmpl!Rewritten(p, templates[t], valid)]
      BY <1>3, <3>1
    <3> HIDE DEF t, p, whole
    <3> QED
      BY <1>2, <1>3, <2>4, <2>5, <3>2, <3>3, PatchWritten
  <2>6. CASE t = Absent
    <3>1. DOMAIN templates' = Templates /\ \A u \in Templates : templates'[u] = templates[u]
      BY <1>3, <2>6, MessageAssumption DEF TmplInv
    <3> QED
      BY <2>4, <3>1, TemplatesStay
  <2> QED
    BY <1>2, <2>5, <2>6
<1>4. CASE edits' = [edits EXCEPT ![e] = Tmpl!NoEdit] /\ UNCHANGED templates
  <2>1. /\ edits' \in [Editors -> Edit]
        /\ \A d \in Editors : edits'[d].template # Absent /\ ~edits'[d].stale =>
             edits'[d] = edits[d]
    BY <1>1, <1>4
  <2> QED
    BY <1>4, <2>1, TemplatesStay DEF TmplInv
<1> QED
  BY <1>3, <1>4 DEF Tmpl!Update

\* An update is validated together with the row it will be written to.
LEMMA TmplPrepares ==
  ASSUME TmplInv, NEW e \in Editors, NEW t \in Templates, NEW p \in Patches, Tmpl!Prepare(e, t, p)
  PROVE  TmplInv'
<1>1. /\ UNCHANGED templates /\ edits' = [edits EXCEPT ![e] = [template |-> t, patch |-> p, stale |-> FALSE]]
      /\ DOMAIN p \cap Tmpl!Content # {} => Tmpl!Valid(Tmpl!Patched(p, templates[t]))
  BY DEF Tmpl!Prepare
<1>2. PICK n \in Edit : n = [template |-> t, patch |-> p, stale |-> FALSE]
  BY DEF Edit
<1>3. n.template = t /\ n.patch = p
  BY <1>2
<1>4. /\ edits' \in [Editors -> Edit] /\ edits'[e] = n
      /\ \A d \in Editors \ {e} : edits'[d] = edits[d]
  BY <1>1, <1>2 DEF TmplInv, Edit
<1>5. ASSUME NEW d \in Editors, edits'[d].template # Absent, ~edits'[d].stale,
             DOMAIN edits'[d].patch \cap Tmpl!Content # {}
      PROVE  Tmpl!Valid(Tmpl!Patched(edits'[d].patch, templates'[edits'[d].template]))
  <2>1. CASE d = e
    BY <1>1, <1>3, <1>4, <1>5, <2>1
  <2>2. CASE d # e
    BY <1>1, <1>4, <1>5, <2>2 DEF TmplInv
  <2> QED
    BY <2>1, <2>2
<1>6. Tmpl!CheckedIsValid'
  BY <1>1 DEF TmplInv, Tmpl!CheckedIsValid
<1> QED
  BY <1>1, <1>4, <1>5, <1>6 DEF TmplInv, Edit

LEMMA TmplDeletes ==
  ASSUME TmplInv, NEW t \in Templates, Tmpl!Delete(t)
  PROVE  TmplInv'
<1>1. templates' = [templates EXCEPT ![t] = Absent] /\ edits' = Tmpl!Written(t)
  BY DEF Tmpl!Delete
<1>2. /\ DOMAIN templates' = Templates
      /\ \A u \in Templates \ {t} : templates'[u] = templates[u]
      /\ \A u \in {t} : templates'[u] = Absent \/ RowStands(templates'[u])
  BY <1>1 DEF TmplInv
<1>3. /\ edits' \in [Editors -> Edit]
      /\ \A e \in Editors : edits'[e].template # Absent /\ ~edits'[e].stale =>
           edits'[e] = edits[e] /\ edits[e].template \notin {t}
  BY <1>1, WrittenOutdates
<1> QED
  BY <1>2, <1>3, TemplatesWritten

\* Rows that are switched stay as valid as they were.
LEMMA TmplBulk ==
  ASSUME TmplInv, NEW S \in SUBSET Templates, Tmpl!Bulk(S)
  PROVE  TmplInv'
<1>1. /\ \A t \in S : templates[t] # Absent
      /\ edits' = [e \in Editors |-> [edits[e] EXCEPT !.stale = edits[e].stale \/ edits[e].template \in S]]
  BY DEF Tmpl!Bulk
<1>2. \A e \in Editors : edits[e] \in Edit
  BY DEF TmplInv, Edit
<1>3. \A e \in Editors : [edits[e] EXCEPT !.stale = edits[e].stale \/ edits[e].template \in S] \in Edit
  BY <1>2 DEF Edit
<1>4. edits' \in [Editors -> Edit]
  BY <1>1, <1>3
<1>5. \A e \in Editors : edits'[e].template # Absent /\ ~edits'[e].stale =>
        edits'[e] = edits[e] /\ edits[e].template \notin S
  <2> SUFFICES ASSUME NEW e \in Editors, ~edits'[e].stale
               PROVE  edits'[e] = edits[e] /\ edits[e].template \notin S
    OBVIOUS
  <2>1. edits'[e] = [edits[e] EXCEPT !.stale = edits[e].stale \/ edits[e].template \in S]
    BY <1>1
  <2>2. /\ edits'[e].template = edits[e].template /\ edits'[e].patch = edits[e].patch
        /\ edits'[e].stale = (edits[e].stale \/ edits[e].template \in S)
    BY <1>2, <2>1 DEF Edit
  <2> QED
    BY <1>2, <1>4, <2>2 DEF Edit
<1>6. CASE \E on \in BOOLEAN :
             templates' = [t \in Templates |-> IF t \in S THEN [templates[t] EXCEPT !.active = on] ELSE templates[t]]
  <2>1. PICK on \in BOOLEAN :
             templates' = [t \in Templates |-> IF t \in S THEN [templates[t] EXCEPT !.active = on] ELSE templates[t]]
    BY <1>6
  <2>2. ASSUME NEW t \in S PROVE RowStands(templates'[t])
    <3>1. RowStands(templates[t])
      BY <1>1 DEF TmplInv, Tmpl!CheckedIsValid, RowStands, Fields
    <3>2. PICK row : row = templates[t]
      OBVIOUS
    <3>3. PICK new : new = [row EXCEPT !.active = on]
      OBVIOUS
    <3>4. templates'[t] = new
      BY <2>1, <2>2, <3>2, <3>3
    <3>5. /\ DOMAIN new = DOMAIN row
          /\ \A f \in DOMAIN row \ {"active"} : new[f] = row[f]
      BY <3>3
    <3>6. /\ new.checked = row.checked /\ new.enabled = row.enabled /\ new.text = row.text
          /\ new.defined = row.defined /\ Fields \subseteq DOMAIN new
      BY <3>1, <3>2, <3>5 DEF RowStands, Fields
    <3>7. Tmpl!Valid(new) = Tmpl!Valid(row)
      BY <3>6 DEF Tmpl!Valid
    <3> QED
      BY <3>1, <3>2, <3>4, <3>6, <3>7 DEF RowStands
  <2>3. DOMAIN templates' = Templates /\ \A t \in Templates \ S : templates'[t] = templates[t]
    BY <2>1
  <2> QED
    BY <1>4, <1>5, <2>2, <2>3, TemplatesWritten
<1>7. CASE templates' = [t \in Templates |-> IF t \in S THEN Absent ELSE templates[t]]
  <2>1. /\ DOMAIN templates' = Templates /\ (\A t \in Templates \ S : templates'[t] = templates[t])
        /\ \A t \in S : templates'[t] = Absent \/ RowStands(templates'[t])
    BY <1>7
  <2> QED
    BY <1>4, <1>5, <2>1, TemplatesWritten
<1> QED
  BY <1>6, <1>7 DEF Tmpl!Bulk

LEMMA TmplKept ==
  ASSUME TmplInv, Tmpl!Next \/ UNCHANGED templateVars
  PROVE  TmplInv'
<1>1. ASSUME UNCHANGED <<templates, edits>> PROVE TmplInv'
  BY <1>1 DEF TmplInv, Tmpl!CheckedIsValid
<1>2. ASSUME NEW t \in Templates, Tmpl!Refer(t) PROVE UNCHANGED <<templates, edits>>
  BY <1>2 DEF Tmpl!Refer
<1> QED
  BY <1>1, <1>2, TmplAdds, TmplOverwrites, TmplUpdates, TmplPrepares, TmplDeletes, TmplBulk DEF Tmpl!Next, templateVars

\* What is required is given, and what has a default is replaced by it.
LEMMA CheckedIsPreviewed ==
  ASSUME Tmpl!CheckedIsValid
  PROVE  Tmpl!PreviewIsComplete
  BY DEF Tmpl!CheckedIsValid, Tmpl!PreviewIsComplete, Tmpl!Valid, Tmpl!CanPreview, Tmpl!Accepts, Tmpl!Remaining

-----------------------------------------------------------------------------
(* StaffInbox                                                              *)


LEMMA InboxStarts == Inbox!Init => InboxInv
<1> SUFFICES ASSUME Inbox!Init PROVE InboxInv
  OBVIOUS
<1>1. Inbox!AtRest \in Clerk /\ Inbox!AtRest.at = "rest" /\ Inbox!AtRest.thread = NoThread
  BY DEF Inbox!AtRest, Clerk
<1>2. InboxTyped
  BY <1>1 DEF Inbox!Init, InboxTyped
<1>3. \A c \in Clerks : clerks[c] = Inbox!AtRest
  BY DEF Inbox!Init
<1>4. \A t \in Threads : threads[t] = NoThread
  BY DEF Inbox!Init
<1> QED
  BY <1>1, <1>2, <1>3, <1>4, MessageAssumption DEF InboxInv, ClerkFits, OneWriter, LastIsThere, LastIsRight, Writes

\* A step of clerk c on conversation t leaves the other conversations alone.
LEMMA OneConversation ==
  ASSUME InboxInv, NEW c \in Clerks, NEW t \in Threads, NEW k \in Clerk, clerks' = [clerks EXCEPT ![c] = k],
         clerks[c].thread \in {t, NoThread}, k.thread \in {t, NoThread},
         k.at # "rest" => k.thread \in Threads,
         k.at \in {"first", "insert", "update"} => k.text \in Letters,
         DOMAIN threads' = Threads, letters' \in [Threads -> Seq(Letters)],
         threads'[t] # NoThread => {"status", "last", "unread"} \subseteq DOMAIN threads'[t],
         \A u \in Threads \ {t} : threads'[u] = threads[u] /\ letters'[u] = letters[u],
         \A u \in Threads \ {t} : (u \in raced' <=> u \in raced) /\ (u \in torn' <=> u \in torn),
         OneWriter(t)', LastIsThere(t)', LastIsRight(t)'
  PROVE  InboxInv'
<1>1. /\ clerks' \in [Clerks -> Clerk] /\ clerks'[c] = k /\ \A d \in Clerks \ {c} : clerks'[d] = clerks[d]
  BY DEF InboxInv, InboxTyped
<1>2. InboxTyped'
  BY <1>1 DEF InboxInv, InboxTyped
<1>3. ASSUME NEW d \in Clerks PROVE ClerkFits(d)'
  BY <1>1 DEF InboxInv, ClerkFits
<1>4. ASSUME NEW u \in Threads, u # t
      PROVE  OneWriter(u)' /\ LastIsThere(u)' /\ LastIsRight(u)'
  <2>1. /\ u # NoThread /\ clerks[c].thread # u /\ clerks'[c].thread # u
        /\ threads'[u] = threads[u] /\ letters'[u] = letters[u]
        /\ (u \in raced' <=> u \in raced) /\ (u \in torn' <=> u \in torn)
    BY <1>1, <1>4, MessageAssumption
  <2>2. \A d \in Clerks : (clerks'[d].thread = u) <=> (clerks[d].thread = u)
    BY <1>1, <2>1
  <2>3. \A d \in Clerks : clerks'[d].thread = u => clerks'[d] = clerks[d]
    BY <1>1, <2>1
  <2>4. \A d \in Clerks : Writes(d, u)' <=> Writes(d, u)
    BY <2>2, <2>3 DEF Writes
  <2>5. Latest(u)' = Latest(u) /\ \A x : Stored(u, x)' <=> Stored(u, x)
    BY <2>1 DEF Latest, Stored, Inbox!Last
  <2>6. OneWriter(u)'
    BY <2>1, <2>4 DEF InboxInv, OneWriter
  <2>7. LastIsThere(u)'
    BY <2>1, <2>2, <2>3, <2>5 DEF InboxInv, LastIsThere
  <2>8. LastIsRight(u)'
    BY <2>1, <2>2, <2>3, <2>4, <2>5 DEF InboxInv, LastIsRight
  <2> QED
    BY <2>6, <2>7, <2>8
<1> QED
  BY <1>2, <1>3, <1>4 DEF InboxInv

LEMMA RestingClerk ==
  Inbox!AtRest \in Clerk /\ Inbox!AtRest.at = "rest" /\ Inbox!AtRest.thread = NoThread
  BY DEF Inbox!AtRest, Clerk

\* A second writer makes a race of it; a first one finds the latest message listed.
LEMMA InboxBegins ==
  ASSUME InboxInv, NEW c \in Clerks, NEW t \in Threads, threads[t] # NoThread,
         NEW step \in {"insert", "mark", "change", "delete"}, NEW x \in Letters \cup {NoThread},
         step = "insert" => x \in Letters, Inbox!Begin(c, t, step, x), UNCHANGED <<threads, letters, torn>>
  PROVE  InboxInv'
<1>1. PICK k \in Clerk : k = [at |-> step, thread |-> t, text |-> x]
  BY DEF Clerk
<1>2. k.at = step /\ k.thread = t /\ k.text = x
  BY <1>1
<1>3. /\ clerks[c] = Inbox!AtRest /\ clerks' = [clerks EXCEPT ![c] = k]
      /\ raced' = IF \E d, e \in Inbox!Writers(t, clerks') : d # e THEN raced \cup {t} ELSE raced
  BY <1>1 DEF Inbox!Begin
<1>4. /\ clerks'[c] = k /\ \A d \in Clerks \ {c} : clerks'[d] = clerks[d]
      /\ clerks[c].thread = NoThread /\ clerks[c].at = "rest"
  BY <1>3, RestingClerk DEF InboxInv, InboxTyped
<1>5. OneWriter(t)'
  BY <1>3 DEF OneWriter, Writes, Inbox!Writers
<1>6. LastIsThere(t)'
  <2>1. \A y : Stored(t, y)' <=> Stored(t, y)
    BY DEF Stored
  <2>2. \A d \in Clerks : clerks[d].thread = t => clerks'[d] = clerks[d]
    BY <1>4, MessageAssumption
  <2> QED
    BY <1>2, <1>4, <2>1, <2>2 DEF InboxInv, LastIsThere
<1>7. LastIsRight(t)'
  <2> SUFFICES ASSUME t \notin raced' \cup torn'
               PROVE  /\ \A d \in Clerks : clerks'[d].thread = t =>
                           /\ clerks'[d].at = "first" => letters'[t] = <<>> /\ threads'[t].last = clerks'[d].text
                           /\ clerks'[d].at = "insert" => threads'[t].last = Latest(t)'
                           /\ clerks'[d].at = "update" => Latest(t)' = clerks'[d].text
                      /\ (\A d \in Clerks : ~Writes(d, t)') => threads'[t].last = Latest(t)'
    BY DEF LastIsRight
  <2>1. t \notin raced \cup torn /\ Latest(t)' = Latest(t)
    BY <1>3 DEF Latest, Inbox!Last
  <2>2. CASE step = "insert"
    <3>1. \A d \in Clerks : ~Writes(d, t)
      BY <1>2, <1>4, <1>5, <2>2, MessageAssumption DEF OneWriter, Writes
    <3>2. threads[t].last = Latest(t)
      BY <2>1, <3>1 DEF InboxInv, LastIsRight
    <3> QED
      BY <1>2, <1>4, <2>1, <2>2, <3>1, <3>2 DEF Writes
  <2>3. CASE step # "insert"
    <3>1. \A d \in Clerks : Writes(d, t)' <=> Writes(d, t)
      BY <1>2, <1>4, <2>3 DEF Writes
    <3> QED
      BY <1>2, <1>4, <2>1, <2>3, <3>1 DEF InboxInv, LastIsRight
  <2> QED
    BY <2>2, <2>3
<1>8. \A u \in Threads \ {t} : u \in raced' <=> u \in raced
  BY <1>3
<1>9. threads[t] # NoThread => {"status", "last", "unread"} \subseteq DOMAIN threads[t]
  BY DEF InboxInv, InboxTyped
<1>10. DOMAIN threads' = Threads /\ letters' \in [Threads -> Seq(Letters)]
  BY DEF InboxInv, InboxTyped
<1> QED
  BY <1>1, <1>2, <1>3, <1>4, <1>5, <1>6, <1>7, <1>8, <1>9, <1>10, OneConversation

\* A conversation begins empty, with the message it is listed with on its way.
LEMMA InboxCreates ==
  ASSUME InboxInv, NEW c \in Clerks, NEW t \in Threads, Inbox!CreateThread(c, t)
  PROVE  InboxInv'
<1>1. /\ t \notin torn \cup raced /\ (\A d \in Clerks : clerks[d].thread # t)
      /\ letters' = [letters EXCEPT ![t] = <<>>] /\ UNCHANGED torn
  BY DEF Inbox!CreateThread
<1>2. clerks[c] = Inbox!AtRest /\ clerks[c].thread = NoThread
  BY RestingClerk DEF Inbox!CreateThread, Inbox!Begin
<1>3. /\ letters' \in [Threads -> Seq(Letters)] /\ letters'[t] = <<>>
      /\ \A u \in Threads \ {t} : letters'[u] = letters[u]
  BY <1>1 DEF InboxInv, InboxTyped
<1>4. CASE \E x \in Letters :
             /\ threads' = [threads EXCEPT ![t] = [status |-> "unread", last |-> x, unread |-> 1]]
             /\ Inbox!Begin(c, t, "first", x)
  <2>1. PICK x \in Letters :
             /\ threads' = [threads EXCEPT ![t] = [status |-> "unread", last |-> x, unread |-> 1]]
             /\ Inbox!Begin(c, t, "first", x)
    BY <1>4
  <2>2. PICK k \in Clerk : k = [at |-> "first", thread |-> t, text |-> x]
    BY DEF Clerk
  <2>3. k.at = "first" /\ k.thread = t /\ k.text = x
    BY <2>2
  <2>4. /\ clerks' = [clerks EXCEPT ![c] = k]
        /\ raced' = IF \E d, e \in Inbox!Writers(t, clerks') : d # e THEN raced \cup {t} ELSE raced
    BY <2>1, <2>2 DEF Inbox!Begin
  <2>5. clerks'[c] = k /\ \A d \in Clerks \ {c} : clerks'[d] = clerks[d] /\ clerks'[d].thread # t
    BY <1>1, <2>4 DEF InboxInv, InboxTyped
  <2>6. /\ DOMAIN threads' = Threads /\ threads'[t].last = x
        /\ {"status", "last", "unread"} \subseteq DOMAIN threads'[t]
        /\ \A u \in Threads \ {t} : threads'[u] = threads[u]
    BY <2>1 DEF InboxInv, InboxTyped
  <2>7. OneWriter(t)'
    BY <2>5 DEF OneWriter, Writes
  <2>8. LastIsThere(t)'
    BY <2>3, <2>5, <2>6 DEF LastIsThere
  <2>9. LastIsRight(t)'
    BY <1>3, <2>3, <2>5, <2>6 DEF LastIsRight, Writes
  <2>10. \A u \in Threads \ {t} : u \in raced' <=> u \in raced
    BY <2>4
  <2> QED
    BY <1>1, <1>2, <1>3, <2>2, <2>3, <2>4, <2>6, <2>7, <2>8, <2>9, <2>10, OneConversation
<1>5. CASE /\ threads' = [threads EXCEPT ![t] = [status |-> "unread", last |-> NoThread, unread |-> 0]]
           /\ UNCHANGED <<clerks, raced>>
  <2>1. clerks' = [clerks EXCEPT ![c] = clerks[c]] /\ clerks[c] \in Clerk /\ clerks[c].at = "rest"
    BY <1>2, <1>5, RestingClerk DEF InboxInv, InboxTyped
  <2>2. /\ DOMAIN threads' = Threads /\ threads'[t].last = NoThread
        /\ {"status", "last", "unread"} \subseteq DOMAIN threads'[t]
        /\ \A u \in Threads \ {t} : threads'[u] = threads[u]
    BY <1>5 DEF InboxInv, InboxTyped
  <2>3. \A d \in Clerks : clerks'[d].thread # t
    BY <1>1, <1>5
  <2>4. OneWriter(t)'
    BY <2>3 DEF OneWriter, Writes
  <2>5. LastIsThere(t)'
    BY <2>2, <2>3 DEF LastIsThere
  <2>6. LastIsRight(t)'
    BY <1>3, <2>2, <2>3 DEF LastIsRight, Latest
  <2> QED
    BY ZenonT(60), <1>1, <1>2, <1>3, <1>5, <2>1, <2>2, <2>4, <2>5, <2>6, OneConversation
<1> QED
  BY <1>4, <1>5 DEF Inbox!CreateThread

\* The letter that is stored is the one the conversation is, or will be, listed with.
LEMMA InboxInserts ==
  ASSUME InboxInv, NEW c \in Clerks, Inbox!InsertLetter(c)
  PROVE  InboxInv'
<1>0. PICK t, x : t = clerks[c].thread /\ x = clerks[c].text
  OBVIOUS
<1>1. /\ clerks[c].at \in {"first", "insert"} /\ threads[t] # NoThread
      /\ letters' = [letters EXCEPT ![t] = Append(letters[t], x)] /\ UNCHANGED <<threads, raced, torn>>
      /\ clerks' = IF clerks[c].at = "first" THEN [clerks EXCEPT ![c] = Inbox!AtRest]
                   ELSE [clerks EXCEPT ![c].at = "update"]
  BY <1>0 DEF Inbox!InsertLetter, Inbox!Exists, Inbox!Rest
<1>2. t \in Threads /\ x \in Letters /\ clerks[c] \in Clerk /\ letters[t] \in Seq(Letters)
  BY <1>0, <1>1 DEF InboxInv, InboxTyped, ClerkFits
<1>3. PICK k \in Clerk : /\ clerks' = [clerks EXCEPT ![c] = k]
                         /\ k.at = IF clerks[c].at = "first" THEN "rest" ELSE "update"
                         /\ k.thread = IF clerks[c].at = "first" THEN NoThread ELSE t
                         /\ clerks[c].at # "first" => k.text = x
  <2>1. CASE clerks[c].at = "first"
    BY <1>1, <2>1, RestingClerk
  <2>2. CASE clerks[c].at # "first"
    <3>1. PICK k \in Clerk : k = [clerks[c] EXCEPT !.at = "update"]
      BY <1>2 DEF Clerk
    <3>2. k.at = "update" /\ k.thread = t /\ k.text = x
      BY <1>0, <1>2, <3>1 DEF Clerk
    <3>3. clerks' = [clerks EXCEPT ![c] = k]
      BY <1>1, <2>2, <3>1
    <3> QED
      BY <2>2, <3>2, <3>3
  <2> QED
    BY <2>1, <2>2
<1>4. clerks'[c] = k /\ \A d \in Clerks \ {c} : clerks'[d] = clerks[d]
  BY <1>3 DEF InboxInv, InboxTyped
<1>5. /\ letters' \in [Threads -> Seq(Letters)]
      /\ letters'[t] = Append(letters[t], x) /\ \A u \in Threads \ {t} : letters'[u] = letters[u]
  BY <1>1, <1>2 DEF InboxInv, InboxTyped
<1>6. /\ letters'[t] # <<>> /\ Len(letters'[t]) = Len(letters[t]) + 1 /\ letters'[t][Len(letters'[t])] = x
      /\ \A i \in DOMAIN letters[t] : i \in DOMAIN letters'[t] /\ letters'[t][i] = letters[t][i]
      /\ Len(letters'[t]) \in DOMAIN letters'[t]
  BY <1>2, <1>5
<1>7. Latest(t)' = x /\ Stored(t, x)' /\ \A y : Stored(t, y) => Stored(t, y)'
  BY <1>6 DEF Latest, Stored, Inbox!Last
<1>8. OneWriter(t)'
  <2>1. \A d \in Clerks : Writes(d, t)' => Writes(d, t)
    BY <1>0, <1>1, <1>3, <1>4, MessageAssumption DEF Writes
  <2> QED
    BY <1>1, <1>2, <2>1 DEF InboxInv, OneWriter
<1>9. LastIsThere(t)'
  <2> SUFFICES ASSUME t \notin torn'
               PROVE  /\ \/ threads'[t].last = NoThread \/ Stored(t, threads[t].last)'
                         \/ \E d \in Clerks : clerks'[d].thread = t /\ clerks'[d].at = "first" /\ clerks'[d].text = threads'[t].last
                      /\ \A d \in Clerks : clerks'[d].thread = t /\ clerks'[d].at = "update" => Stored(t, clerks[d].text)'
    BY DEF LastIsThere
  <2>1. \A d \in Clerks : clerks'[d].thread = t /\ clerks'[d].at = "update" => Stored(t, clerks[d].text)'
    <3> SUFFICES ASSUME NEW d \in Clerks, clerks'[d].thread = t, clerks'[d].at = "update"
                 PROVE  Stored(t, clerks[d].text)'
      OBVIOUS
    <3>1. CASE d = c
      BY <1>3, <1>4, <1>7, <3>1 DEF Stored
    <3>2. CASE d # c
      <4>1. Stored(t, clerks[d].text)
        BY <1>1, <1>2, <1>4, <3>2 DEF InboxInv, LastIsThere
      <4>2. PICK y : y = clerks[d].text
        OBVIOUS
      <4>3. Stored(t, y)' /\ clerks'[d].text = y
        BY <1>4, <1>7, <3>2, <4>1, <4>2
      <4> QED
        BY <4>3 DEF Stored
    <3> QED
      BY <3>1, <3>2
  <2>2. CASE threads[t].last = NoThread
    BY <1>1, <2>1, <2>2
  <2>3. CASE Stored(t, threads[t].last)
    <3>1. PICK y : y = threads[t].last
      OBVIOUS
    <3>2. Stored(t, y)'
      BY <1>7, <2>3, <3>1
    <3> QED
      BY <1>1, <2>1, <3>1, <3>2 DEF Stored
  <2>4. CASE \E d \in Clerks : clerks[d].thread = t /\ clerks[d].at = "first" /\ clerks[d].text = threads[t].last
    <3>1. PICK d \in Clerks : clerks[d].thread = t /\ clerks[d].at = "first" /\ clerks[d].text = threads[t].last
      BY <2>4
    <3>2. CASE d = c
      <4>1. threads'[t].last = x
        BY <1>0, <1>1, <3>1, <3>2
      <4> QED
        BY <1>7, <2>1, <4>1 DEF Stored
    <3>3. CASE d # c
      BY <1>1, <1>4, <2>1, <3>1, <3>3
    <3> QED
      BY <3>2, <3>3
  <2> QED
    BY <1>1, <1>2, <2>2, <2>3, <2>4 DEF InboxInv, LastIsThere
<1>10. LastIsRight(t)'
  <2> SUFFICES ASSUME t \notin raced' \cup torn'
               PROVE  /\ \A d \in Clerks : clerks'[d].thread = t =>
                           /\ clerks'[d].at = "first" => letters'[t] = <<>> /\ threads'[t].last = clerks'[d].text
                           /\ clerks'[d].at = "insert" => threads'[t].last = Latest(t)'
                           /\ clerks'[d].at = "update" => Latest(t)' = clerks'[d].text
                      /\ (\A d \in Clerks : ~Writes(d, t)') => threads'[t].last = Latest(t)'
    BY DEF LastIsRight
  <2>1. Writes(c, t)
    BY <1>0, <1>1 DEF Writes
  <2>2. \A d \in Clerks \ {c} : ~Writes(d, t)
    BY <1>1, <1>2, <2>1 DEF InboxInv, OneWriter
  <2>3. \A d \in Clerks \ {c} : ~Writes(d, t)'
    BY <1>4, <2>2 DEF Writes
  <2>4. CASE clerks[c].at = "first"
    <3>1. threads[t].last = x
      BY <1>0, <1>1, <1>2, <2>4 DEF InboxInv, LastIsRight
    <3> QED
      BY <1>1, <1>3, <1>4, <1>7, <2>3, <2>4, <3>1 DEF Writes
  <2>5. CASE clerks[c].at # "first"
    BY <1>3, <1>4, <1>7, <2>3, <2>5 DEF Writes
  <2> QED
    BY <2>4, <2>5
<1>11. /\ clerks[c].thread \in {t, NoThread} /\ k.thread \in {t, NoThread}
       /\ k.at # "rest" => k.thread \in Threads
       /\ k.at \in {"first", "insert", "update"} => k.text \in Letters
       /\ DOMAIN threads' = Threads /\ \A u \in Threads \ {t} : threads'[u] = threads[u] /\ letters'[u] = letters[u]
       /\ threads'[t] # NoThread => {"status", "last", "unread"} \subseteq DOMAIN threads'[t]
       /\ \A u \in Threads \ {t} : (u \in raced' <=> u \in raced) /\ (u \in torn' <=> u \in torn)
  BY <1>0, <1>1, <1>2, <1>3, <1>5 DEF InboxInv, InboxTyped
<1> QED
  BY <1>2, <1>3, <1>5, <1>8, <1>9, <1>10, <1>11, OneConversation

\* A clerk who is done leaves a conversation he wrote no message of, or the
\* latest of, as it should be.
LEMMA InboxRests ==
  ASSUME InboxInv, NEW c \in Clerks, NEW t \in Threads, t = clerks[c].thread, clerks[c].at # "rest",
         clerks' = [clerks EXCEPT ![c] = Inbox!AtRest], UNCHANGED <<letters, raced>>,
         threads[t] # NoThread, DOMAIN threads' = Threads, {"status", "last", "unread"} \subseteq DOMAIN threads'[t],
         \A u \in Threads \ {t} : threads'[u] = threads[u] /\ (u \in torn' <=> u \in torn), torn \subseteq torn',
         \/ ~Writes(c, t) /\ threads'[t].last = threads[t].last
         \/ clerks[c].at = "update" /\ threads'[t].last = clerks[c].text
         \/ clerks[c].at = "insert" /\ threads'[t].last = threads[t].last
         \/ t \in torn'
  PROVE  InboxInv'
<1>1. clerks'[c] = Inbox!AtRest /\ \A d \in Clerks \ {c} : clerks'[d] = clerks[d]
  BY DEF InboxInv, InboxTyped
<1>2. \A d \in Clerks : clerks'[d].thread = t => d # c /\ clerks'[d] = clerks[d]
  BY <1>1, RestingClerk, MessageAssumption
<1>3. Latest(t)' = Latest(t) /\ \A y : Stored(t, y)' <=> Stored(t, y)
  BY DEF Latest, Stored, Inbox!Last
<1>4. OneWriter(t)'
  BY <1>2 DEF InboxInv, OneWriter, Writes
<1>5. LastIsThere(t)'
  <2> SUFFICES ASSUME t \notin torn'
               PROVE  /\ \/ threads'[t].last = NoThread \/ Stored(t, threads[t].last)'
                         \/ \E d \in Clerks : clerks'[d].thread = t /\ clerks'[d].at = "first" /\ clerks'[d].text = threads'[t].last
                      /\ \A d \in Clerks : clerks'[d].thread = t /\ clerks'[d].at = "update" => Stored(t, clerks[d].text)'
    BY DEF LastIsThere
  <2>1. \A d \in Clerks : clerks'[d].thread = t /\ clerks'[d].at = "update" => Stored(t, clerks[d].text)'
    BY <1>2 DEF InboxInv, LastIsThere, Stored
  <2>2. CASE clerks[c].at = "update" /\ threads'[t].last = clerks[c].text
    <3>1. Stored(t, clerks[c].text)
      BY <2>2 DEF InboxInv, LastIsThere
    <3> QED
      BY <2>1, <2>2, <3>1 DEF Stored
  <2>3. CASE threads'[t].last = threads[t].last /\ clerks[c].at # "first"
    <3>1. \/ threads[t].last = NoThread \/ Stored(t, threads[t].last)
          \/ \E d \in Clerks : clerks[d].thread = t /\ clerks[d].at = "first" /\ clerks[d].text = threads[t].last
      BY DEF InboxInv, LastIsThere
    <3>2. CASE \E d \in Clerks : clerks[d].thread = t /\ clerks[d].at = "first" /\ clerks[d].text = threads[t].last
      <4>1. PICK d \in Clerks : clerks[d].thread = t /\ clerks[d].at = "first" /\ clerks[d].text = threads[t].last
        BY <3>2
      <4>2. clerks'[d] = clerks[d]
        BY <1>1, <2>3, <4>1
      <4> QED
        BY <2>1, <2>3, <4>1, <4>2
    <3> QED
      BY <2>1, <2>3, <3>1, <3>2 DEF Stored
  <2> QED
    BY <2>2, <2>3 DEF Writes
<1>6. LastIsRight(t)'
  <2> SUFFICES ASSUME t \notin raced' \cup torn'
               PROVE  /\ \A d \in Clerks : clerks'[d].thread = t =>
                           /\ clerks'[d].at = "first" => letters'[t] = <<>> /\ threads'[t].last = clerks'[d].text
                           /\ clerks'[d].at = "insert" => threads'[t].last = Latest(t)'
                           /\ clerks'[d].at = "update" => Latest(t)' = clerks'[d].text
                      /\ (\A d \in Clerks : ~Writes(d, t)') => threads'[t].last = Latest(t)'
    BY DEF LastIsRight
  <2>1. t \notin raced \cup torn
    OBVIOUS
  <2>2. CASE Writes(c, t)
    <3>1. \A d \in Clerks \ {c} : ~Writes(d, t)
      BY <2>1, <2>2 DEF InboxInv, OneWriter
    <3>2. \A d \in Clerks : ~Writes(d, t)'
      BY <1>2, <3>1 DEF Writes
    <3>3. threads'[t].last = Latest(t)
      BY <2>1, <2>2 DEF InboxInv, LastIsRight, Writes
    <3> QED
      BY <1>3, <3>2, <3>3 DEF Writes
  <2>3. CASE ~Writes(c, t)
    <3>1. \A d \in Clerks : Writes(d, t)' <=> Writes(d, t)
      BY <1>1, <1>2, <2>3, RestingClerk, MessageAssumption DEF Writes
    <3>2. threads'[t].last = threads[t].last
      BY <2>3 DEF Writes
    <3> QED
      BY <1>2, <1>3, <2>1, <3>1, <3>2 DEF InboxInv, LastIsRight
  <2> QED
    BY <2>2, <2>3
<1>7. /\ letters' \in [Threads -> Seq(Letters)]
      /\ \A u \in Threads \ {t} : threads'[u] = threads[u] /\ letters'[u] = letters[u]
      /\ \A u \in Threads \ {t} : (u \in raced' <=> u \in raced) /\ (u \in torn' <=> u \in torn)
  BY DEF InboxInv, InboxTyped
<1> QED
  BY <1>4, <1>5, <1>6, <1>7, RestingClerk, OneConversation

\* The conversation goes with all its messages.
LEMMA InboxDeletes ==
  ASSUME InboxInv, NEW c \in Clerks, Inbox!DeleteThread(c)
  PROVE  InboxInv'
<1>1. PICK t : t = clerks[c].thread
  OBVIOUS
<1>2. /\ clerks[c].at = "delete" /\ threads' = [threads EXCEPT ![t] = NoThread]
      /\ letters' = [letters EXCEPT ![t] = <<>>] /\ clerks' = [clerks EXCEPT ![c] = Inbox!AtRest]
      /\ UNCHANGED <<raced, torn>>
  BY <1>1 DEF Inbox!DeleteThread, Inbox!Rest
<1>3. t \in Threads
  BY <1>1, <1>2 DEF InboxInv, ClerkFits
<1>4. /\ DOMAIN threads' = Threads /\ threads'[t] = NoThread /\ letters' \in [Threads -> Seq(Letters)]
      /\ \A u \in Threads \ {t} : threads'[u] = threads[u] /\ letters'[u] = letters[u]
  BY <1>2, <1>3 DEF InboxInv, InboxTyped
<1>5. clerks'[c] = Inbox!AtRest /\ \A d \in Clerks \ {c} : clerks'[d] = clerks[d]
  BY <1>2 DEF InboxInv, InboxTyped
<1>6. OneWriter(t)'
  <2>1. \A d \in Clerks : Writes(d, t)' => Writes(d, t)
    BY <1>3, <1>5, RestingClerk, MessageAssumption DEF Writes
  <2> QED
    BY <1>2, <1>3, <2>1 DEF InboxInv, OneWriter
<1>7. LastIsThere(t)' /\ LastIsRight(t)'
  BY <1>4 DEF LastIsThere, LastIsRight
<1> QED
  BY <1>1, <1>2, <1>3, <1>4, <1>6, <1>7, RestingClerk, OneConversation

\* A request that breaks off between its statements tears the conversation.
LEMMA InboxBreaks ==
  ASSUME InboxInv, NEW c \in Clerks, Inbox!BreakOff(c)
  PROVE  InboxInv'
<1>1. PICK t : t = clerks[c].thread
  OBVIOUS
<1>2. /\ clerks[c].at # "rest" /\ torn' = IF clerks[c].at \in {"first", "update"} THEN torn \cup {t} ELSE torn
      /\ clerks' = [clerks EXCEPT ![c] = Inbox!AtRest] /\ UNCHANGED <<threads, letters, raced>>
  BY <1>1 DEF Inbox!BreakOff, Inbox!Rest
<1>3. t \in Threads /\ clerks[c] \in Clerk
  BY <1>1, <1>2 DEF InboxInv, InboxTyped, ClerkFits
<1>4. CASE threads[t] # NoThread
  <2>1. {"status", "last", "unread"} \subseteq DOMAIN threads'[t] /\ DOMAIN threads' = Threads
    BY <1>2, <1>3, <1>4 DEF InboxInv, InboxTyped
  <2>2. \/ ~Writes(c, t) /\ threads'[t].last = threads[t].last
        \/ clerks[c].at = "insert" /\ threads'[t].last = threads[t].last
        \/ t \in torn'
    BY <1>1, <1>2 DEF Writes
  <2>3. \A u \in Threads \ {t} : threads'[u] = threads[u] /\ (u \in torn' <=> u \in torn)
    BY <1>2
  <2>4. torn \subseteq torn'
    BY <1>2
  <2> QED
    BY <1>1, <1>2, <1>3, <1>4, <2>1, <2>2, <2>3, <2>4, InboxRests
<1>5. CASE threads[t] = NoThread
  <2>1. clerks'[c] = Inbox!AtRest /\ \A d \in Clerks \ {c} : clerks'[d] = clerks[d]
    BY <1>2 DEF InboxInv, InboxTyped
  <2>2. OneWriter(t)'
    <3>1. \A d \in Clerks : Writes(d, t)' => Writes(d, t)
      BY <1>3, <2>1, RestingClerk, MessageAssumption DEF Writes
    <3> QED
      BY <1>2, <1>3, <3>1 DEF InboxInv, OneWriter
  <2>3. LastIsThere(t)' /\ LastIsRight(t)'
    BY <1>2, <1>5 DEF LastIsThere, LastIsRight
  <2>4. /\ DOMAIN threads' = Threads /\ letters' \in [Threads -> Seq(Letters)] /\ threads'[t] = NoThread
        /\ \A u \in Threads \ {t} : threads'[u] = threads[u] /\ letters'[u] = letters[u]
        /\ \A u \in Threads \ {t} : (u \in raced' <=> u \in raced) /\ (u \in torn' <=> u \in torn)
    BY <1>2, <1>5 DEF InboxInv, InboxTyped
  <2> QED
    BY <1>1, <1>2, <1>3, <2>2, <2>3, <2>4, RestingClerk, OneConversation
<1> QED
  BY <1>4, <1>5

\* The last statement of a request.
LEMMA InboxFinishes ==
  ASSUME InboxInv, NEW c \in Clerks, Inbox!UpdateThread(c) \/ Inbox!MarkRead(c) \/ Inbox!Change(c)
  PROVE  InboxInv'
<1>1. PICK t : t = clerks[c].thread
  OBVIOUS
<1>2. /\ clerks[c].at \in {"update", "mark", "change"} /\ threads[t] # NoThread
      /\ clerks' = [clerks EXCEPT ![c] = Inbox!AtRest] /\ UNCHANGED <<letters, raced, torn>>
  BY <1>1 DEF Inbox!UpdateThread, Inbox!MarkRead, Inbox!Change, Inbox!Rest, Inbox!Exists
<1>3. t \in Threads
  BY <1>1, <1>2 DEF InboxInv, ClerkFits
<1>4. {"status", "last", "unread"} \subseteq DOMAIN threads[t] /\ DOMAIN threads = Threads
  BY <1>2, <1>3 DEF InboxInv, InboxTyped
<1>5. /\ DOMAIN threads' = Threads /\ {"status", "last", "unread"} \subseteq DOMAIN threads'[t]
      /\ \A u \in Threads \ {t} : threads'[u] = threads[u]
      /\ threads'[t].last = IF clerks[c].at = "update" THEN clerks[c].text ELSE threads[t].last
  <2>1. CASE Inbox!UpdateThread(c)
    <3>1. threads' = [threads EXCEPT ![t] = [threads[t] EXCEPT !.last = clerks[c].text, !.status = "replied"]]
          /\ clerks[c].at = "update"
      BY <1>1, <2>1 DEF Inbox!UpdateThread
    <3> QED
      BY <1>3, <1>4, <3>1
  <2>2. CASE Inbox!MarkRead(c)
    <3>1. threads' = [threads EXCEPT ![t] = [threads[t] EXCEPT !.status = "read", !.unread = 0]]
          /\ clerks[c].at = "mark"
      BY <1>1, <2>2 DEF Inbox!MarkRead
    <3> QED
      BY <1>3, <1>4, <3>1
  <2>3. CASE Inbox!Change(c)
    <3>1. PICK s \in ThreadStatuses : threads' = [threads EXCEPT ![t].status = s]
      BY <1>1, <2>3 DEF Inbox!Change
    <3>2. clerks[c].at = "change"
      BY <2>3 DEF Inbox!Change
    <3> QED
      BY <1>3, <1>4, <3>1, <3>2
  <2> QED
    BY <2>1, <2>2, <2>3
<1>6. /\ \/ ~Writes(c, t) /\ threads'[t].last = threads[t].last
         \/ clerks[c].at = "update" /\ threads'[t].last = clerks[c].text
      /\ clerks[c].at # "rest"
      /\ \A u \in Threads \ {t} : threads'[u] = threads[u] /\ (u \in torn' <=> u \in torn)
      /\ torn \subseteq torn'
  BY <1>2, <1>5 DEF Writes
<1> QED
  BY <1>1, <1>2, <1>3, <1>5, <1>6, InboxRests

LEMMA InboxKept ==
  ASSUME InboxInv, Inbox!Next \/ UNCHANGED inboxVars
  PROVE  InboxInv'
<1>1. CASE UNCHANGED inboxVars
  BY <1>1 DEF inboxVars, InboxInv, InboxTyped, ClerkFits, OneWriter, LastIsThere, LastIsRight, Writes, Stored, Latest, Inbox!Last
<1>2. ASSUME NEW c \in Clerks, NEW t \in Threads, Inbox!OpenThread(c, t) \/ Inbox!FindThread(c, t)
      PROVE  InboxInv'
  <2>1. CASE Inbox!OpenThread(c, t)
    BY <2>1, InboxBegins DEF Inbox!OpenThread, Inbox!Exists
  <2>2. CASE Inbox!FindThread(c, t)
    BY <2>2, InboxBegins DEF Inbox!FindThread, Inbox!Exists
  <2> QED
    BY <1>2, <2>1, <2>2
<1> QED
  BY <1>1, <1>2, InboxInserts, InboxFinishes, InboxDeletes, InboxBreaks, InboxCreates DEF Inbox!Next

LEMMA InboxAccounted == InboxInv => Inbox!LastIsLatest /\ Inbox!LastIsAMessage
<1> SUFFICES ASSUME InboxInv PROVE Inbox!LastIsLatest /\ Inbox!LastIsAMessage
  OBVIOUS
<1>1. \A t \in Threads : Inbox!Writers(t, clerks) = {} => \A c \in Clerks : ~Writes(c, t)
  BY DEF Inbox!Writers, Writes
<1>2. Inbox!LastIsLatest
  BY <1>1 DEF InboxInv, LastIsRight, Latest, Inbox!LastIsLatest, Inbox!Exists
<1>3. ASSUME NEW t \in Threads \ torn, threads[t] # NoThread, threads[t].last # NoThread, Inbox!Writers(t, clerks) = {}
      PROVE  threads[t].last \in Inbox!ToSet(letters[t])
  <2>1. Stored(t, threads[t].last)
    BY <1>1, <1>3 DEF InboxInv, LastIsThere, Writes
  <2> QED
    BY <2>1 DEF Stored, Inbox!ToSet
<1> QED
  BY <1>2, <1>3 DEF Inbox!LastIsAMessage, Inbox!Exists

-----------------------------------------------------------------------------
(* OutboundMessages                                                        *)

LEMMA OutStarts == Out!Init => OutInv
<1> SUFFICES ASSUME Out!Init PROVE OutInv
  OBVIOUS
<1>1. <<>> \in Seq(Said)
  OBVIOUS
<1> QED
  BY <1>1 DEF Out!Init, OutInv, OutTyped, PostFits

\* What a step leaves alone of a message.
LEMMA PostStays ==
  ASSUME NEW p, PostFits(p), outRows'[p] = outRows[p], notices'[p] = notices[p], p \in early' <=> p \in early,
         outRows[p] # NoRow => posting'[p] = "done"
  PROVE  PostFits(p)'
  BY DEF PostFits

LEMMA OutSends ==
  ASSUME OutInv, NEW p \in Out!Posts, Out!Post(p) \/ Out!Accepted(p) \/ Out!Refused(p)
  PROVE  OutInv'
<1>1. posting[p] # "done" /\ UNCHANGED <<outRows, progress, notices, early>>
  BY DEF Out!Post, Out!Accepted, Out!Refused
<1>2. \E to : posting' = [posting EXCEPT ![p] = to]
  BY DEF Out!Post, Out!Accepted, Out!Refused, Out!Steps
<1>3. DOMAIN posting' = Out!Posts /\ \A q \in Out!Posts \ {p} : posting'[q] = posting[q]
  BY <1>2 DEF OutInv, OutTyped
<1>4. \A q \in Out!Posts : outRows[q] # NoRow => posting'[q] = "done"
  BY <1>1, <1>3 DEF OutInv, PostFits
<1>5. OutTyped'
  BY <1>1, <1>3 DEF OutInv, OutTyped
<1> QED
  BY <1>1, <1>4, <1>5, PostStays DEF OutInv

LEMMA OutStores ==
  ASSUME OutInv, NEW p \in Out!Posts, Out!StorePost(p)
  PROVE  OutInv'
<1>1. /\ posting[p] = "save" /\ UNCHANGED <<progress, notices, early>>
      /\ \/ posting' = [posting EXCEPT ![p] = "done"] /\ outRows' = [outRows EXCEPT ![p] = Out!NewRow]
         \/ posting' = [posting EXCEPT ![p] = "unsaved"] /\ UNCHANGED outRows
  BY DEF Out!StorePost, Out!Steps
<1>2. PostFits(p) /\ outRows[p] = NoRow
  BY <1>1 DEF OutInv, PostFits
<1>3. CASE posting' = [posting EXCEPT ![p] = "done"] /\ outRows' = [outRows EXCEPT ![p] = Out!NewRow]
  <2>1. PICK row \in Out!Row : row = Out!NewRow
    BY DEF Out!Row, Out!NewRow
  <2>2. row.status = "sent" /\ row.readAt = FALSE
    BY <2>1 DEF Out!NewRow
  <2>3. /\ DOMAIN posting' = Out!Posts /\ DOMAIN outRows' = Out!Posts
        /\ posting'[p] = "done" /\ outRows'[p] = row
        /\ \A q \in Out!Posts \ {p} : posting'[q] = posting[q] /\ outRows'[q] = outRows[q]
    BY <1>3, <2>1 DEF OutInv, OutTyped
  <2>4. p \notin early => notices'[p] = <<>>
    BY <1>1, <1>2 DEF PostFits
  <2>5. PostFits(p)'
    <3>1. outRows'[p] # NoRow => posting'[p] = "done" /\ outRows'[p] \in Out!Row
      BY <2>3
    <3>2. outRows'[p] = NoRow /\ p \notin early' => notices'[p] = <<>>
      BY <1>1, <2>4
    <3>3. outRows'[p] # NoRow /\ p \notin early' =>
            /\ outRows'[p].readAt <=> \E i \in DOMAIN notices'[p] : notices'[p][i] = "read"
            /\ notices'[p] # <<>> => outRows'[p].status = notices'[p][Len(notices'[p])]
      BY <1>1, <2>2, <2>3, <2>4
    <3> QED
      BY <3>1, <3>2, <3>3 DEF PostFits
  <2>6. \A q \in Out!Posts \ {p} : PostFits(q)'
    <3> SUFFICES ASSUME NEW q \in Out!Posts \ {p} PROVE PostFits(q)'
      OBVIOUS
    <3>1. PostFits(q) /\ (outRows[q] # NoRow => posting'[q] = "done")
      BY <2>3 DEF OutInv, PostFits
    <3> QED
      BY <1>1, <2>3, <3>1, PostStays
  <2>7. OutTyped'
    BY <1>1, <2>3 DEF OutInv, OutTyped
  <2> QED
    BY <2>5, <2>6, <2>7 DEF OutInv
<1>4. CASE posting' = [posting EXCEPT ![p] = "unsaved"] /\ UNCHANGED outRows
  <2>1. DOMAIN posting' = Out!Posts /\ \A q \in Out!Posts \ {p} : posting'[q] = posting[q]
    BY <1>4 DEF OutInv, OutTyped
  <2>2. \A q \in Out!Posts : outRows[q] # NoRow => posting'[q] = "done"
    BY <1>2, <2>1 DEF OutInv, PostFits
  <2>3. OutTyped'
    BY <1>1, <1>4, <2>1 DEF OutInv, OutTyped
  <2> QED
    BY <1>1, <1>4, <2>2, <2>3, PostStays DEF OutInv
<1> QED
  BY <1>1, <1>3, <1>4

\* The statuses the platform has reached are statuses.
LEMMA OutProceeds ==
  ASSUME OutInv, NEW p \in Out!Posts, Out!Proceeds(p)
  PROVE  OutInv'
<1>1. PICK course \in Out!Courses :
        /\ Out!IsStrictPrefix(progress[p], course)
        /\ progress' = [progress EXCEPT ![p] = SubSeq(course, 1, Len(progress[p]) + 1)]
  BY DEF Out!Proceeds
<1>2. UNCHANGED <<posting, outRows, notices, early>>
  BY DEF Out!Proceeds
<1>3. course \in Seq(Said)
  <2>1. <<"sent", "delivered", "read">> \in Seq(Said) /\ <<"sent", "failed">> \in Seq(Said) /\ <<"failed">> \in Seq(Said)
    BY DEF Said
  <2> QED
    BY <1>1, <2>1 DEF Out!Courses
<1>4. progress[p] \in Seq(Said)
  BY DEF OutInv, OutTyped
<1>5. Len(progress[p]) < Len(course)
  <2>1. /\ Len(progress[p]) <= Len(course) /\ progress[p] # course
        /\ SubSeq(progress[p], 1, Len(progress[p])) = SubSeq(course, 1, Len(progress[p]))
    BY <1>1 DEF Out!IsStrictPrefix, Out!IsPrefix
  <2>2. ASSUME Len(progress[p]) = Len(course) PROVE FALSE
    <3>1. SubSeq(progress[p], 1, Len(progress[p])) = progress[p] /\ SubSeq(course, 1, Len(course)) = course
      BY <1>3, <1>4, SubSeqFull
    <3> QED
      BY <2>1, <2>2, <3>1
  <2> QED
    BY <1>3, <1>4, <2>1, <2>2
<1>6. SubSeq(course, 1, Len(progress[p]) + 1) \in Seq(Said)
  BY <1>3, <1>4, <1>5, SubSeqProperties
<1>7. OutTyped'
  BY <1>1, <1>2, <1>6 DEF OutInv, OutTyped
<1> QED
  BY <1>2, <1>7, PostStays DEF OutInv, PostFits

\* A status that is written is the row's, and that of the last notice.
LEMMA OutHandles ==
  ASSUME OutInv, NEW p \in Out!Posts, Out!HandleStatus(p)
  PROVE  OutInv'
<1>1. PICK i \in DOMAIN progress[p] :
        /\ notices' = [notices EXCEPT ![p] = Append(notices[p], progress[p][i])]
        /\ IF outRows[p] = NoRow THEN early' = early \cup {p} /\ UNCHANGED outRows
           ELSE outRows' = [outRows EXCEPT ![p] = Out!Noted(outRows[p], progress[p][i])] /\ UNCHANGED early
  BY DEF Out!HandleStatus
<1>2. UNCHANGED <<posting, progress>>
  BY DEF Out!HandleStatus
<1>3. PICK n \in Said : n = progress[p][i]
  BY <1>1 DEF OutInv, OutTyped
<1>4. /\ notices[p] \in Seq(Said) /\ notices' \in [Out!Posts -> Seq(Said)]
      /\ notices'[p] = Append(notices[p], n) /\ \A q \in Out!Posts \ {p} : notices'[q] = notices[q]
  BY <1>1, <1>3 DEF OutInv, OutTyped
<1>5. /\ notices'[p] # <<>> /\ notices'[p][Len(notices'[p])] = n
      /\ (\E j \in DOMAIN notices'[p] : notices'[p][j] = "read") <=>
           (n = "read" \/ \E j \in DOMAIN notices[p] : notices[p][j] = "read")
  BY <1>4
<1>6. ASSUME DOMAIN outRows' = Out!Posts, \A q \in Out!Posts \ {p} : outRows'[q] = outRows[q] /\ (q \in early' <=> q \in early),
             PostFits(p)'
      PROVE  OutInv'
  <2>1. ASSUME NEW q \in Out!Posts \ {p} PROVE PostFits(q)'
    <3>1. PostFits(q) /\ (outRows[q] # NoRow => posting'[q] = "done")
      BY <1>2 DEF OutInv, PostFits
    <3> QED
      BY <1>4, <1>6, <3>1, PostStays
  <2>2. OutTyped'
    BY <1>2, <1>4, <1>6 DEF OutInv, OutTyped
  <2> QED
    BY <1>6, <2>1, <2>2 DEF OutInv
<1>7. CASE outRows[p] = NoRow
  <2>1. early' = early \cup {p} /\ UNCHANGED outRows
    BY <1>1, <1>7
  <2>2. PostFits(p)'
    BY <1>7, <2>1 DEF PostFits
  <2> QED
    BY <1>6, <2>1, <2>2 DEF OutInv, OutTyped
<1>8. CASE outRows[p] # NoRow
  <2>1. outRows' = [outRows EXCEPT ![p] = Out!Noted(outRows[p], n)] /\ UNCHANGED early
    BY <1>1, <1>3, <1>8
  <2>2. PICK old \in Out!Row : old = outRows[p] /\ posting[p] = "done"
    BY <1>8 DEF OutInv, PostFits
  <2>3. PICK row : row = Out!Noted(old, n)
    OBVIOUS
  <2>4. row \in Out!Row /\ row.status = n /\ (row.readAt <=> old.readAt \/ n = "read")
    BY <2>2, <2>3 DEF Out!Row, Out!Noted, Said
  <2>5. DOMAIN outRows' = Out!Posts /\ outRows'[p] = row /\ \A q \in Out!Posts \ {p} : outRows'[q] = outRows[q]
    BY <2>1, <2>2, <2>3 DEF OutInv, OutTyped
  <2>6. p \notin early => (old.readAt <=> \E j \in DOMAIN notices[p] : notices[p][j] = "read")
    BY <1>8, <2>2 DEF OutInv, PostFits
  <2>7. p \notin early' => (row.readAt <=> \E j \in DOMAIN notices'[p] : notices'[p][j] = "read")
    BY <1>5, <2>1, <2>4, <2>6
  <2>8. ASSUME outRows'[p] = NoRow, p \notin early' PROVE notices'[p] = <<>>
    BY <2>4, <2>5, <2>8, MessageAssumption DEF Out!Row
  <2>9. PostFits(p)'
    BY <1>2, <1>5, <2>2, <2>4, <2>5, <2>7, <2>8 DEF PostFits
  <2> QED
    BY <1>6, <2>1, <2>5, <2>9
<1> QED
  BY <1>7, <1>8

LEMMA OutKept ==
  ASSUME OutInv, Out!Next \/ UNCHANGED postVars
  PROVE  OutInv'
<1>1. ASSUME UNCHANGED <<posting, outRows, progress, notices, early>> PROVE OutInv'
  BY <1>1 DEF OutInv, OutTyped, PostFits
<1> QED
  BY <1>1, OutSends, OutStores, OutProceeds, OutHandles DEF Out!Next, Out!Send, Out!WaitOver, postVars

LEMMA OutAccounted == OutInv => Out!ShownIsFurthest
<1> SUFFICES ASSUME OutInv, NEW p \in Out!Posts, outRows[p] # NoRow, p \notin early
             PROVE  /\ outRows[p].readAt = \E i \in DOMAIN notices[p] : notices[p][i] = "read"
                    /\ notices[p] # <<>> => outRows[p].status = Out!Last(notices[p])
  BY DEF Out!ShownIsFurthest
<1>1. /\ outRows[p] \in Out!Row
      /\ outRows[p].readAt <=> \E i \in DOMAIN notices[p] : notices[p][i] = "read"
      /\ notices[p] # <<>> => outRows[p].status = notices[p][Len(notices[p])]
  BY DEF OutInv, PostFits
<1>2. outRows[p].readAt \in BOOLEAN
  BY <1>1 DEF Out!Row
<1> QED
  BY <1>1, <1>2 DEF Out!Last

-----------------------------------------------------------------------------
(* AudienceDesk                                                            *)

\* What is found by going through a finite set is finite, and no larger.
LEMMA NoMoreFound ==
  ASSUME NEW S, IsFiniteSet(S), NEW T, NEW f \in [S -> T], \A y \in T : \E x \in S : f[x] = y
  PROVE  IsFiniteSet(T) /\ Cardinality(T) <= Cardinality(S)
<1>1. f \in Surjection(S, T)
  BY DEF Surjection
<1> QED
  BY <1>1, FS_Surjection

\* A mixed audience has one contact of each number of its leads and customers.
LEMMA OneOfEachNumber ==
  ASSUME IsFiniteSet(DOMAIN book), NEW w
  PROVE  LET L == Aud!LeadsAudience(w)
             C == Aud!CustomersAudience(w)
             A == Aud!CustomSegment(w)
         IN  A \subseteq L \cup C /\ IsFiniteSet(A) /\ Cardinality(Aud!PhonesOf(A)) = Cardinality(A)
<1> DEFINE L == Aud!LeadsAudience(w)
           C == Aud!CustomersAudience(w)
           first(n) == IF \E i \in L : book[i].phone = n THEN CHOOSE i \in L : book[i].phone = n
                       ELSE CHOOSE i \in C : book[i].phone = n
           N == {book[i].phone : i \in L \cup C}
           A == Aud!CustomSegment(w)
<1>1. A = {first(n) : n \in N}
  BY DEF Aud!CustomSegment
<1>2. \A n \in N : first(n) \in L \cup C /\ book[first(n)].phone = n
  OBVIOUS
<1>3. L \cup C \subseteq DOMAIN book
  BY DEF Aud!LeadsAudience, Aud!CustomersAudience, Aud!CountedLeads, Aud!CountedCustomers, Aud!LeadRows, Aud!Patrons
<1> HIDE DEF first, L, C, A
<1>4. Aud!PhonesOf(A) = N
  <2>1. \A i \in A : book[i].phone \in N
    BY <1>1, <1>2
  <2>2. \A n \in N : \E i \in A : book[i].phone = n
    BY <1>1, <1>2
  <2>3. Aud!PhonesOf(A) = {book[i].phone : i \in A}
    BY DEF Aud!PhonesOf
  <2> QED
    BY <2>1, <2>2, <2>3
<1> DEFINE g == [i \in L \cup C |-> book[i].phone]
           f == [n \in N |-> first(n)]
           h == [i \in A |-> book[i].phone]
<1>5. IsFiniteSet(L \cup C)
  BY <1>3, FS_Subset
<1>6. IsFiniteSet(N)
  <2>1. g \in [L \cup C -> N] /\ \A n \in N : \E i \in L \cup C : g[i] = n
    OBVIOUS
  <2> HIDE DEF g
  <2> QED
    BY <1>5, <2>1, NoMoreFound
<1> HIDE DEF N
<1>7. IsFiniteSet(A) /\ Cardinality(A) <= Cardinality(N)
  <2>1. f \in [N -> A] /\ \A i \in A : \E n \in N : f[n] = i
    BY <1>1
  <2> HIDE DEF f
  <2> QED
    BY <1>6, <2>1, NoMoreFound
<1>8. Cardinality(N) <= Cardinality(A)
  <2>1. h \in [A -> N] /\ \A n \in N : \E i \in A : h[i] = n
    BY <1>4 DEF Aud!PhonesOf
  <2> HIDE DEF h
  <2> QED
    BY <1>7, <2>1, NoMoreFound
<1>9. Cardinality(N) = Cardinality(A)
  BY <1>6, <1>7, <1>8, FS_CardinalityType
<1>10. A \subseteq L \cup C
  BY <1>1, <1>2
<1> QED
  BY <1>4, <1>7, <1>9, <1>10 DEF L, C, A

\* Who is counted and who is reached is in the tables, and can be counted.
LEMMA Countable ==
  ASSUME IsFiniteSet(DOMAIN book), NEW w
  PROVE  /\ Aud!CountedLeads(w) \subseteq DOMAIN book /\ IsFiniteSet(Aud!CountedLeads(w))
         /\ Aud!CountedCustomers(w) \subseteq DOMAIN book /\ IsFiniteSet(Aud!CountedCustomers(w))
         /\ Aud!LeadsAudience(w) \subseteq Aud!CountedLeads(w) /\ IsFiniteSet(Aud!LeadsAudience(w))
         /\ Aud!CustomersAudience(w) \subseteq Aud!CountedCustomers(w) /\ IsFiniteSet(Aud!CustomersAudience(w))
<1>1. Aud!CountedLeads(w) \subseteq DOMAIN book /\ Aud!CountedCustomers(w) \subseteq DOMAIN book
  BY DEF Aud!CountedLeads, Aud!CountedCustomers, Aud!LeadRows, Aud!Patrons
<1>2. Aud!LeadsAudience(w) \subseteq Aud!CountedLeads(w) /\ Aud!CustomersAudience(w) \subseteq Aud!CountedCustomers(w)
  BY DEF Aud!LeadsAudience, Aud!CustomersAudience
<1> QED
  BY <1>1, <1>2, FS_Subset

LEMMA AudienceKnown ==
  ASSUME IsFiniteSet(DOMAIN book), NEW w
  PROVE  Aud!Audience(w) \subseteq DOMAIN book
<1>1. \A v : Aud!CustomSegment(v) \subseteq DOMAIN book
  BY OneOfEachNumber, Countable
<1> QED
  BY <1>1, Countable DEF Aud!Audience

LEMMA CountsAreNumbers ==
  ASSUME IsFiniteSet(DOMAIN book), NEW w
  PROVE  LeadCount(w) \in Nat /\ CustomerCount(w) \in Nat
  BY Countable, FS_CardinalityType DEF LeadCount, CustomerCount

LEMMA AudStarts == Aud!Init => AudInv
<1> SUFFICES ASSUME Aud!Init PROVE AudInv
  OBVIOUS
<1>1. IsFiniteSet(DOMAIN book)
  BY MessageAssumption DEF Aud!Init
<1>2. PICK w \in Wanted, strict \in BOOLEAN :
        asking = [w |-> w, strict |-> strict, leads |-> -1, customers |-> -1,
                  sample |-> {}, audience |-> {}, fetched |-> FALSE, failed |-> FALSE]
  BY DEF Aud!Init
<1> QED
  BY <1>1, <1>2 DEF AudInv, AudTyped, StillSo

\* While the tables rest, the same is counted and reached.
LEMMA BookRests ==
  ASSUME UNCHANGED book, NEW w
  PROVE  /\ LeadCount(w)' = LeadCount(w) /\ CustomerCount(w)' = CustomerCount(w)
         /\ Aud!Audience(w)' = Aud!Audience(w)
<1>1. \A v : /\ Aud!CountedLeads(v)' = Aud!CountedLeads(v) /\ Aud!CountedCustomers(v)' = Aud!CountedCustomers(v)
             /\ Aud!LeadsAudience(v)' = Aud!LeadsAudience(v) /\ Aud!CustomersAudience(v)' = Aud!CustomersAudience(v)
             /\ Aud!CustomSegment(v)' = Aud!CustomSegment(v)
  BY DEF Aud!CountedLeads, Aud!CountedCustomers, Aud!LeadRows, Aud!Patrons, Aud!LeadsAudience, Aud!CustomersAudience,
         Aud!CustomSegment
<1> QED
  BY <1>1 DEF LeadCount, CustomerCount, Aud!Audience, Aud!Counting

\* What is asked next adds to what was asked.
LEMMA AudAsks ==
  ASSUME AudInv, Aud!CountLeadsOf \/ Aud!CountCustomersOf \/ Aud!TakeSample \/ Aud!Fetch
  PROVE  AudInv'
<1>1. PICK w \in Wanted : w = asking.w
  BY DEF AudInv, AudTyped
<1>2. UNCHANGED <<book, moves, moved>>
  BY DEF Aud!CountLeadsOf, Aud!CountCustomersOf, Aud!TakeSample, Aud!Fetch, Aud!Getting
<1>3. IsFiniteSet(DOMAIN book) /\ IsFiniteSet(DOMAIN book')
  BY <1>2 DEF AudInv, AudTyped
<1> DEFINE Ask == [w : Wanted, strict : BOOLEAN, leads : Nat \cup {-1}, customers : Nat \cup {-1},
                   sample : SUBSET DOMAIN book, audience : SUBSET DOMAIN book, fetched : BOOLEAN, failed : BOOLEAN]
<1>4. asking \in Ask
  BY DEF AudInv, AudTyped
<1>5. ~moved => StillSo(w)
  BY <1>1 DEF AudInv
<1>6. /\ LeadCount(w)' = LeadCount(w) /\ CustomerCount(w)' = CustomerCount(w)
      /\ Aud!Audience(w)' = Aud!Audience(w)
  BY <1>2, BookRests
<1>7. LeadCount(w) \in Nat /\ CustomerCount(w) \in Nat /\ Aud!Audience(w) \subseteq DOMAIN book
  BY <1>3, CountsAreNumbers, AudienceKnown
<1>8. \A T : Aud!Cardinality(T) = Cardinality(T)
  BY DEF Aud!Cardinality, Cardinality
<1>9. ASSUME asking' \in Ask, asking'.w = w, ~moved => StillSo(w)'
      PROVE  AudInv'
  BY <1>2, <1>3, <1>9 DEF AudInv, AudTyped
<1>10. CASE asking' = Aud!Failed
  <2>1. asking' = [asking EXCEPT !.failed = TRUE]
    BY <1>10 DEF Aud!Failed
  <2>2. asking' \in Ask /\ asking'.w = w
    BY <1>1, <1>4, <2>1
  <2>3. ~moved => StillSo(w)'
    BY <1>4, <1>5, <1>6, <2>1 DEF StillSo
  <2> QED
    BY <1>9, <2>2, <2>3
<1>11. CASE Aud!CountLeadsOf
  <2>1. asking' = [asking EXCEPT !.leads = LeadCount(w)]
    BY <1>1, <1>8, <1>11 DEF Aud!CountLeadsOf, LeadCount
  <2>2. asking' \in Ask /\ asking'.w = w
    BY <1>1, <1>4, <1>7, <2>1
  <2>3. asking.leads = -1
    BY <1>11 DEF Aud!CountLeadsOf
  <2>4. ~moved => StillSo(w)'
    BY <1>4, <1>5, <1>6, <1>7, <2>1, <2>3 DEF StillSo
  <2> QED
    BY <1>9, <2>2, <2>4
<1>12. CASE Aud!CountCustomersOf
  <2>1. CASE asking' = [asking EXCEPT !.customers = CustomerCount(w)] /\ asking.customers = -1
    <3>1. asking' \in Ask /\ asking'.w = w
      BY <1>1, <1>4, <1>7, <2>1
    <3>2. ~moved => StillSo(w)'
      BY <1>4, <1>5, <1>6, <1>7, <2>1 DEF StillSo
    <3> QED
      BY <1>9, <3>1, <3>2
  <2> QED
    BY <1>1, <1>8, <1>10, <1>12, <2>1 DEF Aud!CountCustomersOf, CustomerCount
<1>13. CASE Aud!TakeSample
  <2>1. CASE \E S \in SUBSET Aud!Audience(w) : asking' = [asking EXCEPT !.sample = S]
    <3>1. PICK S \in SUBSET Aud!Audience(w) : asking' = [asking EXCEPT !.sample = S]
      BY <2>1
    <3>2. asking' \in Ask /\ asking'.w = w
      BY <1>1, <1>4, <1>7, <3>1
    <3>3. ~moved => StillSo(w)'
      BY <1>4, <1>5, <1>6, <3>1 DEF StillSo
    <3> QED
      BY <1>9, <3>2, <3>3
  <2> QED
    BY <1>1, <1>10, <1>13, <2>1 DEF Aud!TakeSample, Aud!kSubset
<1>14. CASE Aud!Fetch
  <2>1. CASE asking' = [asking EXCEPT !.audience = Aud!Audience(w), !.fetched = TRUE]
    <3>1. asking' \in Ask /\ asking'.w = w
      BY <1>1, <1>4, <1>7, <2>1
    <3>2. asking.leads # -1 /\ asking.customers # -1
      BY <1>14 DEF Aud!Fetch
    <3>3. ~moved => StillSo(w)'
      BY <1>4, <1>5, <1>6, <2>1, <3>2 DEF StillSo
    <3> QED
      BY <1>9, <3>1, <3>3
  <2> QED
    BY <1>1, <1>10, <1>14, <2>1 DEF Aud!Fetch
<1> QED
  BY <1>11, <1>12, <1>13, <1>14

\* A change after anything was asked is a change that counts.
LEMMA AudMoves ==
  ASSUME AudInv, Aud!Move
  PROVE  AudInv'
<1>1. /\ ~asking.fetched /\ UNCHANGED asking
      /\ moved' = (asking.leads >= 0 \/ asking.customers >= 0 \/ asking.sample # {})
  BY DEF Aud!Move
<1>2. DOMAIN book' = DOMAIN book
  BY DEF Aud!Move
<1>3. AudTyped'
  BY <1>1, <1>2 DEF AudInv, AudTyped
<1>4. asking.leads \in Nat \cup {-1} /\ asking.customers \in Nat \cup {-1}
  BY DEF AudInv, AudTyped
<1>5. ASSUME ~moved' PROVE asking.leads = -1 /\ asking.customers = -1 /\ asking.sample = {} /\ ~asking.fetched
  <2>1. ~(asking.leads >= 0) /\ ~(asking.customers >= 0) /\ asking.sample = {}
    BY <1>1, <1>5, Zenon
  <2> QED
    BY <1>1, <1>4, <2>1
<1>6. asking' = asking
  BY <1>1
<1>7. ASSUME NEW w \in Wanted, ~moved' PROVE StillSo(w)'
  BY <1>5, <1>6, <1>7 DEF StillSo
<1> QED
  BY <1>3, <1>7 DEF AudInv

LEMMA AudKept ==
  ASSUME AudInv, Aud!Next \/ UNCHANGED audienceVars
  PROVE  AudInv'
<1>1. CASE UNCHANGED audienceVars
  <2>1. ASSUME NEW w \in Wanted, asking'.w = w, ~moved' PROVE StillSo(w)'
    <3>1. StillSo(w) /\ UNCHANGED <<book, asking>>
      BY <1>1, <2>1 DEF AudInv, audienceVars
    <3>2. /\ LeadCount(w)' = LeadCount(w) /\ CustomerCount(w)' = CustomerCount(w)
          /\ Aud!Audience(w)' = Aud!Audience(w)
      BY <3>1, BookRests
    <3> QED
      BY <3>1, <3>2 DEF StillSo
  <2>2. AudTyped'
    BY <1>1 DEF AudInv, AudTyped, audienceVars
  <2> QED
    BY <2>1, <2>2 DEF AudInv
<1> QED
  BY <1>1, AudAsks, AudMoves DEF Aud!Next

\* Of a mixed audience no more are reached than were counted in both tables.
LEMMA MixedAudience ==
  ASSUME IsFiniteSet(DOMAIN book), NEW w
  PROVE  /\ Cardinality(Aud!CustomSegment(w)) <= Cardinality(Aud!CountedLeads(w)) + Cardinality(Aud!CountedCustomers(w))
         /\ Aud!CustomSegment(w) \cap Aud!Patrons \subseteq Aud!Recent(w)
<1> DEFINE L == Aud!CountedLeads(w)
           C == Aud!CountedCustomers(w)
           A == Aud!CustomSegment(w)
<1>1. A \subseteq Aud!LeadsAudience(w) \cup Aud!CustomersAudience(w) /\ IsFiniteSet(A)
  BY OneOfEachNumber
<1>2. A \subseteq L \cup C /\ IsFiniteSet(L) /\ IsFiniteSet(C)
  BY <1>1, Countable
<1>3. A \cap Aud!Patrons \subseteq Aud!Recent(w)
  <2>1. Aud!LeadsAudience(w) \cap Aud!Patrons = {}
    BY DEF Aud!LeadsAudience, Aud!CountedLeads, Aud!LeadRows, Aud!Patrons
  <2>2. Aud!CustomersAudience(w) \subseteq Aud!Recent(w)
    BY DEF Aud!CustomersAudience, Aud!CountedCustomers, Aud!Recent, Aud!AtMost
  <2> QED
    BY <1>1, <2>1, <2>2
<1> HIDE DEF L, C, A
<1>4. IsFiniteSet(L \cup C) /\ Cardinality(L \cup C) = Cardinality(L) + Cardinality(C) - Cardinality(L \cap C)
  BY <1>2, FS_Union
<1>5. IsFiniteSet(L \cap C)
  BY <1>2, FS_Subset
<1>6. /\ Cardinality(L) \in Nat /\ Cardinality(C) \in Nat /\ Cardinality(L \cap C) \in Nat /\ Cardinality(A) \in Nat
      /\ Cardinality(L \cup C) \in Nat
  BY <1>1, <1>2, <1>4, <1>5, FS_CardinalityType
<1>7. Cardinality(A) <= Cardinality(L \cup C)
  BY <1>2, <1>4, FS_Subset
<1>8. Cardinality(A) <= Cardinality(L) + Cardinality(C)
  BY <1>4, <1>6, <1>7
<1> QED
  BY <1>3, <1>8 DEF L, C, A

LEMMA AudAccounted == ASSUME AudInv PROVE Aud!PreviewCovers
<1>0. asking.w \in Wanted
  BY DEF AudInv, AudTyped
<1> SUFFICES ASSUME asking.fetched, ~moved, NEW w \in Wanted, w = asking.w, NEW A, A = asking.audience
             PROVE  /\ Cardinality(A) <= asking.leads + asking.customers
                    /\ w.type \notin Aud!Several /\ ~Aud!Asks(w, "tags") /\ ~Aud!Asks(w, "lastOrder")
                         => Cardinality(A) = asking.leads + asking.customers
                    /\ w.type \in Aud!Several => Cardinality(Aud!PhonesOf(A)) = Cardinality(A)
                    /\ w.type # "all" => A \cap Aud!Patrons \subseteq Aud!Recent(w)
                    /\ w.type \notin Aud!Several => asking.sample \subseteq A
  <2>2. \A T : Aud!Cardinality(T) = Cardinality(T)
    BY DEF Aud!Cardinality, Cardinality
  <2> QED
    BY <1>0, <2>2 DEF Aud!PreviewCovers
<1>1. IsFiniteSet(DOMAIN book) /\ StillSo(w)
  BY DEF AudInv, AudTyped
<1>2. /\ asking.leads = LeadCount(w) /\ asking.customers = CustomerCount(w)
      /\ asking.sample \subseteq A /\ A = Aud!Audience(w)
  BY <1>1 DEF StillSo
<1>3. w.type \in {"all", "leads", "customers", "segment", "custom"}
  BY MessageAssumption
<1>4. CASE w.type = "leads"
  <2>1. A = Aud!LeadsAudience(w) /\ Aud!Counting(w) = w
    BY <1>2, <1>4 DEF Aud!Audience, Aud!Counting
  <2>2. A \subseteq Aud!CountedLeads(w) /\ IsFiniteSet(Aud!CountedLeads(w))
    BY <1>1, <2>1, Countable
  <2>3. asking.leads = Cardinality(Aud!CountedLeads(w)) /\ asking.customers = 0 /\ asking.leads \in Nat
    BY <1>1, <1>2, <1>4, <2>1, CountsAreNumbers DEF LeadCount, CustomerCount
  <2>4. Cardinality(A) <= asking.leads + asking.customers
    BY <2>2, <2>3, FS_Subset, FS_CardinalityType
  <2>5. ~Aud!Asks(w, "tags") => A = Aud!CountedLeads(w)
    BY <2>1 DEF Aud!LeadsAudience
  <2>6. A \cap Aud!Patrons = {}
    BY <2>1 DEF Aud!LeadsAudience, Aud!CountedLeads, Aud!LeadRows, Aud!Patrons
  <2> QED
    BY <1>2, <1>4, <2>3, <2>4, <2>5, <2>6 DEF Aud!Several
<1>5. CASE w.type = "customers"
  <2>1. A = Aud!CustomersAudience(w) /\ Aud!Counting(w) = w
    BY <1>2, <1>5 DEF Aud!Audience, Aud!Counting
  <2>2. A \subseteq Aud!CountedCustomers(w) /\ IsFiniteSet(Aud!CountedCustomers(w))
    BY <1>1, <2>1, Countable
  <2>3. asking.customers = Cardinality(Aud!CountedCustomers(w)) /\ asking.leads = 0 /\ asking.customers \in Nat
    BY <1>1, <1>2, <1>5, <2>1, CountsAreNumbers DEF LeadCount, CustomerCount
  <2>4. Cardinality(A) <= asking.leads + asking.customers
    BY <2>2, <2>3, FS_Subset, FS_CardinalityType
  <2>5. ~Aud!Asks(w, "lastOrder") => A = Aud!CountedCustomers(w)
    BY <2>1 DEF Aud!CustomersAudience, Aud!AtMost
  <2>6. A \subseteq Aud!Recent(w)
    BY <2>1 DEF Aud!CustomersAudience, Aud!CountedCustomers, Aud!Recent, Aud!AtMost
  <2> QED
    BY <1>2, <1>5, <2>3, <2>4, <2>5, <2>6 DEF Aud!Several
<1>6. CASE w.type \in Aud!Several
  <2>1. PICK v : v = Aud!Counting(w)
    OBVIOUS
  <2>2. A = Aud!CustomSegment(v) /\ (w.type # "all" => v = w)
    BY <1>2, <1>6, <2>1 DEF Aud!Audience, Aud!Counting, Aud!Several
  <2>3. asking.leads = Cardinality(Aud!CountedLeads(v)) /\ asking.customers = Cardinality(Aud!CountedCustomers(v))
    BY <1>2, <1>6, <2>1 DEF LeadCount, CustomerCount, Aud!Several
  <2>4. Cardinality(A) <= asking.leads + asking.customers
    BY <1>1, <2>2, <2>3, MixedAudience
  <2>5. Cardinality(Aud!PhonesOf(A)) = Cardinality(A)
    BY <1>1, <2>2, OneOfEachNumber
  <2>6. w.type # "all" => A \cap Aud!Patrons \subseteq Aud!Recent(w)
    BY <1>1, <2>2, MixedAudience
  <2> QED
    BY <1>6, <2>4, <2>5, <2>6
<1> QED
  BY <1>3, <1>4, <1>5, <1>6 DEF Aud!Several

-----------------------------------------------------------------------------
(* InstagramDesk                                                           *)

LEMMA IgStarts == Insta!Init => IgInv
<1> SUFFICES ASSUME Insta!Init PROVE IgInv
  OBVIOUS
<1>1. IgTyped
  <2>1. Insta!NotCatching \in Catcher /\ Insta!NotReplying \in Replier
    BY DEF Insta!NotCatching, Insta!NotReplying, Catcher, Replier
  <2>2. Insta!NotCatching.at = "idle" /\ Insta!NotReplying.at = "idle"
    BY DEF Insta!NotCatching, Insta!NotReplying
  <2>3. catching \in [IgHandlers -> Catcher] /\ \A h \in IgHandlers : catching[h].at = "idle"
    BY <2>1, <2>2 DEF Insta!Init
  <2>4. igReplies \in [Insta!Items -> Nat] /\ igAsked \in [Insta!Items -> Nat]
    BY DEF Insta!Init
  <2>5. IsFiniteSet(igResults)
    BY FS_EmptySet DEF Insta!Init
  <2> QED
    BY <2>1, <2>2, <2>3, <2>4, <2>5 DEF Insta!Init, IgTyped
<1>2. igLeads = <<>>
  BY DEF Insta!Init
<1>3. \A i \in Comments : ReplyDue(i)
  <2>1. \A i : Due(i) = {} /\ UnderWay(i) = 0
    BY DEF Insta!Init, Due, UnderWay, Insta!NotReplying
  <2>2. \A i \in Comments : igReplies[i] = 0 /\ igAsked[i] = 0 /\ stops = 0
    BY DEF Insta!Init, Insta!Items
  <2> QED
    BY <2>1, <2>2, FS_EmptySet DEF ReplyDue
<1>4. Insta!DroppedHaveCrossed
  BY DEF Insta!Init, Insta!DroppedHaveCrossed
<1> QED
  BY <1>1, <1>2, <1>3, <1>4 DEF IgInv

\* As long as no lead is given anything new, the leads fit.
LEMMA LeadsFit ==
  ASSUME IgInv, igLeads' = igLeads,
         \A l \in DOMAIN igLeads, i \in Insta!Items : Holds(l, i)' => Holds(l, i)
  PROVE  \A l \in DOMAIN igLeads, i \in Insta!Items : LeadFits(l, i)'
  BY DEF IgInv, LeadFits

\* As long as no lead gets to another place, none is at two.
LEMMA PlacesStay ==
  ASSUME IgInv, igLeads' = igLeads, crossed' = crossed, stops' = stops, igResults' \subseteq igResults,
         \A l : Remembered(l) => Remembered(l)',
         \A h \in IgHandlers, l \in DOMAIN igLeads : Asking(h, l)' => Asking(h, l),
         \A l \in DOMAIN igLeads : RepliedTo(l)' => RepliedTo(l)
  PROVE  stops = 0 => \A l \in DOMAIN igLeads \ crossed : OnePlace(l)'
<1>1. \A l : Answered(l)' => Answered(l)
  BY DEF Answered
<1> QED
  BY <1>1 DEF IgInv, OnePlace

\* As long as nothing is asked, answered or stopped, as many replies are due.
LEMMA DuesStay ==
  ASSUME IgInv, UNCHANGED <<igResults, igReplies, igAsked, stops>>,
         \A i \in Comments : UnderWay(i)' <= UnderWay(i)
  PROVE  \A i \in Comments : ReplyDue(i)'
<1> TAKE i \in Comments
<1>1. Due(i)' = Due(i) /\ IsFiniteSet(Due(i))
  BY FS_Subset DEF Due, IgInv, IgTyped
<1>2. Cardinality(Due(i)) \in Nat
  BY <1>1, FS_CardinalityType
<1>3. igReplies[i] \in Nat /\ igAsked[i] \in Nat /\ stops \in Nat /\ UnderWay(i) \in Nat /\ UnderWay(i)' \in Nat
  BY DEF IgInv, IgTyped, Insta!Items, UnderWay
<1> QED
  BY <1>1, <1>2, <1>3 DEF IgInv, ReplyDue

\* A handler moves on, by itself.
LEMMA CatcherMoves ==
  ASSUME IgTyped, NEW h \in IgHandlers, NEW k \in Catcher, catching' = [catching EXCEPT ![h] = k]
  PROVE  /\ catching' \in [IgHandlers -> Catcher] /\ catching'[h] = k
         /\ \A g \in IgHandlers \ {h} : catching'[g] = catching[g]
  BY DEF IgTyped

LEMMA CatcherTakes ==
  ASSUME IgInv, NEW h \in IgHandlers, NEW k \in Catcher, catching' = [catching EXCEPT ![h] = k],
         k.at \notin {"idle", "remember"} => k.item \in Insta!Items,
         k.at = "remember" => /\ k.lead \in DOMAIN igLeads /\ k.item \in Directs
                              /\ igLeads[k.lead] = [author |-> IgAuthor[k.item], direct |-> TRUE],
         k.at # "ask",
         UNCHANGED <<links, igLeads, contexts, hooks, igResults, replying, igReplies, igAsked, crossed, unanswered, stops>>
  PROVE  IgInv'
<1>0. Directs \subseteq Insta!Items /\ \A i \in Directs : i \notin Comments
  BY MessageAssumption DEF Insta!Items
<1>1. /\ catching' \in [IgHandlers -> Catcher] /\ catching'[h] = k
      /\ \A g \in IgHandlers \ {h} : catching'[g] = catching[g]
  BY CatcherMoves DEF IgInv
<1>2. \A g \in IgHandlers :
        /\ catching'[g].at # "idle" => catching'[g].item \in Insta!Items
        /\ catching'[g].at \in {"remember", "ask"} => catching'[g].lead \in DOMAIN igLeads
  BY <1>0, <1>1 DEF IgInv, IgTyped
<1>3. IgTyped'
  BY <1>1, <1>2 DEF IgInv, IgTyped
<1>4. \A l, i : Holds(l, i)' => Holds(l, i) \/ (k.at = "remember" /\ k.lead = l /\ k.item = i)
  BY <1>1 DEF Holds
<1>5. ASSUME NEW l \in DOMAIN igLeads, NEW i \in Insta!Items PROVE LeadFits(l, i)'
  <2>1. CASE k.at = "remember" /\ k.lead = l
    <3>1. igLeads[l] = [author |-> IgAuthor[k.item], direct |-> TRUE] /\ k.item \in Directs
      BY <2>1
    <3>2. igLeads[l].direct = TRUE
      BY <3>1
    <3>3. Holds(l, i) => i \in Directs /\ igLeads[l] = [author |-> IgAuthor[i], direct |-> i \in Directs]
      <4> SUFFICES ASSUME Holds(l, i) PROVE i \in Directs /\ igLeads[l] = [author |-> IgAuthor[i], direct |-> i \in Directs]
        OBVIOUS
      <4>1. igLeads[l] = [author |-> IgAuthor[i], direct |-> i \in Directs]
        BY <1>5 DEF IgInv, LeadFits
      <4>2. [author |-> IgAuthor[i], direct |-> i \in Directs].direct = (i \in Directs)
        OBVIOUS
      <4>3. i \in Directs
        BY <3>2, <4>1, <4>2
      <4> QED
        BY <4>1, <4>3
    <3> QED
      BY <1>0, <1>4, <3>1, <3>3 DEF LeadFits
  <2>2. CASE ~(k.at = "remember" /\ k.lead = l)
    BY <1>4, <1>5, <2>2 DEF IgInv, LeadFits
  <2> QED
    BY <2>1, <2>2
<1>6. \A i \in Comments : ReplyDue(i)'
  <2>1. \A i : UnderWay(i)' = UnderWay(i) /\ UnderWay(i) \in Nat
    BY DEF UnderWay
  <2>2. \A i \in Comments : UnderWay(i)' <= UnderWay(i)
    BY <2>1
  <2> QED
    BY <2>2, DuesStay
<1>7. stops = 0 => \A l \in DOMAIN igLeads \ crossed : OnePlace(l)'
  <2>1. \A g \in IgHandlers, l \in DOMAIN igLeads : Asking(g, l)' => Asking(g, l)
    BY <1>1 DEF Asking
  <2>2. \A l : (RepliedTo(l)' <=> RepliedTo(l)) /\ (Remembered(l)' <=> Remembered(l))
    BY DEF RepliedTo, Remembered
  <2> QED
    BY <2>1, <2>2, PlacesStay
<1>8. Insta!DroppedHaveCrossed'
  BY DEF IgInv, Insta!DroppedHaveCrossed
<1> QED
  BY <1>3, <1>5, <1>6, <1>7, <1>8 DEF IgInv

LEMMA IgCatches ==
  ASSUME IgInv, NEW h \in IgHandlers,
         (\E i \in Insta!Items : Insta!Catch(h, i)) \/ Insta!FindLink(h) \/ Insta!FindIgLead(h) \/ Insta!DropItem(h)
  PROVE  IgInv'
<1>0. catching[h] \in Catcher
  BY DEF IgInv, IgTyped
<1>1. Insta!NotCatching \in Catcher /\ Insta!NotCatching.at = "idle"
  BY DEF Insta!NotCatching, Catcher
<1>2. UNCHANGED <<links, igLeads, contexts, hooks, igResults, replying, igReplies, igAsked, crossed, unanswered, stops>>
  BY DEF Insta!Catch, Insta!FindLink, Insta!FindIgLead, Insta!DropItem, Insta!memory, Insta!outside
<1>3. CASE catching' = [catching EXCEPT ![h] = Insta!NotCatching]
  BY <1>1, <1>2, <1>3, CatcherTakes
<1>4. CASE \E i \in Insta!Items : Insta!Catch(h, i)
  <2>1. PICK i \in Insta!Items : Insta!Catch(h, i)
    BY <1>4
  <2>2. PICK k \in Catcher : k = [Insta!NotCatching EXCEPT !.at = "account", !.item = i]
    BY DEF Insta!NotCatching, Catcher
  <2>3. k.at = "account" /\ k.item = i
    BY <2>2 DEF Insta!NotCatching
  <2>4. catching' = [catching EXCEPT ![h] = k]
    BY <2>1, <2>2 DEF Insta!Catch
  <2> QED
    BY <1>2, <2>3, <2>4, CatcherTakes
<1>5. CASE Insta!FindLink(h)
  <2>1. CASE \E n \in DOMAIN links : catching' = [catching EXCEPT ![h].at = "lead", ![h].link = n]
    <3>1. PICK n \in DOMAIN links : catching' = [catching EXCEPT ![h].at = "lead", ![h].link = n]
      BY <2>1
    <3>2. n \in Nat
      BY <3>1 DEF IgInv, IgTyped
    <3>3. PICK k \in Catcher : k = [catching[h] EXCEPT !.at = "lead", !.link = n]
      BY <1>0, <3>2 DEF Catcher
    <3>4. k.at = "lead" /\ k.item = catching[h].item
      BY <1>0, <3>3 DEF Catcher
    <3>5. catching' = [catching EXCEPT ![h] = k]
      BY <3>1, <3>3
    <3>6. k.item \in Insta!Items
      BY <1>5, <3>4 DEF Insta!FindLink, IgInv, IgTyped
    <3> QED
      BY <1>2, <3>3, <3>4, <3>5, <3>6, CatcherTakes
  <2> QED
    BY <1>3, <1>5, <2>1 DEF Insta!FindLink
<1>6. CASE Insta!FindIgLead(h)
  <2>0. catching[h].item \in Insta!Items
    BY <1>6 DEF Insta!FindIgLead, IgInv, IgTyped
  <2>1. CASE catching' = [catching EXCEPT ![h].at = "newlead"]
    <3>1. PICK k \in Catcher : k = [catching[h] EXCEPT !.at = "newlead"]
      BY <1>0 DEF Catcher
    <3>2. k.at = "newlead" /\ k.item = catching[h].item
      BY <1>0, <3>1 DEF Catcher
    <3>3. catching' = [catching EXCEPT ![h] = k]
      BY <2>1, <3>1
    <3> QED
      BY <1>2, <2>0, <3>1, <3>2, <3>3, CatcherTakes
  <2>2. CASE \E l \in DOMAIN igLeads :
               /\ catching[h].item \in Directs
               /\ igLeads[l] = [author |-> IgAuthor[catching[h].item], direct |-> TRUE]
               /\ catching' = [catching EXCEPT ![h].at = "remember", ![h].lead = l]
    <3>1. PICK l \in DOMAIN igLeads :
               /\ catching[h].item \in Directs
               /\ igLeads[l] = [author |-> IgAuthor[catching[h].item], direct |-> TRUE]
               /\ catching' = [catching EXCEPT ![h].at = "remember", ![h].lead = l]
      BY <2>2
    <3>2. l \in Nat
      BY <3>1 DEF IgInv, IgTyped
    <3>3. PICK k \in Catcher : k = [catching[h] EXCEPT !.at = "remember", !.lead = l]
      BY <1>0, <3>2 DEF Catcher
    <3>4. k.at = "remember" /\ k.item = catching[h].item /\ k.lead = l
      BY <1>0, <3>3 DEF Catcher
    <3>5. catching' = [catching EXCEPT ![h] = k]
      BY <3>1, <3>3
    <3> QED
      BY <1>2, <3>1, <3>3, <3>4, <3>5, CatcherTakes
  <2> QED
    BY <1>6, <2>1, <2>2 DEF Insta!FindIgLead
<1> QED
  BY <1>3, <1>4, <1>5, <1>6 DEF Insta!DropItem


\* A new lead is of the item it was made for.
LEMMA IgCreates ==
  ASSUME IgInv, NEW h \in IgHandlers, Insta!CreateIgLead(h)
  PROVE  IgInv'
<1>1. PICK i \in Insta!Items : i = catching[h].item
  BY DEF IgInv, IgTyped, Insta!CreateIgLead
<1>2. UNCHANGED <<links, contexts, hooks, igResults, replying, igReplies, igAsked, crossed, unanswered, stops>>
  BY DEF Insta!CreateIgLead, Insta!memory, Insta!outside
<1>3. PICK lead : lead = [author |-> IgAuthor[i], direct |-> i \in Directs]
  OBVIOUS
<1>4. lead \in [author : {IgAuthor[j] : j \in Insta!Items}, direct : BOOLEAN]
  BY <1>3
<1>5. igLeads' = Append(igLeads, lead)
  BY <1>1, <1>3 DEF Insta!CreateIgLead
<1>6. PICK n \in Nat : n = Len(igLeads) + 1
  BY DEF IgInv, IgTyped
<1>7. /\ igLeads' \in Seq([author : {IgAuthor[j] : j \in Insta!Items}, direct : BOOLEAN])
      /\ DOMAIN igLeads' = DOMAIN igLeads \cup {n} /\ n \notin DOMAIN igLeads /\ Len(igLeads') = n
      /\ igLeads'[n] = lead /\ \A l \in DOMAIN igLeads : igLeads'[l] = igLeads[l]
  BY <1>4, <1>5, <1>6 DEF IgInv, IgTyped
<1>8. catching[h] \in Catcher
  BY DEF IgInv, IgTyped
<1>9. PICK k \in Catcher : k = [catching[h] EXCEPT !.at = "remember", !.lead = n]
  BY <1>8 DEF Catcher
<1>10. k.at = "remember" /\ k.item = i /\ k.lead = n
  BY <1>1, <1>8, <1>9 DEF Catcher
<1>11. catching' = [catching EXCEPT ![h] = k]
  BY <1>7, <1>9 DEF Insta!CreateIgLead
<1>12. /\ catching' \in [IgHandlers -> Catcher] /\ catching'[h] = k
       /\ \A g \in IgHandlers \ {h} : catching'[g] = catching[g]
  BY <1>9, <1>11, CatcherMoves DEF IgInv
<1>13. IgTyped'
  <2>1. \A g \in IgHandlers :
          /\ catching'[g].at # "idle" => catching'[g].item \in Insta!Items
          /\ catching'[g].at \in {"remember", "ask"} => catching'[g].lead \in DOMAIN igLeads'
    BY <1>7, <1>10, <1>12 DEF IgInv, IgTyped
  <2>2. /\ contexts' \subseteq [lead : DOMAIN igLeads' \cap hooks', item : Insta!Items, link : Nat]
        /\ igResults' \subseteq [item : Insta!Items, lead : DOMAIN igLeads']
        /\ crossed' \subseteq DOMAIN igLeads'
    BY <1>2, <1>7 DEF IgInv, IgTyped
  <2>3. IF replying'.at = "idle" THEN replying' = Insta!NotReplying
        ELSE replying'.lead \in DOMAIN igLeads' /\ replying'.item \in Insta!Items /\ replying'.to \in Insta!Items
    BY <1>2, <1>7 DEF IgInv, IgTyped
  <2> QED
    BY <1>2, <1>7, <1>12, <2>1, <2>2, <2>3 DEF IgInv, IgTyped
<1>14. \A j : Holds(n, j)' => j = i
  <2>1. \A j : ~Holds(n, j)
    BY <1>7 DEF IgInv, IgTyped, Holds
  <2> QED
    BY <1>2, <1>10, <1>12, <2>1 DEF Holds
<1>15. \A l \in DOMAIN igLeads : \A j : Holds(l, j)' => Holds(l, j)
  BY <1>2, <1>7, <1>10, <1>12 DEF Holds
<1>16. ASSUME NEW l \in DOMAIN igLeads', NEW j \in Insta!Items PROVE LeadFits(l, j)'
  <2>1. CASE l = n
    BY <1>3, <1>7, <1>14, <2>1 DEF LeadFits
  <2>2. CASE l \in DOMAIN igLeads
    BY <1>7, <1>15, <1>16, <2>2 DEF IgInv, LeadFits
  <2> QED
    BY <1>7, <2>1, <2>2
<1>17. \A j \in Comments : ReplyDue(j)'
  <2>1. \A j : UnderWay(j)' = UnderWay(j) /\ UnderWay(j) \in Nat
    BY <1>2 DEF UnderWay
  <2>2. \A j \in Comments : UnderWay(j)' <= UnderWay(j)
    BY <2>1
  <2> QED
    BY <1>2, <2>2, DuesStay
<1>18. ASSUME stops' = 0, NEW l \in DOMAIN igLeads' \ crossed' PROVE OnePlace(l)'
  <2>1. \A g \in IgHandlers : \A m \in DOMAIN igLeads : Asking(g, m)' <=> Asking(g, m)
    BY <1>10, <1>12 DEF Asking, Insta!CreateIgLead
  <2>2. \A m : /\ Answered(m)' <=> Answered(m)
               /\ RepliedTo(m)' <=> RepliedTo(m)
               /\ Remembered(m)' <=> Remembered(m)
    BY <1>2 DEF Answered, RepliedTo, Remembered
  <2>3. CASE l = n
    <3>1. ~Answered(n) /\ ~RepliedTo(n)
      BY <1>7 DEF IgInv, IgTyped, Answered, RepliedTo
    <3>2. \A g \in IgHandlers : ~Asking(g, n)'
      BY <1>7, <1>10, <1>12 DEF IgInv, IgTyped, Asking
    <3>3. ~Answered(n)' /\ ~RepliedTo(n)'
      BY <2>2, <3>1
    <3>4. \A r, s \in igResults' : r.lead = n /\ s.lead = n => r = s
      BY <3>3 DEF Answered
    <3> QED
      BY <2>3, <3>2, <3>3, <3>4 DEF OnePlace
  <2>4. CASE l \in DOMAIN igLeads
    <3>1. OnePlace(l)
      BY <1>2, <1>18, <2>4 DEF IgInv
    <3> QED
      BY <1>2, <2>1, <2>2, <2>4, <3>1 DEF OnePlace
  <2> QED
    BY <1>7, <2>3, <2>4
<1>19. Insta!DroppedHaveCrossed'
  BY <1>2, <1>7 DEF IgInv, IgTyped, Insta!DroppedHaveCrossed
<1> QED
  BY <1>13, <1>16, <1>17, <1>18, <1>19 DEF IgInv

\* A context that takes the place of another leaves the lead crossed.
LEMMA IgRemembers ==
  ASSUME IgInv, NEW h \in IgHandlers, Insta!Remember(h)
  PROVE  IgInv'
<1>1. PICK n \in DOMAIN igLeads, i \in Insta!Items :
        n = catching[h].lead /\ i = catching[h].item
  BY DEF IgInv, IgTyped, Insta!Remember
<1>2. UNCHANGED <<links, igLeads, igResults, replying, igReplies, igAsked, unanswered, stops>>
  BY DEF Insta!Remember, Insta!outside
<1>3. catching[h] \in Catcher /\ catching[h].at = "remember"
  BY DEF IgInv, IgTyped, Insta!Remember
<1>4. PICK x : x = [lead |-> n, item |-> i, link |-> catching[h].link]
  OBVIOUS
<1>5. x.lead = n /\ x.item = i /\ x \in [lead : DOMAIN igLeads, item : Insta!Items, link : Nat]
  BY <1>3, <1>4 DEF Catcher
<1>6. /\ contexts' = {y \in contexts : y.lead # n} \cup {x}
      /\ crossed' = IF Remembered(n) THEN crossed \cup {n} ELSE crossed
      /\ hooks' = hooks \cup {n}
  BY <1>1, <1>4 DEF Insta!Remember, Remembered
<1>7. PICK k \in Catcher : k = [catching[h] EXCEPT !.at = "ask"]
  BY <1>3 DEF Catcher
<1>8. k.at = "ask" /\ k.lead = n /\ k.item = i
  BY <1>1, <1>3, <1>7 DEF Catcher
<1>9. catching' = [catching EXCEPT ![h] = k]
  BY <1>7 DEF Insta!Remember
<1>10. /\ catching' \in [IgHandlers -> Catcher] /\ catching'[h] = k
       /\ \A g \in IgHandlers \ {h} : catching'[g] = catching[g]
  BY <1>7, <1>9, CatcherMoves DEF IgInv
<1>11. IgTyped'
  <2>1. \A g \in IgHandlers :
          /\ catching'[g].at # "idle" => catching'[g].item \in Insta!Items
          /\ catching'[g].at \in {"remember", "ask"} => catching'[g].lead \in DOMAIN igLeads
    BY <1>8, <1>10 DEF IgInv, IgTyped
  <2>2. contexts' \subseteq [lead : DOMAIN igLeads \cap hooks', item : Insta!Items, link : Nat]
    BY <1>5, <1>6 DEF IgInv, IgTyped
  <2>3. crossed' \subseteq DOMAIN igLeads
    BY <1>6 DEF IgInv, IgTyped
  <2> QED
    BY <1>2, <1>10, <2>1, <2>2, <2>3 DEF IgInv, IgTyped
<1>12. \A l, j : Holds(l, j)' => Holds(l, j)
  <2>1. Holds(n, i)
    BY <1>1, <1>3 DEF Holds
  <2> QED
    BY <1>2, <1>5, <1>6, <1>8, <1>10, <2>1 DEF Holds
<1>13. \A l \in DOMAIN igLeads, j \in Insta!Items : LeadFits(l, j)'
  BY <1>2, <1>12, LeadsFit
<1>14. \A j \in Comments : ReplyDue(j)'
  <2>1. \A j : UnderWay(j)' = UnderWay(j) /\ UnderWay(j) \in Nat
    BY <1>2 DEF UnderWay
  <2>2. \A j \in Comments : UnderWay(j)' <= UnderWay(j)
    BY <2>1
  <2> QED
    BY <1>2, <2>2, DuesStay
<1>15. ASSUME stops' = 0, NEW l \in DOMAIN igLeads' \ crossed' PROVE OnePlace(l)'
  <2>1. OnePlace(l) /\ l \in DOMAIN igLeads
    BY <1>2, <1>6, <1>15 DEF IgInv
  <2>2. /\ Answered(l)' <=> Answered(l)
        /\ RepliedTo(l)' <=> RepliedTo(l)
    BY <1>2 DEF Answered, RepliedTo
  <2>3. \A r, s \in igResults' : r.lead = l /\ s.lead = l => r = s
    BY <1>2, <2>1 DEF OnePlace
  <2>4. CASE l = n
    <3>1. ~Remembered(n)
      BY <1>6, <1>15, <2>4
    <3>2. ~Answered(n) /\ ~RepliedTo(n) /\ \A g \in IgHandlers : ~Asking(g, n)
      BY <2>1, <2>4, <3>1 DEF OnePlace
    <3>3. \A g \in IgHandlers : Asking(g, n)' => g = h
      BY <1>10, <3>2 DEF Asking
    <3>4. Remembered(n)'
      BY <1>5, <1>6 DEF Remembered
    <3> QED
      BY <2>2, <2>3, <2>4, <3>2, <3>3, <3>4 DEF OnePlace
  <2>5. CASE l # n
    <3>1. \A g \in IgHandlers : Asking(g, l)' => Asking(g, l)
      BY <1>8, <1>10, <2>5 DEF Asking
    <3>2. Remembered(l)' <=> Remembered(l)
      BY <1>5, <1>6, <2>5 DEF Remembered
    <3> QED
      BY <2>1, <2>2, <2>3, <3>1, <3>2 DEF OnePlace
  <2> QED
    BY <2>4, <2>5
<1>16. Insta!DroppedHaveCrossed'
  <2>1. crossed \subseteq crossed'
    BY <1>6
  <2> QED
    BY <1>2, <2>1 DEF IgInv, Insta!DroppedHaveCrossed
<1> QED
  BY <1>2, <1>11, <1>13, <1>14, <1>15, <1>16 DEF IgInv


LEMMA DuesAreNumbers ==
  ASSUME IgTyped
  PROVE  /\ \A i : IsFiniteSet(Due(i)) /\ Cardinality(Due(i)) \in Nat /\ UnderWay(i) \in 0..1
         /\ \A i \in Comments : igReplies[i] \in Nat /\ igAsked[i] \in Nat
         /\ stops \in Nat
<1>1. \A i : IsFiniteSet(Due(i))
  BY FS_Subset DEF IgTyped, Due
<1>2. \A i : Cardinality(Due(i)) \in Nat /\ UnderWay(i) \in 0..1
  BY <1>1, FS_CardinalityType DEF UnderWay
<1>3. \A i \in Comments : igReplies[i] \in Nat /\ igAsked[i] \in Nat
  BY DEF IgTyped, Insta!Items
<1> QED
  BY <1>1, <1>2, <1>3 DEF IgTyped

\* What was asked may be answered once more.
LEMMA IgAsks ==
  ASSUME IgInv, NEW h \in IgHandlers, Insta!AskAi(h)
  PROVE  IgInv'
<1>1. PICK n \in DOMAIN igLeads, i \in Insta!Items :
        n = catching[h].lead /\ i = catching[h].item
  BY DEF IgInv, IgTyped, Insta!AskAi
<1>2. UNCHANGED <<links, igLeads, contexts, hooks, crossed, replying, igReplies, unanswered, stops>>
  BY DEF Insta!AskAi, Insta!memory, Insta!outside
<1>3. catching[h].at = "ask"
  BY DEF Insta!AskAi
<1>4. PICK q : q = [item |-> i, lead |-> n]
  OBVIOUS
<1>5. q.lead = n /\ q.item = i /\ q \in [item : Insta!Items, lead : DOMAIN igLeads]
  BY <1>4
<1>6. igResults' = igResults \cup {q} /\ igAsked' = [igAsked EXCEPT ![i] = igAsked[i] + 1]
  BY <1>1, <1>4 DEF Insta!AskAi
<1>7. PICK k \in Catcher : k = Insta!NotCatching
  BY DEF Insta!NotCatching, Catcher
<1>8. k.at = "idle"
  BY <1>7 DEF Insta!NotCatching
<1>9. catching' = [catching EXCEPT ![h] = k]
  BY <1>7 DEF Insta!AskAi
<1>10. /\ catching' \in [IgHandlers -> Catcher] /\ catching'[h] = k
       /\ \A g \in IgHandlers \ {h} : catching'[g] = catching[g]
  BY <1>7, <1>9, CatcherMoves DEF IgInv
<1>11. IgTyped'
  <2>1. \A g \in IgHandlers :
          /\ catching'[g].at # "idle" => catching'[g].item \in Insta!Items
          /\ catching'[g].at \in {"remember", "ask"} => catching'[g].lead \in DOMAIN igLeads
    BY <1>8, <1>10 DEF IgInv, IgTyped
  <2>2. igResults' \subseteq [item : Insta!Items, lead : DOMAIN igLeads]
    BY <1>5, <1>6 DEF IgInv, IgTyped
  <2>3. IsFiniteSet(igResults')
    BY <1>6, FS_AddElement DEF IgInv, IgTyped
  <2>4. igAsked' \in [Insta!Items -> Nat]
    BY <1>6 DEF IgInv, IgTyped
  <2> QED
    BY <1>2, <1>10, <2>1, <2>2, <2>3, <2>4 DEF IgInv, IgTyped
<1>12. \A l, j : Holds(l, j)' => Holds(l, j)
  <2>1. Holds(n, i)
    BY <1>1, <1>3 DEF Holds
  <2> QED
    BY <1>2, <1>5, <1>6, <1>8, <1>10, <2>1 DEF Holds
<1>13. \A l \in DOMAIN igLeads, j \in Insta!Items : LeadFits(l, j)'
  BY <1>2, <1>12, LeadsFit
<1>14. ASSUME NEW j \in Comments PROVE ReplyDue(j)'
  <2>1. UnderWay(j)' = UnderWay(j)
    BY <1>2 DEF UnderWay
  <2>2. /\ Cardinality(Due(j)) \in Nat /\ igReplies[j] \in Nat /\ igAsked[j] \in Nat /\ stops \in Nat
        /\ UnderWay(j) \in 0..1 /\ IsFiniteSet(Due(j))
    BY DuesAreNumbers DEF IgInv
  <2>3. ReplyDue(j)
    BY DEF IgInv
  <2>4. CASE j = i
    <3>1. Due(j)' = Due(j) \cup {q}
      BY <1>5, <1>6, <2>4 DEF Due
    <3>2. Cardinality(Due(j) \cup {q}) <= Cardinality(Due(j)) + 1 /\ Cardinality(Due(j) \cup {q}) \in Nat
      <4>1. IsFiniteSet(Due(j) \cup {q})
        BY <2>2, FS_AddElement
      <4>2. Cardinality(Due(j) \cup {q}) = IF q \in Due(j) THEN Cardinality(Due(j)) ELSE Cardinality(Due(j)) + 1
        BY <2>2, FS_AddElement
      <4> QED
        BY <2>2, <4>1, <4>2, FS_CardinalityType
    <3>3. igAsked'[j] = igAsked[j] + 1
      BY <1>1, <1>6, <2>4 DEF IgInv, IgTyped
    <3>4. Cardinality(Due(j)') <= Cardinality(Due(j)) + 1 /\ Cardinality(Due(j)') \in Nat
      BY <3>1, <3>2
    <3> QED
      BY <1>2, <2>1, <2>2, <2>3, <3>3, <3>4 DEF ReplyDue
  <2>5. CASE j # i
    <3>1. Due(j)' = Due(j)
      BY <1>5, <1>6, <2>5 DEF Due
    <3>2. igAsked'[j] = igAsked[j]
      BY <1>1, <1>6, <2>5 DEF IgInv, IgTyped, Insta!Items
    <3> QED
      BY <1>2, <2>1, <2>3, <3>1, <3>2 DEF ReplyDue
  <2> QED
    BY <2>4, <2>5
<1>15. ASSUME stops' = 0, NEW l \in DOMAIN igLeads' \ crossed' PROVE OnePlace(l)'
  <2>1. OnePlace(l) /\ l \in DOMAIN igLeads
    BY <1>2, <1>15 DEF IgInv
  <2>2. /\ RepliedTo(l)' <=> RepliedTo(l)
        /\ Remembered(l)' <=> Remembered(l)
    BY <1>2 DEF Remembered, RepliedTo
  <2>3. \A g \in IgHandlers : Asking(g, l)' => Asking(g, l) /\ g # h
    BY <1>8, <1>10 DEF Asking
  <2>4. CASE l = n
    <3>1. Asking(h, n)
      BY <1>1, <1>3 DEF Asking
    <3>2. ~Answered(n) /\ ~RepliedTo(n) /\ Remembered(n) /\ \A g \in IgHandlers : Asking(g, n) => g = h
      BY <2>1, <2>4, <3>1 DEF OnePlace
    <3>3. \A g \in IgHandlers : ~Asking(g, n)'
      BY <2>3, <2>4, <3>2
    <3>4. \A r \in igResults' : r.lead = n => r = q
      BY <1>6, <3>2 DEF Answered
    <3> QED
      BY <2>2, <2>4, <3>2, <3>3, <3>4 DEF OnePlace
  <2>5. CASE l # n
    <3>1. \A r \in igResults' : r.lead = l => r \in igResults
      BY <1>5, <1>6, <2>5
    <3>2. Answered(l)' => Answered(l)
      BY <3>1 DEF Answered
    <3> QED
      BY <2>1, <2>2, <2>3, <3>1, <3>2 DEF OnePlace
  <2> QED
    BY <2>4, <2>5
<1>16. Insta!DroppedHaveCrossed'
  BY <1>2 DEF IgInv, Insta!DroppedHaveCrossed
<1> QED
  BY <1>2, <1>11, <1>13, <1>14, <1>15, <1>16 DEF IgInv

\* A reply under way goes on or ends; the context it used may go with it.
LEMMA ReplyMoves ==
  ASSUME IgInv, replying.at # "idle", replying' \in Replier,
         \/ replying' = Insta!NotReplying
         \/ /\ replying'.at # "idle" /\ replying'.item = replying.item /\ replying'.lead = replying.lead
            /\ replying'.to = replying.to,
         UNCHANGED <<links, igLeads, hooks, crossed, catching, igResults, igAsked, unanswered, stops>>,
         contexts' \subseteq contexts,
         \A x \in contexts \ contexts' : x.lead = replying.lead /\ replying'.at = "idle",
         igReplies' \in [Insta!Items -> Nat],
         \A i \in Comments : igReplies'[i] + UnderWay(i)' <= igReplies[i] + UnderWay(i)
  PROVE  IgInv'
<1>1. IgTyped'
  <2>1. IF replying'.at = "idle" THEN replying' = Insta!NotReplying
        ELSE replying'.lead \in DOMAIN igLeads' /\ replying'.item \in Insta!Items /\ replying'.to \in Insta!Items
    <3>1. Insta!NotReplying.at = "idle"
      BY DEF Insta!NotReplying
    <3>2. replying.lead \in DOMAIN igLeads /\ replying.item \in Insta!Items /\ replying.to \in Insta!Items
      BY DEF IgInv, IgTyped
    <3> QED
      BY <3>1, <3>2
  <2> QED
    BY <2>1 DEF IgInv, IgTyped
<1>2. \A l : RepliedTo(l)' => RepliedTo(l) /\ replying'.at # "idle"
  BY DEF RepliedTo, Insta!NotReplying
<1>3. \A l, i : Holds(l, i)' => Holds(l, i)
  BY DEF Holds, Insta!NotReplying
<1>4. \A l \in DOMAIN igLeads, i \in Insta!Items : LeadFits(l, i)'
  BY <1>3, LeadsFit
<1>5. ASSUME NEW i \in Comments PROVE ReplyDue(i)'
  <2>1. /\ Cardinality(Due(i)) \in Nat /\ igReplies[i] \in Nat /\ igAsked[i] \in Nat /\ stops \in Nat
        /\ UnderWay(i) \in 0..1
    BY DuesAreNumbers DEF IgInv
  <2>2. ReplyDue(i)
    BY DEF IgInv
  <2>3. Due(i)' = Due(i)
    BY DEF Due
  <2>4. UnderWay(i)' \in Nat /\ igReplies'[i] \in Nat
    BY DEF UnderWay, Insta!Items
  <2> QED
    BY <2>1, <2>2, <2>3, <2>4 DEF ReplyDue
<1>6. ASSUME stops' = 0, NEW l \in DOMAIN igLeads' \ crossed' PROVE OnePlace(l)'
  <2>1. OnePlace(l)
    BY <1>6 DEF IgInv
  <2>2. Answered(l)' <=> Answered(l)
    BY DEF Answered
  <2>3. \A g \in IgHandlers : Asking(g, l)' <=> Asking(g, l)
    BY DEF Asking
  <2>4. CASE Remembered(l) => Remembered(l)'
    BY <1>2, <2>1, <2>2, <2>3, <2>4 DEF OnePlace
  <2>5. CASE Remembered(l) /\ ~Remembered(l)'
    <3>1. RepliedTo(l) /\ replying'.at = "idle"
      BY <2>5 DEF Remembered, RepliedTo
    <3>2. ~RepliedTo(l)'
      BY <1>2, <3>1
    <3> QED
      BY <2>1, <2>2, <2>3, <3>1, <3>2 DEF OnePlace
  <2> QED
    BY <2>4, <2>5
<1>7. Insta!DroppedHaveCrossed'
  BY DEF IgInv, Insta!DroppedHaveCrossed
<1> QED
  BY <1>1, <1>4, <1>5, <1>6, <1>7 DEF IgInv

LEMMA IgReplies ==
  ASSUME IgInv, Insta!CallIg \/ Insta!ReplySent \/ Insta!ReplyFailed \/ Insta!LogAndForget
  PROVE  IgInv'
<1>1. /\ replying.at # "idle" /\ contexts' \subseteq contexts
      /\ UNCHANGED <<links, igLeads, hooks, crossed, catching, igResults, igAsked, unanswered, stops>>
  BY DEF Insta!CallIg, Insta!ReplySent, Insta!ReplyFailed, Insta!LogAndForget, Insta!memory, Insta!outside
<1>2. replying \in Replier /\ replying.to \in Insta!Items
  BY <1>1 DEF IgInv, IgTyped
<1>3. PICK none \in Replier : none = Insta!NotReplying
  BY DEF Insta!NotReplying, Replier
<1>4. none.at = "idle"
  BY <1>3 DEF Insta!NotReplying
<1>5. \A i \in Comments : /\ igReplies[i] \in Nat /\ UnderWay(i) \in 0..1
                          /\ i \in Insta!Items
  BY DuesAreNumbers DEF IgInv, Insta!Items
<1>6. \A i : replying' = none => UnderWay(i)' = 0
  BY <1>4 DEF UnderWay
<1>7. CASE Insta!CallIg
  <2>1. UNCHANGED <<contexts, igReplies>> /\ replying.at = "call"
    BY <1>7 DEF Insta!CallIg, Insta!memory
  <2>2. CASE replying' = none
    <3>1. \A i \in Comments : igReplies'[i] + UnderWay(i)' <= igReplies[i] + UnderWay(i)
      BY <1>5, <1>6, <2>1, <2>2
    <3>2. \A x \in contexts \ contexts' : x.lead = replying.lead /\ replying'.at = "idle"
      BY <2>1
    <3>3. igReplies' \in [Insta!Items -> Nat]
      BY <2>1 DEF IgInv, IgTyped
    <3> QED
      BY <1>1, <1>3, <2>2, <3>1, <3>2, <3>3, ReplyMoves
  <2>3. CASE replying' = [replying EXCEPT !.at = "calling"]
    <3>1. PICK m \in Replier : m = [replying EXCEPT !.at = "calling"]
      BY <1>2 DEF Replier
    <3>2. m.at = "calling" /\ m.item = replying.item /\ m.lead = replying.lead /\ m.to = replying.to
      BY <1>2, <3>1 DEF Replier
    <3>3. \A i : UnderWay(i)' = UnderWay(i)
      BY <2>1, <2>3, <3>1, <3>2 DEF UnderWay
    <3>4. \A i \in Comments : igReplies'[i] + UnderWay(i)' <= igReplies[i] + UnderWay(i)
      BY <1>5, <2>1, <3>3
    <3> QED
      BY <1>1, <2>1, <2>3, <3>1, <3>2, <3>4, ReplyMoves DEF IgInv, IgTyped
  <2> QED
    BY <1>3, <1>7, <2>2, <2>3 DEF Insta!CallIg
<1>8. CASE Insta!ReplySent
  <2>1. UNCHANGED contexts /\ replying.at = "calling"
    BY <1>8 DEF Insta!ReplySent, Insta!memory
  <2>2. PICK m \in Replier : m = [replying EXCEPT !.at = "log"]
    BY <1>2 DEF Replier
  <2>3. m.at = "log" /\ m.item = replying.item /\ m.lead = replying.lead /\ m.to = replying.to
    BY <1>2, <2>2 DEF Replier
  <2>4. replying' = m /\ igReplies' = [igReplies EXCEPT ![replying.to] = igReplies[replying.to] + 1]
    BY <1>8, <2>2 DEF Insta!ReplySent
  <2>5. igReplies' \in [Insta!Items -> Nat]
    BY <1>2, <2>4 DEF IgInv, IgTyped
  <2>6. ASSUME NEW i \in Comments PROVE igReplies'[i] + UnderWay(i)' <= igReplies[i] + UnderWay(i)
    <3>1. UnderWay(i)' = 0 /\ UnderWay(i) = IF replying.to = i THEN 1 ELSE 0
      BY <2>1, <2>3, <2>4 DEF UnderWay
    <3>2. igReplies'[i] = IF replying.to = i THEN igReplies[i] + 1 ELSE igReplies[i]
      BY <1>5, <2>4 DEF IgInv, IgTyped
    <3> QED
      BY <1>5, <3>1, <3>2
  <2> QED
    BY <1>1, <2>1, <2>2, <2>3, <2>4, <2>5, <2>6, ReplyMoves
<1>9. CASE Insta!ReplyFailed
  <2>1. UNCHANGED contexts /\ replying.at = "calling" /\ replying' = none
    BY <1>3, <1>9 DEF Insta!ReplyFailed, Insta!memory
  <2>2. PICK sent \in 0..1 : igReplies' = [igReplies EXCEPT ![replying.to] = igReplies[replying.to] + sent]
    BY <1>9 DEF Insta!ReplyFailed
  <2>3. igReplies' \in [Insta!Items -> Nat]
    BY <1>2, <2>2 DEF IgInv, IgTyped
  <2>4. ASSUME NEW i \in Comments PROVE igReplies'[i] + UnderWay(i)' <= igReplies[i] + UnderWay(i)
    <3>1. UnderWay(i)' = 0 /\ UnderWay(i) = IF replying.to = i THEN 1 ELSE 0
      BY <1>6, <2>1 DEF UnderWay
    <3>2. igReplies'[i] = IF replying.to = i THEN igReplies[i] + sent ELSE igReplies[i]
      BY <1>5, <2>2 DEF IgInv, IgTyped
    <3> QED
      BY <1>5, <2>2, <3>1, <3>2
  <2>5. \A x \in contexts \ contexts' : x.lead = replying.lead /\ replying'.at = "idle"
    BY <2>1
  <2> QED
    BY <1>1, <1>3, <2>1, <2>3, <2>4, <2>5, ReplyMoves
<1>10. CASE Insta!LogAndForget
  <2>1. UNCHANGED igReplies /\ replying' = none
    BY <1>3, <1>10 DEF Insta!LogAndForget
  <2>2. \A x \in contexts \ contexts' : x.lead = replying.lead /\ replying'.at = "idle"
    BY <1>4, <1>10, <2>1 DEF Insta!LogAndForget
  <2>3. \A i \in Comments : igReplies'[i] + UnderWay(i)' <= igReplies[i] + UnderWay(i)
    BY <1>5, <1>6, <2>1
  <2>4. igReplies' \in [Insta!Items -> Nat]
    BY <2>1 DEF IgInv, IgTyped
  <2> QED
    BY <1>1, <1>3, <2>1, <2>2, <2>3, <2>4, ReplyMoves
<1> QED
  BY <1>7, <1>8, <1>9, <1>10


\* The one result of a lead is replied to, or passed over because the messages
\* of the lead crossed.
LEMMA IgTakes ==
  ASSUME IgInv, NEW q \in igResults, Insta!TakeIgResult(q)
  PROVE  IgInv'
<1>1. /\ UNCHANGED <<links, igLeads, contexts, hooks, crossed, catching, igReplies, igAsked, stops>>
      /\ replying = Insta!NotReplying /\ igResults' = igResults \ {q}
  BY DEF Insta!TakeIgResult, Insta!memory, Insta!outside
<1>2. replying.at = "idle"
  BY <1>1 DEF Insta!NotReplying
<1>3. PICK n \in DOMAIN igLeads, i \in Insta!Items : n = q.lead /\ i = q.item
  BY DEF IgInv, IgTyped
<1>4. Holds(n, i) /\ Answered(n)
  BY <1>3 DEF Holds, Answered
<1>5. igResults' \subseteq [item : Insta!Items, lead : DOMAIN igLeads] /\ IsFiniteSet(igResults')
  BY <1>1, FS_RemoveElement DEF IgInv, IgTyped
<1>6. \A j : /\ IsFiniteSet(Due(j)) /\ Cardinality(Due(j)) \in Nat
             /\ UnderWay(j) = 0
  BY <1>2, DuesAreNumbers DEF IgInv, UnderWay
<1>7. \A j \in Comments : igReplies[j] \in Nat /\ igAsked[j] \in Nat
  BY DuesAreNumbers DEF IgInv
<1>8. stops \in Nat
  BY DEF IgInv, IgTyped
<1>9. \A j : /\ IsFiniteSet(Due(j)') /\ Cardinality(Due(j)') \in Nat /\ Cardinality(Due(j)') <= Cardinality(Due(j))
             /\ j = i => Cardinality(Due(j)') = Cardinality(Due(j)) - 1
  <2> TAKE j
  <2>1. CASE j = i
    <3>1. Due(j)' = Due(j) \ {q} /\ q \in Due(j)
      BY <1>1, <1>3, <2>1 DEF Due
    <3>2. IsFiniteSet(Due(j) \ {q}) /\ Cardinality(Due(j) \ {q}) = Cardinality(Due(j)) - 1
      BY <1>6, <3>1, FS_RemoveElement
    <3>3. Cardinality(Due(j) \ {q}) \in Nat
      BY <3>2, FS_CardinalityType
    <3>4. Cardinality(Due(j)') = Cardinality(Due(j) \ {q}) /\ IsFiniteSet(Due(j)')
      BY <3>1, <3>2
    <3> QED
      BY <1>6, <3>2, <3>3, <3>4
  <2>2. CASE j # i
    <3>1. Due(j)' = Due(j)
      BY <1>1, <1>3, <2>2 DEF Due
    <3>2. Cardinality(Due(j)') = Cardinality(Due(j)) /\ IsFiniteSet(Due(j)')
      BY <1>6, <3>1
    <3> QED
      BY <1>6, <2>2, <3>2
  <2> QED
    BY <2>1, <2>2
<1>10. \A l : /\ Answered(l)' => Answered(l)
              /\ Remembered(l)' <=> Remembered(l)
  BY <1>1 DEF Answered, Remembered
<1>11. \A l : \A g \in IgHandlers : Asking(g, l)' <=> Asking(g, l)
  BY <1>1 DEF Asking
<1>12. CASE replying' # replying
  <2>1. PICK x \in contexts :
          /\ x.lead = n
          /\ replying' = [at |-> "call", item |-> i, lead |-> n, to |-> x.item]
          /\ unanswered' = unanswered
    BY <1>3, <1>12 DEF Insta!TakeIgResult
  <2>2. x.item \in Insta!Items /\ Holds(n, x.item)
    BY <2>1 DEF IgInv, IgTyped, Holds
  <2>3. replying'.at = "call" /\ replying'.item = i /\ replying'.lead = n /\ replying'.to = x.item
    BY <2>1
  <2>4. replying' \in Replier
    <3>1. n \in Nat
      BY <1>3 DEF IgInv, IgTyped
    <3> QED
      BY <2>1, <2>2, <3>1 DEF Replier
  <2>5. IgTyped'
    BY <1>1, <1>3, <1>5, <2>2, <2>3, <2>4 DEF IgInv, IgTyped
  <2>6. \A l, j : Holds(l, j)' => Holds(l, j)
    BY <1>1, <1>4, <2>2, <2>3 DEF Holds
  <2>7. \A l \in DOMAIN igLeads, j \in Insta!Items : LeadFits(l, j)'
    BY <1>1, <2>6, LeadsFit
  <2>8. ASSUME NEW j \in Comments PROVE ReplyDue(j)'
    <3>1. ReplyDue(j)
      BY DEF IgInv
    <3>2. CASE x.item = j
      <4>1. j = i
        BY <1>3, <2>2, <3>2, <1>4 DEF IgInv, LeadFits
      <4>2. UnderWay(j)' = 1
        BY <2>3, <3>2 DEF UnderWay
      <4> QED
        BY <1>1, <1>6, <1>7, <1>8, <1>9, <3>1, <4>1, <4>2 DEF ReplyDue
    <3>3. CASE x.item # j
      <4>1. UnderWay(j)' = 0
        BY <2>3, <3>3 DEF UnderWay
      <4> QED
        BY <1>1, <1>6, <1>7, <1>8, <1>9, <3>1, <4>1 DEF ReplyDue
    <3> QED
      BY <3>2, <3>3
  <2>9. ASSUME stops' = 0, NEW l \in DOMAIN igLeads' \ crossed' PROVE OnePlace(l)'
    <3>1. OnePlace(l)
      BY <1>1, <2>9 DEF IgInv
    <3>2. CASE l = n
      <4>1. \A g \in IgHandlers : ~Asking(g, n)
        BY <1>4, <3>1, <3>2 DEF OnePlace
      <4>2. ~Answered(n)'
        BY <1>1, <1>3, <3>1, <3>2 DEF OnePlace, Answered
      <4>3. Remembered(n)'
        BY <1>10, <2>1 DEF Remembered
      <4>4. \A r, s \in igResults' : r.lead = n /\ s.lead = n => r = s
        BY <4>2 DEF Answered
      <4> QED
        BY <1>11, <3>2, <4>1, <4>2, <4>3, <4>4 DEF OnePlace
    <3>3. CASE l # n
      <4>1. ~RepliedTo(l)'
        BY <2>3, <3>3 DEF RepliedTo
      <4>2. \A r, s \in igResults' : r.lead = l /\ s.lead = l => r = s
        BY <1>1, <3>1 DEF OnePlace
      <4> QED
        BY <1>10, <1>11, <3>1, <4>1, <4>2 DEF OnePlace
    <3> QED
      BY <3>2, <3>3
  <2>10. Insta!DroppedHaveCrossed'
    BY <1>1, <2>1 DEF IgInv, Insta!DroppedHaveCrossed
  <2> QED
    BY <1>1, <2>5, <2>7, <2>8, <2>9, <2>10 DEF IgInv
<1>13. CASE replying' = replying
  <2>1. ~Remembered(n) /\ unanswered' = unanswered \cup {i}
    <3>1. ~\E x \in contexts : x.lead = q.lead /\ q.lead \in hooks
      BY <1>2, <1>13 DEF Insta!TakeIgResult
    <3>2. \A x \in contexts : x.lead \in hooks
      BY DEF IgInv, IgTyped
    <3>3. \A x \in contexts : x.lead # n
      BY <1>3, <3>1, <3>2
    <3> QED
      BY <1>2, <1>3, <1>13, <3>3 DEF Insta!TakeIgResult, Remembered
  <2>2. IgTyped'
    BY <1>1, <1>5, <1>13 DEF IgInv, IgTyped
  <2>3. \A l, j : Holds(l, j)' => Holds(l, j)
    BY <1>1, <1>13 DEF Holds
  <2>4. \A l \in DOMAIN igLeads, j \in Insta!Items : LeadFits(l, j)'
    BY <1>1, <2>3, LeadsFit
  <2>5. ASSUME NEW j \in Comments PROVE ReplyDue(j)'
    <3>1. ReplyDue(j) /\ UnderWay(j)' = UnderWay(j)
      BY <1>13 DEF IgInv, UnderWay
    <3> QED
      BY <1>1, <1>6, <1>7, <1>8, <1>9, <3>1 DEF ReplyDue
  <2>6. stops = 0 => \A l \in DOMAIN igLeads \ crossed : OnePlace(l)'
    <3>1. \A l : RepliedTo(l)' => RepliedTo(l)
      BY <1>13 DEF RepliedTo
    <3> QED
      BY <1>1, <1>10, <1>11, <3>1, PlacesStay
  <2>7. ASSUME stops = 0, NEW j \in unanswered' PROVE \E l \in crossed : igLeads[l].author = IgAuthor[j]
    <3>1. CASE j \in unanswered
      BY <2>7, <3>1 DEF IgInv, Insta!DroppedHaveCrossed
    <3>2. CASE j = i
      <4>1. n \in crossed
        BY <1>4, <2>1, <2>7 DEF IgInv, OnePlace
      <4>2. igLeads[n] = [author |-> IgAuthor[i], direct |-> i \in Directs]
        BY <1>3, <1>4 DEF IgInv, LeadFits
      <4> QED
        BY <3>2, <4>1, <4>2
    <3> QED
      BY <2>1, <2>7, <3>1, <3>2
  <2>8. Insta!DroppedHaveCrossed'
    BY <1>1, <2>7 DEF Insta!DroppedHaveCrossed
  <2> QED
    BY <1>1, <2>2, <2>4, <2>5, <2>6, <2>8 DEF IgInv
<1> QED
  BY <1>12, <1>13

\* After a stop of the process the result that was handled comes again.
LEMMA IgStops ==
  ASSUME IgInv, Insta!Stop
  PROVE  IgInv'
<1>1. /\ UNCHANGED <<links, igLeads, igReplies, igAsked, crossed, unanswered>>
      /\ stops' = stops + 1 /\ contexts' = {} /\ hooks' = {} /\ replying' = Insta!NotReplying
      /\ catching' = [h \in IgHandlers |-> Insta!NotCatching]
      /\ igResults' = igResults \cup {[item |-> r.item, lead |-> r.lead] : r \in {replying} \ {Insta!NotReplying}}
  BY DEF Insta!Stop
<1>2. stops \in Nat /\ stops' # 0 /\ stops' \in Nat
  BY <1>1 DEF IgInv, IgTyped
<1>3. Insta!NotCatching \in Catcher /\ Insta!NotCatching.at = "idle"
  BY DEF Insta!NotCatching, Catcher
<1>4. Insta!NotReplying \in Replier /\ Insta!NotReplying.at = "idle"
  BY DEF Insta!NotReplying, Replier
<1>5. PICK q : q = [item |-> replying.item, lead |-> replying.lead]
  OBVIOUS
<1>6. q.item = replying.item /\ q.lead = replying.lead
  BY <1>5
<1>7. \/ replying.at = "idle" /\ igResults' = igResults
      \/ replying.at # "idle" /\ igResults' = igResults \cup {q}
  <2>1. replying.at = "idle" => replying = Insta!NotReplying
    BY DEF IgInv, IgTyped
  <2>2. CASE replying = Insta!NotReplying
    BY <1>1, <1>4, <2>2
  <2>3. CASE replying # Insta!NotReplying
    BY <1>1, <1>5, <2>1, <2>3
  <2> QED
    BY <2>2, <2>3
<1>8. replying.at # "idle" => q \in [item : Insta!Items, lead : DOMAIN igLeads] /\ Holds(q.lead, q.item)
  BY <1>5, <1>6 DEF IgInv, IgTyped, Holds
<1>9. igResults' \subseteq [item : Insta!Items, lead : DOMAIN igLeads] /\ IsFiniteSet(igResults')
  <2>1. igResults \subseteq [item : Insta!Items, lead : DOMAIN igLeads] /\ IsFiniteSet(igResults)
    BY DEF IgInv, IgTyped
  <2>2. IsFiniteSet(igResults \cup {q})
    BY <2>1, FS_AddElement
  <2> QED
    BY <1>7, <1>8, <2>1, <2>2
<1>10. IgTyped'
  <2>1. \A h \in IgHandlers : catching'[h].at = "idle"
    BY <1>1, <1>3
  <2>2. catching' \in [IgHandlers -> Catcher]
    BY <1>1, <1>3
  <2> QED
    BY <1>1, <1>2, <1>4, <1>9, <2>1, <2>2 DEF IgInv, IgTyped
<1>11. \A l, j : Holds(l, j)' => Holds(l, j)
  <2>1. \A h \in IgHandlers : catching'[h].at = "idle"
    BY <1>1, <1>3
  <2>2. \A r \in igResults' : r \in igResults \/ (r.lead = q.lead /\ r.item = q.item /\ Holds(q.lead, q.item))
    BY <1>7, <1>8
  <2> QED
    BY <1>1, <1>4, <2>1, <2>2 DEF Holds
<1>12. \A l \in DOMAIN igLeads, j \in Insta!Items : LeadFits(l, j)'
  BY <1>1, <1>11, LeadsFit
<1>13. ASSUME NEW j \in Comments PROVE ReplyDue(j)'
  <2>1. /\ Cardinality(Due(j)) \in Nat /\ igReplies[j] \in Nat /\ igAsked[j] \in Nat
        /\ UnderWay(j) \in 0..1 /\ IsFiniteSet(Due(j))
    BY DuesAreNumbers DEF IgInv
  <2>2. ReplyDue(j) /\ UnderWay(j)' = 0
    BY <1>1, <1>4 DEF IgInv, UnderWay
  <2>3. Due(j)' = Due(j) \/ Due(j)' = Due(j) \cup {q}
    BY <1>7 DEF Due
  <2>4. IsFiniteSet(Due(j) \cup {q})
    BY <2>1, FS_AddElement
  <2>5. Cardinality(Due(j) \cup {q}) = IF q \in Due(j) THEN Cardinality(Due(j)) ELSE Cardinality(Due(j)) + 1
    BY <2>1, FS_AddElement
  <2>6. Cardinality(Due(j)') \in Nat /\ Cardinality(Due(j)') <= Cardinality(Due(j)) + 1
    <3>1. CASE Due(j)' = Due(j)
      BY <2>1, <3>1
    <3>2. CASE Due(j)' = Due(j) \cup {q}
      BY <2>1, <2>4, <2>5, <3>2, FS_CardinalityType
    <3> QED
      BY <2>3, <3>1, <3>2
  <2> QED
    BY <1>1, <1>2, <2>1, <2>2, <2>6 DEF ReplyDue
<1>14. Insta!DroppedHaveCrossed'
  BY <1>2 DEF Insta!DroppedHaveCrossed
<1> QED
  BY <1>1, <1>2, <1>10, <1>12, <1>13, <1>14 DEF IgInv

\* Accounts, the staff and the circuit change nothing about replies.
LEMMA IgRests ==
  ASSUME IgInv, links' \in Seq(BOOLEAN),
         UNCHANGED <<igLeads, contexts, hooks, crossed, catching, igResults, replying, igReplies, igAsked, unanswered, stops>>
  PROVE  IgInv'
<1>1. IgTyped'
  BY DEF IgInv, IgTyped
<1>2. \A l, j : Holds(l, j)' => Holds(l, j)
  BY DEF Holds
<1>3. \A l \in DOMAIN igLeads, j \in Insta!Items : LeadFits(l, j)'
  BY <1>2, LeadsFit
<1>4. \A j \in Comments : ReplyDue(j)'
  <2>1. \A j : UnderWay(j)' = UnderWay(j) /\ UnderWay(j) \in Nat
    BY DEF UnderWay
  <2>2. \A j \in Comments : UnderWay(j)' <= UnderWay(j)
    BY <2>1
  <2> QED
    BY <2>2, DuesStay
<1>5. stops = 0 => \A l \in DOMAIN igLeads \ crossed : OnePlace(l)'
  <2>1. \A l : /\ RepliedTo(l)' => RepliedTo(l)
               /\ Remembered(l) => Remembered(l)'
               /\ \A g \in IgHandlers : Asking(g, l)' => Asking(g, l)
    BY DEF RepliedTo, Remembered, Asking
  <2> QED
    BY <2>1, PlacesStay
<1>6. Insta!DroppedHaveCrossed'
  BY DEF IgInv, Insta!DroppedHaveCrossed
<1> QED
  BY <1>1, <1>3, <1>4, <1>5, <1>6 DEF IgInv

LEMMA IgKept ==
  ASSUME IgInv, Insta!Next \/ UNCHANGED igVars
  PROVE  IgInv'
<1>1. CASE \E h \in IgHandlers : Insta!CatchStep(h) \/ \E i \in Insta!Items : Insta!Catch(h, i)
  BY <1>1, IgCatches, IgCreates, IgRemembers, IgAsks DEF Insta!CatchStep
<1>2. CASE Insta!ReplyStep
  BY <1>2, IgTakes, IgReplies DEF Insta!ReplyStep
<1>3. links \in Seq(BOOLEAN)
  BY DEF IgInv, IgTyped
<1>4. CASE Insta!Link
  <2>1. links' \in Seq(BOOLEAN)
    BY <1>3, <1>4 DEF Insta!Link
  <2> QED
    BY <1>4, <2>1, IgRests DEF Insta!Link, Insta!memory
<1>5. CASE \E k \in DOMAIN links : Insta!Unlink(k)
  <2>1. PICK k \in DOMAIN links : Insta!Unlink(k)
    BY <1>5
  <2>2. links' \in Seq(BOOLEAN)
    BY <1>3, <2>1 DEF Insta!Unlink
  <2> QED
    BY <2>1, <2>2, IgRests DEF Insta!Unlink, Insta!memory
<1>6. CASE Insta!StaffCall \/ Insta!StaffCallEnds \/ Insta!IgWaitOver \/ UNCHANGED igVars
  <2>1. UNCHANGED <<links, igLeads, contexts, hooks, crossed, catching, igResults, replying, igReplies, igAsked, unanswered, stops>>
    BY <1>6 DEF Insta!StaffCall, Insta!StaffCallEnds, Insta!IgWaitOver, igVars, Insta!memory
  <2> QED
    BY <1>3, <2>1, IgRests
<1>7. CASE Insta!Stop
  BY <1>7, IgStops
<1> QED
  BY <1>1, <1>2, <1>4, <1>5, <1>6, <1>7 DEF Insta!Next

\* As many replies as askings, but for the stops.
LEMMA IgAccounted == IgInv => Insta!CommentsAnsweredOnce /\ Insta!DroppedHaveCrossed
<1> SUFFICES ASSUME IgInv PROVE Insta!CommentsAnsweredOnce
  BY DEF IgInv
<1>1. ASSUME NEW i \in Comments PROVE igReplies[i] <= igAsked[i] + stops
  <2>1. /\ Cardinality(Due(i)) \in Nat /\ UnderWay(i) \in 0..1 /\ igReplies[i] \in Nat /\ igAsked[i] \in Nat
        /\ stops \in Nat
    BY DuesAreNumbers DEF IgInv
  <2>2. igReplies[i] + Cardinality(Due(i)) + UnderWay(i) <= igAsked[i] + stops
    BY DEF IgInv, ReplyDue
  <2> QED
    BY <2>1, <2>2
<1> QED
  BY <1>1 DEF Insta!CommentsAnsweredOnce

-----------------------------------------------------------------------------
(* NotificationTemplates: rows and updates are what they are meant to be.  *)

\* A row stays one under the patch of an update.
LEMMA RewrittenTyped ==
  ASSUME NEW row \in Tmpl!Row, NEW p \in Patches \cup {<<>>}, NEW valid \in BOOLEAN
  PROVE  Tmpl!Rewritten(p, row, valid) \in Tmpl!Row
<1>1. PICK c \in BOOLEAN : c = (valid \/ (row.checked /\ DOMAIN p \cap Tmpl!Content = {}))
  OBVIOUS
<1>2. PICK all : all = Tmpl!Patched(p, row)
  OBVIOUS
<1>3. PICK new : new = [all EXCEPT !.checked = c]
  OBVIOUS
<1>4. new = Tmpl!Rewritten(p, row, valid)
  BY <1>1, <1>2, <1>3 DEF Tmpl!Rewritten
<1>5. /\ DOMAIN p \subseteq {"key", "active", "enabled", "text", "defined"}
      /\ "key" \in DOMAIN p => p["key"] \in Keys
      /\ "active" \in DOMAIN p => p["active"] \in BOOLEAN
      /\ "enabled" \in DOMAIN p => p["enabled"] \in SUBSET Channels
      /\ "text" \in DOMAIN p => p["text"] \in [Channels -> (SUBSET Variables) \cup {Absent}]
      /\ "defined" \in DOMAIN p => p["defined"] \in SUBSET Variables
  BY MessageAssumption
<1>6. /\ DOMAIN row = Fields /\ row.key \in Keys /\ row.system \in BOOLEAN /\ row.active \in BOOLEAN
      /\ row.enabled \in SUBSET Channels /\ row.text \in [Channels -> (SUBSET Variables) \cup {Absent}]
      /\ row.defined \in SUBSET Variables
  BY DEF Tmpl!Row, Fields
<1>7. all = [f \in Fields |-> IF f \in DOMAIN p THEN p[f] ELSE row[f]]
  <2>1. DOMAIN p \cup DOMAIN row = Fields
    BY <1>5, <1>6 DEF Fields
  <2> QED BY <1>2, <2>1 DEF Tmpl!Patched
<1>8. /\ all["key"] \in Keys /\ all["system"] \in BOOLEAN /\ all["active"] \in BOOLEAN
      /\ all["enabled"] \in SUBSET Channels /\ all["text"] \in [Channels -> (SUBSET Variables) \cup {Absent}]
      /\ all["defined"] \in SUBSET Variables
  <2>1. all["key"] \in Keys /\ all["enabled"] \in SUBSET Channels /\ all["defined"] \in SUBSET Variables
    BY <1>5, <1>6, <1>7 DEF Fields
  <2>2. all["system"] = row["system"] /\ all["active"] \in {p["active"], row["active"]}
    BY <1>5, <1>7 DEF Fields
  <2>3. all["active"] = IF "active" \in DOMAIN p THEN p["active"] ELSE row["active"]
    BY <1>7 DEF Fields
  <2>4. all["text"] = IF "text" \in DOMAIN p THEN p["text"] ELSE row["text"]
    BY <1>7 DEF Fields
  <2>5. all["text"] \in [Channels -> (SUBSET Variables) \cup {Absent}]
    BY <1>5, <1>6, <2>4
  <2>6. all["system"] \in BOOLEAN /\ all["active"] \in BOOLEAN
    BY <1>5, <1>6, <2>2, <2>3
  <2> QED BY <2>1, <2>5, <2>6
<1>9. new = [f \in Fields |-> IF f = "checked" THEN c ELSE all[f]]
  BY <1>3, <1>7
<1>10. new \in Tmpl!Row
  <2> HIDE <1>7
  <2>1. PICK k \in Keys, s \in BOOLEAN, a \in BOOLEAN, on \in SUBSET Channels, t \in [Channels -> (SUBSET Variables) \cup {Absent}], d \in SUBSET Variables :
          /\ k = all["key"] /\ s = all["system"] /\ a = all["active"] /\ on = all["enabled"] /\ t = all["text"]
          /\ d = all["defined"]
    BY <1>8
  <2>2. new = [key |-> k, system |-> s, active |-> a, enabled |-> on, text |-> t, defined |-> d, checked |-> c]
    BY <1>9, <2>1 DEF Fields
  <2> QED BY <2>1, <2>2 DEF Tmpl!Row
<1> QED BY <1>4, <1>10

LEMMA TmplTypedStarts == Tmpl!Init => TmplTyped
BY DEF Tmpl!Init, TmplTyped

\* An update that is made stale is still one of its template.
LEMMA EditsTyped ==
  ASSUME TmplInv, TmplTyped, NEW S \in SUBSET Templates, NEW e \in Editors, NEW f,
         f = [edits[e] EXCEPT !.stale = edits[e].stale \/ edits[e].template \in S]
  PROVE  f = Tmpl!NoEdit \/ f.template \in Templates
<1>1. edits[e] \in Edit
  BY DEF TmplInv, Edit
<1>2. f.template = edits[e].template
  BY <1>1 DEF Edit
<1>3. CASE edits[e] = Tmpl!NoEdit
  <2>1. PICK none : none = Tmpl!NoEdit
    OBVIOUS
  <2>2. none = [template |-> Absent, patch |-> <<>>, stale |-> FALSE]
    BY <2>1 DEF Tmpl!NoEdit
  <2>3. none.stale = FALSE /\ none.template = Absent /\ none.patch = <<>>
    BY <2>2
  <2>4. (none.stale \/ none.template \in S) = FALSE
    BY <2>3, MessageAssumption
  <2>5. f = [none EXCEPT !.stale = FALSE]
    BY <1>3, <2>1, <2>4
  <2>6. f = none
    BY <2>2, <2>5
  <2> QED BY <2>1, <2>6
<1>4. CASE edits[e].template \in Templates
  BY <1>2, <1>4
<1> QED BY <1>3, <1>4 DEF TmplTyped

\* What is written to t leaves the updates of the editors typed.
LEMMA WrittenTyped ==
  ASSUME TmplInv, TmplTyped, NEW t \in Templates
  PROVE  \A e \in Editors : Tmpl!Written(t)[e] = Tmpl!NoEdit \/ Tmpl!Written(t)[e].template \in Templates
<1> SUFFICES ASSUME NEW e \in Editors
             PROVE  Tmpl!Written(t)[e] = Tmpl!NoEdit \/ Tmpl!Written(t)[e].template \in Templates
  OBVIOUS
<1>1. PICK f : f = Tmpl!Written(t)[e]
  OBVIOUS
<1>2. f = [edits[e] EXCEPT !.stale = edits[e].stale \/ edits[e].template = t]
  BY <1>1 DEF Tmpl!Written
<1>3. (edits[e].template = t) <=> (edits[e].template \in {t})
  OBVIOUS
<1>4. f = [edits[e] EXCEPT !.stale = edits[e].stale \/ edits[e].template \in {t}]
  BY <1>2, <1>3
<1>5. {t} \in SUBSET Templates
  OBVIOUS
<1> QED BY <1>1, <1>4, <1>5, EditsTyped

\* A write of rows, of which those in use stay.
LEMMA RowsTypedGo ==
  ASSUME TmplTyped, \A t \in Templates : templates'[t] \in Tmpl!Row \cup {Absent},
         \A t \in used' : t \in Templates /\ templates'[t] # Absent,
         \A e \in Editors : edits'[e] = Tmpl!NoEdit \/ edits'[e].template \in Templates
  PROVE  TmplTyped'
BY DEF TmplTyped

\* The row of t is written, or made, and stays in use.
LEMMA RowTypedGoes ==
  ASSUME TmplInv, TmplTyped, NEW t \in Templates, NEW row \in Tmpl!Row, templates' = [templates EXCEPT ![t] = row],
         used' = used, \A e \in Editors : edits'[e] = Tmpl!NoEdit \/ edits'[e].template \in Templates
  PROVE  TmplTyped'
<1>1. row # Absent
  BY MessageAssumption
<1>2. templates'[t] = row /\ \A u \in Templates \ {t} : templates'[u] = templates[u]
  BY DEF TmplInv
<1>3. \A u \in Templates : templates'[u] \in Tmpl!Row \cup {Absent}
  BY <1>2 DEF TmplTyped
<1>4. \A u \in used' : u \in Templates /\ templates'[u] # Absent
  BY <1>1, <1>2 DEF TmplTyped
<1> QED BY <1>3, <1>4, RowsTypedGo

LEMMA TmplTypedAdds ==
  ASSUME TmplInv, TmplTyped, NEW t \in Templates, Tmpl!Create(t) \/ Tmpl!Insert(t)
  PROVE  TmplTyped'
<1>1. PICK k \in Keys, s \in BOOLEAN, on \in SUBSET Channels, x \in NewTexts, d \in SUBSET Variables, c \in BOOLEAN :
        templates' = [templates EXCEPT ![t] = [key |-> k, system |-> s, active |-> TRUE, enabled |-> on, text |-> x,
                                               defined |-> d, checked |-> c]]
  <2>1. CASE Tmpl!Create(t)
    <3>1. PICK k \in Keys, s \in BOOLEAN, on \in SUBSET Channels, x \in NewTexts, d \in SUBSET Variables :
            templates' = [templates EXCEPT ![t] = [key |-> k, system |-> s, active |-> TRUE, enabled |-> on, text |-> x,
                                               defined |-> d, checked |-> TRUE]]
      BY <2>1 DEF Tmpl!Create
    <3> QED BY <3>1
  <2>2. CASE Tmpl!Insert(t)
    <3>1. PICK k \in Keys, on \in SUBSET Channels, x \in NewTexts, d \in SUBSET Variables :
            templates' = [templates EXCEPT ![t] = [key |-> k, system |-> FALSE, active |-> TRUE, enabled |-> on, text |-> x,
                                               defined |-> d, checked |-> FALSE]]
      BY <2>2 DEF Tmpl!Insert
    <3> QED BY <3>1
  <2> QED BY <2>1, <2>2
<1>2. PICK row : row = [key |-> k, system |-> s, active |-> TRUE, enabled |-> on, text |-> x, defined |-> d, checked |-> c]
  OBVIOUS
<1>3. x \in [Channels -> (SUBSET Variables) \cup {Absent}]
  BY MessageAssumption
<1>4. row \in Tmpl!Row
  BY <1>2, <1>3 DEF Tmpl!Row
<1>5. used' = used /\ edits' = edits
  BY DEF Tmpl!Create, Tmpl!Insert
<1> QED BY <1>1, <1>2, <1>4, <1>5, RowTypedGoes DEF TmplTyped

\* An update or an overwriting leaves a row of the table.
LEMMA TmplTypedWrites ==
  ASSUME TmplInv, TmplTyped, NEW t \in Templates, NEW p \in Patches \cup {<<>>}, NEW valid \in BOOLEAN,
         templates[t] # Absent, templates' = [templates EXCEPT ![t] = Tmpl!Rewritten(p, templates[t], valid)],
         used' = used, \A e \in Editors : edits'[e] = Tmpl!NoEdit \/ edits'[e].template \in Templates
  PROVE  TmplTyped'
<1>1. PICK row : row = Tmpl!Rewritten(p, templates[t], valid)
  OBVIOUS
<1>2. row \in Tmpl!Row
  BY <1>1, RewrittenTyped DEF TmplTyped
<1> QED BY <1>1, <1>2, RowTypedGoes

LEMMA TmplTypedUpdates ==
  ASSUME TmplInv, TmplTyped, NEW e \in Editors, Tmpl!Update(e)
  PROVE  TmplTyped'
<1>1. PICK t, p, whole : t = edits[e].template /\ p = edits[e].patch
                         /\ whole = (DOMAIN p \cap Tmpl!Content # {} /\ ~edits[e].stale)
  OBVIOUS
<1>2. edits[e] # Tmpl!NoEdit /\ used' = used
  BY DEF Tmpl!Update
<1>3. t \in Templates /\ p \in Patches \cup {<<>>} /\ whole \in BOOLEAN /\ DOMAIN edits = Editors
  BY <1>1, <1>2 DEF TmplTyped, TmplInv
<1>4. CASE templates[t] # Absent /\ templates' = [templates EXCEPT ![t] = Tmpl!Rewritten(p, templates[t], whole)]
           /\ edits' = [Tmpl!Written(t) EXCEPT ![e] = Tmpl!NoEdit]
  <2>1. PICK f : f = Tmpl!Written(t)
    OBVIOUS
  <2>2. DOMAIN f = Editors /\ \A d \in Editors : f[d] = Tmpl!NoEdit \/ f[d].template \in Templates
    BY <1>3, <2>1, WrittenTyped, WrittenOutdates
  <2>3. \A d \in Editors : edits'[d] = Tmpl!NoEdit \/ edits'[d].template \in Templates
    BY <1>4, <2>1, <2>2
  <2> QED BY <1>2, <1>3, <1>4, <2>3, TmplTypedWrites
<1>5. CASE edits' = [edits EXCEPT ![e] = Tmpl!NoEdit] /\ UNCHANGED templates
  <2>1. \A d \in Editors : edits'[d] = Tmpl!NoEdit \/ edits'[d].template \in Templates
    BY <1>3, <1>5 DEF TmplTyped
  <2> QED BY <1>2, <1>5, <2>1, RowsTypedGo DEF TmplTyped
<1> QED BY <1>1, <1>4, <1>5 DEF Tmpl!Update

LEMMA TmplTypedPrepares ==
  ASSUME TmplInv, TmplTyped, NEW e \in Editors, NEW t \in Templates, NEW p, Tmpl!Prepare(e, t, p)
  PROVE  TmplTyped'
<1>1. PICK row : row = [template |-> t, patch |-> p, stale |-> FALSE]
  OBVIOUS
<1>2. edits' = [edits EXCEPT ![e] = row] /\ templates' = templates /\ used' = used /\ DOMAIN edits = Editors
  BY <1>1 DEF Tmpl!Prepare, TmplInv
<1>3. row.template \in Templates
  BY <1>1
<1>4. \A d \in Editors : edits'[d] = Tmpl!NoEdit \/ edits'[d].template \in Templates
  BY <1>2, <1>3 DEF TmplTyped
<1> QED BY <1>2, <1>4, RowsTypedGo DEF TmplTyped

\* Rows in use are switched but not deleted.
LEMMA TmplTypedBulk ==
  ASSUME TmplInv, TmplTyped, NEW S \in SUBSET Templates, Tmpl!Bulk(S)
  PROVE  TmplTyped'
<1>1. used' = used /\ \A t \in S : templates[t] # Absent
  BY DEF Tmpl!Bulk
<1>2. ASSUME NEW e \in Editors PROVE edits'[e] = Tmpl!NoEdit \/ edits'[e].template \in Templates
  <2>1. edits'[e] = [edits[e] EXCEPT !.stale = edits[e].stale \/ edits[e].template \in S]
    BY DEF Tmpl!Bulk
  <2> QED BY <2>1, EditsTyped
<1>3. CASE \E on \in BOOLEAN :
             templates' = [t \in Templates |-> IF t \in S THEN [templates[t] EXCEPT !.active = on] ELSE templates[t]]
  <2>1. PICK on \in BOOLEAN :
             templates' = [t \in Templates |-> IF t \in S THEN [templates[t] EXCEPT !.active = on] ELSE templates[t]]
    BY <1>3
  <2>2. ASSUME NEW t \in S PROVE templates'[t] \in Tmpl!Row
    <3>1. PICK row \in Tmpl!Row : row = templates[t]
      BY <1>1 DEF TmplTyped
    <3>2. templates'[t] = [row EXCEPT !.active = on]
      BY <2>1, <3>1
    <3> QED BY <3>2 DEF Tmpl!Row
  <2>3. \A t \in Templates \ S : templates'[t] = templates[t]
    BY <2>1
  <2>4. \A t \in Templates : templates'[t] \in Tmpl!Row \cup {Absent}
    BY <2>2, <2>3 DEF TmplTyped
  <2>5. Absent \notin Tmpl!Row
    BY MessageAssumption
  <2>6. \A t \in used' : t \in Templates /\ templates'[t] # Absent
    BY <1>1, <2>2, <2>3, <2>5 DEF TmplTyped
  <2> QED BY <1>2, <2>4, <2>6, RowsTypedGo
<1>4. CASE /\ \A t \in S : t \notin used
           /\ templates' = [t \in Templates |-> IF t \in S THEN Absent ELSE templates[t]]
  <2>1. \A t \in Templates : templates'[t] \in Tmpl!Row \cup {Absent}
    BY <1>4 DEF TmplTyped
  <2>2. \A t \in used' : t \in Templates /\ templates'[t] # Absent
    BY <1>1, <1>4 DEF TmplTyped
  <2> QED BY <1>2, <2>1, <2>2, RowsTypedGo
<1> QED BY <1>3, <1>4 DEF Tmpl!Bulk

LEMMA TmplTypedKept ==
  ASSUME TmplInv, TmplTyped, Tmpl!Next \/ UNCHANGED templateVars
  PROVE  TmplTyped'
<1>1. CASE UNCHANGED templateVars
  BY <1>1 DEF templateVars, TmplTyped
<1>2. ASSUME NEW t \in Templates, Tmpl!Delete(t) PROVE TmplTyped'
  <2>1. /\ templates' = [templates EXCEPT ![t] = Absent] /\ edits' = Tmpl!Written(t) /\ used' = used /\ t \notin used
        /\ DOMAIN templates = Templates
    BY <1>2 DEF Tmpl!Delete, TmplInv
  <2>2. \A u \in Templates : templates'[u] \in Tmpl!Row \cup {Absent}
    BY <2>1 DEF TmplTyped
  <2>3. \A u \in used' : u \in Templates /\ templates'[u] # Absent
    BY <2>1 DEF TmplTyped
  <2> QED BY <2>1, <2>2, <2>3, WrittenTyped, RowsTypedGo
<1>3. ASSUME NEW t \in Templates, Tmpl!Refer(t) PROVE TmplTyped'
  BY <1>3 DEF Tmpl!Refer, TmplTyped
<1>4. ASSUME NEW t \in Templates, NEW p \in Patches, Tmpl!Overwrite(t, p) PROVE TmplTyped'
  <2>1. /\ templates[t] # Absent /\ templates' = [templates EXCEPT ![t] = Tmpl!Rewritten(p, templates[t], FALSE)]
        /\ edits' = Tmpl!Written(t) /\ used' = used
    BY <1>4 DEF Tmpl!Overwrite
  <2>2. \A e \in Editors : edits'[e] = Tmpl!NoEdit \/ edits'[e].template \in Templates
    BY <2>1, WrittenTyped
  <2> QED BY <2>1, <2>2, TmplTypedWrites
<1> QED
  BY <1>1, <1>2, <1>3, <1>4, TmplTypedAdds, TmplTypedUpdates, TmplTypedPrepares, TmplTypedBulk DEF Tmpl!Next

-----------------------------------------------------------------------------
(* LeadDesk: a duplicate is a pair of leads.                               *)

LEMMA LeadTypedKept ==
  ASSUME LeadTyped, Lead!Next \/ UNCHANGED deskVars
  PROVE  LeadTyped'
<1>1. CASE dupes' = dupes
  BY <1>1 DEF LeadTyped
<1>2. ASSUME NEW l \in Leads, Lead!CheckDuplicates(l) PROVE LeadTyped'
  <2>1. PICK S \in SUBSET Lead!Matches(l) : dupes' = dupes \cup {{l, o} : o \in S}
    BY <1>2 DEF Lead!CheckDuplicates
  <2>2. \A o \in S : o \in Leads /\ o # l
    BY <2>1 DEF Lead!Matches
  <2>3. ASSUME NEW d \in dupes' PROVE \E x, y \in Leads : x # y /\ d = {x, y}
    BY <2>1, <2>2, <2>3 DEF LeadTyped
  <2> QED BY <2>3 DEF LeadTyped
<1> QED
  BY <1>1, <1>2 DEF Lead!Next, deskVars, Lead!CreateByService, Lead!Arrive, Lead!WriteLead, Lead!RecordStatus, Lead!FindOne

LEMMA LeadTypedAccounted ==
  ASSUME LeadInv, LeadTyped
  PROVE  Lead!TypeOK
<1>1. \A S : Lead!Cardinality(S) = Cardinality(S)
  BY DEF Lead!Cardinality, Cardinality
<1>2. ASSUME NEW d \in dupes PROVE Lead!Cardinality(d) = 2
  <2>1. PICK l, o \in Leads : l # o /\ d = {l, o}
    BY DEF LeadTyped
  <2>2. IsFiniteSet({l}) /\ Cardinality({l}) = 1
    BY FS_Singleton
  <2>3. Cardinality({l} \cup {o}) = Cardinality({l}) + 1
    BY <2>1, <2>2, FS_AddElement
  <2>4. d = {l} \cup {o}
    BY <2>1
  <2> QED BY <1>1, <2>2, <2>3, <2>4
<1>3. \A l \in Leads : leadRows[l] = NoLead \/ (leadRows[l].phone \in Phones /\ leadRows[l].status \in LeadStatuses \cup {"new", "won"})
  BY DEF LeadInv, LeadRow
<1> QED BY <1>2, <1>3 DEF Lead!TypeOK, LeadInv

-----------------------------------------------------------------------------
(* StaffInbox: conversations have their rows, and messages only with them. *)

LEMMA ThreadTypedStarts == Inbox!Init => ThreadTyped
BY DEF Inbox!Init, ThreadTyped

\* A clerk who is done has put down what he found.
LEMMA ClerksTyped ==
  ASSUME InboxInv, ThreadTyped, Inbox!Next
  PROVE  \A c \in Clerks : clerks'[c].at = "rest" => clerks'[c] = Inbox!AtRest
<1>1. DOMAIN clerks = Clerks /\ \A c \in Clerks : clerks[c] \in Clerk
  BY DEF InboxInv, InboxTyped
<1>2. clerks' = clerks \/ \E c \in Clerks : \E k : clerks' = [clerks EXCEPT ![c] = k] /\ (k.at # "rest" \/ k = Inbox!AtRest)
  <2>1. ASSUME NEW c \in Clerks, NEW t, NEW step, NEW x, step # "rest", Inbox!Begin(c, t, step, x)
        PROVE  \E k : clerks' = [clerks EXCEPT ![c] = k] /\ k.at # "rest"
    <3>1. PICK k : k = [at |-> step, thread |-> t, text |-> x]
      OBVIOUS
    <3>2. k.at = step
      BY <3>1
    <3>3. clerks' = [clerks EXCEPT ![c] = k]
      BY <2>1, <3>1 DEF Inbox!Begin
    <3> QED BY <2>1, <3>2, <3>3
  <2>2. ASSUME NEW c \in Clerks, NEW t \in Threads, Inbox!CreateThread(c, t)
        PROVE  clerks' = clerks \/ \E k : clerks' = [clerks EXCEPT ![c] = k] /\ k.at # "rest"
    BY <2>1, <2>2 DEF Inbox!CreateThread
  <2>3. ASSUME NEW c \in Clerks, NEW t \in Threads, Inbox!OpenThread(c, t) \/ Inbox!FindThread(c, t)
        PROVE  \E k : clerks' = [clerks EXCEPT ![c] = k] /\ k.at # "rest"
    BY <2>1, <2>3 DEF Inbox!OpenThread, Inbox!FindThread
  <2>4. ASSUME NEW c \in Clerks, Inbox!InsertLetter(c)
        PROVE  \E k : clerks' = [clerks EXCEPT ![c] = k] /\ (k.at # "rest" \/ k = Inbox!AtRest)
    <3>1. CASE clerks' = [clerks EXCEPT ![c].at = "update"]
      <4>1. PICK old \in Clerk : old = clerks[c]
        BY <1>1
      <4>2. PICK k : k = [old EXCEPT !.at = "update"]
        OBVIOUS
      <4>3. k.at = "update"
        BY <4>1, <4>2 DEF Clerk
      <4>4. clerks' = [clerks EXCEPT ![c] = k]
        BY <1>1, <3>1, <4>1, <4>2
      <4> QED BY <4>3, <4>4
    <3>2. CASE Inbox!Rest(c)
      BY <3>2 DEF Inbox!Rest
    <3> QED BY <2>4, <3>1, <3>2 DEF Inbox!InsertLetter
  <2>5. ASSUME NEW c \in Clerks,
               Inbox!UpdateThread(c) \/ Inbox!MarkRead(c) \/ Inbox!Change(c) \/ Inbox!DeleteThread(c) \/ Inbox!BreakOff(c)
        PROVE  clerks' = [clerks EXCEPT ![c] = Inbox!AtRest]
    BY <2>5 DEF Inbox!UpdateThread, Inbox!MarkRead, Inbox!Change, Inbox!DeleteThread, Inbox!BreakOff, Inbox!Rest
  <2>6. PICK c \in Clerks :
          \/ Inbox!InsertLetter(c) \/ Inbox!UpdateThread(c) \/ Inbox!MarkRead(c) \/ Inbox!Change(c)
          \/ Inbox!DeleteThread(c) \/ Inbox!BreakOff(c)
          \/ \E t \in Threads : Inbox!CreateThread(c, t) \/ Inbox!OpenThread(c, t) \/ Inbox!FindThread(c, t)
    BY DEF Inbox!Next
  <2> QED BY <2>2, <2>3, <2>4, <2>5, <2>6
<1>3. CASE clerks' = clerks
  BY <1>3 DEF ThreadTyped
<1>4. CASE \E c \in Clerks : \E k : clerks' = [clerks EXCEPT ![c] = k] /\ (k.at # "rest" \/ k = Inbox!AtRest)
  BY <1>1, <1>4 DEF ThreadTyped
<1> QED BY <1>2, <1>3, <1>4

\* The row of conversation t is written, or goes with its messages.
LEMMA ThreadGoes ==
  ASSUME ThreadTyped, NEW t \in Threads, NEW row \in ThreadRow \cup {NoThread},
         threads' = [threads EXCEPT ![t] = row],
         row = NoThread => letters'[t] = <<>>, \A u \in Threads \ {t} : letters'[u] = letters[u],
         \A c \in Clerks : clerks'[c].at = "rest" => clerks'[c] = Inbox!AtRest
  PROVE  ThreadTyped'
<1>1. threads' \in [Threads -> ThreadRow \cup {NoThread}]
  BY DEF ThreadTyped
<1>2. threads'[t] = row /\ \A u \in Threads \ {t} : threads'[u] = threads[u]
  BY DEF ThreadTyped
<1>3. \A u \in Threads : threads'[u] = NoThread => letters'[u] = <<>>
  BY <1>2 DEF ThreadTyped
<1> QED BY <1>1, <1>3 DEF ThreadTyped

\* No request writes anything else to a row.
LEMMA ThreadWritten ==
  ASSUME InboxInv, ThreadTyped, NEW c \in Clerks,
         Inbox!UpdateThread(c) \/ Inbox!MarkRead(c) \/ Inbox!Change(c),
         \A d \in Clerks : clerks'[d].at = "rest" => clerks'[d] = Inbox!AtRest
  PROVE  ThreadTyped'
<1>1. PICK t : t = clerks[c].thread
  OBVIOUS
<1>2. clerks[c].at # "rest" /\ threads[t] # NoThread /\ letters' = letters
  BY <1>1 DEF Inbox!UpdateThread, Inbox!MarkRead, Inbox!Change, Inbox!Exists
<1>3. t \in Threads
  BY <1>1, <1>2 DEF InboxInv, ClerkFits
<1>4. PICK old \in ThreadRow : old = threads[t]
  BY <1>2, <1>3 DEF ThreadTyped
<1>5. PICK s \in ThreadStatuses \cup {"unread", "read", "replied"}, x \in Letters \cup {NoThread}, n \in 0..1 :
        old = [status |-> s, last |-> x, unread |-> n]
  BY <1>4 DEF ThreadRow
<1>6. \A r \in ThreadStatuses \cup {"unread", "read", "replied"}, y \in Letters \cup {NoThread}, m \in 0..1 :
        [status |-> r, last |-> y, unread |-> m] \in ThreadRow
  BY DEF ThreadRow
<1>7. \E row \in ThreadRow : threads' = [threads EXCEPT ![t] = row]
  <2>1. CASE Inbox!UpdateThread(c)
    <3>1. PICK y \in Letters : y = clerks[c].text
      BY <2>1 DEF Inbox!UpdateThread, InboxInv, ClerkFits
    <3>2. PICK row : row = [old EXCEPT !.last = y, !.status = "replied"]
      OBVIOUS
    <3>3. row = [status |-> "replied", last |-> y, unread |-> n]
      BY <1>5, <3>2
    <3>4. threads' = [threads EXCEPT ![t] = row]
      BY <1>1, <1>4, <2>1, <3>1, <3>2 DEF Inbox!UpdateThread
    <3> QED BY <1>6, <3>3, <3>4
  <2>2. CASE Inbox!MarkRead(c)
    <3>1. PICK row : row = [old EXCEPT !.status = "read", !.unread = 0]
      OBVIOUS
    <3>2. row = [status |-> "read", last |-> x, unread |-> 0]
      BY <1>5, <3>1
    <3>3. threads' = [threads EXCEPT ![t] = row]
      BY <1>1, <1>4, <2>2, <3>1 DEF Inbox!MarkRead
    <3>4. 0 \in 0..1
      OBVIOUS
    <3> QED BY <1>6, <3>2, <3>3, <3>4
  <2>3. CASE Inbox!Change(c)
    <3>1. PICK r \in ThreadStatuses : threads' = [threads EXCEPT ![t].status = r]
      BY <1>1, <2>3 DEF Inbox!Change
    <3>2. PICK row : row = [old EXCEPT !.status = r]
      OBVIOUS
    <3>3. row = [status |-> r, last |-> x, unread |-> n]
      BY <1>5, <3>2
    <3>4. threads' = [threads EXCEPT ![t] = row]
      BY <1>4, <3>1, <3>2
    <3> QED BY <1>6, <3>3, <3>4
  <2> QED BY <2>1, <2>2, <2>3
<1>8. PICK row \in ThreadRow : threads' = [threads EXCEPT ![t] = row]
  BY <1>7
<1>9. row # NoThread
  BY MessageAssumption
<1> QED BY <1>2, <1>3, <1>8, <1>9, ThreadGoes

LEMMA ThreadTypedKept ==
  ASSUME InboxInv, ThreadTyped, Inbox!Next \/ UNCHANGED inboxVars
  PROVE  ThreadTyped'
<1>1. CASE UNCHANGED inboxVars
  BY <1>1 DEF inboxVars, ThreadTyped
<1>2. CASE Inbox!Next
  <2>0. DOMAIN letters = Threads
    BY DEF InboxInv, InboxTyped
  <2>1. \A d \in Clerks : clerks'[d].at = "rest" => clerks'[d] = Inbox!AtRest
    BY <1>2, ClerksTyped
  <2>2. ASSUME threads' = threads, letters' = letters PROVE ThreadTyped'
    BY <2>1, <2>2 DEF ThreadTyped
  <2>3. ASSUME NEW c \in Clerks, NEW t \in Threads, Inbox!CreateThread(c, t) PROVE ThreadTyped'
    <3>1. \E x \in Letters \cup {NoThread}, n \in 0..1 :
            threads' = [threads EXCEPT ![t] = [status |-> "unread", last |-> x, unread |-> n]]
      BY <2>3 DEF Inbox!CreateThread
    <3>2. PICK x \in Letters \cup {NoThread}, n \in 0..1 :
            threads' = [threads EXCEPT ![t] = [status |-> "unread", last |-> x, unread |-> n]]
      BY <3>1
    <3>3. PICK row : row = [status |-> "unread", last |-> x, unread |-> n]
      OBVIOUS
    <3>4. row \in ThreadRow
      BY <3>3 DEF ThreadRow
    <3>5. letters' = [letters EXCEPT ![t] = <<>>]
      BY <2>3 DEF Inbox!CreateThread
    <3>6. letters'[t] = <<>> /\ \A u \in Threads \ {t} : letters'[u] = letters[u]
      BY <2>0, <3>5
    <3> QED BY <2>1, <3>2, <3>3, <3>4, <3>6, ThreadGoes
  <2>4. ASSUME NEW c \in Clerks, NEW t \in Threads, Inbox!OpenThread(c, t) \/ Inbox!FindThread(c, t) PROVE ThreadTyped'
    BY <2>2, <2>4 DEF Inbox!OpenThread, Inbox!FindThread
  <2>5. ASSUME NEW c \in Clerks, Inbox!InsertLetter(c) PROVE ThreadTyped'
    <3>1. PICK t : t = clerks[c].thread
      OBVIOUS
    <3>2. PICK s : s = Append(letters[t], clerks[c].text)
      OBVIOUS
    <3>3. threads' = threads /\ threads[t] # NoThread /\ letters' = [letters EXCEPT ![t] = s]
      BY <2>5, <3>1, <3>2 DEF Inbox!InsertLetter, Inbox!Exists
    <3>4. \A u \in Threads : threads'[u] = NoThread => letters'[u] = <<>>
      BY <2>0, <3>3 DEF ThreadTyped
    <3> QED BY <2>1, <3>3, <3>4 DEF ThreadTyped
  <2>6. ASSUME NEW c \in Clerks, Inbox!DeleteThread(c) PROVE ThreadTyped'
    <3>1. PICK t : t = clerks[c].thread
      OBVIOUS
    <3>2. threads' = [threads EXCEPT ![t] = NoThread] /\ letters' = [letters EXCEPT ![t] = <<>>] /\ clerks[c].at # "rest"
      BY <2>6, <3>1 DEF Inbox!DeleteThread
    <3>3. t \in Threads
      BY <3>1, <3>2 DEF InboxInv, ClerkFits
    <3>4. letters'[t] = <<>> /\ \A u \in Threads \ {t} : letters'[u] = letters[u]
      BY <2>0, <3>2, <3>3
    <3> QED BY <2>1, <3>2, <3>3, <3>4, ThreadGoes
  <2>7. ASSUME NEW c \in Clerks, Inbox!BreakOff(c) PROVE ThreadTyped'
    BY <2>2, <2>7 DEF Inbox!BreakOff
  <2>8. PICK c \in Clerks :
          \/ Inbox!InsertLetter(c) \/ Inbox!UpdateThread(c) \/ Inbox!MarkRead(c) \/ Inbox!Change(c)
          \/ Inbox!DeleteThread(c) \/ Inbox!BreakOff(c)
          \/ \E t \in Threads : Inbox!CreateThread(c, t) \/ Inbox!OpenThread(c, t) \/ Inbox!FindThread(c, t)
    BY <1>2 DEF Inbox!Next
  <2> QED BY <2>1, <2>3, <2>4, <2>5, <2>6, <2>7, <2>8, ThreadWritten
<1> QED BY <1>1, <1>2

LEMMA ThreadTypedAccounted ==
  ASSUME InboxInv, ThreadTyped
  PROVE  Inbox!TypeOK
<1>1. \A t \in Threads : threads[t] # NoThread => threads[t].last \in Letters \cup {NoThread} /\ threads[t].unread \in 0..1
  BY DEF ThreadTyped, ThreadRow
<1>2. \A t \in Threads : letters[t] \in Seq(Letters)
  BY DEF InboxInv, InboxTyped
<1>3. \A c \in Clerks : clerks[c].at = "rest" <=> clerks[c] = Inbox!AtRest
  <2>1. PICK rest : rest = Inbox!AtRest
    OBVIOUS
  <2>2. rest.at = "rest"
    BY <2>1 DEF Inbox!AtRest
  <2> QED BY <2>1, <2>2 DEF ThreadTyped
<1> QED BY <1>1, <1>2, <1>3 DEF Inbox!TypeOK, Inbox!Exists, ThreadTyped

-----------------------------------------------------------------------------
(* OutboundMessages: the circuit and what is stored.                       *)

LEMMA OutCircuits ==
  ASSUME NEW c \in Out!Breaker!Circuit
  PROVE  /\ Out!Breaker!Entered(c) \in Out!Breaker!Circuit /\ Out!Breaker!Good(c) \in Out!Breaker!Circuit
         /\ Out!Breaker!Bad(c) \in Out!Breaker!Circuit /\ [c EXCEPT !.recent = FALSE] \in Out!Breaker!Circuit
<1>1. Out!Breaker!Ceiling \in Nat
  BY MessageAssumption DEF Out!Breaker!Ceiling
<1>2. PICK top \in Nat : top = Out!Breaker!Ceiling
  BY <1>1
<1>3. \A n \in 0..top : Out!Breaker!Bump(n) \in 0..top
  BY <1>2 DEF Out!Breaker!Bump
<1>4. PICK s \in Out!Breaker!CircuitStates, f \in 0..top, n \in 0..top, r \in BOOLEAN :
        c = [state |-> s, failures |-> f, successes |-> n, recent |-> r]
  BY <1>2 DEF Out!Breaker!Circuit
<1>5. \A t \in Out!Breaker!CircuitStates, g \in 0..top, m \in 0..top, q \in BOOLEAN :
        [state |-> t, failures |-> g, successes |-> m, recent |-> q] \in Out!Breaker!Circuit
  BY <1>2 DEF Out!Breaker!Circuit
<1>6. 0 \in 0..top /\ {"OPEN", "HALF_OPEN", "CLOSED"} \subseteq Out!Breaker!CircuitStates
  BY DEF Out!Breaker!CircuitStates
<1>7. Out!Breaker!Entered(c) \in Out!Breaker!Circuit
  <2>1. c.state = "OPEN" => Out!Breaker!Entered(c) = [state |-> "HALF_OPEN", failures |-> f, successes |-> n, recent |-> r]
    BY <1>4 DEF Out!Breaker!Entered
  <2>2. c.state # "OPEN" => Out!Breaker!Entered(c) = c
    BY DEF Out!Breaker!Entered
  <2> QED BY <1>5, <1>6, <2>1, <2>2
<1>8. Out!Breaker!Good(c) \in Out!Breaker!Circuit
  <2>1. PICK m \in 0..top : m = Out!Breaker!Bump(c.successes)
    BY <1>3, <1>4
  <2>2. PICK closed \in BOOLEAN : closed = (c.state = "CLOSED" \/ (c.state = "HALF_OPEN" /\ m >= SuccessThreshold))
    OBVIOUS
  <2>3. PICK gone \in BOOLEAN : gone = (closed /\ m > ResetAfter)
    OBVIOUS
  <2>4. Out!Breaker!Good(c) =
          [state |-> IF closed THEN "CLOSED" ELSE s, failures |-> 0, successes |-> IF gone THEN 0 ELSE m, recent |-> r /\ ~gone]
    BY <1>4, <2>1, <2>2, <2>3 DEF Out!Breaker!Good
  <2>5. /\ (IF closed THEN "CLOSED" ELSE s) \in Out!Breaker!CircuitStates /\ (IF gone THEN 0 ELSE m) \in 0..top
        /\ (r /\ ~gone) \in BOOLEAN
    BY <1>6
  <2> QED BY <1>5, <1>6, <2>4, <2>5
<1>9. Out!Breaker!Bad(c) \in Out!Breaker!Circuit
  <2>1. PICK m \in 0..top : m = Out!Breaker!Bump(c.failures)
    BY <1>3, <1>4
  <2>2. Out!Breaker!Bad(c) = [state |-> IF m >= FailureThreshold THEN "OPEN" ELSE s, failures |-> m, successes |-> 0, recent |-> TRUE]
    BY <1>4, <2>1 DEF Out!Breaker!Bad
  <2>3. (IF m >= FailureThreshold THEN "OPEN" ELSE s) \in Out!Breaker!CircuitStates
    BY <1>6
  <2> QED BY <1>5, <1>6, <2>2, <2>3
<1>10. [c EXCEPT !.recent = FALSE] \in Out!Breaker!Circuit
  <2>1. Out!Breaker!Circuit = [state : Out!Breaker!CircuitStates, failures : 0..top, successes : 0..top, recent : BOOLEAN]
    BY <1>2 DEF Out!Breaker!Circuit
  <2> QED BY <2>1
<1> QED BY <1>7, <1>8, <1>9, <1>10

\* A circuit that nobody has used is one.
LEMMA FreshCircuit == Out!Breaker!Fresh \in Out!Breaker!Circuit
<1>1. Out!Breaker!Ceiling \in Nat
  BY MessageAssumption DEF Out!Breaker!Ceiling
<1> QED BY <1>1 DEF Out!Breaker!Fresh, Out!Breaker!Circuit, Out!Breaker!CircuitStates

LEMMA PostTypedStarts == Out!Init => PostTyped
<1> SUFFICES ASSUME Out!Init PROVE PostTyped
  OBVIOUS
<1>1. \A p \in Out!Posts : posting[p] = "new" /\ outRows[p] = NoRow
  BY DEF Out!Init
<1>2. sendCircuit = Out!Breaker!Fresh
  BY DEF Out!Init
<1> QED BY <1>1, <1>2, FreshCircuit DEF PostTyped

LEMMA PostTypedKept ==
  ASSUME OutInv, PostTyped, Out!Next \/ UNCHANGED postVars
  PROVE  PostTyped'
<1>1. DOMAIN posting = Out!Posts /\ DOMAIN outRows = Out!Posts
  BY DEF OutInv, OutTyped
<1>2. CASE UNCHANGED postVars
  BY <1>2 DEF postVars, PostTyped
<1>3. CASE Out!WaitOver
  <2>1. sendCircuit' = [sendCircuit EXCEPT !.recent = FALSE] /\ posting' = posting /\ outRows' = outRows
    BY <1>3 DEF Out!WaitOver
  <2>2. sendCircuit' \in Out!Breaker!Circuit
    BY <2>1, OutCircuits DEF PostTyped
  <2> QED BY <2>1, <2>2 DEF PostTyped
<1>4. ASSUME NEW p \in Out!Posts, Out!Post(p) \/ Out!Accepted(p) \/ Out!Refused(p) PROVE PostTyped'
  <2>1. PICK to : posting' = [posting EXCEPT ![p] = to] /\ (to = "save" => p \in FlowPosts)
    BY <1>4 DEF Out!Post, Out!Accepted, Out!Refused, Out!Steps
  <2>2. outRows' = outRows
    BY <1>4 DEF Out!Post, Out!Accepted, Out!Refused
  <2>3. sendCircuit' \in {sendCircuit, Out!Breaker!Entered(sendCircuit), Out!Breaker!Good(sendCircuit), Out!Breaker!Bad(sendCircuit)}
    BY <1>4 DEF Out!Post, Out!Accepted, Out!Refused
  <2>4. sendCircuit' \in Out!Breaker!Circuit
    BY <2>3, OutCircuits DEF PostTyped
  <2>5. \A o \in Out!Posts : posting'[o] = "save" => o \in FlowPosts
    BY <1>1, <2>1 DEF PostTyped
  <2> QED BY <2>2, <2>4, <2>5 DEF PostTyped
<1>5. ASSUME NEW p \in Out!Posts, Out!StorePost(p) PROVE PostTyped'
  <2>1. p \in FlowPosts
    BY <1>5 DEF Out!StorePost, PostTyped
  <2>2. sendCircuit' = sendCircuit
    BY <1>5 DEF Out!StorePost
  <2>3. \A o \in Out!Posts \ {p} : posting'[o] = posting[o] /\ outRows'[o] = outRows[o]
    BY <1>1, <1>5 DEF Out!StorePost, Out!Steps
  <2> QED BY <2>1, <2>2, <2>3 DEF PostTyped
<1>6. ASSUME NEW p \in Out!Posts, Out!Proceeds(p) PROVE PostTyped'
  BY <1>6 DEF Out!Proceeds, PostTyped
<1>7. ASSUME NEW p \in Out!Posts, Out!HandleStatus(p) PROVE PostTyped'
  <2>1. posting' = posting /\ sendCircuit' = sendCircuit
    BY <1>7 DEF Out!HandleStatus
  <2>2. outRows' = outRows \/ (outRows[p] # NoRow /\ \E row : outRows' = [outRows EXCEPT ![p] = row])
    BY <1>7 DEF Out!HandleStatus
  <2>3. \A o \in Out!Posts : outRows'[o] # NoRow => outRows[o] # NoRow
    BY <1>1, <2>2
  <2> QED BY <2>1, <2>3 DEF PostTyped
<1> QED BY <1>2, <1>3, <1>4, <1>5, <1>6, <1>7 DEF Out!Next, Out!Send

LEMMA PostTypedAccounted ==
  ASSUME OutInv, PostTyped
  PROVE  Out!TypeOK
<1>1. \A p \in Out!Posts : outRows[p] # NoRow => posting[p] = "done" /\ outRows[p] \in Out!Row
  BY DEF OutInv, PostFits
<1> QED BY <1>1 DEF PostTyped, Out!TypeOK

-----------------------------------------------------------------------------
(* InstagramDesk: the accounts and the contexts of leads.                  *)

\* What the operators of the circuit return is a circuit.
LEMMA IgCircuits ==
  ASSUME NEW c \in Insta!Breaker!Circuit
  PROVE  /\ Insta!Breaker!Fresh \in Insta!Breaker!Circuit
         /\ Insta!Breaker!IgEntered(c) \in Insta!Breaker!Circuit /\ Insta!Breaker!IgGood(c) \in Insta!Breaker!Circuit
         /\ Insta!Breaker!IgBad(c) \in Insta!Breaker!Circuit /\ [c EXCEPT !.recent = FALSE] \in Insta!Breaker!Circuit
<1>1. Insta!Breaker!Ceiling \in Nat
  BY MessageAssumption DEF Insta!Breaker!Ceiling
<1>2. PICK top \in Nat : top = Insta!Breaker!Ceiling
  BY <1>1
<1>3. \A n \in 0..top : Insta!Breaker!Bump(n) \in 0..top
  BY <1>2 DEF Insta!Breaker!Bump
<1>4. PICK s \in Insta!Breaker!CircuitStates, f \in 0..top, n \in 0..top, r \in BOOLEAN :
        c = [state |-> s, failures |-> f, successes |-> n, recent |-> r]
  BY <1>2 DEF Insta!Breaker!Circuit
<1>5. \A t \in Insta!Breaker!CircuitStates, g \in 0..top, m \in 0..top, q \in BOOLEAN :
        [state |-> t, failures |-> g, successes |-> m, recent |-> q] \in Insta!Breaker!Circuit
  BY <1>2 DEF Insta!Breaker!Circuit
<1>6. 0 \in 0..top /\ {"OPEN", "HALF_OPEN", "CLOSED"} \subseteq Insta!Breaker!CircuitStates
  BY DEF Insta!Breaker!CircuitStates
<1>7. Insta!Breaker!IgEntered(c) \in Insta!Breaker!Circuit
  <2>1. c.state = "OPEN" => Insta!Breaker!IgEntered(c) = [state |-> "HALF_OPEN", failures |-> f, successes |-> n, recent |-> r]
    BY <1>4 DEF Insta!Breaker!IgEntered
  <2>2. c.state # "OPEN" => Insta!Breaker!IgEntered(c) = c
    BY DEF Insta!Breaker!IgEntered
  <2> QED BY <1>5, <1>6, <2>1, <2>2
<1>8. Insta!Breaker!IgGood(c) \in Insta!Breaker!Circuit
  <2>1. PICK m \in 0..top : m = Insta!Breaker!Bump(c.successes)
    BY <1>3, <1>4
  <2>2. PICK closes \in BOOLEAN : closes = (c.state = "HALF_OPEN" /\ m >= SuccessThreshold)
    OBVIOUS
  <2>3. PICK t \in Insta!Breaker!CircuitStates : t = IF closes THEN "CLOSED" ELSE s
    BY <1>6
  <2>4. PICK k \in 0..top : k = IF s # "HALF_OPEN" THEN n ELSE IF closes THEN 0 ELSE m
    BY <1>6
  <2>5. Insta!Breaker!Circuit = [state : Insta!Breaker!CircuitStates, failures : 0..top, successes : 0..top, recent : BOOLEAN]
    BY <1>2 DEF Insta!Breaker!Circuit
  <2>6. c.state = s /\ c.successes = n
    BY <1>4
  <2>7. Insta!Breaker!IgGood(c) = [c EXCEPT !.failures = 0, !.state = t, !.successes = k]
    BY <2>1, <2>2, <2>3, <2>4, <2>5, <2>6 DEF Insta!Breaker!IgGood
  <2> QED BY <1>6, <2>5, <2>7
<1>9. Insta!Breaker!IgBad(c) \in Insta!Breaker!Circuit
  <2>1. PICK m \in 0..top : m = Insta!Breaker!Bump(c.failures)
    BY <1>3, <1>4
  <2>2. PICK opens \in BOOLEAN : opens = (m >= FailureThreshold \/ c.state = "HALF_OPEN")
    OBVIOUS
  <2>3. Insta!Breaker!IgBad(c) =
          [state |-> IF opens THEN "OPEN" ELSE s, failures |-> m, successes |-> 0, recent |-> opens \/ r]
    BY <1>4, <2>1, <2>2 DEF Insta!Breaker!IgBad
  <2>4. (IF opens THEN "OPEN" ELSE s) \in Insta!Breaker!CircuitStates /\ (opens \/ r) \in BOOLEAN
    BY <1>6
  <2> QED BY <1>5, <1>6, <2>3, <2>4
<1>10. [c EXCEPT !.recent = FALSE] \in Insta!Breaker!Circuit
  <2>1. Insta!Breaker!Circuit = [state : Insta!Breaker!CircuitStates, failures : 0..top, successes : 0..top, recent : BOOLEAN]
    BY <1>2 DEF Insta!Breaker!Circuit
  <2> QED BY <2>1
<1>11. Insta!Breaker!Fresh \in Insta!Breaker!Circuit
  BY <1>5, <1>6 DEF Insta!Breaker!Fresh
<1> QED BY <1>7, <1>8, <1>9, <1>10, <1>11

LEMMA IgLinkedStarts == Insta!Init => IgLinked
<1> SUFFICES ASSUME Insta!Init PROVE IgLinked
  OBVIOUS
<1>1. Insta!Breaker!Ceiling \in Nat
  BY MessageAssumption DEF Insta!Breaker!Ceiling
<1>2. Insta!Breaker!Fresh \in Insta!Breaker!Circuit
  BY <1>1 DEF Insta!Breaker!Fresh, Insta!Breaker!Circuit, Insta!Breaker!CircuitStates
<1>3. /\ contexts = {} /\ \A h \in IgHandlers : catching[h] = Insta!NotCatching
      /\ replying = Insta!NotReplying /\ igCircuit = Insta!Breaker!Fresh
  BY DEF Insta!Init
<1>4. Insta!NotCatching.at = "idle" /\ Insta!NotReplying.at = "idle"
  BY DEF Insta!NotCatching, Insta!NotReplying
<1> QED BY <1>2, <1>3, <1>4 DEF IgLinked

\* The circuit stays one, whatever a step does to it.
LEMMA IgCircuitGoes ==
  ASSUME IgLinked, Insta!Next
  PROVE  igCircuit' \in Insta!Breaker!Circuit
<1>1. igCircuit' \in {igCircuit, Insta!Breaker!Fresh, Insta!Breaker!IgEntered(igCircuit), Insta!Breaker!IgGood(igCircuit),
                      Insta!Breaker!IgBad(igCircuit), [igCircuit EXCEPT !.recent = FALSE]}
  <2>1. ASSUME NEW h, Insta!CatchStep(h) \/ \E i \in Insta!Items : Insta!Catch(h, i) PROVE igCircuit' = igCircuit
    BY <2>1 DEF Insta!CatchStep, Insta!FindLink, Insta!FindIgLead, Insta!CreateIgLead, Insta!Remember, Insta!AskAi,
                Insta!DropItem, Insta!Catch, Insta!outside
  <2>2. ASSUME Insta!ReplyStep
        PROVE  igCircuit' \in {igCircuit, Insta!Breaker!IgEntered(igCircuit), Insta!Breaker!IgGood(igCircuit), Insta!Breaker!IgBad(igCircuit)}
    BY <2>2 DEF Insta!ReplyStep, Insta!TakeIgResult, Insta!CallIg, Insta!ReplySent, Insta!ReplyFailed, Insta!LogAndForget,
                Insta!outside
  <2>3. ASSUME Insta!Link \/ \E k \in DOMAIN links : Insta!Unlink(k) PROVE igCircuit' = igCircuit
    BY <2>3 DEF Insta!Link, Insta!Unlink
  <2>4. ASSUME Insta!StaffCall \/ Insta!StaffCallEnds
        PROVE  igCircuit' \in {Insta!Breaker!IgEntered(igCircuit), Insta!Breaker!IgGood(igCircuit), Insta!Breaker!IgBad(igCircuit)}
    BY <2>4 DEF Insta!StaffCall, Insta!StaffCallEnds
  <2>5. ASSUME Insta!IgWaitOver PROVE igCircuit' = [igCircuit EXCEPT !.recent = FALSE]
    BY <2>5 DEF Insta!IgWaitOver
  <2>6. ASSUME Insta!Stop PROVE igCircuit' = Insta!Breaker!Fresh
    BY <2>6 DEF Insta!Stop
  <2>7. \/ \E h \in IgHandlers : Insta!CatchStep(h) \/ \E i \in Insta!Items : Insta!Catch(h, i)
        \/ Insta!ReplyStep
        \/ Insta!Link \/ (\E k \in DOMAIN links : Insta!Unlink(k))
        \/ Insta!StaffCall \/ Insta!StaffCallEnds \/ Insta!IgWaitOver \/ Insta!Stop
    BY DEF Insta!Next
  <2> QED BY <2>1, <2>2, <2>3, <2>4, <2>5, <2>6, <2>7
<1> QED BY <1>1, IgCircuits DEF IgLinked

\* The rest of IgLinked.
Linked ==
  /\ \A h \in IgHandlers : catching[h].at \in {"lead", "newlead", "remember"} => catching[h].link \in DOMAIN links
  /\ \A x, y \in contexts : x.link \in DOMAIN links /\ (x.lead = y.lead => x = y)
  /\ replying.at # "idle" => replying.lead \in hooks

\* A handler becomes c, and nothing else changes that IgLinked is about.
LEMMA CatcherGoes ==
  ASSUME IgTyped, Linked, NEW h \in IgHandlers, NEW c, catching' = [catching EXCEPT ![h] = c],
         c.at \in {"lead", "newlead", "remember"} => c.link \in DOMAIN links,
         links' = links, contexts' = contexts, hooks' = hooks, replying' = replying
  PROVE  Linked'
<1>1. DOMAIN catching = IgHandlers
  BY DEF IgTyped
<1>2. \A g \in IgHandlers : catching'[g].at \in {"lead", "newlead", "remember"} => catching'[g].link \in DOMAIN links'
  BY <1>1 DEF Linked
<1> QED BY <1>2 DEF Linked

LEMMA LinkedCatches ==
  ASSUME IgTyped, Linked, NEW h \in IgHandlers, Insta!CatchStep(h) \/ \E i \in Insta!Items : Insta!Catch(h, i)
  PROVE  Linked'
<1>1. PICK old \in Catcher : old = catching[h]
  BY DEF IgTyped
<1>2. PICK none : none = Insta!NotCatching
  OBVIOUS
<1>3. none.at = "idle" /\ none = [at |-> "idle", item |-> NoItem, lead |-> 0, link |-> 0]
  BY <1>2 DEF Insta!NotCatching
<1>4. DOMAIN catching = IgHandlers
  BY DEF IgTyped
<1>5. ASSUME NEW i, Insta!Catch(h, i) PROVE Linked'
  <2>1. PICK c : c = [none EXCEPT !.at = "account", !.item = i]
    OBVIOUS
  <2>2. c.at = "account"
    BY <1>3, <2>1
  <2>3. /\ catching' = [catching EXCEPT ![h] = c]
        /\ links' = links /\ contexts' = contexts /\ hooks' = hooks /\ replying' = replying
    BY <1>2, <1>5, <2>1 DEF Insta!Catch, Insta!memory
  <2> QED BY <2>2, <2>3, CatcherGoes
<1>6. CASE Insta!FindLink(h)
  <2>0. links' = links /\ contexts' = contexts /\ hooks' = hooks /\ replying' = replying
    BY <1>6 DEF Insta!FindLink, Insta!memory, Insta!outside
  <2>1. CASE catching' = [catching EXCEPT ![h] = Insta!NotCatching]
    BY <1>2, <1>3, <2>0, <2>1, CatcherGoes
  <2>2. ASSUME NEW k \in DOMAIN links, catching' = [catching EXCEPT ![h].at = "lead", ![h].link = k] PROVE Linked'
    <3>1. PICK c : c = [old EXCEPT !.at = "lead", !.link = k]
      OBVIOUS
    <3>2. c.link = k
      BY <1>1, <3>1 DEF Catcher
    <3>3. catching' = [catching EXCEPT ![h] = c]
      BY <1>1, <1>4, <2>2, <3>1
    <3> QED BY <2>0, <3>2, <3>3, CatcherGoes
  <2> QED BY <1>6, <2>1, <2>2 DEF Insta!FindLink
<1>7. CASE Insta!FindIgLead(h) \/ Insta!CreateIgLead(h)
  <2>0. links' = links /\ contexts' = contexts /\ hooks' = hooks /\ replying' = replying
    BY <1>7 DEF Insta!FindIgLead, Insta!CreateIgLead, Insta!memory, Insta!outside
  <2>1. old.link \in DOMAIN links
    BY <1>1, <1>7 DEF Insta!FindIgLead, Insta!CreateIgLead, Linked
  <2>2. CASE catching' = [catching EXCEPT ![h].at = "newlead"]
    <3>1. PICK c : c = [old EXCEPT !.at = "newlead"]
      OBVIOUS
    <3>2. c.link = old.link
      BY <1>1, <3>1 DEF Catcher
    <3>3. catching' = [catching EXCEPT ![h] = c]
      BY <1>1, <1>4, <2>2, <3>1
    <3> QED BY <2>0, <2>1, <3>2, <3>3, CatcherGoes
  <2>3. ASSUME NEW l, catching' = [catching EXCEPT ![h].at = "remember", ![h].lead = l] PROVE Linked'
    <3>1. PICK c : c = [old EXCEPT !.at = "remember", !.lead = l]
      OBVIOUS
    <3>2. c.link = old.link
      BY <1>1, <3>1 DEF Catcher
    <3>3. catching' = [catching EXCEPT ![h] = c]
      BY <1>1, <1>4, <2>3, <3>1
    <3> QED BY <2>0, <2>1, <3>2, <3>3, CatcherGoes
  <2> QED BY <1>7, <2>2, <2>3 DEF Insta!FindIgLead, Insta!CreateIgLead
<1>8. CASE Insta!Remember(h)
  <2>1. PICK x : x = [lead |-> old.lead, item |-> old.item, link |-> old.link]
    OBVIOUS
  <2>2. x.lead = old.lead /\ x.link = old.link
    BY <2>1
  <2>3. /\ contexts' = {y \in contexts : y.lead # x.lead} \cup {x} /\ hooks' = hooks \cup {x.lead}
        /\ links' = links /\ replying' = replying /\ old.at = "remember"
    BY <1>1, <1>8, <2>1, <2>2 DEF Insta!Remember, Insta!outside
  <2>4. x.link \in DOMAIN links
    BY <1>1, <2>2, <2>3 DEF Linked
  <2>5. PICK c : c = [old EXCEPT !.at = "ask"]
    OBVIOUS
  <2>6. c.at = "ask"
    BY <1>1, <2>5 DEF Catcher
  <2>7. catching' = [catching EXCEPT ![h] = c]
    BY <1>1, <1>4, <1>8, <2>5 DEF Insta!Remember
  <2>8. \A g \in IgHandlers : catching'[g].at \in {"lead", "newlead", "remember"} => catching'[g].link \in DOMAIN links'
    BY <1>4, <2>3, <2>6, <2>7 DEF Linked
  <2>9. \A y, z \in contexts' : y.link \in DOMAIN links' /\ (y.lead = z.lead => y = z)
    BY <2>3, <2>4 DEF Linked
  <2>10. replying'.at # "idle" => replying'.lead \in hooks'
    BY <2>3 DEF Linked
  <2> QED BY <2>8, <2>9, <2>10 DEF Linked
<1>9. CASE Insta!AskAi(h) \/ Insta!DropItem(h)
  <2>1. /\ catching' = [catching EXCEPT ![h] = none]
        /\ links' = links /\ contexts' = contexts /\ hooks' = hooks /\ replying' = replying
    BY <1>2, <1>9 DEF Insta!AskAi, Insta!DropItem, Insta!memory, Insta!outside
  <2> QED BY <1>3, <2>1, CatcherGoes
<1> QED BY <1>5, <1>6, <1>7, <1>8, <1>9 DEF Insta!CatchStep

LEMMA LinkedReplies ==
  ASSUME IgTyped, Linked, Insta!ReplyStep
  PROVE  Linked'
<1>1. Insta!NotReplying.at = "idle"
  BY DEF Insta!NotReplying
<1>2. catching' = catching /\ links' = links /\ hooks' = hooks /\ contexts' \subseteq contexts
  BY DEF Insta!ReplyStep, Insta!TakeIgResult, Insta!CallIg, Insta!ReplySent, Insta!ReplyFailed, Insta!LogAndForget,
         Insta!outside, Insta!memory
<1>3. replying'.at # "idle" => replying'.lead \in hooks
  <2>1. ASSUME NEW r \in igResults, Insta!TakeIgResult(r) PROVE replying'.at # "idle" => replying'.lead \in hooks
    <3>1. CASE replying' = replying
      BY <3>1 DEF Linked
    <3>2. CASE \E x \in contexts :
                 /\ x.lead = r.lead /\ r.lead \in hooks
                 /\ replying' = [at |-> "call", item |-> r.item, lead |-> r.lead, to |-> x.item]
      BY <3>2
    <3> QED BY <2>1, <3>1, <3>2 DEF Insta!TakeIgResult
  <2>2. ASSUME NEW at, replying.at # "idle", replying' = [replying EXCEPT !.at = at] PROVE replying'.lead \in hooks
    <3>1. replying'.lead = replying.lead
      BY <2>2 DEF IgTyped, Replier
    <3> QED BY <2>2, <3>1 DEF Linked
  <2>3. CASE Insta!CallIg \/ Insta!ReplySent \/ Insta!ReplyFailed \/ Insta!LogAndForget
    <3>1. replying.at # "idle"
      BY <2>3 DEF Insta!CallIg, Insta!ReplySent, Insta!ReplyFailed, Insta!LogAndForget
    <3>2. replying' = Insta!NotReplying \/ \E at : replying' = [replying EXCEPT !.at = at]
      BY <2>3 DEF Insta!CallIg, Insta!ReplySent, Insta!ReplyFailed, Insta!LogAndForget
    <3> QED BY <1>1, <2>2, <3>1, <3>2
  <2> QED BY <2>1, <2>3 DEF Insta!ReplyStep
<1> QED BY <1>2, <1>3 DEF Linked

LEMMA IgLinkedKept ==
  ASSUME IgInv, IgLinked, Insta!Next \/ UNCHANGED igVars
  PROVE  IgLinked'
<1>0. IgTyped /\ Linked
  BY DEF IgInv, IgLinked, Linked
<1>1. CASE UNCHANGED igVars
  BY <1>1 DEF igVars, IgLinked
<1>2. CASE Insta!Next
  <2>1. igCircuit' \in Insta!Breaker!Circuit
    BY <1>2, IgCircuitGoes
  <2>2. ASSUME DOMAIN links \subseteq DOMAIN links', catching' = catching, contexts' = contexts, hooks' = hooks, replying' = replying
        PROVE  Linked'
    BY <1>0, <2>2 DEF Linked
  <2>3. ASSUME Insta!Link PROVE Linked'
    <3>1. links' = Append(links, TRUE) /\ links \in Seq(BOOLEAN)
      BY <1>0, <2>3 DEF Insta!Link, IgTyped
    <3>2. DOMAIN links \subseteq DOMAIN links'
      BY <3>1
    <3> QED BY <2>2, <2>3, <3>2 DEF Insta!Link, Insta!memory
  <2>4. ASSUME NEW k \in DOMAIN links, Insta!Unlink(k) PROVE Linked'
    BY <2>2, <2>4 DEF Insta!Unlink, Insta!memory
  <2>5. ASSUME Insta!StaffCall \/ Insta!StaffCallEnds \/ Insta!IgWaitOver PROVE Linked'
    BY <2>2, <2>5 DEF Insta!StaffCall, Insta!StaffCallEnds, Insta!IgWaitOver, Insta!memory
  <2>6. ASSUME Insta!Stop PROVE Linked'
    <3>1. contexts' = {} /\ replying' = Insta!NotReplying /\ \A h \in IgHandlers : catching'[h] = Insta!NotCatching
      BY <2>6 DEF Insta!Stop
    <3>2. Insta!NotCatching.at = "idle" /\ Insta!NotReplying.at = "idle"
      BY DEF Insta!NotCatching, Insta!NotReplying
    <3> QED BY <3>1, <3>2 DEF Linked
  <2>7. Linked'
    BY <1>0, <1>2, <2>3, <2>4, <2>5, <2>6, LinkedCatches, LinkedReplies DEF Insta!Next
  <2> QED BY <2>1, <2>7 DEF IgLinked, Linked
<1> QED BY <1>1, <1>2

LEMMA IgLinkedAccounted ==
  ASSUME IgInv, IgLinked
  PROVE  Insta!TypeOK
<1>1. \A x \in contexts : x.lead \in DOMAIN igLeads /\ x.lead \in hooks /\ x.item \in Insta!Items
  BY DEF IgInv, IgTyped
<1>2. replying.at # "idle" => replying.to \in Insta!Items
  BY DEF IgInv, IgTyped
<1> QED BY <1>1, <1>2 DEF IgLinked, Insta!TypeOK
=============================================================================

-------------------------------- MODULE LeadDesk --------------------------------
(***************************************************************************)
(* features/lead: LeadService.  Agents work on leads; a lead that is       *)
(* created is afterwards, and on its own, compared with the others.        *)
(* Leads also arrive through the channels, which compare nothing.          *)
(***************************************************************************)
EXTENDS Naturals, FiniteSets

CONSTANTS
  Leads, Phones, Agents, NoLead,
  LeadStatuses,  \* statuses an agent may set
  MaxMatches     \* duplicates that are recorded at once

VARIABLES
  leadRows,  \* row of each lead, or NoLead
  checking,  \* leads that are yet to be compared
  dupes,     \* lead_duplicates: pairs of leads
  history,   \* lead_status_history: statuses that were changed to, per lead
  desks,     \* what each agent has read and is about to write
  lapses,    \* leads for which a record was not written: an insert failed
  crowded    \* leads that had more duplicates than a search returns

deskVars == <<leadRows, checking, dupes, history, desks, lapses, crowded>>

NoDesk == [at |-> "idle", lead |-> NoLead, op |-> "none", to |-> "none"]

Live(l) == leadRows[l] # NoLead /\ ~leadRows[l].deleted

\* Mutation: only new leads count as duplicates.
MatchesNew(l) == {o \in Leads \ {l} : Live(o) /\ leadRows[o].phone = leadRows[l].phone /\ leadRows[o].status = "new"}

\* The live leads of the same phone; a lead without one is never a match, and
\* e-mail addresses are compared like phones.
Matches(l) == {o \in Leads \ {l} : Live(o) /\ leadRows[o].phone = leadRows[l].phone}

NewLead(p, src) ==
  [phone |-> p, status |-> "new", converted |-> FALSE, deleted |-> FALSE,
   source |-> src, edited |-> FALSE]

-----------------------------------------------------------------------------
\* create and bulkImport, which creates one after another.  The activity that
\* is logged cannot fail the request.
CreateByService(l) ==
  /\ leadRows[l] = NoLead
  /\ \E p \in Phones : leadRows' = [leadRows EXCEPT ![l] = NewLead(p, "service")]
  /\ checking' = checking \cup {l}
  /\ UNCHANGED <<dupes, history, desks, lapses, crowded>>

\* A lead of the WhatsApp or Instagram intake or of the chat widget.
Arrive(l) ==
  /\ leadRows[l] = NoLead
  /\ \E p \in Phones : leadRows' = [leadRows EXCEPT ![l] = NewLead(p, "channel")]
  /\ UNCHANGED <<checking, dupes, history, desks, lapses, crowded>>

\* checkDuplicatesAsync: the first MaxMatches live leads of the phone are
\* recorded, each with a statement of its own; an error ends it.
CheckDuplicates(l) ==
  /\ l \in checking /\ checking' = checking \ {l}
  /\ \E S \in SUBSET Matches(l) :
       /\ Cardinality(S) <= MaxMatches
       /\ dupes' = dupes \cup {{l, o} : o \in S}
       /\ lapses' = IF Cardinality(S) = MaxMatches \/ S = Matches(l) THEN lapses ELSE lapses \cup {l}
  /\ crowded' = IF Cardinality(Matches(l)) > MaxMatches THEN crowded \cup {l} ELSE crowded
  /\ UNCHANGED <<leadRows, history, desks>>

-----------------------------------------------------------------------------
(* Requests of agents: findOne, then an update by id                       *)

Ops == [op : {"update", "remove", "assign", "convert"}, to : {"none"}] \cup [op : {"status"}, to : LeadStatuses]

FindOne(a, l) ==
  /\ desks[a] = NoDesk /\ Live(l)
  /\ \E o \in Ops : desks' = [desks EXCEPT ![a] = [at |-> "write", lead |-> l, op |-> o.op, to |-> o.to]]
  /\ UNCHANGED <<leadRows, checking, dupes, history, lapses, crowded>>

\* The row after an operation; that it was deleted meanwhile is not noticed.
Changed(row, op, to, p) ==
  CASE op = "update"  -> [row EXCEPT !.phone = p, !.edited = TRUE]
    [] op = "remove"  -> [row EXCEPT !.deleted = TRUE]
    [] op = "assign"  -> row  \* the agent is not part of the model
    [] op = "convert" -> [row EXCEPT !.converted = TRUE, !.status = "won"]
    [] op = "status"  -> [row EXCEPT !.status = to]

WriteLead(a) ==
  LET d == desks[a]
  IN  /\ d.at = "write"
      /\ \E p \in Phones : leadRows' = [leadRows EXCEPT ![d.lead] = Changed(@, d.op, d.to, p)]
      /\ desks' = [desks EXCEPT ![a] = IF d.op = "status" THEN [d EXCEPT !.at = "record"] ELSE NoDesk]
      /\ UNCHANGED <<checking, dupes, history, lapses, crowded>>

\* Mutation: only the end of a lead goes into its history.
RecordEnd(a) ==
  LET d == desks[a]
  IN  /\ d.at = "record"
      /\ history' = [history EXCEPT ![d.lead] = IF d.to \in {"lost", "invalid"} THEN @ \cup {d.to} ELSE @]
      /\ desks' = [desks EXCEPT ![a] = NoDesk]
      /\ UNCHANGED <<leadRows, checking, dupes, lapses, crowded>>

\* updateStatus inserts its history record last.
RecordStatus(a) ==
  LET d == desks[a]
  IN  /\ d.at = "record"
      /\ \/ history' = [history EXCEPT ![d.lead] = @ \cup {d.to}] /\ UNCHANGED lapses
         \/ lapses' = lapses \cup {d.lead} /\ UNCHANGED history
      /\ desks' = [desks EXCEPT ![a] = NoDesk]
      /\ UNCHANGED <<leadRows, checking, dupes, crowded>>

Init ==
  /\ leadRows = [l \in Leads |-> NoLead]
  /\ checking = {} /\ dupes = {} /\ lapses = {} /\ crowded = {}
  /\ history = [l \in Leads |-> {}]
  /\ desks = [a \in Agents |-> NoDesk]

Next ==
  \/ \E l \in Leads : CreateByService(l) \/ Arrive(l) \/ CheckDuplicates(l)
  \/ \E a \in Agents : WriteLead(a) \/ RecordStatus(a) \/ \E l \in Leads : FindOne(a, l)

Spec == Init /\ [][Next]_deskVars

-----------------------------------------------------------------------------
TypeOK ==
  /\ \A l \in Leads :
       leadRows[l] = NoLead \/ (leadRows[l].phone \in Phones /\ leadRows[l].status \in LeadStatuses \cup {"new", "won"})
  /\ checking \cup lapses \cup crowded \subseteq {l \in Leads : leadRows[l] # NoLead}
  /\ \A d \in dupes : Cardinality(d) = 2

\* Of two leads that were created with one phone, however closely, at least one
\* finds the other once both have been compared, unless a search met more of them
\* than it returns or an insert failed (each is inserted before it is compared:
\* create, checkDuplicatesAsync).
DuplicatesAreFound ==
  \A l, o \in {x \in Leads : Live(x) /\ leadRows[x].source = "service" /\ ~leadRows[x].edited} \ (checking \cup lapses \cup crowded) :
    l # o /\ leadRows[l].phone = leadRows[o].phone => {l, o} \in dupes

\* The status of a lead is the initial one, that of its conversion, one its
\* history knows, or one that is just being recorded (updateStatus, convert).
StatusIsExplained ==
  \A l \in Leads : leadRows[l] # NoLead /\ l \notin lapses =>
    \/ leadRows[l].status \in {"new"} \cup history[l]
    \/ leadRows[l].status = "won" /\ leadRows[l].converted
    \/ \E a \in Agents : desks[a].lead = l /\ desks[a].at = "record" /\ desks[a].to = leadRows[l].status
=============================================================================

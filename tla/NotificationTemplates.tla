------------------------- MODULE NotificationTemplates -------------------------
(***************************************************************************)
(* The rows of notification_templates and their two doors:                 *)
(*                                                                         *)
(*   - features/notification-templates: TemplateService, which validates a *)
(*     template as a whole, and the previews;                              *)
(*   - features/notifications: the repository, which writes what it gets.  *)
(*                                                                         *)
(* A text is the set of variables it uses, Absent if there is none.        *)
(***************************************************************************)
EXTENDS Naturals, FiniteSets

CONSTANTS
  Templates, Keys, Channels, Variables, Editors, Absent,
  Required,   \* variables that a preview must be given
  Defaulted,  \* variables that have a default value
  NewTexts,   \* texts of a new template, each a function on Channels
  Patches     \* what an update may ask for: values of some fields of a row

VARIABLES
  templates,  \* row of each template, or Absent
  used,       \* templates that a campaign refers to
  edits       \* the update each editor has validated and not yet written

templateVars == <<templates, used, edits>>

Row ==
  [key : Keys, system : BOOLEAN, active : BOOLEAN, enabled : SUBSET Channels,
   text : [Channels -> (SUBSET Variables) \cup {Absent}], defined : SUBSET Variables,
   checked : BOOLEAN]  \* the row as it stands passed the validation

NoEdit == [template |-> Absent, patch |-> <<>>, stale |-> FALSE]

-----------------------------------------------------------------------------
(* Validation and previews                                                 *)

\* validateTemplate: each enabled channel has a text, and every variable such a
\* text uses is defined.
Valid(row) ==
  \A c \in row.enabled : row.text[c] # Absent /\ row.text[c] \subseteq row.defined

\* validateAllVariables: what is required is given, and only what is defined.
Accepts(row, given) ==
  /\ row.defined \cap Required \subseteq given
  /\ given \subseteq row.defined

\* replaceVariables: the placeholders that remain where neither a value nor a
\* default is known.
Remaining(row, c, given) ==
  {v \in row.text[c] : v \notin given /\ ~(v \in row.defined /\ v \in Defaulted)}

\* previewTemplate, and sendTestNotification, which sends nothing.
CanPreview(row, c, given) == c \in row.enabled /\ Accepts(row, given)

-----------------------------------------------------------------------------
(* Operations                                                              *)

\* No other template has the key; the table's unique index sees to it as well.
KeyIsFree(k, t) == ~\E o \in Templates \ {t} : templates[o] # Absent /\ templates[o].key = k

\* A new row gets an id that nothing knows.
Unknown(t) == templates[t] = Absent /\ \A e \in Editors : edits[e].template # t

\* What is written to t makes every update stale that was validated before.
Written(t) == [e \in Editors |-> [edits[e] EXCEPT !.stale = @ \/ edits[e].template = t]]

\* createTemplate of the service.
Create(t) ==
  /\ Unknown(t)
  /\ \E k \in Keys, s \in BOOLEAN, on \in SUBSET Channels, x \in NewTexts, d \in SUBSET Variables :
       LET row == [key |-> k, system |-> s, active |-> TRUE, enabled |-> on, text |-> x, defined |-> d, checked |-> TRUE]
       IN  /\ KeyIsFree(k, t)
           /\ Valid(row)
           /\ templates' = [templates EXCEPT ![t] = row]
  /\ UNCHANGED <<used, edits>>

\* createTemplate of the repository.  Nothing is validated.
Insert(t) ==
  /\ Unknown(t)
  /\ \E k \in Keys, on \in SUBSET Channels, x \in NewTexts, d \in SUBSET Variables :
       /\ KeyIsFree(k, t)
       /\ templates' = [templates EXCEPT ![t] = [key |-> k, system |-> FALSE, active |-> TRUE, enabled |-> on,
                                                 text |-> x, defined |-> d, checked |-> FALSE]]
  /\ UNCHANGED <<used, edits>>

\* A row with what an update asks for in place of what it held.
Patched(p, row) == [f \in DOMAIN p \cup DOMAIN row |-> IF f \in DOMAIN p THEN p[f] ELSE row[f]]

\* updateTemplate up to the write: a system template is refused; content is
\* validated together with what the row holds.
Content == {"enabled", "text", "defined"}

\* The row once the update is written: new content is as valid as it was said to be.
Rewritten(p, row, valid) ==
  [Patched(p, row) EXCEPT !.checked = valid \/ (row.checked /\ DOMAIN p \cap Content = {})]

\* Mutation: the patch is validated without what the row holds.
PrepareAlone(e, t, p) ==
  /\ edits[e] = NoEdit
  /\ templates[t] # Absent /\ ~templates[t].system
  /\ "key" \in DOMAIN p => KeyIsFree(p["key"], t)
  /\ "enabled" \in DOMAIN p => Valid(Patched(p, templates[t]))
  /\ edits' = [edits EXCEPT ![e] = [template |-> t, patch |-> p, stale |-> FALSE]]
  /\ UNCHANGED <<templates, used>>

Prepare(e, t, p) ==
  /\ edits[e] = NoEdit
  /\ templates[t] # Absent /\ ~templates[t].system
  /\ "key" \in DOMAIN p => KeyIsFree(p["key"], t)
  /\ DOMAIN p \cap Content # {} => Valid(Patched(p, templates[t]))
  /\ edits' = [edits EXCEPT ![e] = [template |-> t, patch |-> p, stale |-> FALSE]]
  /\ UNCHANGED <<templates, used>>

\* The write of an update.  It ends in an error if the row is gone or the key
\* was taken meanwhile.
Update(e) ==
  LET t == edits[e].template
      p == edits[e].patch
      whole == DOMAIN p \cap Content # {} /\ ~edits[e].stale
  IN  /\ edits[e] # NoEdit
      /\ IF templates[t] # Absent /\ ("key" \in DOMAIN p => KeyIsFree(p["key"], t))
         THEN /\ templates' = [templates EXCEPT ![t] = Rewritten(p, templates[t], whole)]
              /\ edits' = [Written(t) EXCEPT ![e] = NoEdit]
         ELSE edits' = [edits EXCEPT ![e] = NoEdit] /\ UNCHANGED templates
      /\ UNCHANGED used

\* updateTemplate of the repository: any row, and nothing is validated.
Overwrite(t, p) ==
  /\ templates[t] # Absent /\ "key" \notin DOMAIN p
  /\ templates' = [templates EXCEPT ![t] = Rewritten(p, templates[t], FALSE)]
  /\ edits' = Written(t)
  /\ UNCHANGED used

\* deleteTemplate of the service refuses system templates, that of the
\* repository does not; a row a campaign refers to cannot be deleted.
Delete(t) ==
  /\ templates[t] # Absent /\ t \notin used
  /\ templates' = [templates EXCEPT ![t] = Absent]
  /\ edits' = Written(t)
  /\ UNCHANGED used

\* bulkAction: system templates can be switched but not deleted; one row that
\* cannot be deleted fails the whole statement.
Bulk(S) ==
  /\ S # {} /\ \A t \in S : templates[t] # Absent
  /\ \/ \E on \in BOOLEAN :
          templates' = [t \in Templates |-> IF t \in S THEN [templates[t] EXCEPT !.active = on] ELSE templates[t]]
     \/ /\ \A t \in S : ~templates[t].system /\ t \notin used
        /\ templates' = [t \in Templates |-> IF t \in S THEN Absent ELSE templates[t]]
  /\ edits' = [e \in Editors |-> [edits[e] EXCEPT !.stale = @ \/ edits[e].template \in S]]
  /\ UNCHANGED used

\* A campaign starts or ceases to refer to a template.
Refer(t) ==
  /\ templates[t] # Absent
  /\ used' = IF t \in used THEN used \ {t} ELSE used \cup {t}
  /\ UNCHANGED <<templates, edits>>

Init ==
  /\ templates = [t \in Templates |-> Absent]
  /\ used = {}
  /\ edits = [e \in Editors |-> NoEdit]

\* The routes.  A clone is refused by the database: the controller names a
\* creator that is no id.
Next ==
  \/ \E t \in Templates :
       Create(t) \/ Insert(t) \/ Delete(t) \/ Refer(t) \/ \E p \in Patches : Overwrite(t, p)
  \/ \E e \in Editors : Update(e) \/ \E t \in Templates, p \in Patches : Prepare(e, t, p)
  \/ \E S \in SUBSET Templates : Bulk(S)

Spec == Init /\ [][Next]_templateVars

-----------------------------------------------------------------------------
\* The variables hold what they are meant to hold.
TypeOK ==
  /\ \A t \in Templates : templates[t] = Absent \/ templates[t] \in Row
  /\ used \subseteq {t \in Templates : templates[t] # Absent}
  /\ \A e \in Editors : edits[e] = NoEdit \/ edits[e].template \in Templates

\* A template is valid unless the repository wrote its content, or an update
\* was overtaken by another write after it was validated (updateTemplate).
CheckedIsValid ==
  \A t \in Templates : templates[t] # Absent /\ templates[t].checked => Valid(templates[t])

\* A preview of such a template leaves no placeholder, except of variables that
\* are optional and have no default (previewTemplate).
PreviewIsComplete ==
  \A t \in Templates : templates[t] # Absent /\ templates[t].checked =>
    \A c \in templates[t].enabled, given \in SUBSET Variables :
      CanPreview(templates[t], c, given) =>
        Remaining(templates[t], c, given) \cap (Required \cup Defaulted) = {}
=============================================================================

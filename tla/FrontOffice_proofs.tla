--------------------------- MODULE FrontOffice_proofs ---------------------------
(***************************************************************************)
(* What the services that answer people keep, for any numbers of messages, *)
(* handlers, consumers, callers and visitors, however often a message is   *)
(* delivered and whatever the workflows are.                               *)
(*                                                                         *)
(* First MessagePipeline by itself: the steps of the intake and those of   *)
(* the workflows write different variables, so each half has an invariant  *)
(* of its own; the two meet in what was asked and answered about a         *)
(* message, and in a stop.  Then that all this is kept beside the other    *)
(* services, and that what notifications and the chat widget tell people   *)
(* is so.                                                                  *)
(***************************************************************************)
EXTENDS FrontOffice, FiniteSetTheorems, SequenceTheorems, TLAPS

-----------------------------------------------------------------------------
(* The circuit.                                                            *)

\* What the operators of the circuit return is a circuit.
LEMMA CircuitGoesOn ==
  ASSUME NEW c \in Breaker!Circuit
  PROVE  /\ Breaker!Fresh \in Breaker!Circuit
         /\ Breaker!Entered(c) \in Breaker!Circuit
         /\ Breaker!Good(c) \in Breaker!Circuit
         /\ Breaker!Bad(c) \in Breaker!Circuit
         /\ [c EXCEPT !.recent = FALSE] \in Breaker!Circuit
<1> DEFINE top == Breaker!Ceiling
<1>1. top \in Nat
  BY PipelineAssumption DEF Breaker!Ceiling
<1>2. c.state \in Breaker!CircuitStates /\ c.failures \in 0..top /\ c.successes \in 0..top /\ c.recent \in BOOLEAN
  BY DEF Breaker!Circuit
<1>3. \A n \in 0..top : Breaker!Bump(n) \in 0..top
  BY <1>1 DEF Breaker!Bump
<1>4. 0 \in 0..top
  BY <1>1
<1> HIDE DEF top
<1>5. Breaker!Circuit = [state : Breaker!CircuitStates, failures : 0..top, successes : 0..top, recent : BOOLEAN]
  BY DEF top, Breaker!Circuit
<1>6. Breaker!Fresh \in Breaker!Circuit
  BY <1>4, <1>5 DEF Breaker!Fresh, Breaker!CircuitStates
<1>7. Breaker!Entered(c) \in Breaker!Circuit
  BY <1>2, <1>5 DEF Breaker!Entered, Breaker!CircuitStates
<1>8. Breaker!Good(c) \in Breaker!Circuit
  <2> DEFINE n == Breaker!Bump(c.successes)
             closed == c.state = "CLOSED" \/ (c.state = "HALF_OPEN" /\ n >= SuccessThreshold)
             st == IF closed THEN "CLOSED" ELSE c.state
             su == IF closed /\ n > ResetAfter THEN 0 ELSE n
             re == c.recent /\ ~(closed /\ n > ResetAfter)
  <2>1. st \in Breaker!CircuitStates
    BY <1>2 DEF Breaker!CircuitStates
  <2>2. su \in 0..top
    BY <1>2, <1>3, <1>4
  <2>3. re \in BOOLEAN
    BY <1>2
  <2>4. Breaker!Good(c) = [state |-> st, failures |-> 0, successes |-> su, recent |-> re]
    BY DEF Breaker!Good
  <2> HIDE DEF st, su, re
  <2> QED BY <2>1, <2>2, <2>3, <2>4, <1>4, <1>5
<1>9. Breaker!Bad(c) \in Breaker!Circuit
  <2> DEFINE n == Breaker!Bump(c.failures)
             st == IF n >= FailureThreshold THEN "OPEN" ELSE c.state
  <2>1. st \in Breaker!CircuitStates
    BY <1>2 DEF Breaker!CircuitStates
  <2>2. n \in 0..top
    BY <1>2, <1>3
  <2>3. Breaker!Bad(c) = [state |-> st, failures |-> n, successes |-> 0, recent |-> TRUE]
    BY DEF Breaker!Bad
  <2> HIDE DEF st, n
  <2> QED BY <2>1, <2>2, <2>3, <1>4, <1>5
<1>10. [c EXCEPT !.recent = FALSE] \in Breaker!Circuit
  BY <1>2, <1>5
<1> QED BY <1>6, <1>7, <1>8, <1>9, <1>10

-----------------------------------------------------------------------------
(* The intake: steps and types.                                            *)

\* The steps of the intake, one disjunct per action.
LEMMA IntakeCases ==
  ASSUME Intake
  PROVE  \/ \E h \in Handlers :
              \/ Check(h) \/ FindLead(h) \/ CreateLead(h) \/ FindConversation(h)
              \/ CreateConversation(h) \/ Store(h) \/ MarkAsRead(h) \/ Marked(h) \/ Ask(h) \/ GiveUp(h)
         \/ \E h \in Handlers, m \in Messages : Deliver(h, m)
         \/ \E c \in DOMAIN convs : Close(c)
         \/ Cool
         \/ Switch
  BY DEF Intake, Handle

\* What each handler is doing, as far as types go.
HandlersTyped ==
  /\ handlers \in [Handlers -> Handler]
  /\ \A h \in Handlers : handlers[h].at = "idle" <=> handlers[h].msg = Nothing

\* A handler that is at work has a message; the next steps leave it that, and
\* the end takes it away.
LEMMA HandlersGoOn ==
  ASSUME HandlersTyped, NEW h \in Handlers, NEW k \in Handler,
         k.at = "idle" <=> k.msg = Nothing,
         handlers' = [handlers EXCEPT ![h] = k]
  PROVE  HandlersTyped'
  BY DEF HandlersTyped

LEMMA IdleValues ==
  /\ Idle \in Handler /\ Idle.at = "idle" /\ Idle.msg = Nothing /\ Idle.lead = 0 /\ Idle.conv = 0
  /\ \A m \in Messages :
       LET k == [Idle EXCEPT !.at = "check", !.msg = m]
       IN  k \in Handler /\ k.at = "check" /\ k.msg = m
  BY PipelineAssumption DEF Idle, Handler, Steps

\* A handler goes on with the lead, or the conversation, it has found.
GoesToLead(h, step, l) == handlers' = [handlers EXCEPT ![h].at = step, ![h].lead = l]
GoesToConv(h, step, l) == handlers' = [handlers EXCEPT ![h].at = step, ![h].conv = l]

\* What a step does to the handler that takes it: a record k for which the
\* step's clauses hold, with all the others as they were.
LEMMA HandlerSteps ==
  ASSUME HandlersTyped, NEW h \in Handlers
  PROVE  /\ \A step \in Steps : Goes(h, step) =>
              \E k \in Handler : /\ k.at = step /\ k.msg = handlers[h].msg
                                 /\ k.lead = handlers[h].lead /\ k.conv = handlers[h].conv
                                 /\ handlers' = [handlers EXCEPT ![h] = k]
         /\ \A step \in Steps, l \in Nat : GoesToLead(h, step, l) =>
              \E k \in Handler : /\ k.at = step /\ k.msg = handlers[h].msg
                                 /\ k.lead = l /\ k.conv = handlers[h].conv
                                 /\ handlers' = [handlers EXCEPT ![h] = k]
         /\ \A step \in Steps, l \in Nat : GoesToConv(h, step, l) =>
              \E k \in Handler : /\ k.at = step /\ k.msg = handlers[h].msg
                                 /\ k.lead = handlers[h].lead /\ k.conv = l
                                 /\ handlers' = [handlers EXCEPT ![h] = k]
         /\ Ends(h) =>
              \E k \in Handler : /\ k.at = "idle" /\ k.msg = Nothing
                                 /\ k.lead = 0 /\ k.conv = 0
                                 /\ handlers' = [handlers EXCEPT ![h] = k]
<1>1. handlers[h] \in Handler /\ handlers \in [Handlers -> Handler]
  BY DEF HandlersTyped
<1>2. ASSUME NEW step \in Steps, Goes(h, step)
      PROVE  \E k \in Handler : /\ k.at = step /\ k.msg = handlers[h].msg
                                /\ k.lead = handlers[h].lead /\ k.conv = handlers[h].conv
                                /\ handlers' = [handlers EXCEPT ![h] = k]
  <2> DEFINE k == [handlers[h] EXCEPT !.at = step]
  <2>1. /\ k \in Handler /\ k.at = step /\ k.msg = handlers[h].msg
        /\ k.lead = handlers[h].lead /\ k.conv = handlers[h].conv
    BY <1>1 DEF Handler
  <2>2. handlers' = [handlers EXCEPT ![h] = k]
    BY <1>1, <1>2 DEF Goes
  <2> HIDE DEF k
  <2> QED BY <2>1, <2>2
<1>3. ASSUME NEW step \in Steps, NEW l \in Nat, GoesToLead(h, step, l)
      PROVE  \E k \in Handler : /\ k.at = step /\ k.msg = handlers[h].msg
                                /\ k.lead = l /\ k.conv = handlers[h].conv
                                /\ handlers' = [handlers EXCEPT ![h] = k]
  <2> DEFINE k == [handlers[h] EXCEPT !.at = step, !.lead = l]
  <2>1. /\ k \in Handler /\ k.at = step /\ k.msg = handlers[h].msg
        /\ k.lead = l /\ k.conv = handlers[h].conv
    BY <1>1 DEF Handler
  <2>2. handlers' = [handlers EXCEPT ![h] = k]
    BY <1>1, <1>3 DEF GoesToLead
  <2> HIDE DEF k
  <2> QED BY <2>1, <2>2
<1>4. ASSUME NEW step \in Steps, NEW l \in Nat, GoesToConv(h, step, l)
      PROVE  \E k \in Handler : /\ k.at = step /\ k.msg = handlers[h].msg
                                /\ k.lead = handlers[h].lead /\ k.conv = l
                                /\ handlers' = [handlers EXCEPT ![h] = k]
  <2> DEFINE k == [handlers[h] EXCEPT !.at = step, !.conv = l]
  <2>1. /\ k \in Handler /\ k.at = step /\ k.msg = handlers[h].msg
        /\ k.lead = handlers[h].lead /\ k.conv = l
    BY <1>1 DEF Handler
  <2>2. handlers' = [handlers EXCEPT ![h] = k]
    BY <1>1, <1>4 DEF GoesToConv
  <2> HIDE DEF k
  <2> QED BY <2>1, <2>2
<1>5. ASSUME Ends(h)
      PROVE  \E k \in Handler : /\ k.at = "idle" /\ k.msg = Nothing
                                /\ k.lead = 0 /\ k.conv = 0
                                /\ handlers' = [handlers EXCEPT ![h] = k]
  BY <1>5, IdleValues DEF Ends
<1> QED BY <1>2, <1>3, <1>4, <1>5

\* The parts of the types apart from the handlers.
RowsTyped ==
  /\ leads \in Seq(Contacts)
  /\ convs \in Seq([lead : Nat, active : BOOLEAN])
  /\ rows \in [Messages -> Rows \cup {Nothing}]

RestTyped ==
  /\ connected \in BOOLEAN /\ dropped \subseteq Messages
  /\ circuit \in Breaker!Circuit
  /\ asked \in [Messages -> Nat]
  /\ most \in Nat

LEMMA TypedParts == IntakeTyped <=> HandlersTyped /\ RowsTyped /\ RestTyped
  BY DEF IntakeTyped, HandlersTyped, RowsTyped, RestTyped

LEMMA InitIntakeTyped == IntakeInit => IntakeTyped
<1> SUFFICES ASSUME IntakeInit PROVE IntakeTyped
  OBVIOUS
<1>1. Breaker!Fresh \in Breaker!Circuit
  BY PipelineAssumption DEF Breaker!Fresh, Breaker!Circuit, Breaker!CircuitStates, Breaker!Ceiling
<1>2. circuit \in Breaker!Circuit
  BY <1>1, CircuitGoesOn DEF IntakeInit
<1>3. HandlersTyped
  BY IdleValues DEF IntakeInit, HandlersTyped
<1> QED BY <1>3, <1>2, TypedParts DEF IntakeInit, RowsTyped, RestTyped

LEMMA NextHandlersTyped ==
  ASSUME IntakeTyped, Intake \/ IntakeCrash
  PROVE  HandlersTyped'
<1> USE TypedParts DEF RowsTyped
<1>1. ASSUME NEW h \in Handlers, NEW step \in Steps \ {"idle"}, ~At(h, "idle"),
             \/ Goes(h, step)
             \/ \E l \in Nat : GoesToLead(h, step, l) \/ GoesToConv(h, step, l)
      PROVE  HandlersTyped'
  <2>1. handlers[h].msg # Nothing
    BY <1>1 DEF HandlersTyped, At
  <2>2. PICK k \in Handler : k.at = step /\ k.msg = handlers[h].msg /\ handlers' = [handlers EXCEPT ![h] = k]
    BY <1>1, HandlerSteps
  <2> QED BY <2>1, <2>2, HandlersGoOn
<1>2. ASSUME NEW h \in Handlers, Ends(h)
      PROVE  HandlersTyped'
  <2>1. PICK k \in Handler : k.at = "idle" /\ k.msg = Nothing /\ handlers' = [handlers EXCEPT ![h] = k]
    BY <1>2, HandlerSteps
  <2> QED BY <2>1, HandlersGoOn
<1>3. ASSUME NEW h \in Handlers, Check(h) \/ Store(h) \/ MarkAsRead(h) \/ Marked(h) \/ Ask(h) \/ GiveUp(h)
      PROVE  HandlersTyped'
  BY <1>1, <1>2, <1>3 DEF Check, Store, MarkAsRead, Marked, Ask, GiveUp, At, Steps
<1>4. ASSUME NEW h \in Handlers, FindLead(h)
      PROVE  HandlersTyped'
  <2>1. CASE Goes(h, "newlead")
    BY <1>1, <1>4, <2>1 DEF FindLead, At, Steps
  <2>2. CASE \E l \in LeadsOf(Sender[handlers[h].msg]) : handlers' = [handlers EXCEPT ![h].at = "conversation", ![h].lead = l]
    <3>1. PICK l \in LeadsOf(Sender[handlers[h].msg]) : GoesToLead(h, "conversation", l)
      BY <2>2 DEF GoesToLead
    <3>2. l \in Nat
      BY DEF LeadsOf
    <3> QED BY <1>1, <1>4, <3>1, <3>2 DEF FindLead, At, Steps
  <2> QED BY <1>4, <2>1, <2>2 DEF FindLead
<1>5. ASSUME NEW h \in Handlers, CreateLead(h)
      PROVE  HandlersTyped'
  <2>1. Len(leads) + 1 \in Nat /\ GoesToLead(h, "conversation", Len(leads) + 1)
    BY <1>5 DEF CreateLead, GoesToLead
  <2> QED BY <1>1, <1>5, <2>1 DEF CreateLead, At, Steps
<1>6. ASSUME NEW h \in Handlers, FindConversation(h)
      PROVE  HandlersTyped'
  <2>1. CASE Goes(h, "newconversation")
    BY <1>1, <1>6, <2>1 DEF FindConversation, At, Steps
  <2>2. CASE \E c \in ActiveOf(handlers[h].lead) : handlers' = [handlers EXCEPT ![h].at = "store", ![h].conv = c]
    <3>1. PICK c \in ActiveOf(handlers[h].lead) : GoesToConv(h, "store", c)
      BY <2>2 DEF GoesToConv
    <3>2. c \in Nat
      BY DEF ActiveOf
    <3> QED BY <1>1, <1>6, <3>1, <3>2 DEF FindConversation, At, Steps
  <2> QED BY <1>6, <2>1, <2>2 DEF FindConversation
<1>7. ASSUME NEW h \in Handlers, CreateConversation(h)
      PROVE  HandlersTyped'
  <2>1. Len(convs) + 1 \in Nat /\ GoesToConv(h, "store", Len(convs) + 1)
    BY <1>7 DEF CreateConversation, GoesToConv
  <2> QED BY <1>1, <1>7, <2>1 DEF CreateConversation, At, Steps
<1>8. ASSUME NEW h \in Handlers, NEW m \in Messages, Deliver(h, m)
      PROVE  HandlersTyped'
  <2> DEFINE k == [Idle EXCEPT !.at = "check", !.msg = m]
  <2>1. k \in Handler /\ k.at = "check" /\ k.msg = m
    BY IdleValues
  <2>2. handlers' = [handlers EXCEPT ![h] = k]
    BY <1>8 DEF Deliver
  <2> HIDE DEF k
  <2> QED BY <2>1, <2>2, HandlersGoOn, PipelineAssumption
<1>9. ASSUME UNCHANGED handlers
      PROVE  HandlersTyped'
  BY <1>9 DEF HandlersTyped
<1>10. CASE IntakeCrash
  BY <1>10, IdleValues DEF IntakeCrash, HandlersTyped
<1>11. CASE Intake
  <2>1. ASSUME NEW c \in DOMAIN convs, Close(c)
        PROVE  HandlersTyped'
    BY <1>9, <2>1 DEF Close
  <2>2. ASSUME Cool \/ Switch
        PROVE  HandlersTyped'
    BY <1>9, <2>2 DEF Cool, Switch
  <2> QED BY <1>11, <1>3, <1>4, <1>5, <1>6, <1>7, <1>8, <2>1, <2>2, IntakeCases
<1> QED BY <1>10, <1>11

\* One member of a sequence is replaced.
LEMMA ReplacedInSeq ==
  \A S : \A s \in Seq(S) : \A i \in DOMAIN s :
    /\ i \in Nat /\ s[i] \in S
    /\ \A x \in S : LET t == [s EXCEPT ![i] = x]
                   IN  t \in Seq(S) /\ Len(t) = Len(s) /\ DOMAIN t = DOMAIN s
                       /\ \A j \in DOMAIN s : t[j] = IF j = i THEN x ELSE s[j]
  BY ExceptSeq, LenProperties

LEMMA NextRowsTyped ==
  ASSUME IntakeTyped, Intake \/ IntakeCrash
  PROVE  RowsTyped'
<1> USE TypedParts
<1>1. ASSUME UNCHANGED <<leads, convs, rows>>
      PROVE  RowsTyped'
  BY <1>1 DEF RowsTyped
<1>2. ASSUME NEW h \in Handlers, CreateLead(h)
      PROVE  RowsTyped'
  <2>1. handlers[h].msg \in Messages
    BY <1>2 DEF HandlersTyped, Handler, CreateLead, At
  <2>2. Sender[handlers[h].msg] \in Contacts
    BY <2>1, PipelineAssumption
  <2> QED BY <1>2, <2>2 DEF CreateLead, RowsTyped
<1>3. ASSUME NEW h \in Handlers, CreateConversation(h)
      PROVE  RowsTyped'
  <2>1. [lead |-> handlers[h].lead, active |-> TRUE] \in [lead : Nat, active : BOOLEAN]
    BY DEF HandlersTyped, Handler
  <2> QED BY <1>3, <2>1 DEF CreateConversation, RowsTyped
<1>4. ASSUME NEW h \in Handlers, Store(h)
      PROVE  RowsTyped'
  <2> DEFINE row == [lead |-> handlers[h].lead, conv |-> handlers[h].conv]
  <2>1. row \in Rows
    BY DEF HandlersTyped, Handler, Rows
  <2>2. UNCHANGED rows \/ rows' = [rows EXCEPT ![handlers[h].msg] = row]
    BY <1>4 DEF Store
  <2> HIDE DEF row
  <2> QED BY <1>4, <2>1, <2>2 DEF Store, RowsTyped
<1>5. ASSUME NEW c \in DOMAIN convs, Close(c)
      PROVE  RowsTyped'
  <2> DEFINE conv == [convs[c] EXCEPT !.active = FALSE]
  <2>1. convs[c] \in [lead : Nat, active : BOOLEAN]
    BY ReplacedInSeq DEF RowsTyped
  <2>2. conv \in [lead : Nat, active : BOOLEAN]
    BY <2>1
  <2>3. convs' = [convs EXCEPT ![c] = conv]
    BY <1>5 DEF Close
  <2> HIDE DEF conv
  <2>4. convs' \in Seq([lead : Nat, active : BOOLEAN])
    BY <2>2, <2>3, ReplacedInSeq DEF RowsTyped
  <2> QED BY <1>5, <2>4 DEF Close, RowsTyped
<1>6. CASE IntakeCrash
  BY <1>1, <1>6 DEF IntakeCrash
<1>7. CASE Intake
  <2>1. ASSUME NEW h \in Handlers,
               Check(h) \/ FindLead(h) \/ FindConversation(h) \/ MarkAsRead(h) \/ Marked(h) \/ Ask(h) \/ GiveUp(h)
        PROVE  RowsTyped'
    BY <1>1, <2>1 DEF Check, FindLead, FindConversation, MarkAsRead, Marked, Ask, GiveUp
  <2>2. ASSUME NEW h \in Handlers, NEW m \in Messages, Deliver(h, m)
        PROVE  RowsTyped'
    BY <1>1, <2>2 DEF Deliver
  <2>3. ASSUME Cool \/ Switch
        PROVE  RowsTyped'
    BY <1>1, <2>3 DEF Cool, Switch
  <2> QED BY <1>2, <1>3, <1>4, <1>5, <1>7, <2>1, <2>2, <2>3, IntakeCases
<1> QED BY <1>6, <1>7

\* The handlers that are at work are finitely many.
LEMMA AtWorkFinite ==
  /\ IsFiniteSet(AtWork) /\ Cardinality(AtWork) \in Nat
  BY PipelineAssumption, FS_Subset, FS_CardinalityType DEF AtWork

LEMMA NextRestTyped ==
  ASSUME IntakeTyped, Intake \/ IntakeCrash
  PROVE  RestTyped'
<1> USE TypedParts
<1>1. ASSUME UNCHANGED <<connected, dropped, circuit, asked, most>>
      PROVE  RestTyped'
  BY <1>1 DEF RestTyped
<1>2. \A h \in Handlers : ~At(h, "idle") => handlers[h].msg \in Messages
  BY DEF HandlersTyped, Handler, At
<1>3. ASSUME NEW h \in Handlers, Check(h)
      PROVE  RestTyped'
  BY <1>2, <1>3 DEF Check, RestTyped, At
<1>4. ASSUME NEW h \in Handlers, MarkAsRead(h) \/ Marked(h) \/ GiveUp(h)
      PROVE  RestTyped'
  <2>1. circuit' \in Breaker!Circuit
    BY <1>4, CircuitGoesOn DEF MarkAsRead, Marked, GiveUp, RestTyped
  <2>2. dropped' \subseteq Messages
    BY <1>2, <1>4 DEF MarkAsRead, Marked, GiveUp, RestTyped, At
  <2> QED BY <1>4, <2>1, <2>2 DEF MarkAsRead, Marked, GiveUp, RestTyped
<1>5. ASSUME NEW h \in Handlers, Ask(h)
      PROVE  RestTyped'
  BY <1>2, <1>5 DEF Ask, Publish, RestTyped, At
<1>6. ASSUME NEW h \in Handlers, NEW m \in Messages, Deliver(h, m)
      PROVE  RestTyped'
  <2> DEFINE busy == 1 + Cardinality(AtWork)
  <2>1. busy \in Nat
    BY AtWorkFinite
  <2>2. most' = IF busy > most THEN busy ELSE most
    BY <1>6 DEF Deliver, AtWork
  <2> HIDE DEF busy
  <2> QED BY <1>6, <2>1, <2>2 DEF Deliver, RestTyped
<1>7. CASE IntakeCrash
  <2>1. Breaker!Fresh \in Breaker!Circuit
    BY CircuitGoesOn DEF RestTyped
  <2>2. dropped' \subseteq Messages
    BY <1>2, <1>7 DEF IntakeCrash, RestTyped
  <2> QED BY <1>7, <2>1, <2>2 DEF IntakeCrash, RestTyped
<1>8. CASE Intake
  <2>1. ASSUME NEW h \in Handlers,
               FindLead(h) \/ CreateLead(h) \/ FindConversation(h) \/ CreateConversation(h) \/ Store(h)
        PROVE  RestTyped'
    BY <1>1, <2>1 DEF FindLead, CreateLead, FindConversation, CreateConversation, Store
  <2>2. ASSUME NEW c \in DOMAIN convs, Close(c)
        PROVE  RestTyped'
    BY <1>1, <2>2 DEF Close
  <2>3. ASSUME Cool
        PROVE  RestTyped'
    BY <2>3, CircuitGoesOn DEF Cool, RestTyped
  <2>4. ASSUME Switch
        PROVE  RestTyped'
    BY <2>4 DEF Switch, RestTyped
  <2> QED BY <1>3, <1>4, <1>5, <1>6, <1>8, <2>1, <2>2, <2>3, <2>4, IntakeCases
<1> QED BY <1>7, <1>8

\* The types hold in every step of the intake.
LEMMA NextIntakeTyped ==
  ASSUME IntakeTyped, Intake \/ IntakeCrash
  PROVE  IntakeTyped'
<1>1. HandlersTyped' /\ RowsTyped' /\ RestTyped'
  BY NextHandlersTyped, NextRowsTyped, NextRestTyped
<1> QED BY <1>1 DEF IntakeTyped, HandlersTyped, RowsTyped, RestTyped

-----------------------------------------------------------------------------
(* The intake: what a handler knows, and that a message is asked about once. *)

\* What a step of the handler h does, if it leaves h as k.
Advance(h, k) ==
  /\ UNCHANGED most
  /\ \/ /\ k.at = "idle" /\ k.msg = Nothing
        /\ UNCHANGED asked \/ (At(h, "ask") /\ Publish(handlers[h].msg))
        /\ UNCHANGED <<leads, convs, rows>>
     \/ /\ k.msg = handlers[h].msg
        /\ \/ /\ At(h, "check") /\ k.at = "lead"
              /\ UNCHANGED <<leads, convs, rows, asked>>
           \/ /\ At(h, "lead") /\ k.at = "conversation" /\ k.lead \in LeadsOf(Sender[k.msg])
              /\ UNCHANGED <<leads, convs, rows, asked>>
           \/ /\ At(h, "lead") /\ k.at = "newlead" /\ LeadsOf(Sender[k.msg]) = {}
              /\ UNCHANGED <<leads, convs, rows, asked>>
           \/ /\ At(h, "newlead") /\ k.at = "conversation" /\ k.lead = Len(leads) + 1
              /\ leads' = Append(leads, Sender[k.msg])
              /\ UNCHANGED <<convs, rows, asked>>
           \/ /\ At(h, "conversation") /\ k.at = "store" /\ k.lead = handlers[h].lead
              /\ k.conv \in ActiveOf(k.lead)
              /\ UNCHANGED <<leads, convs, rows, asked>>
           \/ /\ At(h, "conversation") /\ k.at = "newconversation" /\ k.lead = handlers[h].lead
              /\ ActiveOf(k.lead) = {}
              /\ UNCHANGED <<leads, convs, rows, asked>>
           \/ /\ At(h, "newconversation") /\ k.at = "store" /\ k.lead = handlers[h].lead
              /\ k.conv = Len(convs) + 1
              /\ convs' = Append(convs, [lead |-> k.lead, active |-> TRUE])
              /\ UNCHANGED <<leads, rows, asked>>
           \/ /\ At(h, "store") /\ k.at = "mark" /\ rows[k.msg] = Nothing
              /\ rows' = [rows EXCEPT ![k.msg] = [lead |-> handlers[h].lead, conv |-> handlers[h].conv]]
              /\ UNCHANGED <<leads, convs, asked>>
           \/ /\ At(h, "mark") /\ k.at = "marking"
              /\ UNCHANGED <<leads, convs, rows, asked>>
           \/ /\ At(h, "marking") /\ k.at = "ask"
              /\ UNCHANGED <<leads, convs, rows, asked>>

\* Every step of a handler is one of these.
LEMMA HandleCases ==
  ASSUME IntakeTyped, NEW h \in Handlers, Handle(h)
  PROVE  /\ handlers[h].msg \in Messages
         /\ \E k \in Handler : handlers' = [handlers EXCEPT ![h] = k] /\ Advance(h, k)
<1> USE TypedParts
<1> DEFINE Goal == \E k \in Handler : handlers' = [handlers EXCEPT ![h] = k] /\ Advance(h, k)
<1>1. handlers[h].msg \in Messages
  BY DEF Handle, Check, FindLead, CreateLead, FindConversation, CreateConversation, Store, MarkAsRead,
         Marked, Ask, GiveUp, At, HandlersTyped, Handler
<1>2. ASSUME NEW step \in Steps, Goes(h, step),
             \A k : k.at = step /\ k.msg = handlers[h].msg /\ k.lead = handlers[h].lead => Advance(h, k)
      PROVE  Goal
  <2>1. PICK k \in Handler : /\ k.at = step /\ k.msg = handlers[h].msg /\ k.lead = handlers[h].lead
                             /\ handlers' = [handlers EXCEPT ![h] = k]
    BY <1>2, HandlerSteps
  <2> QED BY <1>2, <2>1
<1>3. ASSUME Ends(h),
             \A k : k.at = "idle" /\ k.msg = Nothing => Advance(h, k)
      PROVE  Goal
  <2>1. PICK k \in Handler : k.at = "idle" /\ k.msg = Nothing /\ handlers' = [handlers EXCEPT ![h] = k]
    BY <1>3, HandlerSteps
  <2> QED BY <1>3, <2>1
<1>4. ASSUME Check(h) PROVE Goal
  BY <1>2, <1>3, <1>4 DEF Check, Steps, Advance
<1>5. ASSUME FindLead(h) PROVE Goal
  <2>1. CASE Goes(h, "newlead") /\ LeadsOf(Sender[handlers[h].msg]) = {}
    BY <1>2, <1>5, <2>1 DEF FindLead, Steps, Advance
  <2>2. CASE \E l \in LeadsOf(Sender[handlers[h].msg]) : handlers' = [handlers EXCEPT ![h].at = "conversation", ![h].lead = l]
    <3>1. PICK l \in LeadsOf(Sender[handlers[h].msg]) : GoesToLead(h, "conversation", l)
      BY <2>2 DEF GoesToLead
    <3>2. l \in Nat
      BY DEF LeadsOf, RowsTyped
    <3>3. PICK k \in Handler : k.at = "conversation" /\ k.msg = handlers[h].msg /\ k.lead = l
                               /\ handlers' = [handlers EXCEPT ![h] = k]
      BY <3>1, <3>2, HandlerSteps DEF Steps
    <3> QED BY <1>5, <3>1, <3>3 DEF FindLead, Advance
  <2> QED BY <1>5, <2>1, <2>2 DEF FindLead
<1>6. ASSUME CreateLead(h) PROVE Goal
  <2>1. Len(leads) + 1 \in Nat /\ GoesToLead(h, "conversation", Len(leads) + 1)
    BY <1>6 DEF CreateLead, GoesToLead, RowsTyped
  <2>2. PICK k \in Handler : k.at = "conversation" /\ k.msg = handlers[h].msg /\ k.lead = Len(leads) + 1
                             /\ handlers' = [handlers EXCEPT ![h] = k]
    BY <2>1, HandlerSteps DEF Steps
  <2> QED BY <1>6, <2>2 DEF CreateLead, Advance
<1>7. ASSUME FindConversation(h) PROVE Goal
  <2>1. CASE Goes(h, "newconversation") /\ ActiveOf(handlers[h].lead) = {}
    BY <1>2, <1>7, <2>1 DEF FindConversation, Steps, Advance
  <2>2. CASE \E c \in ActiveOf(handlers[h].lead) : handlers' = [handlers EXCEPT ![h].at = "store", ![h].conv = c]
    <3>1. PICK c \in ActiveOf(handlers[h].lead) : GoesToConv(h, "store", c)
      BY <2>2 DEF GoesToConv
    <3>2. c \in Nat
      BY DEF ActiveOf, RowsTyped
    <3>3. PICK k \in Handler : k.at = "store" /\ k.msg = handlers[h].msg /\ k.lead = handlers[h].lead /\ k.conv = c
                               /\ handlers' = [handlers EXCEPT ![h] = k]
      BY <3>1, <3>2, HandlerSteps DEF Steps
    <3> QED BY <1>7, <3>1, <3>3 DEF FindConversation, Advance
  <2> QED BY <1>7, <2>1, <2>2 DEF FindConversation
<1>8. ASSUME CreateConversation(h) PROVE Goal
  <2>1. Len(convs) + 1 \in Nat /\ GoesToConv(h, "store", Len(convs) + 1)
    BY <1>8 DEF CreateConversation, GoesToConv, RowsTyped
  <2>2. PICK k \in Handler : k.at = "store" /\ k.msg = handlers[h].msg /\ k.lead = handlers[h].lead
                             /\ k.conv = Len(convs) + 1 /\ handlers' = [handlers EXCEPT ![h] = k]
    BY <2>1, HandlerSteps DEF Steps
  <2> QED BY <1>8, <2>2 DEF CreateConversation, Advance
<1>9. ASSUME Store(h) PROVE Goal
  <2>1. CASE rows[handlers[h].msg] = Nothing
    BY <1>2, <1>9, <2>1 DEF Store, Steps, Advance
  <2>2. CASE rows[handlers[h].msg] # Nothing
    BY <1>3, <1>9, <2>2 DEF Store, Steps, Advance
  <2> QED BY <2>1, <2>2
<1>10. ASSUME MarkAsRead(h) \/ Marked(h) PROVE Goal
  BY <1>2, <1>3, <1>10 DEF MarkAsRead, Marked, Steps, Advance
<1>11. ASSUME Ask(h) \/ GiveUp(h) PROVE Goal
  BY <1>3, <1>11 DEF Ask, GiveUp, Advance
<1>12. Goal
  BY <1>4, <1>5, <1>6, <1>7, <1>8, <1>9, <1>10, <1>11 DEF Handle
<1> QED BY <1>1, <1>12

\* The rest of the intake writes neither the leads nor what was asked.
LEMMA OtherCases ==
  ASSUME IntakeTyped, Intake \/ IntakeCrash
  PROVE  \/ \E h \in Handlers : Handle(h)
         \/ \E h \in Handlers, m \in Messages : Deliver(h, m)
         \/ \E c \in DOMAIN convs : Close(c)
         \/ UNCHANGED <<leads, convs, rows, asked, handlers, most>>
         \/ IntakeCrash
  BY DEF Intake, Cool, Switch

\* No lead and no conversation is forgotten, and a lead stays one of its phone,
\* a conversation one of its lead.
LEMMA NothingForgotten ==
  ASSUME IntakeTyped, Intake \/ IntakeCrash
  PROVE  /\ DOMAIN leads \subseteq DOMAIN leads' /\ \A i \in DOMAIN leads : leads'[i] = leads[i]
         /\ DOMAIN convs \subseteq DOMAIN convs' /\ \A i \in DOMAIN convs : convs'[i].lead = convs[i].lead
<1> DEFINE Kept == /\ DOMAIN leads \subseteq DOMAIN leads' /\ \A i \in DOMAIN leads : leads'[i] = leads[i]
                   /\ DOMAIN convs \subseteq DOMAIN convs' /\ \A i \in DOMAIN convs : convs'[i].lead = convs[i].lead
<1> USE TypedParts DEF RowsTyped
<1>1. ASSUME UNCHANGED <<leads, convs>> PROVE Kept
  BY <1>1
<1>2. ASSUME NEW h \in Handlers, Handle(h) PROVE Kept
  <2>1. PICK k \in Handler : Advance(h, k)
    BY <1>2, HandleCases
  <2>2. CASE leads' = Append(leads, Sender[k.msg]) /\ UNCHANGED convs
    <3>1. (handlers[h].msg \in Messages /\ k.msg = handlers[h].msg) \/ UNCHANGED leads
      BY <1>2, <2>1, HandleCases DEF Advance
    <3>2. Sender[k.msg] \in Contacts \/ UNCHANGED leads
      BY <3>1, PipelineAssumption
    <3> QED BY <2>2, <3>2
  <2>3. CASE convs' = Append(convs, [lead |-> k.lead, active |-> TRUE]) /\ UNCHANGED leads
    <3>1. [lead |-> k.lead, active |-> TRUE] \in [lead : Nat, active : BOOLEAN]
      BY DEF Handler
    <3> QED BY <2>3, <3>1
  <2> QED BY <2>1, <2>2, <2>3, <1>1 DEF Advance
<1>3. ASSUME NEW c \in DOMAIN convs, Close(c) PROVE Kept
  <2> DEFINE conv == [convs[c] EXCEPT !.active = FALSE]
  <2>1. convs[c] \in [lead : Nat, active : BOOLEAN]
    BY ReplacedInSeq
  <2>2. conv \in [lead : Nat, active : BOOLEAN] /\ conv.lead = convs[c].lead
    BY <2>1
  <2>3. convs' = [convs EXCEPT ![c] = conv]
    BY <1>3 DEF Close
  <2> HIDE DEF conv
  <2>4. DOMAIN convs' = DOMAIN convs /\ \A j \in DOMAIN convs : convs'[j] = IF j = c THEN conv ELSE convs[j]
    BY <2>2, <2>3, ReplacedInSeq
  <2> QED BY <1>3, <2>2, <2>4 DEF Close
<1>4. Kept
  BY <1>1, <1>2, <1>3, OtherCases DEF Deliver, IntakeCrash
<1> QED BY <1>4

\* What the rows refer to is there, and of the right phone.
KnowInv ==
  /\ \A h \in Handlers : Knows(h)
  /\ \A i \in DOMAIN convs : convs[i].lead \in DOMAIN leads
  /\ \A m \in Messages :
       rows[m] # Nothing => /\ rows[m].lead \in DOMAIN leads /\ leads[rows[m].lead] = Sender[m]
                            /\ rows[m].conv \in DOMAIN convs /\ convs[rows[m].conv].lead = rows[m].lead

\* A message is asked about by the handler that stored it, once.
AskInv ==
  /\ \A m \in Messages : asked[m] > 0 => asked[m] = 1 /\ rows[m] # Nothing
  /\ \A h \in Handlers : HasStored(h) => rows[handlers[h].msg] # Nothing /\ asked[handlers[h].msg] = 0
  /\ \A g, h \in Handlers : HasStored(g) /\ HasStored(h) /\ handlers[g].msg = handlers[h].msg => g = h

LEMMA IntakeParts == IntakeInv <=> KnowInv /\ AskInv
  BY DEF IntakeInv, KnowInv, AskInv

\* What a handler that does not move knows stays so.
LEMMA KnowsStays ==
  ASSUME IntakeTyped, Intake \/ IntakeCrash, NEW h \in Handlers, Knows(h), handlers'[h] = handlers[h]
  PROVE  Knows(h)'
  BY NothingForgotten DEF Knows

LEMMA NextKnowInv ==
  ASSUME IntakeTyped, KnowInv, Intake \/ IntakeCrash
  PROVE  KnowInv'
<1> USE TypedParts
<1>1. ASSUME UNCHANGED <<leads, convs, rows, handlers>> PROVE KnowInv'
  BY <1>1 DEF KnowInv, Knows
<1>2. ASSUME UNCHANGED rows
      PROVE  \A m \in Messages :
               rows'[m] # Nothing => /\ rows'[m].lead \in DOMAIN leads' /\ leads'[rows'[m].lead] = Sender[m]
                                     /\ rows'[m].conv \in DOMAIN convs'
                                     /\ convs'[rows'[m].conv].lead = rows'[m].lead
  BY <1>2, NothingForgotten DEF KnowInv
<1>3. ASSUME NEW h \in Handlers, Handle(h) PROVE KnowInv'
  <2>1. PICK k \in Handler : handlers' = [handlers EXCEPT ![h] = k] /\ Advance(h, k)
    BY <1>3, HandleCases
  <2>2. handlers[h].msg \in Messages /\ Sender[handlers[h].msg] \in Contacts
    BY <1>3, HandleCases, PipelineAssumption
  <2>3. handlers'[h] = k /\ \A g \in Handlers \ {h} : handlers'[g] = handlers[g]
    BY <2>1 DEF HandlersTyped
  <2>4. \A g \in Handlers \ {h} : Knows(g)'
    BY <2>3, KnowsStays DEF KnowInv
  <2>5. Knows(h)
    BY DEF KnowInv
  <2>6. CASE UNCHANGED <<leads, convs, rows>>
    <3>1. Knows(h)'
      BY <2>1, <2>3, <2>5, <2>6 DEF Advance, Knows, At, LeadsOf, ActiveOf
    <3> QED BY <2>4, <2>6, <3>1, <1>2 DEF KnowInv
  <2>7. CASE At(h, "newlead") /\ k.at = "conversation" /\ k.lead = Len(leads) + 1 /\ k.msg = handlers[h].msg
             /\ leads' = Append(leads, Sender[k.msg]) /\ UNCHANGED <<convs, rows>>
    <3>1. k.lead \in DOMAIN leads' /\ leads'[k.lead] = Sender[k.msg]
      BY <2>2, <2>7 DEF RowsTyped
    <3>2. Knows(h)'
      BY <2>3, <2>7, <3>1 DEF Knows
    <3>3. \A i \in DOMAIN convs' : convs'[i].lead \in DOMAIN leads'
      BY <2>7, NothingForgotten DEF KnowInv
    <3> QED BY <2>4, <2>7, <3>2, <3>3, <1>2 DEF KnowInv
  <2>8. CASE At(h, "newconversation") /\ k.at = "store" /\ k.lead = handlers[h].lead /\ k.msg = handlers[h].msg
             /\ k.conv = Len(convs) + 1 /\ convs' = Append(convs, [lead |-> k.lead, active |-> TRUE])
             /\ UNCHANGED <<leads, rows>>
    <3> DEFINE conv == [lead |-> k.lead, active |-> TRUE]
    <3>1. conv \in [lead : Nat, active : BOOLEAN] /\ conv.lead = k.lead
      BY DEF Handler
    <3> HIDE DEF conv
    <3>2. convs' = Append(convs, conv)
      BY <2>8 DEF conv
    <3>3. DOMAIN convs' = DOMAIN convs \cup {k.conv} /\ convs'[k.conv] = conv
          /\ \A i \in DOMAIN convs : convs'[i] = convs[i]
      BY <2>8, <3>1, <3>2 DEF RowsTyped
    <3>4. k.lead \in DOMAIN leads' /\ leads'[k.lead] = Sender[k.msg]
      BY <2>5, <2>8 DEF Knows, At
    <3>5. Knows(h)'
      BY <2>3, <2>8, <3>1, <3>3, <3>4 DEF Knows
    <3>6. \A i \in DOMAIN convs' : convs'[i].lead \in DOMAIN leads'
      BY <2>8, <3>1, <3>3, <3>4 DEF KnowInv
    <3> QED BY <2>4, <2>8, <3>5, <3>6, <1>2 DEF KnowInv
  <2>9. CASE At(h, "store") /\ k.at = "mark" /\ k.msg = handlers[h].msg
             /\ rows' = [rows EXCEPT ![k.msg] = [lead |-> handlers[h].lead, conv |-> handlers[h].conv]]
             /\ UNCHANGED <<leads, convs>>
    <3>1. Knows(h)'
      BY <2>3, <2>9 DEF Knows
    <3>2. /\ handlers[h].lead \in DOMAIN leads /\ leads[handlers[h].lead] = Sender[k.msg]
          /\ handlers[h].conv \in DOMAIN convs /\ convs[handlers[h].conv].lead = handlers[h].lead
      BY <2>5, <2>9 DEF Knows, At
    <3>3. /\ rows'[k.msg].lead = handlers[h].lead /\ rows'[k.msg].conv = handlers[h].conv
          /\ \A m \in Messages \ {k.msg} : rows'[m] = rows[m]
      BY <2>2, <2>9 DEF RowsTyped
    <3> QED BY <2>4, <2>9, <3>1, <3>2, <3>3 DEF KnowInv
  <2> QED BY <2>1, <2>6, <2>7, <2>8, <2>9 DEF Advance
<1>4. ASSUME NEW h \in Handlers, NEW m \in Messages, Deliver(h, m) PROVE KnowInv'
  <2> DEFINE k == [Idle EXCEPT !.at = "check", !.msg = m]
  <2>1. k.at = "check"
    BY IdleValues
  <2>2. handlers' = [handlers EXCEPT ![h] = k]
    BY <1>4 DEF Deliver
  <2> HIDE DEF k
  <2>3. handlers'[h] = k /\ \A g \in Handlers \ {h} : handlers'[g] = handlers[g]
    BY <2>2 DEF HandlersTyped
  <2>4. \A g \in Handlers : Knows(g)'
    <3>1. Knows(h)'
      BY <2>1, <2>3 DEF Knows
    <3> QED BY <2>3, <3>1, KnowsStays DEF KnowInv
  <2> QED BY <1>2, <1>4, <2>4 DEF Deliver, KnowInv
<1>5. ASSUME NEW c \in DOMAIN convs, Close(c) PROVE KnowInv'
  <2>1. UNCHANGED <<leads, rows, handlers>>
    BY <1>5 DEF Close
  <2>2. DOMAIN convs' = DOMAIN convs
    BY <1>5 DEF Close, RowsTyped
  <2>3. \A g \in Handlers : Knows(g)'
    BY <2>1, KnowsStays DEF KnowInv
  <2> QED BY <1>2, <2>1, <2>2, <2>3, NothingForgotten DEF KnowInv
<1>6. CASE IntakeCrash
  <2>1. \A g \in Handlers : Knows(g)'
    BY <1>6, IdleValues DEF IntakeCrash, Knows
  <2> QED BY <1>2, <1>6, <2>1 DEF IntakeCrash, KnowInv
<1> QED BY <1>1, <1>3, <1>4, <1>5, <1>6, OtherCases

LEMMA NextAskInv ==
  ASSUME IntakeTyped, AskInv, Intake \/ IntakeCrash
  PROVE  AskInv'
<1> USE TypedParts
<1>1. ASSUME UNCHANGED <<rows, asked>>,
             \A g \in Handlers : HasStored(g)' => HasStored(g) /\ handlers'[g].msg = handlers[g].msg
      PROVE  AskInv'
  BY <1>1 DEF AskInv
<1>2. ASSUME NEW h \in Handlers, Handle(h) PROVE AskInv'
  <2>1. PICK k \in Handler : handlers' = [handlers EXCEPT ![h] = k] /\ Advance(h, k)
    BY <1>2, HandleCases
  <2>2. handlers[h].msg \in Messages
    BY <1>2, HandleCases
  <2>3. handlers'[h] = k /\ \A g \in Handlers \ {h} : handlers'[g] = handlers[g]
    BY <2>1 DEF HandlersTyped
  <2>4. CASE UNCHANGED <<rows, asked>> /\ (k.at \notin {"mark", "marking", "ask"}
                                          \/ (HasStored(h) /\ k.msg = handlers[h].msg))
    BY <1>1, <2>3, <2>4 DEF HasStored
  <2>5. CASE At(h, "store") /\ k.at = "mark" /\ k.msg = handlers[h].msg /\ rows[k.msg] = Nothing
             /\ rows' = [rows EXCEPT ![k.msg] = [lead |-> handlers[h].lead, conv |-> handlers[h].conv]]
             /\ UNCHANGED asked
    <3>1. [lead |-> handlers[h].lead, conv |-> handlers[h].conv] \in Rows
      BY DEF HandlersTyped, Handler, Rows
    <3>2. rows'[k.msg] # Nothing /\ \A m \in Messages \ {k.msg} : rows'[m] = rows[m]
      BY <2>2, <2>5, <3>1, PipelineAssumption DEF RowsTyped
    <3>3. asked[k.msg] = 0 /\ \A g \in Handlers : HasStored(g) => handlers[g].msg # k.msg
      <4>1. k.msg \in Messages /\ asked[k.msg] \in Nat
        BY <2>2, <2>5 DEF RestTyped
      <4>2. ~(asked[k.msg] > 0)
        BY <2>5, <4>1 DEF AskInv
      <4>3. \A g \in Handlers : HasStored(g) => handlers[g].msg # k.msg
        BY <2>5 DEF AskInv
      <4> QED BY <4>1, <4>2, <4>3
    <3>4. \A g \in Handlers : HasStored(g)' => g = h \/ (HasStored(g) /\ handlers'[g].msg = handlers[g].msg)
      BY <2>3 DEF HasStored
    <3>5. \A m \in Messages : asked'[m] > 0 => asked'[m] = 1 /\ rows'[m] # Nothing
      BY <2>5, <3>2 DEF AskInv
    <3>6. \A g \in Handlers : HasStored(g)' => rows'[handlers'[g].msg] # Nothing /\ asked'[handlers'[g].msg] = 0
      <4> SUFFICES ASSUME NEW g \in Handlers, HasStored(g)'
                   PROVE  rows'[handlers'[g].msg] # Nothing /\ asked'[handlers'[g].msg] = 0
        OBVIOUS
      <4>1. CASE g = h
        BY <2>3, <2>5, <3>2, <3>3, <4>1
      <4>2. CASE HasStored(g) /\ handlers'[g].msg = handlers[g].msg
        <5>1. handlers[g].msg \in Messages
          BY <4>2 DEF HasStored, HandlersTyped, Handler
        <5> QED BY <2>5, <3>2, <3>3, <4>2, <5>1 DEF AskInv
      <4> QED BY <3>4, <4>1, <4>2
    <3>7. \A f, g \in Handlers : HasStored(f)' /\ HasStored(g)' /\ handlers'[f].msg = handlers'[g].msg => f = g
      BY <2>3, <2>5, <3>3, <3>4 DEF AskInv
    <3> QED BY <3>5, <3>6, <3>7 DEF AskInv
  <2>6. CASE At(h, "ask") /\ Publish(handlers[h].msg) /\ k.at = "idle" /\ UNCHANGED rows
    <3>1. HasStored(h)
      BY <2>6 DEF HasStored, At
    <3>2. asked[handlers[h].msg] = 0 /\ rows[handlers[h].msg] # Nothing
      BY <3>1 DEF AskInv
    <3>3. asked'[handlers[h].msg] = 1 /\ \A m \in Messages \ {handlers[h].msg} : asked'[m] = asked[m]
      BY <2>2, <2>6, <3>2 DEF Publish, RestTyped
    <3>4. \A g \in Handlers : HasStored(g)' => g # h /\ HasStored(g) /\ handlers'[g].msg = handlers[g].msg
      BY <2>3, <2>6 DEF HasStored
    <3>5. \A g \in Handlers : HasStored(g)' => handlers'[g].msg # handlers[h].msg
      BY <3>1, <3>4 DEF AskInv
    <3>6. \A m \in Messages : asked'[m] > 0 => asked'[m] = 1 /\ rows'[m] # Nothing
      BY <2>6, <3>2, <3>3 DEF AskInv
    <3>7. \A g \in Handlers : HasStored(g)' => rows'[handlers'[g].msg] # Nothing /\ asked'[handlers'[g].msg] = 0
      <4> SUFFICES ASSUME NEW g \in Handlers, HasStored(g)'
                   PROVE  rows'[handlers'[g].msg] # Nothing /\ asked'[handlers'[g].msg] = 0
        OBVIOUS
      <4>1. HasStored(g) /\ handlers'[g].msg = handlers[g].msg /\ handlers[g].msg # handlers[h].msg
        BY <3>4, <3>5
      <4>2. handlers[g].msg \in Messages
        BY <4>1 DEF HasStored, HandlersTyped, Handler
      <4> QED BY <2>6, <3>3, <4>1, <4>2 DEF AskInv
    <3>8. \A f, g \in Handlers : HasStored(f)' /\ HasStored(g)' /\ handlers'[f].msg = handlers'[g].msg => f = g
      BY <3>4 DEF AskInv
    <3> QED BY <3>6, <3>7, <3>8 DEF AskInv
  <2> QED BY <2>1, <2>4, <2>5, <2>6 DEF Advance, HasStored, At
<1>3. ASSUME NEW h \in Handlers, NEW m \in Messages, Deliver(h, m) PROVE AskInv'
  <2> DEFINE k == [Idle EXCEPT !.at = "check", !.msg = m]
  <2>1. k.at = "check"
    BY IdleValues
  <2>2. handlers' = [handlers EXCEPT ![h] = k]
    BY <1>3 DEF Deliver
  <2> HIDE DEF k
  <2>3. handlers'[h] = k /\ \A g \in Handlers \ {h} : handlers'[g] = handlers[g]
    BY <2>2 DEF HandlersTyped
  <2> QED BY <1>1, <1>3, <2>1, <2>3 DEF Deliver, HasStored
<1>4. CASE IntakeCrash
  BY <1>1, <1>4, IdleValues DEF IntakeCrash, HasStored
<1>5. ASSUME NEW c \in DOMAIN convs, Close(c) PROVE AskInv'
  BY <1>1, <1>5 DEF Close, HasStored
<1>6. ASSUME UNCHANGED <<rows, asked, handlers>> PROVE AskInv'
  BY <1>1, <1>6 DEF HasStored
<1> QED BY <1>2, <1>3, <1>4, <1>5, <1>6, OtherCases

\* What was asked is not taken back.
LEMMA AskedGrows ==
  ASSUME IntakeTyped, Intake \/ IntakeCrash
  PROVE  \A m \in Messages : asked[m] <= asked'[m]
<1>1. RestTyped
  BY TypedParts
<1>2. ASSUME NEW h \in Handlers, Handle(h) PROVE \A m \in Messages : asked[m] <= asked'[m]
  <2>1. UNCHANGED asked \/ Publish(handlers[h].msg)
    BY <1>2, HandleCases DEF Advance
  <2> QED BY <1>1, <2>1 DEF Publish, RestTyped
<1>3. ASSUME UNCHANGED asked PROVE \A m \in Messages : asked[m] <= asked'[m]
  BY <1>1, <1>3 DEF RestTyped
<1> QED BY <1>2, <1>3, OtherCases DEF Deliver, Close, IntakeCrash

-----------------------------------------------------------------------------
(* The intake: leads and conversations that are created twice.             *)

\* The positions of a sequence, and any of them, are finitely many.
LEMMA PositionsFinite ==
  \A S : \A s \in Seq(S) : \A T \in SUBSET DOMAIN s : IsFiniteSet(T) /\ Cardinality(T) \in Nat
<1> SUFFICES ASSUME NEW S, NEW s \in Seq(S), NEW T \in SUBSET DOMAIN s
             PROVE  IsFiniteSet(T) /\ Cardinality(T) \in Nat
  OBVIOUS
<1>1. IsFiniteSet(1..Len(s)) /\ DOMAIN s = 1..Len(s)
  BY FS_Interval, LenProperties
<1> QED BY <1>1, FS_Subset, FS_CardinalityType

LEMMA HandlersFinite ==
  \A T \in SUBSET Handlers : IsFiniteSet(T) /\ Cardinality(T) \in Nat
  BY PipelineAssumption, FS_Subset, FS_CardinalityType

\* Fewer positions and fewer handlers make no greater sum.
LEMMA FewerOfBoth ==
  ASSUME NEW S, NEW s \in Seq(S), NEW A \in SUBSET DOMAIN s, NEW B \in SUBSET A,
         NEW C \in SUBSET Handlers, NEW D \in SUBSET C, NEW n \in Nat, NEW o \in Nat, n <= o,
         Cardinality(A) + Cardinality(C) <= n
  PROVE  Cardinality(B) + Cardinality(D) <= o
<1>1. Cardinality(B) <= Cardinality(A) /\ Cardinality(D) <= Cardinality(C)
  BY PositionsFinite, HandlersFinite, FS_Subset
<1>2. Cardinality(A) \in Nat /\ Cardinality(B) \in Nat /\ Cardinality(C) \in Nat /\ Cardinality(D) \in Nat
  BY PositionsFinite, HandlersFinite
<1> QED BY <1>1, <1>2

\* One handler less, and one position more.
LEMMA OneForOne ==
  ASSUME NEW S, NEW s \in Seq(S), NEW A \in SUBSET DOMAIN s, NEW x,
         NEW C \in SUBSET Handlers, NEW h \in C, NEW n \in Nat,
         Cardinality(A) + Cardinality(C) <= n
  PROVE  Cardinality(A \cup {x}) + Cardinality(C \ {h}) <= n
<1>1. IsFiniteSet(A) /\ IsFiniteSet(C) /\ Cardinality(A) \in Nat /\ Cardinality(C) \in Nat
  BY PositionsFinite, HandlersFinite
<1>2. Cardinality(C \ {h}) = Cardinality(C) - 1
  BY <1>1, FS_RemoveElement
<1>3. Cardinality(A \cup {x}) = Cardinality(A) \/ Cardinality(A \cup {x}) = Cardinality(A) + 1
  BY <1>1, FS_AddElement
<1> QED BY <1>1, <1>2, <1>3

\* Where there is nothing yet, the handlers that are at work are the limit.
LEMMA NoneYet ==
  ASSUME NEW W \in SUBSET Handlers, NEW D \in SUBSET W, NEW n \in Nat, Cardinality(W) <= n
  PROVE  Cardinality({}) + Cardinality(D) <= n
<1>1. Cardinality(D) <= Cardinality(W) /\ Cardinality(W) \in Nat /\ Cardinality(D) \in Nat
  BY HandlersFinite, FS_Subset
<1> QED BY <1>1, FS_EmptySet

\* The handlers that are at work, after a step.
LEMMA NextAtWork ==
  ASSUME IntakeTyped, Cardinality(AtWork) <= most, Intake \/ IntakeCrash
  PROVE  Cardinality(AtWork') <= most' /\ most <= most'
<1> USE TypedParts, AtWorkFinite
<1>0. most \in Nat /\ most' \in Nat
  BY NextRestTyped DEF RestTyped
<1>1. ASSUME AtWork' \subseteq AtWork, UNCHANGED most
      PROVE  Cardinality(AtWork') <= most' /\ most <= most'
  <2>1. Cardinality(AtWork') <= Cardinality(AtWork) /\ Cardinality(AtWork') \in Nat
    BY <1>1, FS_Subset, HandlersFinite DEF AtWork
  <2> QED BY <1>0, <1>1, <2>1
<1>2. ASSUME NEW h \in Handlers, Handle(h)
      PROVE  Cardinality(AtWork') <= most' /\ most <= most'
  <2>1. PICK k \in Handler : handlers' = [handlers EXCEPT ![h] = k] /\ Advance(h, k)
    BY <1>2, HandleCases
  <2>2. handlers'[h] = k /\ \A g \in Handlers \ {h} : handlers'[g] = handlers[g]
    BY <2>1 DEF HandlersTyped
  <2>3. k.at = "idle" \/ ~At(h, "idle")
    BY <2>1 DEF Advance, At
  <2>4. AtWork' \subseteq AtWork
    BY <2>2, <2>3 DEF AtWork, At
  <2> QED BY <1>1, <2>1, <2>4 DEF Advance
<1>3. ASSUME NEW h \in Handlers, NEW m \in Messages, Deliver(h, m)
      PROVE  Cardinality(AtWork') <= most' /\ most <= most'
  <2> DEFINE k == [Idle EXCEPT !.at = "check", !.msg = m]
             busy == 1 + Cardinality(AtWork)
  <2>1. handlers' = [handlers EXCEPT ![h] = k]
    BY <1>3 DEF Deliver
  <2>2. most' = IF busy > most THEN busy ELSE most
    BY <1>3 DEF Deliver, AtWork
  <2> HIDE DEF k, busy
  <2>3. \A g \in Handlers \ {h} : handlers'[g] = handlers[g]
    BY <2>1 DEF HandlersTyped
  <2>4. AtWork' \subseteq AtWork \cup {h}
    BY <2>3 DEF AtWork, At
  <2>5. Cardinality(AtWork \cup {h}) <= busy /\ busy \in Nat
    BY FS_AddElement DEF busy
  <2>6. Cardinality(AtWork') <= Cardinality(AtWork \cup {h})
    BY <2>4, FS_AddElement, FS_Subset
  <2>7. Cardinality(AtWork') \in Nat /\ Cardinality(AtWork \cup {h}) \in Nat
    BY HandlersFinite, FS_AddElement, FS_CardinalityType DEF AtWork
  <2> QED BY <1>0, <2>2, <2>5, <2>6, <2>7
<1>4. CASE IntakeCrash
  <2>1. AtWork' \subseteq AtWork
    BY <1>4, IdleValues DEF IntakeCrash, AtWork, At
  <2> QED BY <1>1, <1>4, <2>1 DEF IntakeCrash
<1>5. ASSUME UNCHANGED <<handlers, most>>
      PROVE  Cardinality(AtWork') <= most' /\ most <= most'
  BY <1>1, <1>5 DEF AtWork, At
<1> QED BY <1>2, <1>3, <1>4, <1>5, OtherCases DEF Close

LEMMA NextLeadsOf ==
  ASSUME IntakeTyped, Intake \/ IntakeCrash, Cardinality(AtWork) <= most, NEW p \in Contacts,
         Cardinality(LeadsOf(p)) + Cardinality(LeadsToCome(p)) <= most
  PROVE  Cardinality(LeadsOf(p)') + Cardinality(LeadsToCome(p)') <= most'
<1> DEFINE Few == Cardinality(LeadsOf(p)') + Cardinality(LeadsToCome(p)') <= most'
<1> USE TypedParts
<1>1. most \in Nat /\ most' \in Nat /\ most <= most' /\ Cardinality(AtWork') <= most'
  BY NextRestTyped, NextAtWork DEF RestTyped
<1>2. leads \in Seq(Contacts) /\ LeadsOf(p) \in SUBSET DOMAIN leads /\ LeadsToCome(p) \in SUBSET Handlers
  BY DEF RowsTyped, LeadsOf, LeadsToCome
<1>3. LeadsToCome(p)' \in SUBSET AtWork' /\ AtWork' \in SUBSET Handlers
  BY DEF LeadsToCome, AtWork, At
<1>4. ASSUME LeadsOf(p)' = LeadsOf(p), LeadsToCome(p)' \subseteq LeadsToCome(p) PROVE Few
  BY <1>1, <1>2, <1>4, FewerOfBoth
<1>5. ASSUME LeadsOf(p)' = {} PROVE Few
  BY <1>1, <1>3, <1>5, NoneYet
<1>6. ASSUME NEW h \in Handlers, Handle(h) PROVE Few
  <2>1. PICK k \in Handler : handlers' = [handlers EXCEPT ![h] = k] /\ Advance(h, k)
    BY <1>6, HandleCases
  <2>2. Sender[handlers[h].msg] \in Contacts
    BY <1>6, HandleCases, PipelineAssumption
  <2>3. handlers'[h] = k /\ \A g \in Handlers \ {h} : handlers'[g] = handlers[g]
    BY <2>1 DEF HandlersTyped
  <2>4. CASE UNCHANGED leads /\ k.at # "newlead"
    <3>1. LeadsToCome(p)' \subseteq LeadsToCome(p)
      BY <2>3, <2>4 DEF LeadsToCome, At
    <3> QED BY <1>4, <2>4, <3>1 DEF LeadsOf
  <2>5. CASE UNCHANGED leads /\ k.msg = handlers[h].msg /\ LeadsOf(Sender[k.msg]) = {}
    <3>1. CASE p = Sender[k.msg]
      BY <1>5, <2>5, <3>1 DEF LeadsOf
    <3>2. CASE p # Sender[k.msg]
      <4>1. LeadsToCome(p)' \subseteq LeadsToCome(p)
        BY <2>3, <3>2 DEF LeadsToCome, At
      <4> QED BY <1>4, <2>5, <4>1 DEF LeadsOf
    <3> QED BY <3>1, <3>2
  <2>6. CASE At(h, "newlead") /\ k.at = "conversation" /\ k.msg = handlers[h].msg
             /\ leads' = Append(leads, Sender[k.msg])
    <3>1. /\ DOMAIN leads' = DOMAIN leads \cup {Len(leads) + 1} /\ leads'[Len(leads) + 1] = Sender[k.msg]
          /\ \A i \in DOMAIN leads : leads'[i] = leads[i]
      BY <1>2, <2>2, <2>6
    <3>2. CASE p = Sender[k.msg]
      <4>1. LeadsOf(p)' = LeadsOf(p) \cup {Len(leads) + 1}
        BY <3>1, <3>2 DEF LeadsOf
      <4>2. h \in LeadsToCome(p) /\ LeadsToCome(p)' = LeadsToCome(p) \ {h}
        BY <2>3, <2>6, <3>2 DEF LeadsToCome, At
      <4>3. Cardinality(LeadsOf(p)') + Cardinality(LeadsToCome(p)') <= most
        BY <1>1, <1>2, <4>1, <4>2, OneForOne
      <4> QED BY <2>1, <2>6, <4>3 DEF Advance
    <3>3. CASE p # Sender[k.msg]
      <4>1. LeadsOf(p)' = LeadsOf(p)
        BY <1>2, <3>1, <3>3 DEF LeadsOf
      <4>2. LeadsToCome(p)' \subseteq LeadsToCome(p)
        BY <2>3, <2>6 DEF LeadsToCome, At
      <4> QED BY <1>4, <4>1, <4>2
    <3> QED BY <3>2, <3>3
  <2> QED BY <2>1, <2>4, <2>5, <2>6 DEF Advance
<1>7. ASSUME NEW h \in Handlers, NEW m \in Messages, Deliver(h, m) PROVE Few
  <2> DEFINE k == [Idle EXCEPT !.at = "check", !.msg = m]
  <2>1. k.at = "check"
    BY IdleValues
  <2>2. handlers' = [handlers EXCEPT ![h] = k]
    BY <1>7 DEF Deliver
  <2> HIDE DEF k
  <2>3. handlers'[h] = k /\ \A g \in Handlers \ {h} : handlers'[g] = handlers[g]
    BY <2>2 DEF HandlersTyped
  <2>4. LeadsToCome(p)' \subseteq LeadsToCome(p)
    BY <2>1, <2>3 DEF LeadsToCome, At
  <2> QED BY <1>4, <1>7, <2>4 DEF Deliver, LeadsOf
<1>8. CASE IntakeCrash
  BY <1>4, <1>8, IdleValues DEF IntakeCrash, LeadsOf, LeadsToCome, At
<1>9. ASSUME UNCHANGED <<leads, handlers>> PROVE Few
  BY <1>4, <1>9 DEF LeadsOf, LeadsToCome, At
<1>10. Few
  BY <1>6, <1>7, <1>8, <1>9, OtherCases DEF Close
<1> QED BY <1>10

LEMMA NextActiveOf ==
  ASSUME IntakeTyped, Intake \/ IntakeCrash, Cardinality(AtWork) <= most, NEW l,
         Cardinality(ActiveOf(l)) + Cardinality(ConvsToCome(l)) <= most
  PROVE  Cardinality(ActiveOf(l)') + Cardinality(ConvsToCome(l)') <= most'
<1> DEFINE Few == Cardinality(ActiveOf(l)') + Cardinality(ConvsToCome(l)') <= most'
           Conv == [lead : Nat, active : BOOLEAN]
<1> USE TypedParts
<1>1. most \in Nat /\ most' \in Nat /\ most <= most' /\ Cardinality(AtWork') <= most'
  BY NextRestTyped, NextAtWork DEF RestTyped
<1>2. convs \in Seq(Conv) /\ ActiveOf(l) \in SUBSET DOMAIN convs /\ ConvsToCome(l) \in SUBSET Handlers
  BY DEF RowsTyped, ActiveOf, ConvsToCome
<1>3. ConvsToCome(l)' \in SUBSET AtWork' /\ AtWork' \in SUBSET Handlers
  BY DEF ConvsToCome, AtWork, At
<1> HIDE DEF Conv
<1>4. ASSUME ActiveOf(l)' \subseteq ActiveOf(l), ConvsToCome(l)' \subseteq ConvsToCome(l) PROVE Few
  BY <1>1, <1>2, <1>4, FewerOfBoth
<1>5. ASSUME ActiveOf(l)' = {} PROVE Few
  BY <1>1, <1>3, <1>5, NoneYet
<1>6. ASSUME NEW h \in Handlers, Handle(h) PROVE Few
  <2>1. PICK k \in Handler : handlers' = [handlers EXCEPT ![h] = k] /\ Advance(h, k)
    BY <1>6, HandleCases
  <2>3. handlers'[h] = k /\ \A g \in Handlers \ {h} : handlers'[g] = handlers[g]
    BY <2>1 DEF HandlersTyped
  <2>4. CASE UNCHANGED convs /\ k.at # "newconversation"
    <3>1. ConvsToCome(l)' \subseteq ConvsToCome(l)
      BY <2>3, <2>4 DEF ConvsToCome, At
    <3> QED BY <1>4, <2>4, <3>1 DEF ActiveOf
  <2>5. CASE UNCHANGED convs /\ ActiveOf(k.lead) = {}
    <3>1. CASE l = k.lead
      BY <1>5, <2>5, <3>1 DEF ActiveOf
    <3>2. CASE l # k.lead
      <4>1. ConvsToCome(l)' \subseteq ConvsToCome(l)
        BY <2>3, <3>2 DEF ConvsToCome, At
      <4> QED BY <1>4, <2>5, <4>1 DEF ActiveOf
    <3> QED BY <3>1, <3>2
  <2>6. CASE At(h, "newconversation") /\ k.at = "store" /\ k.lead = handlers[h].lead
             /\ convs' = Append(convs, [lead |-> k.lead, active |-> TRUE])
    <3> DEFINE conv == [lead |-> k.lead, active |-> TRUE]
    <3>1. conv \in Conv /\ conv.lead = k.lead
      BY DEF Handler, Conv
    <3>2. convs' = Append(convs, conv)
      BY <2>6
    <3> HIDE DEF conv
    <3>3. /\ DOMAIN convs' = DOMAIN convs \cup {Len(convs) + 1} /\ convs'[Len(convs) + 1] = conv
          /\ \A i \in DOMAIN convs : convs'[i] = convs[i]
      BY <1>2, <3>1, <3>2
    <3>4. CASE l = k.lead
      <4>1. ActiveOf(l)' \subseteq ActiveOf(l) \cup {Len(convs) + 1}
        BY <3>3, <3>4 DEF ActiveOf
      <4>2. h \in ConvsToCome(l) /\ ConvsToCome(l)' = ConvsToCome(l) \ {h}
        BY <2>3, <2>6, <3>4 DEF ConvsToCome, At
      <4>3. Cardinality(ActiveOf(l) \cup {Len(convs) + 1}) + Cardinality(ConvsToCome(l)') <= most
        BY <1>1, <1>2, <4>2, OneForOne
      <4>4. convs' \in Seq(Conv) /\ ActiveOf(l) \cup {Len(convs) + 1} \in SUBSET DOMAIN convs'
        BY <1>2, <3>1, <3>2, <3>3
      <4>5. ConvsToCome(l)' \in SUBSET Handlers
        BY <1>2, <4>2
      <4> QED BY <1>1, <4>1, <4>3, <4>4, <4>5, FewerOfBoth
    <3>5. CASE l # k.lead
      <4>1. ActiveOf(l)' \subseteq ActiveOf(l)
        BY <3>1, <3>3, <3>5 DEF ActiveOf
      <4>2. ConvsToCome(l)' \subseteq ConvsToCome(l)
        BY <2>3, <2>6 DEF ConvsToCome, At
      <4> QED BY <1>4, <4>1, <4>2
    <3> QED BY <3>4, <3>5
  <2> QED BY <2>1, <2>4, <2>5, <2>6 DEF Advance
<1>7. ASSUME NEW h \in Handlers, NEW m \in Messages, Deliver(h, m) PROVE Few
  <2> DEFINE k == [Idle EXCEPT !.at = "check", !.msg = m]
  <2>1. k.at = "check"
    BY IdleValues
  <2>2. handlers' = [handlers EXCEPT ![h] = k]
    BY <1>7 DEF Deliver
  <2> HIDE DEF k
  <2>3. handlers'[h] = k /\ \A g \in Handlers \ {h} : handlers'[g] = handlers[g]
    BY <2>2 DEF HandlersTyped
  <2>4. ConvsToCome(l)' \subseteq ConvsToCome(l)
    BY <2>1, <2>3 DEF ConvsToCome, At
  <2> QED BY <1>4, <1>7, <2>4 DEF Deliver, ActiveOf
<1>8. CASE IntakeCrash
  BY <1>4, <1>8, IdleValues DEF IntakeCrash, ActiveOf, ConvsToCome, At
<1>9. ASSUME NEW c \in DOMAIN convs, Close(c) PROVE Few
  <2> DEFINE conv == [convs[c] EXCEPT !.active = FALSE]
  <2>1. convs[c] \in [lead : Nat, active : BOOLEAN]
    BY <1>2, ReplacedInSeq DEF Conv
  <2>2. conv \in Conv /\ ~conv.active
    BY <2>1 DEF Conv
  <2>3. convs' = [convs EXCEPT ![c] = conv]
    BY <1>9 DEF Close
  <2> HIDE DEF conv
  <2>4. DOMAIN convs' = DOMAIN convs /\ \A j \in DOMAIN convs : convs'[j] = IF j = c THEN conv ELSE convs[j]
    BY <1>2, <2>2, <2>3, ReplacedInSeq
  <2>5. ActiveOf(l)' \subseteq ActiveOf(l)
    BY <2>2, <2>4 DEF ActiveOf
  <2>6. ConvsToCome(l)' \subseteq ConvsToCome(l)
    BY <1>9 DEF Close, ConvsToCome, At
  <2> QED BY <1>4, <2>5, <2>6
<1>10. ASSUME UNCHANGED <<convs, handlers>> PROVE Few
  BY <1>4, <1>10 DEF ActiveOf, ConvsToCome, At
<1>11. Few
  BY <1>6, <1>7, <1>8, <1>9, <1>10, OtherCases
<1> QED BY <1>11

LEMMA NextDuplicatesInv ==
  ASSUME IntakeTyped, KnowInv, DuplicatesInv, Intake \/ IntakeCrash
  PROVE  DuplicatesInv'
<1> USE TypedParts
<1>1. Cardinality(AtWork') <= most' /\ Cardinality(AtWork) <= most
  BY NextAtWork DEF DuplicatesInv
<1>2. \A p \in Contacts : Cardinality(LeadsOf(p)') + Cardinality(LeadsToCome(p)') <= most'
  BY <1>1, NextLeadsOf DEF DuplicatesInv
<1>3. ASSUME NEW l \in DOMAIN leads'
      PROVE  Cardinality(ActiveOf(l)') + Cardinality(ConvsToCome(l)') <= most'
  <2>1. CASE l \in DOMAIN leads
    BY <1>1, <2>1, NextActiveOf DEF DuplicatesInv
  <2>2. CASE l \notin DOMAIN leads
    <3>1. ActiveOf(l) = {}
      BY <2>2 DEF KnowInv, ActiveOf
    <3>2. ConvsToCome(l) \in SUBSET AtWork /\ AtWork \in SUBSET Handlers
      BY DEF ConvsToCome, AtWork, At
    <3>3. Cardinality(ActiveOf(l)) + Cardinality(ConvsToCome(l)) <= most
      BY <1>1, <3>1, <3>2, NoneYet DEF RestTyped
    <3> QED BY <1>1, <3>3, NextActiveOf
  <2> QED BY <2>1, <2>2
<1> QED BY <1>1, <1>2, <1>3 DEF DuplicatesInv

-----------------------------------------------------------------------------
(* The workflows: what a step of a consumer does.                          *)

Fields == {"at", "msg", "conv", "flow", "state", "visits", "outcome"}

IsConsumer(k) ==
  /\ DOMAIN k = Fields
  /\ k.at \in Orchestration!Phases
  /\ k.msg \in Messages \cup {Nothing}
  /\ k.at = "idle" <=> k.msg = Nothing
  /\ k.visits \in 0..MaxIterations
  /\ k.at \in {"record", "prepare", "begin"} => k.visits = 0
  /\ k.at = "settle" => k.outcome \in {"completed", "waiting"}

ConsumersTyped ==
  /\ consumers = [c \in Consumers |-> consumers[c]]
  /\ \A c \in Consumers : IsConsumer(consumers[c])

RunsTyped ==
  /\ results \in [Messages -> Results \cup {Nothing}]
  /\ executions \in [Messages -> Seq(Outcomes)]
  /\ replies \in [Messages -> Nat] /\ stored \in [Messages -> Nat]
  /\ unsettled \in Nat

CountsTyped == answered \in [Messages -> Nat] /\ crashes \in 0..MaxCrashes

LEMMA RestingValues ==
  /\ DOMAIN Orchestration!Resting = Fields
  /\ IsConsumer(Orchestration!Resting)
  /\ Orchestration!Resting.at = "idle" /\ Orchestration!Resting.msg = Nothing
<1>1. DOMAIN Orchestration!Resting = Fields
  BY DEF Orchestration!Resting, Fields
<1>2. /\ Orchestration!Resting.at = "idle" /\ Orchestration!Resting.msg = Nothing
      /\ Orchestration!Resting.visits = 0
  BY DEF Orchestration!Resting
<1> QED BY <1>1, <1>2, PipelineAssumption DEF IsConsumer, Orchestration!Phases

LEMMA FlowTypedParts == FlowTyped <=> ConsumersTyped /\ RunsTyped /\ CountsTyped
  BY RestingValues DEF FlowTyped, ConsumersTyped, RunsTyped, CountsTyped, IsConsumer

\* The phases in which a result waits to be executed, and those in which its
\* execution is under way.
Before == {"record", "prepare", "begin"}
During == {"visit", "send", "save", "follow", "settle", "fail"}

\* What a step of the consumer c does, if it leaves c as k.
Takes(c, k) ==
  /\ consumers[c].at = "idle" /\ k.at = "record" /\ k.msg \in Messages
  /\ results[k.msg] # Nothing /\ \A d \in Consumers : consumers[d].msg # k.msg
  /\ UNCHANGED <<results, executions, replies, stored, unsettled>>

GetsOn(c, k) ==
  /\ k.msg = consumers[c].msg /\ k.visits = consumers[c].visits
  /\ UNCHANGED results
  /\ \/ /\ consumers[c].at \in Before /\ k.at \in Before \cup {"commit"}
        /\ UNCHANGED <<executions, replies, stored, unsettled>>
     \/ /\ consumers[c].at = "begin" /\ k.at = "visit"
        /\ executions' = [executions EXCEPT ![k.msg] = Append(@, "running")]
        /\ UNCHANGED <<replies, stored, unsettled>>
     \/ /\ consumers[c].at \in During /\ k.at \in {"visit", "follow", "settle", "fail"}
        /\ UNCHANGED <<executions, replies, stored, unsettled>>
     \/ /\ consumers[c].at = "send" /\ k.at = "save"
        /\ replies' = [replies EXCEPT ![k.msg] = @ + 1]
        /\ UNCHANGED <<executions, stored, unsettled>>
     \/ /\ consumers[c].at = "save" /\ k.at = "follow"
        /\ stored' = [stored EXCEPT ![k.msg] = @ + 1]
        /\ UNCHANGED <<executions, replies, unsettled>>
     \/ /\ consumers[c].at \in {"settle", "fail"} /\ k.at = "commit"
        /\ \E o \in {"completed", "waiting", "failed"} :
             executions' = [executions EXCEPT ![k.msg] = [@ EXCEPT ![Len(executions[k.msg])] = o]]
        /\ UNCHANGED <<replies, stored, unsettled>>
     \/ /\ consumers[c].at = "fail" /\ k.at = "commit"
        /\ unsettled' = unsettled + 1
        /\ UNCHANGED <<executions, replies, stored>>

Visits(c, k) ==
  /\ consumers[c].at = "visit" /\ k.at \in {"send", "follow"} /\ k.msg = consumers[c].msg
  /\ consumers[c].visits < MaxIterations /\ k.visits = consumers[c].visits + 1
  /\ UNCHANGED <<results, executions, replies, stored, unsettled>>

Commits(c, k) ==
  /\ consumers[c].at = "commit" /\ k.at = "idle" /\ k.msg = Nothing
  /\ results' = [results EXCEPT ![consumers[c].msg] = Nothing]
  /\ UNCHANGED <<executions, replies, stored, unsettled>>

Proceeds(c, k) == Takes(c, k) \/ GetsOn(c, k) \/ Visits(c, k) \/ Commits(c, k)

\* Every step of a consumer is one of these.
LEMMA ConsumerCases ==
  ASSUME FlowTyped, NEW c \in Consumers, Orchestration!Work(c) \/ \E m \in Messages : Orchestration!Take(c, m)
  PROVE  \E k : /\ IsConsumer(k)
                /\ consumers' = [consumers EXCEPT ![c] = k]
                /\ Proceeds(c, k)
<1> DEFINE r == consumers[c]
           Goal == \E k : IsConsumer(k) /\ consumers' = [consumers EXCEPT ![c] = k] /\ Proceeds(c, k)
<1> USE FlowTypedParts
<1>1. IsConsumer(r) /\ consumers = [d \in Consumers |-> consumers[d]]
  BY DEF ConsumersTyped
<1>2. ASSUME NEW phase \in Orchestration!Phases \ {"idle", "settle"}, Orchestration!To(c, phase),
             r.at # "idle", phase \in Before => r.at \in Before,
             \A k : k.at = phase /\ k.msg = r.msg /\ k.visits = r.visits => Proceeds(c, k)
      PROVE  Goal
  <2> DEFINE k == [r EXCEPT !.at = phase]
  <2>1. IsConsumer(k) /\ k.at = phase /\ k.msg = r.msg /\ k.visits = r.visits
    BY <1>1, <1>2 DEF IsConsumer, Fields, Before
  <2>2. consumers' = [consumers EXCEPT ![c] = k]
    BY <1>1, <1>2 DEF Orchestration!To
  <2> HIDE DEF k
  <2> QED BY <1>2, <2>1, <2>2
<1>3. ASSUME NEW m \in Messages, Orchestration!Take(c, m)
      PROVE  Goal
  <2> DEFINE k == [Orchestration!Resting EXCEPT !.at = "record", !.msg = m]
  <2>1. DOMAIN k = Fields /\ k.at = "record" /\ k.msg = m /\ k.visits = 0
    BY DEF Orchestration!Resting, Fields
  <2>2. IsConsumer(k)
    BY <2>1, PipelineAssumption DEF IsConsumer, Orchestration!Phases
  <2>3. consumers' = [consumers EXCEPT ![c] = k]
    BY <1>3 DEF Orchestration!Take
  <2> HIDE DEF k
  <2>4. Takes(c, k)
    BY <1>3, <2>1 DEF Takes, Orchestration!Take, Orchestration!Is, Orchestration!Msg
  <2> QED BY <2>2, <2>3, <2>4 DEF Proceeds
<1>4. ASSUME Orchestration!Record(c)
      PROVE  Goal
  <2> DEFINE phase == IF results[Orchestration!Msg(c)].intent = Nothing THEN "commit" ELSE "prepare"
  <2>1. r.at = "record" /\ phase \in {"prepare", "commit"} /\ Orchestration!To(c, phase)
    BY <1>4 DEF Orchestration!Record, Orchestration!Is
  <2>2. UNCHANGED <<results, executions, replies, stored, unsettled>>
    BY <1>4 DEF Orchestration!Record
  <2> HIDE DEF phase
  <2> QED BY <1>2, <2>1, <2>2 DEF Proceeds, GetsOn, Before, Orchestration!Phases
<1>5. ASSUME Orchestration!Prepare(c)
      PROVE  Goal
  <2>1. r.at = "prepare" /\ UNCHANGED <<results, executions, replies, stored, unsettled>>
    BY <1>5 DEF Orchestration!Prepare, Orchestration!Is
  <2>2. CASE Orchestration!To(c, "commit")
    BY <1>2, <2>1, <2>2 DEF Proceeds, GetsOn, Before, Orchestration!Phases
  <2>3. CASE ~Orchestration!To(c, "commit")
    <3>1. PICK conv, flow : consumers' = [consumers EXCEPT ![c].at = "begin", ![c].conv = conv, ![c].flow = flow]
      BY <1>5, <2>3 DEF Orchestration!Prepare
    <3> DEFINE k == [r EXCEPT !.at = "begin", !.conv = conv, !.flow = flow]
    <3>2. k.at = "begin" /\ k.msg = r.msg /\ k.visits = r.visits /\ IsConsumer(k)
      BY <1>1, <2>1 DEF IsConsumer, Fields, Orchestration!Phases
    <3>3. consumers' = [consumers EXCEPT ![c] = k]
      BY <1>1, <3>1
    <3> HIDE DEF k
    <3> QED BY <2>1, <3>2, <3>3 DEF Proceeds, GetsOn, Before
  <2> QED BY <2>2, <2>3
<1>6. ASSUME Orchestration!Begin(c)
      PROVE  Goal
  <2> DEFINE s == Workflows[consumers[c].flow].initial
             k == [r EXCEPT !.at = "visit", !.state = s]
  <2>1. r.at = "begin"
    BY <1>6 DEF Orchestration!Begin, Orchestration!Is
  <2>2. k.at = "visit" /\ k.msg = r.msg /\ k.visits = r.visits /\ IsConsumer(k)
    BY <1>1, <2>1 DEF IsConsumer, Fields, Orchestration!Phases
  <2>3. consumers' = [consumers EXCEPT ![c] = k]
    BY <1>1, <1>6 DEF Orchestration!Begin
  <2> HIDE DEF k, s
  <2> QED BY <1>6, <2>1, <2>2, <2>3 DEF Proceeds, GetsOn, Orchestration!Begin, Orchestration!Msg
<1>7. ASSUME Orchestration!Visit(c)
      PROVE  Goal
  <2>1. r.at = "visit" /\ UNCHANGED <<results, executions, replies, stored, unsettled>>
    BY <1>7 DEF Orchestration!Visit, Orchestration!Is
  <2>2. CASE Orchestration!To(c, "fail")
    BY <1>2, <2>1, <2>2 DEF Proceeds, GetsOn, Before, During, Orchestration!Phases
  <2>3. CASE consumers' = [consumers EXCEPT ![c].at = "settle", ![c].outcome = "completed"]
    <3> DEFINE k == [r EXCEPT !.at = "settle", !.outcome = "completed"]
    <3>1. k.at = "settle" /\ k.msg = r.msg /\ k.visits = r.visits /\ IsConsumer(k)
      BY <1>1, <2>1 DEF IsConsumer, Fields, Orchestration!Phases, Before
    <3>2. consumers' = [consumers EXCEPT ![c] = k]
      BY <1>1, <2>3
    <3> HIDE DEF k
    <3> QED BY <2>1, <3>1, <3>2 DEF Proceeds, GetsOn, During
  <2>4. CASE \E phase \in {"send", "follow"} : r.visits < MaxIterations
               /\ consumers' = [consumers EXCEPT ![c].visits = @ + 1, ![c].at = phase]
    <3>1. PICK phase \in {"send", "follow"} : r.visits < MaxIterations
                 /\ consumers' = [consumers EXCEPT ![c].visits = @ + 1, ![c].at = phase]
      BY <2>4
    <3> DEFINE k == [r EXCEPT !.visits = @ + 1, !.at = phase]
    <3>2. r.visits + 1 \in 0..MaxIterations
      BY <1>1, <3>1, PipelineAssumption DEF IsConsumer
    <3>3. k.at = phase /\ k.msg = r.msg /\ k.visits = r.visits + 1 /\ DOMAIN k = Fields
      BY <1>1 DEF IsConsumer, Fields
    <3>4. consumers' = [consumers EXCEPT ![c] = k]
      BY <1>1, <3>1
    <3> HIDE DEF k
    <3>5. IsConsumer(k)
      BY <1>1, <2>1, <3>2, <3>3 DEF IsConsumer, Orchestration!Phases
    <3> QED BY <2>1, <3>1, <3>3, <3>4, <3>5 DEF Proceeds, Visits
  <2> QED BY <1>7, <2>2, <2>3, <2>4 DEF Orchestration!Visit
<1>8. ASSUME Orchestration!Send(c)
      PROVE  Goal
  BY <1>2, <1>8 DEF Orchestration!Send, Orchestration!Is, Orchestration!Msg, Proceeds, GetsOn, Before, During, Orchestration!Phases
<1>9. ASSUME Orchestration!Save(c)
      PROVE  Goal
  BY <1>2, <1>9 DEF Orchestration!Save, Orchestration!Is, Orchestration!Msg, Proceeds, GetsOn, Before, During, Orchestration!Phases
<1>10. ASSUME Orchestration!Follow(c)
       PROVE  Goal
  <2>1. r.at = "follow" /\ UNCHANGED <<results, executions, replies, stored, unsettled>>
    BY <1>10 DEF Orchestration!Follow, Orchestration!Is
  <2>2. CASE Orchestration!To(c, "fail")
    BY <1>2, <2>1, <2>2 DEF Proceeds, GetsOn, Before, During, Orchestration!Phases
  <2>3. CASE consumers' = [consumers EXCEPT ![c].at = "settle", ![c].outcome = "waiting"]
    <3> DEFINE k == [r EXCEPT !.at = "settle", !.outcome = "waiting"]
    <3>1. k.at = "settle" /\ k.msg = r.msg /\ k.visits = r.visits /\ IsConsumer(k)
      BY <1>1, <2>1 DEF IsConsumer, Fields, Orchestration!Phases, Before
    <3>2. consumers' = [consumers EXCEPT ![c] = k]
      BY <1>1, <2>3
    <3> HIDE DEF k
    <3> QED BY <2>1, <3>1, <3>2 DEF Proceeds, GetsOn, During
  <2>4. CASE \E n : consumers' = [consumers EXCEPT ![c].at = "visit", ![c].state = n]
    <3>1. PICK n : consumers' = [consumers EXCEPT ![c].at = "visit", ![c].state = n]
      BY <2>4
    <3> DEFINE k == [r EXCEPT !.at = "visit", !.state = n]
    <3>2. k.at = "visit" /\ k.msg = r.msg /\ k.visits = r.visits /\ IsConsumer(k)
      BY <1>1, <2>1 DEF IsConsumer, Fields, Orchestration!Phases, Before
    <3>3. consumers' = [consumers EXCEPT ![c] = k]
      BY <1>1, <3>1
    <3> HIDE DEF k
    <3> QED BY <2>1, <3>2, <3>3 DEF Proceeds, GetsOn, During
  <2> QED BY <1>10, <2>2, <2>3, <2>4 DEF Orchestration!Follow
<1>11. ASSUME Orchestration!Settle(c)
       PROVE  Goal
  <2>1. r.at = "settle" /\ r.outcome \in {"completed", "waiting"}
    BY <1>1, <1>11 DEF Orchestration!Settle, Orchestration!Is, IsConsumer
  <2>2. CASE Orchestration!To(c, "fail") /\ UNCHANGED executions
    BY <1>2, <1>11, <2>1, <2>2 DEF Orchestration!Settle, Proceeds, GetsOn, Before, During, Orchestration!Phases
  <2>3. CASE /\ executions' = [executions EXCEPT ![r.msg][Len(executions[r.msg])] = r.outcome]
             /\ Orchestration!To(c, "commit")
    <3>1. executions' = [executions EXCEPT ![r.msg] = [@ EXCEPT ![Len(executions[r.msg])] = r.outcome]]
      BY <2>3
    <3> QED BY <1>2, <1>11, <2>1, <2>3, <3>1
            DEF Orchestration!Settle, Proceeds, GetsOn, Before, During, Orchestration!Phases
  <2> QED BY <1>11, <2>2, <2>3 DEF Orchestration!Settle, Orchestration!Msg, Orchestration!Last
<1>12. ASSUME Orchestration!Fails(c)
       PROVE  Goal
  <2>1. r.at = "fail" /\ Orchestration!To(c, "commit")
    BY <1>12 DEF Orchestration!Fails, Orchestration!Is
  <2>2. CASE unsettled' = unsettled + 1 /\ UNCHANGED executions
    BY <1>2, <1>12, <2>1, <2>2 DEF Orchestration!Fails, Proceeds, GetsOn, Before, During, Orchestration!Phases
  <2>3. CASE executions' = [executions EXCEPT ![r.msg][Len(executions[r.msg])] = "failed"] /\ UNCHANGED unsettled
    <3>1. executions' = [executions EXCEPT ![r.msg] = [@ EXCEPT ![Len(executions[r.msg])] = "failed"]]
      BY <2>3
    <3> QED BY <1>2, <1>12, <2>1, <2>3, <3>1
            DEF Orchestration!Fails, Proceeds, GetsOn, Before, During, Orchestration!Phases
  <2> QED BY <1>12, <2>2, <2>3 DEF Orchestration!Fails, Orchestration!Msg, Orchestration!Last
<1>13. ASSUME Orchestration!Throws(c)
       PROVE  Goal
  BY <1>2, <1>13 DEF Orchestration!Throws, Proceeds, GetsOn, Before, During, Orchestration!Phases
<1>14. ASSUME Orchestration!Commit(c)
       PROVE  Goal
  <2>1. consumers' = [consumers EXCEPT ![c] = Orchestration!Resting]
    BY <1>14 DEF Orchestration!Commit
  <2>2. Commits(c, Orchestration!Resting)
    BY <1>14, RestingValues DEF Commits, Orchestration!Commit, Orchestration!Is, Orchestration!Msg
  <2> QED BY <2>1, <2>2, RestingValues DEF Proceeds
<1> QED BY <1>3, <1>4, <1>5, <1>6, <1>7, <1>8, <1>9, <1>10, <1>11, <1>12, <1>13, <1>14 DEF Orchestration!Work

-----------------------------------------------------------------------------
(* The workflows: whose a result is, and how often it is executed.         *)

\* A consumer has a result that is not committed, and no other consumer has it.
OwnInv ==
  /\ \A c \in Consumers : consumers[c].msg # Nothing => results[consumers[c].msg] # Nothing
  /\ \A c, d \in Consumers : consumers[c].msg # Nothing /\ consumers[c].msg = consumers[d].msg => c = d

CountInv ==
  \A m \in Messages :
    /\ answered[m] <= asked[m]
    /\ Len(executions[m]) <= answered[m] + crashes
    /\ Awaits(m) => Len(executions[m]) < answered[m] + crashes

SpentInv ==
  \A m \in Messages :
    /\ stored[m] <= replies[m]
    /\ replies[m] <= Len(executions[m]) * MaxIterations

\* An execution that is under way is shown as such, and has sent no more
\* messages than it visited states.
UnderWay(c) ==
  LET m == consumers[c].msg
  IN  /\ executions[m] # <<>>
      /\ executions[m][Len(executions[m])] = "running"
      /\ replies[m] + (IF consumers[c].at = "send" THEN 1 ELSE 0)
           <= (Len(executions[m]) - 1) * MaxIterations + consumers[c].visits
      /\ consumers[c].at = "save" => stored[m] < replies[m]

UnderWayInv == \A c \in Working : UnderWay(c)

LEMMA FlowParts == FlowInv <=> OwnInv /\ CountInv /\ SpentInv /\ UnderWayInv
<1>1. FlowInv => OwnInv /\ CountInv /\ SpentInv
  BY DEF FlowInv, OwnInv, CountInv, SpentInv
<1>2. FlowInv => UnderWayInv
  <2>1. \A c \in Working : c \in Consumers
    BY DEF Working
  <2> QED BY <2>1 DEF FlowInv, UnderWayInv, UnderWay
<1>3. OwnInv /\ CountInv /\ SpentInv /\ UnderWayInv => FlowInv
  <2>1. \A c \in Consumers : consumers[c].at = "save" => c \in Working
    BY DEF Working
  <2> QED BY <2>1 DEF FlowInv, OwnInv, CountInv, SpentInv, UnderWayInv, UnderWay
<1> QED BY <1>1, <1>2, <1>3

\* The same after a step.
LEMMA FlowPartsNext == OwnInv' /\ CountInv' /\ SpentInv' /\ UnderWayInv' => FlowInv'
<1> SUFFICES ASSUME OwnInv', CountInv', SpentInv', UnderWayInv' PROVE FlowInv'
  OBVIOUS
<1>1. \A c \in Consumers : consumers'[c].at = "save" => c \in Working'
  BY DEF Working
<1> QED BY <1>1 DEF FlowInv, OwnInv, CountInv, SpentInv, UnderWayInv, UnderWay

LEMMA InitFlowInv ==
  ASSUME Init
  PROVE  FlowTyped /\ FlowInv /\ RunningIsWorkedOn
<1>1. \A c \in Consumers : consumers[c] = Orchestration!Resting
  BY DEF Init, Orchestration!FlowInit
<1>2. ConsumersTyped /\ OwnInv /\ Working = {}
  BY <1>1, RestingValues DEF Init, Orchestration!FlowInit, ConsumersTyped, OwnInv, Working
<1>3. RunsTyped /\ CountsTyped
  BY PipelineAssumption DEF Init, Orchestration!FlowInit, RunsTyped, CountsTyped
<1>4. CountInv /\ SpentInv /\ UnderWayInv
  <2>1. \A m \in Messages : /\ answered[m] = 0 /\ asked[m] = 0 /\ Len(executions[m]) = 0
                            /\ stored[m] = 0 /\ replies[m] = 0 /\ ~Awaits(m) /\ crashes = 0
    BY DEF Init, IntakeInit, Orchestration!FlowInit, Awaits
  <2>2. 0 * MaxIterations = 0
    BY PipelineAssumption
  <2> QED BY <1>2, <2>1, <2>2 DEF CountInv, SpentInv, UnderWayInv
<1>5. Running = {}
  BY DEF Init, Orchestration!FlowInit, Running, Shown
<1>6. RunningIsWorkedOn
  BY <1>2, <1>5, FS_EmptySet DEF RunningIsWorkedOn, Init, Orchestration!FlowInit
<1> QED BY <1>2, <1>3, <1>4, <1>6, FlowParts, FlowTypedParts

LEMMA Products ==
  \A n \in Nat : /\ n * MaxIterations \in Nat
                 /\ (n + 1) * MaxIterations = n * MaxIterations + MaxIterations
                 /\ n > 0 => /\ n - 1 \in Nat
                             /\ (n - 1) * MaxIterations \in Nat
                             /\ n * MaxIterations = (n - 1) * MaxIterations + MaxIterations
  BY PipelineAssumption

\* A step of one consumer leaves the others.
LEMMA OthersRest ==
  ASSUME FlowTyped, NEW c \in Consumers, NEW k, consumers' = [consumers EXCEPT ![c] = k]
  PROVE  consumers'[c] = k /\ \A d \in Consumers \ {c} : consumers'[d] = consumers[d]
  BY FlowTypedParts DEF ConsumersTyped

LEMMA NextConsumersTyped ==
  ASSUME FlowTyped, NEW c \in Consumers, NEW k, consumers' = [consumers EXCEPT ![c] = k], IsConsumer(k)
  PROVE  ConsumersTyped'
<1>1. consumers = [d \in Consumers |-> consumers[d]] /\ \A d \in Consumers : IsConsumer(consumers[d])
  BY FlowTypedParts DEF ConsumersTyped
<1>2. consumers' = [d \in Consumers |-> consumers'[d]]
  BY <1>1
<1>3. \A d \in Consumers : IsConsumer(consumers'[d])
  BY <1>1, OthersRest
<1> QED BY <1>2, <1>3 DEF ConsumersTyped, IsConsumer

LEMMA NextOwnInv ==
  ASSUME FlowTyped, OwnInv, NEW c \in Consumers, NEW k, consumers' = [consumers EXCEPT ![c] = k],
         IsConsumer(k), Proceeds(c, k)
  PROVE  OwnInv'
<1> USE FlowTypedParts
<1>1. consumers'[c] = k /\ \A d \in Consumers \ {c} : consumers'[d] = consumers[d]
  BY OthersRest
<1>2. \A d \in Consumers : consumers[d].msg \in Messages \cup {Nothing}
  BY DEF ConsumersTyped, IsConsumer
<1>3. CASE Takes(c, k)
  BY <1>1, <1>3 DEF Takes, OwnInv
<1>4. CASE k.msg = consumers[c].msg /\ UNCHANGED results
  BY <1>1, <1>4 DEF OwnInv
<1>5. CASE Commits(c, k)
  <2>1. \A d \in Consumers \ {c} : consumers[d].msg # Nothing => consumers[d].msg # consumers[c].msg
    BY DEF OwnInv
  <2>2. \A m \in Messages : m # consumers[c].msg => results'[m] = results[m]
    BY <1>5 DEF Commits, RunsTyped
  <2> QED BY <1>1, <1>2, <1>5, <2>1, <2>2 DEF Commits, OwnInv
<1> QED BY <1>3, <1>4, <1>5 DEF Proceeds, GetsOn, Visits

\* A consumer that is at work has a message.
LEMMA HasMessage ==
  ASSUME FlowTyped, NEW c \in Consumers, consumers[c].at # "idle"
  PROVE  consumers[c].msg \in Messages
  BY FlowTypedParts DEF ConsumersTyped, IsConsumer

\* The row of an execution is created once and ended once.
LEMMA BeginsRow ==
  ASSUME FlowTyped, NEW m \in Messages, executions' = [executions EXCEPT ![m] = Append(@, "running")]
  PROVE  /\ executions' \in [Messages -> Seq(Outcomes)]
         /\ \A n \in Messages \ {m} : executions'[n] = executions[n]
         /\ Len(executions'[m]) = Len(executions[m]) + 1 /\ executions'[m] # <<>>
         /\ \A i \in 1..Len(executions'[m]) :
              executions'[m][i] = IF i = Len(executions'[m]) THEN "running" ELSE executions[m][i]
<1>1. executions \in [Messages -> Seq(Outcomes)] /\ executions[m] \in Seq(Outcomes) /\ "running" \in Outcomes
  BY FlowTypedParts DEF RunsTyped, Outcomes
<1>2. executions'[m] = Append(executions[m], "running") /\ \A n \in Messages \ {m} : executions'[n] = executions[n]
  BY <1>1
<1>3. Append(executions[m], "running") \in Seq(Outcomes)
  BY <1>1
<1>4. executions' \in [Messages -> Seq(Outcomes)]
  BY <1>1, <1>3
<1> QED BY <1>1, <1>2, <1>4

LEMMA EndsRow ==
  ASSUME FlowTyped, NEW m \in Messages, executions[m] # <<>>, NEW o \in Outcomes,
         executions' = [executions EXCEPT ![m] = [@ EXCEPT ![Len(executions[m])] = o]]
  PROVE  /\ executions' \in [Messages -> Seq(Outcomes)]
         /\ \A n \in Messages \ {m} : executions'[n] = executions[n]
         /\ Len(executions'[m]) = Len(executions[m]) /\ executions'[m] # <<>>
         /\ \A i \in 1..Len(executions[m]) :
              executions'[m][i] = IF i = Len(executions[m]) THEN o ELSE executions[m][i]
<1> DEFINE s == executions[m]
           t == [s EXCEPT ![Len(s)] = o]
<1>1. executions \in [Messages -> Seq(Outcomes)] /\ s \in Seq(Outcomes)
  BY FlowTypedParts DEF RunsTyped
<1>2. Len(s) \in DOMAIN s /\ DOMAIN s = 1..Len(s)
  BY <1>1
<1>3. t \in Seq(Outcomes) /\ Len(t) = Len(s)
      /\ \A i \in DOMAIN s : t[i] = IF i = Len(s) THEN o ELSE s[i]
  BY <1>1, <1>2, ReplacedInSeq
<1>4. executions'[m] = t /\ \A n \in Messages \ {m} : executions'[n] = executions[n]
  BY <1>1
<1>5. executions' \in [Messages -> Seq(Outcomes)]
  BY <1>1, <1>3
<1>6. t # <<>>
  BY <1>1, <1>2, <1>3
<1> QED BY <1>2, <1>3, <1>4, <1>5, <1>6

\* What a step of a consumer leaves of the counters and the rows of each message.
LEMMA NextRuns ==
  ASSUME FlowTyped, UnderWayInv, NEW c \in Consumers, NEW k, Proceeds(c, k), IsConsumer(k)
  PROVE  /\ RunsTyped'
         /\ \A m \in Messages : m # consumers[c].msg =>
              executions'[m] = executions[m] /\ replies'[m] = replies[m] /\ stored'[m] = stored[m]
         /\ LET m == consumers[c].msg
            IN  IF consumers[c].at = "begin" /\ k.at = "visit"
                THEN Len(executions'[m]) = Len(executions[m]) + 1
                ELSE consumers[c].at # "idle" => Len(executions'[m]) = Len(executions[m])
<1> DEFINE m == consumers[c].msg
           Goal == /\ RunsTyped'
                   /\ \A n \in Messages : n # m =>
                        executions'[n] = executions[n] /\ replies'[n] = replies[n] /\ stored'[n] = stored[n]
                   /\ IF consumers[c].at = "begin" /\ k.at = "visit"
                      THEN Len(executions'[m]) = Len(executions[m]) + 1
                      ELSE consumers[c].at # "idle" => Len(executions'[m]) = Len(executions[m])
<1> USE FlowTypedParts
<1>1. consumers[c].at # "idle" => m \in Messages
  BY HasMessage
<1>2. ASSUME UNCHANGED <<results, executions, replies, stored, unsettled>>, ~(consumers[c].at = "begin" /\ k.at = "visit")
      PROVE  Goal
  BY <1>2 DEF RunsTyped
<1>3. CASE Takes(c, k) \/ Visits(c, k)
  BY <1>2, <1>3 DEF Takes, Visits
<1>4. CASE Commits(c, k)
  <2>1. results' \in [Messages -> Results \cup {Nothing}]
    BY <1>4 DEF Commits, RunsTyped
  <2> QED BY <1>4, <2>1 DEF Commits, RunsTyped
<1>5. CASE GetsOn(c, k)
  <2>1. CASE consumers[c].at \in Before /\ k.at \in Before \cup {"commit"} /\ UNCHANGED <<executions, replies, stored, unsettled>>
    BY <1>2, <1>5, <2>1 DEF GetsOn, Before
  <2>2. CASE /\ consumers[c].at = "begin" /\ k.at = "visit"
             /\ executions' = [executions EXCEPT ![k.msg] = Append(@, "running")]
             /\ UNCHANGED <<replies, stored, unsettled>>
    <3>1. m \in Messages /\ k.msg = m
      BY <1>1, <1>5, <2>2 DEF GetsOn
    <3>2. /\ executions' \in [Messages -> Seq(Outcomes)]
          /\ \A n \in Messages \ {m} : executions'[n] = executions[n]
          /\ Len(executions'[m]) = Len(executions[m]) + 1
      BY <2>2, <3>1, BeginsRow
    <3> QED BY <1>5, <2>2, <3>2 DEF GetsOn, RunsTyped
  <2>3. CASE consumers[c].at \in During /\ UNCHANGED <<executions, replies, stored, unsettled>>
    BY <1>2, <1>5, <2>3 DEF GetsOn, During
  <2>4. CASE /\ consumers[c].at = "send" /\ replies' = [replies EXCEPT ![k.msg] = @ + 1]
             /\ UNCHANGED <<executions, stored, unsettled>>
    <3>1. m \in Messages /\ k.msg = m
      BY <1>1, <1>5, <2>4 DEF GetsOn
    <3> QED BY <1>5, <2>4, <3>1 DEF GetsOn, RunsTyped
  <2>5. CASE /\ consumers[c].at = "save" /\ stored' = [stored EXCEPT ![k.msg] = @ + 1]
             /\ UNCHANGED <<executions, replies, unsettled>>
    <3>1. m \in Messages /\ k.msg = m
      BY <1>1, <1>5, <2>5 DEF GetsOn
    <3> QED BY <1>5, <2>5, <3>1 DEF GetsOn, RunsTyped
  <2>6. CASE /\ consumers[c].at \in {"settle", "fail"} /\ k.at = "commit"
             /\ \E o \in {"completed", "waiting", "failed"} :
                  executions' = [executions EXCEPT ![k.msg] = [@ EXCEPT ![Len(executions[k.msg])] = o]]
             /\ UNCHANGED <<replies, stored, unsettled>>
    <3>1. m \in Messages /\ k.msg = m
      BY <1>1, <1>5, <2>6 DEF GetsOn
    <3>2. c \in Working
      BY <2>6 DEF Working
    <3>3. executions[m] # <<>>
      BY <3>2 DEF UnderWayInv, UnderWay
    <3>4. PICK o \in Outcomes : executions' = [executions EXCEPT ![m] = [@ EXCEPT ![Len(executions[m])] = o]]
      BY <2>6, <3>1 DEF Outcomes
    <3>5. /\ executions' \in [Messages -> Seq(Outcomes)]
          /\ \A n \in Messages \ {m} : executions'[n] = executions[n]
          /\ Len(executions'[m]) = Len(executions[m])
      BY <3>1, <3>3, <3>4, EndsRow
    <3> QED BY <1>5, <2>6, <3>5 DEF GetsOn, RunsTyped
  <2>7. CASE consumers[c].at = "fail" /\ unsettled' = unsettled + 1 /\ UNCHANGED <<executions, replies, stored>>
    BY <1>5, <2>7 DEF GetsOn, RunsTyped
  <2> QED BY <1>5, <2>1, <2>2, <2>3, <2>4, <2>5, <2>6, <2>7 DEF GetsOn
<1>6. Goal
  BY <1>3, <1>4, <1>5 DEF Proceeds
<1> QED BY <1>6

LEMMA RunsValues ==
  ASSUME FlowTyped, NEW m \in Messages
  PROVE  /\ Len(executions[m]) \in Nat /\ replies[m] \in Nat /\ stored[m] \in Nat
         /\ answered[m] \in Nat /\ crashes \in Nat
         /\ executions[m] # <<>> => Len(executions[m]) > 0
<1>1. executions[m] \in Seq(Outcomes) /\ RunsTyped /\ CountsTyped
  BY FlowTypedParts DEF RunsTyped
<1>2. Len(executions[m]) \in Nat /\ (executions[m] # <<>> => Len(executions[m]) > 0)
  BY <1>1
<1> QED BY <1>1, <1>2 DEF RunsTyped, CountsTyped

LEMMA NextCountInv ==
  ASSUME FlowTyped, OwnInv, CountInv, UnderWayInv, NEW c \in Consumers, NEW k,
         consumers' = [consumers EXCEPT ![c] = k], IsConsumer(k), Proceeds(c, k),
         UNCHANGED <<answered, crashes, asked>>
  PROVE  CountInv'
<1>1. consumers'[c] = k /\ \A d \in Consumers \ {c} : consumers'[d] = consumers[d]
  BY OthersRest
<1>2. ASSUME NEW m \in Messages, Awaits(m)'
      PROVE  Awaits(m) /\ (m = consumers[c].msg => k.at \in Before)
  <2>1. results'[m] # Nothing /\ \A d \in Consumers : consumers'[d].msg = m => consumers'[d].at \in Before
    BY <1>2 DEF Awaits, Before
  <2>2. CASE Takes(c, k)
    <3>1. consumers[c].msg = Nothing
      BY <2>2, FlowTypedParts DEF Takes, ConsumersTyped, IsConsumer
    <3>2. results[m] # Nothing
      BY <2>1, <2>2 DEF Takes
    <3>3. \A d \in Consumers : consumers[d].msg = m => consumers[d].at \in Before
      BY <1>1, <2>1, <3>1, PipelineAssumption
    <3> QED BY <3>1, <3>2, <3>3, PipelineAssumption DEF Awaits, Before
  <2>3. CASE k.msg = consumers[c].msg /\ UNCHANGED results
    <3>1. m = consumers[c].msg => k.at \in Before
      BY <1>1, <2>1, <2>3
    <3>2. m = consumers[c].msg => consumers[c].at \in Before
      BY <2>3, <3>1 DEF Proceeds, Takes, GetsOn, Visits, Commits, Before, During
    <3>3. \A d \in Consumers : consumers[d].msg = m => consumers[d].at \in Before
      BY <1>1, <2>1, <3>2
    <3> QED BY <2>1, <2>3, <3>1, <3>3 DEF Awaits, Before
  <2>4. CASE Commits(c, k)
    <3>1. consumers[c].msg \in Messages
      BY <2>4, HasMessage DEF Commits
    <3>2. results'[consumers[c].msg] = Nothing /\ \A n \in Messages : n # consumers[c].msg => results'[n] = results[n]
      BY <2>4, <3>1, FlowTypedParts DEF Commits, RunsTyped
    <3>3. m # consumers[c].msg /\ results[m] # Nothing
      BY <2>1, <3>2
    <3>4. \A d \in Consumers : consumers[d].msg = m => consumers[d].at \in Before
      BY <1>1, <2>1, <3>3
    <3> QED BY <3>3, <3>4 DEF Awaits, Before
  <2> QED BY <2>2, <2>3, <2>4 DEF Proceeds, GetsOn, Visits
<1>3. ASSUME NEW m \in Messages
      PROVE  /\ answered'[m] <= asked'[m]
             /\ Len(executions'[m]) <= answered'[m] + crashes'
             /\ Awaits(m)' => Len(executions'[m]) < answered'[m] + crashes'
  <2>1. answered[m] <= asked[m] /\ Len(executions[m]) <= answered[m] + crashes
        /\ (Awaits(m) => Len(executions[m]) < answered[m] + crashes)
    BY DEF CountInv
  <2>2. CASE Len(executions'[m]) = Len(executions[m])
    BY <1>2, <2>1, <2>2
  <2>3. CASE m = consumers[c].msg /\ consumers[c].at = "begin" /\ k.at = "visit"
    <3>1. Len(executions'[m]) = Len(executions[m]) + 1
      BY <2>3, NextRuns
    <3>2. results[m] # Nothing /\ \A d \in Consumers : consumers[d].msg = m => d = c
      BY <2>3, PipelineAssumption DEF OwnInv
    <3>3. Awaits(m)
      BY <2>3, <3>2 DEF Awaits
    <3>4. ~Awaits(m)'
      BY <1>2, <2>3 DEF Before
    <3> QED BY <2>1, <3>1, <3>3, <3>4, RunsValues
  <2>4. m # consumers[c].msg => executions'[m] = executions[m]
    BY NextRuns
  <2>5. m = consumers[c].msg => consumers[c].at # "idle"
    BY FlowTypedParts, PipelineAssumption DEF ConsumersTyped, IsConsumer
  <2>6. m = consumers[c].msg /\ ~(consumers[c].at = "begin" /\ k.at = "visit") => Len(executions'[m]) = Len(executions[m])
    BY <2>5, NextRuns
  <2> QED BY <2>2, <2>3, <2>4, <2>6
<1> QED BY <1>3 DEF CountInv

\* An execution that is under way stays within what it may send.
LEMMA Within ==
  ASSUME FlowTyped, NEW c \in Working, UnderWay(c)
  PROVE  LET m == consumers[c].msg
         IN  /\ m \in Messages /\ Len(executions[m]) > 0
             /\ replies[m] <= Len(executions[m]) * MaxIterations
             /\ consumers[c].at = "send" => replies[m] + 1 <= Len(executions[m]) * MaxIterations
<1> DEFINE m == consumers[c].msg
           n == Len(executions[m])
<1>1. c \in Consumers /\ consumers[c].at # "idle"
  BY DEF Working
<1>2. m \in Messages
  BY <1>1, HasMessage
<1>3. n \in Nat /\ n > 0 /\ replies[m] \in Nat
  BY <1>2, RunsValues DEF UnderWay
<1>4. consumers[c].visits \in 0..MaxIterations
  BY <1>1, FlowTypedParts DEF ConsumersTyped, IsConsumer
<1>5. replies[m] + (IF consumers[c].at = "send" THEN 1 ELSE 0) <= (n - 1) * MaxIterations + consumers[c].visits
  BY DEF UnderWay
<1>6. (n - 1) * MaxIterations \in Nat /\ n * MaxIterations = (n - 1) * MaxIterations + MaxIterations
  BY <1>3, Products
<1> QED BY <1>2, <1>3, <1>4, <1>5, <1>6, PipelineAssumption

LEMMA NextSpentInv ==
  ASSUME FlowTyped, SpentInv, UnderWayInv, NEW c \in Consumers, NEW k, IsConsumer(k), Proceeds(c, k)
  PROVE  SpentInv'
<1> DEFINE m == consumers[c].msg
           Fine(n) == stored'[n] <= replies'[n] /\ replies'[n] <= Len(executions'[n]) * MaxIterations
<1>1. ASSUME NEW n \in Messages, replies'[n] = replies[n], stored'[n] = stored[n],
             Len(executions'[n]) = Len(executions[n]) \/ Len(executions'[n]) = Len(executions[n]) + 1
      PROVE  Fine(n)
  <2>1. stored[n] <= replies[n] /\ replies[n] <= Len(executions[n]) * MaxIterations
    BY DEF SpentInv
  <2>2. (Len(executions[n]) + 1) * MaxIterations = Len(executions[n]) * MaxIterations + MaxIterations
        /\ Len(executions[n]) * MaxIterations \in Nat /\ replies[n] \in Nat
    BY RunsValues, Products
  <2> QED BY <1>1, <2>1, <2>2, PipelineAssumption
<1>2. ASSUME NEW n \in Messages
      PROVE  Fine(n)
  <2>1. CASE n # m
    BY <1>1, <2>1, NextRuns
  <2>2. CASE n = m
    <3>1. consumers[c].at # "idle"
      BY <2>2, FlowTypedParts, PipelineAssumption DEF ConsumersTyped, IsConsumer
    <3>2. Len(executions'[m]) = Len(executions[m]) \/ Len(executions'[m]) = Len(executions[m]) + 1
      BY <3>1, NextRuns
    <3>3. CASE UNCHANGED <<replies, stored>>
      BY <1>1, <2>2, <3>2, <3>3
    <3>4. CASE consumers[c].at = "send" /\ k.msg = m /\ replies' = [replies EXCEPT ![k.msg] = @ + 1] /\ UNCHANGED <<executions, stored>>
      <4>1. c \in Working
        BY <3>4 DEF Working
      <4>2. replies[m] + 1 <= Len(executions[m]) * MaxIterations
        BY <3>4, <4>1, Within DEF UnderWayInv
      <4>3. replies'[m] = replies[m] + 1
        BY <2>2, <3>4, FlowTypedParts DEF RunsTyped
      <4>4. stored[m] <= replies[m] /\ stored[m] \in Nat /\ replies[m] \in Nat
        BY <2>2, RunsValues DEF SpentInv
      <4> QED BY <2>2, <3>4, <4>2, <4>3, <4>4
    <3>5. CASE consumers[c].at = "save" /\ k.msg = m /\ stored' = [stored EXCEPT ![k.msg] = @ + 1] /\ UNCHANGED <<executions, replies>>
      <4>1. c \in Working
        BY <3>5 DEF Working
      <4>2. stored[m] < replies[m]
        BY <3>5, <4>1 DEF UnderWayInv, UnderWay
      <4>3. stored'[m] = stored[m] + 1
        BY <2>2, <3>5, FlowTypedParts DEF RunsTyped
      <4>4. replies[m] <= Len(executions[m]) * MaxIterations /\ stored[m] \in Nat /\ replies[m] \in Nat
        BY <2>2, RunsValues DEF SpentInv
      <4> QED BY <2>2, <3>5, <4>2, <4>3, <4>4
    <3> QED BY <3>3, <3>4, <3>5 DEF Proceeds, Takes, GetsOn, Visits, Commits
  <2> QED BY <2>1, <2>2
<1> QED BY <1>2 DEF SpentInv

LEMMA NextUnderWayInv ==
  ASSUME FlowTyped, OwnInv, SpentInv, UnderWayInv, NEW c \in Consumers, NEW k,
         consumers' = [consumers EXCEPT ![c] = k], IsConsumer(k), Proceeds(c, k)
  PROVE  UnderWayInv'
<1> DEFINE m == consumers[c].msg
<1>1. consumers'[c] = k /\ \A d \in Consumers \ {c} : consumers'[d] = consumers[d]
  BY OthersRest
<1>2. ASSUME NEW d \in Working', d # c
      PROVE  UnderWay(d)'
  <2>1. d \in Working /\ d \in Consumers /\ consumers'[d] = consumers[d]
    BY <1>1, <1>2 DEF Working
  <2>2. consumers[d].msg \in Messages /\ consumers[d].msg # m
    BY <1>2, <2>1, HasMessage, PipelineAssumption DEF Working, OwnInv
  <2>3. /\ executions'[consumers[d].msg] = executions[consumers[d].msg]
        /\ replies'[consumers[d].msg] = replies[consumers[d].msg]
        /\ stored'[consumers[d].msg] = stored[consumers[d].msg]
    BY <2>2, NextRuns
  <2>4. UnderWay(d)
    BY <2>1 DEF UnderWayInv
  <2> QED BY <2>1, <2>3, <2>4 DEF UnderWay
<1>3. ASSUME c \in Working'
      PROVE  UnderWay(c)'
  <2>1. k.at \in During
    BY <1>1, <1>3 DEF Working, During
  <2>2. consumers[c].at # "idle" /\ k.msg = m /\ UNCHANGED results
    BY <2>1 DEF Proceeds, Takes, GetsOn, Visits, Commits, Before, During
  <2>3. m \in Messages
    BY <2>2, HasMessage
  <2>4. /\ Len(executions[m]) \in Nat /\ replies[m] \in Nat /\ stored[m] \in Nat
    BY <2>3, RunsValues
  <2>5. CASE /\ consumers[c].at = "begin" /\ k.at = "visit" /\ k.visits = consumers[c].visits
             /\ executions' = [executions EXCEPT ![m] = Append(@, "running")]
             /\ UNCHANGED <<replies, stored, unsettled>>
    <3>1. executions'[m] # <<>> /\ Len(executions'[m]) = Len(executions[m]) + 1
      BY <2>3, <2>5, BeginsRow
    <3>2. executions'[m][Len(executions'[m])] = "running"
      BY <2>3, <2>4, <2>5, <3>1, BeginsRow
    <3>3. k.visits = 0
      BY <2>5, FlowTypedParts DEF ConsumersTyped, IsConsumer
    <3>4. replies[m] <= Len(executions[m]) * MaxIterations
      BY <2>3 DEF SpentInv
    <3>5. Len(executions[m]) * MaxIterations \in Nat
      BY <2>4, Products
    <3>6. Len(executions'[m]) - 1 = Len(executions[m])
      BY <2>4, <3>1
    <3> QED BY <1>1, <2>2, <2>4, <2>5, <3>1, <3>2, <3>3, <3>4, <3>5, <3>6 DEF UnderWay
  <2>6. ASSUME consumers[c].at \in During
        PROVE  UnderWay(c) /\ executions[m] # <<>> /\ executions[m][Len(executions[m])] = "running"
               /\ (Len(executions[m]) - 1) * MaxIterations \in Nat
               /\ consumers[c].visits \in Nat
    <3>1. UnderWay(c)
      BY <2>6 DEF During, Working, UnderWayInv
    <3>2. consumers[c].visits \in Nat
      BY FlowTypedParts, PipelineAssumption DEF ConsumersTyped, IsConsumer
    <3>3. Len(executions[m]) > 0
      BY <2>3, <3>1, RunsValues DEF UnderWay
    <3> QED BY <2>4, <3>1, <3>2, <3>3, Products DEF UnderWay
  <2>7. CASE Visits(c, k)
    <3>1. consumers[c].at = "visit" /\ k.visits = consumers[c].visits + 1 /\ k.at # "save"
      BY <2>7 DEF Visits
    <3>2. replies[m] + 0 <= (Len(executions[m]) - 1) * MaxIterations + consumers[c].visits
      BY <2>6, <3>1 DEF UnderWay, During
    <3>3. replies[m] + 1 <= (Len(executions[m]) - 1) * MaxIterations + k.visits
          /\ replies[m] + 0 <= (Len(executions[m]) - 1) * MaxIterations + k.visits
      <4> DEFINE sent == (Len(executions[m]) - 1) * MaxIterations
      <4>1. sent \in Nat /\ consumers[c].visits \in Nat
        BY <2>6, <3>1 DEF During
      <4>2. replies[m] + 0 <= sent + consumers[c].visits
        BY <3>2
      <4> HIDE DEF sent
      <4>3. replies[m] + 1 <= sent + k.visits /\ replies[m] + 0 <= sent + k.visits
        BY <2>4, <3>1, <4>1, <4>2
      <4> QED BY <4>3 DEF sent
    <3>4. executions'[m] # <<>> /\ executions'[m][Len(executions'[m])] = "running"
      BY <2>6, <2>7, <3>1 DEF During, Visits
    <3> QED BY <1>1, <2>2, <2>7, <3>1, <3>3, <3>4 DEF Visits, UnderWay
  <2>8. CASE consumers[c].at \in During /\ k.at \in {"visit", "follow", "settle", "fail"}
             /\ k.visits = consumers[c].visits /\ UNCHANGED <<executions, replies, stored, unsettled>>
    <3>1. executions'[m] # <<>> /\ executions'[m][Len(executions'[m])] = "running"
      BY <2>6, <2>8
    <3>2. \/ replies[m] + 0 <= (Len(executions[m]) - 1) * MaxIterations + consumers[c].visits
          \/ replies[m] + 1 <= (Len(executions[m]) - 1) * MaxIterations + consumers[c].visits
      BY <2>6, <2>8 DEF UnderWay
    <3>3. replies[m] + 0 <= (Len(executions[m]) - 1) * MaxIterations + consumers[c].visits
      BY <2>4, <2>6, <2>8, <3>2
    <3> QED BY <1>1, <2>2, <2>8, <3>1, <3>3 DEF UnderWay
  <2>9. CASE consumers[c].at = "send" /\ k.at = "save" /\ k.visits = consumers[c].visits
             /\ replies' = [replies EXCEPT ![m] = @ + 1] /\ UNCHANGED <<executions, stored, unsettled>>
    <3>1. replies'[m] = replies[m] + 1
      BY <2>3, <2>9, FlowTypedParts DEF RunsTyped
    <3>2. stored[m] <= replies[m]
      BY <2>3 DEF SpentInv
    <3>3. replies[m] + 1 <= (Len(executions[m]) - 1) * MaxIterations + consumers[c].visits
      BY <2>6, <2>9 DEF UnderWay, During
    <3>4. stored'[m] < replies'[m]
      BY <2>4, <2>9, <3>1, <3>2
    <3>5. replies'[m] + 0 <= (Len(executions'[m]) - 1) * MaxIterations + k.visits
      BY <2>4, <2>9, <3>1, <3>3
    <3>6. executions'[m] # <<>> /\ executions'[m][Len(executions'[m])] = "running"
      BY <2>6, <2>9 DEF During
    <3> QED BY <1>1, <2>2, <2>9, <3>4, <3>5, <3>6 DEF UnderWay
  <2>10. CASE consumers[c].at = "save" /\ k.at = "follow" /\ k.visits = consumers[c].visits
              /\ stored' = [stored EXCEPT ![m] = @ + 1] /\ UNCHANGED <<executions, replies, unsettled>>
    <3>1. executions'[m] # <<>> /\ executions'[m][Len(executions'[m])] = "running"
      BY <2>6, <2>10 DEF During
    <3>2. replies[m] + 0 <= (Len(executions[m]) - 1) * MaxIterations + consumers[c].visits
      BY <2>6, <2>10 DEF UnderWay, During
    <3> QED BY <1>1, <2>2, <2>10, <3>1, <3>2 DEF UnderWay
  <2> QED BY <2>1, <2>2, <2>5, <2>7, <2>8, <2>9, <2>10 DEF Proceeds, Takes, GetsOn, Commits, Before, During
<1>4. \A d \in Working' : UnderWay(d)'
  BY <1>2, <1>3
<1> QED BY <1>4 DEF UnderWayInv

-----------------------------------------------------------------------------
(* The workflows: executions shown as running.                             *)

LEMMA WorkingFinite ==
  IsFiniteSet(Working) /\ Cardinality(Working) \in Nat
  BY PipelineAssumption, FS_Subset, FS_CardinalityType DEF Working

LEMMA RunningFinite ==
  IsFiniteSet(Running) /\ Cardinality(Running) \in Nat
<1>1. IsFiniteSet(1..(MaxCrashes + 1))
  <2>1. 1 \in Int /\ MaxCrashes + 1 \in Int
    BY PipelineAssumption
  <2> QED BY <2>1, FS_Interval
<1>2. IsFiniteSet(Messages \X (1..(MaxCrashes + 1)))
  BY <1>1, FS_Product, PipelineAssumption
<1> QED BY <1>2, FS_Subset, FS_CardinalityType DEF Running

\* A message has no more rows than it can be executed.
LEMMA FewRows ==
  ASSUME FlowTyped, CountInv, AskInv, IntakeTyped, NEW m \in Messages
  PROVE  Len(executions[m]) <= MaxCrashes + 1
<1>1. asked[m] \in Nat /\ answered[m] \in Nat /\ crashes \in 0..MaxCrashes /\ Len(executions[m]) \in Nat
  BY TypedParts, FlowTypedParts, RunsValues DEF RestTyped, CountsTyped
<1>2. asked[m] <= 1
  BY <1>1 DEF AskInv
<1>3. answered[m] <= asked[m] /\ Len(executions[m]) <= answered[m] + crashes
  BY DEF CountInv
<1> QED BY <1>1, <1>2, <1>3, PipelineAssumption

\* While c creates the row of its execution, and while it ends it.
LEMMA RowAdded ==
  ASSUME FlowTyped, NEW m \in Messages, Len(executions[m]) + 1 <= MaxCrashes + 1,
         executions' = [executions EXCEPT ![m] = Append(@, "running")]
  PROVE  Cardinality(Running') = Cardinality(Running) + 1
<1>0. PICK n : n = Len(executions[m]) + 1
  OBVIOUS
<1> DEFINE e == <<m, n>>
<1>1. n \in Nat /\ n > 0 /\ executions[m] \in Seq(Outcomes) /\ executions \in [Messages -> Seq(Outcomes)]
  BY <1>0, RunsValues, FlowTypedParts DEF RunsTyped
<1>2. /\ executions' \in [Messages -> Seq(Outcomes)]
      /\ \A x \in Messages \ {m} : executions'[x] = executions[x]
      /\ Len(executions'[m]) = n
      /\ \A i \in 1..n : executions'[m][i] = IF i = n THEN "running" ELSE executions[m][i]
  BY <1>0, BeginsRow
<1>3. DOMAIN executions'[m] = 1..n /\ DOMAIN executions[m] = 1..(n - 1)
  BY <1>1, <1>2, LenProperties
<1>4. e \in Messages \X (1..(MaxCrashes + 1))
  BY <1>0, <1>1, PipelineAssumption
<1>5. Shown(e)' /\ ~Shown(e)
  BY <1>0, <1>1, <1>2, <1>3 DEF Shown
<1>6. ASSUME NEW x \in Messages \X (1..(MaxCrashes + 1)), x # e
      PROVE  Shown(x)' <=> Shown(x)
  <2>1. x[1] \in Messages /\ x[2] \in Nat /\ (x[1] # m \/ x[2] # n)
    BY <1>6
  <2>2. CASE x[1] # m
    BY <1>2, <2>1, <2>2 DEF Shown
  <2>3. CASE x[1] = m
    BY <1>1, <1>2, <1>3, <2>1, <2>3 DEF Shown
  <2> QED BY <2>2, <2>3
<1>7. Running' = Running \cup {e} /\ e \notin Running
  BY <1>4, <1>5, <1>6 DEF Running
<1> QED BY <1>7, RunningFinite, FS_AddElement

LEMMA RowEnded ==
  ASSUME FlowTyped, NEW m \in Messages, Len(executions[m]) <= MaxCrashes + 1, executions[m] # <<>>,
         executions[m][Len(executions[m])] = "running", NEW o \in Outcomes \ {"running"},
         executions' = [executions EXCEPT ![m] = [@ EXCEPT ![Len(executions[m])] = o]]
  PROVE  Cardinality(Running') = Cardinality(Running) - 1
<1>0. PICK n : n = Len(executions[m])
  OBVIOUS
<1> DEFINE e == <<m, n>>
<1>1. n \in Nat /\ n > 0 /\ executions[m] \in Seq(Outcomes)
  BY <1>0, RunsValues, FlowTypedParts DEF RunsTyped
<1>2. /\ executions' \in [Messages -> Seq(Outcomes)]
      /\ \A x \in Messages \ {m} : executions'[x] = executions[x]
      /\ Len(executions'[m]) = n
      /\ \A i \in 1..n : executions'[m][i] = IF i = n THEN o ELSE executions[m][i]
  <2>1. o \in Outcomes
    OBVIOUS
  <2>2. /\ executions' \in [Messages -> Seq(Outcomes)]
        /\ \A x \in Messages \ {m} : executions'[x] = executions[x]
        /\ Len(executions'[m]) = Len(executions[m])
        /\ \A i \in 1..Len(executions[m]) :
             executions'[m][i] = IF i = Len(executions[m]) THEN o ELSE executions[m][i]
    BY <2>1, EndsRow
  <2> QED BY <1>0, <2>2
<1>3. DOMAIN executions'[m] = 1..n /\ DOMAIN executions[m] = 1..n
  BY <1>1, <1>2, LenProperties
<1>4. e \in Messages \X (1..(MaxCrashes + 1))
  BY <1>0, <1>1, PipelineAssumption
<1>5. ~Shown(e)' /\ Shown(e)
  BY <1>0, <1>1, <1>2, <1>3 DEF Shown
<1>6. ASSUME NEW x \in Messages \X (1..(MaxCrashes + 1)), x # e
      PROVE  Shown(x)' <=> Shown(x)
  <2>1. x[1] \in Messages /\ x[2] \in Nat /\ (x[1] # m \/ x[2] # n)
    BY <1>6
  <2>2. CASE x[1] # m
    BY <1>2, <2>1, <2>2 DEF Shown
  <2>3. CASE x[1] = m
    BY <1>1, <1>2, <1>3, <2>1, <2>3 DEF Shown
  <2> QED BY <2>2, <2>3
<1>7. Running' = Running \ {e} /\ e \in Running
  BY <1>4, <1>5, <1>6 DEF Running
<1> QED BY <1>7, RunningFinite, FS_RemoveElement

LEMMA NextRunning ==
  ASSUME FlowTyped, OwnInv, CountInv, UnderWayInv, RunningIsWorkedOn,
         \A m \in Messages : Len(executions[m]) <= MaxCrashes + 1 /\ Len(executions'[m]) <= MaxCrashes + 1,
         NEW c \in Consumers, NEW k, consumers' = [consumers EXCEPT ![c] = k], IsConsumer(k), Proceeds(c, k)
  PROVE  RunningIsWorkedOn'
<1> DEFINE m == consumers[c].msg
<1>1. consumers'[c] = k /\ \A d \in Consumers \ {c} : consumers'[d] = consumers[d]
  BY OthersRest
<1>2. Cardinality(Running) = Cardinality(Working) + unsettled /\ unsettled \in Nat
  BY FlowTypedParts DEF RunningIsWorkedOn, RunsTyped
<1>3. (c \in Working <=> consumers[c].at \in During) /\ (c \in Working' <=> k.at \in During)
  BY <1>1 DEF Working, During
<1>4. ASSUME UNCHANGED <<executions, unsettled>>, consumers[c].at \in During <=> k.at \in During
      PROVE  RunningIsWorkedOn'
  <2>1. Working' = Working
    BY <1>1, <1>3, <1>4 DEF Working
  <2>2. Running' = Running
    BY <1>4 DEF Running, Shown
  <2> QED BY <1>2, <1>4, <2>1, <2>2 DEF RunningIsWorkedOn
<1>5. consumers[c].at # "idle" => m \in Messages
  BY HasMessage
<1>6. ASSUME consumers[c].at \in During, k.at = "commit"
      PROVE  Cardinality(Working') = Cardinality(Working) - 1 /\ Cardinality(Working) \in Nat
  <2>1. c \in Working /\ c \notin Working'
    BY <1>3, <1>6 DEF During
  <2>2. Working' = Working \ {c}
    BY <1>1, <2>1 DEF Working
  <2> QED BY <2>1, <2>2, WorkingFinite, FS_RemoveElement
<1>7. CASE /\ consumers[c].at = "begin" /\ k.at = "visit" /\ k.msg = m
           /\ executions' = [executions EXCEPT ![k.msg] = Append(@, "running")]
           /\ UNCHANGED unsettled
  <2>1. m \in Messages
    BY <1>5, <1>7
  <2>2. Len(executions'[m]) = Len(executions[m]) + 1
    BY <1>7, <2>1, BeginsRow
  <2>3. Len(executions[m]) + 1 <= MaxCrashes + 1
    BY <2>1, <2>2
  <2>4. Cardinality(Running') = Cardinality(Running) + 1
    BY <1>7, <2>1, <2>3, RowAdded
  <2>5. c \notin Working /\ c \in Working'
    BY <1>3, <1>7 DEF During
  <2>6. Working' = Working \cup {c}
    BY <1>1, <2>5 DEF Working
  <2>7. Cardinality(Working') = Cardinality(Working) + 1 /\ Cardinality(Working) \in Nat
    BY <2>5, <2>6, WorkingFinite, FS_AddElement
  <2> QED BY <1>2, <1>7, <2>4, <2>7 DEF RunningIsWorkedOn
<1>8. CASE /\ consumers[c].at \in {"settle", "fail"} /\ k.at = "commit" /\ k.msg = m
           /\ \E o \in {"completed", "waiting", "failed"} :
                executions' = [executions EXCEPT ![k.msg] = [@ EXCEPT ![Len(executions[k.msg])] = o]]
           /\ UNCHANGED unsettled
  <2>1. m \in Messages /\ c \in Working
    BY <1>3, <1>5, <1>8 DEF During
  <2>2. executions[m] # <<>> /\ executions[m][Len(executions[m])] = "running"
    BY <2>1 DEF UnderWayInv, UnderWay
  <2>3. PICK o \in Outcomes \ {"running"} : executions' = [executions EXCEPT ![m] = [@ EXCEPT ![Len(executions[m])] = o]]
    BY <1>8 DEF Outcomes
  <2>4. Cardinality(Running') = Cardinality(Running) - 1
    BY <2>1, <2>2, <2>3, RowEnded
  <2>5. Cardinality(Working') = Cardinality(Working) - 1 /\ Cardinality(Working) \in Nat
    BY <1>6, <1>8 DEF During
  <2> QED BY <1>2, <1>8, <2>4, <2>5, RunningFinite DEF RunningIsWorkedOn
<1>9. CASE consumers[c].at = "fail" /\ k.at = "commit" /\ unsettled' = unsettled + 1 /\ UNCHANGED executions
  <2>1. Running' = Running
    BY <1>9 DEF Running, Shown
  <2>2. Cardinality(Working') = Cardinality(Working) - 1 /\ Cardinality(Working) \in Nat
    BY <1>6, <1>9 DEF During
  <2> QED BY <1>2, <1>9, <2>1, <2>2 DEF RunningIsWorkedOn
<1> QED BY <1>4, <1>7, <1>8, <1>9 DEF Proceeds, Takes, GetsOn, Visits, Commits, Before, During

-----------------------------------------------------------------------------
(* The whole pipeline.                                                     *)

\* While a consumer works, the intake rests.
LEMMA NextWorksOn ==
  ASSUME PipelineInv, WorksOn
  PROVE  PipelineInv'
<1> USE FlowTypedParts DEF PipelineInv
<1>1. OwnInv /\ CountInv /\ SpentInv /\ UnderWayInv /\ AskInv
  BY FlowParts, IntakeParts
<1>2. PICK c \in Consumers : Orchestration!Work(c) \/ \E m \in Messages : Orchestration!Take(c, m)
  BY DEF WorksOn, Orchestration!Flow
<1>3. PICK k : IsConsumer(k) /\ consumers' = [consumers EXCEPT ![c] = k] /\ Proceeds(c, k)
  BY <1>2, ConsumerCases
<1>4. UNCHANGED <<leads, convs, rows, connected, circuit, handlers, asked, dropped, most, answered, crashes>>
  BY DEF WorksOn, intakeVars
<1>5. IntakeTyped' /\ IntakeInv' /\ DuplicatesInv'
  <2>1. IntakeTyped'
    BY <1>4 DEF IntakeTyped
  <2>2. IntakeInv'
    BY <1>4 DEF IntakeInv, Knows, HasStored
  <2>3. DuplicatesInv'
    BY <1>4 DEF DuplicatesInv, AtWork, LeadsOf, LeadsToCome, ActiveOf, ConvsToCome, At
  <2> QED BY <2>1, <2>2, <2>3
<1>6. ConsumersTyped'
  BY <1>3, NextConsumersTyped
<1>7. RunsTyped'
  BY <1>1, <1>3, NextRuns
<1>8. CountsTyped'
  BY <1>4 DEF CountsTyped
<1>9. FlowTyped'
  BY <1>6, <1>7, <1>8, RestingValues DEF FlowTyped, ConsumersTyped, RunsTyped, CountsTyped, IsConsumer
<1>10. OwnInv'
  BY <1>1, <1>3, NextOwnInv
<1>11. CountInv'
  BY <1>1, <1>3, <1>4, NextCountInv
<1>12. SpentInv'
  BY <1>1, <1>3, NextSpentInv
<1>13. UnderWayInv'
  BY <1>1, <1>3, NextUnderWayInv
<1>14. FlowInv'
  BY <1>10, <1>11, <1>12, <1>13, FlowPartsNext
<1>15. \A m \in Messages : Len(executions[m]) <= MaxCrashes + 1
  BY <1>1, FewRows
<1>16. \A m \in Messages : Len(executions'[m]) <= MaxCrashes + 1
  <2> TAKE m \in Messages
  <2>1. asked[m] \in Nat /\ answered[m] \in Nat /\ crashes \in 0..MaxCrashes /\ asked[m] <= 1
    BY <1>1, TypedParts DEF RestTyped, CountsTyped, AskInv
  <2>2. answered'[m] <= asked'[m] /\ Len(executions'[m]) <= answered'[m] + crashes'
    BY <1>11 DEF CountInv
  <2>3. Len(executions'[m]) \in Nat
    BY <1>7 DEF RunsTyped
  <2> QED BY <1>4, <2>1, <2>2, <2>3, PipelineAssumption
<1>17. RunningIsWorkedOn'
  BY <1>1, <1>3, <1>15, <1>16, NextRunning
<1> QED BY <1>5, <1>9, <1>14, <1>17

\* What the intake keeps, whatever the workflows do.
LEMMA NextIntakeKept ==
  ASSUME IntakeTyped, IntakeInv, DuplicatesInv, Intake \/ IntakeCrash
  PROVE  IntakeTyped' /\ IntakeInv' /\ DuplicatesInv'
<1>1. KnowInv /\ AskInv
  BY IntakeParts
<1>2. KnowInv' /\ AskInv'
  BY <1>1, NextKnowInv, NextAskInv
<1>3. IntakeInv'
  BY <1>2 DEF IntakeInv, KnowInv, AskInv
<1>4. DuplicatesInv'
  BY <1>1, NextDuplicatesInv
<1> QED BY <1>3, <1>4, NextIntakeTyped

\* While a webhook is handled, the workflows rest, and no more is asked than
\* was asked before.
LEMMA NextTakesIn ==
  ASSUME PipelineInv, TakesIn
  PROVE  PipelineInv'
<1> USE DEF PipelineInv
<1>1. Intake /\ UNCHANGED <<results, consumers, executions, replies, stored, unsettled, answered, crashes>>
  BY DEF TakesIn, orchestrationVars
<1>2. IntakeTyped' /\ IntakeInv' /\ DuplicatesInv'
  BY <1>1, NextIntakeKept
<1>3. FlowTyped'
  BY <1>1 DEF FlowTyped
<1>4. OwnInv /\ CountInv /\ SpentInv /\ UnderWayInv
  BY FlowParts
<1>5. CountInv'
  <2> SUFFICES ASSUME NEW m \in Messages
               PROVE  /\ answered'[m] <= asked'[m]
                      /\ Len(executions'[m]) <= answered'[m] + crashes'
                      /\ Awaits(m)' => Len(executions'[m]) < answered'[m] + crashes'
    BY DEF CountInv
  <2>1. asked[m] \in Nat /\ asked'[m] \in Nat /\ answered[m] \in Nat
    BY <1>2, TypedParts, FlowTypedParts DEF RestTyped, CountsTyped, IntakeTyped
  <2>2. answered[m] <= asked[m] /\ asked[m] <= asked'[m]
    BY <1>1, <1>4, AskedGrows DEF CountInv
  <2>3. Awaits(m)' <=> Awaits(m)
    BY <1>1 DEF Awaits
  <2> QED BY <1>1, <1>4, <2>1, <2>2, <2>3 DEF CountInv
<1>6. OwnInv' /\ SpentInv' /\ UnderWayInv'
  BY <1>1, <1>4 DEF OwnInv, SpentInv, UnderWayInv, UnderWay, Working
<1>7. RunningIsWorkedOn'
  BY <1>1 DEF RunningIsWorkedOn, Running, Shown, Working
<1> QED BY <1>2, <1>3, <1>5, <1>6, <1>7, FlowPartsNext

\* A result that comes back after a stop may be executed once more.
LEMMA NextCrash ==
  ASSUME PipelineInv, Crash
  PROVE  PipelineInv'
<1> USE FlowTypedParts DEF PipelineInv
<1>1. /\ IntakeCrash /\ Orchestration!FlowCrash
      /\ crashes < MaxCrashes /\ crashes' = crashes + 1 /\ UNCHANGED answered
  BY DEF Crash
<1>2. IntakeTyped' /\ IntakeInv' /\ DuplicatesInv'
  BY <1>1, NextIntakeKept
<1>3. /\ consumers' = [c \in Consumers |-> Orchestration!Resting]
      /\ unsettled' = unsettled + Cardinality(Working)
      /\ UNCHANGED <<results, executions, replies, stored>>
  <2> DEFINE during == {c \in Consumers : consumers[c].at \in {"visit", "send", "save", "follow", "settle", "fail"}}
  <2>1. Orchestration!Cardinality(during) = Cardinality(during)
    BY DEF Orchestration!Cardinality, Cardinality
  <2>2. during = Working
    BY DEF Working
  <2> HIDE DEF during
  <2> QED BY <1>1, <2>1, <2>2 DEF Orchestration!FlowCrash, Working
<1>4. \A c \in Consumers : consumers'[c] = Orchestration!Resting
  BY <1>3
<1>5. ConsumersTyped' /\ OwnInv' /\ Working' = {}
  BY <1>3, <1>4, RestingValues DEF ConsumersTyped, IsConsumer, OwnInv, Working
<1>6. RunsTyped' /\ CountsTyped'
  BY <1>1, <1>3, WorkingFinite, PipelineAssumption DEF RunsTyped, CountsTyped
<1>7. FlowTyped'
  BY <1>5, <1>6, RestingValues DEF FlowTyped, ConsumersTyped, RunsTyped, CountsTyped, IsConsumer
<1>8. CountInv /\ SpentInv
  BY FlowParts
<1>9. CountInv'
  <2> SUFFICES ASSUME NEW m \in Messages
               PROVE  /\ answered'[m] <= asked'[m]
                      /\ Len(executions'[m]) <= answered'[m] + crashes'
                      /\ Awaits(m)' => Len(executions'[m]) < answered'[m] + crashes'
    BY DEF CountInv
  <2>1. UNCHANGED asked
    BY <1>1 DEF IntakeCrash
  <2>2. answered[m] \in Nat /\ crashes \in Nat /\ Len(executions[m]) \in Nat
    BY RunsValues
  <2> QED BY <1>1, <1>3, <1>8, <2>1, <2>2 DEF CountInv
<1>10. SpentInv' /\ UnderWayInv'
  BY <1>3, <1>5, <1>8 DEF SpentInv, UnderWayInv
<1>11. RunningIsWorkedOn'
  <2>1. Running' = Running
    BY <1>3 DEF Running, Shown
  <2>2. Cardinality(Running) = Cardinality(Working) + unsettled /\ unsettled \in Nat
    BY DEF RunningIsWorkedOn, RunsTyped
  <2>3. Cardinality(Running') = Cardinality(Working') + unsettled'
    BY <1>3, <1>5, <2>1, <2>2, WorkingFinite, FS_EmptySet
  <2> QED BY <2>3 DEF RunningIsWorkedOn
<1> QED BY <1>2, <1>5, <1>7, <1>9, <1>10, <1>11, FlowPartsNext

\* An answer makes one result that waits.
LEMMA NextAnswer ==
  ASSUME PipelineInv, NEW m \in Messages, Answer(m)
  PROVE  PipelineInv'
<1> USE FlowTypedParts DEF PipelineInv
<1>1. /\ answered[m] < asked[m] /\ results[m] = Nothing
      /\ answered' = [answered EXCEPT ![m] = @ + 1]
      /\ UNCHANGED <<leads, convs, rows, connected, circuit, handlers, asked, dropped, most>>
      /\ UNCHANGED <<consumers, executions, replies, stored, unsettled, crashes>>
  BY DEF Answer, intakeVars
<1>2. PICK i \in Intents \cup {Nothing} : results' = [results EXCEPT ![m] = [lead |-> rows[m].lead, intent |-> i]]
  BY DEF Answer
<1>3. IntakeTyped' /\ IntakeInv' /\ DuplicatesInv'
  <2>1. IntakeTyped'
    BY <1>1 DEF IntakeTyped
  <2>2. IntakeInv'
    BY <1>1 DEF IntakeInv, Knows, HasStored
  <2>3. DuplicatesInv'
    BY <1>1 DEF DuplicatesInv, AtWork, LeadsOf, LeadsToCome, ActiveOf, ConvsToCome, At
  <2> QED BY <2>1, <2>2, <2>3
<1>4. OwnInv /\ CountInv /\ SpentInv /\ UnderWayInv /\ AskInv
  BY FlowParts, IntakeParts
<1>5. asked[m] \in Nat /\ answered[m] \in Nat /\ rows[m] \in Rows \cup {Nothing}
  BY TypedParts DEF RestTyped, CountsTyped, RowsTyped
<1>6. rows[m] \in Rows
  BY <1>1, <1>4, <1>5 DEF AskInv
<1> DEFINE r == [lead |-> rows[m].lead, intent |-> i]
<1>7. r \in Results /\ r # Nothing
  BY <1>6, PipelineAssumption DEF Results, Rows
<1>8. results' = [results EXCEPT ![m] = r]
  BY <1>2
<1> HIDE DEF r
<1>9. results'[m] = r /\ \A n \in Messages \ {m} : results'[n] = results[n]
  BY <1>8 DEF RunsTyped
<1>10. answered'[m] = answered[m] + 1 /\ \A n \in Messages \ {m} : answered'[n] = answered[n]
  BY <1>1 DEF CountsTyped
<1>11. ConsumersTyped'
  BY <1>1 DEF ConsumersTyped, IsConsumer
<1>12. RunsTyped'
  BY <1>1, <1>7, <1>8 DEF RunsTyped
<1>13. CountsTyped'
  BY <1>1, <1>5 DEF CountsTyped
<1>14. FlowTyped'
  BY <1>11, <1>12, <1>13, RestingValues DEF FlowTyped, ConsumersTyped, RunsTyped, CountsTyped, IsConsumer
<1>15. OwnInv'
  <2>1. \A c \in Consumers : consumers[c].msg # Nothing => consumers[c].msg \in Messages
    BY DEF ConsumersTyped, IsConsumer
  <2> QED BY <1>1, <1>4, <1>7, <1>9, <2>1 DEF OwnInv
<1>16. CountInv'
  <2> SUFFICES ASSUME NEW n \in Messages
               PROVE  /\ answered'[n] <= asked'[n]
                      /\ Len(executions'[n]) <= answered'[n] + crashes'
                      /\ Awaits(n)' => Len(executions'[n]) < answered'[n] + crashes'
    BY DEF CountInv
  <2>1. answered[n] \in Nat /\ crashes \in Nat /\ Len(executions[n]) \in Nat
    BY RunsValues
  <2>2. CASE n = m
    BY <1>1, <1>4, <1>5, <1>10, <2>1, <2>2 DEF CountInv
  <2>3. CASE n # m
    <3>1. Awaits(n)' <=> Awaits(n)
      BY <1>1, <1>9, <2>3 DEF Awaits
    <3> QED BY <1>1, <1>4, <1>10, <2>3, <3>1 DEF CountInv
  <2> QED BY <2>2, <2>3
<1>17. SpentInv' /\ UnderWayInv'
  BY <1>1, <1>4 DEF SpentInv, UnderWayInv, UnderWay, Working
<1>18. RunningIsWorkedOn'
  BY <1>1 DEF RunningIsWorkedOn, Running, Shown, Working
<1> QED BY <1>3, <1>14, <1>15, <1>16, <1>17, <1>18, FlowPartsNext

LEMMA InitPipelineInv == Init => PipelineInv
<1> SUFFICES ASSUME Init PROVE PipelineInv
  OBVIOUS
<1>1. IntakeTyped
  BY InitIntakeTyped DEF Init
<1>2. \A h \in Handlers : handlers[h] = Idle
  BY DEF Init, IntakeInit
<1>3. /\ leads = <<>> /\ convs = <<>> /\ rows = [m \in Messages |-> Nothing]
      /\ asked = [m \in Messages |-> 0] /\ most = 0
  BY DEF Init, IntakeInit
<1>4. DOMAIN leads = {} /\ DOMAIN convs = {}
  BY <1>3
<1>5. \A h \in Handlers : handlers[h].at = "idle"
  BY <1>2, IdleValues
<1>6. IntakeInv
  <2>1. \A h \in Handlers : Knows(h) /\ ~HasStored(h)
    BY <1>5 DEF Knows, HasStored
  <2>2. \A m \in Messages : rows[m] = Nothing /\ asked[m] = 0
    BY <1>3
  <2> QED BY <1>4, <2>1, <2>2 DEF IntakeInv
<1>7. DuplicatesInv
  <2>1. AtWork = {} /\ \A p \in Contacts : LeadsOf(p) = {} /\ LeadsToCome(p) = {}
    BY <1>4, <1>5 DEF AtWork, LeadsOf, LeadsToCome, At
  <2>2. Cardinality(AtWork) = 0
    BY <2>1, FS_EmptySet
  <2>3. \A p \in Contacts : Cardinality(LeadsOf(p)) = 0 /\ Cardinality(LeadsToCome(p)) = 0
    BY <2>1, FS_EmptySet
  <2> QED BY <1>3, <1>4, <2>2, <2>3 DEF DuplicatesInv
<1> QED BY <1>1, <1>6, <1>7, InitFlowInv DEF PipelineInv

LEMMA NextPipelineInv == PipelineInv /\ [Next]_pipelineVars => PipelineInv'
<1> SUFFICES ASSUME PipelineInv, [Next]_pipelineVars PROVE PipelineInv'
  OBVIOUS
<1>1. CASE UNCHANGED pipelineVars
  <2>1. UNCHANGED <<leads, convs, rows, connected, circuit, handlers, asked, dropped, most>>
        /\ UNCHANGED <<results, consumers, executions, replies, stored, unsettled, answered, crashes>>
    BY <1>1 DEF pipelineVars, intakeVars, orchestrationVars
  <2>2. IntakeTyped' /\ IntakeInv' /\ DuplicatesInv'
    BY <2>1 DEF PipelineInv, IntakeTyped, IntakeInv, Knows, HasStored, DuplicatesInv, AtWork, LeadsOf,
                LeadsToCome, ActiveOf, ConvsToCome, At
  <2>3. FlowTyped' /\ RunningIsWorkedOn'
    BY <2>1 DEF PipelineInv, FlowTyped, RunningIsWorkedOn, Running, Shown, Working
  <2>4. FlowInv'
    BY <2>1 DEF PipelineInv, FlowInv, Awaits, Working
  <2> QED BY <2>2, <2>3, <2>4 DEF PipelineInv
<1> QED BY <1>1, NextTakesIn, NextWorksOn, NextCrash, NextAnswer DEF Next

-----------------------------------------------------------------------------
(* What the pipeline guarantees.                                           *)

LEMMA PipelineTyped == PipelineInv => TypeOK
<1> SUFFICES ASSUME PipelineInv PROVE TypeOK
  OBVIOUS
<1> USE DEF PipelineInv
<1>1. \A i \in DOMAIN convs : convs[i] \in [lead : DOMAIN leads, active : BOOLEAN]
  <2> SUFFICES ASSUME NEW i \in DOMAIN convs
               PROVE  convs[i] \in [lead : DOMAIN leads, active : BOOLEAN]
    OBVIOUS
  <2>1. convs \in Seq([lead : Nat, active : BOOLEAN])
    BY DEF IntakeTyped
  <2>2. convs[i] \in [lead : Nat, active : BOOLEAN]
    BY <2>1, LenProperties, ElementOfSeq
  <2>3. convs[i].lead \in DOMAIN leads
    BY DEF IntakeInv
  <2> QED BY <2>2, <2>3
<1>2. \A m \in Messages : rows[m] = Nothing \/ rows[m] \in [lead : DOMAIN leads, conv : DOMAIN convs]
  <2> SUFFICES ASSUME NEW m \in Messages, rows[m] # Nothing
               PROVE  rows[m] \in [lead : DOMAIN leads, conv : DOMAIN convs]
    OBVIOUS
  <2>1. rows[m] \in Rows
    BY DEF IntakeTyped
  <2>2. rows[m].lead \in DOMAIN leads /\ rows[m].conv \in DOMAIN convs
    BY DEF IntakeInv
  <2> QED BY <2>1, <2>2 DEF Rows
<1>3. \A c \in Consumers : consumers[c].at \in Orchestration!Phases
  BY DEF FlowTyped
<1>4. \A m \in Messages : stored[m] <= replies[m] /\ answered[m] <= asked[m]
  BY DEF FlowInv
<1> QED BY <1>1, <1>2, <1>3, <1>4 DEF TypeOK, IntakeTyped

LEMMA DuplicatesBounded == PipelineInv => DuplicatesAreConcurrent
<1> SUFFICES ASSUME PipelineInv PROVE DuplicatesAreConcurrent
  OBVIOUS
<1> USE DEF PipelineInv
<1>1. most \in Nat
  BY DEF IntakeTyped
<1>2. \A p \in Contacts : Cardinality(LeadsOf(p)) \in Nat /\ Cardinality(LeadsToCome(p)) \in Nat
  <2> TAKE p \in Contacts
  <2>1. LeadsOf(p) \in SUBSET DOMAIN leads /\ leads \in Seq(Contacts)
    BY DEF LeadsOf, IntakeTyped
  <2>2. LeadsToCome(p) \in SUBSET Handlers
    BY DEF LeadsToCome
  <2> QED BY <2>1, <2>2, PositionsFinite, HandlersFinite
<1>3. \A l \in DOMAIN leads : Cardinality(ActiveOf(l)) \in Nat /\ Cardinality(ConvsToCome(l)) \in Nat
  <2> TAKE l \in DOMAIN leads
  <2>1. ActiveOf(l) \in SUBSET DOMAIN convs /\ convs \in Seq([lead : Nat, active : BOOLEAN])
    BY DEF ActiveOf, IntakeTyped
  <2>2. ConvsToCome(l) \in SUBSET Handlers
    BY DEF ConvsToCome
  <2> QED BY <2>1, <2>2, PositionsFinite, HandlersFinite
<1>4. \A p \in Contacts : Cardinality(LeadsOf(p)) <= most
  BY <1>1, <1>2 DEF DuplicatesInv
<1>5. \A l \in DOMAIN leads : Cardinality(ActiveOf(l)) <= most
  BY <1>1, <1>3 DEF DuplicatesInv
<1> QED BY <1>4, <1>5 DEF DuplicatesAreConcurrent

\* Every variable of the pipeline keeps to its values: a stored row names a
\* lead and a conversation that exist, the circuit is one of the three, and no
\* message is stored or answered more often than it was sent or asked.
THEOREM PipelineTypeCorrect == Spec => []TypeOK
BY PipelineTyped, InitPipelineInv, NextPipelineInv, PTL DEF Spec

\* However often and however concurrently WhatsApp delivers a message, and
\* wherever the process stops, the AI is asked about it at most once, and then
\* the message is stored in a conversation of a lead of the phone that wrote
\* it: the unique message id decides which of the concurrent webhook handlers
\* goes on (handleMessageWebhook).
THEOREM AskedAtMostOnce == Spec => []AskedOnce
<1>1. PipelineInv => AskedOnce
  BY DEF PipelineInv, IntakeInv, AskedOnce
<1> QED BY <1>1, InitPipelineInv, NextPipelineInv, PTL DEF Spec

\* A phone has no more leads, and a lead no more active conversations, than
\* webhook handlers were at work at once: the unguarded find-then-create of
\* handleMessageWebhook duplicates nothing as long as they come one by one.
THEOREM DuplicatesNeedConcurrency == Spec => []DuplicatesAreConcurrent
BY DuplicatesBounded, InitPipelineInv, NextPipelineInv, PTL DEF Spec

\* A result is executed again only after a stop, and no execution sends more
\* messages than the loop of the engine may visit states
\* (executeWorkflow, maxIterations).
THEOREM RepliesStayBounded == Spec => []RepliesAreBounded
<1>1. PipelineInv => RepliesAreBounded
  BY DEF PipelineInv, FlowInv, RepliesAreBounded
<1> QED BY <1>1, InitPipelineInv, NextPipelineInv, PTL DEF Spec

\* As many executions are shown as running as consumers work on one, but for
\* those a stop or a failed last update left behind.
THEOREM RunningHasConsumer == Spec => []RunningIsWorkedOn
<1>1. PipelineInv => RunningIsWorkedOn
  BY DEF PipelineInv
<1> QED BY <1>1, InitPipelineInv, NextPipelineInv, PTL DEF Spec

-----------------------------------------------------------------------------
(* The other services beside it                                           *)

Hand ==
  [at : {"idle", "add", "mark", "claim", "call", "record", "log", "count", "fail", "gone"},
   note : Notes \cup {NoNote}]

Job == [state : {"none", "waiting", "active", "completed", "failed"}, tries : Nat, stalled : BOOLEAN]

LEMMA NoteValues ==
  /\ Note!Idle \in Hand /\ Note!Idle.at = "idle" /\ Note!Idle.note = NoNote
  /\ Note!NoJob \in Job /\ Note!NoJob.state = "none" /\ Note!NoJob.tries = 0 /\ ~Note!NoJob.stalled
  BY DEF Note!Idle, Note!NoJob, Hand, Job

\* What a step of a on n leaves of the others, and what it makes of a and n.
LEMMA OneHand ==
  ASSUME NoteTyped, NEW a \in Senders \cup Notes, NEW k \in Hand, hands' = [hands EXCEPT ![a] = k]
  PROVE  /\ hands' \in [Senders \cup Notes -> Hand]
         /\ hands'[a] = k /\ \A b \in (Senders \cup Notes) \ {a} : hands'[b] = hands[b]
  BY DEF NoteTyped, Hand

LEMMA Moves ==
  ASSUME NoteTyped, NEW a \in Senders \cup Notes, NEW at, Note!Move(a, at),
         at \in {"idle", "add", "mark", "claim", "call", "record", "log", "count", "fail", "gone"}
  PROVE  /\ hands' \in [Senders \cup Notes -> Hand]
         /\ hands'[a].at = at /\ hands'[a].note = hands[a].note
         /\ \A b \in (Senders \cup Notes) \ {a} : hands'[b] = hands[b]
  BY DEF NoteTyped, Hand, Note!Move

LEMMA SetsStatus ==
  ASSUME NoteTyped, NEW n \in Notes, notes[n] # NoNote, NEW s \in {"pending", "queued", "sent", "failed"},
         Note!SetStatus(n, s)
  PROVE  /\ notes' \in [Notes -> NoteRows \cup {NoNote}] /\ notes'[n] # NoNote
         /\ notes'[n].status = s /\ notes'[n].retries = notes[n].retries
         /\ \A m \in Notes \ {n} : notes'[m] = notes[m]
  BY SMTT(60), FrontAssumption DEF NoteTyped, NoteRows, Note!SetStatus

-----------------------------------------------------------------------------
(* NoteInv, actor by actor and notification by notification.               *)

Acting == Senders \cup Notes

HandFits(a) ==
  /\ hands[a].at \in {"idle", "gone"} <=> hands[a].note = NoNote
  /\ hands[a].note # NoNote => notes[hands[a].note] # NoNote

WorkerFits(n) ==
  /\ hands[n].note \in {n, NoNote} /\ hands[n].at \notin {"gone", "add", "mark"}
  /\ hands[n].at # "idle" <=> noteJobs[n].state = "active"

CallerFits(c) ==
  hands[c].note # NoNote =>
    /\ hands[c].at = "mark" <=> noteJobs[hands[c].note].state # "none"
    /\ hands[c].at \in {"add", "claim", "call"} => reached[hands[c].note] = 0
    /\ hands[c].at \in {"add", "claim", "call", "record", "log", "count"} => notes[hands[c].note].retries = 0

CallersDiffer ==
  \A c, d \in Senders : hands[c].note # NoNote /\ hands[c].note = hands[d].note => c = d

ToSendFits ==
  \A c \in Senders : /\ \A n \in toSend[c] : notes[n] = NoNote
                      /\ \A d \in Senders : c # d => toSend[c] \cap toSend[d] = {}

TriesFit(n) ==
  /\ notes[n] = NoNote => noteJobs[n].state = "none" /\ reached[n] = 0 /\ events[n] = 0
  /\ noteJobs[n].state = "none" =>
       noteJobs[n].tries = 0 /\ ~noteJobs[n].stalled /\ reached[n] <= 1
       /\ (notes[n] # NoNote => notes[n].retries <= 1)
  /\ noteJobs[n].tries <= Attempts
  /\ noteJobs[n].state \in {"waiting", "active"} => noteJobs[n].tries < Attempts
  /\ noteJobs[n].state # "none" =>
       /\ reached[n] <= noteJobs[n].tries + Stalls(n)
                          + (IF hands[n].at \in {"record", "log", "count", "fail"} THEN 1 ELSE 0)
       /\ notes[n].retries <= noteJobs[n].tries + Stalls(n) + (IF hands[n].at = "fail" THEN 1 ELSE 0)

RowFits(n) ==
  /\ notes[n] # NoNote /\ notes[n].status = "sent" => reached[n] > 0
  /\ notes[n] # NoNote /\ notes[n].status = "failed" => notes[n].retries >= MaxRetries
  /\ noteJobs[n].state = "completed" => reached[n] > 0 /\ events[n] > 0
  /\ events[n] <= reached[n]

ActorBacked(a) ==
  hands[a].note # NoNote =>
    /\ hands[a].at \in {"record", "log"} => events[hands[a].note] < reached[hands[a].note]
    /\ hands[a].at = "fail" => notes[hands[a].note].retries >= MaxRetries

ReportFits == \A c \in Senders : \A n \in reported[c].sent : reached[n] > 0 \/ noteJobs[n].state # "none"

Fits ==
  /\ \A a \in Acting : HandFits(a) /\ ActorBacked(a)
  /\ \A n \in Notes : WorkerFits(n) /\ TriesFit(n) /\ RowFits(n)
  /\ \A c \in Senders : CallerFits(c)
  /\ CallersDiffer /\ ToSendFits /\ ReportFits

LEMMA NoteParts == NoteInv <=> NoteTyped /\ Fits
<1>1. HandsInv /\ TriesInv /\ BackedInv => Fits
  BY DEF HandsInv, TriesInv, BackedInv, Fits, Acting, HandFits, ActorBacked, WorkerFits, TriesFit, RowFits,
         CallerFits, CallersDiffer, ToSendFits, ReportFits
<1>2. Fits => HandsInv
  BY DEF HandsInv, Fits, Acting, HandFits, WorkerFits, CallerFits, CallersDiffer, ToSendFits
<1>3. Fits => TriesInv
  BY DEF TriesInv, Fits, TriesFit, CallerFits
<1>4. Fits => BackedInv
  BY DEF BackedInv, Fits, Acting, RowFits, ActorBacked, ReportFits
<1> QED BY <1>1, <1>2, <1>3, <1>4 DEF NoteInv

\* A step of a on n leaves the other actors and the other notifications.
Leaves(a, n) ==
  /\ \A b \in Acting \ {a} : hands'[b] = hands[b]
  /\ \A m \in Notes \ {n} : /\ notes'[m] = notes[m] /\ noteJobs'[m] = noteJobs[m]
                            /\ reached'[m] = reached[m] /\ events'[m] = events[m]

\* Who else works on the notification of a: a caller that has yet to mark it,
\* beside its worker.
LEMMA Companion ==
  ASSUME NoteTyped, Fits, NEW a \in Acting, NEW b \in Acting \ {a}, hands[a].note # NoNote, hands[a].note = hands[b].note
  PROVE  \/ a \in Notes /\ a = hands[a].note /\ b \in Senders /\ hands[b].at = "mark"
         \/ b \in Notes /\ b = hands[a].note /\ a \in Senders /\ hands[a].at = "mark"
<1>1. ~(a \in Senders /\ b \in Senders)
  BY DEF Fits, CallersDiffer
<1>2. \A n \in Notes : hands[n].note \in {n, NoNote} /\ (hands[n].note # NoNote => noteJobs[n].state = "active")
  BY DEF Fits, WorkerFits, HandFits, Acting
<1>3. ~(a \in Notes /\ b \in Notes)
  BY <1>2
<1>4. \A c \in Senders : hands[c].note # NoNote /\ noteJobs[hands[c].note].state = "active" => hands[c].at = "mark"
  BY DEF Fits, CallerFits
<1> QED BY <1>1, <1>2, <1>3, <1>4 DEF Acting

\* So a step that leaves the others keeps them fit, when it keeps a row and a job
\* there are, and what others of n rely on.
LEMMA OthersFit ==
  ASSUME NoteTyped, NoteTyped', Fits, NEW a \in Acting, NEW n \in Notes, a \in Notes => a = n, Leaves(a, n),
         hands'[a].note \in {n, NoNote},
         hands'[a].note = n /\ a \in Senders => \A d \in Senders \ {a} : hands[d].note # n,
         notes'[n] # NoNote,
         reached[n] <= reached'[n],
         noteJobs[n].state # "none" => noteJobs'[n].state # "none",
         HandFits(a)', WorkerFits(n)', TriesFit(n)', RowFits(n)', a \in Senders => CallerFits(a)', ActorBacked(a)',
         \A b \in Acting \ {a} : hands[b].note = n => ActorBacked(b)' /\ (b \in Senders => CallerFits(b)'),
         \A c \in Senders : toSend'[c] \subseteq toSend[c] \ {n},
         \A c \in Senders : \A m \in reported'[c].sent \ reported[c].sent :
            m = n /\ (reached'[n] > 0 \/ noteJobs'[n].state # "none")
  PROVE  Fits'
<1>1. ASSUME NEW b \in Acting PROVE HandFits(b)' /\ ActorBacked(b)'
  <2>1. CASE b = a
    BY <2>1
  <2>2. CASE b # a /\ hands[b].note = n
    BY <2>2 DEF Leaves, Fits, HandFits
  <2>3. CASE b # a /\ hands[b].note # n
    <3>1. hands'[b] = hands[b] /\ hands[b].note \in Notes \cup {NoNote}
      BY <2>3 DEF Leaves, NoteTyped, Acting
    <3>2. hands[b].note # NoNote =>
            /\ notes'[hands[b].note] = notes[hands[b].note] /\ events'[hands[b].note] = events[hands[b].note]
            /\ reached'[hands[b].note] = reached[hands[b].note]
      BY <2>3, <3>1 DEF Leaves
    <3> QED BY <3>1, <3>2 DEF Fits, HandFits, ActorBacked
  <2> QED BY <2>1, <2>2, <2>3
<1>2. ASSUME NEW m \in Notes PROVE WorkerFits(m)' /\ TriesFit(m)' /\ RowFits(m)'
  <2>1. CASE m = n
    BY <2>1
  <2>2. CASE m # n
    <3>1. m \in Acting \ {a}
      BY <2>2 DEF Acting
    <3>2. /\ hands'[m] = hands[m] /\ notes'[m] = notes[m] /\ noteJobs'[m] = noteJobs[m]
          /\ reached'[m] = reached[m] /\ events'[m] = events[m]
      BY <2>2, <3>1 DEF Leaves
    <3>3. WorkerFits(m) /\ TriesFit(m) /\ RowFits(m)
      BY DEF Fits
    <3>4. WorkerFits(m)'
      BY <3>2, <3>3 DEF WorkerFits
    <3>5. TriesFit(m)'
      BY <3>2, <3>3 DEF TriesFit, Stalls
    <3>6. RowFits(m)'
      BY <3>2, <3>3 DEF RowFits
    <3> QED BY <3>4, <3>5, <3>6
  <2> QED BY <2>1, <2>2
<1>3. ASSUME NEW c \in Senders PROVE CallerFits(c)'
  <2>1. CASE c = a
    BY <2>1
  <2>2. CASE c # a /\ hands[c].note = n
    BY <2>2 DEF Acting
  <2>3. CASE c # a /\ hands[c].note # n
    <3>1. hands'[c] = hands[c] /\ hands[c].note \in Notes \cup {NoNote}
      BY <2>3 DEF Leaves, NoteTyped, Acting
    <3>2. hands[c].note # NoNote =>
            /\ notes'[hands[c].note] = notes[hands[c].note] /\ noteJobs'[hands[c].note] = noteJobs[hands[c].note]
            /\ reached'[hands[c].note] = reached[hands[c].note]
      BY <2>3, <3>1 DEF Leaves
    <3> QED BY <3>1, <3>2 DEF Fits, CallerFits
  <2> QED BY <2>1, <2>2, <2>3
<1>4. CallersDiffer'
  <2> SUFFICES ASSUME NEW c \in Senders, NEW d \in Senders, hands'[c].note # NoNote, hands'[c].note = hands'[d].note, c # d
               PROVE  FALSE
    BY DEF CallersDiffer
  <2>1. ~(hands[c].note # NoNote /\ hands[c].note = hands[d].note)
    BY DEF Fits, CallersDiffer
  <2>2. \A e \in Senders \ {a} : hands'[e] = hands[e]
    BY DEF Leaves, Acting
  <2>3. CASE c # a /\ d # a
    BY <2>1, <2>2, <2>3
  <2>4. CASE c = a
    BY <2>2, <2>4
  <2>5. CASE d = a
    BY <2>2, <2>5
  <2> QED BY <2>3, <2>4, <2>5
<1>5. ToSendFits'
  BY DEF ToSendFits, Fits, Leaves, NoteTyped
<1>6. ReportFits'
  <2> SUFFICES ASSUME NEW c \in Senders, NEW m \in reported'[c].sent
               PROVE  reached'[m] > 0 \/ noteJobs'[m].state # "none"
    BY DEF ReportFits
  <2>1. m \in Notes
    BY DEF NoteTyped
  <2>2. CASE m \notin reported[c].sent
    BY <2>2
  <2>3. CASE m \in reported[c].sent
    <3>1. reached[m] > 0 \/ noteJobs[m].state # "none"
      BY <2>3 DEF Fits, ReportFits
    <3>2. reached[m] \in Nat /\ reached'[m] \in Nat
      BY <2>1 DEF NoteTyped
    <3>3. m # n => reached'[m] = reached[m] /\ noteJobs'[m] = noteJobs[m]
      BY <2>1 DEF Leaves
    <3> QED BY <3>1, <3>2, <3>3
  <2> QED BY <2>2, <2>3
<1> QED BY <1>1, <1>2, <1>3, <1>4, <1>5, <1>6 DEF Fits

\* Whoever goes through the statements of sendImmediately: a worker whose job is
\* active, or a caller whose notification has no job; another who has the same
\* notification has only to mark it.
LEMMA AtStatement ==
  ASSUME NoteTyped, Fits, NEW a \in Acting,
         hands[a].at \in {"claim", "call", "record", "log", "count", "fail"}
  PROVE  /\ hands[a].note \in Notes /\ notes[hands[a].note] \in NoteRows
         /\ notes[hands[a].note] # NoNote
         /\ a \in Notes => a = hands[a].note /\ noteJobs[a].state = "active"
         /\ a \in Senders => a \notin Notes /\ noteJobs[hands[a].note].state = "none"
         /\ \A b \in Acting \ {a} : hands[b].note = hands[a].note =>
              b \in Senders /\ b \notin Notes /\ hands[b].at = "mark" /\ a \in Notes
<1> DEFINE n == hands[a].note
<1>1. n \in Notes /\ n # NoNote /\ notes[n] # NoNote
  BY FrontAssumption DEF NoteTyped, Fits, HandFits, Acting
<1>2. notes[n] \in NoteRows
  BY <1>1 DEF NoteTyped
<1>3. a \in Notes => a = n /\ noteJobs[a].state = "active"
  BY <1>1 DEF Fits, WorkerFits
<1>4. a \in Senders => a \notin Notes /\ noteJobs[n].state = "none"
  BY <1>1, FrontAssumption DEF Fits, CallerFits
<1>5. ASSUME NEW b \in Acting \ {a}, hands[b].note = n
      PROVE  b \in Senders /\ b \notin Notes /\ hands[b].at = "mark" /\ a \in Notes
  BY <1>1, <1>5, Companion, FrontAssumption DEF Acting
<1> QED BY <1>1, <1>2, <1>3, <1>4, <1>5

\* A notification that has a row is no longer to be sent.
LEMMA NotToSend ==
  ASSUME NoteTyped, Fits, NEW n \in Notes, notes[n] # NoNote, UNCHANGED toSend
  PROVE  \A c \in Senders : toSend'[c] \subseteq toSend[c] \ {n}
  BY DEF NoteTyped, Fits, ToSendFits

LEMMA NoteNumbers ==
  ASSUME NoteTyped, NEW n \in Notes
  PROVE  /\ noteJobs[n] \in Job /\ noteJobs[n].tries \in Nat /\ noteJobs[n].stalled \in BOOLEAN
         /\ reached[n] \in Nat /\ events[n] \in Nat
         /\ Stalls(n) \in {0, 1}
         /\ notes[n] # NoNote => notes[n] \in NoteRows /\ notes[n].retries \in Nat
  BY DEF NoteTyped, Stalls, NoteRows, Job

\* A statement of sendImmediately keeps everything fit, when it keeps the row and
\* the actor that it is about.
LEMMA StatementFits ==
  ASSUME NoteTyped, NoteTyped', Fits, NEW a \in Acting, NEW n \in Notes, n = hands[a].note,
         hands[a].at \in {"claim", "call", "record", "log", "count", "fail"}, Leaves(a, n),
         UNCHANGED toSend,
         hands'[a].note \in {n, NoNote}, HandFits(a)', ActorBacked(a)',
         notes'[n] # NoNote, reached[n] <= reached'[n],
         a \in Notes => WorkerFits(n)' /\ noteJobs'[n].state # "none",
         a \in Senders => CallerFits(a)' /\ noteJobs'[n] = noteJobs[n],
         TriesFit(n)', RowFits(n)',
         \A c \in Senders : reported'[c].sent \subseteq reported[c].sent \cup {n},
         \/ reached'[n] > 0 \/ noteJobs'[n].state # "none"
         \/ \A c \in Senders : reported'[c].sent \subseteq reported[c].sent
  PROVE  Fits'
<1> USE DEF Acting
<1>1. notes[n] \in NoteRows /\ notes[n] # NoNote
  BY AtStatement
<1>2. a \in Notes => a = n
  BY AtStatement
<1>3. a \in Senders => a \notin Notes
  BY AtStatement
<1>4. \A b \in Acting \ {a} : hands[b].note = n => b \in Senders /\ b \notin Notes /\ hands[b].at = "mark" /\ a \in Notes
  BY AtStatement
<1>5. WorkerFits(n)'
  <2>1. CASE a \in Notes
    BY <2>1
  <2>2. CASE a \notin Notes
    <3>1. hands'[n] = hands[n] /\ noteJobs'[n] = noteJobs[n]
      BY <2>2 DEF Leaves
    <3> QED BY <3>1 DEF Fits, WorkerFits
  <2> QED BY <2>1, <2>2
<1>6. \A b \in Acting \ {a} : hands[b].note = n => ActorBacked(b)' /\ (b \in Senders => CallerFits(b)')
  <2> SUFFICES ASSUME NEW b \in Acting \ {a}, hands[b].note = n
               PROVE  ActorBacked(b)' /\ (b \in Senders => CallerFits(b)')
    OBVIOUS
  <2>1. hands'[b] = hands[b]
    BY DEF Leaves
  <2>2. hands[b].at = "mark" /\ a \in Notes
    BY <1>4
  <2>3. ActorBacked(b)'
    BY <2>1, <2>2 DEF ActorBacked
  <2>4. CallerFits(b)'
    BY <2>1, <2>2 DEF CallerFits
  <2> QED BY <2>3, <2>4
<1>7. \A c \in Senders : toSend'[c] \subseteq toSend[c] \ {n}
  BY <1>1, NotToSend
<1>8. hands'[a].note = n /\ a \in Senders => \A d \in Senders \ {a} : hands[d].note # n
  BY <1>3, <1>4
<1>9. noteJobs[n].state # "none" => noteJobs'[n].state # "none"
  OBVIOUS
<1>10. \A c \in Senders : \A m \in reported'[c].sent \ reported[c].sent :
         m = n /\ (reached'[n] > 0 \/ noteJobs'[n].state # "none")
  OBVIOUS
<1> QED BY <1>2, <1>5, <1>6, <1>7, <1>8, <1>9, <1>10, OthersFit

LEMMA ClaimKeeps ==
  ASSUME NoteTyped, Fits, NEW a \in Acting, Note!Claim(a)
  PROVE  NoteTyped' /\ Fits'
<1>0. PICK n : n = hands[a].note
  OBVIOUS
<1> USE DEF Acting
<1>1. hands[a].at = "claim" /\ UNCHANGED <<noteJobs, toSend, reported, reached, events>>
  BY DEF Note!Claim
<1>2. n \in Notes /\ notes[n] \in NoteRows /\ notes[n] # NoNote
  BY <1>0, <1>1, AtStatement
<1>3. (a \in Notes => a = n /\ noteJobs[n].state = "active") /\ (a \in Senders => a \notin Notes)
  BY <1>0, <1>1, AtStatement
<1>4. /\ hands' \in [Acting -> Hand] /\ hands'[a].at \in {"call", "count"} /\ hands'[a].note = n
      /\ \A b \in Acting \ {a} : hands'[b] = hands[b]
  BY <1>0, <1>1, Moves DEF Note!Claim
<1>5. /\ notes' \in [Notes -> NoteRows \cup {NoNote}] /\ notes'[n] # NoNote
      /\ notes'[n].status \in {"queued", notes[n].status} /\ notes'[n].retries = notes[n].retries
      /\ \A m \in Notes \ {n} : notes'[m] = notes[m]
  BY <1>0, <1>2, SetsStatus DEF Note!Claim, NoteTyped
<1>6. NoteTyped' /\ Leaves(a, n)
  BY <1>1, <1>4, <1>5 DEF NoteTyped, Hand, Leaves
<1>7. HandFits(a)' /\ ActorBacked(a)'
  BY <1>1, <1>2, <1>4, <1>5, FrontAssumption DEF HandFits, ActorBacked
<1>8. a \in Notes => WorkerFits(n)' /\ noteJobs'[n].state # "none"
  BY <1>1, <1>3, <1>4 DEF WorkerFits
<1>9. a \in Senders => CallerFits(a)' /\ noteJobs'[n] = noteJobs[n]
  BY <1>0, <1>1, <1>2, <1>4, <1>5, AtStatement DEF Fits, CallerFits
<1>10. TriesFit(n) /\ RowFits(n)
  BY <1>2 DEF Fits
<1>11. TriesFit(n)'
  <2>1. hands[n].at \in {"record", "log", "count", "fail"} => hands'[n].at \in {"record", "log", "count", "fail"}
    BY <1>1, <1>2, <1>3, <1>4
  <2>2. hands[n].at = "fail" => hands'[n].at = "fail"
    BY <1>1, <1>2, <1>3, <1>4
  <2> QED BY <1>1, <1>2, <1>5, <1>10, <2>1, <2>2, NoteNumbers DEF TriesFit, Stalls
<1>12. RowFits(n)'
  BY <1>1, <1>2, <1>5, <1>10 DEF RowFits
<1>13. reached[n] <= reached'[n]
  BY <1>1, <1>2, NoteNumbers
<1> QED BY <1>0, <1>1, <1>2, <1>4, <1>5, <1>6, <1>7, <1>8, <1>9, <1>11, <1>12, <1>13, StatementFits

LEMMA CallKeeps ==
  ASSUME NoteTyped, Fits, NEW a \in Acting, Note!Call(a)
  PROVE  NoteTyped' /\ Fits'
<1>0. PICK n : n = hands[a].note
  OBVIOUS
<1> USE DEF Acting
<1>1. hands[a].at = "call" /\ UNCHANGED <<notes, noteJobs, toSend, reported, events>>
  BY DEF Note!Call
<1>2. n \in Notes /\ notes[n] \in NoteRows /\ notes[n] # NoNote
  BY <1>0, <1>1, AtStatement
<1>3. (a \in Notes => a = n /\ noteJobs[n].state = "active") /\ (a \in Senders => a \notin Notes)
  BY <1>0, <1>1, AtStatement
<1>4. /\ hands' \in [Acting -> Hand] /\ hands'[a].at \in {"record", "count"} /\ hands'[a].note = n
      /\ \A b \in Acting \ {a} : hands'[b] = hands[b]
  BY <1>0, <1>1, Moves DEF Note!Call
<1>5. /\ reached' \in [Notes -> Nat] /\ \A m \in Notes \ {n} : reached'[m] = reached[m]
      /\ \/ reached'[n] = reached[n] + 1
         \/ reached'[n] = reached[n] /\ hands'[a].at = "count"
  <2>1. CASE reached' = [reached EXCEPT ![n] = @ + 1]
    BY <1>2, <2>1 DEF NoteTyped
  <2>2. CASE Note!Move(a, "count") /\ UNCHANGED reached
    <3>1. hands'[a].at = "count"
      BY <2>2, Moves
    <3> QED BY <2>2, <3>1 DEF NoteTyped
  <2> QED BY <1>0, <2>1, <2>2 DEF Note!Call
<1>6. NoteTyped' /\ Leaves(a, n)
  BY <1>1, <1>4, <1>5 DEF NoteTyped, Hand, Leaves
<1>7. TriesFit(n) /\ RowFits(n) /\ reached[n] \in Nat /\ events[n] \in Nat
  BY <1>2, NoteNumbers DEF Fits
<1>8. HandFits(a)' /\ ActorBacked(a)'
  BY <1>1, <1>2, <1>4, <1>5, <1>7, FrontAssumption DEF HandFits, ActorBacked, RowFits
<1>9. a \in Notes => WorkerFits(n)' /\ noteJobs'[n].state # "none"
  BY <1>1, <1>3, <1>4 DEF WorkerFits
<1>10. a \in Senders => reached[n] = 0 /\ noteJobs[n].state = "none" /\ notes[n].retries = 0
  BY <1>0, <1>1, <1>2, AtStatement, FrontAssumption DEF Fits, CallerFits
<1>11. a \in Senders => CallerFits(a)' /\ noteJobs'[n] = noteJobs[n]
  BY <1>1, <1>2, <1>4, <1>10 DEF CallerFits
<1>12. TriesFit(n)'
  <2>1. a \in Notes => hands[n].at = "call" /\ hands'[n].at \in {"record", "count"} /\ noteJobs[n].state = "active"
    BY <1>1, <1>3, <1>4
  <2> QED BY <1>1, <1>2, <1>5, <1>7, <1>10, <2>1, NoteNumbers DEF TriesFit, Stalls
<1>13. RowFits(n)'
  BY <1>1, <1>2, <1>5, <1>7 DEF RowFits
<1>14. reached[n] <= reached'[n]
  BY <1>5, <1>7
<1> QED BY <1>0, <1>1, <1>2, <1>4, <1>6, <1>8, <1>9, <1>11, <1>12, <1>13, <1>14, StatementFits

LEMMA RecordSentKeeps ==
  ASSUME NoteTyped, Fits, NEW a \in Acting, Note!RecordSent(a)
  PROVE  NoteTyped' /\ Fits'
<1>0. PICK n : n = hands[a].note
  OBVIOUS
<1> USE DEF Acting
<1>1. hands[a].at = "record" /\ UNCHANGED <<noteJobs, toSend, reported, reached, events>>
  BY DEF Note!RecordSent
<1>2. n \in Notes /\ notes[n] \in NoteRows /\ notes[n] # NoNote /\ n # NoNote
  BY <1>0, <1>1, AtStatement, FrontAssumption
<1>3. (a \in Notes => a = n /\ noteJobs[n].state = "active") /\ (a \in Senders => a \notin Notes)
  BY <1>0, <1>1, AtStatement
<1>4. /\ hands' \in [Acting -> Hand] /\ hands'[a].at \in {"log", "count"} /\ hands'[a].note = n
      /\ \A b \in Acting \ {a} : hands'[b] = hands[b]
  BY <1>0, <1>1, Moves DEF Note!RecordSent
<1>5. /\ notes' \in [Notes -> NoteRows \cup {NoNote}] /\ notes'[n] # NoNote
      /\ notes'[n].status \in {"sent", notes[n].status} /\ notes'[n].retries = notes[n].retries
      /\ \A m \in Notes \ {n} : notes'[m] = notes[m]
  BY <1>0, <1>2, SetsStatus DEF Note!RecordSent, NoteTyped
<1>6. NoteTyped' /\ Leaves(a, n)
  BY <1>1, <1>4, <1>5 DEF NoteTyped, Hand, Leaves
<1>7. TriesFit(n) /\ RowFits(n) /\ reached[n] \in Nat /\ events[n] \in Nat
  BY <1>2, NoteNumbers DEF Fits
<1>8. events[n] < reached[n]
  BY <1>0, <1>1, <1>2 DEF Fits, ActorBacked
<1>9. HandFits(a)' /\ ActorBacked(a)'
  BY <1>1, <1>2, <1>4, <1>5, <1>8 DEF HandFits, ActorBacked
<1>10. a \in Notes => WorkerFits(n)' /\ noteJobs'[n].state # "none"
  BY <1>1, <1>3, <1>4 DEF WorkerFits
<1>11. a \in Senders => CallerFits(a)' /\ noteJobs'[n] = noteJobs[n]
  BY <1>0, <1>1, <1>2, <1>4, <1>5, AtStatement DEF Fits, CallerFits
<1>12. TriesFit(n)'
  <2>1. hands[n].at \in {"record", "log", "count", "fail"} => hands'[n].at \in {"record", "log", "count", "fail"}
    BY <1>1, <1>2, <1>3, <1>4
  <2>2. hands[n].at = "fail" => hands'[n].at = "fail"
    BY <1>1, <1>2, <1>3, <1>4
  <2> QED BY <1>1, <1>2, <1>5, <1>7, <2>1, <2>2, NoteNumbers DEF TriesFit, Stalls
<1>13. RowFits(n)'
  BY <1>1, <1>2, <1>5, <1>7, <1>8 DEF RowFits
<1>14. reached[n] <= reached'[n]
  BY <1>1, <1>7
<1> QED BY <1>0, <1>1, <1>2, <1>4, <1>5, <1>6, <1>9, <1>10, <1>11, <1>12, <1>13, <1>14, StatementFits

\* What a caller is told leaves the jobs and the other callers.
LEMMA TellIs ==
  ASSUME NoteTyped, NEW c \in Senders, NEW n \in Notes, n = hands[c].note, NEW ok \in BOOLEAN, Note!TellCaller(c, ok)
  PROVE  /\ hands' \in [Acting -> Hand] /\ hands'[c].at = "idle" /\ hands'[c].note = NoNote
         /\ \A b \in Acting \ {c} : hands'[b] = hands[b]
         /\ UNCHANGED noteJobs
         /\ reported' \in [Senders -> [sent : SUBSET Notes, failed : SUBSET Notes]]
         /\ \A d \in Senders : reported'[d].sent \subseteq reported[d].sent \cup {n}
         /\ ~ok => \A d \in Senders : reported'[d].sent \subseteq reported[d].sent
<1>1. /\ hands' = [hands EXCEPT ![c] = Note!Idle] /\ UNCHANGED noteJobs
      /\ reported' = IF ok THEN [reported EXCEPT ![c].sent = @ \cup {n}]
                           ELSE [reported EXCEPT ![c].failed = @ \cup {n}]
  BY DEF Note!TellCaller
<1>2. reported[c] \in [sent : SUBSET Notes, failed : SUBSET Notes]
  BY DEF NoteTyped
<1>3. /\ hands' \in [Acting -> Hand] /\ hands'[c].at = "idle" /\ hands'[c].note = NoNote
      /\ \A b \in Acting \ {c} : hands'[b] = hands[b]
  BY <1>1, OneHand, NoteValues DEF Acting
<1>4. CASE ok
  BY SMTT(60), <1>1, <1>2, <1>3, <1>4 DEF NoteTyped
<1>5. CASE ~ok
  BY <1>1, <1>2, <1>3, <1>5 DEF NoteTyped
<1> QED BY <1>4, <1>5

\* What a caller or a worker does when it is done with sendImmediately: nobody
\* has the notification as his, and the job has ended or tries again.
LEMMA OverIs ==
  ASSUME NoteTyped, Fits, NEW a \in Acting, NEW n \in Notes, n = hands[a].note, NEW ok \in BOOLEAN,
         hands[a].at \in {"claim", "call", "record", "log", "count", "fail"}, Note!Over(a, ok)
  PROVE  /\ hands' \in [Acting -> Hand] /\ hands'[a].at = "idle" /\ hands'[a].note = NoNote
         /\ \A b \in Acting \ {a} : hands'[b] = hands[b]
         /\ noteJobs' \in [Notes -> Job] /\ \A m \in Notes \ {n} : noteJobs'[m] = noteJobs[m]
         /\ reported' \in [Senders -> [sent : SUBSET Notes, failed : SUBSET Notes]]
         /\ \A c \in Senders : reported'[c].sent \subseteq reported[c].sent \cup {n}
         /\ ~ok => \A c \in Senders : reported'[c].sent \subseteq reported[c].sent
         /\ a \in Senders => noteJobs' = noteJobs
         /\ a \in Notes =>
              /\ UNCHANGED reported
              /\ noteJobs'[n].tries = noteJobs[n].tries + 1 /\ noteJobs'[n].stalled = noteJobs[n].stalled
              /\ noteJobs'[n].state \in {"completed", "waiting", "failed"}
              /\ noteJobs'[n].state = "completed" <=> ok
              /\ noteJobs'[n].state = "waiting" => noteJobs'[n].tries < Attempts
<1> USE DEF Acting
<1>1. (a \in Notes => a = n) /\ (a \in Senders => a \notin Notes)
  BY AtStatement
<1>2. CASE a \in Senders
  <2>1. Note!TellCaller(a, ok)
    BY <1>2 DEF Note!Over
  <2>2. /\ hands' \in [Acting -> Hand] /\ hands'[a].at = "idle" /\ hands'[a].note = NoNote
        /\ \A b \in Acting \ {a} : hands'[b] = hands[b]
        /\ noteJobs' = noteJobs
        /\ reported' \in [Senders -> [sent : SUBSET Notes, failed : SUBSET Notes]]
        /\ \A d \in Senders : reported'[d].sent \subseteq reported[d].sent \cup {n}
        /\ ~ok => \A d \in Senders : reported'[d].sent \subseteq reported[d].sent
    BY <1>2, <2>1, TellIs
  <2>3. noteJobs \in [Notes -> Job]
    BY DEF NoteTyped, Job
  <2> QED BY <1>1, <1>2, <2>2, <2>3
<1>3. CASE a \in Notes
  <2>1. Note!EndJob(n, ok)
    BY <1>1, <1>3 DEF Note!Over
  <2>2. hands' = [hands EXCEPT ![n] = Note!Idle] /\ UNCHANGED reported
    BY <2>1 DEF Note!EndJob
  <2>3. /\ noteJobs' \in [Notes -> Job] /\ \A m \in Notes \ {n} : noteJobs'[m] = noteJobs[m]
        /\ noteJobs'[n].tries = noteJobs[n].tries + 1 /\ noteJobs'[n].stalled = noteJobs[n].stalled
        /\ noteJobs'[n].state = IF ok THEN "completed"
                                ELSE IF noteJobs[n].tries + 1 < Attempts THEN "waiting" ELSE "failed"
    <3>1. noteJobs[n] \in Job /\ noteJobs[n].tries \in Nat /\ noteJobs \in [Notes -> Job] /\ n \in Notes
      BY <1>1, <1>3, NoteNumbers DEF NoteTyped, Job
    <3>2. PICK st \in {"completed", "waiting", "failed"} :
            st = IF ok THEN "completed" ELSE IF noteJobs[n].tries + 1 < Attempts THEN "waiting" ELSE "failed"
      OBVIOUS
    <3>3. PICK j : j = [state |-> st, tries |-> noteJobs[n].tries + 1, stalled |-> noteJobs[n].stalled]
      OBVIOUS
    <3>4. noteJobs' = [noteJobs EXCEPT ![n] = j]
      BY <2>1, <3>2, <3>3 DEF Note!EndJob
    <3>5. j \in Job /\ j.tries = noteJobs[n].tries + 1 /\ j.stalled = noteJobs[n].stalled /\ j.state = st
      BY <3>1, <3>3 DEF Job
    <3> QED BY <3>1, <3>2, <3>4, <3>5
  <2> QED BY ZenonT(60), <1>1, <1>3, <2>2, <2>3, OneHand, NoteValues DEF NoteTyped
<1> QED BY <1>2, <1>3

\* What is over is fit: the attempt that was under way is counted.
LEMMA OverFits ==
  ASSUME NoteTyped, NoteTyped', Fits, NEW a \in Acting, NEW n \in Notes, n = hands[a].note, NEW ok \in BOOLEAN,
         hands[a].at \in {"log", "count", "fail"}, Note!Over(a, ok), UNCHANGED <<toSend, reached>>,
         notes'[n] # NoNote, \A m \in Notes \ {n} : notes'[m] = notes[m] /\ events'[m] = events[m],
         notes'[n].retries <= notes[n].retries + (IF hands[a].at = "count" THEN 1 ELSE 0),
         notes'[n].status = "sent" => reached[n] > 0,
         notes'[n].status = "failed" => notes'[n].retries >= MaxRetries,
         events'[n] <= reached[n],
         ok => events'[n] > 0
  PROVE  Fits'
<1> USE DEF Acting
<1>1. notes[n] \in NoteRows /\ notes[n] # NoNote /\ notes'[n] \in NoteRows
  BY AtStatement DEF NoteTyped
<1>2. (a \in Notes => a = n /\ noteJobs[n].state = "active") /\ (a \in Senders => a \notin Notes /\ noteJobs[n].state = "none")
  BY AtStatement
<1>3. /\ hands'[a].at = "idle" /\ hands'[a].note = NoNote /\ \A b \in Acting \ {a} : hands'[b] = hands[b]
      /\ \A m \in Notes \ {n} : noteJobs'[m] = noteJobs[m]
      /\ \A c \in Senders : reported'[c].sent \subseteq reported[c].sent \cup {n}
      /\ ~ok => \A c \in Senders : reported'[c].sent \subseteq reported[c].sent
      /\ a \in Senders => noteJobs' = noteJobs
  BY OverIs
<1>4. a \in Notes =>
        /\ UNCHANGED reported
        /\ noteJobs'[n].tries = noteJobs[n].tries + 1 /\ noteJobs'[n].stalled = noteJobs[n].stalled
        /\ noteJobs'[n].state \in {"completed", "waiting", "failed"}
        /\ noteJobs'[n].state = "completed" <=> ok
        /\ noteJobs'[n].state = "waiting" => noteJobs'[n].tries < Attempts
  BY OverIs
<1>5. Leaves(a, n)
  BY <1>3 DEF Leaves
<1>6. HandFits(a)' /\ ActorBacked(a)' /\ (a \in Senders => CallerFits(a)')
  BY <1>3 DEF HandFits, ActorBacked, CallerFits
<1>7. TriesFit(n) /\ RowFits(n) /\ reached[n] \in Nat /\ events[n] \in Nat /\ events'[n] \in Nat
      /\ notes[n].retries \in Nat /\ notes'[n].retries \in Nat /\ noteJobs[n].tries \in Nat /\ Stalls(n) \in {0, 1}
  BY <1>1, NoteNumbers DEF Fits, NoteRows, NoteTyped
<1>8. a \in Notes => WorkerFits(n)' /\ noteJobs'[n].state # "none"
  BY <1>2, <1>3, <1>4 DEF WorkerFits
<1>9. ok => reached[n] > 0
  BY <1>7
<1>10. RowFits(n)'
  <2>1. noteJobs'[n].state = "completed" => reached[n] > 0 /\ events'[n] > 0
    <3>1. CASE a \in Notes
      BY <1>4, <1>9, <3>1
    <3>2. CASE a \notin Notes
      BY <1>2, <1>3, <3>2
    <3> QED BY <3>1, <3>2
  <2> QED BY <1>1, <2>1 DEF RowFits
<1>11. TriesFit(n)'
  <2>1. CASE a \in Notes
    <3>1. Stalls(n)' = Stalls(n)
      BY <1>4, <2>1 DEF Stalls
    <3>2. /\ noteJobs[n].tries < Attempts
          /\ reached[n] <= noteJobs[n].tries + Stalls(n) + 1
          /\ notes[n].retries <= noteJobs[n].tries + Stalls(n) + (IF hands[a].at = "fail" THEN 1 ELSE 0)
      BY <1>2, <1>7, <2>1 DEF TriesFit
    <3>3. notes'[n].retries <= noteJobs[n].tries + Stalls(n) + 1
      BY <1>7, <3>2
    <3>4. hands'[n].at = "idle"
      BY <1>2, <1>3, <2>1
    <3>5. /\ noteJobs'[n].tries <= Attempts
          /\ noteJobs'[n].state \in {"waiting", "active"} => noteJobs'[n].tries < Attempts
      BY <1>4, <1>7, <2>1, <3>2, FrontAssumption
    <3>6. /\ reached'[n] <= noteJobs'[n].tries + Stalls(n)' + 0
          /\ notes'[n].retries <= noteJobs'[n].tries + Stalls(n)' + 0
      BY <1>4, <1>7, <2>1, <3>1, <3>2, <3>3
    <3>7. noteJobs'[n].state # "none" /\ notes'[n] # NoNote
      BY <1>1, <1>4, <2>1
    <3> QED BY <3>4, <3>5, <3>6, <3>7 DEF TriesFit
  <2>2. CASE a \in Senders
    <3>1. hands[a].at = "count" => notes[n].retries = 0
      BY <2>2, FrontAssumption DEF Fits, CallerFits
    <3>2. noteJobs[n].state = "none" /\ noteJobs'[n] = noteJobs[n]
      BY <1>2, <1>3, <2>2
    <3> QED BY <1>1, <1>7, <3>1, <3>2 DEF TriesFit
  <2> QED BY <2>1, <2>2
<1>12. reached'[n] > 0 \/ noteJobs'[n].state # "none" \/ \A c \in Senders : reported'[c].sent \subseteq reported[c].sent
  BY <1>3, <1>9
<1> QED BY <1>1, <1>3, <1>5, <1>6, <1>7, <1>8, <1>10, <1>11, <1>12, StatementFits

LEMMA CreateEventKeeps ==
  ASSUME NoteTyped, Fits, NEW a \in Acting, Note!CreateEvent(a)
  PROVE  NoteTyped' /\ Fits'
<1>0. PICK n : n = hands[a].note
  OBVIOUS
<1> USE DEF Acting
<1>1. hands[a].at = "log" /\ UNCHANGED <<notes, toSend, reached>>
  BY DEF Note!CreateEvent
<1>2. n \in Notes /\ notes[n] \in NoteRows /\ notes[n] # NoNote /\ n # NoNote
  BY <1>0, <1>1, AtStatement, FrontAssumption
<1>3. (a \in Notes => a = n /\ noteJobs[n].state = "active") /\ (a \in Senders => a \notin Notes)
  BY <1>0, <1>1, AtStatement
<1>4. TriesFit(n) /\ RowFits(n) /\ reached[n] \in Nat /\ events[n] \in Nat /\ notes[n].retries \in Nat
  BY <1>2, NoteNumbers DEF Fits
<1>5. events[n] < reached[n]
  BY <1>0, <1>1, <1>2 DEF Fits, ActorBacked
<1>6. CASE events' = [events EXCEPT ![n] = @ + 1] /\ Note!Over(a, TRUE)
  <2>1. events' \in [Notes -> Nat] /\ events'[n] = events[n] + 1 /\ \A m \in Notes \ {n} : events'[m] = events[m]
    BY <1>2, <1>6 DEF NoteTyped
  <2>2. /\ hands' \in [Acting -> Hand] /\ noteJobs' \in [Notes -> Job]
        /\ reported' \in [Senders -> [sent : SUBSET Notes, failed : SUBSET Notes]]
    BY <1>0, <1>1, <1>2, <1>6, OverIs
  <2>3. NoteTyped'
    BY <1>1, <2>1, <2>2 DEF NoteTyped, Hand, Job
  <2>4. (notes'[n].status = "sent" => reached[n] > 0) /\ (notes'[n].status = "failed" => notes'[n].retries >= MaxRetries)
    BY <1>1, <1>2, <1>4 DEF RowFits
  <2>5. /\ notes'[n] # NoNote /\ notes'[n].retries <= notes[n].retries + (IF hands[a].at = "count" THEN 1 ELSE 0)
        /\ \A m \in Notes \ {n} : notes'[m] = notes[m] /\ events'[m] = events[m]
    BY <1>1, <1>2, <1>4, <2>1
  <2>6. events'[n] <= reached[n] /\ events'[n] > 0
    BY <1>4, <1>5, <2>1
  <2> QED BY <1>0, <1>1, <1>2, <1>4, <1>6, <2>3, <2>4, <2>5, <2>6, OverFits
<1>7. CASE Note!Move(a, "count") /\ UNCHANGED <<noteJobs, reported, events>>
  <2>1. /\ hands' \in [Acting -> Hand] /\ hands'[a].at = "count" /\ hands'[a].note = n
        /\ \A b \in Acting \ {a} : hands'[b] = hands[b]
    BY <1>0, <1>7, Moves
  <2>2. NoteTyped' /\ Leaves(a, n)
    BY <1>1, <1>7, <2>1 DEF NoteTyped, Hand, Leaves
  <2>3. HandFits(a)' /\ ActorBacked(a)'
    BY <1>1, <1>2, <2>1 DEF HandFits, ActorBacked
  <2>4. a \in Notes => WorkerFits(n)' /\ noteJobs'[n].state # "none"
    BY <1>3, <1>7, <2>1 DEF WorkerFits
  <2>5. a \in Senders => CallerFits(a)' /\ noteJobs'[n] = noteJobs[n]
    BY <1>0, <1>1, <1>2, <1>7, <2>1, AtStatement DEF Fits, CallerFits
  <2>6. TriesFit(n)'
    <3>1. hands[n].at \in {"record", "log", "count", "fail"} <=> hands'[n].at \in {"record", "log", "count", "fail"}
      BY <1>1, <1>2, <1>3, <2>1
    <3>2. hands[n].at = "fail" <=> hands'[n].at = "fail"
      BY <1>1, <1>2, <1>3, <2>1
    <3> QED BY <1>1, <1>2, <1>4, <1>7, <3>1, <3>2, NoteNumbers DEF TriesFit, Stalls
  <2>7. RowFits(n)' /\ reached[n] <= reached'[n]
    BY <1>1, <1>2, <1>4, <1>7 DEF RowFits
  <2> QED BY <1>0, <1>1, <1>2, <1>7, <2>1, <2>2, <2>3, <2>4, <2>5, <2>6, <2>7, StatementFits
<1> QED BY <1>0, <1>6, <1>7 DEF Note!CreateEvent

LEMMA MarkFailedKeeps ==
  ASSUME NoteTyped, Fits, NEW a \in Acting, Note!MarkFailed(a)
  PROVE  NoteTyped' /\ Fits'
<1>0. PICK n : n = hands[a].note
  OBVIOUS
<1> USE DEF Acting
<1>1. hands[a].at = "fail" /\ Note!Over(a, FALSE) /\ UNCHANGED <<toSend, reached, events>>
  BY DEF Note!MarkFailed
<1>2. n \in Notes /\ notes[n] \in NoteRows /\ notes[n] # NoNote /\ n # NoNote
  BY <1>0, <1>1, AtStatement, FrontAssumption
<1>3. TriesFit(n) /\ RowFits(n) /\ reached[n] \in Nat /\ events[n] \in Nat /\ notes[n].retries \in Nat
  BY <1>2, NoteNumbers DEF Fits
<1>4. notes[n].retries >= MaxRetries
  BY <1>0, <1>1, <1>2 DEF Fits, ActorBacked
<1>5. /\ notes' \in [Notes -> NoteRows \cup {NoNote}] /\ notes'[n] # NoNote
      /\ notes'[n].status \in {"failed", notes[n].status} /\ notes'[n].retries = notes[n].retries
      /\ \A m \in Notes \ {n} : notes'[m] = notes[m]
  BY <1>0, <1>2, SetsStatus DEF Note!MarkFailed, NoteTyped
<1>6. /\ hands' \in [Acting -> Hand] /\ noteJobs' \in [Notes -> Job]
      /\ reported' \in [Senders -> [sent : SUBSET Notes, failed : SUBSET Notes]]
  BY <1>0, <1>1, <1>2, OverIs
<1>7. NoteTyped'
  BY <1>1, <1>5, <1>6 DEF NoteTyped, Hand, Job
<1>8. (notes'[n].status = "sent" => reached[n] > 0) /\ (notes'[n].status = "failed" => notes'[n].retries >= MaxRetries)
  BY <1>2, <1>3, <1>4, <1>5 DEF RowFits
<1>9. events'[n] <= reached[n] /\ \A m \in Notes \ {n} : notes'[m] = notes[m] /\ events'[m] = events[m]
  BY <1>1, <1>2, <1>3, <1>5 DEF RowFits
<1>10. notes'[n].retries <= notes[n].retries + (IF hands[a].at = "count" THEN 1 ELSE 0)
  BY <1>1, <1>3, <1>5
<1> QED BY <1>0, <1>1, <1>2, <1>3, <1>5, <1>7, <1>8, <1>9, <1>10, OverFits

LEMMA CountRetryKeeps ==
  ASSUME NoteTyped, Fits, NEW a \in Acting, Note!CountRetry(a)
  PROVE  NoteTyped' /\ Fits'
<1>0. PICK n : n = hands[a].note
  OBVIOUS
<1> USE DEF Acting
<1>1. hands[a].at = "count" /\ UNCHANGED <<toSend, reached, events>>
  BY DEF Note!CountRetry
<1>2. n \in Notes /\ notes[n] \in NoteRows /\ notes[n] # NoNote /\ n # NoNote
  BY <1>0, <1>1, AtStatement, FrontAssumption
<1>3. (a \in Notes => a = n /\ noteJobs[n].state = "active") /\ (a \in Senders => a \notin Notes)
  BY <1>0, <1>1, AtStatement
<1>4. TriesFit(n) /\ RowFits(n) /\ reached[n] \in Nat /\ events[n] \in Nat /\ notes[n].retries \in Nat /\ MaxRetries \in Nat
  BY <1>2, NoteNumbers, FrontAssumption DEF Fits
<1>5. /\ notes' \in [Notes -> NoteRows \cup {NoNote}] /\ notes'[n] # NoNote
      /\ notes'[n].status = notes[n].status /\ notes'[n].retries \in {notes[n].retries, notes[n].retries + 1}
      /\ \A m \in Notes \ {n} : notes'[m] = notes[m]
  <2>1. CASE notes' = [notes EXCEPT ![n].retries = @ + 1]
    <3>1. PICK r : r = [notes[n] EXCEPT !.retries = @ + 1]
      OBVIOUS
    <3>2. r \in NoteRows /\ r.retries = notes[n].retries + 1 /\ r.status = notes[n].status
      BY <1>2, <1>4, <3>1 DEF NoteRows
    <3>3. notes' = [notes EXCEPT ![n] = r]
      BY <2>1, <3>1
    <3> QED BY <1>2, <3>2, <3>3, FrontAssumption DEF NoteTyped, NoteRows
  <2>2. CASE UNCHANGED notes
    BY <1>2, <2>2 DEF NoteTyped
  <2> QED BY <1>0, <2>1, <2>2 DEF Note!CountRetry
<1>6. CASE Note!Over(a, FALSE)
  <2>1. /\ hands' \in [Acting -> Hand] /\ noteJobs' \in [Notes -> Job]
        /\ reported' \in [Senders -> [sent : SUBSET Notes, failed : SUBSET Notes]]
    BY <1>0, <1>1, <1>2, <1>6, OverIs
  <2>2. NoteTyped'
    BY <1>1, <1>5, <2>1 DEF NoteTyped, Hand, Job
  <2>3. (notes'[n].status = "sent" => reached[n] > 0) /\ (notes'[n].status = "failed" => notes'[n].retries >= MaxRetries)
    BY <1>2, <1>4, <1>5 DEF RowFits
  <2>4. events'[n] <= reached[n] /\ \A m \in Notes \ {n} : notes'[m] = notes[m] /\ events'[m] = events[m]
    BY <1>1, <1>2, <1>4, <1>5 DEF RowFits
  <2>5. notes'[n].retries <= notes[n].retries + (IF hands[a].at = "count" THEN 1 ELSE 0)
    BY <1>1, <1>4, <1>5
  <2> QED BY <1>0, <1>1, <1>2, <1>4, <1>5, <1>6, <2>2, <2>3, <2>4, <2>5, OverFits
<1>7. CASE /\ notes' = [notes EXCEPT ![n].retries = @ + 1] /\ notes[n].retries + 1 >= MaxRetries
           /\ Note!Move(a, "fail") /\ UNCHANGED <<noteJobs, reported>>
  <2>1. /\ hands' \in [Acting -> Hand] /\ hands'[a].at = "fail" /\ hands'[a].note = n
        /\ \A b \in Acting \ {a} : hands'[b] = hands[b]
    BY <1>0, <1>7, Moves
  <2>2. NoteTyped' /\ Leaves(a, n)
    BY <1>1, <1>5, <1>7, <2>1 DEF NoteTyped, Hand, Leaves
  <2>3. notes'[n].retries = notes[n].retries + 1
    BY <1>2, <1>7 DEF NoteTyped, NoteRows
  <2>4. HandFits(a)' /\ ActorBacked(a)'
    BY <1>2, <1>5, <1>7, <2>1, <2>3 DEF HandFits, ActorBacked
  <2>5. a \in Notes => WorkerFits(n)' /\ noteJobs'[n].state # "none"
    BY <1>3, <1>7, <2>1 DEF WorkerFits
  <2>6. a \in Senders => notes[n].retries = 0 /\ noteJobs[n].state = "none"
    BY <1>0, <1>1, <1>2, AtStatement DEF Fits, CallerFits
  <2>7. a \in Senders => CallerFits(a)' /\ noteJobs'[n] = noteJobs[n]
    BY <1>7, <2>1, <2>6 DEF CallerFits
  <2>8. TriesFit(n)'
    <3>1. a \in Notes => hands[n].at = "count" /\ hands'[n].at = "fail" /\ noteJobs[n].state = "active"
      BY <1>1, <1>3, <2>1
    <3> QED BY <1>1, <1>2, <1>4, <1>5, <1>7, <2>3, <2>6, <3>1, NoteNumbers DEF TriesFit, Stalls
  <2>9. RowFits(n)' /\ reached[n] <= reached'[n]
    BY <1>1, <1>2, <1>4, <1>5, <1>7 DEF RowFits
  <2> QED BY <1>0, <1>1, <1>2, <1>5, <1>7, <2>1, <2>2, <2>4, <2>5, <2>7, <2>8, <2>9, StatementFits
<1> QED BY <1>0, <1>6, <1>7 DEF Note!CountRetry

-----------------------------------------------------------------------------
(* The callers and the queue.                                              *)

LEMMA AskKeeps ==
  ASSUME NoteTyped, Fits, NEW c \in Senders, Note!Ask(c)
  PROVE  NoteTyped' /\ Fits'
<1>1. UNCHANGED <<notes, noteJobs, hands, reported, reached, events>>
  BY DEF Note!Ask
<1>2. PICK S \in SUBSET {n \in Notes : notes[n] = NoNote /\ \A d \in Senders : n \notin toSend[d] \cup reported[d].failed} :
        toSend' = [toSend EXCEPT ![c] = S]
  BY DEF Note!Ask
<1>3. NoteTyped'
  BY <1>1, <1>2 DEF NoteTyped
<1>4. ToSendFits'
  <2>1. toSend'[c] = S /\ \A d \in Senders \ {c} : toSend'[d] = toSend[d]
    BY <1>2 DEF NoteTyped
  <2>2. \A d \in Senders \ {c} : S \cap toSend[d] = {} /\ toSend[d] \cap S = {}
    OBVIOUS
  <2> QED BY <1>1, <2>1, <2>2 DEF Fits, ToSendFits
<1>5. /\ \A a \in Acting : HandFits(a)' /\ ActorBacked(a)'
      /\ \A n \in Notes : WorkerFits(n)' /\ TriesFit(n)' /\ RowFits(n)'
      /\ \A d \in Senders : CallerFits(d)'
      /\ CallersDiffer' /\ ReportFits'
  BY <1>1 DEF Fits, HandFits, ActorBacked, WorkerFits, TriesFit, RowFits, CallerFits, CallersDiffer, ReportFits, Stalls
<1> QED BY <1>3, <1>4, <1>5 DEF Fits

LEMMA RefuseKeeps ==
  ASSUME NoteTyped, Fits, NEW c \in Senders, NEW n \in Notes, Note!Refuse(c, n)
  PROVE  NoteTyped' /\ Fits'
<1>1. /\ UNCHANGED <<notes, noteJobs, hands, reached, events>>
      /\ toSend' = [toSend EXCEPT ![c] = @ \ {n}] /\ reported' = [reported EXCEPT ![c].failed = @ \cup {n}]
  BY DEF Note!Refuse
<1>2. \A d \in Senders : toSend'[d] \subseteq toSend[d] /\ reported'[d].sent = reported[d].sent
  BY <1>1 DEF NoteTyped
<1>3. NoteTyped'
  BY <1>1 DEF NoteTyped
<1>4. ToSendFits' /\ ReportFits'
  BY <1>1, <1>2 DEF Fits, ToSendFits, ReportFits
<1>5. /\ \A a \in Acting : HandFits(a)' /\ ActorBacked(a)'
      /\ \A m \in Notes : WorkerFits(m)' /\ TriesFit(m)' /\ RowFits(m)'
      /\ \A d \in Senders : CallerFits(d)'
      /\ CallersDiffer'
  BY <1>1 DEF Fits, HandFits, ActorBacked, WorkerFits, TriesFit, RowFits, CallerFits, CallersDiffer, Stalls
<1> QED BY <1>3, <1>4, <1>5 DEF Fits

LEMMA CreateMessageKeeps ==
  ASSUME NoteTyped, Fits, NEW c \in Senders, NEW n \in Notes, Note!CreateMessage(c, n)
  PROVE  NoteTyped' /\ Fits'
<1> USE DEF Acting
<1>1. /\ hands[c] = Note!Idle /\ n \in toSend[c] /\ UNCHANGED <<noteJobs, reported, reached, events>>
      /\ toSend' = [toSend EXCEPT ![c] = @ \ {n}]
  BY DEF Note!CreateMessage
<1>2. PICK r \in NoteRows : notes' = [notes EXCEPT ![n] = r] /\ r.status = "pending" /\ r.retries = 0
  <2>1. PICK ch \in {"email", "other"} : notes' = [notes EXCEPT ![n] = Note!NewNote(ch)]
    BY DEF Note!CreateMessage, Note!NoteChannels
  <2>2. Note!NewNote(ch) \in NoteRows /\ Note!NewNote(ch).status = "pending" /\ Note!NewNote(ch).retries = 0
    BY DEF Note!NewNote, NoteRows
  <2> QED BY <2>1, <2>2
<1>3. PICK k \in Hand : hands' = [hands EXCEPT ![c] = k] /\ k.at \in {"claim", "add"} /\ k.note = n
  <2>1. PICK at \in {"claim", "add"} : hands' = [hands EXCEPT ![c] = [at |-> at, note |-> n]]
    BY DEF Note!CreateMessage
  <2>2. PICK k : k = [at |-> at, note |-> n]
    OBVIOUS
  <2>3. k \in Hand /\ k.at = at /\ k.note = n
    BY <2>2 DEF Hand
  <2> QED BY <2>1, <2>2, <2>3
<1>4. r # NoNote /\ n # NoNote
  BY FrontAssumption DEF NoteRows
<1>5. notes[n] = NoNote /\ \A d \in Senders \ {c} : n \notin toSend[d]
  BY <1>1 DEF Fits, ToSendFits
<1>6. noteJobs[n].state = "none" /\ reached[n] = 0 /\ events[n] = 0 /\ ~noteJobs[n].stalled /\ noteJobs[n].tries = 0
  BY <1>5 DEF Fits, TriesFit
<1>7. \A b \in Acting : hands[b].note # n
  BY <1>4, <1>5 DEF Fits, HandFits
<1>8. c \notin Notes
  BY FrontAssumption
<1>9. /\ hands' \in [Acting -> Hand] /\ hands'[c] = k /\ \A b \in Acting \ {c} : hands'[b] = hands[b]
  BY <1>3, OneHand
<1>10. /\ notes' \in [Notes -> NoteRows \cup {NoNote}] /\ notes'[n] = r
       /\ \A m \in Notes \ {n} : notes'[m] = notes[m]
  BY <1>2 DEF NoteTyped
<1>11. /\ toSend' \in [Senders -> SUBSET Notes] /\ \A d \in Senders : toSend'[d] \subseteq toSend[d] \ {n}
  BY <1>1, <1>5 DEF NoteTyped
<1>12. NoteTyped' /\ Leaves(c, n)
  BY <1>1, <1>9, <1>10, <1>11 DEF NoteTyped, Hand, Leaves
<1>13. HandFits(c)' /\ ActorBacked(c)' /\ CallerFits(c)'
  BY <1>1, <1>2, <1>3, <1>4, <1>6, <1>9, <1>10 DEF HandFits, ActorBacked, CallerFits
<1>14. WorkerFits(n)'
  BY <1>1, <1>8, <1>9 DEF Fits, WorkerFits
<1>15. TriesFit(n)'
  BY <1>1, <1>2, <1>4, <1>6, <1>10, FrontAssumption DEF TriesFit
<1>16. RowFits(n)'
  BY <1>1, <1>2, <1>6, <1>10 DEF RowFits
<1>17. reached[n] <= reached'[n] /\ notes'[n] # NoNote /\ hands'[c].note = n
       /\ (\A d \in Senders \ {c} : hands[d].note # n)
       /\ (noteJobs[n].state # "none" => noteJobs'[n].state # "none")
       /\ \A d \in Senders : \A m \in reported'[d].sent \ reported[d].sent :
            m = n /\ (reached'[n] > 0 \/ noteJobs'[n].state # "none")
  BY <1>1, <1>3, <1>4, <1>6, <1>7, <1>9, <1>10
<1>18. \A b \in Acting \ {c} : hands[b].note = n => ActorBacked(b)' /\ (b \in Senders => CallerFits(b)')
  BY <1>7
<1> QED BY <1>8, <1>11, <1>12, <1>13, <1>14, <1>15, <1>16, <1>17, <1>18, OthersFit

\* A caller that has a notification: nobody else has it but, once it has a job,
\* its worker.
LEMMA AtCaller ==
  ASSUME NoteTyped, Fits, NEW c \in Senders, hands[c].at \in {"add", "mark"}
  PROVE  /\ hands[c].note \in Notes /\ notes[hands[c].note] \in NoteRows /\ notes[hands[c].note] # NoNote
         /\ hands[c].note # NoNote /\ c \notin Notes
         /\ hands[c].at = "mark" <=> noteJobs[hands[c].note].state # "none"
         /\ \A d \in Senders \ {c} : hands[d].note # hands[c].note
<1>1. hands[c].note \in Notes /\ hands[c].note # NoNote /\ notes[hands[c].note] # NoNote
  BY FrontAssumption DEF NoteTyped, Fits, HandFits, Acting
<1> QED BY <1>1, FrontAssumption DEF NoteTyped, Fits, CallerFits, CallersDiffer

\* What a caller does with a notification that has a row keeps everything fit.
LEMMA CallerStepFits ==
  ASSUME NoteTyped, NoteTyped', Fits, NEW c \in Senders, NEW n \in Notes, n = hands[c].note,
         hands[c].at \in {"add", "mark"}, Leaves(c, n), UNCHANGED <<toSend, reached, events>>,
         hands'[c].note \in {n, NoNote}, HandFits(c)', ActorBacked(c)', CallerFits(c)',
         notes'[n] # NoNote, notes'[n].retries = notes[n].retries,
         notes'[n].status \in {"pending", "queued", notes[n].status},
         noteJobs'[n].tries = noteJobs[n].tries /\ noteJobs'[n].stalled = noteJobs[n].stalled,
         noteJobs'[n].state = noteJobs[n].state \/ (noteJobs[n].state = "none" /\ noteJobs'[n].state = "waiting"),
         \A d \in Senders : reported'[d].sent \subseteq reported[d].sent \cup {n},
         \/ noteJobs'[n].state # "none"
         \/ \A d \in Senders : reported'[d].sent \subseteq reported[d].sent
  PROVE  Fits'
<1> USE DEF Acting
<1>1. notes[n] \in NoteRows /\ notes[n] # NoNote /\ c \notin Notes /\ \A d \in Senders \ {c} : hands[d].note # n
  BY AtCaller
<1>2. hands'[n] = hands[n]
  BY <1>1 DEF Leaves
<1>3. WorkerFits(n) /\ TriesFit(n) /\ RowFits(n) /\ reached[n] \in Nat /\ events[n] \in Nat /\ notes[n].retries \in Nat
  BY <1>1, NoteNumbers DEF Fits
<1>4. noteJobs[n].state = "none" => hands[n].at = "idle" /\ reached[n] = 0 /\ notes[n].retries = 0
  BY <1>1, <1>3, AtCaller, FrontAssumption DEF Fits, CallerFits, WorkerFits
<1>5. WorkerFits(n)'
  BY <1>2, <1>3, <1>4 DEF WorkerFits
<1>6. TriesFit(n)'
  <2>1. /\ noteJobs[n].tries \in Nat /\ Stalls(n) \in {0, 1} /\ Attempts \in Nat /\ Attempts > 0
        /\ notes'[n].retries = notes[n].retries /\ reached'[n] = reached[n] /\ events'[n] = events[n]
        /\ noteJobs'[n].tries = noteJobs[n].tries /\ Stalls(n)' = Stalls(n) /\ hands'[n].at = hands[n].at
    BY <1>2, NoteNumbers, FrontAssumption DEF Stalls
  <2>2. TriesFit(n)
    BY <1>3
  <2>3. CASE noteJobs[n].state = "none"
    <3>1. /\ noteJobs[n].tries = 0 /\ ~noteJobs[n].stalled /\ reached[n] = 0 /\ notes[n].retries = 0
          /\ hands[n].at = "idle"
      BY <1>1, <1>4, <2>2, <2>3 DEF TriesFit
    <3> QED BY <2>1, <3>1 DEF TriesFit
  <2>4. CASE noteJobs[n].state # "none"
    <3>1. noteJobs'[n].state = noteJobs[n].state
      BY <2>4
    <3> QED BY <1>1, <1>3, <2>1, <2>2, <2>4, <3>1 DEF TriesFit
  <2> QED BY <2>3, <2>4
<1>7. RowFits(n)'
  BY <1>1, <1>3 DEF RowFits
<1>8. ASSUME NEW b \in Acting \ {c}, hands[b].note = n
      PROVE  ActorBacked(b)' /\ (b \in Senders => CallerFits(b)')
  <2>1. hands'[b] = hands[b] /\ b \notin Senders /\ ActorBacked(b)
    BY <1>1, <1>8 DEF Leaves, Fits
  <2> QED BY <1>8, <2>1 DEF ActorBacked
<1>9. \A d \in Senders : toSend'[d] \subseteq toSend[d] \ {n}
  BY <1>1, NotToSend
<1>10. \A d \in Senders : \A m \in reported'[d].sent \ reported[d].sent :
         m = n /\ (reached'[n] > 0 \/ noteJobs'[n].state # "none")
  OBVIOUS
<1>11. reached[n] <= reached'[n] /\ (noteJobs[n].state # "none" => noteJobs'[n].state # "none")
  BY <1>3
<1> QED BY ZenonT(60), <1>1, <1>5, <1>6, <1>7, <1>8, <1>9, <1>10, <1>11, OthersFit

LEMMA AddJobKeeps ==
  ASSUME NoteTyped, Fits, NEW c \in Senders, Note!AddJob(c)
  PROVE  NoteTyped' /\ Fits'
<1>0. PICK n : n = hands[c].note
  OBVIOUS
<1> USE DEF Acting
<1>1. hands[c].at = "add" /\ UNCHANGED <<notes, toSend, reached, events>>
  BY DEF Note!AddJob
<1>2. n \in Notes /\ n # NoNote /\ notes[n] # NoNote /\ notes[n] \in NoteRows /\ noteJobs[n].state = "none"
  BY <1>0, <1>1, AtCaller DEF NoteTyped
<1>3. noteJobs[n] \in Job
  BY <1>2, NoteNumbers
<1>4. CASE Note!TellCaller(c, FALSE)
  <2>1. /\ hands' \in [Acting -> Hand] /\ hands'[c].at = "idle" /\ hands'[c].note = NoNote
        /\ \A b \in Acting \ {c} : hands'[b] = hands[b]
        /\ UNCHANGED noteJobs
        /\ reported' \in [Senders -> [sent : SUBSET Notes, failed : SUBSET Notes]]
        /\ \A d \in Senders : reported'[d].sent \subseteq reported[d].sent
    BY <1>0, <1>2, <1>4, TellIs
  <2>2. NoteTyped' /\ Leaves(c, n)
    BY <1>1, <2>1 DEF NoteTyped, Hand, Leaves
  <2>3. HandFits(c)' /\ ActorBacked(c)' /\ CallerFits(c)'
    BY <2>1 DEF HandFits, ActorBacked, CallerFits
  <2> QED BY <1>0, <1>1, <1>2, <2>1, <2>2, <2>3, CallerStepFits
<1>5. CASE noteJobs' = [noteJobs EXCEPT ![n].state = "waiting"] /\ Note!Move(c, "mark") /\ UNCHANGED reported
  <2>1. /\ hands' \in [Acting -> Hand] /\ hands'[c].at = "mark" /\ hands'[c].note = n
        /\ \A b \in Acting \ {c} : hands'[b] = hands[b]
    BY <1>0, <1>5, Moves
  <2>2. /\ noteJobs' \in [Notes -> Job] /\ noteJobs'[n].state = "waiting"
        /\ noteJobs'[n].tries = noteJobs[n].tries /\ noteJobs'[n].stalled = noteJobs[n].stalled
        /\ \A m \in Notes \ {n} : noteJobs'[m] = noteJobs[m]
    BY <1>2, <1>3, <1>5 DEF NoteTyped, Job
  <2>3. NoteTyped' /\ Leaves(c, n)
    BY <1>1, <1>5, <2>1, <2>2 DEF NoteTyped, Hand, Leaves, Job
  <2>4. HandFits(c)' /\ ActorBacked(c)' /\ CallerFits(c)'
    BY <1>1, <1>2, <2>1, <2>2 DEF HandFits, ActorBacked, CallerFits
  <2> QED BY <1>0, <1>1, <1>2, <1>5, <2>1, <2>2, <2>3, <2>4, CallerStepFits
<1> QED BY <1>0, <1>4, <1>5 DEF Note!AddJob

LEMMA MarkQueuedKeeps ==
  ASSUME NoteTyped, Fits, NEW c \in Senders, Note!MarkQueued(c)
  PROVE  NoteTyped' /\ Fits'
<1>0. PICK n : n = hands[c].note
  OBVIOUS
<1> USE DEF Acting
<1>1. hands[c].at = "mark" /\ UNCHANGED <<toSend, reached, events>>
  BY DEF Note!MarkQueued
<1>2. n \in Notes /\ n # NoNote /\ notes[n] # NoNote /\ notes[n] \in NoteRows /\ noteJobs[n].state # "none"
  BY <1>0, <1>1, AtCaller
<1>3. PICK ok \in BOOLEAN : Note!TellCaller(c, ok)
  BY DEF Note!MarkQueued
<1>4. /\ hands' \in [Acting -> Hand] /\ hands'[c].at = "idle" /\ hands'[c].note = NoNote
      /\ \A b \in Acting \ {c} : hands'[b] = hands[b]
      /\ UNCHANGED noteJobs
      /\ reported' \in [Senders -> [sent : SUBSET Notes, failed : SUBSET Notes]]
      /\ \A d \in Senders : reported'[d].sent \subseteq reported[d].sent \cup {n}
  BY ZenonT(60), <1>0, <1>2, <1>3, TellIs
<1>5. /\ notes' \in [Notes -> NoteRows \cup {NoNote}] /\ notes'[n] # NoNote
      /\ notes'[n].status \in {"queued", notes[n].status} /\ notes'[n].retries = notes[n].retries
      /\ \A m \in Notes \ {n} : notes'[m] = notes[m]
  <2>1. CASE Note!SetStatus(n, "queued")
    BY <1>2, <2>1, SetsStatus
  <2>2. CASE UNCHANGED notes
    BY <1>2, <2>2 DEF NoteTyped
  <2> QED BY <1>0, <2>1, <2>2 DEF Note!MarkQueued
<1>6. NoteTyped' /\ Leaves(c, n)
  BY <1>1, <1>4, <1>5 DEF NoteTyped, Hand, Leaves
<1>7. HandFits(c)' /\ ActorBacked(c)' /\ CallerFits(c)'
  BY <1>4 DEF HandFits, ActorBacked, CallerFits
<1> QED BY <1>0, <1>1, <1>2, <1>4, <1>5, <1>6, <1>7, CallerStepFits

LEMMA ProcessKeeps ==
  ASSUME NoteTyped, Fits, NEW n \in Notes, Note!Process(n)
  PROVE  NoteTyped' /\ Fits'
<1> USE DEF Acting
<1>1. /\ noteJobs[n].state = "waiting" /\ UNCHANGED <<notes, toSend, reported, reached, events>>
      /\ noteJobs' = [noteJobs EXCEPT ![n].state = "active"]
      /\ hands' = [hands EXCEPT ![n] = [at |-> "claim", note |-> n]]
  BY DEF Note!Process
<1>2. PICK k : k = [at |-> "claim", note |-> n]
  OBVIOUS
<1>3. k \in Hand /\ k.at = "claim" /\ k.note = n
  BY <1>2 DEF Hand
<1>4. hands' \in [Acting -> Hand] /\ hands'[n] = k /\ \A b \in Acting \ {n} : hands'[b] = hands[b]
  BY <1>1, <1>2, <1>3, OneHand
<1>5. /\ noteJobs' \in [Notes -> Job] /\ noteJobs'[n].state = "active"
      /\ noteJobs'[n].tries = noteJobs[n].tries /\ noteJobs'[n].stalled = noteJobs[n].stalled
      /\ \A m \in Notes \ {n} : noteJobs'[m] = noteJobs[m]
  BY <1>1, NoteNumbers DEF NoteTyped, Job
<1>6. n # NoNote /\ n \notin Senders
  BY FrontAssumption
<1>7. TriesFit(n) /\ RowFits(n) /\ WorkerFits(n) /\ notes[n] # NoNote /\ reached[n] \in Nat
  BY <1>1, NoteNumbers DEF Fits, TriesFit
<1>8. NoteTyped' /\ Leaves(n, n)
  BY <1>1, <1>4, <1>5 DEF NoteTyped, Hand, Job, Leaves
<1>9. HandFits(n)' /\ ActorBacked(n)' /\ WorkerFits(n)'
  BY <1>1, <1>3, <1>4, <1>5, <1>6, <1>7 DEF HandFits, ActorBacked, WorkerFits
<1>10. TriesFit(n)'
  <2>1. hands[n].at = "idle"
    BY <1>1, <1>7 DEF WorkerFits
  <2> QED BY <1>1, <1>3, <1>4, <1>5, <1>7, <2>1 DEF TriesFit, Stalls
<1>11. RowFits(n)'
  BY <1>1, <1>5, <1>7 DEF RowFits
<1>12. ASSUME NEW b \in Acting \ {n}, hands[b].note = n
       PROVE  ActorBacked(b)' /\ (b \in Senders => CallerFits(b)')
  <2>1. b \in Senders
    BY <1>6, <1>12 DEF Fits, WorkerFits
  <2>2. hands[b].at = "mark" /\ hands'[b] = hands[b]
    BY <1>1, <1>4, <1>6, <1>12, <2>1 DEF Fits, CallerFits
  <2> QED BY <1>5, <1>12, <2>2 DEF ActorBacked, CallerFits
<1>13. \A c \in Senders : toSend'[c] \subseteq toSend[c] \ {n}
  BY <1>1, <1>7, NotToSend
<1>14. reached[n] <= reached'[n] /\ notes'[n] # NoNote /\ noteJobs'[n].state # "none" /\ hands'[n].note = n
  BY <1>1, <1>3, <1>4, <1>5, <1>7
<1> QED BY <1>1, <1>6, <1>8, <1>9, <1>10, <1>11, <1>12, <1>13, <1>14, OthersFit

LEMMA StallKeeps ==
  ASSUME NoteTyped, Fits, NEW n \in Notes, Note!Stall(n)
  PROVE  NoteTyped' /\ Fits'
<1> USE DEF Acting
<1>1. /\ noteJobs[n].state = "active" /\ ~noteJobs[n].stalled /\ UNCHANGED <<notes, toSend, reported, reached, events>>
      /\ noteJobs' = [noteJobs EXCEPT ![n].state = "waiting", ![n].stalled = TRUE]
      /\ hands' = [hands EXCEPT ![n] = Note!Idle]
  BY DEF Note!Stall
<1>2. hands' \in [Acting -> Hand] /\ hands'[n] = Note!Idle /\ \A b \in Acting \ {n} : hands'[b] = hands[b]
  BY <1>1, OneHand, NoteValues
<1>3. /\ noteJobs' \in [Notes -> Job] /\ noteJobs'[n].state = "waiting"
      /\ noteJobs'[n].tries = noteJobs[n].tries /\ noteJobs'[n].stalled
      /\ \A m \in Notes \ {n} : noteJobs'[m] = noteJobs[m]
  BY <1>1, NoteNumbers DEF NoteTyped, Job
<1>4. n # NoNote /\ n \notin Senders
  BY FrontAssumption
<1>5. TriesFit(n) /\ RowFits(n) /\ WorkerFits(n) /\ notes[n] # NoNote /\ reached[n] \in Nat
  BY <1>1, NoteNumbers DEF Fits, TriesFit
<1>6. NoteTyped' /\ Leaves(n, n)
  BY <1>1, <1>2, <1>3 DEF NoteTyped, Hand, Job, Leaves
<1>7. HandFits(n)' /\ ActorBacked(n)' /\ WorkerFits(n)'
  BY <1>2, <1>3, NoteValues DEF HandFits, ActorBacked, WorkerFits
<1>8. TriesFit(n)'
  <2>1. Stalls(n) = 0 /\ Stalls(n)' = 1
    BY <1>1, <1>3 DEF Stalls
  <2>2. noteJobs[n].tries \in Nat /\ notes[n].retries \in Nat
    BY <1>5, NoteNumbers
  <2> QED BY <1>1, <1>2, <1>3, <1>5, <2>1, <2>2, NoteValues, FrontAssumption DEF TriesFit
<1>9. RowFits(n)'
  BY <1>1, <1>3, <1>5 DEF RowFits
<1>10. ASSUME NEW b \in Acting \ {n}, hands[b].note = n
       PROVE  ActorBacked(b)' /\ (b \in Senders => CallerFits(b)')
  <2>1. b \in Senders
    BY <1>4, <1>10 DEF Fits, WorkerFits
  <2>2. hands[b].at = "mark" /\ hands'[b] = hands[b]
    BY <1>1, <1>2, <1>4, <1>10, <2>1 DEF Fits, CallerFits
  <2> QED BY <1>3, <1>10, <2>2 DEF ActorBacked, CallerFits
<1>11. \A c \in Senders : toSend'[c] \subseteq toSend[c] \ {n}
  BY <1>1, <1>5, NotToSend
<1>12. reached[n] <= reached'[n] /\ notes'[n] # NoNote /\ noteJobs'[n].state # "none" /\ hands'[n].note = NoNote
  BY <1>1, <1>2, <1>3, <1>5, NoteValues
<1> QED BY <1>1, <1>4, <1>6, <1>7, <1>8, <1>9, <1>10, <1>11, <1>12, OthersFit

LEMMA VanishKeeps ==
  ASSUME NoteTyped, Fits, NEW c \in Senders, Note!Vanish(c)
  PROVE  NoteTyped' /\ Fits'
<1> USE DEF Acting
<1>1. UNCHANGED <<notes, noteJobs, toSend, reported, reached, events>>
  BY DEF Note!Vanish
<1>2. /\ hands' \in [Acting -> Hand] /\ hands'[c].at = "gone" /\ hands'[c].note = NoNote
      /\ \A b \in Acting \ {c} : hands'[b] = hands[b]
  <2>1. PICK k : k = [at |-> "gone", note |-> NoNote]
    OBVIOUS
  <2>2. k \in Hand /\ k.at = "gone" /\ k.note = NoNote
    BY <2>1 DEF Hand
  <2> QED BY <2>1, <2>2, OneHand DEF Note!Vanish
<1>3. NoteTyped'
  BY <1>1, <1>2 DEF NoteTyped, Hand
<1>4. c \notin Notes
  BY FrontAssumption
<1>5. \A a \in Acting : HandFits(a)' /\ ActorBacked(a)'
  BY <1>1, <1>2 DEF Fits, HandFits, ActorBacked
<1>6. ASSUME NEW n \in Notes PROVE WorkerFits(n)' /\ TriesFit(n)' /\ RowFits(n)'
  <2>1. hands'[n] = hands[n] /\ WorkerFits(n) /\ TriesFit(n) /\ RowFits(n)
    BY <1>2, <1>4 DEF Fits
  <2> QED BY <1>1, <2>1 DEF WorkerFits, TriesFit, RowFits, Stalls
<1>7. \A d \in Senders : CallerFits(d)'
  BY <1>1, <1>2 DEF Fits, CallerFits
<1>8. CallersDiffer'
  BY <1>2 DEF Fits, CallersDiffer
<1>9. ToSendFits' /\ ReportFits'
  BY <1>1 DEF Fits, ToSendFits, ReportFits
<1> QED BY <1>3, <1>5, <1>6, <1>7, <1>8, <1>9 DEF Fits

LEMMA InitNoteInv == Note!NoteInit => NoteInv
<1> SUFFICES ASSUME Note!NoteInit PROVE NoteInv
  OBVIOUS
<1> USE DEF Acting
<1>1. /\ notes = [n \in Notes |-> NoNote] /\ noteJobs = [n \in Notes |-> Note!NoJob]
      /\ hands = [a \in Acting |-> Note!Idle] /\ toSend = [c \in Senders |-> {}]
      /\ reported = [c \in Senders |-> [sent |-> {}, failed |-> {}]]
      /\ reached = [n \in Notes |-> 0] /\ events = [n \in Notes |-> 0]
  BY DEF Note!NoteInit, Note!Actors
<1>2. NoteTyped
  BY <1>1, NoteValues DEF NoteTyped, Hand, Job
<1>3. \A a \in Acting : hands[a].at = "idle" /\ hands[a].note = NoNote
  BY <1>1, NoteValues
<1>4. \A n \in Notes : /\ noteJobs[n].state = "none" /\ noteJobs[n].tries = 0 /\ ~noteJobs[n].stalled
                       /\ notes[n] = NoNote /\ reached[n] = 0 /\ events[n] = 0
  BY <1>1, NoteValues
<1>5. \A c \in Senders : toSend[c] = {} /\ reported[c].sent = {}
  BY <1>1
<1>6. \A a \in Acting : HandFits(a) /\ ActorBacked(a)
  BY <1>3 DEF HandFits, ActorBacked
<1>7. \A n \in Notes : WorkerFits(n) /\ TriesFit(n) /\ RowFits(n)
  BY <1>3, <1>4, FrontAssumption DEF WorkerFits, TriesFit, RowFits
<1>8. \A c \in Senders : CallerFits(c)
  BY <1>3 DEF CallerFits
<1>9. CallersDiffer /\ ToSendFits /\ ReportFits
  BY <1>3, <1>5 DEF CallersDiffer, ToSendFits, ReportFits
<1> QED BY <1>2, <1>6, <1>7, <1>8, <1>9, NoteParts DEF Fits

LEMMA NextNoteInv ==
  ASSUME NoteInv, Note!Next \/ UNCHANGED noteVars
  PROVE  NoteInv'
<1>1. NoteTyped /\ Fits
  BY NoteParts
<1>2. CASE Note!Next
  <2>1. NoteTyped' /\ Fits'
    <3>1. ASSUME NEW c \in Senders, Note!Ask(c) \/ Note!Serve(c) \/ Note!Vanish(c)
          PROVE  NoteTyped' /\ Fits'
      BY <1>1, <3>1, AskKeeps, VanishKeeps, AddJobKeeps, MarkQueuedKeeps, RefuseKeeps, CreateMessageKeeps DEF Note!Serve
    <3>2. ASSUME NEW a \in Acting, Note!SendImmediately(a)
          PROVE  NoteTyped' /\ Fits'
      BY <1>1, <3>2, ClaimKeeps, CallKeeps, RecordSentKeeps, CreateEventKeeps, CountRetryKeeps, MarkFailedKeeps
         DEF Note!SendImmediately
    <3> QED BY <1>1, <1>2, <3>1, <3>2, ProcessKeeps, StallKeeps DEF Note!Next, Note!Actors, Acting
  <2> QED BY <2>1 DEF NoteInv, HandsInv, TriesInv, BackedInv, Fits, Acting, HandFits, ActorBacked, WorkerFits, TriesFit,
                      RowFits, CallerFits, CallersDiffer, ToSendFits, ReportFits, Stalls
<1>3. CASE UNCHANGED noteVars
  BY <1>3 DEF noteVars, NoteInv, NoteTyped, HandsInv, TriesInv, BackedInv, Stalls
<1> QED BY <1>2, <1>3

-----------------------------------------------------------------------------
(* The chat widget.                                                        *)

Server ==
  [at : {"idle", "lead", "newlead", "chat", "newchat", "store", "publish"},
   msg : WidgetMessages \cup {NoChat}, lead : Nat, chat : Nat]

\* What a handler knows.
ServerFits(h) ==
  /\ serving[h].at = "idle" <=> serving[h].msg = NoChat
  /\ serving[h].at \in {"chat", "newchat", "store", "publish"} =>
       serving[h].lead \in DOMAIN visitorLeads /\ visitorLeads[serving[h].lead] = Author[serving[h].msg]
  /\ serving[h].at \in {"store", "publish"} =>
       serving[h].chat \in DOMAIN chats /\ chats[serving[h].chat].lead = serving[h].lead
  /\ serving[h].at = "publish" => chatRows[serving[h].msg] = serving[h].chat

LeadsAreSingle == \A i, j \in DOMAIN visitorLeads : visitorLeads[i] = visitorLeads[j] => i = j
ChatsAreSingle ==
  \A i, j \in DOMAIN chats : chats[i].lead = chats[j].lead /\ chats[i].active /\ chats[j].active => i = j

\* Nobody creates a second lead, or conversation, alone.
CreatesFirst(h) ==
  /\ serving[h].at = "newlead" => \A i \in DOMAIN visitorLeads : visitorLeads[i] # Author[serving[h].msg]
  /\ serving[h].at = "newchat" => \A i \in DOMAIN chats : ~(chats[i].lead = serving[h].lead /\ chats[i].active)

LEMMA WidgetParts ==
  /\ ServingInv <=> /\ \A i \in DOMAIN chats : chats[i].lead \in DOMAIN visitorLeads
                    /\ \A m \in WidgetMessages : chatRows[m] # NoChat => chatRows[m] \in DOMAIN chats
                    /\ \A h \in WidgetHandlers : ServerFits(h)
  /\ SingleInv <=> (overlap <= 1 =>
                      /\ \A g, h \in WidgetHandlers : serving[g].at # "idle" /\ serving[h].at # "idle" => g = h
                      /\ LeadsAreSingle /\ ChatsAreSingle /\ \A h \in WidgetHandlers : CreatesFirst(h))
  BY DEF ServingInv, SingleInv, ServerFits, LeadsAreSingle, ChatsAreSingle, CreatesFirst

\* Leads and conversations are only added, and conversations only closed.
Grows ==
  /\ \A i \in DOMAIN visitorLeads : i \in DOMAIN visitorLeads' /\ visitorLeads'[i] = visitorLeads[i]
  /\ \A i \in DOMAIN chats : i \in DOMAIN chats' /\ chats'[i].lead = chats[i].lead

\* A step of the handler h that keeps what h knows keeps what is known.
LEMMA ServingKept ==
  ASSUME WidgetTyped, WidgetTyped', ServingInv, ConfirmedInv, NEW h \in WidgetHandlers, Grows,
         \A g \in WidgetHandlers \ {h} : serving'[g] = serving[g],
         \A m \in WidgetMessages : m # serving[h].msg => chatRows'[m] = chatRows[m],
         serving[h].msg \in WidgetMessages /\ chatRows'[serving[h].msg] # NoChat =>
           chatRows'[serving[h].msg] \in DOMAIN chats',
         \A i \in DOMAIN chats' \ DOMAIN chats : chats'[i].lead \in DOMAIN visitorLeads',
         ServerFits(h)'
  PROVE  ServingInv'
<1>1. \A i \in DOMAIN chats' : chats'[i].lead \in DOMAIN visitorLeads'
  BY WidgetParts DEF Grows
<1>2. \A m \in WidgetMessages : chatRows'[m] # NoChat => chatRows'[m] \in DOMAIN chats'
  BY WidgetParts DEF Grows
<1>3. ASSUME NEW g \in WidgetHandlers PROVE ServerFits(g)'
  <2>1. CASE g = h
    BY <2>1
  <2>2. CASE g # h
    <3>1. ServerFits(g) /\ serving'[g] = serving[g] /\ serving[g] \in Server
      BY <2>2, WidgetParts DEF WidgetTyped, Server
    <3>2. serving[g].msg # NoChat => chatRows'[serving[g].msg] = chatRows[serving[g].msg]
      BY <2>2, <3>1 DEF ConfirmedInv, Server
    <3> QED BY <3>1, <3>2 DEF ServerFits, Grows
  <2> QED BY <2>1, <2>2
<1> QED BY <1>1, <1>2, <1>3 DEF ServingInv, ServerFits

\* A busy handler that goes on, or ends, keeps things single when it was so.
LEMMA SingleKept ==
  ASSUME SingleInv, NEW h \in WidgetHandlers, serving[h].at # "idle", UNCHANGED overlap,
         \A g \in WidgetHandlers \ {h} : serving'[g] = serving[g],
         overlap <= 1 /\ LeadsAreSingle /\ ChatsAreSingle /\ CreatesFirst(h) =>
           LeadsAreSingle' /\ ChatsAreSingle' /\ CreatesFirst(h)'
  PROVE  SingleInv'
<1> SUFFICES ASSUME overlap <= 1
             PROVE  /\ \A g, k \in WidgetHandlers : serving'[g].at # "idle" /\ serving'[k].at # "idle" => g = k
                    /\ LeadsAreSingle' /\ ChatsAreSingle' /\ \A g \in WidgetHandlers : CreatesFirst(g)'
  BY DEF SingleInv, LeadsAreSingle, ChatsAreSingle, CreatesFirst
<1>1. /\ \A g, k \in WidgetHandlers : serving[g].at # "idle" /\ serving[k].at # "idle" => g = k
      /\ LeadsAreSingle /\ ChatsAreSingle /\ CreatesFirst(h)
  BY WidgetParts
<1>2. \A g \in WidgetHandlers \ {h} : serving'[g].at = "idle"
  BY <1>1
<1>3. \A g \in WidgetHandlers \ {h} : CreatesFirst(g)'
  BY <1>2 DEF CreatesFirst
<1> QED BY <1>1, <1>2, <1>3

\* A handler that goes on with its message, or lets go of it, and what is
\* confirmed.
LEMMA ConfirmedKept ==
  ASSUME WidgetTyped, ServingInv, ConfirmedInv, NEW h \in WidgetHandlers, serving[h].msg # NoChat, Grows,
         \A g \in WidgetHandlers \ {h} : serving'[g] = serving[g],
         \A m \in WidgetMessages : m # serving[h].msg => chatRows'[m] = chatRows[m],
         \/ serving'[h].msg = serving[h].msg /\ UNCHANGED <<published, confirmed, rejected>>
         \/ serving'[h].msg = NoChat /\ UNCHANGED <<published, confirmed>> /\ rejected' = rejected \cup {serving[h].msg}
  PROVE  ConfirmedInv'
<1> DEFINE Shared(g, k) == serving'[g].msg # NoChat /\ serving'[g].msg = serving'[k].msg
<1>1. \A g, k \in WidgetHandlers : serving[g].msg # NoChat /\ serving[g].msg = serving[k].msg => g = k
  BY DEF ConfirmedInv
<1>2. \A g, k \in WidgetHandlers : Shared(g, k) => g = k
  BY <1>1
<1>3. NoChat \notin confirmed /\ serving[h].msg \notin confirmed /\ \A m \in confirmed : m \in WidgetMessages
  BY FrontAssumption DEF ConfirmedInv, WidgetTyped
<1>4. \A g \in WidgetHandlers : serving'[g].msg \notin confirmed' \cup rejected'
  <2> SUFFICES ASSUME NEW g \in WidgetHandlers PROVE serving'[g].msg \notin confirmed' \cup rejected'
    OBVIOUS
  <2>1. NoChat \notin confirmed \cup rejected /\ \A k \in WidgetHandlers : serving[k].msg \notin confirmed \cup rejected
    BY FrontAssumption DEF WidgetTyped, ConfirmedInv
  <2>2. CASE g = h
    BY <2>1, <2>2
  <2>3. CASE g # h
    <3>1. serving'[g].msg = serving[g].msg /\ serving[g].msg # serving[h].msg
      BY <1>1, <2>3
    <3> QED BY <2>1, <3>1
  <2> QED BY <2>2, <2>3
<1>5. \A m \in confirmed : /\ chatRows[m] \in DOMAIN chats /\ visitorLeads[chats[chatRows[m]].lead] = Author[m]
                           /\ chatRows'[m] = chatRows[m]
  BY <1>3 DEF ConfirmedInv
<1>6. \A m \in confirmed : chatRows'[m] \in DOMAIN chats' /\ visitorLeads'[chats'[chatRows'[m]].lead] = Author[m]
  BY <1>5 DEF Grows, ServingInv
<1> QED BY <1>2, <1>3, <1>4, <1>6 DEF ConfirmedInv

\* What the steps of processMessage do to the handler that takes them.
ServesOn(h, at) == serving' = [serving EXCEPT ![h].at = at]
ServesLead(h, l) == serving' = [serving EXCEPT ![h].at = "chat", ![h].lead = l]
ServesChat(h, i) == serving' = [serving EXCEPT ![h].at = "store", ![h].chat = i]
LetsGo(h) == serving' = [serving EXCEPT ![h] = Chat!NotServing]

LEMMA ServerSteps ==
  ASSUME WidgetTyped, NEW h \in WidgetHandlers,
         \/ \E at \in {"newlead", "newchat", "publish"} : ServesOn(h, at)
         \/ \E l \in Nat : ServesLead(h, l) \/ ServesChat(h, l)
         \/ LetsGo(h)
  PROVE  serving' \in [WidgetHandlers -> Server] /\ \A g \in WidgetHandlers \ {h} : serving'[g] = serving[g]
<1>1. serving \in [WidgetHandlers -> Server] /\ serving[h] \in Server
  BY DEF WidgetTyped, Server
<1>2. ASSUME NEW at \in {"newlead", "newchat", "publish"}, ServesOn(h, at)
      PROVE  serving' \in [WidgetHandlers -> Server] /\ \A g \in WidgetHandlers \ {h} : serving'[g] = serving[g]
  BY <1>1, <1>2 DEF ServesOn, Server
<1>3. ASSUME NEW l \in Nat, ServesLead(h, l)
      PROVE  serving' \in [WidgetHandlers -> Server] /\ \A g \in WidgetHandlers \ {h} : serving'[g] = serving[g]
  BY <1>1, <1>3 DEF ServesLead, Server
<1>4. ASSUME NEW l \in Nat, ServesChat(h, l)
      PROVE  serving' \in [WidgetHandlers -> Server] /\ \A g \in WidgetHandlers \ {h} : serving'[g] = serving[g]
  BY <1>1, <1>4 DEF ServesChat, Server
<1>5. ASSUME LetsGo(h)
      PROVE  serving' \in [WidgetHandlers -> Server] /\ \A g \in WidgetHandlers \ {h} : serving'[g] = serving[g]
  <2>1. Chat!NotServing \in Server
    BY DEF Chat!NotServing, Server
  <2> QED BY <1>1, <1>5, <2>1 DEF LetsGo
<1> QED BY <1>2, <1>3, <1>4, <1>5

\* The handler that has found a lead, or none.
LEMMA FindVisitorKeeps ==
  ASSUME WidgetInv, NEW h \in WidgetHandlers, Chat!FindVisitor(h)
  PROVE  WidgetInv'
<1> USE WidgetParts DEF WidgetInv
<1>1. serving[h].at = "lead" /\ UNCHANGED <<visitorLeads, chats, chatRows, published, confirmed, rejected, overlap>>
  BY DEF Chat!FindVisitor
<1>2. serving[h] \in Server /\ serving[h].msg # NoChat /\ ServerFits(h)
  BY <1>1 DEF WidgetTyped, Server, ServerFits
<1>3. \/ \E i \in DOMAIN visitorLeads : visitorLeads[i] = Author[serving[h].msg] /\ ServesLead(h, i)
      \/ (\A i \in DOMAIN visitorLeads : visitorLeads[i] # Author[serving[h].msg]) /\ ServesOn(h, "newlead")
  BY DEF Chat!FindVisitor, Chat!LeadsOfVisitor, ServesLead, ServesOn
<1>4. \A i \in DOMAIN visitorLeads : i \in Nat
  BY LenProperties DEF WidgetTyped
<1>5. serving' \in [WidgetHandlers -> Server] /\ \A g \in WidgetHandlers \ {h} : serving'[g] = serving[g]
  BY <1>3, <1>4, ServerSteps
<1>6. WidgetTyped' /\ Grows
  BY <1>1, <1>5 DEF WidgetTyped, Server, Grows
<1>7. /\ serving'[h].msg = serving[h].msg
      /\ \/ serving'[h].at = "chat" /\ serving'[h].lead \in DOMAIN visitorLeads
            /\ visitorLeads[serving'[h].lead] = Author[serving[h].msg]
         \/ serving'[h].at = "newlead" /\ \A i \in DOMAIN visitorLeads : visitorLeads[i] # Author[serving[h].msg]
  <2>1. CASE \E i \in DOMAIN visitorLeads : visitorLeads[i] = Author[serving[h].msg] /\ ServesLead(h, i)
    BY <1>2, <2>1 DEF ServesLead, WidgetTyped, Server
  <2>2. CASE (\A i \in DOMAIN visitorLeads : visitorLeads[i] # Author[serving[h].msg]) /\ ServesOn(h, "newlead")
    BY <1>2, <2>2 DEF ServesOn, WidgetTyped, Server
  <2> QED BY <1>3, <2>1, <2>2
<1>8. ServerFits(h)'
  BY <1>1, <1>2, <1>7 DEF ServerFits
<1>9. ServingInv'
  BY <1>1, <1>5, <1>6, <1>8, ServingKept
<1>10. ConfirmedInv'
  BY <1>1, <1>2, <1>5, <1>6, <1>7, ConfirmedKept
<1>11. LeadsAreSingle /\ ChatsAreSingle => LeadsAreSingle' /\ ChatsAreSingle' /\ CreatesFirst(h)'
  BY <1>1, <1>7 DEF LeadsAreSingle, ChatsAreSingle, CreatesFirst
<1>12. SingleInv'
  BY <1>1, <1>5, <1>11, SingleKept
<1> QED BY <1>6, <1>9, <1>10, <1>12

LEMMA CreateVisitorKeeps ==
  ASSUME WidgetInv, NEW h \in WidgetHandlers, Chat!CreateVisitor(h)
  PROVE  WidgetInv'
<1> USE WidgetParts DEF WidgetInv
<1>1. serving[h].at = "newlead" /\ UNCHANGED <<chats, chatRows, published, confirmed, rejected, overlap>>
  BY DEF Chat!CreateVisitor
<1>2. serving[h] \in Server /\ serving[h].msg \in WidgetMessages /\ serving[h].msg # NoChat /\ ServerFits(h)
  BY <1>1 DEF WidgetTyped, Server, ServerFits
<1>3. PICK v \in Visitors : v = Author[serving[h].msg]
  BY <1>2, FrontAssumption
<1>4. visitorLeads' = Append(visitorLeads, v) /\ visitorLeads \in Seq(Visitors)
  BY <1>3 DEF Chat!CreateVisitor, WidgetTyped
<1>5. PICK l \in Nat : l = Len(visitorLeads) + 1
  BY <1>4, LenProperties
<1>6. /\ visitorLeads' \in Seq(Visitors) /\ Len(visitorLeads') = l /\ visitorLeads'[l] = v
      /\ DOMAIN visitorLeads = 1..(l - 1) /\ DOMAIN visitorLeads' = 1..l
      /\ \A i \in DOMAIN visitorLeads : visitorLeads'[i] = visitorLeads[i]
  BY <1>4, <1>5, AppendProperties, LenProperties
<1>7. ServesLead(h, l)
  BY <1>5, <1>6 DEF Chat!CreateVisitor, ServesLead
<1>8. serving' \in [WidgetHandlers -> Server] /\ \A g \in WidgetHandlers \ {h} : serving'[g] = serving[g]
  BY <1>7, ServerSteps
<1>9. WidgetTyped' /\ Grows
  BY <1>1, <1>6, <1>8 DEF WidgetTyped, Server, Grows
<1>10. serving'[h].msg = serving[h].msg /\ serving'[h].at = "chat" /\ serving'[h].lead = l
  BY <1>2, <1>7 DEF ServesLead, WidgetTyped, Server
<1>11. ServerFits(h)'
  <2>1. l \in 1..l
    BY <1>5, LenProperties, <1>4
  <2>2. serving'[h].lead \in DOMAIN visitorLeads' /\ visitorLeads'[serving'[h].lead] = Author[serving'[h].msg]
    BY <1>3, <1>6, <1>10, <2>1
  <2> QED BY <1>2, <1>10, <2>2 DEF ServerFits
<1>12. ServingInv'
  BY <1>1, <1>8, <1>9, <1>11, ServingKept
<1>13. ConfirmedInv'
  BY <1>1, <1>2, <1>8, <1>9, <1>10, ConfirmedKept
<1>14. LeadsAreSingle /\ ChatsAreSingle /\ CreatesFirst(h) => LeadsAreSingle' /\ ChatsAreSingle' /\ CreatesFirst(h)'
  <2> SUFFICES ASSUME LeadsAreSingle, ChatsAreSingle, CreatesFirst(h)
               PROVE  LeadsAreSingle' /\ ChatsAreSingle' /\ CreatesFirst(h)'
    OBVIOUS
  <2>1. \A i \in DOMAIN visitorLeads : visitorLeads[i] # v
    BY <1>1, <1>3 DEF CreatesFirst
  <2>2. \A i \in DOMAIN visitorLeads' : i = l \/ i \in DOMAIN visitorLeads
    BY <1>6
  <2>3. LeadsAreSingle'
    BY <1>6, <2>1, <2>2 DEF LeadsAreSingle
  <2> QED BY <1>1, <1>10, <2>3 DEF ChatsAreSingle, CreatesFirst
<1>15. SingleInv'
  BY <1>1, <1>8, <1>14, SingleKept
<1> QED BY <1>9, <1>12, <1>13, <1>15

LEMMA FindChatKeeps ==
  ASSUME WidgetInv, NEW h \in WidgetHandlers, Chat!FindChat(h)
  PROVE  WidgetInv'
<1> USE WidgetParts DEF WidgetInv
<1> DEFINE Found(i) == chats[i].lead = serving[h].lead /\ chats[i].active
<1>1. serving[h].at = "chat" /\ UNCHANGED <<visitorLeads, chats, chatRows, published, confirmed, rejected, overlap>>
  BY DEF Chat!FindChat
<1>2. serving[h] \in Server /\ serving[h].msg # NoChat /\ ServerFits(h)
  BY <1>1 DEF WidgetTyped, Server, ServerFits
<1>3. \/ \E i \in DOMAIN chats : Found(i) /\ ServesChat(h, i)
      \/ (\A i \in DOMAIN chats : ~Found(i)) /\ ServesOn(h, "newchat")
  BY DEF Chat!FindChat, Chat!OpenChats, ServesChat, ServesOn
<1>4. \A i \in DOMAIN chats : i \in Nat
  BY LenProperties DEF WidgetTyped
<1>5. serving' \in [WidgetHandlers -> Server] /\ \A g \in WidgetHandlers \ {h} : serving'[g] = serving[g]
  BY <1>3, <1>4, ServerSteps
<1>6. WidgetTyped' /\ Grows
  BY <1>1, <1>5 DEF WidgetTyped, Server, Grows
<1>7. /\ serving'[h].msg = serving[h].msg /\ serving'[h].lead = serving[h].lead
      /\ \/ /\ serving'[h].at = "store" /\ serving'[h].chat \in DOMAIN chats
            /\ chats[serving'[h].chat].lead = serving[h].lead
         \/ serving'[h].at = "newchat" /\ \A i \in DOMAIN chats : ~Found(i)
  <2>1. CASE \E i \in DOMAIN chats : Found(i) /\ ServesChat(h, i)
    BY <1>2, <2>1 DEF ServesChat, WidgetTyped, Server
  <2>2. CASE (\A i \in DOMAIN chats : ~Found(i)) /\ ServesOn(h, "newchat")
    BY <1>2, <2>2 DEF ServesOn, WidgetTyped, Server
  <2> QED BY <1>3, <2>1, <2>2
<1>8. ServerFits(h)'
  BY <1>1, <1>2, <1>7 DEF ServerFits
<1>9. ServingInv'
  BY <1>1, <1>5, <1>6, <1>8, ServingKept
<1>10. ConfirmedInv'
  BY <1>1, <1>2, <1>5, <1>6, <1>7, ConfirmedKept
<1>11. LeadsAreSingle /\ ChatsAreSingle => LeadsAreSingle' /\ ChatsAreSingle' /\ CreatesFirst(h)'
  BY <1>1, <1>7 DEF LeadsAreSingle, ChatsAreSingle, CreatesFirst
<1>12. SingleInv'
  BY <1>1, <1>5, <1>11, SingleKept
<1> QED BY <1>6, <1>9, <1>10, <1>12

LEMMA CreateChatKeeps ==
  ASSUME WidgetInv, NEW h \in WidgetHandlers, Chat!CreateChat(h)
  PROVE  WidgetInv'
<1> USE WidgetParts DEF WidgetInv
<1>1. serving[h].at = "newchat" /\ UNCHANGED <<visitorLeads, chatRows, published, confirmed, rejected, overlap>>
  BY DEF Chat!CreateChat
<1>2. serving[h] \in Server /\ serving[h].msg # NoChat /\ ServerFits(h)
  BY <1>1 DEF WidgetTyped, Server, ServerFits
<1>3. PICK c \in [lead : Nat, active : BOOLEAN] : c = [lead |-> serving[h].lead, active |-> TRUE]
  BY <1>2 DEF Server
<1>4. chats' = Append(chats, c) /\ chats \in Seq([lead : Nat, active : BOOLEAN])
  BY <1>3 DEF Chat!CreateChat, WidgetTyped
<1>5. PICK l \in Nat : l = Len(chats) + 1
  BY <1>4, LenProperties
<1>6. /\ chats' \in Seq([lead : Nat, active : BOOLEAN]) /\ Len(chats') = l /\ chats'[l] = c
      /\ DOMAIN chats = 1..(l - 1) /\ DOMAIN chats' = 1..l
      /\ \A i \in DOMAIN chats : chats'[i] = chats[i]
  BY <1>4, <1>5, AppendProperties, LenProperties
<1>7. ServesChat(h, l)
  BY <1>5, <1>6 DEF Chat!CreateChat, ServesChat
<1>8. serving' \in [WidgetHandlers -> Server] /\ \A g \in WidgetHandlers \ {h} : serving'[g] = serving[g]
  BY <1>7, ServerSteps
<1>9. WidgetTyped' /\ Grows
  BY <1>1, <1>6, <1>8 DEF WidgetTyped, Server, Grows
<1>10. /\ serving'[h].msg = serving[h].msg /\ serving'[h].at = "store" /\ serving'[h].lead = serving[h].lead
       /\ serving'[h].chat = l
  BY <1>2, <1>7 DEF ServesChat, WidgetTyped, Server
<1>11. ServerFits(h)'
  <2>1. l \in 1..l
    BY <1>5, LenProperties, <1>4
  <2>2. serving'[h].chat \in DOMAIN chats' /\ chats'[serving'[h].chat].lead = serving'[h].lead
    BY <1>3, <1>6, <1>10, <2>1
  <2>3. serving'[h].lead \in DOMAIN visitorLeads' /\ visitorLeads'[serving'[h].lead] = Author[serving'[h].msg]
    BY <1>1, <1>2, <1>10 DEF ServerFits
  <2> QED BY <1>2, <1>10, <2>2, <2>3 DEF ServerFits
<1>12. \A i \in DOMAIN chats' \ DOMAIN chats : chats'[i].lead \in DOMAIN visitorLeads'
  BY <1>1, <1>2, <1>3, <1>6 DEF ServerFits
<1>13. ServingInv'
  <2>1. serving[h].msg \in WidgetMessages /\ chatRows'[serving[h].msg] # NoChat =>
          chatRows'[serving[h].msg] \in DOMAIN chats'
    BY <1>1, <1>9 DEF Grows
  <2> QED BY <1>1, <1>8, <1>9, <1>11, <1>12, <2>1, ServingKept
<1>14. ConfirmedInv'
  BY <1>1, <1>2, <1>8, <1>9, <1>10, ConfirmedKept
<1>15. LeadsAreSingle /\ ChatsAreSingle /\ CreatesFirst(h) => LeadsAreSingle' /\ ChatsAreSingle' /\ CreatesFirst(h)'
  <2> SUFFICES ASSUME LeadsAreSingle, ChatsAreSingle, CreatesFirst(h)
               PROVE  LeadsAreSingle' /\ ChatsAreSingle' /\ CreatesFirst(h)'
    OBVIOUS
  <2>1. \A i \in DOMAIN chats : ~(chats[i].lead = c.lead /\ chats[i].active)
    BY <1>1, <1>3 DEF CreatesFirst
  <2>2. \A i \in DOMAIN chats' : i = l \/ i \in DOMAIN chats
    BY <1>6
  <2>3. ChatsAreSingle'
    BY <1>6, <2>1, <2>2 DEF ChatsAreSingle
  <2> QED BY <1>1, <1>10, <2>3 DEF LeadsAreSingle, CreatesFirst
<1>16. SingleInv'
  BY <1>1, <1>8, <1>15, SingleKept
<1> QED BY <1>9, <1>13, <1>14, <1>16

LEMMA StoreMessageKeeps ==
  ASSUME WidgetInv, NEW h \in WidgetHandlers, Chat!StoreMessage(h)
  PROVE  WidgetInv'
<1> USE WidgetParts DEF WidgetInv
<1>1. /\ serving[h].at = "store" /\ UNCHANGED <<visitorLeads, chats, published, confirmed, rejected, overlap>>
      /\ chatRows' = [chatRows EXCEPT ![serving[h].msg] = serving[h].chat] /\ ServesOn(h, "publish")
  BY DEF Chat!StoreMessage, ServesOn
<1>2. serving[h] \in Server /\ serving[h].msg \in WidgetMessages /\ serving[h].msg # NoChat /\ ServerFits(h)
  BY <1>1 DEF WidgetTyped, Server, ServerFits
<1>3. serving' \in [WidgetHandlers -> Server] /\ \A g \in WidgetHandlers \ {h} : serving'[g] = serving[g]
  BY <1>1, ServerSteps
<1>4. /\ chatRows' \in [WidgetMessages -> Nat \cup {NoChat}] /\ chatRows'[serving[h].msg] = serving[h].chat
      /\ \A m \in WidgetMessages : m # serving[h].msg => chatRows'[m] = chatRows[m]
  BY <1>1, <1>2 DEF WidgetTyped, Server
<1>5. WidgetTyped' /\ Grows
  BY <1>1, <1>3, <1>4 DEF WidgetTyped, Server, Grows
<1>6. /\ serving'[h].msg = serving[h].msg /\ serving'[h].at = "publish" /\ serving'[h].lead = serving[h].lead
      /\ serving'[h].chat = serving[h].chat
  BY <1>1, <1>2 DEF ServesOn, WidgetTyped, Server
<1>7. ServerFits(h)'
  BY <1>1, <1>2, <1>4, <1>6 DEF ServerFits
<1>8. serving[h].chat \in DOMAIN chats
  BY <1>1, <1>2 DEF ServerFits
<1>9. ServingInv'
  BY <1>1, <1>3, <1>4, <1>5, <1>7, <1>8, ServingKept
<1>10. ConfirmedInv'
  BY <1>1, <1>2, <1>3, <1>4, <1>5, <1>6, ConfirmedKept
<1>11. LeadsAreSingle /\ ChatsAreSingle => LeadsAreSingle' /\ ChatsAreSingle' /\ CreatesFirst(h)'
  BY <1>1, <1>6 DEF LeadsAreSingle, ChatsAreSingle, CreatesFirst
<1>12. SingleInv'
  BY <1>1, <1>3, <1>11, SingleKept
<1> QED BY <1>5, <1>9, <1>10, <1>12

\* What was confirmed is stored in a conversation of its author.
LEMMA ConfirmKeeps ==
  ASSUME WidgetInv, NEW h \in WidgetHandlers, Chat!Confirm(h)
  PROVE  WidgetInv'
<1> USE WidgetParts DEF WidgetInv
<1>1. /\ serving[h].at = "publish" /\ UNCHANGED <<visitorLeads, chats, chatRows, rejected, overlap>>
      /\ published' = published \cup {serving[h].msg} /\ confirmed' = confirmed \cup {serving[h].msg}
      /\ LetsGo(h)
  BY DEF Chat!Confirm, LetsGo
<1>2. serving[h] \in Server /\ serving[h].msg \in WidgetMessages /\ serving[h].msg # NoChat /\ ServerFits(h)
  BY <1>1 DEF WidgetTyped, Server, ServerFits
<1>3. serving' \in [WidgetHandlers -> Server] /\ \A g \in WidgetHandlers \ {h} : serving'[g] = serving[g]
  BY <1>1, ServerSteps
<1>4. WidgetTyped' /\ Grows
  BY <1>1, <1>2, <1>3 DEF WidgetTyped, Server, Grows
<1>5. serving'[h].at = "idle" /\ serving'[h].msg = NoChat
  BY <1>1 DEF LetsGo, Chat!NotServing, WidgetTyped
<1>6. ServerFits(h)'
  BY <1>5 DEF ServerFits
<1>7. ServingInv'
  <2>1. serving[h].msg \in WidgetMessages /\ chatRows'[serving[h].msg] # NoChat =>
          chatRows'[serving[h].msg] \in DOMAIN chats'
    BY <1>1, WidgetParts
  <2> QED BY <1>1, <1>3, <1>4, <1>6, <2>1, ServingKept
<1>8. ConfirmedInv'
  <2>1. \A g, k \in WidgetHandlers : serving'[g].msg # NoChat /\ serving'[g].msg = serving'[k].msg => g = k
    BY <1>3, <1>5 DEF ConfirmedInv
  <2>2. \A g \in WidgetHandlers : serving'[g].msg \notin confirmed' \cup rejected'
    <3> SUFFICES ASSUME NEW g \in WidgetHandlers PROVE serving'[g].msg \notin confirmed' \cup rejected'
      OBVIOUS
    <3>1. CASE g = h
      BY <1>1, <1>2, <1>5, <3>1, FrontAssumption DEF WidgetTyped
    <3>2. CASE g # h
      <4>1. serving'[g].msg = serving[g].msg /\ serving[g].msg # serving[h].msg
        BY <1>2, <1>3, <3>2 DEF ConfirmedInv
      <4> QED BY <1>1, <4>1 DEF ConfirmedInv
    <3> QED BY <3>1, <3>2
  <2>3. confirmed' \cap rejected' = {} /\ confirmed' \subseteq published'
    BY <1>1 DEF ConfirmedInv
  <2>4. chatRows[serving[h].msg] \in DOMAIN chats
          /\ visitorLeads[chats[chatRows[serving[h].msg]].lead] = Author[serving[h].msg]
    BY <1>1, <1>2 DEF ServerFits
  <2>5. \A m \in confirmed' : chatRows'[m] \in DOMAIN chats' /\ visitorLeads'[chats'[chatRows'[m]].lead] = Author[m]
    BY <1>1, <2>4 DEF ConfirmedInv
  <2> QED BY <2>1, <2>2, <2>3, <2>5 DEF ConfirmedInv
<1>9. LeadsAreSingle /\ ChatsAreSingle => LeadsAreSingle' /\ ChatsAreSingle' /\ CreatesFirst(h)'
  BY <1>1, <1>5 DEF LeadsAreSingle, ChatsAreSingle, CreatesFirst
<1>10. SingleInv'
  BY <1>1, <1>3, <1>9, SingleKept
<1> QED BY <1>4, <1>7, <1>8, <1>10

\* A message that is refused stays stored if it was.
LEMMA RejectKeeps ==
  ASSUME WidgetInv, NEW h \in WidgetHandlers, Chat!Reject(h)
  PROVE  WidgetInv'
<1> USE WidgetParts DEF WidgetInv
<1>1. /\ serving[h].at # "idle" /\ UNCHANGED <<visitorLeads, chats, chatRows, published, confirmed, overlap>>
      /\ rejected' = rejected \cup {serving[h].msg} /\ LetsGo(h)
  BY DEF Chat!Reject, LetsGo
<1>2. serving[h] \in Server /\ serving[h].msg \in WidgetMessages /\ serving[h].msg # NoChat /\ ServerFits(h)
  BY <1>1 DEF WidgetTyped, Server, ServerFits
<1>3. serving' \in [WidgetHandlers -> Server] /\ \A g \in WidgetHandlers \ {h} : serving'[g] = serving[g]
  BY <1>1, ServerSteps
<1>4. WidgetTyped' /\ Grows
  BY <1>1, <1>2, <1>3 DEF WidgetTyped, Server, Grows
<1>5. serving'[h].at = "idle" /\ serving'[h].msg = NoChat
  BY <1>1 DEF LetsGo, Chat!NotServing, WidgetTyped
<1>6. ServerFits(h)'
  BY <1>5 DEF ServerFits
<1>7. ServingInv'
  <2>1. serving[h].msg \in WidgetMessages /\ chatRows'[serving[h].msg] # NoChat =>
          chatRows'[serving[h].msg] \in DOMAIN chats'
    BY <1>1, WidgetParts
  <2> QED BY <1>1, <1>3, <1>4, <1>6, <2>1, ServingKept
<1>8. ConfirmedInv'
  BY <1>1, <1>2, <1>3, <1>4, <1>5, ConfirmedKept
<1>9. LeadsAreSingle /\ ChatsAreSingle => LeadsAreSingle' /\ ChatsAreSingle' /\ CreatesFirst(h)'
  BY <1>1, <1>5 DEF LeadsAreSingle, ChatsAreSingle, CreatesFirst
<1>10. SingleInv'
  BY <1>1, <1>3, <1>9, SingleKept
<1> QED BY <1>4, <1>7, <1>8, <1>10

\* Two handlers that are busy at once are counted.
LEMMA OneIsBusy ==
  ASSUME NEW f \in [WidgetHandlers -> Server], Cardinality(Chat!Busy(f)) <= 1,
         NEW g \in WidgetHandlers, NEW h \in WidgetHandlers, f[g].at # "idle", f[h].at # "idle"
  PROVE  g = h
<1>1. Chat!Busy(f) \subseteq WidgetHandlers /\ g \in Chat!Busy(f) /\ h \in Chat!Busy(f)
  BY DEF Chat!Busy
<1>2. IsFiniteSet(Chat!Busy(f)) /\ Cardinality(Chat!Busy(f)) \in Nat
  BY <1>1, FrontAssumption, FS_Subset, FS_CardinalityType
<1>3. SUFFICES ASSUME g # h PROVE FALSE
  OBVIOUS
<1>4. {g, h} \subseteq Chat!Busy(f) /\ IsFiniteSet({g, h}) /\ Cardinality({g, h}) = 2
  <2>1. IsFiniteSet({g}) /\ Cardinality({g}) = 1
    BY FS_Singleton
  <2>2. {g, h} = {g} \cup {h} /\ h \notin {g}
    BY <1>3
  <2>3. IsFiniteSet({g} \cup {h}) /\ Cardinality({g} \cup {h}) = 2
    BY <2>1, <2>2, FS_AddElement
  <2> QED BY <1>1, <2>2, <2>3
<1>5. 2 <= Cardinality(Chat!Busy(f))
  BY <1>2, <1>4, FS_Subset
<1> QED BY <1>2, <1>5

\* A client's message, which no handler has.
LEMMA ReceiveKeeps ==
  ASSUME WidgetInv, NEW h \in WidgetHandlers, NEW m \in WidgetMessages, Chat!Receive(h, m)
  PROVE  WidgetInv'
<1> USE WidgetParts DEF WidgetInv
<1>1. /\ serving[h] = Chat!NotServing /\ m \notin confirmed \cup rejected
      /\ \A g \in WidgetHandlers : serving[g].msg # m
      /\ UNCHANGED <<visitorLeads, chats, chatRows, published, confirmed, rejected>>
  BY DEF Chat!Receive
<1>2. PICK k \in Server : k = [Chat!NotServing EXCEPT !.at = "lead", !.msg = m]
  BY DEF Chat!NotServing, Server
<1>3. k.at = "lead" /\ k.msg = m
  BY <1>2 DEF Chat!NotServing
<1>4. serving' = [serving EXCEPT ![h] = k]
  BY <1>2 DEF Chat!Receive
<1>5. /\ serving \in [WidgetHandlers -> Server] /\ serving' \in [WidgetHandlers -> Server] /\ serving'[h] = k
      /\ \A g \in WidgetHandlers \ {h} : serving'[g] = serving[g]
  BY <1>4 DEF WidgetTyped, Server
<1>6. PICK n : n = Cardinality(Chat!Busy(serving'))
  OBVIOUS
<1>7. n \in Nat
  BY <1>6, FrontAssumption, FS_Subset, FS_CardinalityType DEF Chat!Busy
<1>8. overlap' = IF n > overlap THEN n ELSE overlap
  BY <1>6 DEF Chat!Receive, Chat!Cardinality, Cardinality
<1>9. WidgetTyped' /\ Grows
  BY <1>1, <1>5, <1>7, <1>8 DEF WidgetTyped, Server, Grows
<1>10. m # NoChat
  BY FrontAssumption
<1>11. ServerFits(h)'
  BY <1>3, <1>5, <1>10 DEF ServerFits
<1>12. ServingInv'
  <2>1. serving[h].msg \notin WidgetMessages
    BY <1>1, FrontAssumption DEF Chat!NotServing
  <2> QED BY <1>1, <1>5, <1>9, <1>11, <2>1, ServingKept
<1>13. ConfirmedInv'
  <2>1. \A g, i \in WidgetHandlers : serving'[g].msg # NoChat /\ serving'[g].msg = serving'[i].msg => g = i
    BY <1>1, <1>3, <1>5 DEF ConfirmedInv
  <2>2. \A g \in WidgetHandlers : serving'[g].msg \notin confirmed' \cup rejected'
    BY <1>1, <1>3, <1>5 DEF ConfirmedInv
  <2> QED BY <1>1, <2>1, <2>2 DEF ConfirmedInv
<1>14. SingleInv'
  <2> SUFFICES ASSUME overlap' <= 1
               PROVE  /\ \A g, i \in WidgetHandlers : serving'[g].at # "idle" /\ serving'[i].at # "idle" => g = i
                      /\ LeadsAreSingle' /\ ChatsAreSingle' /\ \A g \in WidgetHandlers : CreatesFirst(g)'
    BY DEF SingleInv, LeadsAreSingle, ChatsAreSingle, CreatesFirst
  <2>1. n <= 1 /\ overlap <= 1
    BY <1>7, <1>8 DEF WidgetTyped
  <2>2. \A g, i \in WidgetHandlers : serving'[g].at # "idle" /\ serving'[i].at # "idle" => g = i
    BY <1>5, <1>6, <2>1, OneIsBusy
  <2>3. LeadsAreSingle /\ ChatsAreSingle
    BY <2>1, WidgetParts
  <2>4. \A g \in WidgetHandlers : serving'[g].at \notin {"newlead", "newchat"}
    BY <1>3, <1>5, <2>2
  <2> QED BY <1>1, <2>2, <2>3, <2>4 DEF LeadsAreSingle, ChatsAreSingle, CreatesFirst
<1> QED BY <1>9, <1>12, <1>13, <1>14

\* A conversation that is closed, whose lead it keeps.
LEMMA CloseChatKeeps ==
  ASSUME WidgetInv, NEW i \in DOMAIN chats, Chat!CloseChat(i)
  PROVE  WidgetInv'
<1> USE WidgetParts DEF WidgetInv
<1> DEFINE ChatRow == [lead : Nat, active : BOOLEAN]
<1>1. /\ chats' = [chats EXCEPT ![i].active = FALSE]
      /\ UNCHANGED <<visitorLeads, chatRows, serving, published, confirmed, rejected, overlap>>
  BY DEF Chat!CloseChat
<1>2. chats \in Seq(ChatRow) /\ chats \in [1..Len(chats) -> ChatRow] /\ DOMAIN chats = 1..Len(chats) /\ Len(chats) \in Nat
  BY LenProperties DEF WidgetTyped
<1>3. PICK c \in ChatRow : c = [chats[i] EXCEPT !.active = FALSE]
  BY <1>2
<1>4. c.lead = chats[i].lead /\ c.active = FALSE
  BY <1>2, <1>3
<1>5. chats' = [chats EXCEPT ![i] = c]
  BY <1>1, <1>3
<1>6. DOMAIN chats' = DOMAIN chats /\ chats' \in Seq(ChatRow)
  BY <1>2, <1>5, ExceptSeq
<1>7. \A j \in DOMAIN chats : chats'[j].lead = chats[j].lead /\ (chats'[j].active => chats[j].active)
  BY <1>4, <1>5
<1> HIDE DEF ChatRow
<1>8. WidgetTyped'
  BY <1>1, <1>6 DEF WidgetTyped, ChatRow
<1>9. ServingInv'
  BY <1>1, <1>6, <1>7 DEF ServingInv
<1>10. ConfirmedInv'
  BY <1>1, <1>6, <1>7 DEF ConfirmedInv
<1>11. SingleInv'
  BY <1>1, <1>6, <1>7 DEF SingleInv
<1> QED BY <1>8, <1>9, <1>10, <1>11

LEMMA InitWidgetInv == Chat!Init => WidgetInv
<1> SUFFICES ASSUME Chat!Init PROVE WidgetInv
  OBVIOUS
<1>1. /\ visitorLeads = <<>> /\ chats = <<>> /\ overlap = 0 /\ published = {} /\ confirmed = {} /\ rejected = {}
      /\ \A m \in WidgetMessages : chatRows[m] = NoChat
      /\ \A h \in WidgetHandlers : serving[h].at = "idle" /\ serving[h].msg = NoChat
      /\ DOMAIN visitorLeads = {} /\ DOMAIN chats = {}
  BY DEF Chat!Init, Chat!NotServing
<1>2. Chat!NotServing \in Server
  BY DEF Chat!NotServing, Server
<1>3. serving \in [WidgetHandlers -> Server]
  BY <1>2 DEF Chat!Init
<1>4. WidgetTyped
  BY <1>1, <1>3 DEF Chat!Init, WidgetTyped, Server
<1> QED BY <1>1, <1>4 DEF WidgetInv, ServingInv, ConfirmedInv, SingleInv

LEMMA NextWidgetInv ==
  ASSUME WidgetInv, Chat!Next \/ UNCHANGED widgetVars
  PROVE  WidgetInv'
<1>1. ASSUME NEW h \in WidgetHandlers, Chat!Serve(h) PROVE WidgetInv'
  BY <1>1, FindVisitorKeeps, CreateVisitorKeeps, FindChatKeeps, CreateChatKeeps, StoreMessageKeeps, ConfirmKeeps,
     RejectKeeps DEF Chat!Serve
<1>2. CASE UNCHANGED widgetVars
  BY <1>2 DEF widgetVars, WidgetInv, WidgetTyped, ServingInv, ConfirmedInv, SingleInv
<1> QED BY <1>1, <1>2, ReceiveKeeps, CloseChatKeeps DEF Chat!Next

-----------------------------------------------------------------------------
(* The front office as a whole: one part moves, the others rest.           *)

LEMMA InitFrontInv == FrontInit => FrontInv
BY InitPipelineInv, InitNoteInv, InitWidgetInv DEF FrontInit, FrontInv

LEMMA NextFrontInv == FrontInv /\ [FrontNext]_frontVars => FrontInv'
<1> SUFFICES ASSUME FrontInv, [FrontNext]_frontVars PROVE FrontInv'
  OBVIOUS
<1>1. [Next]_pipelineVars
  BY DEF FrontNext, Only, frontVars
<1>2. Note!Next \/ UNCHANGED noteVars
  BY DEF FrontNext, Only, frontVars
<1>3. Chat!Next \/ UNCHANGED widgetVars
  BY DEF FrontNext, Only, frontVars
<1> QED BY <1>1, <1>2, <1>3, NextPipelineInv, NextNoteInv, NextWidgetInv DEF FrontInv

\* How often a notification may have been delivered, and its row have counted a
\* retry, while its job is in each of its states.
LEMMA TriesAreBounded ==
  ASSUME NoteInv, NEW n \in Notes
  PROVE  /\ reached[n] <= Attempts + 1 /\ noteJobs[n].tries \in 0..Attempts
         /\ notes[n] # NoNote => notes[n].retries <= Attempts + 1
         /\ notes[n] # NoNote /\ noteJobs[n].state = "waiting" /\ ~noteJobs[n].stalled => notes[n].retries < Attempts
<1> USE DEF NoteInv
<1>1. /\ Attempts \in Nat /\ Attempts >= 1 /\ reached[n] \in Nat /\ noteJobs[n].tries \in Nat
      /\ noteJobs[n].state \in {"none", "waiting", "active", "completed", "failed"}
      /\ Stalls(n) \in {0, 1}
  BY FrontAssumption DEF NoteTyped, Stalls
<1>2. notes[n] # NoNote => notes[n].retries \in Nat
  BY DEF NoteTyped, NoteRows
<1>3. hands[n].at # "idle" <=> noteJobs[n].state = "active"
  BY DEF HandsInv
<1>4. CASE noteJobs[n].state = "none"
  BY <1>1, <1>2, <1>4 DEF TriesInv
<1>5. CASE noteJobs[n].state # "none"
  <2>1. /\ noteJobs[n].tries <= Attempts
        /\ noteJobs[n].state \in {"waiting", "active"} => noteJobs[n].tries < Attempts
        /\ reached[n] <= noteJobs[n].tries + Stalls(n)
                           + (IF hands[n].at \in {"record", "log", "count", "fail"} THEN 1 ELSE 0)
        /\ notes[n].retries <= noteJobs[n].tries + Stalls(n) + (IF hands[n].at = "fail" THEN 1 ELSE 0)
    BY <1>5 DEF TriesInv
  <2>2. ~noteJobs[n].stalled => Stalls(n) = 0
    BY DEF Stalls
  <2> QED BY <1>1, <1>2, <1>3, <2>1, <2>2
<1> QED BY <1>4, <1>5

\* Every variable of the three services keeps to its values: the pipeline's
\* whichever part moves, a notification's row and job to the attempts that BullMQ
\* makes, and the widget's rows to leads and conversations that exist.
THEOREM FrontTypeCorrect == FrontSpec => []FrontTypeOK
<1>1. FrontInv => FrontTypeOK
  <2> SUFFICES ASSUME FrontInv PROVE FrontTypeOK
    OBVIOUS
  <2> USE DEF FrontInv
  <2>1. TypeOK
    BY PipelineTyped
  <2>2. Note!TypeOK
    <3>1. ASSUME NEW n \in Notes
          PROVE  notes[n] = NoNote \/ notes[n] \in [channel : Note!NoteChannels, retries : 0..(Attempts + 1),
                                                   status : {"pending", "queued", "sent", "failed"}]
      <4> SUFFICES ASSUME notes[n] # NoNote
                   PROVE  notes[n] \in [channel : Note!NoteChannels, retries : 0..(Attempts + 1),
                                        status : {"pending", "queued", "sent", "failed"}]
        OBVIOUS
      <4>1. notes[n] \in NoteRows
        BY DEF NoteInv, NoteTyped
      <4>2. notes[n].retries \in 0..(Attempts + 1)
        BY <4>1, TriesAreBounded, FrontAssumption DEF NoteRows
      <4> QED BY <4>1, <4>2 DEF NoteRows, Note!NoteChannels
    <3>2. \A n \in Notes : /\ noteJobs[n].state \in {"none", "waiting", "active", "completed", "failed"}
                           /\ hands[n].at # "idle" <=> noteJobs[n].state = "active"
                           /\ noteJobs[n].tries \in 0..Attempts
      BY TriesAreBounded DEF NoteInv, NoteTyped, HandsInv
    <3>3. \A c \in Senders : toSend[c] \subseteq {n \in Notes : notes[n] = NoNote}
      BY DEF NoteInv, NoteTyped, HandsInv
    <3> QED BY <3>1, <3>2, <3>3 DEF Note!TypeOK
  <2>3. Chat!TypeOK
    BY DEF WidgetInv, WidgetTyped, ServingInv, ConfirmedInv, Chat!TypeOK
  <2> QED BY <2>1, <2>2, <2>3 DEF FrontTypeOK
<1> QED BY <1>1, InitFrontInv, NextFrontInv, PTL DEF FrontSpec

\* What the pipeline guarantees it guarantees beside the other services
\* (handleMessageWebhook, executeWorkflow).
THEOREM PipelineKeepsItsWord ==
  FrontSpec => [](AskedOnce /\ DuplicatesAreConcurrent /\ RepliesAreBounded /\ RunningIsWorkedOn)
<1>1. FrontInv => AskedOnce /\ DuplicatesAreConcurrent /\ RepliesAreBounded /\ RunningIsWorkedOn
  <2> SUFFICES ASSUME PipelineInv PROVE AskedOnce /\ DuplicatesAreConcurrent /\ RepliesAreBounded /\ RunningIsWorkedOn
    BY DEF FrontInv
  <2>1. AskedOnce
    BY DEF PipelineInv, IntakeInv, AskedOnce
  <2>2. RepliesAreBounded
    BY DEF PipelineInv, FlowInv, RepliesAreBounded
  <2>3. RunningIsWorkedOn
    BY DEF PipelineInv
  <2> QED BY <2>1, <2>2, <2>3, DuplicatesBounded
<1> QED BY <1>1, InitFrontInv, NextFrontInv, PTL DEF FrontSpec

\* A visitor whose messages never overlapped has one lead and it one open
\* conversation, so what he is shown is the conversation his messages are in.
LEMMA ConfirmedAreShown == WidgetInv => Chat!ConfirmedIsShown
<1> SUFFICES ASSUME WidgetInv, NEW m \in confirmed, overlap <= 1, chats[chatRows[m]].active,
                    NEW shown \in Chat!Histories(Author[m])
             PROVE  m \in shown
  BY DEF Chat!ConfirmedIsShown
<1> USE DEF WidgetInv
<1>1. /\ m \in WidgetMessages /\ chatRows[m] \in DOMAIN chats /\ chats[chatRows[m]].lead \in DOMAIN visitorLeads
      /\ visitorLeads[chats[chatRows[m]].lead] = Author[m]
  BY DEF WidgetTyped, ConfirmedInv, ServingInv
<1>2. PICK l \in DOMAIN visitorLeads, c \in DOMAIN chats :
        /\ visitorLeads[l] = Author[m] /\ chats[c].lead = l /\ chats[c].active
        /\ shown = {k \in WidgetMessages : chatRows[k] = c}
  BY DEF Chat!Histories, Chat!OpenChats, Chat!LeadsOfVisitor
<1>3. l = chats[chatRows[m]].lead
  BY <1>1, <1>2 DEF SingleInv
<1>4. c = chatRows[m]
  BY <1>1, <1>2, <1>3 DEF SingleInv
<1> QED BY <1>1, <1>2, <1>4

\* What people are told is so, as long as BullMQ gives a job no more attempts than
\* the row allows retries (3 and 3: queueNotification, create of the repository):
\* a notification that is sent was delivered, one that is failed is over, and a
\* message that was confirmed to a visitor is stored, published and shown to him
\* (sendImmediately, processMessage).
THEOREM AnswersStayAccounted ==
  ASSUME Attempts <= MaxRetries
  PROVE  FrontSpec => []AnswersAreAccounted
<1>1. FrontInv => AnswersAreAccounted
  <2> SUFFICES ASSUME FrontInv PROVE AnswersAreAccounted
    OBVIOUS
  <2> USE DEF FrontInv
  <2>1. Note!SentIsBacked
    BY TriesAreBounded DEF NoteInv, BackedInv, Note!SentIsBacked
  <2>2. Note!FailedIsFinal
    <3> SUFFICES ASSUME NEW n \in Notes, notes[n] # NoNote, notes[n].status = "failed", ~noteJobs[n].stalled
                 PROVE  notes[n].retries >= MaxRetries /\ noteJobs[n].state # "waiting"
      BY DEF Note!FailedIsFinal
    <3>1. notes[n].retries >= MaxRetries
      BY DEF NoteInv, BackedInv
    <3>2. notes[n].retries \in Nat
      BY DEF NoteInv, NoteTyped, NoteRows
    <3>3. noteJobs[n].state = "waiting" => notes[n].retries < Attempts
      BY TriesAreBounded
    <3> QED BY <3>1, <3>2, <3>3, FrontAssumption
  <2>3. Chat!ConfirmedIsKept
    BY FrontAssumption, LenProperties DEF WidgetInv, WidgetTyped, ConfirmedInv, Chat!ConfirmedIsKept
  <2> QED BY <2>1, <2>2, <2>3, ConfirmedAreShown DEF AnswersAreAccounted
<1> QED BY <1>1, InitFrontInv, NextFrontInv, PTL DEF FrontSpec
=================================================================================

-------------------------- MODULE PaymentFlow_proofs --------------------------
(***************************************************************************)
(* Proofs about PaymentFlow, for any number of payments and handlers and   *)
(* any amount.                                                             *)
(***************************************************************************)
EXTENDS PaymentFlow, TLAPS

USE AmountAssumption

-------------------------------------------------------------------------------
(* Types                                                                   *)

LEMMA InitTypeOK == Init => TypeOK
<1> SUFFICES ASSUME Init PROVE TypeOK
  OBVIOUS
<1>1. 0 \in 0..Amount /\ NoCall \in Call
  BY DEF Call
<1>2. /\ status \in [Payments -> PaymentStatus \cup {"none"}]
      /\ refund \in [Payments -> 0..Amount]
      /\ orderPaid \in BOOLEAN
  BY <1>1 DEF Init
<1>3. /\ gateway \in [Payments -> {"none", "created", "authorized", "captured"}]
      /\ returned \in [Payments -> 0..Amount]
      /\ sent \subseteq Events
  BY <1>1 DEF Init
<1>4. /\ webhook \in [Events -> WebhookStatus \cup {"none"}]
      /\ handled \in [Events -> 0..2]
  BY DEF Init
<1>5. call \in [Procs -> Call]
  BY <1>1 DEF Init
<1> QED BY <1>2, <1>3, <1>4, <1>5 DEF TypeOK

\* What the fields of a call are, by the operation it is at.
LEMMA CallFields ==
    ASSUME TypeOK, NEW p \in Procs
    PROVE  /\ call[p].op = "insert" => call[p].pay \in Payments
           /\ call[p].op \in {"check", "capture", "book", "confirm", "giveup"} =>
                /\ call[p].pay \in Payments
                /\ call[p].event \in Events \cup {NoEvent}
                /\ call[p] = [op |-> call[p].op, pay |-> call[p].pay, event |-> call[p].event]
           /\ call[p].op \in {"refund", "enter"} =>
                /\ call[p].pay \in Payments
                /\ call[p].amount \in 1..Amount
                /\ call[p].already \in 0..Amount
                /\ call[p].already + call[p].amount <= Amount
                /\ call[p] = [op |-> call[p].op, pay |-> call[p].pay,
                              amount |-> call[p].amount, already |-> call[p].already]
           /\ call[p].op \in {"record", "handle"} =>
                /\ call[p].event \in Events
                /\ call[p] = [op |-> call[p].op, event |-> call[p].event]
           /\ call[p].op = "note" =>
                /\ call[p].event \in Events
                /\ call[p].ok \in BOOLEAN
<1>1. call[p] \in Call
  BY DEF TypeOK
<1> QED BY <1>1 DEF Call, NoCall

\* The next operations of a request keep the call well formed.
LEMMA ProceedTyped ==
    ASSUME TypeOK, NEW p \in Procs
    PROVE  /\ NoCall \in Call
           /\ call[p].op \in {"check", "capture", "book", "confirm", "giveup"} =>
                \A op \in {"check", "capture", "book", "confirm", "giveup"} :
                   [call[p] EXCEPT !.op = op] \in Call
           /\ call[p].op \in {"refund", "enter"} => [call[p] EXCEPT !.op = "enter"] \in Call
           /\ call[p].op \in {"record", "handle"} => [call[p] EXCEPT !.op = "handle"] \in Call
           /\ \A e \in Events, isOk \in BOOLEAN : [op |-> "note", event |-> e, ok |-> isOk] \in Call
<1>1. NoCall \in Call /\ \A e \in Events, isOk \in BOOLEAN : [op |-> "note", event |-> e, ok |-> isOk] \in Call
  BY DEF Call
<1>2. ASSUME call[p].op \in {"check", "capture", "book", "confirm", "giveup"},
             NEW op \in {"check", "capture", "book", "confirm", "giveup"}
      PROVE  [call[p] EXCEPT !.op = op] \in Call
  <2>1. \A o, x, e : call[p] = [op |-> o, pay |-> x, event |-> e]
          => [call[p] EXCEPT !.op = op] = [op |-> op, pay |-> x, event |-> e]
    OBVIOUS
  <2>2. call[p] = [op |-> call[p].op, pay |-> call[p].pay, event |-> call[p].event]
    BY <1>2, CallFields
  <2>3. [call[p] EXCEPT !.op = op] = [op |-> op, pay |-> call[p].pay, event |-> call[p].event]
    BY <2>1, <2>2, Zenon
  <2>4. call[p].pay \in Payments /\ call[p].event \in Events \cup {NoEvent}
    BY <1>2, CallFields
  <2>5. [op |-> op, pay |-> call[p].pay, event |-> call[p].event] \in Call
    BY <2>4 DEF Call
  <2> QED BY <2>3, <2>5
<1>3. ASSUME call[p].op \in {"refund", "enter"}
      PROVE  [call[p] EXCEPT !.op = "enter"] \in Call
  <2>1. \A o, x, m, n : call[p] = [op |-> o, pay |-> x, amount |-> m, already |-> n]
          => [call[p] EXCEPT !.op = "enter"] = [op |-> "enter", pay |-> x, amount |-> m, already |-> n]
    OBVIOUS
  <2>2. call[p] = [op |-> call[p].op, pay |-> call[p].pay,
                   amount |-> call[p].amount, already |-> call[p].already]
    BY <1>3, CallFields
  <2>3. [call[p] EXCEPT !.op = "enter"]
          = [op |-> "enter", pay |-> call[p].pay, amount |-> call[p].amount, already |-> call[p].already]
    BY <2>1, <2>2, Zenon
  <2>4. /\ call[p].pay \in Payments /\ call[p].amount \in 1..Amount
        /\ call[p].already \in 0..Amount /\ call[p].already + call[p].amount <= Amount
    BY <1>3, CallFields
  <2>5. [op |-> "enter", pay |-> call[p].pay,
         amount |-> call[p].amount, already |-> call[p].already] \in Call
    BY <2>4 DEF Call
  <2> QED BY <2>3, <2>5
<1>4. ASSUME call[p].op \in {"record", "handle"}
      PROVE  [call[p] EXCEPT !.op = "handle"] \in Call
  <2>1. \A o, e : call[p] = [op |-> o, event |-> e]
          => [call[p] EXCEPT !.op = "handle"] = [op |-> "handle", event |-> e]
    OBVIOUS
  <2>2. call[p] = [op |-> call[p].op, event |-> call[p].event]
    BY <1>4, CallFields
  <2>3. [call[p] EXCEPT !.op = "handle"] = [op |-> "handle", event |-> call[p].event]
    BY <2>1, <2>2, Zenon
  <2>4. call[p].event \in Events
    BY <1>4, CallFields
  <2>5. [op |-> "handle", event |-> call[p].event] \in Call
    BY <2>4 DEF Call
  <2> QED BY <2>3, <2>5
<1> QED BY <1>1, <1>2, <1>3, <1>4

\* Ending a capture answers the request or notes the event it belongs to.
LEMMA FinishTyped ==
    ASSUME TypeOK, NEW p \in Procs, Finish(p),
           call[p].op \in {"check", "capture", "book", "confirm", "giveup"}
    PROVE  call' \in [Procs -> Call]
<1>1. call[p].event \in Events \cup {NoEvent}
  BY CallFields
<1>2. call \in [Procs -> Call]
  BY DEF TypeOK
<1>3. CASE call[p].event = NoEvent
  BY <1>2, <1>3, ProceedTyped DEF Finish, Serves
<1>4. CASE call[p].event # NoEvent
  <2>1. [op |-> "note", event |-> call[p].event, ok |-> TRUE] \in Call
    BY <1>1, <1>4, ProceedTyped
  <2> QED BY <1>2, <1>4, <2>1 DEF Finish, Serves
<1> QED BY <1>3, <1>4

\* A request that goes on keeps what it knows.
LEMMA ProceedFields ==
    ASSUME TypeOK, NEW p \in Procs, NEW op, Proceed(p, op)
    PROVE  /\ call[p].op \in {"check", "capture", "book", "confirm", "giveup"} =>
                /\ call'[p].op = op
                /\ call'[p].pay = call[p].pay
           /\ call[p].op \in {"refund", "enter"} =>
                /\ call'[p].op = op
                /\ call'[p].pay = call[p].pay
           /\ call[p].op \in {"record", "handle"} =>
                /\ call'[p].op = op
                /\ call'[p].event = call[p].event
<1>1. call'[p] = [call[p] EXCEPT !.op = op]
  BY DEF Proceed, Serves, TypeOK
<1>2. ASSUME call[p].op \in {"check", "capture", "book", "confirm", "giveup"}
      PROVE  call'[p].op = op /\ call'[p].pay = call[p].pay
  <2>1. call[p] = [op |-> call[p].op, pay |-> call[p].pay, event |-> call[p].event]
    BY <1>2, CallFields
  <2> QED BY <1>1, <2>1
<1>3. ASSUME call[p].op \in {"refund", "enter"}
      PROVE  call'[p].op = op /\ call'[p].pay = call[p].pay
  <2>1. call[p] = [op |-> call[p].op, pay |-> call[p].pay,
                   amount |-> call[p].amount, already |-> call[p].already]
    BY <1>3, CallFields
  <2> QED BY <1>1, <2>1
<1>4. ASSUME call[p].op \in {"record", "handle"}
      PROVE  call'[p].op = op /\ call'[p].event = call[p].event
  <2>1. call[p] = [op |-> call[p].op, event |-> call[p].event]
    BY <1>4, CallFields
  <2> QED BY <1>1, <2>1
<1> QED BY <1>2, <1>3, <1>4

\* An event about a payment, and what it may say.
LEMMA EventFields ==
    ASSUME NEW e \in Events
    PROVE  /\ e.pay \in Payments
           /\ e.type \in {"authorized", "captured", "failed", "refund"}
           /\ e.type = "refund" => e.amount \in 1..Amount
           /\ e # NoEvent
<1>1. /\ e.pay \in Payments
      /\ e.type \in {"authorized", "captured", "failed", "refund"}
      /\ e.type = "refund" => e.amount \in 1..Amount
  BY DEF Events
<1>2. NoEvent.type = "none"
  BY DEF NoEvent
<1> QED BY <1>1, <1>2

LEMMA NextTypeOK == TypeOK /\ [Next]_vars => TypeOK'
<1> SUFFICES ASSUME TypeOK, [Next]_vars PROVE TypeOK'
  OBVIOUS
<1>t. \A p \in Procs, c \in Call : Serves(p, c) => call' \in [Procs -> Call]
  BY DEF TypeOK, Serves
<1> USE DEF rowVars, gatewayVars, webhookVars
<1>1. ASSUME NEW x \in Payments, Authorize(x) \/ AttemptFails(x) \/ AutoCapture(x)
      PROVE  TypeOK'
  <2>1. /\ [type |-> "authorized", pay |-> x] \in Events
        /\ [type |-> "failed", pay |-> x] \in Events
        /\ [type |-> "captured", pay |-> x] \in Events
    BY DEF Events
  <2> QED BY <1>1, <2>1 DEF TypeOK, Authorize, AttemptFails, AutoCapture, Emit
<1>2. ASSUME NEW x \in Payments, Verify(x)
      PROVE  TypeOK'
  BY <1>2 DEF TypeOK, Verify, SetStatus, PaymentStatus
<1>3. ASSUME NEW p \in Procs, CreateCheck(p)
      PROVE  TypeOK'
  <2>1. [op |-> "create"] \in Call
    BY DEF Call
  <2> QED BY <1>3, <1>t, <2>1 DEF TypeOK, CreateCheck
<1>4. ASSUME NEW p \in Procs, NEW x \in Payments, CreateOrder(p, x)
      PROVE  TypeOK'
  <2>1. [op |-> "insert", pay |-> x] \in Call
    BY DEF Call
  <2> QED BY <1>4, <1>t, <2>1 DEF TypeOK, CreateOrder
<1>5. ASSUME NEW p \in Procs, CreateRow(p)
      PROVE  TypeOK'
  <2>1. call[p].pay \in Payments /\ NoCall \in Call
    BY <1>5, CallFields, ProceedTyped DEF CreateRow
  <2> QED BY <1>5, <1>t, <2>1 DEF TypeOK, CreateRow, SetStatus, PaymentStatus
<1>6. ASSUME NEW p \in Procs, NEW x \in Payments, Capture(p, x)
      PROVE  TypeOK'
  <2>1. [op |-> "check", pay |-> x, event |-> NoEvent] \in Call
    BY DEF Call
  <2> QED BY <1>6, <1>t, <2>1 DEF TypeOK, Capture
<1>7. ASSUME NEW p \in Procs, CaptureCheck(p)
      PROVE  TypeOK'
  <2>1. call' \in [Procs -> Call]
    BY <1>7, <1>t, ProceedTyped DEF CaptureCheck, Proceed
  <2> QED BY <1>7, <2>1 DEF TypeOK, CaptureCheck
<1>8. ASSUME NEW p \in Procs, CaptureGateway(p)
      PROVE  TypeOK'
  <2>1. call' \in [Procs -> Call]
    BY <1>8, <1>t, ProceedTyped DEF CaptureGateway, Proceed
  <2>2. call[p].pay \in Payments /\ [type |-> "captured", pay |-> call[p].pay] \in Events
    BY <1>8, CallFields DEF CaptureGateway, Events
  <2> QED BY <1>8, <2>1, <2>2 DEF TypeOK, CaptureGateway, Emit
<1>9. ASSUME NEW p \in Procs, CaptureBook(p)
      PROVE  TypeOK'
  <2>1. call' \in [Procs -> Call]
    BY <1>9, <1>t, ProceedTyped DEF CaptureBook, Proceed
  <2>2. call[p].pay \in Payments
    BY <1>9, CallFields DEF CaptureBook
  <2> QED BY <1>9, <2>1, <2>2 DEF TypeOK, CaptureBook, SetStatus, PaymentStatus
<1>10. ASSUME NEW p \in Procs, CaptureConfirm(p)
       PROVE  TypeOK'
  <2>1. call' \in [Procs -> Call]
    BY <1>10, FinishTyped DEF CaptureConfirm
  <2> QED BY <1>10, <2>1 DEF TypeOK, CaptureConfirm
<1>11. ASSUME NEW p \in Procs, CaptureGiveUp(p)
       PROVE  TypeOK'
  <2>1. call' \in [Procs -> Call]
    BY <1>11, FinishTyped DEF CaptureGiveUp
  <2>2. call[p].pay \in Payments
    BY <1>11, CallFields DEF CaptureGiveUp
  <2> QED BY <1>11, <2>1, <2>2 DEF TypeOK, CaptureGiveUp, SetStatus, PaymentStatus
<1>12. ASSUME NEW p \in Procs, NEW x \in Payments, NEW n \in 1..Amount, RefundCheck(p, x, n)
       PROVE  TypeOK'
  <2>1. [op |-> "refund", pay |-> x, amount |-> n, already |-> refund[x]] \in Call
    <3>1. refund[x] \in 0..Amount /\ refund[x] + n <= Amount
      BY <1>12 DEF TypeOK, RefundCheck
    <3> QED BY <3>1 DEF Call
  <2> QED BY <1>12, <1>t, <2>1 DEF TypeOK, RefundCheck
<1>13. ASSUME NEW p \in Procs, RefundGateway(p)
       PROVE  TypeOK'
  <2>1. call' \in [Procs -> Call]
    BY <1>13, <1>t, ProceedTyped DEF RefundGateway, Proceed
  <2>2. call[p].pay \in Payments /\ call[p].amount \in 1..Amount
    BY <1>13, CallFields DEF RefundGateway
  <2>3. returned[call[p].pay] \in 0..Amount
    BY <2>2 DEF TypeOK
  <2>4. ASSUME returned[call[p].pay] + call[p].amount <= Amount
        PROVE  /\ returned[call[p].pay] + call[p].amount \in 1..Amount
               /\ [type |-> "refund", pay |-> call[p].pay,
                   amount |-> returned[call[p].pay] + call[p].amount] \in Events
    BY <2>2, <2>3, <2>4 DEF Events
  <2> QED BY <1>13, <2>1, <2>2, <2>4 DEF TypeOK, RefundGateway, Emit
<1>14. ASSUME NEW p \in Procs, RefundEnter(p)
       PROVE  TypeOK'
  <2> DEFINE x == call[p].pay
             total == call[p].already + call[p].amount
  <2>1. /\ x \in Payments
        /\ total \in 0..Amount
    <3>1. call[p].op = "enter"
      BY <1>14 DEF RefundEnter
    <3>2. /\ call[p].pay \in Payments /\ call[p].amount \in 1..Amount
          /\ call[p].already \in 0..Amount /\ call[p].already + call[p].amount <= Amount
      BY <3>1, CallFields
    <3> QED BY <3>2
  <2>2. call' \in [Procs -> Call]
    BY <1>14, <1>t, ProceedTyped DEF RefundEnter
  <2>3. RefundStatus(total) \in PaymentStatus
    BY DEF RefundStatus, PaymentStatus
  <2> QED BY <1>14, <2>1, <2>2, <2>3 DEF TypeOK, RefundEnter, SetStatus
<1>15. ASSUME NEW p \in Procs, NEW e \in Events, Deliver(p, e)
       PROVE  TypeOK'
  <2>1. [op |-> "record", event |-> e] \in Call
    BY DEF Call
  <2> QED BY <1>15, <1>t, <2>1 DEF TypeOK, Deliver, WebhookStatus
<1>16. ASSUME NEW p \in Procs, Record(p)
       PROVE  TypeOK'
  <2>1. call' \in [Procs -> Call]
    BY <1>16, <1>t, ProceedTyped DEF Record, Proceed
  <2> QED BY <1>16, <2>1 DEF TypeOK, Record, WebhookStatus
<1>17. ASSUME NEW p \in Procs, Handle(p)
       PROVE  TypeOK'
  <2> DEFINE e == call[p].event
  <2>1. /\ e \in Events
        /\ e.pay \in Payments
        /\ e.type \in {"authorized", "captured", "failed", "refund"}
        /\ e.type = "refund" => e.amount \in 1..Amount
    BY <1>17, CallFields, EventFields DEF Handle
  <2>2. \A isOk \in BOOLEAN : Note(p, isOk) => call' \in [Procs -> Call]
    BY <1>t, <2>1, ProceedTyped DEF Note
  <2>3. [op |-> "check", pay |-> e.pay, event |-> e] \in Call
    BY <2>1 DEF Call
  <2>4. call' \in [Procs -> Call]
    BY <1>17, <1>t, <2>2, <2>3 DEF Handle
  <2>5. /\ status' \in [Payments -> PaymentStatus \cup {"none"}]
        /\ refund' \in [Payments -> 0..Amount]
    <3> DEFINE x == e.pay
    <3>1. \/ UNCHANGED <<status, refund>>
          \/ /\ e.type \in {"authorized", "captured", "failed"}
             /\ SetStatus(x, e.type) /\ UNCHANGED refund
          \/ /\ e.type = "refund"
             /\ SetStatus(x, RefundStatus(e.amount))
             /\ refund' = [refund EXCEPT ![x] = e.amount]
      BY <1>17 DEF Handle
    <3>2. e.type = "refund" => RefundStatus(e.amount) \in PaymentStatus
      BY DEF RefundStatus, PaymentStatus
    <3>3. e.type = "refund" => e.amount \in 0..Amount
      BY <2>1
    <3>4. {"authorized", "captured", "failed"} \subseteq PaymentStatus
      BY DEF PaymentStatus
    <3> HIDE DEF e
    <3> QED BY <2>1, <3>1, <3>2, <3>3, <3>4 DEF TypeOK, SetStatus
  <2>6. handled' \in [Events -> 0..2]
    BY <1>17, <2>1 DEF Handle, TypeOK
  <2> QED BY <1>17, <2>4, <2>5, <2>6 DEF Handle, TypeOK
<1>18. ASSUME NEW p \in Procs, HandleNote(p)
       PROVE  TypeOK'
  <2>1. NoCall \in Call /\ call[p].event \in Events
    BY <1>18, CallFields, ProceedTyped DEF HandleNote
  <2> QED BY <1>18, <1>t, <2>1 DEF TypeOK, HandleNote, WebhookStatus
<1>19. ASSUME NEW p \in Procs, StatementFails(p) \/ Stop(p)
       PROVE  TypeOK'
  <2>1. call[p].op \in {"check", "book", "confirm"} /\ Proceed(p, "giveup")
          => call' \in [Procs -> Call]
    BY <1>t, ProceedTyped DEF Proceed
  <2>2. call[p].op = "giveup" /\ Finish(p) => call' \in [Procs -> Call]
    BY FinishTyped
  <2>3. call[p].op \in {"check", "handle", "note"} /\ call[p].event # NoEvent /\ Note(p, FALSE)
          => call' \in [Procs -> Call]
    BY <1>t, CallFields, ProceedTyped DEF Note
  <2>4. call[p].op \in {"handle", "note"} => call[p].event # NoEvent
    BY CallFields, EventFields
  <2>5. Serves(p, NoCall) => call' \in [Procs -> Call]
    BY <1>t, ProceedTyped
  <2>6. call' \in [Procs -> Call]
    BY <1>19, <2>1, <2>2, <2>3, <2>4, <2>5 DEF StatementFails, Stop
  <2> QED BY <1>19, <2>6 DEF StatementFails, Stop, TypeOK
<1>20. CASE UNCHANGED vars
  BY <1>20 DEF vars, TypeOK
<1> QED
  BY <1>1, <1>2, <1>3, <1>4, <1>5, <1>6, <1>7, <1>8, <1>9, <1>10, <1>11, <1>12,
     <1>13, <1>14, <1>15, <1>16, <1>17, <1>18, <1>19, <1>20
     DEF Next, Environment, Step, Create, Collect, Refund, Webhook

\* The rows, the books of the gateway and the calls keep their types: in
\* particular no refund in the books exceeds the amount of the payment.
THEOREM TypeCorrect == Spec => []TypeOK
<1>1. Init => TypeOK
  BY InitTypeOK
<1>2. TypeOK /\ [Next]_vars => TypeOK'
  BY NextTypeOK
<1> QED BY <1>1, <1>2, PTL DEF Spec

-------------------------------------------------------------------------------
(* Money: what is booked is there                                          *)

\* What a request knows when it is about to book: the capture was done, or
\* the event it handles was sent by the gateway after it was.
CallIsBacked(p) ==
    /\ call[p].op \in {"book", "confirm", "refund", "enter"} => gateway[call[p].pay] = "captured"
    /\ call[p].op \in {"record", "handle"} /\ call[p].event.type \in {"captured", "refund"}
         => gateway[call[p].event.pay] = "captured"

\* The inductive invariant of the money: the events tell the truth, the
\* requests act on it, and so what they write is true.
MoneyInv ==
    /\ \A e \in sent : e.type \in {"captured", "refund"} => gateway[e.pay] = "captured"
    /\ \A p \in Procs : CallIsBacked(p)
    /\ BookedIsReceived
    /\ PaidIsReceived

\* The gateway never gives up what it has captured.
LEMMA CapturedStays ==
    TypeOK /\ [Next]_vars
      => \A x \in Payments : gateway[x] = "captured" => gateway'[x] = "captured"
<1> SUFFICES ASSUME TypeOK, [Next]_vars, NEW x \in Payments, gateway[x] = "captured"
             PROVE  gateway'[x] = "captured"
  OBVIOUS
<1> USE DEF rowVars, gatewayVars, webhookVars
<1>1. ASSUME NEW y \in Payments, Authorize(y) \/ AttemptFails(y) \/ AutoCapture(y) \/ Verify(y)
      PROVE  gateway'[x] = "captured"
  BY <1>1 DEF TypeOK, Authorize, AttemptFails, AutoCapture, Verify
<1>2. ASSUME NEW p \in Procs, Create(p)
      PROVE  gateway'[x] = "captured"
  BY <1>2 DEF TypeOK, Create, CreateCheck, CreateOrder, CreateRow
<1>3. ASSUME NEW p \in Procs, Collect(p)
      PROVE  gateway'[x] = "captured"
  BY <1>3 DEF TypeOK, Collect, Capture, CaptureCheck, CaptureGateway, CaptureBook,
              CaptureConfirm, CaptureGiveUp
<1>4. ASSUME NEW p \in Procs, Refund(p)
      PROVE  gateway'[x] = "captured"
  BY <1>4 DEF TypeOK, Refund, RefundCheck, RefundGateway, RefundEnter
<1>5. ASSUME NEW p \in Procs, Webhook(p)
      PROVE  gateway'[x] = "captured"
  BY <1>5 DEF TypeOK, Webhook, Deliver, Record, Handle, HandleNote
<1>6. ASSUME NEW p \in Procs, StatementFails(p) \/ Stop(p)
      PROVE  gateway'[x] = "captured"
  BY <1>6 DEF StatementFails, Stop
<1>7. CASE UNCHANGED vars
  BY <1>7 DEF vars
<1> QED BY <1>1, <1>2, <1>3, <1>4, <1>5, <1>6, <1>7 DEF Next, Environment, Step

LEMMA InitMoneyInv == Init => MoneyInv
  BY DEF Init, MoneyInv, CallIsBacked, NoCall, BookedIsReceived, PaidIsReceived, Settled

LEMMA NextMoneyInv == TypeOK /\ MoneyInv /\ [Next]_vars => MoneyInv'
<1> SUFFICES ASSUME TypeOK, MoneyInv, [Next]_vars PROVE MoneyInv'
  OBVIOUS
<1> DEFINE True(e) == e.type \in {"captured", "refund"} => gateway[e.pay] = "captured"
<1>g. \A x \in Payments : gateway[x] = "captured" => gateway'[x] = "captured"
  BY CapturedStays
<1>n. sent' \in SUBSET Events
  BY NextTypeOK DEF TypeOK
\* What keeps each part of the invariant.
<1>a. ASSUME \A e \in sent' \ sent : True(e)'
      PROVE  \A e \in sent' : True(e)'
  <2> SUFFICES ASSUME NEW e \in sent', e \in sent, e.type \in {"captured", "refund"}
               PROVE  gateway'[e.pay] = "captured"
    BY <1>a
  <2> QED BY <1>g, EventFields DEF MoneyInv, TypeOK
<1>b. ASSUME NEW p \in Procs, NEW c, Serves(p, c), CallIsBacked(p)'
      PROVE  \A q \in Procs : CallIsBacked(q)'
  <2> SUFFICES ASSUME NEW q \in Procs, q # p PROVE CallIsBacked(q)'
    BY <1>b
  <2>1. call'[q] = call[q]
    BY <1>b DEF Serves, TypeOK
  <2>2. CallIsBacked(q)
    BY DEF MoneyInv
  <2>3. ASSUME call[q].op \in {"book", "confirm", "refund", "enter"}
        PROVE  gateway'[call[q].pay] = "captured"
    BY <2>2, <2>3, <1>g, CallFields DEF CallIsBacked
  <2>4. ASSUME call[q].op \in {"record", "handle"}, call[q].event.type \in {"captured", "refund"}
        PROVE  gateway'[call[q].event.pay] = "captured"
    BY <2>2, <2>4, <1>g, CallFields, EventFields DEF CallIsBacked
  <2> QED BY <2>1, <2>3, <2>4 DEF CallIsBacked
<1>c. /\ UNCHANGED status => BookedIsReceived'
      /\ \A x \in Payments : \A s : SetStatus(x, s) /\ (s \in Settled => gateway'[x] = "captured")
           => BookedIsReceived'
  BY <1>g DEF MoneyInv, BookedIsReceived, SetStatus, TypeOK
<1>d. UNCHANGED orderPaid => PaidIsReceived'
  BY <1>g DEF MoneyInv, PaidIsReceived
<1>i. \A p \in Procs : Serves(p, NoCall) => CallIsBacked(p)'
  BY DEF CallIsBacked, Serves, NoCall, TypeOK
<1> USE DEF rowVars, gatewayVars, webhookVars
<1>1. ASSUME NEW x \in Payments, Authorize(x) \/ AttemptFails(x) \/ AutoCapture(x)
      PROVE  MoneyInv'
  <2>1. PICK t \in {"authorized", "failed", "captured"} :
          /\ sent' = sent \cup {[type |-> t, pay |-> x]}
          /\ t = "captured" => gateway'[x] = "captured"
    BY <1>1 DEF Authorize, AttemptFails, AutoCapture, Emit, TypeOK
  <2>2. \A e \in sent' : True(e)'
    <3>1. \A e \in sent' \ sent : e.type = t /\ e.pay = x
      BY <2>1
    <3> QED BY <2>1, <3>1, <1>a
  <2>3. \A q \in Procs : CallIsBacked(q)'
    <3> SUFFICES ASSUME NEW q \in Procs PROVE CallIsBacked(q)'
      OBVIOUS
    <3>1. call'[q] = call[q]
      BY <1>1 DEF Authorize, AttemptFails, AutoCapture
    <3> QED BY ZenonT(60), <3>1, <1>g, CallFields, EventFields DEF CallIsBacked, MoneyInv
  <2>4. BookedIsReceived' /\ PaidIsReceived'
    BY <1>1, <1>c, <1>d DEF Authorize, AttemptFails, AutoCapture
  <2> QED BY <2>2, <2>3, <2>4 DEF MoneyInv
<1>2. ASSUME NEW x \in Payments, Verify(x)
      PROVE  MoneyInv'
  <2>1. \A q \in Procs : CallIsBacked(q)'
    BY <1>2 DEF Verify, CallIsBacked, MoneyInv
  <2>2. BookedIsReceived' /\ PaidIsReceived'
    BY <1>2, <1>c, <1>d DEF Verify, Settled
  <2> QED BY <1>2, <1>a, <2>1, <2>2 DEF Verify, MoneyInv
<1>3. ASSUME NEW p \in Procs, CreateCheck(p)
      PROVE  MoneyInv'
  <2>1. CallIsBacked(p)' /\ Serves(p, [op |-> "create"])
    BY <1>3 DEF CreateCheck, CallIsBacked, Serves, TypeOK
  <2> QED BY <1>3, <2>1, <1>a, <1>b, <1>c, <1>d DEF CreateCheck, MoneyInv
<1>4. ASSUME NEW p \in Procs, NEW x \in Payments, CreateOrder(p, x)
      PROVE  MoneyInv'
  <2>1. CallIsBacked(p)' /\ Serves(p, [op |-> "insert", pay |-> x])
    BY <1>4 DEF CreateOrder, CallIsBacked, Serves, TypeOK
  <2> QED BY <1>4, <2>1, <1>a, <1>b, <1>c, <1>d DEF CreateOrder, MoneyInv
<1>5. ASSUME NEW p \in Procs, CreateRow(p)
      PROVE  MoneyInv'
  <2>1. CallIsBacked(p)' /\ Serves(p, NoCall) /\ call[p].pay \in Payments
    BY <1>5, <1>i, CallFields DEF CreateRow
  <2>2. BookedIsReceived'
    BY <1>5, <2>1, <1>c DEF CreateRow, Settled
  <2> QED BY <1>5, <2>1, <2>2, <1>a, <1>b, <1>d DEF CreateRow, MoneyInv
<1>6. ASSUME NEW p \in Procs, NEW x \in Payments, Capture(p, x)
      PROVE  MoneyInv'
  <2>1. CallIsBacked(p)' /\ Serves(p, [op |-> "check", pay |-> x, event |-> NoEvent])
    BY <1>6 DEF Capture, CallIsBacked, Serves, TypeOK
  <2> QED BY <1>6, <2>1, <1>a, <1>b, <1>c, <1>d DEF Capture, MoneyInv
<1>7. ASSUME NEW p \in Procs, CaptureCheck(p)
      PROVE  MoneyInv'
  <2>1. CallIsBacked(p)'
    BY <1>7, ProceedFields DEF CaptureCheck, CallIsBacked
  <2> QED BY <1>7, <2>1, <1>a, <1>b, <1>c, <1>d DEF CaptureCheck, Proceed, MoneyInv
<1>8. ASSUME NEW p \in Procs, CaptureGateway(p)
      PROVE  MoneyInv'
  <2>1. call[p].op = "capture" /\ call[p].pay \in Payments
    BY <1>8, CallFields DEF CaptureGateway
  <2>2. CASE gateway[call[p].pay] = "authorized"
    <3>1. /\ gateway'[call[p].pay] = "captured"
          /\ sent' = sent \cup {[type |-> "captured", pay |-> call[p].pay]}
          /\ Proceed(p, "book") \/ Proceed(p, "giveup")
      BY <1>8, <2>1, <2>2 DEF CaptureGateway, Emit, TypeOK
    <3>2. CallIsBacked(p)'
      BY <2>1, <3>1, ProceedFields DEF CallIsBacked
    <3>3. \A e \in sent' \ sent : e.pay = call[p].pay
      BY <3>1
    <3>4. \A e \in sent' : True(e)'
      BY <3>1, <3>3, <1>a
    <3> QED BY <1>8, <3>1, <3>2, <3>4, <1>b, <1>c, <1>d DEF CaptureGateway, Proceed, MoneyInv
  <2>3. CASE gateway[call[p].pay] # "authorized"
    <3>1. Proceed(p, "giveup") /\ UNCHANGED gatewayVars
      BY <1>8, <2>3 DEF CaptureGateway
    <3>2. CallIsBacked(p)'
      BY <2>1, <3>1, ProceedFields DEF CallIsBacked
    <3> QED BY <1>8, <3>1, <3>2, <1>a, <1>b, <1>c, <1>d DEF CaptureGateway, Proceed, MoneyInv
  <2> QED BY <2>2, <2>3
<1>9. ASSUME NEW p \in Procs, CaptureBook(p)
      PROVE  MoneyInv'
  <2>1. /\ call[p].op = "book" /\ call[p].pay \in Payments
        /\ gateway'[call[p].pay] = "captured"
    BY <1>9, <1>g, CallFields DEF CaptureBook, MoneyInv, CallIsBacked
  <2>2. CallIsBacked(p)'
    BY <1>9, <2>1, ProceedFields DEF CaptureBook, CallIsBacked
  <2>3. BookedIsReceived'
    BY <1>9, <2>1, <1>c DEF CaptureBook
  <2> QED BY <1>9, <2>2, <2>3, <1>a, <1>b, <1>d DEF CaptureBook, Proceed, MoneyInv
<1>f. ASSUME NEW p \in Procs, Finish(p)
      PROVE  \A q \in Procs : CallIsBacked(q)'
  <2>1. PICK c : Serves(p, c) /\ c.op \in {"none", "note"}
    BY <1>f DEF Finish, NoCall
  <2>2. CallIsBacked(p)'
    BY <2>1 DEF Serves, CallIsBacked, TypeOK
  <2> QED BY <2>1, <2>2, <1>b
<1>10. ASSUME NEW p \in Procs, CaptureConfirm(p)
       PROVE  MoneyInv'
  <2>1. call[p].pay \in Payments /\ gateway'[call[p].pay] = "captured"
    BY <1>10, <1>g, CallFields DEF CaptureConfirm, MoneyInv, CallIsBacked
  <2>2. PaidIsReceived'
    BY <2>1 DEF PaidIsReceived
  <2> QED BY <1>10, <2>2, <1>a, <1>c, <1>f DEF CaptureConfirm, MoneyInv
<1>11. ASSUME NEW p \in Procs, CaptureGiveUp(p)
       PROVE  MoneyInv'
  <2>1. BookedIsReceived'
    BY <1>11, <1>c, CallFields DEF CaptureGiveUp, Settled
  <2> QED BY <1>11, <2>1, <1>a, <1>d, <1>f DEF CaptureGiveUp, MoneyInv
<1>12. ASSUME NEW p \in Procs, NEW x \in Payments, NEW n \in 1..Amount, RefundCheck(p, x, n)
       PROVE  MoneyInv'
  <2>1. gateway'[x] = "captured"
    BY <1>12, <1>g DEF RefundCheck, MoneyInv, BookedIsReceived, Settled
  <2>2. /\ Serves(p, [op |-> "refund", pay |-> x, amount |-> n, already |-> refund[x]])
        /\ CallIsBacked(p)'
    BY <1>12, <2>1 DEF RefundCheck, Serves, CallIsBacked, TypeOK
  <2> QED BY <1>12, <2>2, <1>a, <1>b, <1>c, <1>d DEF RefundCheck, MoneyInv
<1>13. ASSUME NEW p \in Procs, RefundGateway(p)
       PROVE  MoneyInv'
  <2>1. /\ call[p].op = "refund" /\ call[p].pay \in Payments
        /\ gateway'[call[p].pay] = "captured"
    BY <1>13, <1>g, CallFields DEF RefundGateway, MoneyInv, CallIsBacked
  <2>2. \A e \in sent' \ sent : e.pay = call[p].pay
    BY <1>13 DEF RefundGateway, Emit
  <2>3. \A e \in sent' : True(e)'
    BY <2>1, <2>2, <1>a
  <2>4. Proceed(p, "enter") \/ Serves(p, NoCall)
    BY <1>13 DEF RefundGateway
  <2>5. CallIsBacked(p)'
    BY <2>1, <2>4, <1>i, ProceedFields DEF CallIsBacked
  <2>6. \A q \in Procs : CallIsBacked(q)'
    BY <2>4, <2>5, <1>b DEF Proceed
  <2>7. BookedIsReceived' /\ PaidIsReceived'
    BY <1>13, <1>c, <1>d DEF RefundGateway
  <2> QED BY <2>3, <2>6, <2>7 DEF MoneyInv
<1>14. ASSUME NEW p \in Procs, RefundEnter(p)
       PROVE  MoneyInv'
  <2>1. call[p].pay \in Payments /\ gateway'[call[p].pay] = "captured"
    BY <1>14, <1>g, CallFields DEF RefundEnter, MoneyInv, CallIsBacked
  <2>2. BookedIsReceived'
    BY <1>14, <2>1, <1>c DEF RefundEnter
  <2>3. CallIsBacked(p)' /\ Serves(p, NoCall)
    BY <1>14, <1>i DEF RefundEnter
  <2> QED BY <1>14, <2>2, <2>3, <1>a, <1>b, <1>d DEF RefundEnter, MoneyInv
<1>15. ASSUME NEW p \in Procs, NEW e \in Events, Deliver(p, e)
       PROVE  MoneyInv'
  <2>1. ASSUME Serves(p, [op |-> "record", event |-> e])
        PROVE  \A q \in Procs : CallIsBacked(q)'
    <3>1. call'[p] = [op |-> "record", event |-> e]
      BY <2>1 DEF Serves, TypeOK
    <3>2. e.type \in {"captured", "refund"} => gateway'[e.pay] = "captured"
      BY <1>15, <1>g, EventFields DEF Deliver, MoneyInv
    <3>3. CallIsBacked(p)'
      BY <3>1, <3>2 DEF CallIsBacked
    <3> QED BY <2>1, <3>3, <1>b
  <2>2. ASSUME UNCHANGED call
        PROVE  \A q \in Procs : CallIsBacked(q)'
    BY <1>15, <2>2 DEF Deliver, MoneyInv, CallIsBacked
  <2>3. Serves(p, [op |-> "record", event |-> e]) \/ UNCHANGED call
    BY <1>15 DEF Deliver
  <2> QED BY <1>15, <2>1, <2>2, <2>3, <1>a, <1>c, <1>d DEF Deliver, MoneyInv
<1>16. ASSUME NEW p \in Procs, Record(p)
       PROVE  MoneyInv'
  <2>1. call[p].op = "record" /\ (Proceed(p, "handle") \/ Serves(p, NoCall))
    BY <1>16 DEF Record
  <2>2. call[p].event.type \in {"captured", "refund"} => gateway'[call[p].event.pay] = "captured"
    BY <2>1, <1>g, CallFields, EventFields DEF MoneyInv, CallIsBacked
  <2>3. CallIsBacked(p)'
    BY <2>1, <2>2, <1>i, ProceedFields DEF CallIsBacked
  <2> QED BY <1>16, <2>1, <2>3, <1>a, <1>b, <1>c, <1>d DEF Record, Proceed, MoneyInv
<1>o. ASSUME NEW p \in Procs, NEW isOk, Note(p, isOk)
      PROVE  \A q \in Procs : CallIsBacked(q)'
  <2>1. PICK c : Serves(p, c) /\ c.op = "note"
    BY <1>o DEF Note
  <2>2. CallIsBacked(p)'
    BY <2>1 DEF Serves, CallIsBacked, TypeOK
  <2> QED BY <2>1, <2>2, <1>b
<1>17. ASSUME NEW p \in Procs, Handle(p)
       PROVE  MoneyInv'
  <2> DEFINE e == call[p].event
  <2>1. e \in Events /\ e.pay \in Payments
    BY <1>17, CallFields, EventFields DEF Handle
  <2>2. e.type \in {"captured", "refund"} => gateway'[e.pay] = "captured"
    BY <1>17, <2>1, <1>g DEF Handle, MoneyInv, CallIsBacked
  <2>3. \/ UNCHANGED status
        \/ e.type \in {"authorized", "failed"} /\ SetStatus(e.pay, e.type)
        \/ e.type \in {"captured", "refund"} /\ \E s : SetStatus(e.pay, s)
    BY <1>17 DEF Handle
  <2>4. BookedIsReceived'
    BY <2>1, <2>2, <2>3, <1>c DEF Settled
  <2>5. ASSUME Serves(p, [op |-> "check", pay |-> e.pay, event |-> e])
        PROVE  \A q \in Procs : CallIsBacked(q)'
    <3>1. CallIsBacked(p)'
      BY <2>5 DEF Serves, CallIsBacked, TypeOK
    <3> QED BY <2>5, <3>1, <1>b
  <2>6. \A q \in Procs : CallIsBacked(q)'
    BY <1>17, <2>5, <1>o DEF Handle
  <2> QED BY <1>17, <2>4, <2>6, <1>a, <1>d DEF Handle, MoneyInv
<1>18. ASSUME NEW p \in Procs, HandleNote(p)
       PROVE  MoneyInv'
  <2>1. CallIsBacked(p)' /\ Serves(p, NoCall)
    BY <1>18, <1>i DEF HandleNote
  <2> QED BY <1>18, <2>1, <1>a, <1>b, <1>c, <1>d DEF HandleNote, MoneyInv
<1>19. ASSUME NEW p \in Procs, StatementFails(p) \/ Stop(p)
       PROVE  MoneyInv'
  <2>1. ASSUME call[p].op \in {"check", "book", "confirm"}, Proceed(p, "giveup")
        PROVE  \A q \in Procs : CallIsBacked(q)'
    <3>1. CallIsBacked(p)'
      BY <2>1, ProceedFields DEF CallIsBacked
    <3> QED BY <2>1, <3>1, <1>b DEF Proceed
  <2>2. ASSUME Serves(p, NoCall)
        PROVE  \A q \in Procs : CallIsBacked(q)'
    BY <2>2, <1>b, <1>i
  <2>3. \A q \in Procs : CallIsBacked(q)'
    BY <1>19, <2>1, <2>2, <1>f, <1>o DEF StatementFails, Stop
  <2> QED BY <1>19, <2>3, <1>a, <1>c, <1>d DEF StatementFails, Stop, MoneyInv
<1>20. CASE UNCHANGED vars
  BY <1>20, <1>a, <1>c, <1>d DEF vars, MoneyInv, CallIsBacked
<1> QED
  BY <1>1, <1>2, <1>3, <1>4, <1>5, <1>6, <1>7, <1>8, <1>9, <1>10, <1>11, <1>12,
     <1>13, <1>14, <1>15, <1>16, <1>17, <1>18, <1>19, <1>20
     DEF Next, Environment, Step, Create, Collect, Refund, Webhook

LEMMA MoneyInvariant == Spec => [](TypeOK /\ MoneyInv)
<1>1. Init => TypeOK /\ MoneyInv
  BY InitTypeOK, InitMoneyInv
<1>2. TypeOK /\ MoneyInv /\ [Next]_vars => TypeOK' /\ MoneyInv'
  BY NextTypeOK, NextMoneyInv
<1> QED BY <1>1, <1>2, PTL DEF Spec

\* Whatever the order of requests and events and whatever fails, a payment
\* is captured or refunded in the books only if the gateway has its money.
THEOREM BookedMoneyIsReceived == Spec => []BookedIsReceived
<1>1. MoneyInv => BookedIsReceived
  BY DEF MoneyInv
<1> QED BY <1>1, MoneyInvariant, PTL

\* An order is paid only if the gateway has the money of one of its payments.
THEOREM PaidOrderIsReceived == Spec => []PaidIsReceived
<1>1. MoneyInv => PaidIsReceived
  BY DEF MoneyInv
<1> QED BY <1>1, MoneyInvariant, PTL

-------------------------------------------------------------------------------
(* Events: each is handled once                                            *)

\* The inductive invariant of the events: an event without a record has not
\* been handled, and the one request that wrote the record, and no other,
\* may still be going to.
EventInv ==
    /\ HandledOnce
    /\ \A e \in Events : webhook[e] = "none" => handled[e] = 0
    /\ \A p \in Procs : call[p].op = "handle"
         => webhook[call[p].event] # "none" /\ handled[call[p].event] = 0
    /\ \A p, q \in Procs :
         call[p].op = "handle" /\ call[q].op = "handle" /\ call[p].event = call[q].event => p = q

\* Only Record sends a request on to handle its event.
LEMMA HandlingStarts ==
    ASSUME TypeOK, NEW p \in Procs,
           \/ Create(p) \/ Collect(p) \/ Refund(p)
           \/ Handle(p) \/ HandleNote(p) \/ StatementFails(p) \/ Stop(p)
    PROVE  /\ call'[p].op # "handle"
           /\ \A q \in Procs : q # p => call'[q] = call[q]
<1>1. \A c : Serves(p, c) => call'[p] = c /\ \A q \in Procs : q # p => call'[q] = call[q]
  BY DEF Serves, TypeOK
<1> DEFINE Aside == \E c : Serves(p, c) /\ c.op # "handle"
<1>2. ASSUME Aside
      PROVE  call'[p].op # "handle" /\ \A q \in Procs : q # p => call'[q] = call[q]
  BY <1>1, <1>2
<1>3. /\ Serves(p, NoCall) => Aside
      /\ \A isOk : Note(p, isOk) => Aside
      /\ Finish(p) => Aside
  BY DEF NoCall, Note, Finish
<1>4. \A op : Proceed(p, op) /\ op # "handle"
               /\ call[p].op \in {"check", "capture", "book", "confirm", "giveup", "refund", "enter"}
        => call'[p].op # "handle" /\ \A q \in Procs : q # p => call'[q] = call[q]
  BY <1>1, ProceedFields DEF Proceed
<1> HIDE DEF Aside
<1>5. ASSUME Create(p)
      PROVE  Aside
  <2>1. CASE CreateCheck(p)
    BY <2>1 DEF CreateCheck, Aside
  <2>2. ASSUME NEW x \in Payments, CreateOrder(p, x) PROVE Aside
    BY <2>2 DEF CreateOrder, Aside
  <2>3. CASE CreateRow(p)
    BY <2>3, <1>3 DEF CreateRow
  <2> QED BY <1>5, <2>1, <2>2, <2>3 DEF Create
<1>6. ASSUME Collect(p)
      PROVE  call'[p].op # "handle" /\ \A q \in Procs : q # p => call'[q] = call[q]
  <2>1. ASSUME NEW x \in Payments, Capture(p, x) PROVE Aside
    BY <2>1 DEF Capture, Aside
  <2>2. ASSUME CaptureCheck(p) \/ CaptureGateway(p) \/ CaptureBook(p)
        PROVE  call'[p].op # "handle" /\ \A q \in Procs : q # p => call'[q] = call[q]
    BY <2>2, <1>4 DEF CaptureCheck, CaptureGateway, CaptureBook
  <2>3. ASSUME CaptureConfirm(p) \/ CaptureGiveUp(p) PROVE Aside
    BY <2>3, <1>3 DEF CaptureConfirm, CaptureGiveUp
  <2> QED BY <1>6, <1>2, <2>1, <2>2, <2>3 DEF Collect
<1>7. ASSUME Refund(p)
      PROVE  call'[p].op # "handle" /\ \A q \in Procs : q # p => call'[q] = call[q]
  <2>1. ASSUME NEW x \in Payments, NEW n \in 1..Amount, RefundCheck(p, x, n) PROVE Aside
    BY <2>1 DEF RefundCheck, Aside
  <2>2. ASSUME RefundGateway(p)
        PROVE  call'[p].op # "handle" /\ \A q \in Procs : q # p => call'[q] = call[q]
    BY <2>2, <1>2, <1>3, <1>4 DEF RefundGateway
  <2>3. ASSUME RefundEnter(p) PROVE Aside
    BY <2>3, <1>3 DEF RefundEnter
  <2> QED BY <1>7, <1>2, <2>1, <2>2, <2>3 DEF Refund
<1>8. ASSUME Handle(p) \/ HandleNote(p) \/ Stop(p)
      PROVE  Aside
  <2>1. CASE Handle(p)
    <3>1. \/ Note(p, FALSE) \/ Note(p, TRUE)
          \/ Serves(p, [op |-> "check", pay |-> call[p].event.pay, event |-> call[p].event])
      BY <2>1 DEF Handle
    <3>2. \A c : Serves(p, c) /\ c.op # "handle" => Aside
      BY DEF Aside
    <3> QED BY <3>1, <3>2, <1>3
  <2> QED BY <1>8, <1>3, <2>1 DEF HandleNote, Stop
<1>9. ASSUME StatementFails(p)
      PROVE  call'[p].op # "handle" /\ \A q \in Procs : q # p => call'[q] = call[q]
  BY <1>9, <1>2, <1>3, <1>4 DEF StatementFails
<1> QED BY <1>2, <1>5, <1>6, <1>7, <1>8, <1>9

LEMMA InitEventInv == Init => EventInv
  BY DEF Init, EventInv, HandledOnce, NoCall

LEMMA NextEventInv == TypeOK /\ EventInv /\ [Next]_vars => EventInv'
<1> SUFFICES ASSUME TypeOK, EventInv, [Next]_vars PROVE EventInv'
  OBVIOUS
<1> USE DEF rowVars, gatewayVars, webhookVars
\* A step that starts no handling and touches no event keeps the invariant.
<1>a. ASSUME NEW p \in Procs, call'[p].op # "handle",
             \A q \in Procs : q # p => call'[q] = call[q],
             UNCHANGED handled,
             \A e \in Events : webhook'[e] = "none" => webhook[e] = "none"
      PROVE  EventInv'
  <2>1. HandledOnce' /\ \A e \in Events : webhook'[e] = "none" => handled'[e] = 0
    BY <1>a DEF EventInv, HandledOnce
  <2>2. ASSUME NEW q \in Procs, call'[q].op = "handle"
        PROVE  webhook'[call'[q].event] # "none" /\ handled'[call'[q].event] = 0
    <3>1. q # p /\ call'[q] = call[q] /\ call[q].op = "handle"
      BY <1>a, <2>2
    <3>2. call[q].event \in Events
      BY <3>1, CallFields
    <3>3. webhook[call[q].event] # "none" /\ handled[call[q].event] = 0
      BY <3>1 DEF EventInv
    <3> QED BY <1>a, <3>1, <3>2, <3>3
  <2>3. ASSUME NEW q \in Procs, NEW r \in Procs, call'[q].op = "handle",
               call'[r].op = "handle", call'[q].event = call'[r].event
        PROVE  q = r
    BY <1>a, <2>3 DEF EventInv
  <2> QED BY <2>1, <2>2, <2>3 DEF EventInv
<1>1. ASSUME UNCHANGED <<webhookVars, call>>
      PROVE  EventInv'
  BY <1>1 DEF EventInv, HandledOnce
<1>2. ASSUME NEW p \in Procs, Create(p) \/ Collect(p) \/ Refund(p) \/ StatementFails(p) \/ Stop(p)
      PROVE  EventInv'
  <2>1. UNCHANGED webhookVars
    BY <1>2 DEF Create, CreateCheck, CreateOrder, CreateRow, Collect, Capture, CaptureCheck,
                CaptureGateway, CaptureBook, CaptureConfirm, CaptureGiveUp, Refund,
                RefundCheck, RefundGateway, RefundEnter, StatementFails, Stop
  <2>2. call'[p].op # "handle" /\ \A q \in Procs : q # p => call'[q] = call[q]
    BY <1>2, HandlingStarts
  <2> QED BY <2>1, <2>2, <1>a
<1>3. ASSUME NEW p \in Procs, NEW e \in Events, Deliver(p, e)
      PROVE  EventInv'
  <2>1. UNCHANGED handled /\ \A f \in Events : webhook'[f] = "none" => webhook[f] = "none"
    BY <1>3 DEF Deliver, TypeOK
  <2>2. CASE UNCHANGED call
    BY <2>1, <2>2, CallFields DEF EventInv, HandledOnce
  <2>3. CASE Serves(p, [op |-> "record", event |-> e])
    <3>1. call'[p].op # "handle" /\ \A q \in Procs : q # p => call'[q] = call[q]
      BY <2>3 DEF Serves, TypeOK
    <3> QED BY <2>1, <3>1, <1>a
  <2> QED BY <1>3, <2>2, <2>3 DEF Deliver
<1>4. ASSUME NEW p \in Procs, Record(p)
      PROVE  EventInv'
  <2> DEFINE e == call[p].event
  <2>1. call[p].op = "record" /\ e \in Events
    BY <1>4, CallFields DEF Record
  <2>2. CASE webhook[e] # "none"
    <3>1. /\ call'[p].op # "handle"
          /\ \A q \in Procs : q # p => call'[q] = call[q]
          /\ UNCHANGED webhookVars
      BY <1>4, <2>1, <2>2 DEF Record, Serves, NoCall, TypeOK
    <3> QED BY <3>1, <1>a
  <2>3. CASE webhook[e] = "none"
    <3>1. /\ Proceed(p, "handle")
          /\ webhook' = [webhook EXCEPT ![e] = "pending"]
          /\ UNCHANGED handled
      BY <1>4, <2>3 DEF Record
    <3>2. /\ call'[p].op = "handle" /\ call'[p].event = e
          /\ \A q \in Procs : q # p => call'[q] = call[q]
      BY <2>1, <3>1, ProceedFields DEF Proceed, Serves, TypeOK
    <3>3. /\ webhook'[e] # "none"
          /\ \A f \in Events : webhook'[f] = "none" => webhook[f] = "none"
      BY <2>1, <3>1 DEF TypeOK
    <3>4. handled[e] = 0
      BY <2>1, <2>3 DEF EventInv
    <3>5. \A q \in Procs : call[q].op = "handle" => call[q].event # e
      BY <2>3 DEF EventInv
    <3>6. HandledOnce' /\ \A f \in Events : webhook'[f] = "none" => handled'[f] = 0
      BY <3>1, <3>3 DEF EventInv, HandledOnce
    <3>7. ASSUME NEW q \in Procs, call'[q].op = "handle"
          PROVE  webhook'[call'[q].event] # "none" /\ handled'[call'[q].event] = 0
      BY <3>1, <3>2, <3>3, <3>4, <3>7, CallFields DEF EventInv
    <3>8. ASSUME NEW q \in Procs, NEW r \in Procs, call'[q].op = "handle",
                 call'[r].op = "handle", call'[q].event = call'[r].event
          PROVE  q = r
      BY <3>2, <3>5, <3>8 DEF EventInv
    <3> QED BY <3>6, <3>7, <3>8 DEF EventInv
  <2> QED BY <2>2, <2>3
<1>5. ASSUME NEW p \in Procs, Handle(p)
      PROVE  EventInv'
  <2> DEFINE e == call[p].event
  <2>1. call[p].op = "handle" /\ e \in Events
    BY <1>5, CallFields DEF Handle
  <2>2. call'[p].op # "handle" /\ \A q \in Procs : q # p => call'[q] = call[q]
    BY <1>5, HandlingStarts
  <2>3. UNCHANGED webhook /\ webhook[e] # "none" /\ handled[e] = 0
    BY <1>5, <2>1 DEF Handle, EventInv
  <2>4. handled'[e] = 1 /\ \A f \in Events : f # e => handled'[f] = handled[f]
    BY <1>5, <2>1, <2>3 DEF Handle, TypeOK
  <2>5. HandledOnce' /\ \A f \in Events : webhook'[f] = "none" => handled'[f] = 0
    BY <2>3, <2>4 DEF EventInv, HandledOnce
  <2>6. ASSUME NEW q \in Procs, call'[q].op = "handle"
        PROVE  webhook'[call'[q].event] # "none" /\ handled'[call'[q].event] = 0
    <3>1. q # p /\ call'[q] = call[q] /\ call[q].event # e
      BY <2>1, <2>2, <2>6 DEF EventInv
    <3>2. call[q].event \in Events
      BY <2>6, <3>1, CallFields
    <3> QED BY <2>3, <2>4, <2>6, <3>1, <3>2 DEF EventInv
  <2>7. ASSUME NEW q \in Procs, NEW r \in Procs, call'[q].op = "handle",
               call'[r].op = "handle", call'[q].event = call'[r].event
        PROVE  q = r
    BY <2>2, <2>7 DEF EventInv
  <2> QED BY <2>5, <2>6, <2>7 DEF EventInv
<1>6. ASSUME NEW p \in Procs, HandleNote(p)
      PROVE  EventInv'
  <2>1. call'[p].op # "handle" /\ \A q \in Procs : q # p => call'[q] = call[q]
    BY <1>6, HandlingStarts
  <2>2. UNCHANGED handled /\ \A e \in Events : webhook'[e] = "none" => webhook[e] = "none"
    BY <1>6 DEF HandleNote, TypeOK
  <2> QED BY <2>1, <2>2, <1>a
<1>7. ASSUME NEW x \in Payments, Verify(x) \/ Authorize(x) \/ AttemptFails(x) \/ AutoCapture(x)
      PROVE  EventInv'
  BY <1>1, <1>7 DEF Verify, Authorize, AttemptFails, AutoCapture
<1>8. CASE UNCHANGED vars
  BY <1>1, <1>8 DEF vars
<1> QED BY <1>2, <1>3, <1>4, <1>5, <1>6, <1>7, <1>8 DEF Next, Environment, Step, Webhook

\* However often Razorpay sends an event, to however many processes at once,
\* it is handled at most once.
THEOREM EventsHandledOnce == Spec => []HandledOnce
<1>1. Init => TypeOK /\ EventInv
  BY InitTypeOK, InitEventInv
<1>2. TypeOK /\ EventInv /\ [Next]_vars => TypeOK' /\ EventInv'
  BY NextTypeOK, NextEventInv
<1>3. EventInv => HandledOnce
  BY DEF EventInv
<1> QED BY <1>1, <1>2, <1>3, PTL DEF Spec

===============================================================================

------------------------------ MODULE PaymentFlow ------------------------------
(***************************************************************************)
(* The payments of one order: PaymentService, PaymentWebhookService and    *)
(* their repository, with Razorpay as the environment.                     *)
(*                                                                         *)
(* Every request is a chain of database statements, each committed on its  *)
(* own, and calls to the gateway; the rows are written by primary key,     *)
(* whatever they have become since they were read.  The gateway keeps its  *)
(* own books, sends an event for each change, in no order, and sends it    *)
(* again as long as it likes.                                              *)
(***************************************************************************)
EXTENDS Integers, FiniteSets

CONSTANTS
    Payments,   \* rows of the table payments, each with its Razorpay order
    Procs,      \* concurrent request handlers
    Amount      \* the amount of the order

ASSUME AmountAssumption == Amount \in Nat \ {0}

VARIABLES
    status,     \* payments.status, "none" while there is no row
    refund,     \* payments.refund_amount
    orderPaid,  \* orders.payment_status = 'paid'
    gateway,    \* the state of the payment at Razorpay
    returned,   \* what Razorpay has given back to the customer
    sent,       \* the events Razorpay has sent at least once
    webhook,    \* payment_webhooks.status of each event
    handled,    \* history: how often the event was handled, up to 2
    call        \* the request each process serves, with what it has read

rowVars == <<status, refund, orderPaid>>
gatewayVars == <<gateway, returned, sent>>
webhookVars == <<webhook, handled>>
vars == <<rowVars, gatewayVars, webhookVars, call>>

Events ==
    [type : {"authorized", "captured", "failed"}, pay : Payments]
    \cup [type : {"refund"}, pay : Payments, amount : 1..Amount]

NoEvent == [type |-> "none"]

NoCall == [op |-> "none"]

Call ==
    {NoCall}
    \cup [op : {"create"}]
    \cup [op : {"insert"}, pay : Payments]
    \cup [op : {"check", "capture", "book", "confirm", "giveup"},
          pay : Payments, event : Events \cup {NoEvent}]
    \cup {c \in [op : {"refund", "enter"}, pay : Payments,
                amount : 1..Amount, already : 0..Amount] : c.already + c.amount <= Amount}
    \cup [op : {"record", "handle"}, event : Events]
    \cup [op : {"note"}, event : Events, ok : BOOLEAN]

PaymentStatus == {"created", "authorized", "captured", "failed", "refunded", "partial_refund"}
WebhookStatus == {"pending", "processed", "failed", "duplicate"}

TypeOK ==
    /\ status \in [Payments -> PaymentStatus \cup {"none"}]
    /\ refund \in [Payments -> 0..Amount]
    /\ orderPaid \in BOOLEAN
    /\ gateway \in [Payments -> {"none", "created", "authorized", "captured"}]
    /\ returned \in [Payments -> 0..Amount]
    /\ sent \subseteq Events
    /\ webhook \in [Events -> WebhookStatus \cup {"none"}]
    /\ handled \in [Events -> 0..2]
    /\ call \in [Procs -> Call]

Init ==
    /\ status = [x \in Payments |-> "none"]
    /\ refund = [x \in Payments |-> 0]
    /\ orderPaid = FALSE
    /\ gateway = [x \in Payments |-> "none"]
    /\ returned = [x \in Payments |-> 0]
    /\ sent = {}
    /\ webhook = [e \in Events |-> "none"]
    /\ handled = [e \in Events |-> 0]
    /\ call = [p \in Procs |-> NoCall]

Serves(p, c) == call' = [call EXCEPT ![p] = c]

Row(x) == status[x] # "none"

SetStatus(x, s) == status' = [status EXCEPT ![x] = s]

-------------------------------------------------------------------------------
(* Razorpay and the customer                                               *)

Emit(e) == sent' = sent \cup {e}

\* The customer pays; the money is reserved.
Authorize(x) ==
    /\ gateway[x] = "created"
    /\ gateway' = [gateway EXCEPT ![x] = "authorized"]
    /\ Emit([type |-> "authorized", pay |-> x])
    /\ UNCHANGED <<rowVars, returned, webhookVars, call>>

\* An attempt to pay fails; the next one may succeed.
AttemptFails(x) ==
    /\ gateway[x] = "created"
    /\ Emit([type |-> "failed", pay |-> x])
    /\ UNCHANGED <<rowVars, gateway, returned, webhookVars, call>>

\* Razorpay captures on its own, as most accounts are set up.
AutoCapture(x) ==
    /\ gateway[x] = "authorized"
    /\ gateway' = [gateway EXCEPT ![x] = "captured"]
    /\ Emit([type |-> "captured", pay |-> x])
    /\ UNCHANGED <<rowVars, returned, webhookVars, call>>

-------------------------------------------------------------------------------
(* PaymentService.create                                                   *)

\* The order is unpaid and has no payment yet; one it has is returned.
CreateCheck(p) ==
    /\ call[p] = NoCall
    /\ ~orderPaid
    /\ \A x \in Payments : ~Row(x)
    /\ Serves(p, [op |-> "create"])
    /\ UNCHANGED <<rowVars, gatewayVars, webhookVars>>

CreateOrder(p, x) ==
    /\ call[p].op = "create"
    /\ gateway[x] = "none"
    /\ gateway' = [gateway EXCEPT ![x] = "created"]
    /\ Serves(p, [op |-> "insert", pay |-> x])
    /\ UNCHANGED <<rowVars, returned, sent, webhookVars>>

CreateRow(p) ==
    /\ call[p].op = "insert"
    /\ SetStatus(call[p].pay, "created")
    /\ Serves(p, NoCall)
    /\ UNCHANGED <<refund, orderPaid, gatewayVars, webhookVars>>

-------------------------------------------------------------------------------
(* verifyPaymentSignature                                                  *)

\* Mutation: the signature not looked at.
VerifyUnsigned(x) ==
    /\ Row(x)
    /\ SetStatus(x, "captured")
    /\ UNCHANGED <<refund, orderPaid, gatewayVars, webhookVars, call>>

\* A signature exists once the customer has paid.  The row is found by the
\* Razorpay order and set to authorized, whatever its status.
Verify(x) ==
    /\ Row(x)
    /\ gateway[x] \in {"authorized", "captured"}
    /\ SetStatus(x, "authorized")
    /\ UNCHANGED <<refund, orderPaid, gatewayVars, webhookVars, call>>

-------------------------------------------------------------------------------
(* capturePayment, for a request of its own or inside a webhook            *)

Proceed(p, op) == Serves(p, [call[p] EXCEPT !.op = op])

\* How a capture ends: the webhook it belongs to swallows its exception.
Finish(p) ==
    IF call[p].event = NoEvent
    THEN Serves(p, NoCall)
    ELSE Serves(p, [op |-> "note", event |-> call[p].event, ok |-> TRUE])

Capture(p, x) ==
    /\ call[p] = NoCall
    /\ Row(x)
    /\ Serves(p, [op |-> "check", pay |-> x, event |-> NoEvent])
    /\ UNCHANGED <<rowVars, gatewayVars, webhookVars>>

\* Mutation: what is not to be captured now is taken as captured before.
CheckTrusts(p) ==
    /\ call[p].op = "check"
    /\ IF status[call[p].pay] = "authorized" THEN Proceed(p, "capture") ELSE Proceed(p, "confirm")
    /\ UNCHANGED <<rowVars, gatewayVars, webhookVars>>

\* Not authorized is a ConflictException, which the catch clause turns into
\* a failed payment like any other exception.
CaptureCheck(p) ==
    /\ call[p].op = "check"
    /\ IF status[call[p].pay] = "authorized" THEN Proceed(p, "capture") ELSE Proceed(p, "giveup")
    /\ UNCHANGED <<rowVars, gatewayVars, webhookVars>>

\* The gateway captures what is authorized and refuses the rest.
CaptureGateway(p) ==
    /\ call[p].op = "capture"
    /\ LET x == call[p].pay
       IN  \/ /\ gateway[x] = "authorized"
              /\ gateway' = [gateway EXCEPT ![x] = "captured"]
              /\ Emit([type |-> "captured", pay |-> x])
              /\ Proceed(p, "book") \/ Proceed(p, "giveup")     \* the answer may be lost
              /\ UNCHANGED returned
           \/ /\ gateway[x] # "authorized"
              /\ Proceed(p, "giveup")
              /\ UNCHANGED gatewayVars
    /\ UNCHANGED <<rowVars, webhookVars>>

CaptureBook(p) ==
    /\ call[p].op = "book"
    /\ SetStatus(call[p].pay, "captured")
    /\ Proceed(p, "confirm")
    /\ UNCHANGED <<refund, orderPaid, gatewayVars, webhookVars>>

\* orderRepository.confirmPayment
CaptureConfirm(p) ==
    /\ call[p].op = "confirm"
    /\ orderPaid' = TRUE
    /\ Finish(p)
    /\ UNCHANGED <<status, refund, gatewayVars, webhookVars>>

\* The catch clause.
CaptureGiveUp(p) ==
    /\ call[p].op = "giveup"
    /\ SetStatus(call[p].pay, "failed")
    /\ Finish(p)
    /\ UNCHANGED <<refund, orderPaid, gatewayVars, webhookVars>>

-------------------------------------------------------------------------------
(* createRefund                                                            *)

\* Mutation: partial refunds can go on, with the whole amount.
RefundAll(p, x, n) ==
    /\ call[p] = NoCall
    /\ status[x] \in {"captured", "partial_refund"}
    /\ n <= Amount
    /\ Serves(p, [op |-> "refund", pay |-> x, amount |-> n, already |-> refund[x]])
    /\ UNCHANGED <<rowVars, gatewayVars, webhookVars>>

RefundCheck(p, x, n) ==
    /\ call[p] = NoCall
    /\ status[x] = "captured"
    /\ n <= Amount - refund[x]
    /\ Serves(p, [op |-> "refund", pay |-> x, amount |-> n, already |-> refund[x]])
    /\ UNCHANGED <<rowVars, gatewayVars, webhookVars>>

\* The gateway gives back no more than it has.  What it refuses is a bad
\* request, which RazorpayService answers with a made-up refund; any other
\* exception ends the request, whether the gateway had acted or not.
RefundGateway(p) ==
    /\ call[p].op = "refund"
    /\ LET x == call[p].pay
           total == returned[x] + call[p].amount
       IN  \/ /\ gateway[x] = "captured" /\ total <= Amount
              /\ returned' = [returned EXCEPT ![x] = total]
              /\ Emit([type |-> "refund", pay |-> x, amount |-> total])
              /\ Proceed(p, "enter") \/ Serves(p, NoCall)
              /\ UNCHANGED gateway
           \/ /\ ~(gateway[x] = "captured" /\ total <= Amount)
              /\ Proceed(p, "enter")
              /\ UNCHANGED gatewayVars
    /\ UNCHANGED <<rowVars, webhookVars>>

RefundStatus(total) == IF total >= Amount THEN "refunded" ELSE "partial_refund"

RefundEnter(p) ==
    /\ call[p].op = "enter"
    /\ LET x == call[p].pay
           total == call[p].already + call[p].amount
       IN  /\ SetStatus(x, RefundStatus(total))
           /\ refund' = [refund EXCEPT ![x] = total]
    /\ Serves(p, NoCall)
    /\ UNCHANGED <<orderPaid, gatewayVars, webhookVars>>

-------------------------------------------------------------------------------
(* processWebhook: an event arrives, for the first time or again           *)

\* Idempotency: an event with a record, whatever its status, is a duplicate.
Deliver(p, e) ==
    /\ call[p] = NoCall
    /\ e \in sent
    /\ IF webhook[e] = "none"
       THEN /\ Serves(p, [op |-> "record", event |-> e])
            /\ UNCHANGED webhook
       ELSE /\ webhook' = [webhook EXCEPT ![e] = "duplicate"]
            /\ UNCHANGED call
    /\ UNCHANGED <<rowVars, gatewayVars, handled>>

\* Mutation: no unique index on razorpay_event_id.
RecordAnyway(p) ==
    /\ call[p].op = "record"
    /\ webhook' = [webhook EXCEPT ![call[p].event] = "pending"]
    /\ Proceed(p, "handle")
    /\ UNCHANGED <<rowVars, gatewayVars, handled>>

\* razorpay_event_id is UNIQUE: the second insert of one event fails, and
\* the controller answers 200 to whatever failed.
Record(p) ==
    /\ call[p].op = "record"
    /\ LET e == call[p].event
       IN  IF webhook[e] = "none"
           THEN /\ webhook' = [webhook EXCEPT ![e] = "pending"]
                /\ Proceed(p, "handle")
           ELSE /\ Serves(p, NoCall)
                /\ UNCHANGED webhook
    /\ UNCHANGED <<rowVars, gatewayVars, handled>>

Note(p, isOk) == Serves(p, [op |-> "note", event |-> call[p].event, ok |-> isOk])

\* handleWebhookEvent: each event writes its status into the row; a capture
\* goes on to capturePayment to confirm the order.
Handle(p) ==
    /\ call[p].op = "handle"
    /\ LET e == call[p].event
           x == e.pay
       IN  /\ handled' = [handled EXCEPT ![e] = IF @ = 2 THEN 2 ELSE @ + 1]
           /\ \/ ~Row(x) /\ Note(p, FALSE) /\ UNCHANGED <<status, refund>>
              \/ /\ Row(x)
                 /\ e.type \in {"authorized", "failed"}
                 /\ SetStatus(x, e.type)
                 /\ Note(p, TRUE)
                 /\ UNCHANGED refund
              \/ /\ Row(x)
                 /\ e.type = "captured"
                 /\ SetStatus(x, "captured")
                 /\ Serves(p, [op |-> "check", pay |-> x, event |-> e])
                 /\ UNCHANGED refund
              \/ /\ Row(x)
                 /\ e.type = "refund"
                 /\ SetStatus(x, RefundStatus(e.amount))
                 /\ refund' = [refund EXCEPT ![x] = e.amount]
                 /\ Note(p, TRUE)
    /\ UNCHANGED <<orderPaid, gatewayVars, webhook>>

\* The record of the event is updated last.
HandleNote(p) ==
    /\ call[p].op = "note"
    /\ webhook' = [webhook EXCEPT ![call[p].event] =
                       IF call[p].ok THEN "processed" ELSE "failed"]
    /\ Serves(p, NoCall)
    /\ UNCHANGED <<rowVars, gatewayVars, handled>>

-------------------------------------------------------------------------------
\* A statement of the request fails, and the exception goes where the code
\* catches it: in capturePayment, in the handler of the event, or nowhere.
StatementFails(p) ==
    /\ \/ call[p].op \in {"check", "book", "confirm"} /\ Proceed(p, "giveup")
       \/ call[p].op = "giveup" /\ Finish(p)
       \/ call[p].op = "check" /\ call[p].event # NoEvent /\ Note(p, FALSE)
       \/ call[p].op = "handle" /\ Note(p, FALSE)
       \/ call[p].op = "note" /\ call[p].ok /\ Note(p, FALSE)
       \/ /\ \/ call[p].op \in {"create", "insert", "enter", "record"}
             \/ call[p].op = "note" /\ ~call[p].ok
          /\ Serves(p, NoCall)
    /\ UNCHANGED <<rowVars, gatewayVars, webhookVars>>

\* The process that serves the request stops.
Stop(p) ==
    /\ call[p] # NoCall
    /\ Serves(p, NoCall)
    /\ UNCHANGED <<rowVars, gatewayVars, webhookVars>>

-------------------------------------------------------------------------------
Environment == \E x \in Payments : Authorize(x) \/ AttemptFails(x) \/ AutoCapture(x)

Create(p) == CreateCheck(p) \/ CreateRow(p) \/ \E x \in Payments : CreateOrder(p, x)

Collect(p) ==
    \/ \E x \in Payments : Capture(p, x)
    \/ CaptureCheck(p) \/ CaptureGateway(p) \/ CaptureBook(p)
    \/ CaptureConfirm(p) \/ CaptureGiveUp(p)

Refund(p) ==
    \/ \E x \in Payments, n \in 1..Amount : RefundCheck(p, x, n)
    \/ RefundGateway(p) \/ RefundEnter(p)

Webhook(p) ==
    \/ \E e \in Events : Deliver(p, e)
    \/ Record(p) \/ Handle(p) \/ HandleNote(p)

Step(p) ==
    \/ Create(p) \/ Collect(p) \/ Refund(p) \/ Webhook(p)
    \/ StatementFails(p) \/ Stop(p)

Next ==
    \/ Environment
    \/ \E x \in Payments : Verify(x)
    \/ \E p \in Procs : Step(p)

Spec == Init /\ [][Next]_vars

\* One request at a time, nothing of ours fails and nothing stops.
Alone(p) == \A q \in Procs \ {p} : call[q] = NoCall

SerialNext ==
    \/ Environment
    \/ \E x \in Payments : Verify(x)
    \/ \E p \in Procs : Alone(p) /\ (Create(p) \/ Collect(p) \/ Refund(p) \/ Webhook(p))

SerialSpec == Init /\ [][SerialNext]_vars

-------------------------------------------------------------------------------
(* Properties                                                              *)

Settled == {"captured", "refunded", "partial_refund"}

\* "captured: Payment successfully captured (money received)": no order of
\* requests, events and failures books a payment as captured or refunded
\* before the gateway has the money.
BookedIsReceived == \A x \in Payments : status[x] \in Settled => gateway[x] = "captured"

\* The order is marked as paid only once the gateway has its money.
PaidIsReceived == orderPaid => \E x \in Payments : gateway[x] = "captured"

\* An event is handled once, however often and by however many processes at
\* once it is delivered.
HandledOnce == \A e \in Events : handled[e] <= 1

\* "This will call OrderRepository.confirmPayment which handles stock
\* conversion": an event of a capture that was processed has paid the order.
CapturedConfirms ==
    \A x \in Payments : webhook[[type |-> "captured", pay |-> x]] = "processed" => orderPaid
===============================================================================

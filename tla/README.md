# Verification of the BizNavigate backend

BizNavigate is a NestJS backend for small shops: it sells (products, orders,
payments, inventory), talks to customers (WhatsApp, Instagram, a chat widget,
campaigns, notifications) and lets an AI service and workflows answer them.
State lives in PostgreSQL (Prisma), work is queued in Redis (BullMQ), and the
AI is reached through Kafka. Several Node processes may run at once, and every
`await` lets the requests of one process interleave.

This directory holds TLA+ models of the parts in which orders of steps matter,
TLC configurations that check them on small instances, and proofs for every
instance. Paths below are relative to `src/src/features/`.

## 1. Inventory of the system

| Component | State | Operations | What makes it correct |
|---|---|---|---|
| Stock reservation (`orders/application/services/stock-reservation.service.ts`, the clean-up job) | `stock_quantity`, `reserved_stock`, `version`, `in_stock` of products and variants; `stock_reservations` | reserve with optimistic locking, convert to a sale, release, clean up what expired | no stock is promised twice; what expires comes back |
| Orders (`orders/`) | `orders`: number, status, payment status | checkout and create, confirm payment, cancel, status table, shipping | sold = paid; paid in time = sold; numbers are unique |
| Payments (`payments/`) | `payments`, `payment_webhooks`; the books of Razorpay | create, verify, capture, refund, webhooks | nothing is booked that was not received; an event is handled once |
| Campaigns (`campaigns/`) | `campaigns` with two counters, `campaign_recipients`, BullMQ jobs | send, work on a job, complete, update, delete | what counts as sent was sent; nobody is left out; it completes, and not before |
| Inventory levels (`inventory/`) | `inventory_levels`, `stock_movements`, `stock_alerts`, triggers | add, deduct, adjust, reserve, release, confirm, transfer, reorder settings | movements add up to the stock; alerts are there when due and only then |
| Products, WhatsApp catalogue (`products/`, `whatsapp/services/whatsapp-catalog.service.ts`) | product rows with SKU, prices, sync status | CRUD, import, synchronisation; `updateStock` changes the columns the reservations use | SKUs differ, a price to compare with is higher; nothing stays half synchronised |
| WhatsApp intake (`whatsapp/`) | leads, conversations, `lead_messages` | message and status webhooks, sending, hand-over to the AI | every message is stored once and asked about once |
| Staff inbox (`messages/`) | conversations, `conversation_messages` | open, reply, change, delete | the inbox shows the latest message |
| AI pipeline (`kafka/`, `orchestration/consumers/`) | Kafka offsets, handlers in memory | request, result | a result is handled, and again only after a stop |
| Workflow orchestration (`orchestration/core`, `actions`) | `workflow_executions`, context in memory | resolve, execute state by state, wait, fail | an execution ends; it sends no more than it may |
| Circuit breakers (`whatsapp/infrastructure`, `instagram/infrastructure`) | failures, successes, state per key, in memory | execute, success, failure, reset | it opens after failures and closes after successes |
| Notifications (`notifications/`) | rows with status, BullMQ jobs, preferences | send, queue, process, retry | what is "sent" was sent; a failed one is over |
| Notification templates (`notification-templates/`) | `notification_templates` | create, update, clone, bulk changes, preview | a template that was checked can be sent |
| Instagram, linked accounts (`instagram/`, `whatsapp/services/whatsapp-oauth.service.ts`) | `social_accounts`, contexts and handlers in memory | webhooks, replies, linking, renewal of tokens | a comment is answered once; tokens stay fresh |
| Chat widget (`chat-widget/`) | leads, conversations, messages | a visitor's message, its history | what is confirmed is stored and shown |
| Leads (`lead/`) | `leads`, duplicates, status history | create and compare, update, convert, delete | duplicates are found, a status is explained |
| Customers and reviews (`customers/`, `reviews/`) | `customers` with figures, `reviews` | create, count orders, score; review, report, publish | the figures belong together; what is reported is hidden |
| Categories (`categories/`) | a tree with level and path | create, rename, move, delete | it is a tree, and paths lead through it |
| Warehouses (`inventory/application/services/warehouse.service.ts`) | `warehouses` | open, change, switch, default, close | an update is kept |
| Lists (`findAll` of ten repositories) | none | a page and the total | who turns the pages misses nothing that stays as it is |
| Analytics (`analytics/`) | none | reports on orders, customers, stock | figures add up |
| Rate limits (`WhatsAppSenderService.rateLimit`) | last send time per business | wait | posts keep their distance |
| Conversation state, uploads, authentication, users, roles, tenants, businesses, subscriptions, common code | see section 6 | | |

How they interact: an order calls the stock reservation inside and outside of
its own transactions; a captured payment confirms the order; the clean-up job
competes with both. Inventory levels are a second account of stock that orders
do not touch. A campaign hands jobs to BullMQ, whose workers call WhatsApp and
write counters. A WhatsApp message becomes a Kafka request, its answer a
workflow execution, its actions new messages; Instagram and the chat widget take
the same way. The other services keep rows of their own, which they write in
several statements, often decided by what an earlier one read.

What is hard here: read-then-write without a lock or a check of what was read;
transactions that cover less than they seem to (statements that run outside of
the transaction opened around them); several commits in one request with errors
or stops in between; webhooks that repeat and overtake each other; jobs that
are tried again; counters compared with totals that were taken at another time.
`PROJECT.json` lists each hazard at its line.

## 2. Modules

| Module | Models | Correspondence |
|---|---|---|
| `StockReservation` | stock rows, reservations, clean-up worker, `updateStock` | a process is a request or a worker, `job` is what it has read; `Reserve` = `ReserveRead`, then `ReserveCommit` or `ReserveConflict`; `Convert`, `Release`, `Cleanup`, `Adjust` alike. A read is a step; the writes of a transaction and its COMMIT are one, since the first one locks the row |
| `StockLedger` | the promise: stock is free, held or sold | implemented by `StockReservation` (`ImplementsLedger`), free = received - held - sold |
| `OrderProcessing` | `OrderService`, `OrderRepositoryPrisma` | extends `StockReservation`: a request (`call`) is a chain of order statements around reservation actions of the same process. `Break` = an error at any statement |
| `PaymentFlow` | `PaymentService`, `PaymentWebhookService`, repository, Razorpay | one order with its payments; `call` is the request with what it has read; the gateway keeps its own books and sends its events in any order, any number of times |
| `CampaignDelivery` | `CampaignService`, `CampaignMessageProcessor`, BullMQ | one campaign; a row is (request, phone); `job[r].at` is the next statement of its worker |
| `InventoryLevels` | `InventoryService`, its repository, entities, triggers | one variant in several warehouses; `copy` is the entity in memory, `pc` the next statement |
| `WarehouseLedger` | the promise: stock is brought, taken out, or moved in one step | implemented by `InventoryLevels` for requests that keep apart |
| `CircuitBreaker` | both breakers | functions of the state of a circuit; who uses one enters it, and leaves it with success or failure, as steps of its own |
| `MessageIntake` | `WhatsAppService.handleMessageWebhook`, the controller, closing, the account | a handler (`handlers`) goes from statement to statement; `GiveUp` is any of them failing; the mark-as-read passes the circuit |
| `WorkflowExecution` | `KafkaConsumerService`, `AiResultConsumer`, `WorkflowOrchestrator`, `WorkflowResolver`, `WorkflowExecutor`, `SendMessageAction` | a consumer holds one result and walks through the states of its workflow; rows of executions stay behind |
| `MessagePipeline` | both in one process | extends `MessageIntake`, instantiates `WorkflowExecution`; `Answer` is the AI processor (external), `Crash` stops handlers, consumers and the circuit |
| `NotificationDelivery` | `NotificationService`, its processor, repository, BullMQ | senders and workers go through `sendImmediately`; `Stall` gives a job to a worker again |
| `ChatWidget` | `ChatWidgetService`, its gateway | `Serve` is `processMessage` statement by statement |
| `FrontOffice` | pipeline, notifications, widget | one of them moves; liveness of all three |
| `NotificationTemplates` | `TemplateService`, previews, the repository | an editor validates, then writes |
| `LeadDesk` | `LeadService` | a lead is created, and compared afterwards by a call nobody waits for |
| `StaffInbox` | `MessagesService` | find, insert the message, update the conversation |
| `OutboundMessages` | `sendMessage`, `handleStatusWebhook` | a post of the desk or of a workflow, its row, and statuses in any order |
| `InstagramDesk` | `InstagramService`, webhooks, AI results | items, contexts and handlers in memory, the shared circuit, stops |
| `CustomerDesk` | `CustomerService`, `ReviewsService` | `jobs` is what a request has read |
| `CategoryTree` | `CategoryService`, its repository | a move: look up, write, rewrite the descendants one by one |
| `ProductDesk` | `ProductService`, `WhatsAppCatalogService` | checks of SKU and prices, then the write; `syncing` and its end |
| `Listings` | the `findAll` methods | a reader turns the pages (`walk`) while rows change |
| `SalesReports`, `StockReports` | `BusinessKpisService`, `SalesAnalyticsService`, `CustomerAnalyticsService`, `InventoryAnalyticsService`, costs of `InventoryLevel` | a report is a row of stages, each with statements that read at one moment; what the database lacks fails them |
| `WarehouseDesk` | `WarehouseService`, its controller | read the entity, change it, write all of it |
| `AudienceDesk` | `AudienceSegmentationService` | count, sample and list, three moments |
| `SendPace` | `WhatsAppSenderService.rateLimit`, `formatPhoneNumber` | read the last time, wait, post |
| `AccountDesk` | the OAuth services, token refresh | linking looks for a row before it inserts; a day is a step of the clock |
| `MessageDesks` | templates, leads, inbox, posts, Instagram, pace, audience | the seven parts that prepare and record messages, and the inductive invariant of each |
| `RecordDesks` | customers, categories, products, lists, reports, warehouses, accounts | the eight parts that keep the books, and the inductive invariant of each |
| `Backoffice` | these fifteen | one of them moves |
| `MC*` | constants of the instances | |
| `OrderProcessing_proofs`, `PaymentFlow_proofs`, `CampaignDelivery_proofs`, `InventoryLevels_proofs`, `FrontOffice_proofs`, `MessageDesks_proofs`, `RecordDesks_proofs`, `Backoffice_proofs` | theorems (those of `StockReservation` are with the orders, those of `MessagePipeline` with `FrontOffice`) | section 5 |

Operators with the comment "Mutation:" are variants of the definition that
follows them, with a plausible mistake. Nothing uses them; `PROJECT.json` names the property that finds each.

Abstractions:

- Stock: an order has one tracked line (`order_id` is UNIQUE in
  `stock_reservations`, so an order with two never commits); the product form,
  which types a new quantity over the old one, is left out. Expiry is `Lapse`,
  at any time.
- Payments: a webhook with a wrong signature, the development mode without
  keys and the reports are left out; `order.paid` and `payment.captured` are
  one event, and so are `refund.created` and `refund.processed`.
  `markPaymentFailed` has no caller.
- Campaigns: a contact is its phone. A test recipient has no lead and takes the
  path of a refused row; a finished job forgets its attempts. The rate limit is in `SendPace`; statistics are left out. BullMQ gives a
  stalled job to a worker once more without counting an attempt.
- Inventory: damaged and in-transit quantities are never changed by the service
  and are left out; costs are in `StockReports`. Active alerts are counted up to two, which is
  what "duplicate" takes. The two movements of a transfer are inserted side by
  side. `Fail` leaves what was written, because no statement runs in the
  transaction opened around it.
- Messages: of a message only its sender and channel matter, of a workflow the
  graph of its states. A condition may come out either way. Batch requests and
  the record of prices and tokens of an AI answer are left out.
- Circuits: the waiting time passes by a step that clears `recent`.
- Templates, leads, customers, products: texts, names and media are left out; a
  text of a template is the set of its variables.
- Lists and reports: a row is what filters, orders and sums tell apart. Money
  is in whole units; rounding is left out.
- The parts of `FrontOffice` and of `Backoffice` share a process and a database
  but write no row in common (what one does to a row of another is an action of
  the module that owns the row). A property of one part therefore holds in all behaviours when it
  holds in those in which the others rest, and one run explores them side by side.

## 3. Runs

| Run | Instance | What it shows |
|---|---|---|
| `stock_exclusive` | 3 orders (1, 1, 2 pieces), stock 2, 2 requests + 1 cleaner, 2 deliveries, each order settled by one process at a time (two at once release twice: section 4) | types, no lost version, no oversell, stock = received - sold, and the refinement of `StockLedger` |
| `orders_settle` | 1 order of 1 piece, 3 requests + cleaner, errors anywhere | sold = paid, paid in time = sold, a settled reservation stays so; orders use stock as `StockReservation` allows |
| `orders_one` | 2 orders for the same stock, one request at a time, 1 delivery, errors inside | unique numbers; `reserved_stock` is what is held |
| `orders_live` | 2 orders, 1 request + cleaner, fairness | expired and cancelled orders give their stock back |
| `pay_money` | 1 payment of amount 1, 2 handlers, lost answers, failing statements, stops | books and order never ahead of the gateway; events handled once |
| `pay_confirm` (violated) | the same, one request at a time, without failures | the captured event never marks the order as paid |
| `camp_faults` | 1 phone, 2 requests to send, 1 editor, 2 attempts, all faults | `sent_count` is backed by deliveries; deliveries are bounded by attempts |
| `camp_steady` | 3 phones, 1 request, batches of 2, nothing fails, fairness | everybody once, completion in the end and not before |
| `inv_apart` | 2 warehouses, 2 requests on different ones, quantities 1 and 2 | audit trail, alerts, refinement of `WarehouseLedger`; nothing fails |
| `inv_two` | 1 warehouse, 2 requests, all interleavings and failures | quantities stay non-negative in rows and copies; a short level has an alert |
| `msg_flow` | 1 message with 2 deliveries, 2 handlers, 1 consumer, 1 stop; or 1 notification with 3 attempts; or 2 messages of 1 visitor with 2 handlers; errors anywhere, fairness | a message is asked about once, duplicates of leads are as many as overlapping handlers, replies and executions are bounded, a running execution is worked on, what is reported as sent or stored is so, and all work ends unless a step failed |
| `services` | each part of `Backoffice`, mostly with 2 requests at once | `TypeOK`; `MessagesAreAccounted` and `RecordsAgree` are the properties of the parts, one conjunct each |

Why the bounds are enough to meet the interesting cases:

- Stock 2 with lines of 1, 1 and 2 pieces: two small orders fit, a small and
  the large one do not, so both success and refusal race. `MaxAdjusts` bounds
  the calls of the stock endpoint, each of which is one more version.
- Three requests and a cleaner on one order: two confirmations and a
  cancellation (or the other way round) meet the expiry.
- One payment with two handlers has every pair of (request, event) and
  (event, the same event). More payments differ only in that an order has
  more than one row, which the theorems cover.
- Two attempts are the least with a retry and an end; two requests to send one
  contact are the least in which counters are shared; batches of 2 with 3
  contacts make one full batch and one that is not.
- `NewStatuses` are the statuses an update of a campaign asks for: with `draft`
  a campaign can be sent again. `Cap` bounds what may still be added to a level or to the sum of the
  movements. Reorder points 0 and 2 around stock 0..3 give every alert.

- `msg_flow`: one message delivered twice to two handlers meets itself at every
  statement, and one threshold of each kind opens, half-opens and closes the
  circuit, which the call for an earlier message may already have opened. The workflow `Browsing` has a loop, a wait, a kind the executor does
  not know and a state that does not exist, with three visits allowed: enough for the loop and for what follows it. Three attempts are those of the code.
- `services`: two requests on one row race at every statement; three
  categories of two levels are the least for a cycle and for a depth that is
  refused; the orders of `SomeHistories` reach over statuses and months; each
  list is followed with a filter of its own. The bounds on requests (`MaxEdits`, `MaxTasks`,
  `MaxErrands`, `MaxTicks`, ...) are one or two above what the races need.

The properties in `MessagesAreAccounted`, `RecordsAgree` and
`AnswersAreAccounted` say what the code achieves, and name what breaks it: a
history variable (`torn`, `raced`, `disturbed`, `unsure`, `twins`, ...) marks the
rows that overlapping requests or a failing statement touched, and the property
is about all others. Of those few parts whose races do no harm it holds of all.

Symmetry is used for requests, warehouses and small orders that the instance
treats alike, and only in runs without liveness. Deadlock is not checked where
the system may really come to rest: every order settled, every event handled,
every job done, every bound on requests reached. In the inventory runs a request can always start, and it is. Transfers and failures
are explored in different runs: what a transfer leaves that fails between its
two rows is told in section 4.

Fairness. `orders_live`: the scheduler registers a repeatable job when the
module starts (`ReservationCleanupScheduler.onModuleInit`), so scanning is
weakly fair; what a scan found is released under strong fairness, as an error
or a stop may interrupt it but the next run finds it again. Time passes.
`camp_steady`: Node goes on with a request it serves and BullMQ with a job it
holds: weak fairness of each, in a specification without failures, because
the code has nothing that would resume what failed. `msg_flow`: Node goes on
with a handler that runs, the consumer takes the next result when it has
finished one, BullMQ works on a job that waits, and the gateway serves a message
it has taken: weak fairness of each. Here errors do happen, and the property
says what is excused by them. No fairness is assumed of customers, visitors, the
staff, the platforms, the payment gateway or the AI processor.

## 4. Disagreements between text and code

One disagreement is listed as a finding, with a run that is violated:
`pay_confirm`. Modelling showed more; each was seen in a trace of the model when
its property was stated. Those properties are not kept, since the code does not
promise what they say; what is kept is the weaker property that names the
exception.

Stock, orders, payments, campaigns, inventory:

- `releaseReservation`, `convertReservationToSale` and the clean-up read an
  active reservation and then decrement `reserved_stock` without another look at
  it (`stock-reservation.service.ts:263`), so two of them at once decrement
  twice, against the comment "Optimistic locking to prevent overselling" (`:9`).
- `executeStockTransaction` opens a transaction, but the statements of the
  repository run on `this.prisma` (`inventory.repository.prisma.ts:388`): a level
  can change without its movement, against "Ensures atomic updates across
  inventory_levels and stock_movements" (`:382`). `acknowledgeAlert` always throws and
  `checkAndResolveAlerts` is empty.
- `executeReservation` writes `reserved_stock` absolutely under a version that
  releases and sales do not change, so it can undo their decrement
  (`stock-reservation.service.ts:142`). It errs upwards: stock is lost to
  sale, never sold twice, which is why `NoOversell` survives it.
- `updateStock` ignores what is reserved; a later sale makes the stock negative
  (`product.repository.prisma.ts:310`). `releaseReservation` sets `in_stock`
  without a look at the stock (`stock-reservation.service.ts:272`).
- Two checkouts at once get one order number (`order.repository.prisma.ts:484`).
- A payment that comes after the expiry marks the order as paid although its
  stock may be gone (`order.repository.prisma.ts:344`).
- `confirmPayment` and `updateShipping` leave final statuses; the status table
  leads to shipped without payment (`order.service.ts:206`, `:383`).
- `payment_expires_at` is never read: an unpaid order stays pending
  (`order.repository.prisma.ts:79`).
- Two creations make two payments of an order (`payment.service.ts:53`); the
  catch clause of a capture sets captured payments to failed (`:182`).
- An event whose first delivery failed counts as a duplicate later
  (`payment-webhook.service.ts:57`); a refund the gateway refuses is booked as
  made (`razorpay.service.ts:258`).
- A lead that joins between creation and sending makes a campaign complete
  early (`campaign-message.processor.ts:243`); a recipient without a lead stops
  the request (`campaign.service.ts:298`); a phone that is lead and customer
  counts twice, and the campaign never completes
  (`audience-segmentation.service.ts:363`); deletion and sending do not exclude
  each other, nor do two sendings (`campaign.service.ts:217`, `:242`).
- Two writes of a level at once lose one (`inventory.repository.prisma.ts:220`);
  a transfer can end half done (`inventory.service.ts:523`); alerts are
  duplicated (`:663`) and stay when stock came back in between (`:671`); only
  `addStock` respects the maximum (`:529`); settings for a warehouse without a
  level end in an error (`:619`).
- `deductStock` and `adjustStock` set the value to available x average cost and
  forget what is reserved (`inventory-level.entity.ts:120`), so a later receipt
  averages over too little; a receipt without a unit cost adds no value. The
  summary does not count empty shelves as low, the analytics do.
- Two requests write all columns of a warehouse; `updateDetails` ignores
  `isDefault` and `isActive`, so that switching and making one the default
  change nothing while the answer is "Default warehouse set successfully"
  (`warehouse.controller.ts:165`).
- Calls that overlap (the worker runs ten) do not keep the "minimum delay
  between messages" (`whatsapp-sender.service.ts:233`), and a ten-digit number that
  begins with 91 is posted without a country code. Counts of an audience ignore
  tags and the days since the last order, and count a phone twice
  (`audience-segmentation.service.ts:307`); a segment with filters of leads takes every customer.

Messages:

- The webhook of messages takes the response object and never answers, so the
  platform delivers again (`whatsapp.controller.ts`, `handleWebhook`). Two first
  messages at once make two leads (`whatsapp.service.ts:201`); marking as read
  throws before the AI is asked (`:300`), and the next delivery is taken for a duplicate.
- The orchestrator looks for a recent message of a "customer" where the intake
  stores "lead". `eachMessage` swallows all errors while
  `ai-result-consumer.service.ts:41` says "Re-throw to ensure Kafka consumer knows
  it failed". A workflow that ends on the last state it may visit fails; one that waits is never
  resumed; `parallel` throws; an update that fails leaves an execution "running".
- A message of the desk is stored if the answer has a `messageId`, which the
  platform's answers do not have (`whatsapp.service.ts:485`). Late statuses
  overwrite later ones, and one that comes before the row is lost (`:422`).
- The inbox sends nothing; a read may overwrite "replied", and two replies
  leave an older one as the last (`messages.service.ts:178`).
- Notifications: `scheduled_at` is never read; an urgent one that fails stays
  queued; the late write of "queued" covers "sent" (`notification.service.ts:242`);
  `processRetryFailed` is never scheduled; only e-mail has a provider.
- Templates: `templates.controller.ts:298` passes a text as `created_by`, so that
  a clone always fails; the routes of `notifications/` write without
  validation; two updates, each valid, can make an invalid template.
- Chat widget: the "last 50 messages" are the first 50; a message that is
  stored and could not be published is reported as failed.
- Instagram: one context per lead, which the next message replaces and a reply
  deletes (`instagram.service.ts:409`); deliveries are not compared; a call that
  takes too long counts as failed though the reply may be out.

Records:

- Two callbacks at once insert two accounts; connecting by form always inserts,
  and records 60 days for a token of any age
  (`whatsapp-oauth.service.ts:128`); WhatsApp tokens are renewed by no job.
- A count of an order may be lost (`customer.service.ts:346`), as nobody waits for
  it; reviews are verified for a status no order has.
- A rename leaves paths stale; a move to itself is not refused; the limit of the
  depth ignores what is below the moved category; two moves can make a cycle
  (`category.service.ts:258`).
- `UpdateProductDto` inherits initialisers, so that an update without them sets
  `is_active` and others; an import does not compare prices; two products can get one SKU
  (`product.service.ts:504`); products stay "syncing" after a stop
  (`whatsapp-catalog.service.ts:129`).
- A status of a lead and its history are two writes; a lead may be updated after
  its deletion; a conversion leaves no history.
- Raw SQL names what `schema.prisma` does not have (`products.product_name`,
  `order_items.price`, `customers.customer_name`, the table
  `inventory_movements`), so several reports always fail; in the RFM segments one
  branch shadows two others; a cohort is whoever ordered in the month, not who
  did for the first time (`customer-analytics.service.ts:302`).
- Pages are offsets and sort keys not unique: rows that come or go shift what
  the next page shows; a filter by date needs both ends
  (`inventory.repository.prisma.ts:299`).

Hazards with no property, because the code makes no promise that a property
could state, are listed with the reason in `PROJECT.json` or above: the flag
`in_stock` (`stock-reservation.service.ts:198`), decrements under a reservation
(`product.repository.prisma.ts:310`), the status that is not checked again
(`order.service.ts:161`), the deadline that is never read
(`order.repository.prisma.ts:79`), two connections held by one request
(`:411`), a second payment of an order (`payment.service.ts:53`), an event whose first
handling failed (`payment-webhook.service.ts:74`).

## 5. Proofs

Reservations of stock (`OrderProcessing_proofs`), from `OrdersAssumption`,
`ProcsAssumption` and `StockAssumption`:

- `TypeCorrect`: `Spec => []TypeOK`. `TypeOK` is inductive.
- `VersionsCountCommits`: `Spec => []VersionCountsCommits`. Alone it is not
  inductive: a second checkout of the same order could commit. `VersionInv` adds
  that a checkout whose version is still current has no reservation yet
  (`ReservesInFlight`) and that only what was made is settled
  (`SettledWasMade`).
- `NoOverselling`: under `ExclusiveSpec` with stock added only,
  `[]NoOversell`. `NoOversellInv` adds what a process knows while it settles
  (`SettledIsActive`), how rows and reservations relate (`RowsGood`) and, the
  heart of it, that a read under a current version is still good although
  releases and sales went on (`ReadsGood`): they move both sides of the check
  the same way.
- `ReservationImplementsLedger`: the same invariant makes every step a step of
  `StockLedger` or a stutter. Only the commit of a reservation and of a release
  change what is free.
- `StockOnHandIsUnsold`: under `ExclusiveSpec`, withdrawals by hand included,
  `[]StockIsUnsold`: `stock_quantity` is what was received less what was sold.

The sums of quantities are cardinalities of a set of pieces (`Pieces`), so the
lemmas `PiecesAdd` and `PiecesRemove` replace an induction.

`PaymentFlow_proofs`, from `AmountAssumption`, for any set of payments and
handlers:

- `TypeCorrect`: no refund in the books exceeds the payment. The bound is in
  the type of the call: what was read plus what is asked for.
- `BookedMoneyIsReceived`, `PaidOrderIsReceived`: `MoneyInv` adds that events
  sent and calls in flight are backed by the gateway, whose captures are never
  undone (`CapturedStays`).
- `EventsHandledOnce`: `EventInv` adds that a handler at work on an event owns
  its record and is the only one, and that an event without a record was never
  handled.

Orders (`OrderProcessing_proofs`), from the same and
`TargetsAssumption` (an update asks for a status that exists):

- `OrderTypeCorrect`, `SoldOnlyForMoney`, `PaidInTimeGetsStock` and
  `SettlementIsFinal`: `OrderSpec => []` of `OrderTypeOK`, `SoldIsPaid`,
  `PaidInTimeIsSold` and `SettledIsOver`. They rest on one inductive invariant,
  `OrderInv`, as none of them holds without the others: it adds `VersionInv`,
  that the reservation job of a process is the one its request asked for
  (`JobsServeCalls`), that a request names an order that exists and that an
  order came with its reservation (`CallsKnowOrders`, `OrdersHaveReservations`),
  and that whatever was released was due or went through cancel
  (`ReleasedForReason`).
- `OrdersImplementReservation`: `OrderSpec => ImplementsReservation`, so the
  theorems about `Spec` hold of the orders; `OrderVersionsCountCommits` is the
  corollary for the optimistic lock.
- `OrderNumbersAreUnique`, `ReservedStockIsHeld`: under `OneByOneSpec`, where
  requests come one after the other but may break off anywhere.
  `OneByOneInv` adds that one process works at most (`Alone`), that the next
  number is above all that were given (`NumbersCounted`), and that what a
  checkout has read is still so (`ReservesCurrent`).

`CampaignDelivery_proofs`, from `CampaignAssumption` (finitely many phones and
requests, at least one attempt, batches of at least one):

- `TypeCorrect`: a job has no more attempts behind it than it may.
- `DeliveriesAreBounded`, `SentCountIsDelivered`: `DeliveryInv` adds that a job
  that writes a success has just sent (`WritesFollowSend`), that deliveries are
  bounded by the attempts, the stall and the one under way (`Sendings`), and
  the balance `sentCount + |Uncounted| <= Sum(delivered)`. `Sum` is the
  cardinality of a set of pairs, as an induction over the recipients is out of
  reach; `SumAdd` is what an increment does to it.
- `SteadyMessagesOnce`, `CompletedMeansProcessed`: of `SteadySpec`, where
  nothing fails. The second takes one request to send as its assumption:
  with two, TLC finds that one contact counts twice and completes the campaign early.
  `OnceInv` and `CompletionInv` say what the counters have counted.

`InventoryLevels_proofs`, from the assumptions on quantities and reorder points:

- `TypeCorrect`, `ShortStockIsAlerted`: `LevelInv` adds what a request at each
  statement knows of its copy (`Knows`), which is why no write is negative
  although the copy may be old.
- `AlertsAreDue`, `MovementsMatchStock`, `LevelsImplementLedger` assume that
  requests work on different warehouses (`Apart`), as their runs do: two on one
  lose writes (section 4). `ApartInv` adds that what a request has read is what
  the row holds; `TrailInv` what is written and not yet recorded. The
  movements also assume that nothing fails, for a failure leaves a level without its movement.

The pipeline (`FrontOffice_proofs`), from `PipelineAssumption` (finitely many messages,
handlers and consumers; values that stand for nothing are not rows):

- `PipelineTypeCorrect`, `AskedAtMostOnce`, `DuplicatesNeedConcurrency`,
  `RepliesStayBounded`, `RunningHasConsumer`: `Spec => []` of `TypeOK`,
  `AskedOnce`, `DuplicatesAreConcurrent`, `RepliesAreBounded` and
  `RunningIsWorkedOn`. `PipelineInv` joins three arguments. `IntakeInv`: a
  message is asked about only by the handler whose insert won its unique id, so
  a message that is being asked about was not asked about yet. `DuplicatesInv`:
  leads of a phone and handlers about to create one are together no more than
  were ever at work at once, because a handler that goes to create one saw
  none; the same for conversations. `FlowInv`: a result is executed once and
  once more for each stop that met it, a consumer has sent no more than the
  states it has visited, and what shows as running is worked on or was left.

`FrontOffice` (`FrontOffice_proofs`), from `FrontAssumption` too:

- `PipelineKeepsItsWord`: the four properties above hold under `FrontSpec`.
- `FrontTypeCorrect`, `AnswersStayAccounted`: `FrontSpec => []` of `FrontTypeOK`
  and `AnswersAreAccounted`. `NoteInv` and `WidgetInv` are the invariants of
  the notifications and of the widget. `NoteInv` says who holds a notification
  (`HandsInv`), that its row counts no more retries, and the provider no more
  deliveries, than the attempts that are over, the stall and the one under way
  (`TriesInv`), and that an event has a delivery of its own (`BackedInv`).
  `WidgetInv` says that what a handler has found belongs to its visitor
  (`ServingInv`), that a message is served by one handler (`ConfirmedInv`), and
  that without overlap a visitor has one lead and one open conversation
  (`SingleInv`). That a failed notification is over assumes
  `Attempts <= MaxRetries`: BullMQ and the rows both say 3
  (`notifications/application/services/notification.service.ts:234`,
  `notifications/infrastructure/notification.repository.prisma.ts:46`); with
  more attempts than retries it would be false.

The services (`MessageDesks_proofs`, `RecordDesks_proofs`, `Backoffice_proofs`),
from `MessageAssumption` and `RecordAssumption` (values that stand for nothing are
no rows; leads, categories, orders, shelves and the tables of an audience are
finite; quantities are natural numbers; a patch names fields of the DTO and has
values of their types; an item of Instagram is a comment or a direct message; a
token is renewed before its end):

- `ServicesKeepTheirWord`: `Spec => []MessagesAreAccounted`. As one part moves,
  `BackInv` has one inductive invariant for each of the fifteen. Those of this
  theorem are in `MessageDesks`:
  - `TmplInv`: what an editor has validated, and nobody overwrote since, is
    valid together with the row it is written over.
  - `LeadInv`: an agent writes to a lead that is there and records the status
    he set. The proof showed a mistake of the model: a search may leave out a
    duplicate that later is one of few enough. The leads of such a search are now
    `crowded`, and excused like those of a failed insert; the instance of
    `services`, with two leads, never meets it.
  - `InboxInv`: until the one clerk who writes to a conversation is done, it is
    listed with the message before, or with the one that opens it (`LastIsRight`).
  - `OutInv`: a row that was there before any notice has noted each of them.
  - `IgInv`: a lead of a comment is of this comment alone (`LeadFits`); each
    asking of the AI is good for one reply, waiting, under way or sent, and
    each stop for one more (`ReplyDue`); a lead whose messages did not cross is
    at one place only, and with its context (`OnePlace`).
  - `PaceInv`: one call waits for a business, and until its message is apart
    from the last. `AudInv`: what was counted and listed before anything
    changed is still so, and finite sets are counted by their parts.

- `RecordsAreKept`: `Spec => []RecordsAgree`, by the invariants in `RecordDesks`:
  - `HouseInv`: a request that met no other is about to write what the row holds
    with its change in it, and no request ever changes the two switches.
  - `ProdInv`: two products that have one SKU, or are about to, are `twins`
    already (`Claims` counts the errands too); what an update that is alone will
    make of the prices makes sense; a batch that is being written, and what is
    left of it, is on sale.
  - `AcctInv`: a token was missed as often as it has been due (`RunsMissed`), so
    that it is renewed within the days it has left; a request that found no
    number and overlaps no other is the first of a callback.
  - `CustInv`: the figures of a customer are those of some set of his orders
    (`CountedAs`), and of all of them while no two counts overlap. That an
    order counted adds its amount is `AddUpMore`.
  - `TreeInv`: the path of a category continues that of its parent, except where
    a move has still to write it (`Pending`); those are children of what was
    written already, and no ancestor of it awaits its path (`Awaiting`). From
    that a move under one's own descendant would show in the paths, which is
    what the code compares, and a tree whose levels fall towards the parents has
    no cycle.
  - `ListInv`: what was on the list all the time and is not yet shown has at
    least as many rows before it as the pages read so far hold (`PagesFit`); a
    row shown is one of the `limit` with that many before them. By cursor, what was
    shown is what does not come after the last row (`CursorFits`). Both rest on the counting of
    the rows before one (`Precedes`), by which the page is defined.
  - `StockInv`: the value of a shelf that nobody issued from is its stock at
    average cost; what a report has read is what the shelves hold, as long as
    nothing stirred them. The totals per warehouse and per product are sums of
    one table in two orders (`SumByParts`).
  - `SaleInv`: what a report has not read yet, it will read. Each statement
    reads one moment, so that figures made of one statement add up: those of the
    days, of the statuses and of the customers to those of the orders (`SumByParts`).
- `ServicesKeepTheirTypes`: `Spec => []TypeOK`, by the typed parts of the same
  invariants (`TmplTyped`, `LeadTyped`, `ThreadTyped`, `PostTyped`, `IgLinked`,
  `CustTyped`, `TreeTyped`, `ProdTyped`, `ListTyped`).

The reports, and the figures of a customer, are sums over sets (the lemmas are in
`RecordDesks_proofs`), which the
community module computes by recursion. The induction theorems of the library
cannot be used here, as they take an operator, so `OneByOne` states for sets what
is needed of them: a family of subsets that has the empty set, and with a set each
that has one element more, has the whole set (by a least counterexample). From it
and the well-foundedness of numbers the recursion is shown to have exactly one
solution (`IteratesExists`, `IteratesAgree`) and not to depend on the order of
the elements (`AnyIsFirst`); `SumNone`, `SumInsert`, `SumOfPart`, `SumOfBoth` and
`SumByParts` are what the theorems use.

TLC checked `PipelineInv` and `FrontInv` as invariants on `msg_flow` and on
larger instances (two notifications, two callers, three messages of the widget)
before they were proved, `BackInv` on `services`, and the others in the same way.

Only model-checked: liveness (`orders_live`, `camp_steady`, `msg_flow`), which
needs ENABLED and is out of the prover's reach. Every invariant of a run that
passes is a theorem.

## 6. Not modelled

`PROJECT.json` gives a reason for each component, and for those that are
modelled in part what is left out. In short:

- `conversation-state.service.ts` is injected and never called; uploads are
  commented out; no code loads `utils/tokenBucket.lua`.
- Authentication, users, roles, tenants, businesses and subscriptions change
  single rows in single statements, and are about formats.
- Variants and slugs of products, insights and publishing on Instagram, scores
  and follow-ups of leads, downloads of media: calls or fields nothing else depends on.
- Validation of request bodies is taken to do what its decorators say, and
  controllers to hand over what they got, but where a model names them.
- The pool of database connections is not modelled (a request that waits for
  one in vain ends as `Break` and `Fail` do), nor is time, but in `SendPace` and
  `AccountDesk`: expiry and retries happen at any moment.

PostgreSQL is taken to run single statements atomically and to lock rows that a
transaction has written; BullMQ not to lose jobs; Kafka to keep what was
published until its offset is committed.

## 7. Plan

1. Done: stock, orders, payments, campaigns, inventory levels; proofs about
   stock and payments; the messages from webhook to reply; notifications, the
   chat widget and the fifteen parts of the back office.
2. Done: proofs about orders and their refinement, campaigns, inventory levels
   and theirs, the pipeline, notifications, the chat widget and the fifteen
   services.
3. Left: what section 6 lists, of which the follow-ups of leads and the insights
   of Instagram would be the next to model.

Runs are few and carry several properties each; new modules share a run with
those they are composed with.

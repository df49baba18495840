# Verification of the ISP CRM

TLA+ models of the back end of this repository: the life of a subscription, payments,
invoices, customer accounts and routers, and the two ways the platform talks to a
router. TLC configurations check them on small instances, and TLAPS checks theorems
about them for every size.

## The system

An internet provider's back office. A NestJS API (`apps/api`) and a BullMQ worker
(`apps/worker`) share one PostgreSQL database through Prisma; FreeRADIUS reads
the `radcheck`, `radreply` and `nas` tables of that database to admit PPPoE
subscribers and to know the routers; MikroTik routers hold the live sessions, accept
RADIUS CoA and Disconnect requests on UDP 3799, answer commands on their API port, and
may dial in to the platform's SSTP server. Several API requests, webhooks and jobs
work on one customer at the same time. Nearly every handler has the same form: read
rows outside of a transaction, validate what was read, open a READ COMMITTED
transaction, write absolute values computed from what was read, and after the
commit hand a job to the CoA queue and return.

| Component | State | Operations | What makes it correct | Module |
|---|---|---|---|---|
| subscription lifecycle (`subscriptions.service.ts`, `subscription-fsm.ts`) | `subscriptions` rows (status, end date, plan), `Customer.status` | create, activate, renew, upgrade/downgrade, suspend, reactivate, expire, cancel | only allowed transitions; access only with a live subscription; a billed renewal gives a full period | `SubscriptionLifecycle` |
| automation (`subscription-automation.service.ts`) and billing worker (`billing.processor.ts`, `main.ts`) | the same rows; a 60 s timer | expiry scan, expireSubscription, payment renewal | overdue subscriptions end, others do not; renewal is idempotent | `SubscriptionLifecycle`, `PaymentSettlement` |
| CoA queue, CoA worker, RADIUS client (`radius-coa*.ts`) | BullMQ queue `RADIUS_COA`, a UDP socket, `radacct` | queueCoaJob, processRadiusCoaJob (3 attempts, NAK fallback), sendUdpWithRetry | the session the request was made for ends, none opened since | `CoaDelivery` |
| FreeRADIUS | `radcheck`, `radreply`, `radacct` | Access-Request, accounting | the password is accepted only for entitled customers, with a speed limit | beside the services |
| payments | `payments`, `invoices.paidAmount` and `status`, the gateway | createPaymentIntent, verify (browser callback and webhook), recordPayment, refund | a gateway payment counts once; paidAmount agrees with the payments | `PaymentSettlement`, `GatewayOnce` |
| invoices | `invoices`, numbers, an advisory lock per event | create, createSubscriptionInvoice, cancel | unique numbers that never get stuck, one invoice per event, a header that agrees with its lines | `InvoiceLedger` |
| billing arithmetic, dates | none | line items, totals and tax, end dates | rounding, month ends | `BillingMath`, `BillingCalendar`, `SubscriptionFsm` |
| customers | `customers`, `radcheck`, `radreply` | create, update, updateStatus, resetMac, overrideSpeed | the names, password and device a customer has are those that log in | `CustomerAccounts` |
| routers and SSTP | `routers`, `nas`, the chap-secrets file | register, update, delete, rewrite on start | FreeRADIUS and the dial-in file know the routers of the table | `RouterFleet` |
| RouterOS client (`routeros-binary.client.ts`) | a cached connection per router, its queue and timers | executeCommands, connect, idle timer, shutdown | answers reach who asked; one connection; nothing waits for ever | `RouterSession` |
| router health, auth, users, tenants, plans, tickets, audit, health, PDF, web, scripts | own rows or none | CRUD, rendering | no protocol between actors | not modelled, see below |

What is hard here: the read outside of the transaction is stale by the time the
transaction writes; READ COMMITTED lets a transaction count rows another one is
about to end; the scan decides for a batch and acts row by row; database, queue,
router and file change in separate steps and the process may die between them; the
gateway calls twice; datagrams are lost and late; answers on a connection carry no
tag; jobs are retried, run twice or are lost. `PROJECT.json` lists each of these under
"hazards", at its line, with the property that covers it or the reason why none does.

## Modules

* `SubscriptionFsm`: the transition matrix and date rules of `packages/shared`.
* `SubscriptionLifecycle`: all handlers of the subscription services on the
  subscriptions of one customer. `Admission` is what it promises about who may dial in,
  and `SubscriptionLifecycle!AdmitsAsPromised` says that it implements that.
* `PaymentSettlement`: the handlers that settle, refund, cancel and renew on the
  invoices of one customer. `GatewayOnce` is what it promises about a payment at the
  gateway, and `PaymentSettlement!SettlesOnce` says that it implements that.
* `BillingMath`, `InvoiceLedger`, `BillingCalendar`: the arithmetic, the invoices that
  are written with it, and renewals that follow each other.
* `CustomerAccounts`, `RouterFleet`: what the services leave for FreeRADIUS and the
  dial-in server about customers and about routers.
* `CoaDelivery`, `RouterSession`: the paths to a router, by CoA and by API.
* `...Proofs`: the theorems about the module in their name.
* `MCLifecycle`, `MCPayments`, `MCDelivery`, `MCBackOffice`, `MCInvoiceGst`: values of
  constants, symmetries, and the components that are checked in one run.

### SubscriptionLifecycle

| Variable | In the code |
|---|---|
| `sub` | rows of `subscriptions` of one customer (status, `endDate`, plan) |
| `customer` | `Customer.status` |
| `access` | `valid`: `radcheck` holds the real password (not `SUSPENDED_...`); `rate`: `Mikrotik-Rate-Limit` in `radreply` |
| `recent` | a RENEW history row younger than 60 s whose invoice is live |
| `req` | for each request or job under way: its program counter, what it read and what it will write |
| `jobs` | the CoA queue |
| `session` | the PPPoE session on the router and its rate |
| `now` | the date |

Each handler is `...Read` (read and validate), where its transaction reads other
rows a `Begin...` (statements that take row locks and read), `Commit...` (all
writes) and `Enqueue`. Row locks are derived: a row is held while some request is
"open" on it (`RowHeld`), the customer row while a create is
open (`CustomerHeld`). A request is asked only for operations in its `Duty`.

What is abstracted:

* One customer. No transaction of these services touches two customers.
* History, audit, notification and invoice rows are write-only for this component
  and left out; of the invoice only what `renew` looks at is kept (`recent`).
  Plans have a price, so that every renewal is billed.
* A transaction is one step, at its commit, unless it reads rows whose change
  would alter what it writes. PostgreSQL's deadlock victims and unique-constraint
  failures roll back: `Fail` in the runs with `Faulty = TRUE`.
* The base and the realm user name have the same rows. That a stale
  `deleteMany` leaves duplicate `radcheck` rows is not modelled; every transaction
  that ends a subscription deletes them after it has locked the row of the
  activation that wrote them.
* Batch limits (250 in the API, 200 in the worker) are not modelled; the scan takes
  its rows in any order. The API's and the worker's scan are the same action.
* The worker sends its Disconnect directly and swallows the failure: an
  `Enqueue` that is delivered at once, or lost.
* Upgrade, downgrade and changePlan do the same to this state: `changePlan`.
* Jobs with the same content merge. Job attempts and back-off are not counted:
  `Redeliver` stands for a job that runs again, `GiveUp` for the third time-out and
  for a Disconnect the router refuses: both leave the session as it was.
* create is modelled for the statuses the API's schema is used with, PENDING and
  ACTIVE, and starts today: a start date of the caller's choice is left out, as are the
  billing cycle and validity that a caller may give `renew` instead of the subscription's. The initial state is what `CustomersService.create` leaves with a plan.
* `CustomersService.update`/`updateStatus` and the payment services also write these
  rows. What is shown of access here is about the subscription services among
  themselves: `recordPayment`, for one, gives a customer the password back without
  a look at the subscription.

### Admission

Four variables: the set of live subscriptions, whether the customer is ACTIVE, the rate at
which it is let in (or none), the rate of its session (or none). `Admit` gives the right along
with a live subscription to a customer who is then ACTIVE; `TurnAway` ends a subscription and
takes the right away; `Retune` changes the rate; `Dial` is the only way into a session, by the
right and at its rate. What is not there is the point: no step ends a subscription and
leaves the right, gives the right to a customer who is not ACTIVE, or shows one of the three
without the others. `Linger` is what the races add: the scan revives in GRACE a row that
another handler has ended since it was read, without giving the right back. The mapping in
`SubscriptionLifecycle` is `LiveSubs`, `customer = "ACTIVE"`, `Grant` and `Speed`; reads, locks,
the queue, the clock and failures are stutters.

### PaymentSettlement

| Variable | In the code |
|---|---|
| `invoice` | `status` and `paidAmount` of each invoice |
| `payment` | rows of `payments`: status, invoice, amount, `transactionRef`, and whether `gatewayPaymentId` is that reference |
| `order` | what `createPaymentIntent` asked of the gateway for each gateway payment |
| `sub`, `customer`, `access` | the subscription, `Customer.status`, and whether `radcheck` holds the password |
| `extended` | how many `SubscriptionHistory` rows name the gateway payment in their metadata |
| `req` | each handler under way and what it read |

`...Read` are the reads and validations of `verifyAndSettleOnlinePayment` (called by
the browser's callback and by `handleWebhook`), `recordPayment`, `refundPayment`,
the payment renewal (`processPaymentRenewal` and its copy in the worker) and
`InvoicesService.cancel`. `...Commit` are their writes: absolute values computed
from the reads. Two transactions read between their own writes and have a middle
step: `VerifySettle` (the invoice is updated, the payment inserted, then the
subscription read) and `RefundOpen` (the payment is updated, then the invoice read).
Row locks and unique columns are derived from these open requests: an updated invoice
or payment row is held, and as receipt numbers are `count + 1` and unique, a
second insert waits for the first (`ReceiptTaken`). Every handler may roll back
at any point: refusal by the provider, a unique column, a deadlock victim, a crash.

What is abstracted:

* Amounts are small naturals and every invoice has the same total. Rounding belongs
  to the billing arithmetic.
* One subscription; `Linked` are the invoices that name it. An invoice that does not
  falls back on it, as in the code (verification passes over a cancelled one,
  renewal does not).
* Invoices exist from the start, as `create` leaves them. DRAFT and OVERDUE are
  treated like ISSUED by every handler here and are left out.
* The idempotency key is derived from the gateway payment by both callers, so that
  looking for it finds no row that the reference does not find.
* The receipt numbers of renewals contain the time and never collide.
* A verification names the invoice its payment was made for. The code takes
  both from the request and leaves it to the provider to tell whether they match.
* Money at the provider, CoA jobs, rate limits and audit rows are left out.
* `Refunds` are the amounts operators ask to refund. The code checks none of them:
  `PaidIsCovered` supposes that zero is not among them, and negative ones are not
  modelled.

### GatewayOnce

A gateway payment is unknown, ordered, settled or refunded, in this order, and extends
the subscription in the step that settles it or never. `PaymentSettlement` maps its
tables on it: the phase is `PhaseOf` of the `payments` row whose `gatewayPaymentId` it
is (or of the order, if there is no row yet), the extension is `extended`.

### InvoiceLedger and BillingMath

| Variable | In the code |
|---|---|
| `ledger` | rows of `invoices` in the order of their commits: number, the event billed, cancelled or not, total of the header, sum of the lines |
| `writer` | each transaction under way in `createSubscriptionInvoice` or `create`: how far it is, its number, what it counted, its amounts |

`Open`, `Lock`, `FindExisting`, `Count`, `AvoidCollision`/`AddSuffix`, `Insert` and
`Commit` are the statements of `createSubscriptionInvoice` in their order; each sees
what is committed at that moment. `create` begins at `Count`. The advisory lock is
derived from the program counters (`HoldsLock`), and a transaction that has inserted a number
holds the entry of the unique index.

* Amounts are computed when the transaction begins: they depend on the plan and the
  tax regime, not on the ledger. Money is in paise and rates in hundredths of a percent.
* The year and month in a number are left out: the count is over all invoices, and
  a month would only make numbers differ that the model takes for the same. The suffix has no effect but on
  uniqueness; `Stamps` are its values, with repetitions.
* DRAFT, PAID and OVERDUE are for this module what ISSUED is: not cancelled.
* `invoices.service.ts` writes a source and a service period, for which `schema.prisma`'s
  `Invoice` has no columns. The module takes the rows as the service means them.
* The API's `create` may be told a source and a period; the console's form sends
  none, and `create` is modelled for manual invoices. It has one item.

### BillingCalendar

`start`, `end` and `months` paid for; `Renew` is the end date computed by `renew`
from the current one, for the four cycles that count months. Renewals happen before the
end: a renewal that is late starts at the current date, a new start. CUSTOM cycles
count days and are in `SubscriptionFsm`.

### CustomerAccounts

| Variable | In the code |
|---|---|
| `account` | `customers`: status, username, PPPoE password, bound MAC, status of the latest subscription |
| `passwords`, `macRows` | `radcheck` rows `Cleartext-Password` and `Calling-Station-Id`, by name |
| `rates` | `radreply` rows `Mikrotik-Rate-Limit`, by name: the plan's, or the 64k of a suspended customer |
| `request` | each handler under way with what it read and what it was asked |

A customer logs in under its name and under its name with the realm (`Candidates` is
`getRadiusUsernameCandidates`). A password is kept with its owner, so that the model
tells apart two customers with the same one; `"locked"`, what a suspended customer's row
holds in place of it, is nobody's password (`AccountAssumption`). `Changes` are the bodies that occur.

* Addresses, contact data, zones, static addresses and the read-only views are left
  out. A plan stands for its rate: `full`.
* Status EXPIRED and LEAD are treated like PENDING by these operations.
* That a name is free is checked before the transaction and enforced by the unique index.

### RouterFleet

| Variable | In the code |
|---|---|
| `router` | `routers`: host, address in the tunnel, RADIUS secret |
| `nas` | `nas`: the secret under each `nasname` |
| `dialIn` | lines of `/etc/ppp/chap-secrets` |
| `current` | the request that is handled, or the write of the file it still has to do |
| `up`, `unwritten` | the API runs; a write of the file has failed since it started |

The transaction (`...Commit`) and the file (`SyncChapSecrets`, `RemoveChapSecrets`) are
steps of their own, between which the API may `Crash`; `Restart` writes the file from
the table (`onModuleInit`). A write that fails is logged and forgotten.

* One organization, one request at a time: an operator registers routers by hand. Two
  registrations at once may allocate one tunnel address; see the hazards.
* Ids are not used again. Requests do not enter addresses of the tunnel, empty secrets
  or another connection method for a router that exists: the console has no field for
  these.
* What routers are asked over the network, onboarding calls and telemetry are left out.
* `NasServesRouters` is about hosts. The row under a tunnel address keeps the secret the
  router was registered with when `updateRouter` changes it (`mikrotik.service.ts:440-455`).
* That `syncAllRouters` leaves out a router whose stored secret cannot be decrypted is not
  modelled: the key does not change.

### CoaDelivery

| Variable | In the code |
|---|---|
| `access` | `radcheck` has the real password |
| `handler` | what each API request has committed and still has to queue |
| `jobs` | BullMQ jobs: type, session they name, state, attempts made, stalls, result (`codeName`) |
| `worker` | the job under way, the request sent for it (`coa`, `disconnect`, `fallback`), tries, open socket |
| `net`, `answer` | datagrams on their way; the answer on its way to the open socket |
| `session`, `radacct`, `dialled` | the live session on the router, the open accounting rows, sessions so far |
| `faults` | datagrams lost, live sessions the router would not end, and socket errors so far |

`QueueCoaJob` finds the session of the newest open accounting row and adds a job, or
drops it: for a failed `add`, and for the job id, which is the user name and the
millisecond. The worker sends a datagram from a new socket for every try
(`sendUdpWithRetry`), so that closing the socket loses the answer to the try before
(`CloseSocket`). `End` rethrows a time-out for BullMQ to retry, and nothing else; a
CoA that is refused is followed by a Disconnect (`fallback`), whose failure leaves
COA_NAK. Whatever answers a Disconnect and is no acknowledgement is a DISCONNECT_NAK
(`CodeName`), which completes the job. A worker that dies leaves its job to BullMQ's stall check (`Recover`).

* One subscriber and one session at a time: PPPoE with `only-one`.
* Accounting-Start and Accounting-Stop come late or never. A job without a session goes
  by user name, to a router that may not be the right one, and may be refused.
* A router may refuse a session it has (`Refuse`): a NAK means "Session not found, secret
  mismatch, or CoA disabled" (docs/radius.md:101). The causes are not told apart, as in
  the code, and the session then stays up: the job is not tried again. Nothing is claimed of
  a refused Disconnect; an ACK means "Session terminated" (docs/radius.md:100).
* The rate a CoA sets is not kept. Audit rows and attribute encoding are left out.
* Back-off is not timed: a job in back-off returns at any time. Identifiers and
  authenticators are not modelled because each datagram has a socket of its own.

### RouterSession

| Variable | In the code |
|---|---|
| `socket` | each connection: state, whether it belongs to the cache, idle timer, `commandQueue` (or who waits for the connection), the commands not yet answered |
| `cache`, `inflight` | `sessionCache` and `connectingSessions` of one router |
| `caller` | each `executeCommands` call: what it waits for, whose answers it has got |
| `down` | `onModuleDestroy` has run |

A step is one JavaScript callback with the promise continuations it sets off. Answers
of RouterOS carry no tag here: `Answer` takes what comes next on a socket for the
answer to the batch at the head of the queue, which is what the client does.

* One router. `CallOnce` is a call without a router id, on a socket of its own.
* Encoding of sentences and of the login are left out, `!trap` is an answer, `!fatal` a
  failure of the socket.

## Runs

| Run | Instance | Shows |
|---|---|---|
| `lifecycle_races` | 1 subscription, 2 handlers of any kind, 1 plan, 3 days, faults | access is earned: it comes with an ACTIVE customer, a live subscription and a speed limit; a billed renewal grants a full period although it starts from a stale date |
| `lifecycle_two_subs` | 2 subscriptions, 2 handlers | a session that outlived its credentials has a Disconnect under way; the handlers implement `Admission`, so that access ends with the last live subscription |
| `lifecycle_serial` | 2 subscriptions, 2 plans, 1 handler | what each operation promises when it runs alone |
| `lifecycle_live` | 1 subscription, an API handler and the scan timer, fairness | overdue subscriptions end; sessions without credentials end |
| `lifecycle_cancelled` | violation | CANCELLED is overwritten by a handler that had validated before |
| `lifecycle_overdue` | violation | the scan expires a subscription renewed after the scan read it |
| `lifecycle_last_sub` | violation | two endings count each other: the customer stays ACTIVE |
| `payment_races` | 1 invoice, 1 gateway payment, 2 payment rows, 2 handlers of any kind, a total of 2 | a gateway payment counts once; a PAID invoice is covered; status agrees with the paid amount; the handlers implement `GatewayOnce` |
| `payment_overpaid` | violation | two manual payments of the same balance are both recorded |
| `delivery` | 1 handler, 1 job of 2 attempts, 2 tries, 2 sessions, 3 faults; and 3 calls of 2 commands on 3 sockets; fairness | a late request spares the session opened since; a Disconnect that was acknowledged has ended its session; a Disconnect carries through unless the router refuses it; every job ends. Answers reach who asked; one connection; nobody is lost from the queues; every call settles; every socket is closed |
| `back_office` | see below | invoices, accounts, routers, calendar |
| `invoice_gst` | violation | a plan with 12 % GST: its line is taxed with 12 %, its header with 18 % |

`back_office` and `delivery` check components that share no state. A variable `focus`
lets each behaviour move one of them while the others stay where they began, so that
the state spaces add up instead of multiplying, and one run answers for all. In
`back_office` the foci are: `ledger` (2 writers, 2 events, a manual item, 2 rows),
`alone` (2 customers who take each other's names and one device, one handler at a time),
`together` (2 handlers on one customer, without renames), `fleet` (3 routers, 2 hosts,
2 tunnel addresses, 2 secrets) and `calendar` (every day of 2023, 26 months).

Bounds. Two handlers suffice for every race between a stale read and a commit;
two rows for supersession and for the count of the remaining rows. `Period = 1`,
`Grace` of 0 or 1 and three or four days (`MaxTime`) let a subscription lapse,
pass through GRACE, expire and be renewed. `MaxEnd` stops renewals that reach
further; `MaxTime` stops the clock. Deadlock is not checked: a customer whose
subscriptions are all cancelled has nothing left to do. Symmetry of workers,
rows and plans is used where no liveness property is checked.

`lifecycle_two_subs` leaves out the operations that touch only their own row. An instance with
`changePlan` and `reactivate` as well (2.9 million states) was checked for the same properties,
`AdmitsAsPromised` among them, and takes too long for a regular run.

For payments, one invoice with a total of 2 can be unpaid, paid in part and paid in
full; two rows are a payment and the one that races it or follows its refund; the
subscription can be extended twice (`MaxEnd`). A second invoice or gateway payment
meets the first only through the subscription, which the properties do not relate to
the invoice, and the theorems cover any number of both. The run ends where all rows
are used and the bound is reached, so that deadlock is not checked.

For invoices two rows and two writers are a count, the invoice that overtakes it, the
cancellation of either and the one that follows. Three routers on two hosts and two
addresses make hosts and addresses pass from one to the next. 26 months from every day
of 2023 pass the leap day of 2024, two New Years and every month end.

For delivery, one job has all its tries, attempts, stalls and faults; two sessions are
the one it was made for and the one opened since. A session gets one handler because
liveness is checked on the same graph; two handlers with two jobs were checked for safety
(12.8 million states, with one fault; the invariants of the proofs, `IInv` and `AnswerInv`, included), and the
theorems are for any number. Three calls are one whose batch runs, one that waits behind it and one that
comes after it has failed; three sockets let it fail twice. Nothing is left to do when
the jobs, sessions and sockets are used up, so that deadlock is not checked.

The three lifecycle properties violated by two handlers hold for one
(`lifecycle_serial`): the operations are right in themselves and the races break them.
For accounts the races are part of the property. `updateStatus` writes back the password
and the MAC it has read, under the name it has read, and undoes a change committed
meanwhile, so that an ACTIVE customer may lose its login. `OnlyStaleHandlersBreakLogins`
says that nothing else does that: whoever takes a login away is a handler (`Stale`) whose
customer is no longer what it has read. For the focus `alone`, where no handler is
ever stale, that means that no sequence of operations breaks a login.

Fairness. `LiveSpec` of the lifecycle has strictly what runs by itself: a handler that
has started goes on (PostgreSQL queues lock waiters); the scan is started again and again
(`main.ts:72-92`, every 60 s); the CoA worker gets to each Disconnect (BullMQ).
`Fairness` of `CoaDelivery`: the worker goes on with its job, its time-out fires, a stalled
job is found, and a datagram that is not lost arrives. `SessionFairness` of
`RouterSession`: the timers of the connection, of the batch and of the idle session
fire. There is no fairness for administrators, subscribers, losses, crashes or the clock.
Liveness needs the worker to reach Redis when it starts (`main.ts:95` says it retries in
the background; it does not), processes that do not die between commit and enqueue, and, in
`lifecycle_live`, routers that end a session when they are told to. What losses and
refusals do to a single Disconnect is the question of `delivery`.

The administrator's `expire` queues no Disconnect, although
`docs/mikrotik-radius-setup.md:134-139` says one is dispatched when a subscriber
expires; `OnlineIsEntitled` and `DeniedSessionEnds` are stated for instances in
which nobody has that duty.

## Proofs

`SubscriptionLifecycleProofs` proves, for any sets of subscriptions, plans and
handlers, any period, grace and bounds, and with faults: `TypeCorrect`, `EarnedAccess`,
`FullPeriod`; and `Online` under the assumption `Dependable` (no faults and nobody with the duty `expire`). The only other assumption is
`LifecycleAssumption`, which TLC evaluates in every run.

The properties are not inductive. `IInv` adds: `WellFormed`, what a
request at each program counter has read and will write (a request that will
write ACTIVE carries a plan, a renewal's new end is a period past the date it
read, ...); `DistinctCreates`, no two creates insert the same row; `RowsHavePlans`;
and `AccessIsEarned` itself, that valid credentials come with a live row, an ACTIVE
customer and a plan's rate. The point of the argument: every transaction that makes the
last live row end also removes the credentials, and an open transaction's row
cannot be changed by others. For `Online`, `OnlineInv` says that
credentials are removed only by a transaction whose Disconnect is then pending.

`ImplementsAdmission` is the refinement, `Spec => AdmitsAsPromised`, for all instances and with
faults. It takes `IInv` for what a commit writes (a reactivated row becomes live, the
rate is a plan's, a PENDING create supersedes nothing) and adds one conjunct,
`SessionHasSpeed`: a session has the rate of a plan. There is one lemma for each kind of
abstract step (`AdmittingStep`, `TurningStep`, `HiddenStep`), one about the live rows after a write
(`LiveAfter`, `LiveSuperseded`), and then one for each commit. `AdmissionEntitles` shows
that the abstract specification is worth implementing: whatever keeps it lets in only
an ACTIVE customer with a live subscription and a plan's rate.

Four properties that the races break (`lifecycle_cancelled`, `lifecycle_last_sub`,
`lifecycle_overdue`; a rate limit goes stale in the same way) are proved under a
hypothesis that names what the code would have to see to:
`Spec /\ []OneAtATime => ...`, where `OneAtATime` says that no two handlers are
between the read they decide on and their commit. It is weaker than one handler, the
instance of `lifecycle_serial`: others may have committed and still owe a Disconnect,
and the queue, the CoA worker, sessions, faults and the clock go on beside. Nothing in
the code sees to it; a row lock that is held from the first read would.
`CustomerServed`, `SpeedOfPlan`, `CancelledForGood` and `OverdueOnly` rest on `SerialInv`,
which is kept by every step that ends in `OneAtATime`: what a handler has read of its
row is still so when it writes (`Decided`: its plan, that it is not CANCELLED, that it is
past its grace period), what it has counted of the other rows is still so at its commit
(the row it ends is the last live one exactly if it takes it to be), and what a scan has found is
still found (`Pending`). The clock only moves forward, so that what is late stays late.
`SerialInv` is not implied by `IInv` and needs it: plans of rows and the shape of requests
come from there.

`PaymentSettlementProofs` proves the four invariants of `payment_races` for any
number of invoices, gateway payments, rows, handlers and any total, from
`PaymentAssumption` alone: `TypeCorrect`, `CountsOnce`, `PaidCovered`, `StatusAgrees`.
That a gateway payment counts once rests on the database and not on the check the
code makes first, which two callbacks pass together: `IInv` says that
at most one request has inserted a row and not committed (`OneInserting`), and that
it is the first row of its gateway payment (`FirstRow`); `Sound` says what a request
still knows when it commits (a verification's paid amount and payment make up
the total, a refunded row stays on its invoice). `RequestStep` and `LastStep`
carry the invariant through all steps that only read and through all commits;
what is left for each commit is what it writes.

`Implements`, in the same module, is the refinement, `Spec => SettlesOnce`: initial states map to
initial states, and every step to an order, a settlement, a refund or a stutter. It
uses the invariant above; the steps that matter are `VerifyCommit`, where the first row
of a gateway payment appears together with its extension, and `RefundCommit`.

`InvoiceLedgerProofs` proves all four properties of the ledger for any writers, events,
plans and prices. `EventsBilledOnce`: two holders of the lock of one event are the same
(`OneHolder`), and a holder that has looked has found nothing that is there now
(`NotYetBilled`). `RefusedBesideAnother`: a row's number is never ahead of its place
(`NumbersLag`), so that the count plus one is free until another commits.
`HeadersMatch` assumes that every plan has the standard rate, which is what the code
needs and `invoice_gst` shows it does not guarantee; it rests on rounding lemmas
(`TaxBounds`, `HalvesAgree`: two halves rounded apart are within a paisa of the whole),
and on the sum over one line, which is unrolled from the definition of the fold.

`BillingCalendarProofs` proves `MonthsServed` for any first year: `MonthsLater` says that
`AddMonths` goes to a day that exists, as many months later, on the same day or on
the last one, which is the 28th or later.

`RouterFleetProofs` proves both properties of the fleet. NAS rows are never taken away
from a router because hosts are unique and tunnel addresses are nobody's host but
their own (`HostIsOwn`); `CallSound` and `FileSound` say what a request still knows when it
writes the file, and what the file has until then.

`CoaDeliveryProofs` proves `SparesNewSession`: a datagram names the session its job was made
for (`NetSound`), which no retry, crash or retransmission changes; and the bound on
tries (`WorkerSound`). `AcknowledgedEnds` is about the other end of the exchange, what an
acknowledgement lets the operator conclude, and needs a second invariant, `AnswerInv`. Sessions are not used again,
and whatever names one names a session that was there (`SessionsPassed`), so that a session that is
over (`Over`) stays over. Only the request the worker is waiting for can be answered
(`AwaitedSound`: closing the socket disowns all others, also when the worker dies), and it is a
Disconnect unless the worker is still trying a CoA. Hence an acknowledgement on its way to
a Disconnect, the one after a CoA-NAK included, means that the session is over (`AnswerSound`).
A refusal and a time-out mean nothing, and the property does not speak of them.

`RouterSessionProofs` proves `OwnAnswers` and `HoldsOne` for any number of calls,
sockets and commands. What is on a wire was sent by the batch at the head of the queue,
one command at a time (`WiresSound`); a call stands in one place of one queue
(`OnePlace`), and only while its batch is not done (`QueuedRun`). The connection held is
the one in the cache or the one being made (`HeldIsKnown`).

`NoneForgotten` takes this invariant and adds `UseInv`: who waits is in the queue of a socket
in the right state (`Awaits`), and each socket is `InUse`: an open one has its timer armed
or a batch, one that is being connected has someone who waits, an armed one has nobody, and
one that is not shared has one batch. The last two are what the closing steps need: the idle timer
and the end of a single batch close a socket without telling anyone, which forgets nobody because
nobody is there. `WaitersStay` is the frame: a step that changes one socket must account for those
it tells and those it leaves in that queue; all others are elsewhere. It is the safety half of
`EveryCallSettles`: with it, liveness is left to the timers.

`CustomerAccountsProofs` proves `TypeCorrect` whatever overlaps, and the rest from two kinds of
hypothesis. `NamesApart` is about the constant `Candidates`: no two user names share a
login name (`ann` and `ann@isp` would). The others are about overlapping handlers of one
customer; handlers of different customers overlap freely, and take over each other's
names. `LockedOut` and `OldNamesDead` need `RenamesAlone`, no rename beside another handler of
that customer: a handler writes under the name it has read, and would bring back rows
of a name that is given up. Suspensions, reactivations, password and speed changes of one
customer may overlap as they like. The invariant is `RowInv`: names are unique, a handler
under way still knows the name (`NameRead`), every row belongs to the name of an account
(`RowsOwned`), and a row of a customer carries its own password or the lock (`OwnPasswords`).
`StaleBreaksLogins` needs nothing about overlaps, `NamesApart` alone. `Logins` says
that every ACTIVE customer has its rows and no others (`LogsIn`), and `LoginNext` that a step
keeps it unless a stale handler takes it. Each commit that is not stale writes under the
name its customer has (`KnowsName`), which no other customer has (`NamesStayUnique`, whatever
overlaps): the rows of others stay as they are, and its own customer gets the rows it has to
have. That `OldNameIsDead` holds before the step is part of the property, because under
overlapping renames it does not always, and rows left behind are found by whoever
takes that name.
`ActiveLogsIn` needs `OneAtATime`, no two handlers of a customer at once: then nobody is ever
stale (`NeverStale`), and `LoginNext` makes `Logins` an invariant.

The assumptions of all these are the named ones of the modules, which TLC evaluates.

Only model-checked: the liveness properties (`OverdueIsEnded`, `DeniedSessionEnds`,
`DisconnectCarriesThrough`, `EveryJobEnds`, `EveryCallSettles`, `SocketsAreReleased`), because fairness
and ENABLED are out of the prover's reach. Every invariant and every action property of the
passing runs is proved. Under a hypothesis named above are proved `OnlineIsEntitled`, the four
of `lifecycle_serial`, the three of the accounts other than their types, and
`HeaderMatchesItems`. That `calculateInvoiceTotals` adds up any number of lines would need
induction over data: the ledger's proof is for the one line a subscription invoice has.

## Not modelled

Of the 48 800 lines of implementation, 46 % are the web front end, which renders what the
API returns and keeps no state that another actor reads, and much of the rest is
formatting, input checks, lists, PDF, scripts and tests. The models cover the services
of the back end that change state which another step reads. Left out, and why:

* Onboarding and claiming of routers (`createOnboardingRouter`, `claimRouter`,
  `claimByTokenPing`): they write columns (`onboardingStatus`, `setupToken`...) that
  `schema.prisma`'s `Router` does not have, so that there is no program to be faithful to.
* Router health (`router-sync.processor.ts`): nothing in the repository adds a
  ROUTER_SYNC job. Telemetry and the manual connection test write one row for display.
* Authentication: one column, the hash of the refresh token, that login, refresh and logout
  overwrite. The guards check signatures and roles and count requests per client. Users,
  tenants, plans, tickets: single-row writes without a protocol.
* Learning of MAC addresses from accounting, static addresses, network policy strings.
* The encodings: RADIUS attributes and authenticators, RouterOS sentences, PDF, time zones.
* More than one organization. Two organizations whose routers have the same private
  address share a row of `nas`: listed as a hazard.
* The provider's side of refunds, and partial intents: listed as hazards.

## Left to do

1. Each payment extends the subscription by its own period (a stale renewal overwrites
   an extension), with the provider's side of refunds in `PaymentSettlement`.
2. Two registrations of routers at a time, and two organizations, in `RouterFleet`.

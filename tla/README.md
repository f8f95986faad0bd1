# TaskGo: a model of the marketplace

TaskGo (`src/`) is a marketplace where clients book services of providers and
pay them by PIX. The NestJS backend (`src/apps/backend`) runs on several
replicas over one PostgreSQL database and one payment gateway (AbacatePay); two
Angular applications use it, one for clients and providers
(`src/apps/frontend`), one for operators (`src/apps/backoffice`). This
directory models the backend where money and authority can go wrong and the
pages where answers, clicks and the changes of others cross, checks them with
TLC on small instances, and proves with TLAPS for any number of requests, orders
and users what they show of safety, but for what may be logged.

Contents: [inventory](#inventory), [modules](#modules), [how the code is
read](#how-the-code-is-read), [runs](#runs), [bounds](#bounds),
[fairness](#fairness), [proofs](#proofs), [what is only
checked](#what-is-only-model-checked), [findings](#findings), [assumptions and
what is left out](#assumptions-and-what-is-left-out), [plan](#plan).

## Inventory

| Component | State | Operations | Talks to | Must be true |
|---|---|---|---|---|
| Payments (`payments/payment.service.ts`, `create-order-payment`, `get-order-payment`) | `pagamentos` row, stored `PaymentAttempt`, refund mark, settlement block | create the charge, reconcile, cancel with refund, poll | gateway (inside and between transactions), order row, advisory lock of the payment | one charge, one refund; a final payment stays final |
| Order commands (`order/commands`, `order.controller.ts`) | `pedidos.status` | accept, set out, start, finish, confirm, cancel | payments (cancelPayment, reconcilePayment, enqueueSettlement) | a provider works only for a paid order; the order is not cancelled while money is in play |
| Problem reports (`order-disputes.controller.ts`) | `OrderDispute` | open, resolve | order row lock | no conclusion over an open report |
| Expiration (`order/expiration`) | none of its own | sweep, expire one | payment row, order row | it never cancels what was accepted, scheduled or is being paid |
| Settlement queue (`payments/settlement`) | `PaymentSettlement` | enqueue, drain, claim, send, record | gateway, order, dispute, timeline | one transfer, recorded whatever happens |
| Webhooks (`abacatepay-webhook.controller.ts`) | stored event ids | deliver, block, reconcile, settle, acknowledge | payments, settlements | repetition and reordering are harmless; a paid charge becomes known |
| Gateway client (`abacatepay.service.ts`) | none | create, find, refund, transfer | gateway | every call carries the order's own reference |
| Operators (`admin/users`, `admin/auth`) | `AdminUser` rows, sessions | invite, activate, change role, deactivate, reactivate, change password, log in | mail | an administrator remains; ended sessions stay ended |
| Booking (`create-order`, `provider.service.ts`) | orders of a provider | create | availability, services, advisory lock of the provider | no provider is expected in two places |
| Services (`service-management.service.ts`) | `Service` rows with a weekly availability | create, update, remove | booking reads them | what is offered was validated |
| Provider review (`admin/providers`) | provider status, decisions | approve, reject, block, unblock | booking and services read the status | the decisions account for the status |
| Account recovery (`auth/account-recovery.service.ts`, guard, login) | reset tokens, `passwordChangedAt`, sessions | request a link, mail it, open it, reset, log in | mail server, lock of the user's row | a link works once, the newest alone, and no other request's failure takes it; old sessions end |
| User accounts (`user`, `create-user`) | user, address and service rows; codes in the memory of a process | register, update, request and confirm a code | mail | an account is whole; a verified e-mail was proven |
| Payout profile (`update-provider-payout`, `get-provider-payout`, `payout-destination`) | profile row with a lease | claim, call, save, refresh, save the PIX key | former gateway | one update at the gateway at a time |
| Addresses (`address.service.ts`) | address rows | create, update, remove | | one default address |
| Reviews (`create-order-review`) | review rows, the provider's aggregate | review | serializable transaction | the aggregate is that of the reviews |
| Catalogue (`categories`, `feature-flag`, `services`) | rows with pages over them | list, create, update, remove | the desks that edit them | what is saved belongs together |
| Provider queue and dashboard (`admin-providers.service.ts`) | none: queries over providers and decisions | list, history, figures | operators decide meanwhile | pages and figures agree with the rows |
| Funnel (`admin/metrics`) | none: queries over orders | report a window | orders go on | a report of the past moves only as it is meant to |
| Audit and log (`admin/audit`, `observability`, `config`) | audit rows, log lines, environment | append, sanitize, validate | | no secret is written; production is real |
| Order pages (`frontend/.../orders`, `providers/home`, `pending-approval`) | page, data loaded, calls under way, timers | load, offer, submit, follow | order queries and commands | what is offered is taken, or the page is stale |
| Search and hiring (`customer/search`, `proxi-map`, `single-user`, `favorites`) | query, list, map, position, choices, hearts | filter, search, locate, choose, hire, like | provider queries, browser, map library | list and map answer the page; orders can be kept |
| Sign-up and address book (`auth/register`, `address-form`, `list-card-address`, `drawer`) | draft, form, drawer, lookups | type, look up, save, register | postal codes, users, addresses | what is shown, saved and registered is one thing |
| Provider's desk (`provider-home.service.ts`, `payout`, `payouts`, `services`) | panel, forms | load, type, save | orders, payout destination | figures add up; what was reported as saved is kept |
| Back office (`apps/backoffice`) | session, page, dialog, lists, filters | log in, navigate, decide, filter, choose roles | administrative handlers | a session serves its role; a decision is the one offered |
| Notifications, mail, landing page, design system, shared types | | | | not modelled |

What is hard: requests run in several transactions and network calls, and
between two of them every other request, timer and webhook may run, on any
replica; a process may die anywhere; the gateway moves on its own and its
webhooks are repeated and late. A page sends requests whose answers come in any
order, or after the user went on, and shows rows that others change. `PROJECT.json` lists each such place as a
hazard, at its line, with the properties that watch it.

## Modules

| Module | Models | State |
|---|---|---|
| `PaymentState` | statuses and the pure functions on them (`payment-state.ts`, `isPaymentReleasable`, the transfer mapping, the reports reconciliation drops) | none |
| `OrderStore` | the rows of one order, the gateway's charge and transfer for it, requests in flight; `Crash` | all variables |
| `Payments` | `PaymentService`, `CreateOrderPaymentHandler`, `GetOrderPaymentHandler` | |
| `OrderCommands` | the commands on an order, problem reports, expiration | |
| `Settlements` | `SettlementService` | |
| `Webhooks` | `AbacatePayWebhookController` | |
| `Gateway` | the gateway and the customer's bank (external) | |
| `OrderSystem` | composition of the above, its safety properties, the refinement mapping | |
| `OrderLifecycle` | abstract specification: the path of an order's status, and its money claimed at most once | `status`, `claim` |
| `OrderInvariant` | the inductive invariant `IInv` | |
| `OrderLiveness` | fairness and liveness | |
| `MCOrderSystem` | instances for TLC | |
| `OrderActionProofs` | one lemma per action: it preserves `IInv` | |
| `OrderSystemProofs` | `IInv` holds, and the safety properties follow; what no step may do; `OrderSystem` implements `OrderLifecycle` | |
| `AdminOperators` | administrative operators and sessions, with properties and invariant | `row tokens sessions revoked activations request` |
| `MCAdminOperators`, `AdminProofs` | instances and proofs for it | |
| `Availability` | weekly availabilities: their validation, the slots of a day | none |
| `ProviderReview` | the transitions of a provider's status | `providerStatus verified decisions review` |
| `Booking` | bookings of one provider, statement by statement, with edits of its services; contains the two above | `services occupying slot pc bookable offered bookingLock edit` |
| `Calendar` | abstract specification of booking: appointments made one at a time, at times that are free, never moved | `appointments made` |
| `MCBooking`, `BookingProofs` | instances and proofs for them | |
| `Requests` | the requests in flight that the next modules share (`Callers`) | none |
| `AccountRecovery` | links of a lost password, the mail, logins, the session check | `account tokens inbox resets session step held` and history |
| `UserAccounts` | registration step by step, profile, verification codes per process | rows of users, codes, requests |
| `PayoutProfile` | the lease of a payout profile, its refresh, the former gateway's recipients | `profile touched recipients phase kept waiting` |
| `Reviews` | the serializable transaction of a review | `reviews reputation changes at work` |
| `Addresses` | default addresses, statement by statement | address rows, requests |
| `MCAccounts`, `AccountProofs` | instances of the above but `Addresses`, and of `Availability`; proofs about all of them | `part`, `windows` |
| `FunnelMetrics` | the funnel's queries over orders that go on | orders, clock |
| `ProviderQueue` | filtered lists, history and dashboard over providers that are decided on, query by query | `providers decisions walk tick` |
| `Backoffice` | a tab of an operator: session, guards, navigation, dialogs; the handlers that answer | session, page, wire, rows |
| `ConsolePages` | filters and addresses of the lists, roles chosen in a list, the record of a provider | `url entries`, `sheet staff`, `record rulings` |
| `Catalogue` | categories, flags and offers, from the form to the row | `desk rows` and forms |
| `Observability` | what is logged, audited and shown of a document, call by call of the sanitizers; the environment | `sanitizer entry todo written refused` |
| `MCConsole` | instances of the six above | `part` |
| `ConsoleProofs` | proofs about the six above | |
| `OrderPages` | the pages of an order and the handlers behind them | `row side tab calls timers` |
| `SearchPage`, `HirePage` | search with map and positions; hiring, and the hearts of the search and the favourites | `url page place list map`; choices, orders, `heart saved` |
| `AddressPages` | address book, drawer, form; sign-up | `book drawer form`; draft, steps |
| `ProviderDesk` | panel; payout pages, left and opened again | `hour sales`; `receiving desk payWires` |
| `MCClients` | instances of the five above | `part` |
| `ClientProofs` | proofs about the five above | |

Every definition that models code has an entry in `PROJECT.json` `map` with the
lines it stands for.

### How the code is read

*A request is one run of a handler*: an HTTP request, a webhook delivery or a
timer's sweep on some replica. `pc[r]` is its next step, `then[r]` the caller
that a shared subroutine (reconciliation, settlement processing) returns to, and
`saw[r]` the one value it read earlier and still relies on. One step is one
transaction or one network call. A command that decides and writes with one
conditional update is one step (`Accept`, `SetOut`, `OpenDispute`).

*Locks.* Every transaction that writes the payment row takes
`pg_advisory_xact_lock(payment.id)`. It matters as a state only where it spans a
network call, in `reconcilePayment`: `ReconcileFetch` takes it, `ReconcileSave`
commits and gives it back, and every other locking transaction needs it
`Free`. Handlers that do not take the lock in the code (finish, cancel's last
update, the early reads) do not wait for it in the model either.

*Reading rows.* What a handler reads early and never checks again is not carried
along; what it uses later is (`saw`), and what it reads again is read again.

*The gateway* changes by itself: a pending PIX is paid, expires or fails, a paid
one is refunded or disputed, a transfer settles. Events are a set: a delivery
may happen any number of times until it was answered with 200.

*Counters* (`createCalls`, `refundCalls`, `transferCalls`, `releases`) record
calls and timeline rows for the properties and never guard a step.

*Operators with a name like `claimAssumed` under a "Fault" comment* describe a
plausible bug of the definition below them. Nothing uses them but the
sensitivity checks listed in `PROJECT.json` `mutants`.

`AdminOperators` follows the same reading: requests carry the step, the target
and what they read; commands run in READ COMMITTED transactions without locks,
so each statement that matters is a step of its own.

*Booking.* The transaction of `create-order` is READ COMMITTED: each of its
statements sees what was committed before it, so each is a step, from the read
of the service over `pg_advisory_xact_lock(providerId)` to the insertion.
`bookable[r]` is what the first read found and the check after the lock uses,
although both rows may have changed; `offered[r]` are the slots found with the
availability that the second query reads, and the third compares them with the
orders of the day. What ends an order is in `OrderSystem`; here it is one
action. An order from before the column `scheduled_end` (`EarlierOrders`) has
the interval that its service's present availability gives it, or the rest of
the day. Two of these may overlap for all the code can know, and only their
starts are compared. An update of a service validates the row it read merged
with its request, and writes the columns of the request alone: two steps.
`DayOf` and `SlotsForWindow` count minutes; the times of a window that are no
`HH:MM` are numbers outside the day.

*Accounts.* A handler with several transactions or a slow computation between
them (a hash, a mail, a call) has one step for each, and carries in `held`,
`work` or `kept` what it read before. Time is a counter where it decides
something: `now`, the ages `touched`, `synchronized` and `waiting`. A
serializable transaction sees what was committed when it began, and the
database refuses it when a row it changes was changed since.

*Pages.* A page is what the component keeps, the requests it has sent, and, for
each, whether the component still listens: `switchMap`, `takeUntilDestroyed`,
request numbers and busy flags are what removes or ignores an answer. Requests
wait in a set: the backend serves them, and answers arrive, in any order;
others change the same rows in between. Each handler a page calls is an action
or an operator of its own, with the conditions of the backend and not those of
the page. Texts, layout and most fields are left out; a value is there when a
property tells it from another.

*Lists.* A query with `orderBy`, `skip` and `take` is the set of the rows whose
place, the number of rows before them, is in the page; so is the stable sort of
the validation of hours (`Place`), and a list that a page keeps is a set of
rows when no property is about its order. A page is then reasoned about by
counting, without an induction over sequences.

*Unions.* The components in `MCAccounts`, `MCConsole` and `MCClients` share no
row. To take them together, `part` is chosen at the start and only the chosen
one moves: TLC sees all the states of each, and no product of them.

## Runs

| Run | Question | Result |
|---|---|---|
| `order_system` | is the money of an order consistent under any interleaving of two requests at a time? | 8 invariants, an action property and the refinement hold; 315,612 states |
| `payment_liveness` | does the backend come to know that a linked charge was paid? | holds |
| `payout_liveness` | is every queued settlement decided? | holds, with one way to rest: SUBMITTING without a transfer, which the code leaves to operators |
| `admin_sessions` | do sessions end when they must? | holds; 193,131 states |
| `booking` | is a provider ever booked twice for a time? | no, and booking implements `Calendar`; 1,974,016 states |
| `accounts` | do the rows around the orders stay true? | 7 invariants and an action property hold; 2.1 million states |
| `console` | does the back office serve, show and save what it should? | 6 invariants and 3 action properties hold; 1.5 million states |
| `clients` | do the pages show what was asked and send what was chosen? | 6 invariants and 2 action properties hold; 2.7 million states |
| `admin_last_administrator` | does an administrator remain when commands overlap? | violated, see findings |
| `admin_role_change` | does a change of role always end sessions? | violated, see findings |
| `booking_offers` | is every active service's availability valid? | violated, see findings |
| `default_address` | has a user one default address at most? | violated, see findings |

*`order_system`.* `AtMostOneCharge`, `AtMostOneRefund`, `AtMostOnePayout` count
calls to the gateway; `NoMoneyOnCancelledOrder`, `RefundOrPayout`,
`ServiceIsPaid`, `ReleaseIsReal`, `NoConclusionOverDispute` relate rows of
different tables, or rows to the gateway, that different handlers write;
`PaymentNeverRegresses` says what no late report may undo; `LifecycleRefined`
says that all of it together is a simple machine.

*`booking`.* `NoDoubleBooking` is what a provider would notice. `CalendarKept`
says more: an appointment keeps its time as long as it stands, although the
availability it came from is edited, and an order gets one at most.

*`accounts`.* A link resets once and only the newest can (`LinkResetsOnce`). The
token of a link that was delivered goes because the link was used or because a
request made a cooldown later takes its place (`DeliveredLinkIsKept`), and not
because an older request fails late or one came too soon. A reset ends older sessions, although a session knows its
time in whole seconds (`OldSessionsEnd`). An account has all its rows and a
verified e-mail was proven (`AccountsTellTheTruth`). One update of a payout
profile is at the gateway (`OneUpdateAtGateway`), except after a refresh that
read the row before the claim and wrote it after: `erased` records that the
code lets this happen. Decisions account for the provider's status
(`DecisionsExplainStatus`), the reputation is that of the reviews
(`ReputationMatchesReviews`), and the validation of hours, which compares
neighbours, finds every overlap and leaves slots that can be kept
(`HoursCanBeKept`, of `ValidationIsPairwise` and `SlotsCanBeKept`).

*`console`.* A session is ended by a logout or by the refusal of a token that is
no longer any good, and leads nowhere its role may not go
(`SessionsServeTheirRole`); that this token may be an earlier session's is among
the observations below; a decision is carried out on the status it was
offered for (`DecisionWasOffered`). A report adds up, and of a window that is over ten
figures stay, three only grow, each order in its own week, and one only shrinks
(`ReportsAreKept`). Pages and figures agree with the rows
(`ListsAndFiguresAgree`): the history shows every decision once, the queue
misses no more rows than decisions took out of its filter while it was paged
through, and the dashboard, read one query after the other, is off by no more
than was decided meanwhile. Filters survive being applied again
(`ReapplyingKeepsRows`), a role stands chosen beside the role it was chosen of
(`RoleChosenAsListed`), a record shows the decision that led to its status
(`RecordShowsItsDecision`), pictures and hours stay with what they were saved
for (`SavesBelongTogether`), and neither the log nor the audit trail has a
secret or a person in it, while all the rest is there
(`NothingSecretIsWritten`). A document is the function from the paths of its
values (`keyPath`) to their kinds; TLC takes every document of three levels
with one branch. That a backend in production talks to the real
gateway depends on the environment alone: `ProductionAssumption`, which TLC
evaluates at the start of this run.

*`clients`.* A command is refused only to a tab that showed of the order what is
not so, or for a reason no page shows (`Untold`; `RefusalMeansStale`); list and map answer the page (`SearchShowsItsQuery`); a
position that comes late does not undo a choice (`NewestChoiceWins`); orders
that were taken can be kept, and what a page of hearts was told is done is what
the server has (`ChoicesAreKept`);
the drawer shows its own address (`DrawerShowsItsAddress`); what is registered
was saved (`RegisteredWordsWereSaved`); the panel's figures add up and its lists
leave nothing out unless full (`PanelIsTrue`), except, for the figures, in the
hours in which the server is a month ahead; what a payout page last reported as
saved is what the backend has (`SavedIsKept`). For a heart and a payout alike a
request that an error or leaving the page left behind may be served later: after
that, and only then, the page is wrong.

Where a property is the conjunction of two, each part has a mutant of its own.

### Bounds

`order_system` has two requests in flight at a time, from all eight kinds of
multi-step handlers, and any number of them one after the other; the
single-step commands, the gateway and crashes come in addition, without bound.
Counters need none: the properties bound them. Two are enough for the races the
hazards list, which are all between two requests or a request and the
gateway; the theorems remove the bound. Requests are symmetric, no handler
looks at which one it is.

`payment_liveness` allows payments, cancellations and webhooks, from a fresh
order. `payout_liveness` starts right after the client's confirmation
(`ConcludedInit`, a state `order_system` reaches), with timers and webhooks.
Liveness is checked without symmetry.

`AdminOperators` is bounded by `MaxTokens` invitations and `MaxVersion`
increments of `tokenVersion` per operator, which may stop a run
(`CHECK_DEADLOCK FALSE`). Two operators, of whom one is seeded, and two
requests make every overlap of two commands. The theorems hold for any bounds.

`booking` has a provider with two services, an availability with one long slot
and one with short slots on two days, two bookings, one edit and one decision in
flight, and an order from before. The day is scaled to five minutes, with slots
of one to four: `Availability` divides and compares, and no number in it has a
meaning of its own. Clients ask for three of the minutes (`Times`), the first of
each day and one inside the long slot, so that slots collide and days meet.
`MaxDecisions` bounds the history; a booking that is done rests
(`CHECK_DEADLOCK FALSE`). `booking_offers` has a second edit in flight and
availabilities that the validation refuses, which `booking` leaves out to stay
small; the theorem covers them.

`accounts` has two requests at a time in each part, three operators and five
decisions, three orders with two ratings, two links and five ticks, two users
and e-mails, two recipients. A second has two ticks, so that a session can be of
the same second as a reset and before or after it; a lease has two, a call one,
so that a call can end late and a lease lapse after a crash. All sequences of up
to three windows, the most that is validated (`MaxWindows`), are taken over a
scaled day of five minutes with times before and after it, the third of them cut
in slots of a minute; a fourth is one too many. Requests about the
contact of one user do not overlap (`Overlap = FALSE`) and one process serves
verification (`Processes = {p1}`): where they overlap, a confirmation under way
while the profile is changed marks the changed e-mail as verified; with two
processes, a code is looked for where another one was stored, see below.

`console` and `clients` follow one tab. `Max...` bounds the pages visited,
requests sent, changes by others and saves; the page limits are scaled to one or
two rows, so that a page is cut and rows cross its border; the lists have two or
three rows. Two requests under way are what an answer out of order takes, and
one change by others between two of them what a stale page takes. A day has two
instants, a week of the funnel two days with an offset of one, so that local and
UTC days differ; its clock takes three steps (`MaxClock`), so that an order can be
requested in one window and accepted, paid and refunded or cancelled in later
ones. The tab of an order opens three pages (`MaxPages`), as many as lead from the
details to a report. Logged values are nested three deep, one more than an object in
an array in an object. The tab begins with an administrator, whom one change
gives any other role; of two pages that ask and are answered alike it goes on
from one (`PagesOfAKind`). Providers of the funnel are told apart by nothing
(`SellerSymmetry`): its properties are about every one of them and only compare
them. The bounds stop these runs (`CHECK_DEADLOCK FALSE`).

### Fairness

* A request in flight goes on. It may wait for the lock again and again, so this
  is strong fairness: PostgreSQL queues the waiters of an advisory lock.
* The gateway repeats a webhook until it is answered, and the timer drains
  forever (`@Interval`): strong fairness of starting them, as a request slot
  may be taken meanwhile. It is one condition for all the webhooks of the charge
  (`WebhooksRepeat`): that each comes again is not assumed.
* The gateway carries out the transfers it accepted: weak fairness.
* Crashes, timeouts and failing calls may come any number of times, but not
  for ever (`Recovery`). Some endings that are no failures change what a crash
  changes, such as a sweep that finds nothing to send or nothing to record.
  These are steps of their handlers (`Proceed`), which `Recovery` leaves alone:
  that a settlement is swept without result for ever is not assumed away. One
  whose charge was refunded before it was sent is not sent by any sweep; the
  webhook of the refund, which the gateway repeats, blocks it.
* Users owe nothing: no fairness for payments, polls, confirmations or commands.
  An order nobody touches, or whose PIX lapsed and is not polled, rests, so these
  runs have `CHECK_DEADLOCK FALSE`; `order_system` checks deadlock.

## Proofs

TLAPS proves for every set `Requests`, with `NoRequest \notin Requests` as the
only assumption on the constants:

1. `IInvHolds`: `Spec => []IInv`. The safety properties are not inductive: that
   at most one charge exists depends on who may still be about to create it.
   `IInv` (`OrderInvariant`) adds what a request relies on between two steps:
   *ReportInv*, that whoever is about to create the charge is alone and finds
   none, and that a report a request carries is at worst outdated in the two
   ways a charge can change; *LockInv*, that the lock is held exactly between
   the halves of a reconciliation; *RefundInv* and *SettlementInv*, that
   whoever is about to ask for the refund or to send the transfer is alone;
   *CancelInv*, that a request about to cancel the order has a payment that
   nothing brings back; *ChargeInv*, *PaymentInv*, *ServiceInv*, that rows agree
   with each other and with the charge. One lemma per action, one step per part.
2. `TypeIsCorrect` and nine safety theorems follow from `IInv` by definition, or
   with a short case analysis (`CancelledOrderKeepsNoMoney`).
3. `PaymentOnlyAdvances`, `SettlementOnlyAdvances`: the two action properties.
   `StepsOnMoney` shows that all but thirteen actions leave the rows in question
   alone; the others are taken one by one.
4. `SystemRefinesLifecycle`: `Spec` implies the abstract specification under the
   mapping `status <- order, claim <- moneyClaim`.
5. `AdminIInvHolds` and from it `AdminTypeIsCorrect`, `InvitationIsUsedOnce`,
   `EndedSessionIsRefused`: no session is ahead of its operator's version, one
   that was ended is behind, and versions never go back. Assumptions:
   `Founders` is a non-empty subset of `Operators`, the bounds are natural.

6. `BookingIInvHolds`, and from it `BookingTypeIsCorrect` and
   `AppointmentsDoNotOverlap`, for any bookings, services, availabilities and
   lengths of the day. `NoDoubleBooking` is not inductive: `BookingIInv` adds
   that whoever is past taking the lock holds it (`LockInv`), that slots lie
   within their day (`OfferedInv`), so that orders of other days need not be
   looked at, and that an order about to be created is apart from all others
   (`CreateInv`), which stays true as only the holder of the lock adds one. The
   arithmetic is in lemmas on days and slots (`DayBounds`, `OtherDays`,
   `SlotWithinDay`, `FreeSlotIsApart`). Assumptions: the length of the day and
   the number of weekdays are positive, the orders from before start at
   different minutes.
   `BookingKeepsTheCalendar`: `Spec` implies `Calendar` under the mapping of
   the orders that take up the calendar to appointments, and of the orders that
   were ever created to `made`. Of all the statements of a booking only
   `CreateOrder` is seen (`PreparationIsUnseen`, `CreationMakes`); an appointment
   of an order without a recorded end is its first minute.
7. `HistoryIsConsistent`: `DecisionsExplainStatus` is inductive as it stands.
8. `RecoveryInvariant`, and from it `LinksResetOnce`, `DeliveredLinksAreKept` and
   `PasswordEndsSessions`. None of the three is inductive: `LinksAreFresh` adds
   that a link in the hands of a request is its alone, unknown to all before it
   is stored and unconfirmed before it is mailed; `TimesAreRead` that no request
   and no token is of a time to come; `LoginsAreDated` adds
   that a login which read an older password read it before the reset, and that
   a session's whole seconds lie before the tick it was signed at
   (`WholeSeconds`). Assumption: a second has a tick at least.
9. `LeaseKeepsOthersOut`: `LeaseIsHeld` adds that an update under way is not
   late and that its row was touched since the claim, so that nobody finds the
   lease lapsed. Assumption: `CallTimeout < Lease`, as in the code (the client's
   timeout against `PAYOUT_SYNC_LOCK_MS`), and that a result is written within
   what is left of the lease.
10. `ReputationIsCurrent`: `ViewsAreCurrent` adds that a transaction which
   nobody overtook sees the reviews there are, and that whoever is about to
   commit is alone and was not overtaken. Ratings are positive; that the
   aggregate over no reviews is zero is the lemma `NoReviews`.

*Accounts* (`AccountProofs`, with 7 to 10). `"absent"` is no e-mail and the
bound on codes a natural number.

11. `AccountsWhole`: a row is never without its parts, for any overlap of
   requests and any number of processes. `WholeInv` adds that a registration
   between its statements is about somebody who is not there yet, with what it
   inserted so far (`SigningInv`), and that two of them are about different
   users, with different e-mails once both are inserted (`ApartInv`).
12. `AccountsAreTrue`: `AccountsTellTheTruth`, under the hypotheses of the run
   and no others: requests about the contact of a user do not overlap, and one
   process serves verification. Without either the property is false, as the
   observations below say. `ProvenInv` adds that the code kept for a user is for
   its pending e-mail, unless a request is about to replace it (`CodeIsDue`), so
   that whoever compares a code holds the e-mail that it was sent to, and whoever
   is about to mark one saw it proven (`ProvenRequest`). `OthersStay` frames the
   rows and requests of other users.
13. `ValidationComparesAll`: the validation, which compares neighbours in the
   order of their starts, finds nothing exactly if no two windows overlap, for
   every sequence of windows. An induction over the places is avoided: of the windows
   after a given one that begin before its end, the first in the order has a
   neighbour that gives the contradiction (`LeastNumber`, `WindowJustBefore`).
14. `SlotsAreKept`: the slots of a validated day are within its windows and
   apart. Two slots of one window are a whole number of steps apart
   (`StepsApart`), those of two windows by 13. Both together are `HoursAreKept`.
   Assumption: slots are of a minute at least.

*Back office* (`ConsoleProofs`).

15. `RecordIsWhole` (`RecordInv`: in every read under way, and in what is shown,
   the decisions were read after the status), `ChoicesFollowTheList`, which is
   inductive with types (`SheetInv`), and `ReapplyingIsSafe` (`ListUrlInv`, with
   the arithmetic of whole days in `DaysAreWhole` and `PeriodIsWidened`, for the
   addresses that links and cards lead to as well: `WindowsAreAddresses`).
16. `SessionsAreServed`, `DecisionsAreOffered`: `BackofficeInv` says of every
   request under way that its session is no newer than its operator, that its
   role may see the page it is of, that a decision was offered for the status
   it needs, and that a session refused stays refused (`SessionsEnd`).
17. `ReportsStay`: `FunnelInv` orders the times of an order and sets them in the
   past; what a window that is over keeps, and which way its other figures move,
   is `WindowIsOver` with `CanceledStay`, that
   the weeks add up to the whole is an argument on cardinalities
   (`EachInOneWeek`, `TotalsAgree`). Assumption: orders are finitely many, a week
   has a day at least.
18. `ListsAreRight`: `ReviewsInv` adds that a provider is pending until the
   decision that ends its review, and that there is one such decision at most,
   for the figures (`FiguresInv`, kept by `FiguresWait` while others decide: the
   decisions that ended reviews are as many as the providers decided on). `WalkInv`
   says what a walk through the pages has shown: of the history, what it has
   passed, once; of the queue, all but as many of the rows before its cursor as
   decisions took out of the filter. A row that leaves the list moves one row at
   most across the cursor (`OneFallsBehind`), other steps none
   (`NobodyFallsBehind`).
19. `SavesAreWhole`: `DeskInv` says that the form, what is listed and what is under
   way have a picture of their row or a new one; `OfferInv` that an edit says all
   that the validation needs, and that one which was checked has hours if it is
   active.
20. `NothingSecretGetsOut`: for any document, however deep and wide. A sanitizer
   sees one value and the context its caller handed on, and the property is about
   everything a value is in. `LogInv` bridges the two: a call is made only for
   a value that is not secret and lies in nothing that is withheld, and knows
   its context exactly (`CallIsSound`); every value that may be written was
   written, or a call is under way for something it is in (`Reached`). So the
   depth needs no induction over the document: `Descent` follows one path one
   key further. That the order of the calls does not matter is part of it.
   Assumption: a value is in objects and arrays only.
21. `ProductionStartsForReal`: by cases, for every environment.

*Pages of clients and providers* (`ClientProofs`).

22. `RefusalsAreStale`: `PagesInv` says that every command under way was sent by a
   page that saw what the command needs (`Grounded`), and that while the order
   waits for its approval nobody has seen it further on (`ApprovalInv`).
   `ImpossibleIsStale` concludes that where the row denies what the tab saw it
   moved in between, and `OnlyImpossibleIsRefused` that the handlers refuse
   nothing else. What remains are the reasons no page shows (`Untold`): a blocked
   provider, money taken back or held, an open report; for a payment, a provider
   without a PIX key or an attempt sent off before. A report has none: the page is
   reached only from an order that may be reported.
23. `SearchIsRight` (`ListInv`: what is waited for, or was answered last, is the
   question that the address asks; `MapInv`: a map that is shown has drawn what
   it was last told) and `NewestChoiceStays` (`PlaceInv`: a request for a position
   that still counts is of the newest choice).
24. `OrdersAreKept`, `HeartFollowsWishes`, and `ChoicesKept` from both:
   `HeartInv` says that a page waits for one press at most, its last, that every
   press under way has a number of its own (`Numbered`), and that after the answer
   what the server has is of that press or of one that was left behind (`Kept`).
25. `DrawerIsRight` and `OwnWordsWereSaved`: `LookupInv` says that a form waits for
   one lookup at most, to the postal code that stands in it, and that a field
   the user left alone reads as it did when it was asked for; `SignUpInv` that
   the open page never has the draft's own object, and that the user's own words
   in the draft were saved.
26. `PanelsAreTrue` and `SavedPayoutsAreKept`: `FiguresAlwaysAddUp` holds of any
   rows, `ShortIsWhole` (by `LeastNumber`) says that a list shorter than its limit
   leaves nothing out; `PayInv` that a page waits for one write at most, its
   newest (`SavesNumbered`), that it reports nothing before the backend has it, and
   that whatever is written since is of a write that was left behind (`Stands`).

*What the findings come from.* The properties of the four findings are false.
These theorems say which overlap of requests it takes: where no reachable state has
it, the property holds, whatever else interleaves. So they bound what a lock, or
a condition on the write, would have to rule out. The hypotheses are about
requests of one kind on one row; all others may overlap.

27. `CommandsApartKeepAnAdministrator`: an active administrator remains if the
   commands that can take one away are done one after the other
   (`RemovalsApart`) and no invitation is renewed while it is being used
   (`RenewalsApart`). Neither is enough alone: finding 1 has a way past each.
   `SerialInv` adds that a removal which was let through leaves someone besides
   its operator (`OthersRemain`), and that a renewal or reactivation finds its
   row as it was read (`ReadsStand`); `RowsMove` sums up what a step may do to
   the rows.
28. `RenewalsApartBumpVersions`: the second condition is enough for a change of
   role to come with `tokenVersion`.
29. `UpdatesApartOfferWhatIsValid`: what is offered was validated if no two updates
   of one service are between their check and their write (`EditsApart`).
   `EditsAreValid` adds that what is about to be written is valid with the row as
   it is.
30. `DefaultsApartLeaveOne`: a user has one default address at most if no
   transaction that makes one begins while another is in its first statement or
   past it (`DefaultsApart`). `OneDefaultInv` adds that whoever is about to write
   its default has found or cleared every other.

Induction over data is out of the prover's reach as a rule that takes a
predicate. Where one was needed, `LeastNumber` took its place: a non-empty set of
natural numbers has a least element, from well-foundedness; and the library's
facts on cardinalities.

The inductive invariants that modules of the backend state beside their actions
(`IInv`, `AdminIInv`, `BookingIInv`) were checked by TLC before they were proved;
the runs list the properties that follow. Those of the other modules are in the
modules with their proofs.

### What is only model-checked

Liveness (`PaymentIsRecorded`, `SettlementIsDecided`) is beyond the prover. Every
other property of the passing runs is a theorem, for any values of the
constants that the named assumptions allow. The four properties of the findings
are false, and theorems only under the hypotheses of 27 to 30.

## Findings

1. *The last administrator.* `assertAdministratorWouldRemain` counts and the
   caller then updates unconditionally. The transactions are READ COMMITTED and
   take no lock, so two overlapping deactivations or role changes can both
   count two and leave none, which `.compozy/tasks/proxi-backoffice/_techspec.md`
   line 215 rules out. `admin_last_administrator` shows it. The renewal of the
   next finding leads there as well, when it gives the only administrator left
   another role.
2. *A renewed invitation.* `invite` reads the row, and renews it by id alone. If
   the earlier invitation is activated in between, the role of an active
   operator changes without `tokenVersion`, which task_05.md line 28 of that
   project rules out; the row also gets a token hash again, which activation
   then refuses. `admin_role_change` shows it.

3. *An offer nobody validated.* `ServiceManagementService.update` validates its
   request merged with the row it read and then writes the columns of the
   request. One update activates a service, another replaces its availability by
   one that is only good for a draft; each is valid with what the other one
   replaces. `service-management.service.spec.ts:71` "requires availability
   before activation". `booking_offers` shows it; by `AppointmentsDoNotOverlap`
   it leads to odd offers and never to a double booking.
4. *Two default addresses.* `AddressService.create` and `update` clear the mark of
   the user's addresses and then write theirs, in a READ COMMITTED transaction
   that locks nothing of the user's. Two of them leave two default addresses,
   which `.compozy/tasks/profile-perfil/task_03.md` line 32 was written against.
   `default_address` shows it.

Observed while modelling, where no document says otherwise:

* The back office ends a session at any refusal of a token, without asking whose
  it was (admin-token.interceptor.ts:25): the late refusal of an earlier
  session's request ends the session that was opened since.
* A newer request for a recovery link deletes the older token before its own mail
  is sent (account-recovery.service.ts:59); when that mail fails it takes its own
  token back (:81), and no link works until a third is asked for.
* In a queue filtered by status each decision moves the providers behind it one
  place forward, so that whoever goes on to the next page misses one
  (admin-providers.service.ts:255-285). The figures of the dashboard come from
  separate statements, and decisions may come between them (:418-449).
* A funnel's report of a window that is over changes: its cohort's acceptance, its
  later payments and its cancellations grow, its completed and paid orders, the
  north star, shrink by refunds (admin-funnel-metrics.queries.ts:81, :139, :179).
* The payment page offers to pay although the provider has no PIX key
  (create-order-payment.handler.ts:267) or a first attempt is still to be
  reconciled (:150), which the handler refuses every time.
* Nothing cancels the saving of a PIX key when its page is left, and the page
  opened next may save again (provider-payout.page.ts:155): the older key may be
  written last. So may one whose saving the page called failed.
* The heart on a card of the list is always drawn empty, as the pipe that formats
  a provider sets `favorite` to false. A list of favourites that arrives late
  overwrites the answer of a press made since; presses left behind by an error or
  by leaving the page may be served later.

* A refresh of the payout profile writes the error code of the row it read, and
  so may erase the claim of an update that began since; a second update can then
  call the gateway beside it.
* Verification codes are kept in the memory of a process. Behind two replicas a
  code may be unknown where it is entered, and an older one, for another e-mail,
  may be the one found; phone codes are generated and delivered nowhere.
* A confirmation of a code that overlaps a change of the profile marks the
  changed e-mail, which was never confirmed, as verified.
* The list of addresses that was asked for before a save may arrive after it;
  a lookup of the sign-up's address step is never cancelled; the payout page
  that is not routed may show a status older than the one it saved.
* A new service, or an address, is saved twice when the answer of the first
  request is lost and the form is submitted again.
* An invitation sent again from the operators' page carries the role of the row
  the page read (operator-admin.page.ts:266, admin-users.service.ts:99), and so
  may undo a role that was changed meanwhile.
* A provider's panel shows the ten newest requests of those it holds; older ones
  are reached through the list of orders only. The details page of a provider
  reads the first hundred decisions.
* The lookup of a charge by its reference reads twenty pages of the gateway's
  list, and an older charge is not found.
* A provider may be blocked, or a service removed, between the reads of a booking
  and its order, which is created all the same.
* An order waits for an operator when a refund or dispute arrives while the client
  confirms, and one whose PIX lapsed waits for a poll.

## Assumptions and what is left out

* The gateway is not in simulated mode. FAILED and EXPIRED charges, and settled
  transfers, are final. `transparent.lost` is treated like
  `transparent.refunded`, which the code handles alike.
* No handler writes the rows of two orders, so one order is modelled in
  `OrderSystem`, and no booking looks at two providers, so one is modelled in
  `Booking`.
* Booking: the clock, the address and its coverage are reasons to refuse at any
  step. The offset of America/Sao_Paulo is constant. The database holds no two
  orders without `scheduled_end` at one minute.
* Who may call a handler, the participant checks and the provider's approval are
  abstracted; every command may come at any time.
* Deadlines are abstracted: any candidate of the sweep may be late.
* AUTORIZADO and the statuses of the former gateway are omitted: no ABACATEPAY
  payment takes them and `assertProvider` refuses the others. UNDER_REVIEW is
  folded into OPEN.
* Steps that are merged: the early read of a payment request and its first
  transaction (`PayAttempt`); the early read and conditional update of an
  acceptance; the gateway's word on the charge and the commit of a settlement
  claim, whose lock is held (`SettleClaim`). Nothing another request does in
  between can change their outcome except as if it came before or after.
* Operators: SUPPORT stands for all roles that do not manage operators;
  `passwordHash` and `activatedAt` are set together; invitations do not lapse.
* Accounts: a mail server may say that a mail failed which arrived, and the
  other way round a confirmed mail arrived. Replicas' clocks agree. A replica
  does not stand still between the end of a call and the write of its result for
  longer than is left of the lease.
* Of the funnel's first services that end at one instant the query takes the
  lowest id, the model any fixed one. Medians, averages and money are left out.
* Pages: one tab and one user each, who follows its links: reloading the browser,
  its history and addresses typed by hand are left out; the browser delivers every answer or an error;
  uploads, texts, formatting of dates and money, and styling are left out.
* Not modelled: notifications, e-mail, telemetry, the append of audit rows,
  amounts and fees, lists of orders, the former gateway's charges, the landing
  page and the components without state, see `PROJECT.json`.

## Plan

Done: the order system, its proofs and refinement; operators and sessions;
booking with its abstract specification, services and provider review; recovery,
payout profile and reviews, accounts and addresses; the back office, what it
reads and what is logged; the pages of clients and providers; the proofs of
their safety properties.

Next, in this order:

1. Pure functions: platform fee rounding, expiration deadlines, against
   reference definitions over bounded inputs.
2. Liveness of pages: a page that waits comes to rest with what it asked for.

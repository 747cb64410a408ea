# A verification project for R3sourcer

R3sourcer is a Django back end for labour-hire companies: clients order
workers for the shifts of a job, candidates are offered places by SMS, time
sheets are filled in and approved, and invoices, payslips and charges follow.
It runs as several web processes and several Celery workers over one
PostgreSQL database, a RabbitMQ broker and a cache. Requests run in autocommit
mode (there is no `ATOMIC_REQUESTS`), a few of them in explicit transactions,
very few with row locks: what is hard here is what concurrent requests, tasks
and replies do to the same rows.

## 1. Inventory

Paths are below `src/r3sourcer/apps/`.

| part | state | operations | correct when |
|---|---|---|---|
| job offers (`hr/models.py` JobOffer, `hr/tasks.py`, `hr/api/viewsets.py`) | the status of each offer, its SMS, its queued tasks, its time sheet, its carrier list entry | fill-in, accept, cancel, resend, send, delete; SMS reply; send, defer and rejection tasks | a shift gets no more workers than asked for; accepted offers have a time sheet, the others none; messages go out |
| time sheets (`hr/models.py` TimeSheet, its viewset, timers in `hr/tasks.py`) | confirmation, hours, submission, approval, status | confirm, decline, submit, approve, sign, disagree, auto-confirm, auto-approve | an approved sheet keeps the hours that were approved; the status agrees with the dates |
| workflow (`core/workflow.py`, `core/models/workflow.py`) | the active states of jobs, candidates, companies, time sheets | create a state, open and close states by rule | required states hold when a state is created; a state is active once |
| jobs and shifts (`hr/models.py`, `hr/utils/job.py`) | shift dates, shifts, numbers of workers | fill-in, extend, cancel, `delete_old_shifts` | fulfilment agrees with the offers; no overlapping offers of a candidate |
| SMS (`sms_interface/`, `twilio/`) | sent and received messages, which are answered | send, fetch, match a reply | a reply answers one message, of the right offer; none is processed twice |
| SMS balance and payments (`billing/`) | balance, last payment, payments | charge a message, top up, fetch payments | every message is paid once, every top up credited once |
| subscriptions (`billing/`) | status, periods, active flag | create, cancel, synchronise | one active subscription for each company |
| invoices and payslips (`hr/payment/`) | lines, numbers, payslips | generate | every approved sheet is billed and paid once |
| carrier list (`hr/models.py` CarrierList, `hr/tasks.py`) | free days of candidates | offer by SMS, confirm, deny | no offer for a day already refused or taken |
| task lock (`core/tasks.py`) | one cache key for each task | add, delete, expire | one run at a time |
| token login (`login/`) | tokens, `loggedin_at` | create, use | a token logs in once |
| MYOB synchronisation (`myob/`) | sync status, remote records | push invoices and time sheets | nothing pushed twice |
| pricing (`pricing/`) | rate coefficients | split hours | every hour is priced once |
| email, activities, settings and permissions, companies and contacts, form builder, change log, acceptance tests, skills, PDF templates, metadata adapter, geocoding | rows | create, read, update, delete | mostly input, output and validation |

How they interact: accepting an offer makes a time sheet and closes the shift;
closing it cancels other offers and queues rejections; losing a place makes a
carrier list entry; saving an offer or a time sheet queues SMS tasks; an SMS
costs from the balance, which queues charges; a received SMS is matched to a
sent one and calls `process_sms_reply` of the object it was about; hours and
approvals create workflow states and feed invoices and payslips. All of them
share rows, not messages: an object is read into memory, changed, and written
back whole by `save()`.

The hard behaviours are the reads that are stale when written, the checks made
a statement before the act, the tasks that run after the state they were queued
for has changed, the timers that race answers, the calls that fail half-way, and
charges at a remote payment provider inside a local transaction. `PROJECT.json`
lists them, each at its line, as hazards with the properties that cover them.

## 2. Modules

| module | what it is |
|---|---|
| `JobOffers` | the job offers of one job: web processes, SMS replies, Celery tasks, time |
| `Roster` | the abstract specification: which offers hold a place |
| `MCJobOffers` | instances for TLC: `serial`, `recurring`, `compete`, `overbooking` |
| `JobOffersProofs` | type correctness, the quota invariant, the bound and the refinement, proved |
| `JobOffersSerialProofs` | what holds when one process answers the requests, proved |
| `Workflow` | the rules of the workflow engine as operators, with the graphs of time sheets, jobs and clients |
| `TimeSheets` | one time sheet from its creation to its approval, with the tasks that answer for who does not |
| `MCTimeSheets` | an instance for TLC: `sheets` |
| `TimeSheetsProofs` | type correctness, the order of the states, the status, the approval, the confirmation, proved |
| `ClientJobs` | a client and its jobs through the workflow engine, statement by statement |
| `MCClientJobs` | an instance for TLC: `clients` |
| `ClientJobsProofs` | type correctness and every property of `ClientJobs`, proved |
| `Invoices` | the invoices of one customer, their generation, and their copies in the accounting service |
| `MCInvoices` | instances for TLC: `invoices`, `invoice_update` |
| `InvoicesProofs` | type correctness and every property of `Invoices` but the one the code violates, proved |
| `Subscriptions` | the subscriptions of one company, the payment provider's copies, the access of its user |
| `MCSubscriptions` | an instance for TLC: `subscriptions` |
| `SubscriptionsProofs` | type correctness, that one stays active, and that what is canceled, and only that, ends at the provider, proved |
| `SmsBalance` | the SMS balance of one company: messages, charges, `fetch_payments`, settings |
| `Ledger` | the abstract specification: messages spend, each invoice adds once |
| `MCSmsBalance` | instances for TLC: `balance_serial`, `balance_race` |
| `SmsBalanceProofs` | type correctness, the bounds of the balance under any concurrency, the ledger and the window of charges without it, proved |
| `TaskLock` | the cache lock of periodic tasks, with expiry and killed runs |
| `MCTaskLock` | an instance for TLC: `lock` |
| `TaskLockProofs` | type correctness and mutual exclusion up to what breaks it, proved |

`TimeSheets` and `ClientJobs` compose the engine of `Workflow` with the objects that
it governs. The components meet where one takes another's result as its input:
`JobOffers` makes and deletes the sheets whose later life `TimeSheets` is, and `Invoices`
bills sheets that are submitted and approved, the two columns of the row of `TimeSheets`.

### JobOffers

A *handler* is a process that runs a request of the API, or the transaction in
which a reply is processed. A step of a handler is a read of the code or one of
its commits:

- `BeginAccept`, `AcceptCheck`, `AcceptRefuse`, `AcceptSave`, `AcceptSheet`,
  `AcceptClose`, `AcceptSweep` follow `JobOffer.accept` through
  `JobOffer.save`, `check_job_quota`, `_cancel_for_filled_quota` and
  `TimeSheet.get_or_create_for_job_offer_accepted`;
- `BeginCancel`, `CancelSave`, `CancelSheet` follow `JobOffer.cancel`;
- `BeginResend`, `BeginSend`, `ResendSave` follow the viewset's `resend` and
  `send`, with the checks of `is_available_for_resend` and
  `is_available_for_send`;
- `ReadReply` and `CommitReply` (or `RollbackReply`) are the reads and the
  commit of the transaction of `BaseSMSService._process_sms`, which calls
  `JobOffer.process_sms_reply`.

`Create`, `Destroy`, `SheetConfirm`, `SheetDecline` and `SheetSubmit` are
requests of a single commit. `SkipOffer`, `SendOffer` and `DeferOffer` are the
Celery task that sends an offer, which locks the row and is one step;
`RejectOffer` is the task that tells a candidate the shift is full. `Tick` is
time: the hour before a shift and the day of the shift matter, nothing finer.

The status of an offer is the column, plus "absent" before its creation and
"deleted". A time sheet is reduced to what the offer's code asks of it: whether
it exists, its `going_to_work_confirmation`, and whether hours were written to
it (which changes `shift_started_at`, the other key of `get_or_create`).

Abstractions: a statement is atomic (the sub-query and the update of the sweep
are one statement); a transaction's reads happen together, and so do its writes
at the commit. A candidate without a usable phone number is one the SMS
service does not reach (`SmsCandidates`). `JobOffer.save` for an initial offer
queues the send task at once; the scheduling to an hour is the time the task may
wait in the queue.

### TimeSheets, with Workflow

An object of the workflow engine has a set of active states. `Workflow.Node` is a
row of the fixtures: the states that stay active beside it, and those it requires.
`Allowed` is `WorkflowProcess.is_allowed`, `Activated` what `WorkflowObject.save`
leaves.

A *handler* of `TimeSheets` reads the row and makes the copy that it saves (`Answer`,
`Reply`, `Submit`, `Approve`, `ApproveManually`, `NotAgree`, `Show`, `Decline`,
`AutoConfirm`), and then runs `TimeSheet.save`: before the row the states 30, 40 and 70, one
after the other (`First`, `Further`), after it state 20 of a new confirmation. Each of
them is five steps: `Test` (`is_allowed`), `Clean` (the validation of
`WorkflowObject.save`, which asks again and raises if another handler was faster), `Clear`
and `Activate` (the two deactivations of the states that do not stay, before and after the
hooks), `Insert`. Outside of a transaction (`Submit`, `ApproveManually`, `Show`,
`AutoConfirm`) a step is seen by everybody at once; inside one the changes are kept in
`on` and `off`, which only the handler sees (`View`), until `Commit`. A transaction that
has written the row, or selected it for update (`Answer`), holds its lock (`Unlocked`,
`Held`). `AutoApprove` is one `UPDATE`, which bypasses `save()`. `Written` says which
columns each of them writes. `Kill` ends a handler between two statements. The history
variable `raced` says that a copy was saved although the row had changed since it was
read, `broken` that a handler was killed, or failed in `Clean` outside of a transaction,
`doubled` that states made way for one that was there by then.

Abstractions: the states that one loop deactivates go together; the locks on the rows of
the states are not modelled; the creation of a sheet is one step (`Init`), in the
transaction of `get_or_create`, and a sheet for which checks are disabled is confirmed from
the start (`hr/models.py:1434`). The reminder to submit hours is left out: it is
scheduled only if a worker answers `app.control.inspect().scheduled()`
(`hr/models.py:1557`), and changes no row. `Decline` may fail without effect: on another day
than that of the shift's end it looks for a key that only the other event has
(`hr/tasks.py:404`).

Hours are one fact, whether they are submitted; time is the check before the
shift, and the start of the shift. The first state of a sheet created after the time
of its check is 10 only: `going_set` is computed before the confirmation
(`hr/models.py:1662`), so state 20 and those after it never follow (`late`).

### ClientJobs

`WorkflowObject.save` is `BeginClient` (or `BeginJob`, or the `Check` of a hook or of a
new job), `Clear`, `Hook` and `HookJob`, `Insert`: validation, deactivation of the
states that do not stay, the hooks, the row of the new state last. `JobAllowed` adds the
required functions of a job to the rule: an active client, and no other job at
its jobsite and position. `left` and `raced` remember what the properties except:
jobs that a ban or failure of the client left confirmed, and objects on which two
workers were at once.

### Invoices

A worker runs one task or request at a time, statement by statement, outside of any
transaction:

- `Recreate` and `Nightly` begin `generate_invoice`; `Select` takes the sheets of a
  group that have no line, `ReadRule`, `SaveRule`, `Insert` make a new invoice with the
  number of the rule, `ReadLines`, `DeleteLine`, `InsertLines`, `SaveTotal` replace
  its lines. `InvoiceDates`, `Matching` and `NightDates` are the periods of
  `get_invoice_dates`, `get_invoice` and the nightly task on a calendar in which
  every month has 31 days;
- `BeginSync`, `Schedule`, `Get`, `Mark`, `Compare`, `Post`, `Put`, `Answer`, `Fail`,
  `Done` are `sync_invoice` and the responses of the accounting service, among them
  an error and a company file that is disabled; `remote` is what the service holds;
- `BeginRequest`, `Approve`, `Destroy` are the requests, `CheckUnpaid` the payment,
  `SheetReady` and `NextDay` the surroundings, `Die` a worker that is killed;
- `DeleteSheet` is the deletion of a job offer, which takes its sheet, and by cascade
  the line of it on any invoice (`gone`, `cut`).

The lines of an invoice are a bag of sheets and its total their number; amounts,
taxes, files and e-mails are left out.

### Subscriptions

`Write`, `ReadOthers`, `EndOther`, `CloseOther` are `Subscription.save` with its loop
over the other active rows; `Create`, `CheckInvoices`, `Grant` the request that creates
one; `BeginCancel`, `Cancel` the one that cancels it; `Retrieve`, `SyncPeriods`,
`SyncPermissions` an iteration of `sync_subscriptions`; `CancelAccess` the task it
queues. `remote` is the provider's subscription, which `Settle` (paid or not) and
`Renew` (a period ends) change by themselves. A row is `late` two weeks after the end
of the period that it has stored. `Deactivate` asks the provider to end a subscription
with its period; the provider refuses it for one that is over or was never paid, and may
refuse it for any other (`Refuse`), and the caller swallows that and writes "canceled" all
the same. `Error` is any other error of a call, which may have been carried out: it ends
a request, and the synchronisation goes on with the next row. `CreateLost` is a creation
whose answer is lost, `Die` a worker that is killed. The history variable `refused` holds
the subscriptions that the provider last refused to end, `cut` says that a save was cut
short before it had closed the others, until another save looks for them.

### TaskLock

`memcache_lock` adds a key to the cache, yields whether it did, and deletes the
key in a `finally` block unless its time has passed. A run goes from "new" to
"arrived" (its `timeout_at` is computed), "working" or "refused" (the answer of
`cache.add`), "ending" or "leaving" (`Check`: it has found its time not yet over) and, by
`Delete`, "done". Between `Check` and `Delete` it may be held up for as long as its host
likes: `late` counts that time up to more than the margin. `Crash` is a killed
worker: no `finally`. `Tick` lets the key, the right to delete and the run's share of the
key expire together. The history variable `freed` holds the runs whose key was deleted
by a *stray* run: one that was refused, one held up for longer than the margin, or one
whose own key was deleted so.

### SmsBalance

A *process* is a worker that runs `charge_for_sms` (one of them runs
`fetch_payments`, which the scheduler starts one at a time) or a sender, which
sends messages and runs the requests of the settings. `copy[p]` is the
`SMSBalance` instance it has in memory, with `Company.sms_enabled`, and `row` what
is committed; `save()` writes all of the copy.

- `BeginSend`, `SaveSend`, `CommitSend` (or `RollbackSend`) follow
  `BaseSMSService.send`: the checks of `sms_disable` and `substract_sms_cost` on an
  unlocked read, the update, which locks the row, and the end of the transaction;
- `TakeCharge`, `Pay`, `CommitCharge` (or `FailCharge`) follow `charge_for_sms`:
  `select_for_update`, the window of three minutes, the invoice and its outcome, the
  commit of the payment and of the balance. An outcome is "paid", "declined" (a
  `CardError`), or another error, after the money was taken ("error_paid") or not
  ("error_open"); the latter two also stand for a worker that is killed;
- `MarkPaid`, `ReadCredit`, `SaveCredit` and `DropVoid` follow `fetch_payments`, which
  runs outside of transactions;
- `Fund` and `BeginSettings`, `SaveSettings` are the requests; `PayLater` is the
  provider; `WindowEnds` is time.

`Saved` and `QueueCharge` are `SMSBalance.save`: every step that saves uses them. A
charge is queued by the statement and not undone by a rollback. Refused messages
change nothing and have no action. Amounts are in segments (`segment_cost` is 1),
auto-charge is on, and a top up adds `TopUp` whatever its tax and discounts.
`DisableSMSCompanyView`, which clears `sms_enabled` by hand (`billing/views.py:244`), is
left out: `EnabledWithFunds` is about what `save()` makes of the flag.

## 3. Runs

| run | instance | shows |
|---|---|---|
| `serial` | 2 offers, 1 place, 1 process, pre-shift check on, one candidate that SMS does not reach; fairness | requests that do not interleave never overbook, leave each accepted offer its sheet and no other offer one, release candidates to the carrier list, reject only when the shift is full; a message that is due is sent, whatever reopens and cancels its offer |
| `recurring` | 3 offers on 2 days, 1 process | only a candidate of an earlier day is accepted on a full shift |
| `compete` | 3 offers of 3 candidates, 1 place, 2 processes | overbooked by at most one place for the second process; refines `Roster` |
| `overbooking` | 2 processes | **violated**: two acceptances take the last place |
| `sheets` | 1 sheet, 2 handlers, 2 requests besides the tasks, 1 kill; fairness | status, states and approval agree unless a stale copy was saved; the states come in order, but for one named race; declined hours are submitted again |
| `clients` | 1 client, 2 jobs at one place, 2 workers, 1 kill | a job is confirmed only for an active client, and one at a place; no object loses its states |
| `invoices` | 2 sheets, 2 invoices, 2 workers, 3 tasks (a deletion of a sheet counts as one), 1 death, 3 rules | a sheet is billed once; numbers, totals and the status of the accounting service agree with what happened, deleted sheets apart; approved invoices keep their lines; a request bills its sheet |
| `invoice_update` | the same | **violated**: an invoice updated with a new sheet loses its lines |
| `subscriptions` | 2 subscriptions, 1 server, 1 synchronising worker, 1 request, 1 fault (an error, a refusal, a lost answer or a kill), the trial over; fairness | at most one stays active; what is canceled ends, unless the provider refused; a paid one is active again and again; the only one is not ended while it is paid; access goes with the last |
| `lock` | 3 runs, a key of 3 ticks, a margin of 1 | mutual exclusion up to expiry, but for the turn of a key that a stray run deletes; the key goes |
| `balance_serial` | 1 process, 2 invoices, messages of 1 and 2, fairness | refines `Ledger`; enabled with funds; no double charge; late payments are credited |
| `balance_race` | 2 senders, 1 worker, 2 invoices, every outcome | never more than was paid, never a debt of a message or more |

Bounds. One place and two or three offers make the quota bite: the bound of
`compete` is two accepted offers, so three candidates are needed for it to be
exceeded. `MaxTime` covers the ticks before, at and after the last hour
(`EarlyStart`: shifts at 2 and 3) or only those (`LateStart`: at 1 and 2).
`MaxQueue` bounds the send tasks waiting for one offer: one by creation or resend
is enough to meet every state of the offer, because a task carries no data.
`Expire = 3`, `Margin = 1` let a run read the clock before, in and after the margin, and
be held up for less and for longer than it; the third run takes the turn that a stray
one has freed.
In `compete` the two processes are interchangeable, and so are two candidates
with their offers (`CrowdSymmetry`); only safety is checked there. Its `VIEW`
drops what guides no step of that instance and appears in no property
(the carrier list, the rejections, details of time sheets and plans): states with
one view have the same successors up to the view, and the same offers accepted.

In `sheets`, two requests are what a lost approval takes, since the tasks are not counted
and one of the two handlers may run any number of them; `MaxFaults = 1` kills any one
of the handlers at any statement. Larger instances were checked for safety while the
exceptions were worked out: three handlers with two requests, and two with three requests
and no kill. Without any one of the exceptions `raced`, `broken` and `doubled` the
properties that name it are violated within the bounds of the run.
In `clients` the two jobs share a place, because jobs of different
places only share the client, which one job shows; the workers are
interchangeable, and so are the jobs. In `invoices` the sheets are of the days 3 and 155,
which lie in different months. Day 155 is the last of a month, which monthly periods miss,
and the fifteenth day from the Monday 15 on, which is the one day that a fortnightly
period misses, unless there is no invoice yet; the nights of the days 15 and 156 end a
week, a fortnight and a month. Each rule joins a way to separate with a
period. Three tasks are a generation, its repetition or update, and a transmission, an
approval or a deletion between them. In `subscriptions` the first subscription is
paid, so that the request cancels it or creates one beside it, while
`sync_subscriptions` runs without bound.

In the runs of the balance, it starts at 2 with a top up of 2 below a limit of 1:
one message reaches the limit, the next one the end, so charges, refusals and
overdrafts all occur within two or three invoices. `MaxQueue` only keeps new requests
from starting while that many charges wait; those under way go on queueing. A charge
starts only while an invoice is left. In `balance_race` the invoices are
interchangeable (`InvoiceSymmetry`; safety only).

Fairness. A process finishes the request it runs and the broker delivers the
tasks (`WF` for each handler's steps, each task and each rejection); nothing
makes a user answer, cancel or resend. `TaskLock` assumes only that time passes.
In `SmsBalance` a process at work goes on; since it waits for the row, whose lock
others take again and again, this is strong fairness (PostgreSQL grants a row lock to
its waiters in turn), and so is that of `MarkPaid`, since the scheduler starts
`fetch_payments` again and again (`celeryconfig.py`).
In `TimeSheets` handlers go on, unless killed, and a worker runs `AutoConfirm` once its
delay has passed; nothing makes the other tasks run. In `Subscriptions` a worker at work goes
on, `CancelAccess` is delivered, and each row is synchronised again and again (strong
fairness: the schedule, `crontab(hour=3)`, starts `sync_subscriptions` each minute from
three to four each night, and each run goes through all rows; an exception of another
kind than the provider's errors, as for a company without a user, would end a run early
and is not modelled). `ClientJobs` and `Invoices` assume no fairness; they have safety only.
Deadlock is not checked: a job whose offers are all removed, a lock whose runs
are over, a balance that is spent with no invoice left, or an instance whose bounded
requests are used up has nothing left to do.

## 4. Proofs

`JobOffersProofs`, for any number of offers, shifts, candidates and processes,
any workers asked for and any clock (assumption: `JobOffersAssumption`):

- `TypeCorrect`: `TypeOK`, which includes that a busy handler works on an offer.
- `QuotaInvariant`: the bound of the accepted offers is not inductive, since a
  handler that has found a place may be slow to write it. `Taken(s)` adds those
  places to the accepted ones, and `QuotaInv` bounds it by the workers and the
  other processes. The check that finds a place has fewer accepted offers than
  workers, and the others taken are one for each other process (`OnePerHandler`);
  a write moves its place from found to accepted; every other step takes none.
- `OverbookingIsBounded` follows; with one process the quota is exact.
- `RosterImplemented`: a step changes the accepted offers by at most one, and the
  one it books was taken already, so `QuotaInv` leaves room for it in `Roster`.
  Here sweeps matter: they cancel only offers that are not accepted.

`JobOffersSerialProofs`, for the same constants and one process (hypothesis
`OneHandler`; the Celery tasks and the clock still step between any two steps of a
request): `SerialQuotaExact`, `SerialSheets`, `SerialNoOrphan`, `SerialBooksByRule`,
`SerialReleases`, `SerialRejects`. With two processes each of these may fail, since what
a request has read may be gone when it writes; the hypothesis is what the code needs.
`SerialInv` says that it is not gone: the plan of the request still fits the row and the
quota (`Informed`); each offer agrees with its sheet (`Settled`) but the one whose sheet
is the next write (`Settling`); and no hours are there before the last hour
(`WorkedLate`), since `get_or_create` makes another sheet beside one with hours.

`TaskLockProofs`, for any number of runs, any expiry and margin:
`LockTypeCorrect`, `LockInvariant` and `RunsExclude`. What a stray run deletes is
remembered for each key (`freed`), since that breaks the lock (section 5); the theorem
says that nothing else but expiry does, and that it breaks no other turn than that of the
key. The invariant adds where the key is: the key of a run that works or ends is in the
cache until it expires, unless `freed`; a run's right to delete ends the margin before
its own key does (`grace + Margin <= own`), so that one which has read the clock in time
and is not held up for longer than the margin (`late`) still finds its own key there.

`SmsBalanceProofs`, for any number of processes and invoices, any amounts and any
outcomes (assumption: `SmsBalanceAssumption`):

- `TypeCorrect`.
- `MoneyInvariant`: that the balance is at most what was paid (`FundedByPayments`) is
  not inductive, since a copy is written back at any later time. `MoneyInv` bounds
  the copies too, which only works because what was paid never shrinks; and it says
  that the invoice a process is about to count is paid, counted by nobody yet, and
  nobody else's: the row lock for charges, the status of the payment between a
  charge and `fetch_payments`. `BalanceIsFunded` follows.
- `OverdraftIsBounded`: a copy that passed the check is positive (`OverdraftInv`), so
  one message more leaves less than its own size of debt, in any interleaving.
- `SerialLedger` and `SerialEnabled`, under the hypothesis `OneProcess`: when nothing
  overlaps, the copy of the process at work is the row (`SerialInv`), and the commits
  are the steps of `Ledger`. Without the hypothesis a top up may be lost (section 5).
- `SerialChargedOnce`, under `OneProcess` and `Decided` (the provider pays or declines):
  the only recent invoice that is not void is the row's last payment, or that of the
  process about to commit (`LastInv`), so the next charge sees it. After any other error
  the payment is rolled back, the window with it, and the company charged again; the run
  takes the same outcomes for this reason.

`TimeSheetsProofs`, for any number of handlers, requests and kills (assumption:
`TimeSheetsAssumption`): `TypeCorrect`, `StatesFollowGraph`, `StatusAgrees`,
`ApprovalIsKept`, `ReadyApproved`, `ConfirmationRecorded`. That the status agrees with the
row is not inductive, since a handler may save a copy it read long before. `CopyInv` says of each copy what its request
changed (`CopyOf`), so that its save, if the row is still the one it read, makes a
change that `UpdatedStatus` allows; if it is not, `raced` says so. That the states come in
order is not inductive either, since what a handler has tested or validated may be gone
two statements later. `StateInv` says which states are there at each step of each handler,
seen from inside its transaction (`PlaceOK`, `SetOK`): the confirmation comes before all
else and is created by whoever holds the row, of whom there is one (`FirstOK`), and what a
handler is about to insert has those before it (`OrderOK`). What the others do in between
is summed up in `Moves`: the states of confirmation and hours stay once they are there, and
that of the approval goes only when a state is created twice (`doubled`): a slow
handler that makes way for state 30 deactivates 40 when another one has inserted both, while a third has passed the validation of 70. What a state stands for needs
`MeansInv`: a copy has the approval and the answer of the row it read, unless its request
changes them (`KeepsOK`), state 40 stands for a row that is approved or corrected or for a
handler about to write one (`Meant`, `ReadyOK`, since the states are made before the row
is written), and state 20 is committed with the answer. So a kill never separates a
confirmation from its state, which is why `ConfirmedIsRecorded` does not except one.

`ClientJobsProofs`, for any jobs at any places, any workers and kills (assumption:
`ClientJobsAssumption`): `TypeCorrect`, `PlacesUnique`, `NoStateless`,
`JobsConfirmedForClient`. What a request has validated is used two statements later.
`PlaceInv` says that until then it holds (`Validated`): who works on a job that was not
raced is alone at its place (`Alone`), and races are recorded for a whole place
(`RacedOK`). `StateInv` adds that whoever deactivated the last state of an object is
about to insert one, which no validation refuses any more, and `ClientInv` that a
confirmed job of a client that is not active is in the list of a hook at work.

`InvoicesProofs`, for any sheets, days, groups, rules, invoices and workers, and any
deaths (assumption: `InvoicesAssumption`): `TypeCorrect`, `SheetsBilledOnce`,
`InvoiceNumbersUnique`, `TotalsAreOfLines`, `SyncingHasItsTask`, `SyncedInvoicesSent`,
`ApprovedKept`, `RequestedIsBilled`. They share `WorkInv`: who works on an invoice that
is not mixed is alone there, so that the copy of a request is the row's but for its
payment, and a generation works on an invoice that it may change. On top of it:

- `NumberInv` follows the number from the rule to the row, and `BilledInv` says that
  the sheets read as not billed still are not: one generation at a time while `overlap`
  is false.
- `TotalInv` and `SyncInv` name the step at which the worker is that makes good what
  is not yet so; `SentInv` says that what `sync_invoice` has seen at the accounting
  service is still there, at each step up to the status.
- `RecreateInv` follows the sheet of a request through its task: it is in a group still
  to do, among those about to get a line, or billed. `Intact` must hold too: a deletion
  takes the lines away, and an approval from an old copy inserts the row again without
  them. That needs three workers, so no run reached it: the attempt to prove
  `RecreateBills` as it was stated before, without that exception, showed it.
- A sheet that is deleted with its job offer takes one line off an invoice in the step
  in which the invoice becomes `cut`, so the total and the document stay at least the
  lines; a generation that still has the sheet in hand fails at the foreign key.

Totals are sums over finite sets. Their lemmas (`SumNat`, `SumOne`, `SumSingle`,
`MinNat`, `MaxNat`) are proved by a minimal counterexample, with the strict
subset as well-founded order (`Subsets`), since the provers cannot use the library's
induction theorems.

`SubscriptionsProofs`, for any number of subscriptions, servers and synchronising workers,
and any errors, refusals, lost answers and kills (assumption:
`SubscriptionsAssumption`): `TypeCorrect`, `CanceledEndsThere`, `OneStaysActive` and
`OnlyOneIsKept`. The second says that no subscription is canceled here that the customer
goes on paying for, unless the provider refused to end it. It rests on the order of the
code, which ends a subscription at the provider before it saves the row: `Sound` says that
a copy with the status "canceled" is of a subscription that is over, ending or refused, so
that it may be written at any later time. `SoundGrows` carries it over the steps of
others, since what is ending never ceases to.
That at most one subscription is active is false while saves are at work; `OneInv` says
that of any two that are active some worker is about to deactivate one, or to read
that it must, unless `cut`, and `WorkInv` that a worker never deactivates the one that it
saves.

Every invariant and every action property of the passing runs is proved. Only
model-checked are the six liveness properties (`OfferDelivered`, `LockFreed`,
`LatePaymentCredited`, `DeclinedIsResubmitted`, `PayingIsActive`, `EndedLosesAccess`),
since the provers know neither fairness nor `ENABLED`. What the runs show by a
counterexample (`NoOverbooking` with two processes, `UpdateKeepsLines`) is false. The
inductive invariants are proved and not among the properties of the runs.

## 5. What the code does not do

Shown by a run that expects a violation:

- Overbooking (`overbooking`): `check_job_quota` and the write of the offer are two
  statements.
- An invoice that is updated with a new time sheet loses the lines it had
  (`invoice_update`): the sheets that are billed already are not selected, so their
  lines count as outdated.

Met while modelling; the models do what the code does, and the properties name the
case as an exception where they would exclude it:

- `send_placement_rejection` misses an argument, so rejections are never sent
  (`hr/tasks.py:308`), and so does the rescheduling of a deferred offer, which is lost
  (`hr/tasks.py:191`). The tasks of `myob/tasks.py:109` never run their body, since
  the decorator of the lock is not called.
- The lock of a task is freed by the run it refuses, and by one that is held up for longer
  than three seconds between reading the clock and deleting the key: the key that is
  deleted is then that of another run (`core/tasks.py:36`).
- A top up is overwritten by the message that read the balance before it, and
  `last_payment` with it (`billing/models.py:237`); an invoice that is paid in spite of
  an error of the provider is never credited (`billing/models.py:279`).
- A time sheet created late lacks state 20, and so all later ones (`hr/models.py:1662`).
  Outside of a transaction, two handlers that create the same state make one of them fail
  with a `ValidationError` before it writes the row, so that a sheet may be ready to sync
  and not approved; a slow one takes away the state of the approval, and a third makes the
  sheet ready without it (`core/models/workflow.py:266`). The reminder to submit hours is
  not scheduled when no worker answers (`hr/models.py:1557`), and the message of a decline
  fails on another day (`hr/tasks.py:404`), so that the decline has no effect.
- No job on hold is confirmed again when its client becomes active: the hook runs before
  the state of the client is inserted. A ban has no hook, and a completed job may
  be reopened beside a new one at its place (`core/models/core.py:1642`).
- Invoices: deleting a job offer deletes the lines of its sheet, on approved and synced
  invoices too, and neither their totals nor the accounting service follow
  (`hr/api/viewsets.py:594`); the last day of a month, and the fifteenth of a fortnight,
  belong to no period (`hr/utils/utils.py:170`); an invoice is marked as synchronised
  although the company file is disabled (`myob/services/base.py:281`); a task that dies leaves its invoice
  "syncing", and it is never sent again; an approval saved from an old copy inserts a
  deleted invoice again (`core/views.py:112`); `check_unpaid_invoices` looks for a number
  without its company (`hr/tasks.py:848`).
- Subscriptions: after a change of plan the old one is still active at the provider,
  `sync_subscriptions` makes it active again, and its save ends the new one; a subscription
  that its customer canceled is active again in the row until its period ends; a row
  that is past its end takes the user's access away each night although a newer
  subscription is paid, and nothing gives it back; two saves at once deactivate each
  other (`billing/models.py:193`); one that the provider refuses to end, as it does for one
  never paid, is canceled here all the same (`billing/models.py:172`); and one whose
  creation is answered too late, or by a killed process, is known to no row
  (`billing/views.py:60`). `charge_for_extra_workers` compares the end of a period
  with a date (`billing/tasks.py:38`), so it selects only periods that end at midnight; for
  these it takes back that a subscription is to end.

Several properties hold only up to the first race of a certain kind, which a history
variable remembers (`raced`, `overlap`, `mixed`), or up to the first kill (`broken`): there
the code does go wrong, and the property says that nothing else makes it. They do not
catch the race itself; the hazards in `PROJECT.json` say so one by one.

## 6. What is left

The runs take most of a quarter of an hour, and each of them is as large as is useful
beside the others; what is left in the order of its weight:

1. `SmsReplies` (`sms_interface/`, `twilio/`): sent and received messages, duplicates
   and late replies; composed with `JobOffers` and `TimeSheets` through the reply.
   Abstract specification: each reply answers one message, once.
2. `Shifts` (`hr/models.py`, `hr/utils/job.py`): fill-in, extension,
   `delete_old_shifts` and overlapping offers, with `Roster` as the abstract side.
3. The composition of `TimeSheets` and `Invoices`: hours corrected after billing.
4. The carrier list, tokens, payslips (which follow `Invoices` without an update), and
   the split of hours among rate coefficients as a function, checked against a
   reference over short weeks.
5. To prove: an abstract specification of billing (each sheet goes from ready to billed
   once) that `Invoices` implements while generations do not overlap, and how far two
   overlapping generations can bill a sheet twice (a bound like that of `Roster`).

Not modelled, and not planned: the parts listed last in the inventory, which are
most of the lines of the repository. They read and write rows one at a time, format
text, describe forms and lists to the web client, or call remote services; they keep
no protocol that a model could check.

# fix_my_ride: TLA+ models and proofs

fix_my_ride is a multi-tenant backend for vehicle service centers: an Express
application over MongoDB (through Mongoose), with Redis for the background
queue, the response cache and token revocation, and Razorpay for payments.
This directory holds models of the parts whose behaviour is hard to test,
the TLC runs that check them on small instances, and theorems about them that
TLAPS checks for every instance. Paths below are relative to `src/src/`.

1. The system
2. What makes it hard
3. The modules
4. The runs
5. Fairness
6. Proofs
7. Known deviations
8. What is not modelled
9. Plan

## 1. The system

Every HTTP request is an async function in one Node.js process; several
processes may run against the same database. Between two `await`s a request
runs alone, and at each `await` any other request, job or process can step in.
There is one transaction in the code (sign-up); everything else is a sequence
of separate database calls.

| Component | State | Operations | Talks to |
|---|---|---|---|
| Service records (`services/serviceRecord.service.ts`) | `ServiceRecord` documents: status, technician, cost, labour, parts, feedback | create, update, status change, labour, parts, feedback, delete | counters, vehicle, odometer history, center statistics, notifications |
| Counters (`services/ownerStats.ts`, `staffStats.ts`) | `OwnerProfile.stats`, `StaffProfile.stats` | recount after every write | called by service records and vehicles |
| Background queue (`config/queue.ts`, `services/queue.service.ts`, `workers/`) | a hash per job and four sorted sets in Redis, the worker's in-flight set | enqueue, poll, process, retry, stop | handlers of e-mail and WhatsApp jobs; shutdown in `server.ts`, `app.ts`, `config/database.ts` |
| Redis and its stand-in (`config/redis.ts`) | three maps in memory where no server answers | get, set, del, keys, hashes, sorted sets | queue, cache, revocation lists |
| Invoices (`services/invoice.service.ts`, `models/Invoice.ts`) | `Invoice` documents, the yearly `Counter` | create, generate for a job, send, void, pay, overdue sweep, e-mail with PDF | payments, queue, notifications |
| Payments (`services/billing.service.ts`, `services/payment.service.ts`) | `Payment` documents | payment orders, webhooks captured and failed | the Razorpay gateway, invoices, subscriptions |
| Subscriptions (`services/subscription.service.ts`, `subscriptionPlan.service.ts`) | `Subscription` and `SubscriptionPlan` documents, the copy of a status in `Tenant` | subscribe, cancel, charged, ended; edit of a plan | gateway, tenants |
| Notifications (`services/notification.service.ts`, `jobs/*.job.ts`) | `Notification` documents | create, sent, read, failed, mirrored to WhatsApp, retention | queue, providers |
| Reminders and sweeps (`services/reminder.service.ts`, `jobs/scheduler.ts`) | `Reminder` documents, the mark of the last notice | acknowledge, snooze, complete (with the next occurrence), cancel; hourly and daily sweeps | notifications, subscriptions |
| Authentication (`services/auth.service.ts`, `utils/token.ts`) | `Account`: status, failed logins, lock, links, second factor; revoked tokens and suspension markers in Redis | register, login, refresh, logout, resets, suspend | every request |
| Roles and permissions (`services/role.service.ts`, `staff.service.ts`) | `Role`, `StaffProfile` with its role, custom and denied permissions | assign, grant, revoke, deactivate, delete | staff |
| Invitations (`services/invitation.service.ts`) | `Invitation` documents | create, accept, reject, revoke, remind, expire | vehicles (access of centers), staff |
| Onboarding, tenants (`services/onboarding.service.ts`, `tenant.service.ts`) | tenant, center, account, owner and staff documents | sign-up transaction, approval, deletion | notifications |
| Tenant isolation (`middleware/tenant/`) | the tenant of the request (AsyncLocalStorage) | filter of every query, stamp of every save | every scoped model |
| Vehicles and owners (`services/vehicle.service.ts`, `owner.service.ts`) | `Vehicle` with its owner, history and authorised centers; `OwnerProfile.vehicles` and totals | create, transfer, delete, authorise and revoke a center | counters, service records |
| Odometer (`services/odometerReading.service.ts`) | `OdometerReading` log, cached `Vehicle.currentOdometer` | record, verify, correct, delete | service records |
| Service centers (`services/serviceCenter.service.ts`), reviews (`review.service.ts`) | `ServiceCenter` with its list of services and cached rating, `Review` | add, change, remove a service; review | |
| Documents (`services/document.service.ts`, `storage.service.ts`) | `Document` rows and stored files | upload, verify, archive, delete | storage |
| Voice intake (`services/voiceIntake.service.ts`) | a draft that the client holds | parse and merge, confirm | accounts, owners, vehicles, service records |
| Response cache (`middleware/cache.middleware.ts`) | answers in Redis with a time to live | look up, fill, clear | every cached route |

What makes each of them correct:

- *Service records*: a job moves only along the transition table; completing
  it has its consequences once, in order, and only then; counters agree with
  the collection; the labour total agrees with the labour lines.
- *Queue*: an accepted job is not lost, is retried a bounded number of times,
  has a final result, and a worker stays within its concurrency. The stand-in
  answers as Redis would.
- *Invoices and payments*: numbers are unique, an invoice is credited with what
  was paid and no more, what the gateway captured is credited, a paid invoice
  stays paid, one overdue notice.
- *Subscriptions*: one payment per charge, every recorded charge renews, a
  paid period is not taken back, the cached status agrees with the document,
  a subscriber is charged what the plan says.
- *Notifications and sweeps*: each due item is announced once a day, nothing
  says "sent" that was not mailed, a read notice stays read, what was closed is
  not reopened by a sweep.
- *Authentication*: guesses are bounded whatever interleaves, a lock is not
  lost to a login that overlaps it, and who is suspended gets no further.
- *Vehicles, centers, staff*: a vehicle has one open ownership, its current
  one; figures kept twice agree; a change of one element of a list leaves the
  others alone.
- *Several documents written one after the other*: what stops half-way leaves
  nothing that refers to what is not there.
- *Isolation*: a request whose user has a tenant holds that tenant's documents.

## 2. What makes it hard

`PROJECT.json` lists the hazards with their lines. They fall into five kinds.

- **Read, await, write.** Most handlers load a document, await and save it.
  `save()` sends only the fields that differ from what was loaded. It checks
  the version only when it writes a whole array or an element by its
  position; two handlers overwrite each other field by field.
- **Effects after the decisive write.** A status is stored first and its
  consequences follow in separate calls; a failure in between leaves them out
  and the status says that there is nothing left to do.
- **Messages from outside.** Webhooks come late, twice or out of order, and the
  webhook controller answers 200 when processing throws.
- **Processes.** Workers share Redis but not their in-flight sets, and each runs
  the schedule; shutdown is handled by three listeners side by side.
- **Derived values.** Counters, totals, ratings, cached statuses and answers are
  recomputed by whoever remembers to.

## 3. The modules

An action is the code between two awaits, and `req[q].pc` names the await at
which request `q` stands. `Abort` (or `...Fails`, `Dies`) is a database call that
rejects or a process that dies at such an await. A rejection that writes
nothing is a stuttering step. History variables and constants' assumptions are
marked where they are declared.

### ServiceRecord

The jobs of one customer at one center. `rec` is the collection; `stats` the
counters of the owner and the technicians; `center` how often each job was
added to the center's statistics by `$inc`; `vehicle` the schedule and cached
odometer; `readings` the odometer history; `req` the requests in progress.

`updateStatus()` is `ReadStatus` (read, no-op and transition
checks), `ClaimStatus` (the `findOneAndUpdate` filtered on the status read
before), `WriteSchedule`, `WriteOdometer`, `InsertReading`, the refreshes
(`QueryFigure`, `StoreCounter`, with one `QueryFigure` per concurrent query)
and `BookRevenue`. `update()` is `Put`, `ReadPreviousTech`, `ReadCost`,
`WriteUpdate` and the refreshes that `UpdateDue` selects; `addLabor()` enters it
through `ReadLabor` and `WriteLabor`. `RefreshFails` is the error that
`refreshOwnerStats` and `refreshStaffStats` swallow.

A figure is represented by what it sums: a count by the set of jobs counted, a
spend by the set of jobs with their costs, a labour total by its lines. That
keeps a wrong sum visible where two wrong numbers could agree by accident.

`PutStatuses` is the set of `status` values that clients send on
`PUT /service-records/:id`. The controller passes that field straight to the
write, so a non-empty set breaks the lifecycle (section 7). Everything else is
checked and proved with `PutStatuses = {}`. `LaborFigures` are labour totals
that a client types in itself; the run that relates the total to the lines has
none, because a typed total is independent of the lines by design. A
technician is reassigned through `Patch.tech`: the service documents this
(`UpdateServiceRecordInput`, lines 128-137), while the PUT controller does not
copy the field, so the reassignment in the model is the service's operation.

### JobQueue and JobDelivery

`JobQueue` models the Redis sets command by command, several worker processes,
crashes, SIGTERM and restarts. The waiting set in score order is `due`, the jobs
whose score has passed, followed by `later`, those whose score lies in the
future (a retry's backoff). `Poll` merges
reading the keys and starting their jobs: one Redis connection answers in
order, so none of the process's own tasks can end in between. `task[p][j]`
is `processJob` in process `p`: `Load` reads the hash once (the attempt count
used after the run is this copy), `Unwait` and `Activate` are
`moveJobToActive`, `Unactivate`, `Complete` and `StampCompleted` are
`moveJobToCompleted`, `CountAttempt` and `Requeue` the retry, `Drop` and `Bury`
are `moveJobToFailed`. A Redis error inside the `try` goes to the catch block
(`RedisFails`); outside it, it is an unhandled rejection, which takes the
process down in `app.ts` (`Crash`). `Unhandled` jobs are of a type the worker
does not know, as when an older version polls a newer one's queue.

`JobDelivery` is the promise: at most `MaxAttempts` runs, at most one success,
nothing after it, and a job is given up only when its attempts have failed.
`DeliversAtMostOnce` says that `JobQueue` with one worker process implements
it, under the mapping given at the `INSTANCE`.

### InMemoryRedis and RedisStore

`RedisStore` is what the code expects of a Redis server: a string with its time
to live, a hash and a sorted set, and the commands that `config`, `services`
and `utils` call. `InMemoryRedis` is the class that takes its place when no
server answers: expired strings stay in the map until they are asked for, a
sorted set is a map in insertion order that is sorted when read, and
`SliceRange` computes the ends of a range itself. `ActsLikeRedis` says that the
second implements the first: an expired entry maps to none, and the answer of
every call is one that a server could give. `answer` carries the call it
belongs to, so that no answer passes for that of another call. `KEYS` may list
an expired key (its only caller deletes what it gets), and equal scores may
come in any order. The numbers that writing commands return are left out:
nobody reads them.

### Invoicing

The invoices of one job (and others of the same center), the payments of one
customer, and the gateway as its environment. A handler loads a document
(`Load` keeps it in `req[q].doc`), awaits, and saves: `Merged` writes a field
only if it differs from the loaded copy, and `Hooked` is the pre-save hook that
turns an open invoice past its date into an overdue one. Handlers:
`generateForServiceRecord` (`FindExisting`, `NextNumber`, `InsertInvoice`,
`Reload`, `SaveSent`), `create` (`CreateDraft`, ...), `markAsSent`, `void`,
`createPaymentOrder` (`LoadToPay`, `InsertPayment`), `handlePaymentCaptured`
(`FindPending`, `CompletePayment`, `LoadToCredit`, `RecordPayment`),
`handlePaymentFailed` for an attempt on an order (`FindDeclined`,
`FailPayment`), the daily sweep (`FindOverdue`, `MarkOverdue`, `SendNotice`,
`NoticeFails`) and the `invoice_email` job (`LoadToMail`, `SavePdf`,
`SaveMailed`). `Capture`, `Decline` and `DueDatePasses` are the environment;
a webhook can be handled any number of times once its event has happened.

"viewed" and "cancelled" are never set by the code, so no action sets them;
they stay in the status sets because the code's filters name them. An order is
always for the full balance, and its Payment for 10% more (`Charged`), so
"partially_paid" is not reached either. The stored PDF file, and a failure
event for the same attempt that was captured before, are left out.

### SubscriptionBilling and PlanCatalog

`SubscriptionBilling` has the subscriptions of one tenant: `sub` the documents,
`mandate` the subscriptions at the gateway, `receipt` the Payments, `tenant` the
copy of plan and status. Subscribing registers the mandate before the document
is inserted; `charged` looks the payment up, records it, renews, and refreshes
the copy, each a step; `ended` and `cancel` store a status and refresh the copy.
The gateway charges a mandate once a cycle and reports each charge at least
once, in any order. `crossed` holds the subscriptions whose handlers have
overlapped, `lapsed` those a handler has died on, `overtaken` those charged again
before the last charge had been handled: the properties say what holds without
these, and section 7 what happens with them.

`PlanCatalog` is one plan and its counterpart at the gateway. An edit of name
or price registers a new counterpart (`Register`) before it is stored
(`WritePlan`); fields that are not sent keep what was loaded.

### NotificationDelivery, NoticeSweep and MCNotices

`NotificationDelivery` is the life of one notice: its document (`note`), the
`emails` job with its retries (`mailJob`), the WhatsApp job that mirrors it
(`waJob`), the reader, and retention. The queue appears as `JobDelivery` promises
it. `mails` counts what the provider accepted.

`NoticeSweep` has `checkReminders()` and `checkExpiringSubscriptions()`, run by
every process, beside the requests that change a reminder. `sweep[p]` is one
run: `Find` loads what is due, then one document after the other is loaded,
announced and marked. `excused` holds what two sweeps held at once or what
failed between notice and mark. `MCNotices` instantiates both; a behaviour
exercises one of them.

### MCWorkspace and its parts

Sixteen smaller modules share no state with each other. `MCWorkspace` holds the
variables of all of them, names an instance of each, and draws in `Init` which
one a behaviour exercises (`part`): the states of the parts add up instead of
multiplying, and a property of several parts is one conjunction.

| Module | State | Actions, and what they stand for |
|---|---|---|
| `VehicleOwnership` | vehicles with owner and history, each owner's list and total | create, transfer (load, save under the version, move between lists, recount both owners), delete, an owner's own list, another save of the vehicle |
| `SignIn` | one account, its profile, requests with their copy of it | register (account, then profile), login (load, compare, save the failure or the success), verification and reset links, an admin's change of status, time |
| `Sessions` | status and second factor, the marker in Redis, live tokens by age | login and its challenge, refresh, logout, set-up, enabling and removal of the second factor, suspend and activate, expiry of markers and tokens |
| `OdometerReadings` | the cached value, the rows, their correction | `record()` as two writes, verify, correct, delete, a PUT of the value itself |
| `CenterAccess` | the entries of authorised centers in order | authorise (push, by position, or the whole array), change or revoke access, the push of an invitation |
| `Invitations` | status, expiry, uses and grants | create, accept (grant, then save), revoke or reject, remind, update, expire, delete |
| `ServiceCenters` | the list of services with its version | add, change by position, delete by name, a PUT of the list, deletion of the center |
| `Reviews` | the reviews by account, the cached rating | upsert, then summary, then store |
| `Documents` | rows and files | upload (file, then row), verify, archive, delete (row, then file) |
| `Onboarding` | what of each organization is stored, keys taken by others | the transaction write by write, commit, notification, decision, deletion |
| `Permissions` | roles, and one profile with role, custom and denied permissions | update and delete roles, create, update and delete the profile, assign and remove the role, grant and revoke permissions |
| `VoiceIntake` | drafts, accounts, profiles, vehicles, job cards | parse and merge; confirm step by step, each finding what an earlier attempt left |
| `PlanCatalog` | a plan and its counterpart | above |
| `ResponseCache` | the plans' version, the cached answer, requests by age | look up, compute, fill, clear by hand, change, time |
| `TenantScope` | the tenant of each document, the context of each request | enter (by user, header or nobody), find, save, create, delete, leave |
| `InMemoryRedis` | three maps | above |

What a conversion does is modelled where a property depends on it: `SliceRange`
and the ordering of sorted sets, the filter of `applyTenantScope` with its
`$eq null`, the rounding of `GetRatingSummary`, the cut of a full
`loginHistory`. Payloads, texts and amounts that no property tells apart are
members of small sets (`Things` stands for owners, centers, names, roles or
tenants, depending on the part).

### Other MC modules

`MCServiceRecord`, `MCJobQueue`, `MCInvoicing` and `MCSubscriptionBilling` add the
symmetry sets; the instances are in the `.cfg` files. The
modules named `...Proofs` extend the modules they prove about and declare no
state. No
run that checks a liveness property uses symmetry.

## 4. The runs

| Run | Expect | Instance | Question |
|---|---|---|---|
| `ServiceRecordLifecycle` | pass | 2 jobs, 2 requests at once, failures at every await | Are the effects of completion applied at most once, in order (`OneTimeEffects`), only for completed jobs (`EffectsOfFinishedJobs`), and is completed terminal (`CompletedIsTerminal`)? |
| `ServiceRecordSequential` | pass | 2 jobs, 2 technicians, 2 labour lines, one request at a time | Is every counter exact (`StatsExactWhenQuiet`) and every labour total that of its lines (`LaborTotalMatchesLines`) once the request is answered? |
| `ServiceRecordBooking` | pass | 1 job, 2 requests at once, no failures | Is every completion that won its transition booked in the end (`CompletionIsBooked`)? |
| `ServiceRecordReopened` | violation | 1 job, PUT may carry "scheduled" | With a status on PUT, is the revenue of a job booked once (`RevenueBookedOnce`)? |
| `JobQueueCrash` | pass | 3 jobs, one of an unknown type, 1 process with 2 slots, crashes, SIGTERM and restarts anywhere | Does the queue keep the promise of `JobDelivery` (`DeliversAtMostOnce`), is a result final (`ResultIsFinal`), are the slots respected (`SlotsRespected`)? |
| `JobQueueShared` | pass | 2 jobs, one of an unknown type, 2 processes with 2 slots, Redis errors in the try block | Does an accepted job stay in some set or some hand (`NothingLost`), and is it settled in the end (`EverySettled`)? |
| `InvoicingSequential` | pass | 2 invoices, 2 orders, one handler at a time, failures at every await, redelivery, declined attempts | Is an invoice never credited with more than its completed payments (`NeverOvercredited`), noticed once (`NoticeOnce`), and does paid stay paid (`PaidIsKept`)? |
| `InvoicingSettles` | pass | 2 invoices, 1 order, 2 handlers at once, no failures | Are numbers unique (`NumbersUnique`) and every captured order credited in the end (`CapturedIsCredited`)? |
| `SubscriptionBilling` | pass | 1 subscription to a free or a paid plan, 2 charges reported in any order, 2 handlers at once, one of which may die | Is a charge recorded once (`OneReceiptPerCharge`) and does it renew (`RecordedMeansRenewed`), does the copy agree (`CacheAgrees`), is a paid period kept (`PeriodOnlyGrows`)? |
| `Notices` | pass | 1 notice with 3 attempts, its mirror and reader; 2 sweeps over 2 reminders or a subscription, 1 request, failures anywhere | Does "sent" mean mailed (`SentMeansMailed`), does every mail settle (`MailSettles`), stay read and closed what was (`ReadIsKept`, `ClosedStaysClosed`), is each thing announced once a day (`OneNoticeADay`)? |
| `NoticesReminders` | violation | 1 reminder, the schedule running | Is a due reminder mailed (`DueReminderIsMailed`)? |
| `Workspace` | pass | the sixteen parts of `MCWorkspace`, 2 requests at once, failures anywhere | The properties below |

The properties of `Workspace`:

| Property | What it says, by part |
|---|---|
| `TypeOK` | the type invariant of the part exercised |
| `HistoryMatchesOwner` | a vehicle's history has one open entry, its last, and it is of the current owner |
| `CopiesAgree` | an owner's total counts his vehicles; a center's rating is the mean of its reviews; the current odometer value has its row; a plan's counterpart carries its name and price; a cached answer whose time is up shows the plans as they are |
| `GuessesBounded` | however failed logins overlap, a bounded number of guesses locks the account |
| `LockKept` | a lock ends by time or a reset, not by what an overlapping handler saves |
| `SuspendedShutOut` | once a suspension has gone through alone, no token of before it is admitted |
| `AskedTenantOnly` | a request of a user with a tenant holds documents of that tenant, or of the one it has asked for by name in a filter or a body |
| `NothingHalfDone` | a document that is not deleted has its file; an organization is whole or absent; a job card has a customer; an accepted invitation has granted before, and once, or has found nothing to grant |
| `OthersKept` | authorising a center, changing a service, granting a permission, or speaking of one field leaves alone what others wrote since it was read |
| `ActsLikeRedis` | the stand-in implements the Redis server |

The first run of each module that has it also checks the type invariant
(`ServiceRecordSequential`, `JobQueueShared`, `InvoicingSequential`).

Several of these hold only outside of a failure or an overlap that the code does
not guard against. The condition is part of the property, by a history
variable (`stale`, `typed`, `loose`, `mixed`, `torn`, `muddled`, `excused`,
`crossed`, `lapsed`, `overtaken`, `stumbled`) that is set exactly by the step that breaks it
and, where the code repairs the damage, cleared by the step that repairs it;
section 7 lists what it excludes. So `TotalsExact` says both that a recount that
is alone leaves the right figure and that it repairs what an overlap left.

**Bounds.** Two requests are enough for most races in the code, because no
handler waits for another and each conflict is between one read and one
write. Two jobs show that requests on different documents share only the
counters. Three queued jobs with two slots make one job wait for a slot; three
processes make a key be read twice while a third is free. `MaxAttempts = 2` has
one retry and one final failure. Two technicians allow a reassignment. Two
invoices allow a void one and its replacement. `Totals = {10}` is one amount,
because no code compares the totals of two invoices; it is a multiple of ten
so that the 10% tax is a whole number. `MaxNumber`, `RoomForInvoice` and
`RoomForPayment` bound the invoice numbers and the free ids: a handler that
would run out half-way does not start. `MaxInFlight` is 1 in the sequential
runs, which ask what the code guarantees when requests do not overlap.

Two cycles (`MaxCycles`) let a charge come after a cancellation and before an
end, and after the report of the next; one refused report (`MaxRefused`) and one lapse (`MaxLapsed`) suffice to
reach each state of the copy. In `Notices`, three attempts of the queue meet
the two of `LastAttempt`, at which the handler reports a failure, which keeps
the code's order of the two numbers (5 and 3); two processes and two reminders
let a sweep be overtaken on either; the reminder's repetitions are bounded by
`MaxLeft`, notices per subject by `MaxNotices`.

In `Workspace`, one vehicle with a history of three entries lets two transfers
meet a third; two wrong passwords lock (`LockAfter`, five in the code), three
can be stored; an odometer row can be corrected below another; three entries of
centers let a whole-array save meet one by position and a push; two services,
so that one can take the other's place; a rating of three values rounds; two
keys of each kind let sign-ups collide on one and not the other; a time to live
of two ticks with a request of one lets an answer be stored after a clear; a
sorted set of two members with equal or different scores and ranges from -2 to
2 reach every case of `SliceRange`. `Things` has two members: every part needs
one to take from and one to give to.

`CHECK_DEADLOCK FALSE` is set where the instance comes to rest: it has a finite
number of ids, and a request slot with nothing left to ask does nothing.
`JobQueueCrash` checks deadlock: a process can always be stopped or restarted
there.

**Mutants.** Each property of a passing run, and each conjunct of `CopiesAgree`,
`OthersKept` and `NothingHalfDone`, has a mutated definition in its module,
marked "Mutant of", that breaks the property the way a plausible edit of the
code would: a filter that forgets the status, a count that is not stored, a
lookup that ignores the pending status, a number drawn by counting, a save
without its version, a file deleted before its row.

## 5. Fairness

- `ServiceRecord!FairSpec`: weak fairness of `Advance(q)`, the steps of a
  request already admitted. The event loop runs a request whose await has
  been answered, and the run has no failures. Clients owe nothing.
- `JobQueue!FairSpec`: weak fairness of `Poll` (the poll reschedules itself in
  a `finally`) and of each job's steps (Redis answers and handlers return).
  The caller of `enqueue()` and the clock of `BackoffElapses` owe nothing: the
  code reads the waiting set without looking at scores.
- `Invoicing!FairSpec`: weak fairness of the handlers in progress; strong
  fairness of the two webhook lookups for each order, since the gateway
  redelivers an event until it is answered, and a free slot comes and goes.
  Handlers do not fail in that run: the controller answers 200 to a webhook
  whose processing threw, so after a failure nothing is redelivered.
- `MCNotices!Spec`: weak fairness of a notice's mail job, as the queue promises
  by `EverySettled`. The reader, the provider and retention owe nothing.
- `MCNotices!FairSpec`: weak fairness of the schedule of every process
  (node-cron fires again and again) and of the steps of a sweep.

The other specifications state no fairness: their properties are safety
properties.

## 6. Proofs

All theorems hold for every value of the constants that satisfies the named
assumption of the module, and, where nothing else is said, for any number of
requests at once and with failures and crashes at every await. Each module of
proofs follows the same line: an inductive invariant, of which the property is
a part or a consequence; a lemma that `Init` establishes it; a lemma per action,
or per group of actions that change the same things, that a step keeps it.
Where an action property is proved, the lemma of a step says that too.

### ServiceRecordProofs

From `ConstantsOK`, and what else is stated.

- `TypeCorrect`: `Spec => []TypeOK`. The inductive invariant is `TypeInv`:
  the types, and for each request in progress what its next await needs
  (`RequestShape`: a job to work on, an allowed transition to claim, a cost
  block to write).
- `EffectsOnce`: `Spec => []OneTimeEffects`, `EffectsOnlyWhenFinished`:
  `Spec => []EffectsOfFinishedJobs`, `CompletedStays`: `Spec => CompletedIsTerminal`,
  with `PutStatuses = {}`.
- `StatsAreExact`: `Spec => []StatsExactWhenQuiet`, if requests run one at a time
  and none fails (`Sequential`).
- `LaborTotalKept`: `Spec => []LaborTotalMatchesLines`, if besides no client sends
  labour totals of its own (`LaborFigures = {}`). Neither needs
  `PutStatuses = {}`.

`OneTimeEffects` is not inductive: it does not exclude a second request about
to run the same effects. `EffectsInv` adds that a request between its claim
and its booking has a completed job, with no revenue booked yet and with as
many readings as its position says; that no two such requests have the same
job; and that a job that is not completed has no effect. It holds because the
claim is a conditional write, and because `completed` has no way out in the
table: these two facts are all that keeps the effects from being repeated.
The proof has one lemma per group of actions (`ArriveEffects`, `ClaimEffects`,
`CompletionEffects`, `RefreshEffects`, `AdvanceEffects`), and `EffectsFrame`
for the many steps that touch neither a status nor an effect.

The other two take the races away and ask whether every write refreshes all
the figures it moves. `StatsInv` says that a counter is exact or the one request
owes it a refresh, that what this request has counted is still so, and that the
technician it remembers as the previous one still is the technician.
`LaborInv` says the same of a job's total, which `addLabor()` stores after the
lines, and that every other write of the cost block puts the stored total back.
With overlapping requests both are false, in the code as in the model
(section 7).

### JobQueueProofs

From `JobQueueConstants`.

- `TypeCorrect`: `Spec => []TypeOK`, and `RespectsSlots`: `Spec => []SlotsRespected`,
  for any number of worker processes. `TypeInv` adds to the types that nobody
  has a job in hand before it is queued, and that a process has no more in hand
  than its concurrency; the step that could break it is `Poll`, which reads as
  many keys as there are free slots.
- `LosesNothing`: `Spec => []NothingLost`, if no process dies or is stopped
  (`~MayCrash`, `~MaySignal`). `KeptInv` adds that every process runs, that a hash
  has its attempts, and that the stamp comes after the job is in the
  completed set. Several processes may have the job in hand; each step leaves
  it in a set or in the hand that makes the step.
- `KeepsResults`: `Spec => ResultIsFinal`, and `ImplementsDelivery`:
  `Spec => DeliversAtMostOnce`, the refinement of `JobDelivery`, with one worker
  process and no Redis error (`OneWorker`), crashes, stops and restarts
  included. `PromiseInv` says of each job what a waiting entry and a task have
  behind them: a task that is going to run the handler has run it as often as
  its copy of the attempt count says, and no result is there; after a success
  nothing is waiting and nothing runs. The refinement is shown action by action:
  entering the waiting set maps to `Accept`, the end of a handler's run to
  `Attempt`, burying a job to `Abandon`, and every other command to a stutter.

With two workers the refinement is false: both can read a key before either
removes it. `JobQueueShared` therefore asks only what holds then.

### InvoicingProofs

From `InvoicingConstants`.

- `TypeCorrect`: `Spec => []TypeOK`, by `TypeInv`, which adds the documents a
  handler's next save needs (`RequestShape`) and that every Payment has an
  invoice (`PaymentShape`). That a balance stays non-negative rests on the
  clamp in `Due`, also when `Merged` keeps an older balance.
- `NumbersStayUnique`: `Spec => []NumbersUnique`. The inductive `NumbersInv`
  speaks of the numbers in flight as well: a drawn number is held by one
  handler only, no document has it yet, and neither a held nor a stored number
  exceeds the counter. It also needs that whatever a handler saves is in the
  collection (`Refers`), so that a save changes no number (`SameInvoices`).
  The step that could break it is `NextNumber`, which both increments and
  reads the counter; the mutant of the run that counts the invoices instead
  shows the alternative fail.
- `OneNotice`: `Spec => []NoticeOnce`, and `PaidStays`: `Spec => PaidIsKept`, with one
  handler at a time (`OneAtATime`), failures and redelivery included.
  `SoloInv` says that what the handler has loaded is what is stored, so that an
  invoice once noticed is overdue or settled for good, and that what is paid
  covers its total, so that a further payment leaves it paid. With two handlers
  a stale copy breaks the second (section 7).
- `NoOvercredit`: `Spec => []NeverOvercredited`, with one handler at a time. The
  inductive `CreditInv` bounds what each invoice is credited with by the sum of
  its completed payments, and asks for more while a handler stands between
  completing a payment and crediting it: the amount it is about to add must
  still fit. The step that could break it is the second delivery of a webhook;
  it finds nothing pending (`FindPending`). What a sum does when one payment
  becomes completed would be an induction over the set summed. It is shown
  without one: the sum of natural numbers over a finite set is the number of
  the pairs of an element and a number below its value (`SumsArePiles`), by the
  least size of a set for which it is not, and what a set of pairs does when
  some are added the library's theorems on finite sets say (`TotalAdds`).

### SubscriptionBillingProofs

From `SubscriptionConstants`, for any number of subscriptions and handlers.

- `TypeCorrect`: `Spec => []TypeOK`. The number of a charge's Payments is bounded
  by the handlers at once, which is not a matter of types alone: `FlightInv`
  counts those that are about to insert one.
- `OneReceipt`: `Spec => []OneReceiptPerCharge`. By `CrossInv`: while the handlers of a
  subscription have not overlapped, the one that is about to record a charge
  has found none.
- `RecordedIsRenewed`: `Spec => []RecordedMeansRenewed`. `ListInv`: a Payment is
  listed by its subscription or held by the handler that is going to list it.
  `RenewInv`: the charges before the last are recorded, a handler works on the
  last, and the end is no earlier than any charge listed, unless charges have
  overtaken one another.
- `PeriodsGrow`: `Spec => PeriodOnlyGrows`. The period changes in `Renew` only. By
  `RenewInv` its charge is the last unless charges have overtaken one another; and
  whatever their order, by `ListInv` and `CrossInv` the charge's only Payment is
  not listed yet.
- `CacheIsInStep`: `Spec => []CacheAgrees`. `CacheInv` says of the only subscription
  a tenant has had that the copy follows its status, but for the step that the
  handler at work has yet to take.

The exceptions are those of the properties: subscriptions on which a handler
has died (`lapsed`) or overlapped another (`crossed`), or which were charged again
before the last charge had been handled (`overtaken`).

### NoticesProofs

From `NoticesConstants`, for any number of notices, reminders, subscriptions,
processes and requests.

- `TypeCorrect`: `Spec => []TypeOK`, by `NoticesInv`, which is `DeliveryInv` and
  `SweepInv` together.
- `SentIsMailed`: `Spec => []SentMeansMailed`. `MailShape` ties the mails a notice has
  had to the tries of its job, and `NoteShape` says that a notice with a job says
  "sent" only after a mail.
- `ReadStays`: `Spec => ReadIsKept`, for notices that are only shown.
- `NotifiedOnce`: `Spec => []OneNoticeADay`. `Orderly` says of a subject that is not
  excused that one sweep at most holds it, that it has not been announced while
  it is held to be found, and that once announced it is marked or held by the
  sweep that is about to mark it. `Counted` counts the sweeps between notice and
  queue.
- `ClosedStays`: `Spec => ClosedStaysClosed`: a request never saves "pending", and a
  sweep saves only the mark.

### WorkspaceProofs, WorkspaceCopiesProofs and WorkspaceValuesProofs

From `WorkspaceConstants`, the conjunction of the parts' assumptions. A step of
the workspace is a step of one part and leaves the others alone (`PartsStep`,
`OtherPartsStep`), so that each part has its own invariant and a property of
several parts is put together from their theorems.

| Theorem | Part | Invariant, and why it is needed |
|---|---|---|
| `SuspensionHolds`: `[]SuspendedShutOut` | `Sessions` | `ShutInv`: a suspension that is alone is the only one at the status; afterwards the marker stands for as long as a token from before can live |
| `LocksHold`: `LockKept` | `SignIn` | `LockInv`: before it is registered, nobody is at an account. A save of a stale copy writes the lock only if it changed it |
| `TriesAreBounded`: `[]GuessesBounded` | `SignIn` | `TriesInv`: what a handler under way can still let by is priced by the count in its copy (`Cost`): the guesses so far and the price of both handlers stay within the bound (`Tight`). One that has loaded a count of zero (`Mute`) takes a lock off without clearing the count when it saves; while there is one, the guesses are few (`Few`) |
| `OwnerIsLastInHistory`: `[]HistoryMatchesOwner` | `VehicleOwnership` | `OwnerInv`: while a transfer's copy is fresh, the entry it closes is the last one and the owner it read is the owner; once it is not, the version check refuses the save |
| `TenantsKeepApart`: `[]AskedTenantOnly` | `TenantScope` | `BoundInv`: the context of such a request carries the user's tenant, and its copy of the document has that one or the one it has named; without the latter a save could stamp the document again. The delicate steps are `Save` of another request, which changes a document's tenant only where it has none or sets `torn`, and `Create`, which takes no document that anybody holds |
| `OthersStay`: `OthersKept` | four parts | one theorem each: `OwnEntriesStay` (`AccessInv`: what a call writes keeps who added each entry), `OthersServicesStay` (`ServicesInv`: the position a change has read is still that of its service), `GrantsStay` (`GrantInv`: a list that is loaded is no newer than the stored one, and equal at equal version), `CapturedStays` (`DraftInv`) |
| `CopiesAlwaysAgree`: `[]CopiesAgree` | five parts | `TotalsAreExact` (`TotalInv`: while an owner's last recount has neither failed nor overlapped, one request at most works on him, and what it holds is the count), `RatingsAreExact` (`RatingInv`: likewise of reviews), `ReadingsAreLogged` (`LoggedInv`: the value has its row, or the call that wrote it is about to insert it), `ChargesAreAsTold` (`PlanInv`: an edit that no other has passed wants the plan with its own fields put in, and the counterpart it holds is of just that), `StalenessIsBounded` (`StaleInv`: the age of a change and what is left of an answer's time never exceed the horizon together) |
| `NothingLeftHalfDone`: `[]NothingHalfDone` | four parts | `LiveDocumentsHaveFiles` (`FileInv`: who creates a row has its file, who removes a file has marked the row, and nothing takes the mark back), `OrganizationsAreWhole` (`WholeInv`: a transaction has written what comes before where it stands), `JobsHaveCustomers` (`CustomerInv`: each step of a confirmation has found or created what comes before), `AcceptedAfterGrant` and `GrantsOnce` (`InviteInv`: who saves the last use has granted or found nothing to grant) |
| `StandsInForRedis`: `ActsLikeRedis` | `InMemoryRedis` | `StandInInv`: the types of the maps, and that no member is in the list twice. Each call is then shown to be one of the server |
| `TypeCorrect`: `[]TypeOK` | all sixteen | one theorem each, from the invariants above and what they leave open. `Offers`: a list of services, stored or about to be, is no longer than its limit. `AcceptTypes`: a handler that will use an invitation has seen a use left, and whoever used it meanwhile has changed its version. `GoesOn`: a transfer carries on with a vehicle and two owners. `Answered`: what the stand-in answers is a value, a score or a list that the call may get |

`TotalInv` extends `OwnerInv`: a transfer must know from whom it takes the vehicle
to know whose total it owes, and it knows only because a copy that is not
fresh saves nothing. The other invariants are independent of each other.
`IsFiniteSet(Vehicles)` is used for the counts only.

The types of an owner's total and of a rating are bounds on sums over sets.
`SumBounded` compares a sum with the number of pairs in a pile (`Pile`), one pair
for each unit. If there were a part of the set for which the comparison fails,
there would be a least one (`LeastSet`, from the well-founded order of the
library), and it is not empty; taking out one element leads to a smaller one. No
theorem with an operator parameter is needed. `TypeCorrect` assumes `Things` and
`Requests` finite, which no other theorem does: the accounts that vote and the
members of a set are things, and a transfer starts only if the history has room
for all the requests at the vehicle. The proof showed one range in
`InMemoryRedis` to be too narrow: a call by score could ask for bounds that
`Calls` did not list, unless `MaxScore` was at most `MaxReach`. `Calls` now gives
each command its own range.

The refinement of `RedisStore` is about lists, and is proved without induction
over them. What is sorted, and what is left of a map, is given by ranks: the
entry at a place is the one before which as many others come (`SortedMembers`,
`Remaining`). That there is such an entry for every place, and only one, is
`PlacesTaken`: counting what comes before is one-to-one into `1..n`, hence onto
(`FS_Injection`). `ListedInOrder` follows: all are listed, in order, whatever
the order is. `SlicesAreRanges` compares the ends that `SliceRange` computes with
the ranks that Redis defines, for all bounds, negative ones and those beyond
the ends included.

`TriesAreBounded` is for two overlapping logins (`TwoSlots`, the bound is theirs)
and for any `LockAfter` above 1; the code has 5. With a lock after the first
failure it is false: a reset that was loaded before the failure takes the lock
off when it saves, and three passwords are answered where the bound has two.

### Only model-checked

- *Liveness*: `CompletionIsBooked`, `EverySettled`, `CapturedIsCredited`, `MailSettles`.
  Fairness and `ENABLED` are out of the prover's reach.

Every other property of a passing run is a theorem.

## 7. Known deviations

Two runs end in a violation on purpose; each shows the code doing other than
what a comment in the repository says.

- `ServiceRecordReopened`: PUT with a status skips the transition table and
  the effects, so a completed job can be reopened and completed again; the
  trace ends where its revenue is booked for the second time.
- `NoticesReminders`: `checkReminders()` raises a notice of type
  "reminder_due", which the enum of `Notification.type` does not have; the
  insert is refused and no reminder is ever mailed.

Others were met while modelling. They are visible in the actions, and where a
property would fail because of one, its condition excludes it.

*Service records and counters*

- Two recounts that overlap can store the older figures last (`StoreCounter`).
- `addFeedback` refreshes no counter (`AddFeedback`), so a technician's
  satisfaction figure is stale until the next write; `StatsExactWhenQuiet`
  therefore compares jobs and costs and leaves ratings out.
- Two `addLabor` calls at once lose a line and can leave the total of one with
  the lines of the other (`ReadLabor`, `WriteLabor`); parts likewise.

*Queue and Redis*

- A job of a type without a handler goes to the failed set and stays at the
  front of the waiting set, so every poll picks it again and it takes a slot of
  the range that the poll reads (`Keys`, `Drop`). Once there are as many as a
  worker has slots, its polls read nothing else and every other job starves;
  `EverySettled` says so (`Stuck`).
- A retry's backoff is not honoured (`Poll` takes from `later` as well).
- A process that dies between two Redis commands leaves a job in no set, or in
  the active set, which nothing reads (`Unwait`, `Crash`). `NothingLost` is
  therefore checked without crashes.
- MongoDB is closed and the process exits while handlers run: three listeners
  of SIGTERM act side by side (`server.ts:87`, `config/database.ts:360`).
- The stand-in for Redis counts expired entries in `keys()` and `del()`, and
  gives equal scores in insertion order. A process that has switched to it
  never switches back.

*Invoices and payments*

- A void invoice can be ordered and paid, and the payment makes it live beside
  its replacement; a declined attempt fails the Payment of its order, so the
  capture of the next attempt finds nothing to complete.
- Two requests can raise the invoice of one job at once (`FindExisting`).
- The same `payment.captured` delivered twice at once is credited twice
  (`FindPending`), and two payments of one invoice credited at once count once
  (`RecordPayment`). `NeverOvercredited` is checked with one handler at a time.
- A Payment is 10% larger than its order (`Charged`); a tax of zero is taken for
  a missing one (`payment.service.ts:131`).
- An invoice that the pre-save hook turns overdue before the sweep sees it is
  never announced; a document loaded before a payment and saved after it can
  turn a paid invoice overdue (`MarkOverdue`, `SaveStatus`).

*Subscriptions and plans*

- A process that dies between the Payment and the renewal leaves a recorded
  charge that never renews: the redelivered webhook finds the Payment and stops
  (`lapsed`). Two deliveries at once record it twice (`crossed`).
- Charges reported for the first time out of order leave the period of the
  older one: `renew()` stores what the report says (`overtaken`).
- A late charge revives a cancelled subscription, and a late "cancelled" of an
  old one overwrites the copy of its successor. Two sign-ups for a plan at once
  leave two; a failed insert leaves a mandate at the gateway.
- A free plan cancelled for the end of its period is never ended
  (`subscription.controller.ts:101`). `createFromPlan` does not copy the limits
  of the plan, and nothing calls the checks of limits.
- Two edits of a plan that overlap can leave the counterpart of an older price.
  An edit of the currency registers none, and one that makes the plan free
  keeps the old one (`mixed`).

*Notifications and reminders*

- "failed" is practically never reached: `markAsFailed` sets "pending" with a
  `nextRetryAt` that nothing reads, and the handler counts to three attempts
  where the worker has five. `markAsSent` overwrites "read".
- What became of a WhatsApp message is not kept: the schema of
  `Notification.metadata` has no path for it (`Notification.ts:259`), so the record
  of `whatsapp.job.ts:14` is dropped on save, and `applyDeliveryStatus`
  (`whatsapp.service.ts:40`) finds no notice by its id.
- No reminder's notice is ever stored, so what `checkReminders()` does after it,
  the mark and its save, is not reached; `OneNoticeADay` and `ClosedStaysClosed`
  say something of the sweep of subscriptions and of requests, and of reminders
  no more than that they are not touched.
- A snoozed reminder never comes back. Two `complete()` calls at once schedule
  two successors.

*Accounts and sessions*

- Two failed logins that overlap count once (`GuessesBounded` has the bound). A
  full `loginHistory` makes overlapping logins fail on their save. A login with
  a second factor does not clear earlier failures. After a lock has lapsed one
  failure locks again.
- Changing the status of an account by PATCH or PUT sets no marker in Redis,
  and the statuses "locked" and "deleted" set that way do not stop a login. A
  suspension and an activation that overlap can leave marker and status
  disagreeing; a reset or a verification read before a suspension lifts it.
- Enabling and disabling the second factor at once leaves it on without a
  secret; `setupMfa` replaces the secret while it is on.
- A registration whose profile cannot be inserted leaves an account that keeps
  the address.
- The endpoints for permissions of a role look ids up as keys: adding one always
  fails, removing one does nothing, and only seeded roles have any.
  Deactivated roles still grant. `removeRole` of an account compares ids with
  names and removes nothing; `removeFromAccount` can strip a role assigned
  meanwhile, which its comment says it prevents (`role.service.ts:242`).
  `StaffProfile.can()` ignores custom and denied permissions.

*Vehicles, centers and invitations*

- `addVehicle` takes the total from the array, although `ownerStats.ts` says it
  is counted from `currentOwnerId` (`typed`).
- Creation and PUT of a vehicle write an odometer value without a row, and
  readings typed in at once can pass the check that they do not decrease
  (`odometerReading.service.ts:68`).
- Two authorisations, or one and an invitation, can add a center twice; a
  revocation changes the first entry only, and a whole-array save can revive it
  or lose the entry an invitation has pushed. An entry that is authorised
  again as primary takes the mark from the others without getting it.
- An invitation can be accepted without a grant (`GrantAccess`, `spared`): the
  vehicle or center is missing in it (`Invitation.ts:298`, `:310`) or the vehicle
  gone, the invitee has a profile already (`:316`), the role is not seeded
  (`:320`), or it is to a transfer or to collaborate (`:329`). `accept()` saves
  "accepted" all the same.
- An invitation with several uses grants on the last only; a deleted one can be accepted, and an
  accepted one revoked without taking the grant back.
- Removing a service removes every service of its name, and none if it was
  renamed meanwhile; PUT of the list without a change of version lets a pending
  change of one service hit another (`replaced`).
- Two summaries of reviews that overlap can leave the older one, although the
  comment says that the rating cannot drift (`stale`).
- Unique keys of what was deleted stay taken, though the checks before an
  insert look at live documents only.

*The rest*

- The sign-up answers with an error when its notification fails after the
  commit.
- An interrupted confirmation of a job card can leave an account without the
  link to its profile, which nothing repairs; one whose answer was lost is
  repeated and makes a second job card.
- Archiving a document that is being deleted leaves "archived" on it.
- A cached answer computed before the cache was cleared is stored after it.
  `StalenessBounded` has the time to live plus the time of one request.
- `tenantPlugin` filters for `$eq null` where there is no tenant and says that
  this matches nothing; it matches documents without a tenant. A request whose
  context is empty is unscoped, also when the token could not be checked
  because Redis did not answer. An admin's tenant stamps the tenantless
  documents he saves, and two saves can give one to two tenants in turn
  (`torn`). Aggregates without a tenant are not filtered.
- A filter that names a `tenantId` is left as it is (`tenantPlugin.ts:72`), and
  some name the one in the query string (`invitation.controller.ts:44`,
  `invoice.controller.ts:23`); a document created with a `tenantId` of the body
  keeps it (`document.controller.ts:162`, `invitation.controller.ts:146`). So a
  request of one tenant can hold documents of another, against the comment at
  `tenantPlugin.ts:9`; `AskedTenantOnly` says that it must have asked for it.

## 8. What is not modelled

`PROJECT.json` gives a reason per component.

- *I/O*: the clients of mail, SMS, WhatsApp, Razorpay and storage; connecting
  and reconnecting to MongoDB and Redis, which depends on the drivers; the
  choice between Redis and its stand-in.
- *Reads*: reports, admin views, health, listings, searches, statistics computed
  on request, the PDF and spreadsheet files. They change no state, and what
  they read is what the modelled writes leave.
- *Transport*: routes, DTOs, OpenAPI, response formatting, validation and rate
  limits, which decide about one request and keep nothing. Where a controller
  does more than pass its input on (the PUT of a job, the upload of a document,
  suspension), it is part of the modelled action.
- *Schemas*: the fields that no operation relates to others. The types of the
  modules name those that one does.
- *Audit log*: appended after the response and read by nobody who decides.
- *Utilities*: dates, numbers, strings, pagination, encryption (imported by
  nobody but for `escapeRegExp` and `slugify`), seeds and scripts.
- *Operations nothing calls*: `removeJob`, `cleanOldJobs`; `markAsCompleted`,
  `markAsFailed`, `refund` and `delete` of payments; `updateStats` of centers and
  tenants; the checks of plan limits; `setDefaultRole`, `denyPermission`,
  `switchRole` (which changes nothing); `removeVehicle` of an owner.
- *Single-document updates* of contact data, warranty, insurance, preferences,
  shifts and settings: each is one write of fields that no rule reads.

What is left out in the modelled components is said at the head of each module.
The map covers about a sixth of the implementation's lines. Most of the others
are of the kinds above: routes, DTOs, OpenAPI descriptions, schemas, and
controllers and services that read and format.

## 9. Plan

| Order | What | State |
|---|---|---|
| 1 | `ServiceRecord`, `JobQueue`, `Invoicing` | modelled, checked; proved but for liveness |
| 2 | `SubscriptionBilling`, `NotificationDelivery`, `NoticeSweep` | modelled, checked; proved but for liveness |
| 3 | the parts of `MCWorkspace` | modelled, checked and proved |
| 4 | `TriesAreBounded`, `NoOvercredit`, `StandsInForRedis` and the types of `MCWorkspace` | proved |

Runs are kept few: the questions of a module share a run wherever one instance
can answer them, a violation run exists only for a deviation a comment
contradicts, and small modules share a run by `part`.

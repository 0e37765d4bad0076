# Formal model of the communication service

TLA+ modules, TLC runs and TLAPS proofs about the service in this repository: a
NestJS API that takes messages, BullMQ queues in Redis, a worker that sends them by
e-mail and WhatsApp, a PostgreSQL table that holds each message's status, and a
dashboard. Paths below are relative to the repository's root.

## The system

| Component | State it keeps | Operations | What makes it hard | What makes it correct |
|---|---|---|---|---|
| Message API `apps/api/src/modules/messages` | rows it saved and did not enqueue yet | `send`, `sendBulk`, `list`, `getStatus` | row and job are written to two stores | every accepted message has a row and a job that agree |
| Message store, table `messages` | status, provider id, timestamps | `update`, `save`, `findOne` | four writers, none re-reads before it writes | status moves along the lifecycle only |
| Queues (BullMQ) | jobs: state, attempts, stalls, lock | add, take, complete, fail, stall, retry, remove | locks lapse; a job may run twice at once | every job comes to rest |
| Processors `apps/worker/src/processors` | the run in progress | `process` | each awaited call may fail, the worker may die after any of them | what is recorded and announced is what happened |
| Device acks `whatsapp.service.ts` `markDelivered` | handlers in flight | ack listener | acks race the processor and each other | only a sent message becomes delivered |
| Dead-letter endpoints `apps/api/src/modules/dlq` | requests in flight | `retry`, `retryAll`, `discard` | check, queue call and row write are three round trips | a retry or discard changes row and job alike |
| Rate limit `api-key-rate-limit.guard.ts` | counters in Redis | `canActivate` | limit, clock and counter are read at three times | no window exceeds the key's budget |
| Webhook fan-out `webhook-dispatcher.service.ts`, `webhook.processor.ts`, `webhooks.service.ts` | subscriptions, delivery jobs | dispatch, deliver, CRUD | jobs carry copies of the subscription | each subscriber hears of its tenant's events |
| Tenants, API keys, guards | `tenants`, `api_keys` | CRUD, `ApiKeyGuard`, `ApiKeyOrJwtGuard` | updates read, read again and write the difference; two reads per check | what an admin was told stays true; a deactivated tenant or key stays out |
| Templates | `templates` | CRUD, `render` | check-then-insert of names, edits during a batch | names unique per tenant, no half-rendered batch |
| Tenant scope `tenant-scope.ts` | – | lookups of templates and webhooks | looked up under the scope, written by id alone | nobody changes another tenant's rows |
| WhatsApp link | client status, QR and status keys in Redis | client events, heartbeat, shutdown | unordered, unawaited writes of keys that expire, overlapping workers | what the dashboard shows is recent and ends up true |
| Login session `auth`, `apps/dashboard/lib/api.ts` | `users.is_active`, the token in localStorage | login, guard, refresh, logout | tabs share one token, nobody revokes one | a deactivated administrator ends up locked out |
| Dashboard overview `apps/dashboard/app/page.tsx` | one page's copy of the lists, timer, filter, offset | refresh, filters, pager, dead-letter buttons | overlapping refreshes | the page comes to show the answer to its last question |
| Dashboard tables and forms (tenants, api-keys, webhooks, templates) | listed rows, forms, requests under way | toggle, delete, create, edit | answers overtake each other, the form stays open, several tabs | a button does what it said; text and keys reach who they are for |
| Health, seed, migrations, bootstrap, shared types | – | – | – | not modelled, see below |

The API talks to the worker only through Redis and PostgreSQL. A request saves the
message's row and adds a job; a processor takes the job, moves the row to
`processing`, calls the provider, moves it to `sent`, `queued` (another attempt) or
`failed`, and dispatches a webhook event. WhatsApp acks arrive on the worker as
callbacks and move a `sent` row to `delivered`. Failed jobs stay in BullMQ's failed
set, which is the dead-letter queue, until an operator retries or discards them. The
code uses no transaction across stores, no row lock and no compare-and-set, so every
`await` is a point where something else runs or something fails. `PROJECT.json`
lists the resulting hazards, each at its line.

## Modules

| Module | Models | Role |
|---|---|---|
| `JobQueue` | one BullMQ job as the code uses it: `JOB_OPTS`, attempts, backoff, stall, retry, remove | operators on a job record; no state of its own |
| `MessageLifecycle` | what a client may see of a message's status | the abstract specification |
| `MessagePipeline` | API send path, row, processors, acks, dead-letter endpoints, crashes | the composed system; implements `MessageLifecycle` |
| `MCMessagePipeline` | instances for TLC | who runs on which host, which message uses which channel, symmetry |
| `RateLimit`, `MCRateLimit` | `ApiKeyRateLimitGuard` for one key | stands alone: it decides whether `send` is called at all |
| `TenantRegistry`, `MCTenantRegistry` | the four edited tables, the admin endpoints, the guards | decides who may call at all |
| `MessageIntake` | what a request to send becomes: schedule, template, rows, jobs | the inside of `Send`/`SendBulk`, up to where `MessagePipeline` goes on |
| `WebhookFanout`, `MCWebhookFanout` | what becomes of an event: subscribers, deliveries, retries | on `JobQueue`; the inside of `MessagePipeline`'s dispatch |
| `WhatsAppLink` | client events, Redis keys, heartbeat | stands alone |
| `MessagesPage` | the overview and the listings it shows | `MessagesService.list` and the dead-letter list included |
| `DashboardSession` | login, token, 401 | shared by the tabs |
| `AdminTable` | the tables of tenants, keys and webhooks | one module, three kinds of page |
| `KeyForm`, `TemplateForm` | minting a key, editing templates | |
| `MCApi` | `TenantRegistry` and `MessageIntake` for TLC | a sum, see below |
| `MCWorker` | `WhatsAppLink` and `WebhookFanout` for TLC, with fairness | a sum |
| `MCDashboard` | the five dashboard modules for TLC, with fairness | a sum |
| `MessagePipelineProofs` | six theorems of the pipeline | its safety invariants and the refinement of `MessageLifecycle` |
| `RateLimitProofs` | three theorems of the guard | |
| `TenantRegistryProofs` | five theorems of tables, requests and guards | |
| `MessageIntakeProofs`, `ApiProofs` | four theorems of the intake; what they and the registry's say of `MCApi` | `ApiProofs` instantiates `MessageIntakeProofs` |
| `WebhookFanoutProofs`, `WorkerProofs` | five theorems of the deliveries; those of the link, and `MCWorker` | `WorkerProofs` instantiates `WebhookFanoutProofs` |
| `DashboardProofs` | six theorems of `MCDashboard` | one argument per module, for any parameters |

`MCApi`, `MCWorker` and `MCDashboard` are sums: their parts share no variable in the
code either: the API's handlers keep no memory, and one page of a tab is mounted at
a time, of which only the token outlives it. What a part meets of another's doing it
has as an action of its own, which may happen at any time and with any value:
`EditTemplate` while a message is taken in, `Edit` while an event is fanned out,
`TenantChanges` beside the form for keys. A behaviour therefore follows one part,
chosen in the initial state by `part`, and the variables of the others stand still.
Products would multiply states and show nothing more. Where components do interact
they are in one module: API, queue, worker, acks and operators in `MessagePipeline`;
admins and guards in `TenantRegistry`; dispatcher, queue, workers, operators and
edits in `WebhookFanout`.

### How `MessagePipeline` corresponds to the code

*State.* `row` is the `messages` table (status and `provider_message_id`, where 0 is
null and the n-th accepted send of a message has id n). `job` is the message's job
in its channel's queue. `pending` holds the batches between `messageRepo.save` and
`queue.add`. `run[p]` is the call of `process()` on processor `p`: the awaited call
it is at, the message, `job.attemptsMade` as the handler sees it, whether it still
holds the job's lock, and the provider id in its local variable. `ack[a]` is a call
of `markDelivered`, `admin[a]` a request to the dead-letter endpoints with the jobs
it still has to do. `sends`, `events` and `mishaps` are history: what the provider
accepted, what was dispatched, and which faults and lost races a message went
through.

*Actions.* One per awaited call, in the order of the source:

- `Send`/`SendBulk` save the rows (one TypeORM transaction), `Enqueue` adds the job
  or jobs (one Redis transaction), `EnqueueFails` is a Redis error or the death of
  the API in between.
- `Take` is BullMQ handing over a job. `MarkProcessing`, `ProviderAccepts` /
  `ProviderRefuses` / `AnswerLost`, `RecordSent`, `AnnounceSent`, `CatchError`,
  `AnnounceFailed`, `Return` / `Rethrow` are lines 28 to 47 of both processors. The
  first row update stands outside the `try`, so its failure skips the catch block; a
  failure of the second one enters it although the message is out.
- `Promote`, `StalledCheck`, `LoseLock` are BullMQ; `Crash` is the death of a worker
  process, by itself or at the 8 s deadline of `apps/worker/src/main.ts`.
- `AckArrives`, `AckLookup` (with the one second look), `AckUpdate`, `AckAnnounce`
  are `markDelivered`.
- `BeginRetry`, `BeginRetryAll`, `BeginDiscard` are the checks of the dead-letter
  requests; `Reprocess`, `MarkRequeued`, `RemoveJob` their effects.

*Faults.* A row write may throw with or without having been committed, Redis may
refuse a job, the provider's answer may be lost, a lock may lapse, a process may
die, the dispatcher may swallow an error. Each uses up `MaxFaults` and leaves a mark
in `mishaps`. A provider that refuses a message is no fault: it may do so always.
Two further marks, `requeue` and `discard`, record races the code can lose without
any fault; properties say which marks excuse them.

### How `RateLimit` corresponds to the code

`counter[w]` and `expiry[w]` are the Redis key `ratelimit:<key>:<w>`, `req[r]` is
`canActivate` for one request: `Arrive` (the limit came with the key that
`ApiKeyGuard` read), `PickWindow` (`Date.now()`), `Charge` (`INCRBY`), `SetExpiry`
(`EXPIRE`, only when the count equals the request's cost), `Judge` (429 or on).
`Tick` moves the clock between any two of them and drops expired counters,
`SetLimit` is an admin's PATCH, `ChargeFails`, `SetExpiryFails` and `Crash` are
Redis errors, resent commands and the death of the API. `granted[w]` is history: the
messages let through, counted when Redis answers, as nothing read later can change
the verdict. `Yield` is what the request then sends at most: the DTO refuses an
empty or over-long recipients list after the guard has run.

### How `TenantRegistry` corresponds to the code

`row` is the four tables; `name` stands for all columns other than `is_active`, of
which two behave alike. An `UPDATE` is what TypeORM makes of `findOne`,
`Object.assign`, `save`: the entity is read and assigned (`UpdateTenant` …), a new
name is looked up (`CheckName`), `save` reads the row again (`Reload`) and writes
the columns in which the entity differs from that second read, or inserts it if
there was no row (`WriteBack`). The unique indexes and foreign keys of
`CreateTenants` are `Violates`. Templates and webhooks are looked up under the
caller's scope (`Sees`) and written by id. `call` is a request at `ApiKeyGuard`,
between its read of the key and its read of the tenant. `word` is history: what the
last answered edit told the admin, `opposed` and `alone` whether another edit of the
row overlapped it. Listing is read-only; `last_used_at` is written and never read.

### How `MessageIntake` corresponds to the code

`Send` and `SendBulk` check the key's channels and the body and read the clock once
(`at`); `Prepare` looks up the template and renders a text for every recipient, of
values of their own before common ones; `Save` writes the rows, `Enqueue` adds the
jobs, whose delay was computed from `at` and counts from `now`. Each may throw.
`EditTemplate` and `Tick` happen in between. A date that `class-validator` takes and
`Date` does not is `Unreadable`: the comparisons with NaN let it through and the
`INSERT` refuses it. A text is a template version and who filled each of its holes.

### How `WebhookFanout` corresponds to the code

`FindSubscribers` and `QueueDeliveries` are the two calls of `dispatch()`; `copy` is
the url each job carries. `Take`, then one of `Accepted`, `Refused` (no connection,
no answer within 10 s, not 2xx) or `AnswerLost`, then `Finish` are
`WebhookProcessor.process`. `Lapse` is a lock or worker lost, `Promote` a backoff
that is over; `Retry`, `Discard` and `Remove` are the dead-letter endpoints, which
write no row for this queue. Edits of webhooks are one step here and split at their
round trips in `TenantRegistry`.

### How `WhatsAppLink` corresponds to the code

Time goes in periods of 30 s, the heartbeat's: `StatusTtl` is 3 of them and `QrTtl`
2. `worker` holds the process, whether `initialize()` may still reject, and the two
fields `ready` and `status`, `wire` the commands sent to Redis and not carried out,
`key` the two keys with the lifetime they have left. `OnQr`, `OnReady`, `OnLoss` and
`OnInitFailure` are the client's handlers, which check nothing and await none of
their writes. Nothing is assumed of the order of the client's events: a QR may come
while the client is ready, and `initialize()` rejects after any of them, once.
`Start` … `Exit`, `Die` are the process; two workers overlap during a restart.
Assumed of the outside: commands over one connection are carried out in order, and
each is carried out or fails within a period.

### How the dashboard's modules correspond to the code

In all of them a request under way is a record that remembers what its handler
closed over; the server answers it in one step (`Answer`, `Serve`) and the handler
goes on in another, so that answers overtake each other. Answers to a page that was
left change nothing on a screen.

- `MessagesPage`: `Visit` mounts the overview, `SetFilter`, `Previous`, `NextPage`
  set what the effect depends on, whose cleanup stops the interval while refreshes
  under way go on. A refresh shows its answers when all are in (`Promise.all`).
  `Press` and `PressAll` are the dead-letter buttons, which no request under way
  disables: each press begins one more action (`Begin`), and `Acts` bounds how many
  are under way. The server's part (`GetFailed`, `DoOne`) goes job by job, so two
  actions on one queue, or on one job, interleave. `Newest` gives all that PostgreSQL may
  return for an order with ties.
- `DashboardSession`: `LookUp` and `Sign` are the two halves of a login around
  `argon2.verify`, `Guard` checks expiry alone, `RefreshAnswer` removes on a 401 the
  token that is stored *now*.
- `AdminTable`: `list` is a tab's copy of the rows; a button sends the opposite of
  what its row said (`Written`), `asked` is whether it asked first.
- `KeyForm`: the banner is the only place of a plaintext; the form remembers a
  tenant that the refreshed options may no longer offer.
- `TemplateForm`: `editing` is the id `save()` closes over, `from` (history) the
  template the form's text was filled from.

## Runs

| Run | Instance | Shows |
|---|---|---|
| `pipeline_whatsapp` | 1 WhatsApp message, 3 attempts, 2 processors on 2 hosts, 2 acks, 2 dead-letter requests one after the other, 1 fault; 790 thousand states | `TypeOK`, `RowTracksJob`, `DuplicateNeedsFault`, `NeverClaimsUnsent`, `EventsMatchOutcome`, `ImplementsLifecycle` |
| `pipeline_bulk` | 2 e-mails, 2 attempts, 1 processor, 2 dead-letter requests at a time, 1 fault; 310 thousand states | `RowTracksJob` and `EventsMatchOutcome` across the messages of a batch, `retryAll` included |
| `pipeline_settles` | 1 WhatsApp message, 1 processor, 1 ack, 1 dead-letter request, 2 faults, with fairness; 86 thousand states | `EveryMessageSettles`, `JobsComeToRest` |
| `ratelimit` | 2 requests of 0 to 3 recipients (cap 2), limits 1 and 2, 3 windows of 2 seconds, 1 fault; 1.8 million states | `TypeOK`, `CountersExpire`, `WithinBudget` |
| `api` | `TenantRegistry`: 2 tenants and 1 key, or 2 templates or 1 webhook beside a tenant, any consistent content at first, 2 edits at a time, 1 guarded call; `MessageIntake`: 1 request, 2 recipients, 1 template with 2 texts, 1 hole, 1 edit, schedules up to 6 of which 3 ahead are allowed, 4 ticks; 456 thousand states | `ApiTypeOK`, `NamesAndOwners`, `WordIsKept`, `CutOff`, `ScopeIsRespected`, `WholeBatch`, `OneVersion`, `NeverEarly` |
| `webhooks` | an event of one of 2 tenants, a webhook of each and of the platform in any state, 2 urls, 2 processors, 2 attempts, 1 fault, 1 edit, 1 operator request; 2.2 million states | `TenantsApart`, `OneEndpoint`, `EachAccountedFor`, `DuplicateNeedsMishap` |
| `worker` | 2 workers, 2 client events, 1 fault; or 2 deliveries of 3 attempts, 2 faults, 2 operator requests; with fairness; 590 thousand states | `WorkerTypeOK`, `ReportIsRecent`, `ConnectedMeansReady`, `ReportCatchesUp`, `DeliveriesSettle` |
| `dashboard` | overview: 2 refreshes at a time, 2 messages, pages and limits of 1, 2 dead-letter actions at a time on 1 queue of 2 jobs or 2 queues of 1; tables: 2 tabs, 1 row, 2 requests; session: 2 tabs, 2 tokens, 1 request a tab; keys: 2; templates: 1 with 2 requests at a time, 2 with 1; with fairness; 310 thousand states | `TypeOK`, `OneTimer`, `FullHistory`, `RightTarget`, `PageCatchesUp`, `EverythingRetried`, `ButtonsMeanWhatTheySay`, `EachKeyIsSeen`, `DeactivatedLocksOut`, `ExpiryIsNoticed` |
| `discard_race`, `requeue_race`, `ack_race`, `stale_rename` | 1 message, or 1 tenant and 2 admins; no fault | one disagreement each between code and documentation, below |

*What the properties say.* `RowTracksJob`: at every step of every handler the row's
status is the one the job's state calls for, unless a row write, a lock or the
enqueueing failed or a dead-letter request lost a race. `DuplicateNeedsFault`: the
provider takes a message twice only after a failed row write, a lost answer or a
lost lock. `NeverClaimsUnsent`: nothing claims a message was sent that the provider
never accepted, whatever fails. `EventsMatchOutcome`: each outcome is announced
exactly once. `ImplementsLifecycle`: the status as the client sees it refines
`MessageLifecycle`. `EveryMessageSettles` and `JobsComeToRest`: an undisturbed
message reaches a final status, and every job leaves the queue even when disturbed.
`WithinBudget`: no window lets more messages through than the limit the request was
judged by. `CountersExpire`: a counter without a lifetime is about to get one or was
hit by a fault.

`WordIsKept`: what an admin was told of an edit that no other edit of the row
overlapped stays true until somebody asks for the opposite, whatever edits of other
columns follow. `CutOff`: the guard's two reads let nobody in against such a word.
`NamesAndOwners`: no interleaving of lookups and writes yields two tenants, or two
templates of an owner, of one name, or a row without its tenant. `ScopeIsRespected`:
a template or webhook changes only at the request of its tenant or an admin.
`WholeBatch`, `OneVersion`: a request is sent to all recipients or to none, in texts
of one version of the template the tenant had. `NeverEarly`: a scheduled job is not
due before its time, however slow the handler was.

`TenantsApart`: an endpoint hears of its own tenant only. `OneEndpoint`: all
attempts of a delivery go to one url. `EachAccountedFor`: a delivery is in the
queue, taken, or discarded, and fails only by its own attempts.
`DuplicateNeedsMishap`: an endpoint hears twice only after a lost answer or lock.
`DeliveriesSettle`: each delivery comes to rest. `ReportIsRecent`: what the API
reports of the link was so within 90 s, and a QR within 60 s. `ConnectedMeansReady`:
what the API reports as connected let messages through within 90 s, so the report does
not go on beside workers that refuse every message, whatever the order of the client's
events (the converse does not hold, see below).
`ReportCatchesUp`: once clients, workers and Redis rest, the report becomes and
stays true.

`PageCatchesUp`: once tables and operator rest and requests go through, the overview
shows what is so. `OneTimer`: one interval runs, for the filter and page now set.
`FullHistory`: the pages together show every message, if no two share a creation
time. `EverythingRetried`: who presses "Retry all" whenever it is offered empties
the queue in spite of the limits of 100 and 1000. `ButtonsMeanWhatTheySay`: nothing
is paused, resumed or deleted but by somebody whose button said so, and asked first
where it must. `EachKeyIsSeen`: a plaintext on the screen is replaced only by a key
asked for while it was there. `RightTarget`: text is saved only to the template it
was filled from. `DeactivatedLocksOut`, `ExpiryIsNoticed`: a deactivated
administrator ends up without a valid token, and no overview goes on without one.

*Bounds.* Messages interact only through a processor's single slot and through the
list a `retryAll` works on, so two suffice; two handlers of each kind show each race
of a handler with another of its kind. Three attempts are the code's
`JOB_OPTS.attempts`, so a first, a middle and a last attempt occur, and a retry from
the dead-letter queue adds a fourth. One fault at any place reaches each partial
failure; the liveness run takes two, as a job has to stall twice to exceed
`maxStalledCount`. Two operator requests overlap with each other in `pipeline_bulk`,
and one with concurrent processors and acks in `pipeline_whatsapp`. Three windows
are the least in which a counter expires and a late request recreates it. The safety
properties are proved below without these bounds. Symmetry is used among
interchangeable ids of one kind (ack handlers, operator requests, e-mails, admins,
names, processors and their like), never where liveness is checked.

In `api` two edits of a row overlap in every order, and a third in flight would meet
the same second read; the guard's call runs beside them. Any content of the tables
is a start, so that creations, collisions of names and references need no long
prefix. A schedule past, now, ahead, at the limit, past it, absent and unreadable
occur, and a clock that passes the promised time before the job is added. In
`webhooks` two processors and a lapsed lock are the least for two runs of one
delivery; two attempts have a first and a last, and `worker` runs the three of the
code. In `worker` an old process overlaps its successor; the keys expire three
periods after the last write. In `dashboard` two refreshes suffice for answers in
the wrong order; a page, list and retry limit of one row stand for 25, 100 and 1000
and are exceeded by the second. Two dead-letter actions show each race of an action
with another: on the two jobs of one queue, and on the jobs one message may have in its
channel's queue and in that of webhooks. Two tabs share the token; two tokens are an old and
a new one, and a login is given one nobody holds any more. Deadlock is not an error
anywhere: with all messages done, the bounds used up and no client calling, the
system rightly stops.

*Fairness* (`pipeline_settles`). Weak fairness of each running handler (node
continues what it started), of `Take`, `Promote` and `StalledCheck` (BullMQ polls,
keeps a delay clock and checks for stalls every 30 s), of `Enqueue` (the request
goes on). No fairness for clients, operators, acks, the provider's good will or
faults. Weak fairness is enough: none of these is disabled by another for ever.

*Fairness* (`worker`). Weak fairness of the clock, of each heartbeat, of commands to
Redis, which are carried out or fail, and of a process told to stop; of dispatch,
processors, `Take` and `Promote` for deliveries. No worker has to be started, no
client has to do anything, no endpoint has to answer: the 10 s limit ends a call.

*Fairness* (`dashboard`). The browser's interval goes on and each request is
answered or fails in the end. As `Tick`, `Answer` and their like stay enabled until
they or a step with the same effect are taken, weak fairness of them says no more
than that what they put an end to does not last, and it is stated so: `[]<>` of "no
request in this slot" and its like. Twelve hours pass in the end. The operator owes
nothing, save in `EverythingRetried`, whose antecedent is a diligent one.

*Disagreements found.*

- `discard_race`: `discard` checks `isFailed()` and removes the job later. A retry
  in between leaves a message `queued` with no job. The endpoint's description
  (`apps/api/src/modules/dlq/dlq.controller.ts:32`) says the message stays marked
  failed.
- `requeue_race`: `retry` makes the job runnable and writes `queued` afterwards. A
  worker that is faster has its `sent` overwritten, and nothing corrects it
  (`Roadmap.md:70` draws the lifecycle).
- `ack_race`: two acks of one message both read `sent`, and `message.delivered` is
  dispatched twice (`STATUS.md:107` says an ack flips a *sent* row).
- `stale_rename`: a rename whose entity was read before a deactivation and whose
  second read comes after it finds `is_active` different and writes it back to true
  (`tenants.service.ts:40`), although "Deactivating a tenant must cut off all of its
  keys at once" (`api-key.guard.ts:28`). It is why `WordIsKept` speaks of edits that
  nothing overlapped.

Also met, without a run of their own:

- An update of a key that overlaps its deletion inserts it again, hash included
  (`api-keys.service.ts:72`; `api-keys/page.tsx:123` says its integrations stop
  working).
- `{{first-name}}` is no placeholder to `render()` and goes out as it stands
  (`templates.service.ts:10`, against the comment at line 65).
- When `initialize()` rejects after a QR was shown, the QR stays until it expires
  (`whatsapp.service.ts:98`; `providers.controller.ts:25`: "null unless linking is
  pending").
- A QR of a ready client, and `initialize()` when it rejects after `'ready'`, leave
  `ready` set: messages are let through while the API reports `qr_required` or
  `disconnected` (`whatsapp.service.ts:60`, `:97`; `:150` words a refusal by the
  status). It is why `ConnectedMeansReady` is stated in one direction.
- With a filter and a later page set, a list that shrinks leaves the pager hidden
  and "No messages yet" below a total that is not 0 (`page.tsx:338`, `:311`).
- Pages of rows that share `created_at`, as those of one bulk request do, may repeat
  one and miss another (`messages.service.ts:215`; `Roadmap.md:76`: "full message
  history").
- A 401 to a request sent with the old token removes a new one (`page.tsx:100`).
- A key whose answer is lost is active and seen by nobody (`api-keys/page.tsx:84`;
  "exactly once", line 41).
- When the chosen tenant is deactivated, the dropdown shows "Platform" and the form
  sends the tenant (`api-keys/page.tsx:203`; `STATUS.md:117`).
- Emptying a template's subject keeps the old one (`templates/page.tsx:67`;
  "optional" at line 132).
- The endpoints are documented to answer 202 and answer 201 (no `@HttpCode`); a bulk
  request larger than the key's limit can never pass, which `STATUS.md:103`
  describes as intended.

Paths of the last list are below `apps/api/src/modules`, `apps/worker/src/services`
and `apps/dashboard/app`.

## Proofs

Every safety invariant and every action property that a passing run checks is a
theorem, and so is the refinement; they hold for every value of the constants that
the modules' named assumptions allow (no bound on messages, processors, hosts,
attempts, faults, requests, recipients, keys, tabs, window length). Liveness is
model-checked only. Most invariants are not inductive as they stand; what was added
to them, and why, is the argument:

*Pipeline* (`MessagePipelineProofs`).

- `TypeCorrect`: `Spec => []TypeOK`. A processor that is not idle has a message in
  hand, and likewise an ack handler, as the row they write to depends on it.
- `NothingUnsentIsClaimed`: `Spec => []NeverClaimsUnsent`. That no row says `sent`
  needs that no run is about to write it: every run past the provider call and every
  ack handler in flight stands for an accepted send (`ClaimantsHaveSent`).
- `NoDuplicateWithoutFault`: `Spec => []DuplicateNeedsFault`. As long as no write,
  answer or lock was lost (`UnsentUntilFault`), at most one run has a message in hand
  and it holds the lock (`LockInv`, `JobInv`: a job is `active` exactly then), and a
  message whose job may still run, or whose run has not reached the provider, was
  never accepted. This is where a dead-letter retry matters: it needs a failed job,
  and a job fails only through a run whose send did not happen.
- `RowFollowsJob`: `Spec => []RowTracksJob`. `RowTracksJob` says what the row must be
  at each step of a run and between runs; `RowStory` adds who else may write it, for
  a message that met no mishap but a lost answer or event: an ack handler about to
  write `delivered` saw the row sent, and a dead-letter request between `job.retry()`
  and `markRequeued` holds a job that ran before.
- `StatusFollowsLifecycle`: `Spec => ImplementsLifecycle`. A stutter or a step of
  `MessageLifecycle` for each action; `RowStory` supplies the status a step leaves.
- `EachOutcomeIsTold`: `Spec => []EventsMatchOutcome`. The announcements of a message
  change only where its run or an ack handler announces, and what they are compared
  with (`FinalFailures`) only in the same run, so the invariant is `OutcomeInv` (the
  one of the row) together with the property.

*Rate limit* (`RateLimitProofs`).

- `BudgetHolds`: `Spec => WithinBudget`. `CountersLive` (a counter expires no earlier
  than two windows after its own) gives `CountersCover` (while a window can still be
  charged in time, its counter is at least what was let through); a passing charge
  then bounds both.
- `CountersAlwaysExpire`: `Spec => []CountersExpire`, inductive with `TypeOK`: only
  the charge that finds no counter can make one without a lifetime, and it is the one
  that goes on to set it. `TypeCorrect`: `Spec => []TypeOK`.

*Tenants, keys and guards* (`TenantRegistryProofs`).

- `AnswersAreKept`: `Spec => []WordIsKept`. An answer given is safe only if no request
  in flight can still undo it: `IInv` adds that no request holds an entity that would
  switch on or re-insert a row whose word stands (`OpsFit`, with `Fresh` and
  `OneEditor` for rows not yet created and edits that nothing overlapped). An
  overlapping request left its mark in `alone` or `opposed` before the answer, and a
  later one reads what the answer left.
- `GuardCutsOff`: `Spec => []CutOff`, from `CallsFit`: a call between its reads is
  only as good as the word when it read. `RegistryTypeCorrect`: `Spec => []TypeOK`.
- `NamesStayUnique`: `Spec => []NamesAndOwners`. No lookup of a handler is relied on:
  a row changes only through `Writes`, which the constraints may refuse.
- `TenantsKeepToTheirOwn`: `Spec => ScopeIsRespected`. A row is written by id alone,
  so the request must still have the right it had when it looked: an existing row has
  the owner each request in flight read, and two requests for one row read the same
  owner (`OwnersHeld`), which a deletion followed by a re-insertion does not change.

*Intake* (`MessageIntakeProofs`, `ApiProofs`).

- `BatchesAreWhole`, `TextsAreOfOneVersion`, `NothingIsDueEarly`, `IntakeTypeCorrect`.
  `Underway` says of a request at each step what it holds and what it has written: the
  texts are those of one content that the template showed while the request ran, the
  rows are for all recipients with those texts, a job is due no earlier than promised
  because its delay was computed from an earlier reading of the clock (`JobsFit`).
- `ApiTypeCorrect`, `ApiBatchesAreWhole`, `ApiTextsAreOfOneVersion`,
  `ApiNothingIsDueEarly` transfer them to the API that `MCApi` composes: a behaviour of
  it is one of each part (`ApiRegistry`, `ApiBatch`), the parts not being followed
  standing still.

*Webhooks* (`WebhookFanoutProofs`).

- `OnlyOwnEventsAreSent`: `Spec => []TenantsApart` and `OneUrlPerDelivery`:
  `Spec => []OneEndpoint` from `BaseInv`: a delivery was found for a webhook that may
  hear of the event, has a job once it is queued and no sooner, and was sent to no url
  but its copy (`Found`); a busy processor holds a queued delivery (`BusyRuns`).
- `NothingGetsLost`: `Spec => []EachAccountedFor` and `NoSecondDeliveryWithoutMishap`:
  `Spec => []DuplicateNeedsMishap` from `OutcomeInv`: of a delivery that no answer and
  no lock was lost of, the POSTs add up to its attempts (`Tally`), the processor on it
  has the lock and is the first to get a yes (`Undisturbed`), and no other has it
  (`LocksApart`). `FanoutTypeCorrect`: `Spec => []TypeOK`.

*WhatsApp link* (`WorkerProofs`).

- `ReportsAreRecent`: `Spec => []ReportIsRecent`. Age and remaining lifetime of a key
  add up to no more than the lifetime it was written with (`KeysAge`); for a write to
  start at age 0, commands on the wire and the status of a running worker must be of
  this period (`Wires`, `RunningIsRecent`), which the heartbeat's tick provides.
- `ReportedConnectionsAreReady`: `Spec => []ConnectedMeansReady` from
  `ConnectedIsReady`: a worker whose status is connected has its flag set, so the
  periods since one was ready are no more than those since one was connected, which
  `ReportIsRecent` bounds for what is reported. Nothing is said of a flag that is set
  under another status. `LinkTypeCorrect`: `Spec => []TypeOK`.
- `WorkerTypeCorrect`: `WorkerSpec => []WorkerTypeOK`, for both parts.

*Dashboard* (`DashboardProofs`). `MCDashboard` instantiates some modules several times
with different parameters. The lemmas are about instances with parameters (`Page(cs,
fs, n, qs)` for any calls and filters, any number of rows and any queues of the
channels and of webhooks, `Tables(kind)`,
`Forms(ids, max)`), each used for every instance; `DashboardInv` puts the parts'
invariants together.

- `DashboardTypeCorrect`: `Spec => []TypeOK`. Offsets are multiples of a page's size
  below the number of messages; what was fetched is of what was asked; ids that a
  request or a list holds stay ids, as messages are never taken away (`TablesKeep`);
  a form's button is disabled exactly while a request of its submission is under way
  (`TableRequests`, `FormRequests`, `KeyRequests`, `SessionLogins`).
- `OnlyOneTimer`: `Spec => []OneTimer`, inductive: whatever sets a filter or a page
  sets up the interval for it.
- `PagesLeaveNothingOut`: `Spec => []FullHistory`, for lists and pages of any length:
  every message has a rank, and a rank is in exactly one page (`NewestByRank`,
  `PageOfRank`); ties are what the property excludes.
- `TextGoesWhereItCameFrom`: `Spec => []RightTarget`: `editing` is the template the
  form was filled from (`FormPage`), and a request under way closed over both.
- `NothingHappensUnasked`: `Spec => ButtonsMeanWhatTheySay`: what a request will do is
  fixed when it is sent (`Intended`), also when the page was left since.
- `NoPlaintextIsOverwritten`: `Spec => EachKeyIsSeen`: one submission at a time, and
  the banner is still the one it was asked under, or was dismissed (`KeyRequests`).

*Assumptions.* Constants are what their modules' `ASSUME`s say. `MCDashboard` gives
the pages what they need by `PartAssumptions`: a page of the list has at least one row
(25 in the code; `PageSize` is 1 in the run), the reserved values are none of the ids,
keys and rows. `None` not being a row of `api_keys` (`KeyForm`) is one of these.
`MCApi` and `MCWorker` assume, of the values they pass on, what the parts assume
(`IntakeConstants`, `DeliveryConstants`). In `DashboardProofs` the lists' limits are
the run's (1) and statuses and channels the run's two and one; rows, page sizes, slots,
tabs, tokens, keys and requests are any.

Only model-checked: liveness (`EveryMessageSettles`, `JobsComeToRest`,
`DeliveriesSettle`, `ReportCatchesUp`, `PageCatchesUp`, `EverythingRetried`,
`DeactivatedLocksOut`, `ExpiryIsNoticed`), since the prover handles neither fairness
nor ENABLED. The four runs that show a disagreement need one behaviour each, which TLC
finds.

## Not modelled

The health check, the seed script, migrations, dependency wiring and the shared
types have no state of their own. Of the login, the password hash and the JWT's
signature (argon2, jsonwebtoken) are taken to be right, the ten-a-minute throttle is
a library's, as is the global per-IP one, and the profile endpoint only reads. The
e-mail and WhatsApp libraries are what their callers may see of them. Timestamps,
the text of errors and `retryCount` are left out of `row`: they are written together
with the status and read by nothing but the listings. The webhook signature is a
pure function of the body. Of the dashboard, markup, wording, the copy buttons and
the toggle that reveals a secret are left out.

## Plan

What is left to prove, where the code has something to say about it:

1. The theorems of `DashboardProofs` for any limits of the dead-letter list and of
   retry-all (100 and 1000 in the code), and for any number of tenants and rows in the
   tables.
2. That a sum like `MCApi` says of `TenantRegistry` beside `MessageIntake` what their
   product would: that the step `EditTemplate` covers what `TenantRegistry` can do to
   a template between two steps of a request.
3. Lemmas about `JobQueue`'s operators, stated once for the pipeline and the webhook
   deliveries, which now expand them each.

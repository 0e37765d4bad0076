---------------------------- MODULE WebhookFanout ----------------------------
(***************************************************************************)
(* What becomes of a webhook event: WebhookDispatcherService.dispatch reads *)
(* the active webhooks and adds one delivery job for each subscriber, with *)
(* a copy of its url; WebhookProcessor POSTs to that url until the endpoint *)
(* answers 2xx or the attempts are used up; an operator retries or         *)
(* discards what failed.  Webhooks are edited all the while.               *)
(***************************************************************************)
EXTENDS JobQueue, FiniteSets

CONSTANTS
  Tenants, Platform,    \* Platform: tenant_id IS NULL
  Notices,              \* calls of dispatch(): one event of one message each
  EventOf, TenantOf,    \* of a notice
  Hooks, HookTenant,    \* webhook ids; tenant_id is set on creation and not in the update DTO
  Events, Urls,
  Processors,           \* WebhookProcessor instances, one job at a time each
  None,                 \* no row, no job in hand
  MaxFaults, MaxEdits, MaxOps   \* bounds on faults, edits of webhooks, operator requests

ASSUME FanoutAssumption ==
  /\ EventOf \in [Notices -> Events]
  /\ TenantOf \in [Notices -> Tenants \cup {Platform}]
  /\ HookTenant \in [Hooks -> Tenants \cup {Platform}]
  /\ None \notin Notices \X Hooks
  /\ None \notin [url : Urls, events : SUBSET Events, isActive : BOOLEAN]
  /\ MaxFaults \in Nat /\ MaxEdits \in Nat /\ MaxOps \in Nat

VARIABLES
  hook,       \* webhooks table
  notice,     \* where each dispatch() stands
  copy,       \* the subscribers dispatch() found, with the url of each
  job,        \* delivery jobs
  run,        \* what each processor is doing
  discarding, \* jobs a discard found failed and has not removed yet
  \* History, never read by the code:
  posts,      \* the urls a delivery was POSTed to
  accepted, refused,    \* POSTs the endpoint took, or failed
  mishaps,    \* deliveries that met a fault or were discarded
  \* Bounds:
  faults, edits, ops

vars == <<hook, notice, copy, job, run, discarding, posts, accepted, refused, mishaps,
          faults, edits, ops>>
sent == <<posts, accepted, refused>>
bounds == <<faults, edits, ops>>

Deliveries == Notices \X Hooks
Webhook == [url : Urls, events : SUBSET Events, isActive : BOOLEAN]
Run == [for : Deliveries \cup {None}, step : {"idle", "post", "ok", "threw"},
        attempt : Nat, locked : BOOLEAN]
IdleRun == [for |-> None, step |-> "idle", attempt |-> 0, locked |-> FALSE]

TypeOK ==
  /\ hook \in [Hooks -> Webhook \cup {None}]
  /\ notice \in [Notices -> {"due", "found", "queued", "lost"}]
  /\ copy \in [Deliveries -> Urls \cup {None}]
  /\ job \in [Deliveries -> Job]
  /\ run \in [Processors -> Run]
  /\ discarding \subseteq Deliveries
  /\ posts \in [Deliveries -> SUBSET Urls]
  /\ accepted \in [Deliveries -> Nat] /\ refused \in [Deliveries -> Nat]
  /\ mishaps \in [Deliveries -> SUBSET {"answer", "lock", "discard"}]
  /\ faults \in 0..MaxFaults /\ edits \in 0..MaxEdits /\ ops \in 0..MaxOps

Init ==
  /\ hook \in [Hooks -> Webhook \cup {None}]
  /\ notice = [n \in Notices |-> "due"]
  /\ copy = [d \in Deliveries |-> None]
  /\ job = [d \in Deliveries |-> NoJob]
  /\ run = [p \in Processors |-> IdleRun]
  /\ discarding = {}
  /\ posts = [d \in Deliveries |-> {}]
  /\ accepted = [d \in Deliveries |-> 0] /\ refused = [d \in Deliveries |-> 0]
  /\ mishaps = [d \in Deliveries |-> {}]
  /\ faults = 0 /\ edits = 0 /\ ops = 0

Fault == faults < MaxFaults /\ faults' = faults + 1
Suffers(d, what) == mishaps' = [mishaps EXCEPT ![d] = @ \cup {what}]

-----------------------------------------------------------------------------
\* A request creates, changes or deletes a webhook.
Edit(h) ==
  /\ edits < MaxEdits
  /\ edits' = edits + 1
  /\ \E w \in Webhook \cup {None} : hook' = [hook EXCEPT ![h] = w]
  /\ UNCHANGED <<notice, copy, job, run, discarding, sent, mishaps, faults, ops>>

\* The dispatcher's filter; as a bug, without the tenant.
SubscribesOnly(h, n) ==
  /\ hook[h] # None /\ hook[h].isActive
  /\ EventOf[n] \in hook[h].events
Subscribes(h, n) ==
  /\ hook[h] # None /\ hook[h].isActive
  /\ EventOf[n] \in hook[h].events
  /\ HookTenant[h] \in {Platform, TenantOf[n]}

\* dispatch(): webhookRepo.findBy, filtered.
FindSubscribers(n) ==
  /\ notice[n] = "due"
  /\ notice' = [notice EXCEPT ![n] = "found"]
  /\ copy' = [d \in Deliveries |->
                IF d[1] = n /\ Subscribes(d[2], n) THEN hook[d[2]].url ELSE copy[d]]
  /\ UNCHANGED <<hook, job, run, discarding, sent, mishaps, bounds>>

\* dispatch(): addBulk, one Redis transaction for all subscribers.
QueueDeliveries(n) ==
  /\ notice[n] = "found"
  /\ notice' = [notice EXCEPT ![n] = "queued"]
  /\ job' = [d \in Deliveries |->
               IF d[1] = n /\ copy[d] # None THEN AddedJob(FALSE) ELSE job[d]]
  /\ UNCHANGED <<hook, copy, run, discarding, sent, mishaps, bounds>>

\* dispatch() swallows an error of either call, or dies with its worker.
DispatchFails(n) ==
  /\ notice[n] \in {"due", "found"}
  /\ Fault
  /\ notice' = [notice EXCEPT ![n] = "lost"]
  /\ UNCHANGED <<hook, copy, job, run, discarding, sent, mishaps, edits, ops>>

-----------------------------------------------------------------------------
\* WebhookProcessor.process.

\* A worker takes a job.
Take(p, d) ==
  /\ run[p].step = "idle" /\ job[d].state = "waiting"
  /\ job' = [job EXCEPT ![d] = Taken(@)]
  /\ run' = [run EXCEPT ![p] = [for |-> d, step |-> "post",
                                attempt |-> job[d].attemptsMade, locked |-> TRUE]]
  /\ UNCHANGED <<hook, notice, copy, discarding, sent, mishaps, bounds>>

\* The url the job carries; as a bug, the one the webhook has now.
UrlNow(d) == IF hook[d[2]] = None THEN copy[d] ELSE hook[d[2]].url
Target(d) == copy[d]

Post(p, step) ==
  /\ run[p].step = "post"
  /\ run' = [run EXCEPT ![p].step = step]
  /\ posts' = [posts EXCEPT ![run[p].for] = @ \cup {Target(run[p].for)}]
  /\ UNCHANGED <<hook, notice, copy, job, discarding, edits, ops>>

\* The endpoint takes the event and answers 2xx; as a bug, only 200 counts.
AcceptedOtherwise(p) ==
  /\ Post(p, "threw")
  /\ accepted' = [accepted EXCEPT ![run[p].for] = @ + 1]
  /\ UNCHANGED <<refused, mishaps, faults>>
Accepted(p) ==
  /\ Post(p, "ok")
  /\ accepted' = [accepted EXCEPT ![run[p].for] = @ + 1]
  /\ UNCHANGED <<refused, mishaps, faults>>

\* No connection, no answer in DELIVERY_TIMEOUT_MS, or an answer that is not
\* ok; as bugs, the last is not looked at, or the call waits without a limit.
RefusedUnseen(p) ==
  /\ Post(p, "ok")
  /\ refused' = [refused EXCEPT ![run[p].for] = @ + 1]
  /\ UNCHANGED <<accepted, mishaps, faults>>
RefusedHangs(p) ==
  /\ Post(p, "hung")
  /\ UNCHANGED <<accepted, refused, mishaps, faults>>
Refused(p) ==
  /\ Post(p, "threw")
  /\ refused' = [refused EXCEPT ![run[p].for] = @ + 1]
  /\ UNCHANGED <<accepted, mishaps, faults>>

\* The endpoint takes the event and its answer is late or lost.
AnswerLost(p) ==
  /\ Post(p, "threw")
  /\ accepted' = [accepted EXCEPT ![run[p].for] = @ + 1]
  /\ Suffers(run[p].for, "answer")
  /\ Fault
  /\ UNCHANGED refused

\* BullMQ records the outcome if the run still holds the lock.
Finish(p) ==
  LET r == run[p]
  IN /\ r.step \in {"ok", "threw"}
     /\ job' = IF ~r.locked THEN job
               ELSE [job EXCEPT ![r.for] =
                       IF r.step = "ok" THEN Completed(@) ELSE FailedAttempt(@, r.attempt)]
     /\ run' = [run EXCEPT ![p] = IdleRun]
     /\ UNCHANGED <<hook, notice, copy, discarding, sent, mishaps, bounds>>

\* The lock of a run lapses: its event loop stood still, or its worker died.
Lapse(p) ==
  /\ run[p].locked
  /\ Fault
  /\ job' = [job EXCEPT ![run[p].for] = Stalled(@)]
  /\ \/ run' = [run EXCEPT ![p].locked = FALSE]
     \/ run' = [run EXCEPT ![p] = IdleRun]
  /\ Suffers(run[p].for, "lock")
  /\ UNCHANGED <<hook, notice, copy, discarding, sent, edits, ops>>

Promote(d) ==
  /\ job[d].state = "delayed"
  /\ job' = [job EXCEPT ![d] = Promoted(@)]
  /\ UNCHANGED <<hook, notice, copy, run, discarding, sent, mishaps, bounds>>

-----------------------------------------------------------------------------
\* The webhooks channel of the dead-letter endpoints: no message row to write.

Operate == ops < MaxOps /\ ops' = ops + 1

\* retry, and one step of retryAll.
Retry(d) ==
  /\ job[d].state = "failed"
  /\ Operate
  /\ job' = [job EXCEPT ![d] = Reprocessed(@)]
  /\ UNCHANGED <<hook, notice, copy, run, discarding, sent, mishaps, faults, edits>>

\* discard: isFailed(), then remove(), which only a locked job refuses.
Discard(d) ==
  /\ job[d].state = "failed"
  /\ Operate
  /\ discarding' = discarding \cup {d}
  /\ UNCHANGED <<hook, notice, copy, job, run, sent, mishaps, faults, edits>>

Remove(d) ==
  /\ d \in discarding
  /\ discarding' = discarding \ {d}
  /\ IF job[d].state = "active" THEN UNCHANGED <<job, mishaps>>
     ELSE job' = [job EXCEPT ![d] = Removed(@)] /\ Suffers(d, "discard")
  /\ UNCHANGED <<hook, notice, copy, run, sent, bounds>>

-----------------------------------------------------------------------------
Dispatch(n) == FindSubscribers(n) \/ QueueDeliveries(n)
Process(p) == Accepted(p) \/ Refused(p) \/ AnswerLost(p) \/ Finish(p)
Operator(d) == Retry(d) \/ Discard(d) \/ Remove(d)

Next ==
  \/ \E h \in Hooks : Edit(h)
  \/ \E n \in Notices : Dispatch(n) \/ DispatchFails(n)
  \/ \E p \in Processors : Process(p) \/ Lapse(p) \/ \E d \in Deliveries : Take(p, d)
  \/ \E d \in Deliveries : Promote(d) \/ Operator(d)

\* Node runs what it started, the workers take jobs and BullMQ's clock goes on;
\* faults, edits and operators are under no obligation.
Fairness ==
  /\ \A n \in Notices : WF_vars(Dispatch(n))
  /\ \A p \in Processors : WF_vars(Process(p)) /\ WF_vars(\E d \in Deliveries : Take(p, d))
  /\ \A d \in Deliveries : WF_vars(Promote(d))

Spec == Init /\ [][Next]_vars

-----------------------------------------------------------------------------
\* A tenant's endpoint is only ever sent events of that tenant, through any
\* retries and edits; the platform's webhooks may hear everything
\* (webhook-dispatcher.service.ts:22).
TenantsApart ==
  \A d \in Deliveries :
    posts[d] # {} => HookTenant[d[2]] \in {Platform, TenantOf[d[1]]}

\* All POSTs of one delivery, retried by BullMQ or from the dead-letter queue,
\* go to one endpoint, although the webhook is edited meanwhile: an endpoint
\* never gets the second half of what another failed to take
\* (webhook-dispatcher.service.ts:37).
OneEndpoint == \A d \in Deliveries : Cardinality(posts[d]) <= 1

\* Every subscriber found has its delivery in the queue, or the endpoint took
\* it, or an operator discarded it, and one endpoint's trouble is not another's:
\* a delivery in the failed set used up its own attempts
\* (webhook-dispatcher.service.ts:19, webhook.processor.ts:29).
EachAccountedFor ==
  \A d \in Deliveries :
    notice[d[1]] = "queued" /\ copy[d] # None =>
      /\ job[d].state # "none"
      /\ job[d].state = "completed" => accepted[d] > 0
      /\ job[d].state = "removed" => "discard" \in mishaps[d]
      /\ job[d].state = "failed" /\ mishaps[d] = {} => refused[d] >= Attempts

\* An endpoint gets an event twice only if an answer or a lock was lost.
DuplicateNeedsMishap ==
  \A d \in Deliveries : accepted[d] > 1 => mishaps[d] \cap {"answer", "lock"} # {}

\* Every delivery that was queued is completed, waits in the dead-letter queue
\* or was discarded in the end, whatever its endpoint does.
DeliveriesSettle ==
  \A d \in Deliveries :
    job[d].state # "none" ~> job[d].state \in {"completed", "failed", "removed"}
=============================================================================

------------------------ MODULE WebhookFanoutProofs ------------------------
(***************************************************************************)
(* Theorems about WebhookFanout, for any number of events, webhooks,       *)
(* tenants, processors, attempts, faults, edits and operators' requests:   *)
(* who is sent an event, to which url, what becomes of it, and when an     *)
(* endpoint may get it twice.                                              *)
(***************************************************************************)
EXTENDS WebhookFanout, FiniteSetTheorems, TLAPS

-----------------------------------------------------------------------------
(* What was found, queued and sent.  The types rest on it: the url a       *)
(* processor POSTs to is one because its delivery was found with one.      *)

\* A delivery was found for a webhook that may hear of the event, has a job once
\* it is queued and no sooner, and was POSTed to no url but its own.
Found(d) ==
  /\ copy[d] # None => HookTenant[d[2]] \in {Platform, TenantOf[d[1]]} /\ notice[d[1]] # "due"
  /\ job[d].state # "none" <=> copy[d] # None /\ notice[d[1]] = "queued"
  /\ posts[d] # {} => posts[d] = {copy[d]} /\ job[d].state # "none"
  /\ d \in discarding => job[d].state # "none"

\* A processor that is not idle has a queued delivery in hand.
BusyRuns ==
  \A p \in Processors :
    /\ run[p].step # "idle" => run[p].for \in Deliveries /\ job[run[p].for].state # "none"
    /\ run[p].locked => run[p].step # "idle"

BaseInv == TypeOK /\ BusyRuns /\ \A d \in Deliveries : Found(d)

\* What the queue makes of a job is a job, in the state its name says.
LEMMA JobOperators ==
  ASSUME NEW j \in Job, NEW n \in Nat
  PROVE  /\ AddedJob(FALSE) \in Job /\ AddedJob(FALSE).state = "waiting"
         /\ AddedJob(FALSE).attemptsMade = 0
         /\ Promoted(j) \in Job /\ Promoted(j).state = "waiting"
         /\ Promoted(j).attemptsMade = j.attemptsMade
         /\ Taken(j) \in Job /\ Taken(j).state = "active" /\ Taken(j).attemptsMade = j.attemptsMade
         /\ Completed(j) \in Job /\ Completed(j).state = "completed"
         /\ FailedAttempt(j, n) \in Job
         /\ FailedAttempt(j, n).state \in {"delayed", "failed"}
         /\ FailedAttempt(j, n).state = "failed" => n + 1 >= Attempts
         /\ FailedAttempt(j, n).attemptsMade = j.attemptsMade + 1
         /\ Stalled(j) \in Job /\ Stalled(j).state \in {"failed", "waiting"}
         /\ Reprocessed(j) \in Job /\ Reprocessed(j).state = "waiting"
         /\ Reprocessed(j).attemptsMade = j.attemptsMade
         /\ Removed(j) \in Job /\ Removed(j).state = "removed"
  <1>1. /\ AddedJob(FALSE) \in Job /\ AddedJob(FALSE).state = "waiting"
        /\ AddedJob(FALSE).attemptsMade = 0
    BY DEF Job, JobState, AddedJob
  <1>2. /\ Promoted(j) \in Job /\ Promoted(j).state = "waiting"
        /\ Promoted(j).attemptsMade = j.attemptsMade
        /\ Taken(j) \in Job /\ Taken(j).state = "active" /\ Taken(j).attemptsMade = j.attemptsMade
    BY DEF Job, JobState, Promoted, Taken
  <1>3. /\ Reprocessed(j) \in Job /\ Reprocessed(j).state = "waiting"
        /\ Reprocessed(j).attemptsMade = j.attemptsMade
        /\ Removed(j) \in Job /\ Removed(j).state = "removed"
    BY DEF Job, JobState, Reprocessed, Removed
  <1>4. j.attemptsMade + 1 \in Nat /\ j.stalls + 1 \in Nat
    BY DEF Job
  <1>5. Completed(j) \in Job /\ Completed(j).state = "completed"
    BY <1>4 DEF Job, JobState, Completed
  <1>6. FailedAttempt(j, n) \in Job
    BY <1>4, Zenon DEF Job, JobState, FailedAttempt
  <1>7. Attempts \in Nat
    BY AttemptsAssumption
  <1>8. /\ FailedAttempt(j, n).state \in {"delayed", "failed"}
        /\ FailedAttempt(j, n).state = "failed" => n + 1 >= Attempts
        /\ FailedAttempt(j, n).attemptsMade = j.attemptsMade + 1
    BY <1>7 DEF Job, FailedAttempt
  <1>9. Stalled(j) \in Job /\ Stalled(j).state \in {"failed", "waiting"}
    BY <1>4 DEF Job, JobState, Stalled
  <1> QED
    BY <1>1, <1>2, <1>3, <1>5, <1>6, <1>8, <1>9

\* A busy processor that moves to another step, or drops the lock, keeps its
\* delivery.
LEMMA RunMoves ==
  ASSUME BaseInv, NEW p \in Processors, NEW step \in {"post", "ok", "threw"}
  PROVE  /\ [run[p] EXCEPT !.step = step] \in Run
         /\ [run[p] EXCEPT !.step = step].for = run[p].for
         /\ [run[p] EXCEPT !.step = step].step = step
         /\ [run[p] EXCEPT !.step = step].attempt = run[p].attempt
         /\ [run[p] EXCEPT !.step = step].locked = run[p].locked
         /\ [run[p] EXCEPT !.locked = FALSE] \in Run
         /\ [run[p] EXCEPT !.locked = FALSE].for = run[p].for
         /\ [run[p] EXCEPT !.locked = FALSE].step = run[p].step
         /\ ~[run[p] EXCEPT !.locked = FALSE].locked
         /\ IdleRun \in Run /\ IdleRun.step = "idle" /\ ~IdleRun.locked
  BY DEF BaseInv, TypeOK, Run, IdleRun

\* Nothing is found, queued or sent at first.
LEMMA BaseInit == Init => BaseInv
  <1> SUFFICES ASSUME Init PROVE BaseInv
    OBVIOUS
  <1>1. /\ NoJob \in Job /\ NoJob.state = "none"
        /\ IdleRun \in Run /\ IdleRun.step = "idle" /\ ~IdleRun.locked
    BY DEF Job, JobState, NoJob, Run, IdleRun
  <1>2. MaxFaults \in Nat /\ MaxEdits \in Nat /\ MaxOps \in Nat
    BY FanoutAssumption
  <1>3. TypeOK /\ BusyRuns
    BY <1>1, <1>2 DEF Init, TypeOK, BusyRuns
  <1>4. ASSUME NEW d \in Deliveries PROVE Found(d)
    <2>1. d[1] \in Notices
      BY DEF Deliveries
    <2> QED
      BY <1>1, <2>1 DEF Init, Found
  <1> QED
    BY <1>3, <1>4 DEF BaseInv

\* Spending a fault, an edit or an operator's request stays within the bounds.
LEMMA BudgetType ==
  ASSUME TypeOK
  PROVE  /\ Fault => faults' \in 0..MaxFaults
         /\ Operate => ops' \in 0..MaxOps
         /\ edits < MaxEdits /\ edits' = edits + 1 => edits' \in 0..MaxEdits
  BY FanoutAssumption DEF TypeOK, Fault, Operate

\* Once queued, a job stays in Redis as something; processors hold queued jobs,
\* and POST only to their delivery's url.
BaseFrame ==
  /\ notice' = notice /\ copy' = copy
  /\ \A d \in Deliveries : job'[d].state = "none" <=> job[d].state = "none"
  /\ \A d \in Deliveries :
       posts'[d] = posts[d] \/ (posts'[d] = {copy[d]} /\ job[d].state # "none")
  /\ \A d \in Deliveries : d \in discarding' => job[d].state # "none"
  /\ \A p \in Processors :
       /\ run'[p].step # "idle" => run'[p].for \in Deliveries /\ job[run'[p].for].state # "none"
       /\ run'[p].locked => run'[p].step # "idle"

\* A step of this kind keeps what BaseInv says beyond the types.
LEMMA BaseFrameKeeps ==
  ASSUME BaseInv, BaseFrame, TypeOK'
  PROVE  BaseInv'
  <1>1. BusyRuns'
    BY DEF BaseFrame, BusyRuns
  <1>2. ASSUME NEW d \in Deliveries PROVE Found(d)'
    BY DEF BaseInv, BaseFrame, Found
  <1> QED
    BY <1>1, <1>2 DEF BaseInv

\* Edits of webhooks and dispatch().
LEMMA BaseDispatch ==
  ASSUME BaseInv,
         \/ \E h \in Hooks : Edit(h)
         \/ \E n \in Notices : Dispatch(n) \/ DispatchFails(n)
  PROVE  BaseInv'
  <1> USE DEF TypeOK, sent, bounds
  <1>0. TypeOK /\ BusyRuns /\ \A d \in Deliveries : Found(d)
    BY DEF BaseInv
  <1>1. ASSUME NEW h \in Hooks, Edit(h) PROVE BaseInv'
    <2>1. hook' \in [Hooks -> Webhook \cup {None}] /\ edits' \in 0..MaxEdits
      BY <1>0, <1>1, BudgetType DEF Edit
    <2>2. TypeOK' /\ BaseFrame
      BY <1>0, <1>1, <2>1 DEF Edit, BaseFrame, BusyRuns, Found
    <2> QED
      BY <2>2, BaseFrameKeeps
  <1>2. ASSUME NEW n \in Notices, FindSubscribers(n) PROVE BaseInv'
    <2>1. \A h \in Hooks : Subscribes(h, n) => /\ hook[h].url \in Urls
                                               /\ HookTenant[h] \in {Platform, TenantOf[n]}
      BY <1>0 DEF Subscribes, Webhook
    <2>2. \A d \in Deliveries : d[1] = n /\ Subscribes(d[2], n) =>
              hook[d[2]].url \in Urls /\ HookTenant[d[2]] \in {Platform, TenantOf[d[1]]}
      BY <2>1 DEF Deliveries
    <2>3. copy' \in [Deliveries -> Urls \cup {None}]
      BY <1>0, <1>2, <2>2 DEF FindSubscribers
    <2>4. TypeOK' /\ BusyRuns'
      BY <1>0, <1>2, <2>3 DEF FindSubscribers, BusyRuns
    <2>5. ASSUME NEW d \in Deliveries PROVE Found(d)'
      <3>1. d[1] \in Notices
        BY DEF Deliveries
      <3>2. /\ job' = job /\ posts' = posts /\ discarding' = discarding
            /\ notice'[d[1]] = IF d[1] = n THEN "found" ELSE notice[d[1]]
            /\ copy'[d] = IF d[1] = n /\ Subscribes(d[2], n) THEN hook[d[2]].url ELSE copy[d]
        BY <1>0, <1>2, <3>1 DEF FindSubscribers
      <3>3. CASE d[1] = n
        BY <1>0, <1>2, <2>2, <3>2, <3>3 DEF FindSubscribers, Found
      <3>4. CASE d[1] # n
        BY <1>0, <3>2, <3>4 DEF Found
      <3> QED
        BY <3>3, <3>4
    <2> QED
      BY <2>4, <2>5 DEF BaseInv
  <1>3. ASSUME NEW n \in Notices, QueueDeliveries(n) PROVE BaseInv'
    <2>1. AddedJob(FALSE) \in Job /\ AddedJob(FALSE).state = "waiting"
      BY DEF Job, JobState, AddedJob
    <2>2. job' \in [Deliveries -> Job]
      BY <1>0, <1>3, <2>1 DEF QueueDeliveries
    <2>3. \A d \in Deliveries :
            job'[d] = IF d[1] = n /\ copy[d] # None THEN AddedJob(FALSE) ELSE job[d]
      BY <1>3 DEF QueueDeliveries
    <2>4. TypeOK'
      BY <1>0, <1>3, <2>2 DEF QueueDeliveries
    <2>5. BusyRuns'
      BY <1>0, <1>3, <2>1, <2>3 DEF QueueDeliveries, BusyRuns
    <2>6. ASSUME NEW d \in Deliveries PROVE Found(d)'
      <3>1. d[1] \in Notices
        BY DEF Deliveries
      <3>2. /\ copy' = copy /\ posts' = posts /\ discarding' = discarding
            /\ notice'[d[1]] = IF d[1] = n THEN "queued" ELSE notice[d[1]]
        BY <1>0, <1>3, <3>1 DEF QueueDeliveries
      <3>3. CASE d[1] # n
        BY <1>0, <2>3, <3>2, <3>3 DEF Found
      <3>4. CASE d[1] = n /\ copy[d] = None
        BY <1>0, <1>3, <2>3, <3>2, <3>4 DEF QueueDeliveries, Found
      <3>5. CASE d[1] = n /\ copy[d] # None
        <4>1. job'[d].state = "waiting" /\ notice[n] = "found"
          BY <1>3, <2>1, <2>3, <3>5 DEF QueueDeliveries
        <4>2. job[d].state = "none"
          BY <1>0, <3>5, <4>1 DEF Found
        <4> QED
          BY <1>0, <3>2, <3>5, <4>1, <4>2 DEF Found
      <3> QED
        BY <3>3, <3>4, <3>5
    <2> QED
      BY <2>4, <2>5, <2>6 DEF BaseInv
  <1>4. ASSUME NEW n \in Notices, DispatchFails(n) PROVE BaseInv'
    <2>1. TypeOK' /\ BusyRuns'
      BY <1>0, <1>4, BudgetType DEF DispatchFails, BusyRuns
    <2>2. ASSUME NEW d \in Deliveries PROVE Found(d)'
      <3>1. d[1] \in Notices
        BY DEF Deliveries
      <3>2. notice'[d[1]] = IF d[1] = n THEN "lost" ELSE notice[d[1]]
        BY <1>0, <1>4, <3>1 DEF DispatchFails
      <3> QED
        BY <1>0, <1>4, <3>2 DEF DispatchFails, Found
    <2> QED
      BY <2>1, <2>2 DEF BaseInv
  <1> QED
    BY <1>1, <1>2, <1>3, <1>4 DEF Dispatch

\* The processors, and whoever POSTs.
LEMMA BaseProcess ==
  ASSUME BaseInv, NEW p \in Processors,
         Process(p) \/ Lapse(p) \/ \E d \in Deliveries : Take(p, d)
  PROVE  BaseInv'
  <1>0. TypeOK /\ BusyRuns /\ \A d \in Deliveries : Found(d)
    BY DEF BaseInv
  <1>1. ASSUME NEW d \in Deliveries, Take(p, d) PROVE BaseInv'
    <2> DEFINE new == [for |-> d, step |-> "post", attempt |-> job[d].attemptsMade, locked |-> TRUE]
    <2>1. Taken(job[d]) \in Job /\ Taken(job[d]).state = "active"
      BY <1>0, JobOperators DEF TypeOK
    <2>2. new \in Run /\ new.step = "post" /\ new.for = d
      BY <1>0 DEF TypeOK, Run, Job
    <2>3. job' = [job EXCEPT ![d] = Taken(job[d])] /\ run' = [run EXCEPT ![p] = new]
      BY <1>1 DEF Take
    <2> HIDE DEF new
    <2>4. TypeOK'
      <3>1. job' \in [Deliveries -> Job] /\ run' \in [Processors -> Run]
        BY <1>0, <2>1, <2>2, <2>3 DEF TypeOK
      <3>2. UNCHANGED <<hook, notice, copy, discarding, posts, accepted, refused, mishaps,
                        faults, edits, ops>>
        BY <1>1 DEF Take, sent, bounds
      <3> QED
        BY <1>0, <3>1, <3>2 DEF TypeOK
    <2>5. BaseFrame
      BY <1>0, <1>1, <2>1, <2>2, <2>3 DEF Take, TypeOK, sent, BaseFrame, BusyRuns, Found
    <2> QED
      BY <2>4, <2>5, BaseFrameKeeps
  <1>2. ASSUME NEW step \in {"ok", "threw"}, Post(p, step),
               UNCHANGED mishaps \/ Suffers(run[p].for, "answer"),
               UNCHANGED faults \/ Fault,
               \/ accepted' = [accepted EXCEPT ![run[p].for] = @ + 1] /\ UNCHANGED refused
               \/ refused' = [refused EXCEPT ![run[p].for] = @ + 1] /\ UNCHANGED accepted
        PROVE  BaseInv'
    <2> DEFINE new == [run[p] EXCEPT !.step = step]
               e == run[p].for
    <2>1. e \in Deliveries /\ job[e].state # "none"
      BY <1>0, <1>2 DEF Post, BusyRuns
    <2>2. copy[e] \in Urls /\ posts[e] \subseteq {copy[e]}
      BY <1>0, <2>1 DEF Found, TypeOK
    <2>3. /\ new \in Run /\ new.for = e /\ new.step = step
          /\ run' = [run EXCEPT ![p] = new] /\ run[p].step # "idle"
      <3>1. new \in Run /\ new.for = e /\ new.step = step
        BY RunMoves
      <3> QED
        BY <1>2, <3>1 DEF Post
    <2>4. posts' = [posts EXCEPT ![e] = {copy[e]}]
      BY <1>2, <2>2 DEF Post, Target
    <2>5. accepted' \in [Deliveries -> Nat] /\ refused' \in [Deliveries -> Nat]
      BY <1>0, <1>2, <2>1 DEF TypeOK
    <2>6. mishaps' \in [Deliveries -> SUBSET {"answer", "lock", "discard"}]
      BY <1>0, <1>2, <2>1 DEF Suffers, TypeOK
    <2>7. faults' \in 0..MaxFaults
      BY <1>0, <1>2, BudgetType DEF TypeOK
    <2> HIDE DEF new, e
    <2>8. TypeOK'
      <3>1. run' \in [Processors -> Run] /\ posts' \in [Deliveries -> SUBSET Urls]
        BY <1>0, <2>1, <2>2, <2>3, <2>4 DEF TypeOK
      <3>2. UNCHANGED <<hook, notice, copy, job, discarding, edits, ops>>
        BY <1>2 DEF Post
      <3> QED
        BY <1>0, <2>5, <2>6, <2>7, <3>1, <3>2 DEF TypeOK
    <2>9. BaseFrame
      BY <1>0, <1>2, <2>1, <2>3, <2>4 DEF Post, TypeOK, BaseFrame, BusyRuns, Found
    <2> QED
      BY <2>8, <2>9, BaseFrameKeeps
  <1>3. CASE Accepted(p) \/ Refused(p) \/ AnswerLost(p)
    BY <1>2, <1>3 DEF Accepted, Refused, AnswerLost
  <1>4. CASE Finish(p)
    <2> DEFINE e == run[p].for
               done == IF run[p].step = "ok" THEN Completed(job[e]) ELSE FailedAttempt(job[e], run[p].attempt)
    <2>1. e \in Deliveries /\ job[e].state # "none" /\ run[p] \in Run
      BY <1>0, <1>4 DEF Finish, BusyRuns, TypeOK
    <2>2. done \in Job /\ done.state # "none"
      <3>1. job[e] \in Job /\ run[p].attempt \in Nat
        BY <1>0, <2>1 DEF TypeOK, Run
      <3>2. Completed(job[e]) \in Job /\ Completed(job[e]).state = "completed"
        BY <3>1, JobOperators
      <3>3. /\ FailedAttempt(job[e], run[p].attempt) \in Job
            /\ FailedAttempt(job[e], run[p].attempt).state \in {"delayed", "failed"}
        BY <3>1, JobOperators
      <3>4. done \in {Completed(job[e]), FailedAttempt(job[e], run[p].attempt)}
        OBVIOUS
      <3> HIDE DEF done
      <3> QED
        BY <3>2, <3>3, <3>4
    <2>3. job' = job \/ job' = [job EXCEPT ![e] = done]
      BY <1>4 DEF Finish
    <2>4. IdleRun \in Run /\ IdleRun.step = "idle" /\ ~IdleRun.locked
      BY RunMoves
    <2>5. run' = [run EXCEPT ![p] = IdleRun]
      BY <1>4 DEF Finish
    <2> HIDE DEF e, done
    <2>6. TypeOK'
      <3>1. job' \in [Deliveries -> Job] /\ run' \in [Processors -> Run]
        BY <1>0, <2>1, <2>2, <2>3, <2>4, <2>5 DEF TypeOK
      <3>2. UNCHANGED <<hook, notice, copy, discarding, posts, accepted, refused, mishaps,
                        faults, edits, ops>>
        BY <1>4 DEF Finish, sent, bounds
      <3> QED
        BY <1>0, <3>1, <3>2 DEF TypeOK
    <2>7. BaseFrame
      BY <1>0, <1>4, <2>1, <2>2, <2>3, <2>4, <2>5
         DEF Finish, TypeOK, sent, BaseFrame, BusyRuns, Found
    <2> QED
      BY <2>6, <2>7, BaseFrameKeeps
  <1>5. CASE Lapse(p)
    <2> DEFINE e == run[p].for
               alone == [run[p] EXCEPT !.locked = FALSE]
    <2>1. e \in Deliveries /\ job[e].state # "none"
      BY <1>0, <1>5 DEF Lapse, BusyRuns
    <2>2. Stalled(job[e]) \in Job /\ Stalled(job[e]).state # "none"
      BY <1>0, <2>1, JobOperators DEF TypeOK
    <2>3. job' = [job EXCEPT ![e] = Stalled(job[e])]
      BY <1>5 DEF Lapse
    <2>4. /\ IdleRun \in Run /\ IdleRun.step = "idle" /\ ~IdleRun.locked
          /\ alone \in Run /\ alone.for = e /\ ~alone.locked
      BY RunMoves
    <2>5. run' = [run EXCEPT ![p] = IdleRun] \/ run' = [run EXCEPT ![p] = alone]
      BY <1>5 DEF Lapse
    <2>6. mishaps' = [mishaps EXCEPT ![e] = @ \cup {"lock"}] /\ faults' \in 0..MaxFaults
      BY <1>0, <1>5, BudgetType DEF Lapse, Suffers
    <2> HIDE DEF e, alone
    <2>7. UNCHANGED <<hook, notice, copy, discarding, posts, accepted, refused, edits, ops>>
      BY <1>5 DEF Lapse, sent
    <2>8. TypeOK'
      <3>1. job' \in [Deliveries -> Job] /\ run' \in [Processors -> Run]
        BY <1>0, <2>1, <2>2, <2>3, <2>4, <2>5 DEF TypeOK
      <3>2. mishaps' \in [Deliveries -> SUBSET {"answer", "lock", "discard"}]
        BY <1>0, <2>1, <2>6 DEF TypeOK
      <3> QED
        BY <1>0, <2>6, <2>7, <3>1, <3>2 DEF TypeOK
    <2>9. BaseFrame
      <3>1. \A d \in Deliveries : job'[d].state = "none" <=> job[d].state = "none"
        BY <1>0, <2>1, <2>2, <2>3 DEF TypeOK
      <3>2. \A q \in Processors :
              /\ run'[q].step # "idle" => run'[q].for \in Deliveries /\ job[run'[q].for].state # "none"
              /\ run'[q].locked => run'[q].step # "idle"
        BY <1>0, <2>1, <2>4, <2>5 DEF TypeOK, BusyRuns
      <3> QED
        BY <1>0, <2>7, <3>1, <3>2 DEF BaseFrame, Found
    <2> QED
      BY <2>8, <2>9, BaseFrameKeeps
  <1> QED
    BY <1>1, <1>3, <1>4, <1>5 DEF Process

\* BullMQ's clock and the operators.
LEMMA BaseOperator ==
  ASSUME BaseInv, NEW d \in Deliveries, Promote(d) \/ Operator(d)
  PROVE  BaseInv'
  <1>0. TypeOK /\ BusyRuns /\ \A e \in Deliveries : Found(e)
    BY DEF BaseInv
  <1>1. job[d] \in Job
    BY <1>0 DEF TypeOK
  <1>2. ASSUME NEW j \in Job, j.state # "none", job[d].state # "none", job' = [job EXCEPT ![d] = j]
        PROVE  /\ job' \in [Deliveries -> Job]
               /\ \A e \in Deliveries : job'[e].state = "none" <=> job[e].state = "none"
    BY <1>0, <1>2 DEF TypeOK
  <1>3. CASE Promote(d)
    <2>1. Promoted(job[d]) \in Job /\ Promoted(job[d]).state # "none"
      BY <1>1, JobOperators
    <2>2. /\ job' \in [Deliveries -> Job]
          /\ \A e \in Deliveries : job'[e].state = "none" <=> job[e].state = "none"
      BY <1>2, <1>3, <2>1 DEF Promote
    <2>3. TypeOK' /\ BaseFrame
      BY <1>0, <1>3, <2>2 DEF Promote, TypeOK, sent, bounds, BaseFrame, BusyRuns, Found
    <2> QED
      BY <2>3, BaseFrameKeeps
  <1>4. CASE Retry(d)
    <2>1. Reprocessed(job[d]) \in Job /\ Reprocessed(job[d]).state # "none"
      BY <1>1, JobOperators
    <2>2. /\ job' \in [Deliveries -> Job]
          /\ \A e \in Deliveries : job'[e].state = "none" <=> job[e].state = "none"
      BY <1>2, <1>4, <2>1 DEF Retry
    <2>3. ops' \in 0..MaxOps
      BY <1>0, <1>4, BudgetType DEF Retry
    <2>4. TypeOK' /\ BaseFrame
      BY <1>0, <1>4, <2>2, <2>3 DEF Retry, TypeOK, sent, BaseFrame, BusyRuns, Found
    <2> QED
      BY <2>4, BaseFrameKeeps
  <1>5. CASE Discard(d)
    <2>1. ops' \in 0..MaxOps
      BY <1>0, <1>5, BudgetType DEF Discard
    <2>2. TypeOK' /\ BaseFrame
      BY <1>0, <1>5, <2>1 DEF Discard, TypeOK, sent, BaseFrame, BusyRuns, Found
    <2> QED
      BY <2>2, BaseFrameKeeps
  <1>6. CASE Remove(d)
    <2>1. Removed(job[d]) \in Job /\ Removed(job[d]).state # "none"
      BY <1>1, JobOperators
    <2>2. job[d].state # "none"
      BY <1>0, <1>6 DEF Remove, Found
    <2>3. /\ job' \in [Deliveries -> Job]
          /\ \A e \in Deliveries : job'[e].state = "none" <=> job[e].state = "none"
      BY <1>0, <1>2, <1>6, <2>1, <2>2 DEF Remove, TypeOK
    <2>4. mishaps' \in [Deliveries -> SUBSET {"answer", "lock", "discard"}]
      BY <1>0, <1>6 DEF Remove, Suffers, TypeOK
    <2>5. TypeOK' /\ BaseFrame
      BY <1>0, <1>6, <2>3, <2>4 DEF Remove, TypeOK, sent, bounds, BaseFrame, BusyRuns, Found
    <2> QED
      BY <2>5, BaseFrameKeeps
  <1> QED
    BY <1>3, <1>4, <1>5, <1>6 DEF Operator

\* Every step keeps BaseInv.
LEMMA BaseNext == BaseInv /\ [Next]_vars => BaseInv'
  <1> SUFFICES ASSUME BaseInv, [Next]_vars PROVE BaseInv'
    OBVIOUS
  <1>1. CASE UNCHANGED vars
    BY <1>1 DEF vars, sent, bounds, BaseInv, TypeOK, BusyRuns, Found
  <1> QED
    BY <1>1, BaseDispatch, BaseProcess, BaseOperator DEF Next

\* BaseInv holds throughout.
LEMMA BaseHolds == Spec => []BaseInv
  BY BaseInit, BaseNext, PTL DEF Spec

\* Every reachable state is well typed.
THEOREM FanoutTypeCorrect == Spec => []TypeOK
  <1>1. BaseInv => TypeOK
    BY DEF BaseInv
  <1> QED
    BY <1>1, BaseHolds, PTL

\* No endpoint is sent another tenant's events, whatever is retried or edited.
THEOREM OnlyOwnEventsAreSent == Spec => []TenantsApart
  <1>1. BaseInv => TenantsApart
    BY DEF BaseInv, Found, TenantsApart
  <1> QED
    BY <1>1, BaseHolds, PTL

\* A delivery goes to one url, through any number of attempts and retries.
THEOREM OneUrlPerDelivery == Spec => []OneEndpoint
  <1>1. BaseInv => OneEndpoint
    <2> SUFFICES ASSUME BaseInv, NEW d \in Deliveries PROVE Cardinality(posts[d]) <= 1
      BY DEF OneEndpoint
    <2>1. posts[d] = {} \/ posts[d] = {copy[d]}
      BY DEF BaseInv, Found
    <2>2. Cardinality({}) = 0 /\ Cardinality({copy[d]}) = 1
      BY FS_EmptySet, FS_Singleton
    <2> QED
      BY <2>1, <2>2
  <1> QED
    BY <1>1, BaseHolds, PTL

-----------------------------------------------------------------------------
(* What becomes of a delivery.  As long as no answer and no lock was lost  *)
(* on it, one processor at a time has it, each attempt that was used up    *)
(* was refused, and the endpoint's first yes was its last.                 *)

\* No answer to it was lost, nor the lock of a processor at work on it.
Sound(d) == mishaps[d] \cap {"answer", "lock"} = {}

\* The POSTs of such a delivery add up to its attempts.
Tally(d) ==
  /\ accepted[d] <= 1
  /\ job[d].state \in {"none", "waiting", "delayed", "failed"} => accepted[d] = 0
  /\ job[d].state \notin {"completed", "removed"} => refused[d] >= job[d].attemptsMade
  /\ job[d].state = "failed" => job[d].attemptsMade >= Attempts

\* What the state of a delivery's job says of it.
Settled(d) ==
  /\ job[d].state = "completed" => accepted[d] > 0
  /\ job[d].state = "removed" => "discard" \in mishaps[d]
  /\ Sound(d) => Tally(d)

\* A processor on such a delivery has its lock and is the first to get a yes.
Undisturbed(p) ==
  /\ run[p].locked
  /\ run[p].attempt = job[run[p].for].attemptsMade
  /\ run[p].step # "ok" => accepted[run[p].for] = 0
  /\ run[p].step = "threw" => refused[run[p].for] > run[p].attempt

\* What a busy processor is owed, and owes.
Held(p) ==
  run[p].step # "idle" =>
    /\ run[p].locked => job[run[p].for].state = "active"
    /\ run[p].step = "ok" => accepted[run[p].for] > 0
    /\ Sound(run[p].for) => Undisturbed(p)

\* A job is locked by one processor at most.
LocksApart ==
  \A p, q \in Processors : run[p].locked /\ run[q].locked /\ run[p].for = run[q].for => p = q

OutcomeInv ==
  /\ BaseInv
  /\ \A d \in Deliveries : Settled(d)
  /\ \A p \in Processors : Held(p)
  /\ LocksApart

\* A step on delivery e, by the processors of Q: the others leave e alone, or
\* have lost their part in it already.
Touches(e, Q) ==
  /\ \A d \in Deliveries \ {e} : /\ job'[d] = job[d] /\ mishaps'[d] = mishaps[d]
                                 /\ accepted'[d] = accepted[d] /\ refused'[d] = refused[d]
  /\ mishaps[e] \subseteq mishaps'[e] /\ accepted'[e] >= accepted[e]
  /\ \A q \in Processors \ Q : run'[q] = run[q]
  /\ \/ \A q \in Processors \ Q : run[q].locked => run[q].for # e
     \/ job'[e] = job[e] /\ ~Sound(e)
  /\ \A q \in Q : run'[q].locked =>
       /\ run'[q].for = e
       /\ \A o \in Processors \ {q} : run'[o].locked => run'[o].for # e

\* Such a step keeps the invariant if e and the processors of Q are right
\* after it.
LEMMA TouchesKeeps ==
  ASSUME OutcomeInv, BaseInv', NEW e \in Deliveries, NEW Q \in SUBSET Processors, Touches(e, Q),
         Settled(e)', \A q \in Q : Held(q)'
  PROVE  OutcomeInv'
  <1>1. ASSUME NEW d \in Deliveries PROVE Settled(d)'
    <2>1. CASE d = e
      BY <2>1
    <2>2. CASE d # e
      BY <2>2 DEF OutcomeInv, Touches, Settled, Sound, Tally
    <2> QED
      BY <2>1, <2>2
  <1>2. ASSUME NEW q \in Processors PROVE Held(q)'
    <2>1. CASE q \in Q
      BY <2>1
    <2>2. CASE q \notin Q
      <3> SUFFICES ASSUME run[q].step # "idle" PROVE Held(q)'
        BY <2>2 DEF Touches, Held
      <3>1. run'[q] = run[q] /\ run[q].for \in Deliveries /\ Held(q)
        BY <2>2 DEF OutcomeInv, BaseInv, BusyRuns, Touches
      <3>2. CASE run[q].for # e
        BY <3>1, <3>2 DEF Touches, Held, Sound, Undisturbed
      <3>3. CASE run[q].for = e
        <4>1. accepted[e] \in Nat /\ accepted'[e] \in Nat
          BY DEF OutcomeInv, BaseInv, TypeOK
        <4>2. run[q].step = "ok" => accepted'[e] > 0
          BY <3>1, <3>3, <4>1 DEF Touches, Held
        <4>3. ~Sound(e)'
          <5>1. ~Sound(e)
            BY <2>2, <3>1, <3>3 DEF Touches, Held, Undisturbed
          <5> QED
            BY <5>1 DEF Touches, Sound
        <4>4. run[q].locked => job'[e].state = "active"
          BY <2>2, <3>1, <3>3 DEF Touches, Held
        <4> QED
          BY <3>1, <3>3, <4>2, <4>3, <4>4 DEF Held, Sound
      <3> QED
        BY <3>2, <3>3
    <2> QED
      BY <2>1, <2>2
  <1>3. LocksApart'
    BY DEF OutcomeInv, Touches, LocksApart
  <1> QED
    BY <1>1, <1>2, <1>3 DEF OutcomeInv

\* Before anything is sent there is nothing to account for.
LEMMA OutcomeInit == Init => OutcomeInv
  <1> SUFFICES ASSUME Init PROVE OutcomeInv
    OBVIOUS
  <1>1. \A d \in Deliveries : Settled(d)
    BY DEF Init, Settled, Tally, NoJob
  <1>2. (\A p \in Processors : Held(p)) /\ LocksApart
    BY DEF Init, Held, LocksApart, IdleRun
  <1> QED
    BY <1>1, <1>2, BaseInit DEF OutcomeInv

\* Nor when it is queued; edits and failing dispatches change no delivery.
LEMMA OutcomeDispatch ==
  ASSUME OutcomeInv, BaseInv',
         \/ \E h \in Hooks : Edit(h)
         \/ \E n \in Notices : Dispatch(n) \/ DispatchFails(n)
  PROVE  OutcomeInv'
  <1>1. CASE UNCHANGED <<job, run, accepted, refused, mishaps>>
    BY <1>1 DEF OutcomeInv, Settled, Sound, Tally, Held, Undisturbed, LocksApart
  <1>2. ASSUME NEW n \in Notices, QueueDeliveries(n) PROVE OutcomeInv'
    <2>1. UNCHANGED <<run, accepted, refused, mishaps>>
      BY <1>2 DEF QueueDeliveries, sent, bounds
    <2>2. ASSUME NEW d \in Deliveries
          PROVE  \/ job'[d] = job[d]
                 \/ /\ job[d].state = "none"
                    /\ job'[d].state = "waiting" /\ job'[d].attemptsMade = 0
      <3>1. job'[d] = IF d[1] = n /\ copy[d] # None THEN AddedJob(FALSE) ELSE job[d]
        BY <1>2 DEF QueueDeliveries
      <3>2. d[1] = n => job[d].state = "none"
        BY <1>2 DEF QueueDeliveries, OutcomeInv, BaseInv, Found
      <3>3. AddedJob(FALSE).state = "waiting" /\ AddedJob(FALSE).attemptsMade = 0
        BY DEF AddedJob
      <3> QED
        BY <3>1, <3>2, <3>3
    <2>3. \A d \in Deliveries : refused[d] \in Nat
      BY DEF OutcomeInv, BaseInv, TypeOK
    <2>4. ASSUME NEW d \in Deliveries PROVE Settled(d)'
      <3>1. CASE job'[d] = job[d]
        BY <2>1, <3>1 DEF OutcomeInv, Settled, Sound, Tally
      <3>2. CASE job'[d] # job[d]
        <4>1. job[d].state = "none" /\ job'[d].state = "waiting" /\ job'[d].attemptsMade = 0
          BY <2>2, <3>2
        <4> QED
          BY <2>1, <2>3, <4>1 DEF OutcomeInv, Settled, Sound, Tally
      <3> QED
        BY <3>1, <3>2
    <2>5. ASSUME NEW p \in Processors PROVE Held(p)'
      <3>1. run[p].step # "idle" => run[p].for \in Deliveries /\ job'[run[p].for] = job[run[p].for]
        BY <2>2 DEF OutcomeInv, BaseInv, BusyRuns
      <3> QED
        BY <2>1, <3>1 DEF OutcomeInv, Held, Undisturbed, Sound
    <2>6. LocksApart'
      BY <2>1 DEF OutcomeInv, LocksApart
    <2> QED
      BY <2>4, <2>5, <2>6 DEF OutcomeInv
  <1> QED
    BY <1>1, <1>2 DEF Edit, Dispatch, FindSubscribers, DispatchFails, sent, bounds

\* A processor takes a job nobody has: it is waiting.
LEMMA OutcomeTake ==
  ASSUME OutcomeInv, BaseInv', NEW p \in Processors, NEW d \in Deliveries, Take(p, d)
  PROVE  OutcomeInv'
  <1>1. /\ run[p].step = "idle" /\ job[d].state = "waiting"
        /\ job' = [job EXCEPT ![d] = Taken(job[d])]
        /\ run' = [run EXCEPT ![p] = [for |-> d, step |-> "post",
                                      attempt |-> job[d].attemptsMade, locked |-> TRUE]]
        /\ UNCHANGED <<accepted, refused, mishaps>>
    BY DEF Take, sent
  <1>2. /\ job \in [Deliveries -> Job] /\ run \in [Processors -> Run]
        /\ accepted[d] \in Nat
    BY DEF OutcomeInv, BaseInv, TypeOK
  <1>3. job'[d].state = "active" /\ job'[d].attemptsMade = job[d].attemptsMade
    BY <1>1, <1>2, JobOperators
  <1>4. /\ run'[p].for = d /\ run'[p].step = "post" /\ run'[p].locked
        /\ run'[p].attempt = job[d].attemptsMade
    BY <1>1, <1>2
  <1>5. ASSUME NEW q \in Processors, run[q].locked PROVE run[q].for # d
    BY <1>1, <1>5 DEF OutcomeInv, BaseInv, BusyRuns, Held
  <1>6. Touches(d, {p})
    BY <1>1, <1>2, <1>4, <1>5 DEF Touches
  <1>7. Sound(d) => Tally(d)
    BY DEF OutcomeInv, Settled
  <1>8. Settled(d)'
    BY <1>1, <1>3, <1>7 DEF Settled, Sound, Tally
  <1>9. Held(p)'
    BY <1>1, <1>3, <1>4, <1>7 DEF Held, Undisturbed, Sound, Tally
  <1> QED
    BY <1>6, <1>8, <1>9, TouchesKeeps

\* A POST: the endpoint takes it, or not, and the processor hears of it, or not.
LEMMA OutcomePost ==
  ASSUME OutcomeInv, BaseInv', NEW p \in Processors, Accepted(p) \/ Refused(p) \/ AnswerLost(p)
  PROVE  OutcomeInv'
  <1>0. PICK e \in Deliveries : e = run[p].for
    BY DEF OutcomeInv, BaseInv, BusyRuns, Accepted, Refused, AnswerLost, Post
  <1>1. PICK step \in {"ok", "threw"} :
          /\ run[p].step = "post" /\ run' = [run EXCEPT ![p].step = step] /\ job' = job
          /\ \/ /\ step = "ok" /\ accepted' = [accepted EXCEPT ![e] = @ + 1]
                /\ UNCHANGED <<refused, mishaps>>
             \/ /\ step = "threw" /\ refused' = [refused EXCEPT ![e] = @ + 1]
                /\ UNCHANGED <<accepted, mishaps>>
             \/ /\ step = "threw" /\ accepted' = [accepted EXCEPT ![e] = @ + 1]
                /\ refused' = refused /\ mishaps' = [mishaps EXCEPT ![e] = @ \cup {"answer"}]
    BY <1>0 DEF Accepted, Refused, AnswerLost, Post, Suffers
  <1>2. e \in Deliveries /\ Held(p) /\ Settled(e)
    BY <1>0, <1>1 DEF OutcomeInv, BaseInv, BusyRuns
  <1>3. /\ run \in [Processors -> Run] /\ job[e] \in Job
        /\ accepted \in [Deliveries -> Nat] /\ refused \in [Deliveries -> Nat]
        /\ mishaps \in [Deliveries -> SUBSET {"answer", "lock", "discard"}]
    BY <1>0, <1>2 DEF OutcomeInv, BaseInv, TypeOK
  <1>4. run[p].attempt \in Nat /\ job[e].attemptsMade \in Nat
    BY <1>0, <1>3 DEF Run, Job
  <1>5. /\ run'[p].for = e /\ run'[p].step = step /\ run'[p].attempt = run[p].attempt
        /\ run'[p].locked = run[p].locked
        /\ \A q \in Processors \ {p} : run'[q] = run[q]
    <2>1. run' = [run EXCEPT ![p] = [run[p] EXCEPT !.step = step]]
      BY <1>0, <1>1
    <2>2. BaseInv
      BY DEF OutcomeInv
    <2>3. /\ [run[p] EXCEPT !.step = step].for = e /\ [run[p] EXCEPT !.step = step].step = step
          /\ [run[p] EXCEPT !.step = step].attempt = run[p].attempt
          /\ [run[p] EXCEPT !.step = step].locked = run[p].locked
      BY <1>0, <2>2, RunMoves
    <2> QED
      BY <1>0, <1>3, <2>1, <2>3
  <1>6. Sound(e) => run[p].locked /\ Undisturbed(p) /\ Tally(e)
    BY <1>0, <1>1, <1>2 DEF Held, Undisturbed, Settled
  <1>7. run[p].locked => job[e].state = "active"
    BY <1>0, <1>1, <1>2 DEF Held
  <1>8. \A q \in Processors \ {p} : run[p].locked /\ run[q].locked => run[q].for # e
    BY <1>0 DEF OutcomeInv, LocksApart
  <1>9. /\ accepted'[e] \in {accepted[e], accepted[e] + 1}
        /\ refused'[e] \in {refused[e], refused[e] + 1}
        /\ mishaps[e] \subseteq mishaps'[e]
        /\ \A d \in Deliveries \ {e} : /\ accepted'[d] = accepted[d] /\ refused'[d] = refused[d]
                                       /\ mishaps'[d] = mishaps[d]
    BY <1>0, <1>1, <1>2, <1>3
  <1>10. Sound(e)' => Sound(e)
    BY <1>0, <1>9 DEF Sound
  <1>11. Touches(e, {p})
    BY <1>0, <1>1, <1>2, <1>3, <1>5, <1>6, <1>8, <1>9 DEF Touches
  <1>12. ASSUME Sound(e)'
         PROVE  \/ step = "ok" /\ accepted'[e] = accepted[e] + 1 /\ refused'[e] = refused[e]
                \/ step = "threw" /\ accepted'[e] = accepted[e] /\ refused'[e] = refused[e] + 1
    BY <1>0, <1>1, <1>2, <1>3, <1>12 DEF Sound
  <1>13. Sound(e)' => /\ run[p].locked /\ job[e].state = "active" /\ accepted[e] = 0
                      /\ run[p].attempt = job[e].attemptsMade /\ refused[e] >= job[e].attemptsMade
    BY <1>0, <1>1, <1>6, <1>7, <1>10 DEF Undisturbed, Tally
  <1>14. accepted[e] \in Nat /\ refused[e] \in Nat
    BY <1>0, <1>2, <1>3
  <1>15. Settled(e)'
    <2>1. job[e].state = "completed" => accepted'[e] > 0
      BY <1>0, <1>2, <1>9, <1>14 DEF Settled
    <2>2. job[e].state = "removed" => "discard" \in mishaps'[e]
      BY <1>0, <1>2, <1>9 DEF Settled
    <2>3. Sound(e)' => Tally(e)'
      BY <1>0, <1>1, <1>4, <1>12, <1>13, <1>14 DEF Tally
    <2> QED
      BY <1>0, <1>1, <2>1, <2>2, <2>3 DEF Settled
  <1>16. Held(p)'
    <2>1. step = "ok" => accepted'[e] > 0
      BY <1>0, <1>1, <1>2, <1>3
    <2>2. Sound(e)' => Undisturbed(p)'
      BY <1>0, <1>1, <1>4, <1>5, <1>12, <1>13, <1>14 DEF Undisturbed
    <2> QED
      BY <1>0, <1>1, <1>5, <1>7, <2>1, <2>2 DEF Held, Sound
  <1> QED
    BY <1>2, <1>11, <1>15, <1>16, TouchesKeeps

\* The end of a run is recorded if it still has the lock.
LEMMA OutcomeFinish ==
  ASSUME OutcomeInv, BaseInv', NEW p \in Processors, Finish(p)
  PROVE  OutcomeInv'
  <1>0. PICK e \in Deliveries : e = run[p].for
    BY DEF OutcomeInv, BaseInv, BusyRuns, Finish
  <1>1. /\ run[p].step \in {"ok", "threw"} /\ run' = [run EXCEPT ![p] = IdleRun]
        /\ job' = IF ~run[p].locked THEN job
                  ELSE [job EXCEPT ![e] = IF run[p].step = "ok" THEN Completed(job[e])
                                          ELSE FailedAttempt(job[e], run[p].attempt)]
        /\ UNCHANGED <<accepted, refused, mishaps>>
    BY <1>0 DEF Finish, sent, bounds
  <1>2. e \in Deliveries /\ Held(p) /\ Settled(e) /\ run[p].step # "idle"
    BY <1>0, <1>1 DEF OutcomeInv, BaseInv, BusyRuns
  <1>3. /\ run \in [Processors -> Run] /\ job \in [Deliveries -> Job] /\ job[e] \in Job
        /\ accepted[e] \in Nat /\ refused[e] \in Nat /\ mishaps[e] = mishaps'[e]
    BY <1>0, <1>1, <1>2 DEF OutcomeInv, BaseInv, TypeOK
  <1>4. run[p].attempt \in Nat /\ job[e].attemptsMade \in Nat
    BY <1>0, <1>3 DEF Run, Job
  <1>5. /\ run'[p].step = "idle" /\ ~run'[p].locked
        /\ \A q \in Processors \ {p} : run'[q] = run[q]
    BY <1>0, <1>1, <1>3 DEF IdleRun
  <1>6. Held(p)'
    BY <1>0, <1>5 DEF Held
  <1>7. /\ Sound(e) => run[p].locked
        /\ \A q \in Processors \ {p} : run[p].locked /\ run[q].locked => run[q].for # e
    BY <1>0, <1>2 DEF Held, Undisturbed, OutcomeInv, LocksApart
  <1>8. \A d \in Deliveries \ {e} : job'[d] = job[d]
    BY <1>0, <1>1, <1>3
  <1>9. ~run[p].locked => job' = job
    BY <1>0, <1>1
  <1>10. Touches(e, {p})
    BY <1>0, <1>1, <1>2, <1>3, <1>5, <1>7, <1>8, <1>9 DEF Touches
  <1>11. Settled(e)'
    <2>1. CASE ~run[p].locked
      BY <1>0, <1>1, <1>2, <1>9, <2>1 DEF Settled, Sound, Tally
    <2>2. CASE run[p].locked /\ run[p].step = "ok"
      <3>1. job'[e] = Completed(job[e])
        BY <1>0, <1>1, <1>2, <1>3, <2>2
      <3>2. job'[e].state = "completed"
        <4>1. Completed(job[e]).state = "completed"
          BY <1>3, <1>4, JobOperators
        <4> QED
          BY <3>1, <4>1
      <3>3. accepted'[e] > 0
        BY <1>0, <1>1, <1>2, <2>2 DEF Held
      <3>4. Sound(e)' => accepted'[e] <= 1
        BY <1>0, <1>1, <1>2 DEF Settled, Sound, Tally
      <3> QED
        BY <3>2, <3>3, <3>4 DEF Settled, Tally
    <2>3. CASE run[p].locked /\ run[p].step = "threw"
      <3>1. job'[e] = FailedAttempt(job[e], run[p].attempt)
        BY <1>0, <1>1, <1>2, <1>3, <2>3
      <3>2. /\ job'[e].state \in {"delayed", "failed"}
            /\ job'[e].state = "failed" => run[p].attempt + 1 >= Attempts
            /\ job'[e].attemptsMade = job[e].attemptsMade + 1
        <4> DEFINE j == FailedAttempt(job[e], run[p].attempt)
        <4>1. /\ j.state \in {"delayed", "failed"}
              /\ j.state = "failed" => run[p].attempt + 1 >= Attempts
              /\ j.attemptsMade = job[e].attemptsMade + 1
          BY <1>3, <1>4, JobOperators
        <4> QED
          BY <3>1, <4>1
      <3>3. Sound(e)' => /\ run[p].attempt = job[e].attemptsMade /\ accepted'[e] = 0
                         /\ refused'[e] > run[p].attempt
        BY <1>0, <1>1, <1>2, <2>3 DEF Held, Undisturbed, Sound
      <3>4. Sound(e)' => Tally(e)'
        BY <1>0, <1>1, <1>3, <1>4, <3>2, <3>3 DEF Tally
      <3> QED
        BY <3>2, <3>4 DEF Settled
    <2> QED
      BY <1>0, <1>1, <2>1, <2>2, <2>3
  <1> QED
    BY <1>2, <1>6, <1>10, <1>11, TouchesKeeps

\* A lapse is a mishap: the delivery is not sound from here on.
LEMMA OutcomeLapse ==
  ASSUME OutcomeInv, BaseInv', NEW p \in Processors, Lapse(p)
  PROVE  OutcomeInv'
  <1>0. PICK e \in Deliveries : e = run[p].for
    BY DEF OutcomeInv, BaseInv, BusyRuns, Lapse
  <1>1. /\ run[p].locked
        /\ job' = [job EXCEPT ![e] = Stalled(job[e])]
        /\ \/ run' = [run EXCEPT ![p] = [run[p] EXCEPT !.locked = FALSE]]
           \/ run' = [run EXCEPT ![p] = IdleRun]
        /\ mishaps' = [mishaps EXCEPT ![e] = @ \cup {"lock"}]
        /\ UNCHANGED <<accepted, refused>>
    BY <1>0 DEF Lapse, Suffers, sent
  <1>2. e \in Deliveries /\ Held(p) /\ BaseInv
    BY <1>0, <1>1 DEF OutcomeInv, BaseInv, BusyRuns
  <1>3. /\ run \in [Processors -> Run] /\ job \in [Deliveries -> Job] /\ job[e] \in Job
        /\ accepted[e] \in Nat /\ mishaps \in [Deliveries -> SUBSET {"answer", "lock", "discard"}]
    BY <1>0, <1>2 DEF OutcomeInv, BaseInv, TypeOK
  <1>4. /\ ~run'[p].locked
        /\ run'[p].step # "idle" => run'[p].for = e /\ run'[p].step = run[p].step
        /\ \A q \in Processors \ {p} : run'[q] = run[q]
    BY <1>0, <1>1, <1>2, <1>3, RunMoves
  <1>5. job'[e].state \in {"failed", "waiting"}
    <2>1. job'[e] = Stalled(job[e])
      BY <1>0, <1>1, <1>2, <1>3
    <2> QED
      BY <1>0, <1>3, <2>1, JobOperators
  <1>6. ~Sound(e)' /\ mishaps[e] \subseteq mishaps'[e]
    BY <1>0, <1>1, <1>2, <1>3 DEF Sound
  <1>7. Settled(e)'
    BY <1>0, <1>5, <1>6 DEF Settled
  <1>8. Held(p)'
    BY <1>0, <1>1, <1>2, <1>4, <1>6 DEF Held, Sound
  <1>9. \A q \in Processors \ {p} : run[q].locked => run[q].for # e
    BY <1>0, <1>1 DEF OutcomeInv, LocksApart
  <1>10. \A d \in Deliveries \ {e} : job'[d] = job[d] /\ mishaps'[d] = mishaps[d]
    BY <1>0, <1>1, <1>3
  <1>11. Touches(e, {p})
    BY <1>0, <1>1, <1>3, <1>4, <1>6, <1>9, <1>10 DEF Touches
  <1> QED
    BY <1>2, <1>7, <1>8, <1>11, TouchesKeeps

\* The clock and the operators move jobs no processor has.
LEMMA OutcomeOperator ==
  ASSUME OutcomeInv, BaseInv', NEW d \in Deliveries, Promote(d) \/ Operator(d)
  PROVE  OutcomeInv'
  <1>1. /\ job \in [Deliveries -> Job] /\ job[d] \in Job /\ accepted[d] \in Nat
        /\ mishaps \in [Deliveries -> SUBSET {"answer", "lock", "discard"}]
    BY DEF OutcomeInv, BaseInv, TypeOK
  <1>2. Settled(d)
    BY DEF OutcomeInv
  <1>3. ASSUME job[d].state # "active", run' = run, UNCHANGED <<accepted, refused>>,
               NEW j \in Job, job' = [job EXCEPT ![d] = j],
               \/ mishaps' = mishaps
               \/ mishaps' = [mishaps EXCEPT ![d] = @ \cup {"discard"}],
               Settled(d)'
        PROVE  OutcomeInv'
    <2>1. \A q \in Processors : run[q].locked => run[q].for # d
      BY <1>3 DEF OutcomeInv, BaseInv, BusyRuns, Held
    <2>2. Touches(d, {})
      BY <1>1, <1>3, <2>1 DEF Touches
    <2> QED
      BY <1>3, <2>2, TouchesKeeps
  <1>4. ASSUME NEW j \in Job, j.state = "waiting", j.attemptsMade = job[d].attemptsMade,
               job[d].state \in {"delayed", "failed"}, job' = [job EXCEPT ![d] = j],
               UNCHANGED <<accepted, refused, mishaps>>
        PROVE  Settled(d)'
    <2>1. job'[d] = j
      BY <1>1, <1>4
    <2> QED
      BY <1>2, <1>4, <2>1 DEF Settled, Sound, Tally
  <1>5. CASE Promote(d)
    <2>1. /\ Promoted(job[d]) \in Job /\ Promoted(job[d]).state = "waiting"
          /\ Promoted(job[d]).attemptsMade = job[d].attemptsMade
      BY <1>1, JobOperators
    <2>2. /\ job[d].state = "delayed" /\ job' = [job EXCEPT ![d] = Promoted(job[d])]
          /\ UNCHANGED <<run, accepted, refused, mishaps>>
      BY <1>5 DEF Promote, sent
    <2> QED
      BY <1>3, <1>4, <2>1, <2>2
  <1>6. CASE Retry(d)
    <2>1. /\ Reprocessed(job[d]) \in Job /\ Reprocessed(job[d]).state = "waiting"
          /\ Reprocessed(job[d]).attemptsMade = job[d].attemptsMade
      BY <1>1, JobOperators
    <2>2. /\ job[d].state = "failed" /\ job' = [job EXCEPT ![d] = Reprocessed(job[d])]
          /\ UNCHANGED <<run, accepted, refused, mishaps>>
      BY <1>6 DEF Retry, sent
    <2> QED
      BY <1>3, <1>4, <2>1, <2>2
  <1>7. ASSUME UNCHANGED <<job, run, accepted, refused, mishaps>> PROVE OutcomeInv'
    BY <1>7 DEF OutcomeInv, Settled, Sound, Tally, Held, Undisturbed, LocksApart
  <1>8. CASE Discard(d)
    BY <1>7, <1>8 DEF Discard, sent
  <1>9. CASE Remove(d)
    <2>1. CASE job[d].state = "active"
      BY <1>7, <1>9, <2>1 DEF Remove, sent
    <2>2. CASE job[d].state # "active"
      <3>1. Removed(job[d]) \in Job /\ Removed(job[d]).state = "removed"
        BY <1>1, JobOperators
      <3>2. /\ job' = [job EXCEPT ![d] = Removed(job[d])]
            /\ mishaps' = [mishaps EXCEPT ![d] = @ \cup {"discard"}]
            /\ UNCHANGED <<run, accepted, refused>>
        BY <1>9, <2>2 DEF Remove, Suffers, sent
      <3>3. job'[d].state = "removed" /\ "discard" \in mishaps'[d]
        BY <1>1, <3>1, <3>2
      <3>4. Sound(d)' => accepted'[d] <= 1
        BY <1>1, <1>2, <3>2 DEF Settled, Sound, Tally
      <3>5. Settled(d)'
        BY <3>3, <3>4 DEF Settled, Tally
      <3> QED
        BY <1>3, <2>2, <3>1, <3>2, <3>5
    <2> QED
      BY <2>1, <2>2
  <1> QED
    BY <1>5, <1>6, <1>8, <1>9 DEF Operator

\* OutcomeInv holds throughout.
LEMMA OutcomeHolds == Spec => []OutcomeInv
  <1>1. OutcomeInv /\ [Next]_vars => OutcomeInv'
    <2> SUFFICES ASSUME OutcomeInv, [Next]_vars PROVE OutcomeInv'
      OBVIOUS
    <2>1. BaseInv'
      BY BaseNext DEF OutcomeInv
    <2>2. CASE UNCHANGED vars
      BY <2>1, <2>2 DEF vars, sent, bounds, OutcomeInv, Settled, Sound, Tally, Held, Undisturbed, LocksApart
    <2>3. ASSUME NEW p \in Processors, Process(p) \/ Lapse(p) \/ \E d \in Deliveries : Take(p, d)
          PROVE  OutcomeInv'
      BY <2>1, <2>3, OutcomeTake, OutcomePost, OutcomeFinish, OutcomeLapse DEF Process
    <2> QED
      BY <2>1, <2>2, <2>3, OutcomeDispatch, OutcomeOperator DEF Next
  <1> QED
    BY <1>1, OutcomeInit, PTL DEF Spec

\* Every delivery that was queued is still in the queue, was taken by its
\* endpoint or discarded by an operator; one that failed without a mishap was
\* refused as often as it had attempts.
THEOREM NothingGetsLost == Spec => []EachAccountedFor
  <1>1. OutcomeInv => EachAccountedFor
    <2> SUFFICES ASSUME OutcomeInv, NEW d \in Deliveries
                 PROVE  /\ notice[d[1]] = "queued" /\ copy[d] # None => job[d].state # "none"
                        /\ job[d].state = "completed" => accepted[d] > 0
                        /\ job[d].state = "removed" => "discard" \in mishaps[d]
                        /\ job[d].state = "failed" /\ mishaps[d] = {} => refused[d] >= Attempts
      BY DEF EachAccountedFor
    <2>1. Found(d) /\ Settled(d)
      BY DEF OutcomeInv, BaseInv
    <2>2. refused[d] \in Nat /\ job[d].attemptsMade \in Nat /\ Attempts \in Nat
      BY AttemptsAssumption DEF OutcomeInv, BaseInv, TypeOK, Job
    <2>3. job[d].state = "failed" /\ mishaps[d] = {} => refused[d] >= Attempts
      BY <2>1, <2>2 DEF Settled, Sound, Tally
    <2> QED
      BY <2>1, <2>3 DEF Found, Settled
  <1> QED
    BY <1>1, OutcomeHolds, PTL

\* No endpoint gets an event twice unless an answer or a lock was lost.
THEOREM NoSecondDeliveryWithoutMishap == Spec => []DuplicateNeedsMishap
  <1>1. OutcomeInv => DuplicateNeedsMishap
    <2> SUFFICES ASSUME OutcomeInv, NEW d \in Deliveries, accepted[d] > 1
                 PROVE  mishaps[d] \cap {"answer", "lock"} # {}
      BY DEF DuplicateNeedsMishap
    <2>1. Settled(d) /\ accepted[d] \in Nat
      BY DEF OutcomeInv, BaseInv, TypeOK
    <2> QED
      BY <2>1 DEF Settled, Sound, Tally
  <1> QED
    BY <1>1, OutcomeHolds, PTL
=============================================================================

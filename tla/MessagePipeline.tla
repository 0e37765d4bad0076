--------------------------- MODULE MessagePipeline ---------------------------
(***************************************************************************)
(* The path of a message through the communication service: the API saves  *)
(* a row in PostgreSQL and adds a BullMQ job, a worker processor runs the  *)
(* job against the provider and moves the row's status along, WhatsApp     *)
(* device acks flip it to delivered, and an operator retries or discards   *)
(* jobs in the dead-letter queue.                                          *)
(*                                                                         *)
(* Row, job and provider are three stores without a common transaction.    *)
(* Every `await` between them is a point where another process runs, where *)
(* a write can fail and where a process can die, so every handler is split *)
(* into one action per awaited call.                                       *)
(***************************************************************************)
EXTENDS JobQueue

CONSTANTS
  Messages,    \* message ids (uuidv4 in the code)
  NoMessage,   \* stands for "no message in hand"
  Processors,  \* EmailProcessor / WhatsAppProcessor instances, one job at a time each
  Acks,        \* slots for message_ack handlers in flight
  Admins,      \* slots for dead-letter requests in flight
  Hosts,       \* worker processes
  HostOf,      \* the worker process a processor or an ack handler lives in
  ChannelOf,   \* the channel of a message and of a processor
  MaxFaults,   \* bound: faults in a behaviour
  MaxOps       \* bound: dead-letter requests in a behaviour

Channels == {"email", "whatsapp"}

ASSUME NoMessageAssumption == NoMessage \notin Messages
ASSUME HostAssumption      == HostOf \in [Processors \cup Acks -> Hosts]
ASSUME ChannelAssumption   == ChannelOf \in [Messages \cup Processors -> Channels]
ASSUME BoundsAssumption    == MaxFaults \in Nat /\ MaxOps \in Nat

VARIABLES
  row,        \* messages table: status, and the provider id acks look up (0: null)
  job,        \* the message's job in its channel's queue
  pending,    \* batches the API saved and has not enqueued yet
  run,        \* what each processor is doing
  ack,        \* what each ack handler is doing
  admin,      \* what each dead-letter request is doing
  \* History, never read by the code:
  sends,      \* how often the provider accepted the message
  events,     \* how often each webhook event was dispatched for it
  mishaps,    \* the faults and lost races the message went through
  \* Bounds:
  faultsLeft,
  opsLeft

vars == <<row, job, pending, run, ack, admin, sends, events, mishaps, faultsLeft, opsLeft>>
bounds == <<mishaps, faultsLeft, opsLeft>>

MessageStatus == {"scheduled", "queued", "processing", "sent", "failed", "delivered"}
WebhookEvent  == {"message.sent", "message.failed", "message.delivered"}

Row == [status : MessageStatus \cup {"absent"}, providerId : Nat]

(* What can go wrong with a message.  The first five are faults of the     *)
(* environment and use up the fault budget; the last two are races the     *)
(* code can lose without any fault.                                        *)
Mishap ==
  { "enqueue",    \* the row was saved and the job was not added
    "db",         \* a write of the row failed, or its answer was lost
    "answer",     \* the provider took the message and the send call threw
    "lock",       \* the run lost its lock, or the worker died in the middle of it
    "event",      \* the webhook dispatcher swallowed an error
    "requeue",    \* markRequeued wrote the row after a worker had taken the job again
    "discard" }   \* discard removed a job that had left the failed set

Steps == { "idle", "start", "send", "record", "announceSent", "complete",
           "catch", "announceFailed", "rethrow" }

Run == [ step : Steps, msg : Messages \cup {NoMessage}, attempt : Nat,
         locked : BOOLEAN, id : Nat ]

IdleRun == [ step |-> "idle", msg |-> NoMessage, attempt |-> 0, locked |-> FALSE, id |-> 0 ]

AckHandler == [ step : {"idle", "lookup", "lookAgain", "update", "announce"},
                msg : Messages \cup {NoMessage}, id : Nat ]

IdleAck == [ step |-> "idle", msg |-> NoMessage, id |-> 0 ]

AdminOp == [ op : {"idle", "retry", "discard"}, todo : SUBSET Messages,
             cur : Messages \cup {NoMessage} ]

IdleAdmin == [ op |-> "idle", todo |-> {}, cur |-> NoMessage ]

TypeOK ==
  /\ row \in [Messages -> Row]
  /\ job \in [Messages -> Job]
  /\ pending \subseteq SUBSET Messages
  /\ run \in [Processors -> Run]
  /\ ack \in [Acks -> AckHandler]
  /\ admin \in [Admins -> AdminOp]
  /\ sends \in [Messages -> Nat]
  /\ events \in [Messages -> [WebhookEvent -> Nat]]
  /\ mishaps \in [Messages -> SUBSET Mishap]
  /\ faultsLeft \in Nat
  /\ opsLeft \in Nat

Init ==
  /\ row = [m \in Messages |-> [status |-> "absent", providerId |-> 0]]
  /\ job = [m \in Messages |-> NoJob]
  /\ pending = {}
  /\ run = [p \in Processors |-> IdleRun]
  /\ ack = [a \in Acks |-> IdleAck]
  /\ admin = [a \in Admins |-> IdleAdmin]
  /\ sends = [m \in Messages |-> 0]
  /\ events = [m \in Messages |-> [e \in WebhookEvent |-> 0]]
  /\ mishaps = [m \in Messages |-> {}]
  /\ faultsLeft = MaxFaults
  /\ opsLeft = MaxOps

-----------------------------------------------------------------------------
(* Faults, row writes and webhook dispatch, shared by the handlers.        *)

Suffer(M, kind) ==
  mishaps' = [m \in Messages |-> IF m \in M THEN mishaps[m] \cup {kind} ELSE mishaps[m]]

Fault(M, kind) ==
  /\ faultsLeft > 0
  /\ faultsLeft' = faultsLeft - 1
  /\ Suffer(M, kind)

NoFault == UNCHANGED <<mishaps, faultsLeft>>

\* messageRepo.update(m, ...) that succeeds / that throws, in which case the
\* database may have committed it or not.
Update(m, status) == row' = [row EXCEPT ![m].status = status]

UpdateThrows(m, status) ==
  /\ Fault({m}, "db")
  /\ UNCHANGED row \/ Update(m, status)

\* WebhookDispatcherService.dispatch: never throws, may swallow an error.
Dispatch(m, e) ==
  \/ NoFault /\ events' = [events EXCEPT ![m][e] = @ + 1]
  \/ Fault({m}, "event") /\ UNCHANGED events

-----------------------------------------------------------------------------
(* The API: MessagesService.send and sendBulk.                             *)

InitialStatus(delayed) == IF delayed THEN "scheduled" ELSE "queued"

\* One transaction saves the rows of the whole batch.
Persist(S, delayed) ==
  /\ \A m \in S : row[m].status = "absent"
  /\ row' = [m \in Messages |->
               IF m \in S THEN [row[m] EXCEPT !.status = InitialStatus(delayed)] ELSE row[m]]
  /\ pending' = pending \cup {S}
  /\ UNCHANGED <<job, run, ack, admin, sends, events, bounds>>

Send(m, delayed) == Persist({m}, delayed)

SendBulk(S, delayed) ==
  /\ \E c \in Channels : \A m \in S : ChannelOf[m] = c
  /\ Persist(S, delayed)

\* queue.add / queue.addBulk (one Redis transaction); the client is answered.
Enqueue(S) ==
  /\ S \in pending
  /\ pending' = pending \ {S}
  /\ job' = [m \in Messages |->
               IF m \in S THEN AddedJob(row[m].status = "scheduled") ELSE job[m]]
  /\ UNCHANGED <<row, run, ack, admin, sends, events, bounds>>

\* Redis refuses the add, or the API dies first: the rows stay.
EnqueueFails(S) ==
  /\ S \in pending
  /\ pending' = pending \ {S}
  /\ Fault(S, "enqueue")
  /\ UNCHANGED <<row, job, run, ack, admin, sends, events, opsLeft>>

-----------------------------------------------------------------------------
(* The worker: EmailProcessor.process and WhatsAppProcessor.process, one   *)
(* action per awaited call.  The code is the same up to the provider id.   *)

At(p, step) == run[p].step = step
Goto(p, step) == run' = [run EXCEPT ![p].step = step]

Locked(m) == \E p \in Processors : run[p].msg = m /\ run[p].locked

\* BullMQ hands the processor a job; each processor runs one at a time.
Take(p, m) ==
  /\ At(p, "idle")
  /\ ChannelOf[p] = ChannelOf[m]
  /\ job[m].state = "waiting"
  /\ job' = [job EXCEPT ![m] = Taken(@)]
  /\ run' = [run EXCEPT ![p] = [step |-> "start", msg |-> m, attempt |-> job[m].attemptsMade,
                                locked |-> TRUE, id |-> 0]]
  /\ UNCHANGED <<row, pending, ack, admin, sends, events, bounds>>

\* (mutant: the row is not marked before the send)
MarkProcessingSkipped(p) ==
  /\ At(p, "start")
  /\ NoFault /\ Goto(p, "send")
  /\ UNCHANGED <<row, job, pending, ack, admin, sends, events, opsLeft>>

\* The first update stands before the `try`: if it throws, no catch runs.
MarkProcessing(p) ==
  /\ At(p, "start")
  /\ \/ NoFault /\ Update(run[p].msg, "processing") /\ Goto(p, "send")
     \/ UpdateThrows(run[p].msg, "processing") /\ Goto(p, "rethrow")
  /\ UNCHANGED <<job, pending, ack, admin, sends, events, opsLeft>>

\* emailService.send / whatsappService.sendMessage: the provider takes the
\* message, refuses it (or is not ready), or takes it and the call throws.
ProviderAccepts(p) ==
  /\ At(p, "send")
  /\ sends' = [sends EXCEPT ![run[p].msg] = @ + 1]
  /\ run' = [run EXCEPT ![p].step = "record", ![p].id = sends[run[p].msg] + 1]
  /\ UNCHANGED <<row, job, pending, ack, admin, events, bounds>>

\* (mutant: the error of the send is swallowed)
RefusalSwallowed(p) ==
  /\ At(p, "send")
  /\ Goto(p, "record")
  /\ UNCHANGED <<row, job, pending, ack, admin, sends, events, bounds>>

\* (mutant: the handler retries by itself and ignores the attempts limit)
RefusalRetriedInPlace(p) ==
  /\ At(p, "send")
  /\ Goto(p, "start")
  /\ UNCHANGED <<row, job, pending, ack, admin, sends, events, bounds>>

ProviderRefuses(p) ==
  /\ At(p, "send")
  /\ Goto(p, "catch")
  /\ UNCHANGED <<row, job, pending, ack, admin, sends, events, bounds>>

AnswerLost(p) ==
  /\ At(p, "send")
  /\ Fault({run[p].msg}, "answer")
  /\ sends' = [sends EXCEPT ![run[p].msg] = @ + 1]
  /\ Goto(p, "catch")
  /\ UNCHANGED <<row, job, pending, ack, admin, events, opsLeft>>

\* Only the WhatsApp processor has a provider id to store.
StoreSent(p) ==
  row' = [row EXCEPT ![run[p].msg] =
            [status     |-> "sent",
             providerId |-> IF ChannelOf[p] = "whatsapp" THEN run[p].id ELSE @.providerId]]

RecordSent(p) ==
  /\ At(p, "record")
  /\ \/ NoFault /\ StoreSent(p) /\ Goto(p, "announceSent")
     \/ /\ Fault({run[p].msg}, "db")
        /\ UNCHANGED row \/ StoreSent(p)
        /\ Goto(p, "catch")
  /\ UNCHANGED <<job, pending, ack, admin, sends, events, opsLeft>>

\* (mutant: a dispatcher that throws makes the processor fail the message)
AnnounceSentThrows(p) ==
  /\ At(p, "announceSent")
  /\ Dispatch(run[p].msg, "message.sent")
  /\ Goto(p, IF events' = events THEN "catch" ELSE "complete")
  /\ UNCHANGED <<row, job, pending, ack, admin, sends, opsLeft>>

AnnounceSent(p) ==
  /\ At(p, "announceSent")
  /\ Dispatch(run[p].msg, "message.sent")
  /\ Goto(p, "complete")
  /\ UNCHANGED <<row, job, pending, ack, admin, sends, opsLeft>>

\* (mutant: off by one, attemptsMade counts from zero)
LastAttemptOffByOne(p) == run[p].attempt >= Attempts

LastAttempt(p) == run[p].attempt >= Attempts - 1

\* (mutant: message.failed for every failed attempt, not only the last)
CatchErrorAnnouncesAll(p) ==
  LET status == IF LastAttempt(p) THEN "failed" ELSE "queued"
  IN /\ At(p, "catch")
     /\ \/ NoFault /\ Update(run[p].msg, status) /\ Goto(p, "announceFailed")
        \/ UpdateThrows(run[p].msg, status) /\ Goto(p, "rethrow")
     /\ UNCHANGED <<job, pending, ack, admin, sends, events, opsLeft>>

\* The catch block: back to queued, or failed for good on the last attempt.
CatchError(p) ==
  LET status == IF LastAttempt(p) THEN "failed" ELSE "queued"
  IN /\ At(p, "catch")
     /\ \/ /\ NoFault
           /\ Update(run[p].msg, status)
           /\ Goto(p, IF LastAttempt(p) THEN "announceFailed" ELSE "rethrow")
        \/ UpdateThrows(run[p].msg, status) /\ Goto(p, "rethrow")
     /\ UNCHANGED <<job, pending, ack, admin, sends, events, opsLeft>>

\* (mutant: the event of the other branch)
AnnounceFailedAsSent(p) ==
  /\ At(p, "announceFailed")
  /\ Dispatch(run[p].msg, "message.sent")
  /\ Goto(p, "rethrow")
  /\ UNCHANGED <<row, job, pending, ack, admin, sends, opsLeft>>

AnnounceFailed(p) ==
  /\ At(p, "announceFailed")
  /\ Dispatch(run[p].msg, "message.failed")
  /\ Goto(p, "rethrow")
  /\ UNCHANGED <<row, job, pending, ack, admin, sends, opsLeft>>

\* process() returns or throws.  BullMQ refuses to finish a job whose lock
\* this run no longer holds.
Finish(p, step, outcome) ==
  /\ At(p, step)
  /\ job' = IF run[p].locked THEN [job EXCEPT ![run[p].msg] = outcome] ELSE job
  /\ run' = [run EXCEPT ![p] = IdleRun]
  /\ UNCHANGED <<row, pending, ack, admin, sends, events, bounds>>

\* (mutant: the catch block without its `throw err`)
RethrowSwallowed(p) == At(p, "rethrow") /\ Finish(p, "rethrow", Completed(job[run[p].msg]))

Return(p)  == At(p, "complete") /\ Finish(p, "complete", Completed(job[run[p].msg]))
Rethrow(p) == At(p, "rethrow") /\ Finish(p, "rethrow", FailedAttempt(job[run[p].msg], run[p].attempt))

ProcessStep(p) ==
  \/ MarkProcessing(p)
  \/ ProviderAccepts(p) \/ ProviderRefuses(p) \/ AnswerLost(p)
  \/ RecordSent(p) \/ AnnounceSent(p)
  \/ CatchError(p) \/ AnnounceFailed(p)
  \/ Return(p) \/ Rethrow(p)

-----------------------------------------------------------------------------
(* BullMQ's clocks, and workers that stop or die.                          *)

Promote(m) ==
  /\ job[m].state = "delayed"
  /\ job' = [job EXCEPT ![m] = Promoted(@)]
  /\ UNCHANGED <<row, pending, run, ack, admin, sends, events, bounds>>

StalledCheck(m) ==
  /\ job[m].state = "active"
  /\ ~Locked(m)
  /\ job' = [job EXCEPT ![m] = Stalled(@)]
  /\ UNCHANGED <<row, pending, run, ack, admin, sends, events, bounds>>

\* The event loop is blocked, or Redis unreachable, for longer than the lock
\* lasts: the run goes on without it.
LoseLock(p) ==
  /\ run[p].locked
  /\ Fault({run[p].msg}, "lock")
  /\ run' = [run EXCEPT ![p].locked = FALSE]
  /\ UNCHANGED <<row, job, pending, ack, admin, sends, events, opsLeft>>

\* The process is killed, or reaches the 8 s deadline of its shutdown: its
\* runs and ack handlers vanish and its locks lapse.
Crash(h) ==
  LET P == {p \in Processors : HostOf[p] = h}
      A == {a \in Acks : HostOf[a] = h}
  IN /\ (\E p \in P : run[p] # IdleRun) \/ (\E a \in A : ack[a] # IdleAck)
     /\ Fault({run[p].msg : p \in P} \ {NoMessage}, "lock")
     /\ run' = [p \in Processors |-> IF p \in P THEN IdleRun ELSE run[p]]
     /\ ack' = [a \in Acks |-> IF a \in A THEN IdleAck ELSE ack[a]]
     /\ UNCHANGED <<row, job, pending, admin, sends, events, opsLeft>>

-----------------------------------------------------------------------------
(* Device acks: WhatsAppService.markDelivered.                             *)

AckGoto(a, step) == ack' = [ack EXCEPT ![a].step = step]
AckEnds(a) == ack' = [ack EXCEPT ![a] = IdleAck]

\* WhatsApp acknowledges the id it gave to an accepted send; acks come late,
\* twice (device, then read), or not at all.
AckArrives(a, m, id) ==
  /\ ack[a].step = "idle"
  /\ ChannelOf[m] = "whatsapp"
  /\ id \in 1..sends[m]
  /\ ack' = [ack EXCEPT ![a] = [step |-> "lookup", msg |-> m, id |-> id]]
  /\ UNCHANGED <<row, job, pending, run, admin, sends, events, bounds>>

\* findOne by provider id; a miss is looked up once more, 2 s later.
AckLookup(a) ==
  LET m == ack[a].msg
      found == row[m].providerId = ack[a].id
  IN /\ \/ /\ ack[a].step \in {"lookup", "lookAgain"}
           /\ found /\ row[m].status = "sent"
           /\ AckGoto(a, "update")
        \/ /\ ack[a].step \in {"lookup", "lookAgain"}
           /\ found /\ row[m].status # "sent"
           /\ AckEnds(a)
        \/ ack[a].step = "lookup" /\ ~found /\ AckGoto(a, "lookAgain")
        \/ ack[a].step = "lookAgain" /\ ~found /\ AckEnds(a)
     /\ UNCHANGED <<row, job, pending, run, admin, sends, events, bounds>>

\* update(row.id, delivered): the id was read before, the status is not re-read.
AckUpdate(a) ==
  /\ ack[a].step = "update"
  /\ \/ NoFault /\ Update(ack[a].msg, "delivered") /\ AckGoto(a, "announce")
     \/ UpdateThrows(ack[a].msg, "delivered") /\ AckEnds(a)
  /\ UNCHANGED <<job, pending, run, admin, sends, events, opsLeft>>

AckAnnounce(a) ==
  /\ ack[a].step = "announce"
  /\ Dispatch(ack[a].msg, "message.delivered")
  /\ AckEnds(a)
  /\ UNCHANGED <<row, job, pending, run, admin, sends, opsLeft>>

AckStep(a) == AckLookup(a) \/ AckUpdate(a) \/ AckAnnounce(a)

-----------------------------------------------------------------------------
(* The dead-letter endpoints: DlqService.retry, retryAll and discard.      *)

Begin(a, op, S) ==
  /\ admin[a].op = "idle"
  /\ opsLeft > 0
  /\ opsLeft' = opsLeft - 1
  /\ admin' = [admin EXCEPT ![a] = [op |-> op, todo |-> S, cur |-> NoMessage]]
  /\ UNCHANGED <<row, job, pending, run, ack, sends, events, mishaps, faultsLeft>>

AdminEnds(a) == admin' = [admin EXCEPT ![a] = IdleAdmin]

\* The isFailed() check of retry and discard, and the getFailed() of retryAll.
BeginRetry(a, m) == job[m].state = "failed" /\ Begin(a, "retry", {m})

BeginRetryAll(a, c) ==
  LET failed == {m \in Messages : ChannelOf[m] = c /\ job[m].state = "failed"}
  IN failed # {} /\ Begin(a, "retry", failed)

BeginDiscard(a, m) == job[m].state = "failed" /\ Begin(a, "discard", {m})

\* job.retry() throws unless the job is still failed, and the loop ends.
Reprocess(a, m) ==
  /\ admin[a].op = "retry"
  /\ admin[a].cur = NoMessage
  /\ m \in admin[a].todo
  /\ \/ /\ job[m].state = "failed"
        /\ job' = [job EXCEPT ![m] = Reprocessed(@)]
        /\ admin' = [admin EXCEPT ![a].cur = m]
     \/ /\ job[m].state # "failed"
        /\ AdminEnds(a)
        /\ UNCHANGED job
  /\ UNCHANGED <<row, pending, run, ack, sends, events, bounds>>

NextJob(a) ==
  LET rest == admin[a].todo \ {admin[a].cur}
  IN admin' = [admin EXCEPT ![a] = IF rest = {} THEN IdleAdmin
                                   ELSE [op |-> "retry", todo |-> rest, cur |-> NoMessage]]

\* (mutant: the test that spares webhook jobs inverted)
MarkRequeuedInverted(a) ==
  /\ admin[a].cur # NoMessage
  /\ NextJob(a)
  /\ UNCHANGED <<row, job, pending, run, ack, sends, events, bounds>>

\* The row is put back to queued after the job was: a worker may have it already.
MarkRequeued(a) ==
  LET m == admin[a].cur
  IN /\ m # NoMessage
     /\ \/ /\ Update(m, "queued")
           /\ NextJob(a)
           /\ IF job[m].state = "waiting" THEN UNCHANGED mishaps ELSE Suffer({m}, "requeue")
           /\ UNCHANGED faultsLeft
        \/ UpdateThrows(m, "queued") /\ AdminEnds(a)
     /\ UNCHANGED <<job, pending, run, ack, sends, events, opsLeft>>

\* job.remove() takes the job out of whatever state it is in by now, unless
\* a worker holds its lock.
RemoveJob(a) ==
  /\ admin[a].op = "discard"
  /\ \E m \in admin[a].todo :
       IF Locked(m) THEN UNCHANGED <<job, mishaps>>
       ELSE /\ job' = [job EXCEPT ![m] = Removed(@)]
            /\ IF job[m].state \in {"failed", "removed"} THEN UNCHANGED mishaps
               ELSE Suffer({m}, "discard")
  /\ AdminEnds(a)
  /\ UNCHANGED <<row, pending, run, ack, sends, events, faultsLeft, opsLeft>>

AdminStep(a) == (\E m \in Messages : Reprocess(a, m)) \/ MarkRequeued(a) \/ RemoveJob(a)

-----------------------------------------------------------------------------
API ==
  \/ \E m \in Messages, delayed \in BOOLEAN : Send(m, delayed)
  \/ \E S \in SUBSET Messages \ {{}}, delayed \in BOOLEAN : SendBulk(S, delayed)
  \/ \E S \in pending : Enqueue(S) \/ EnqueueFails(S)

DeadLetters ==
  \E a \in Admins :
    \/ \E m \in Messages : BeginRetry(a, m) \/ BeginDiscard(a, m)
    \/ \E c \in Channels : BeginRetryAll(a, c)
    \/ AdminStep(a)

DeviceAcks ==
  \E a \in Acks :
    \/ \E m \in Messages : \E id \in 1..sends[m] : AckArrives(a, m, id)
    \/ AckStep(a)

Worker ==
  \/ \E p \in Processors : \/ \E m \in Messages : Take(p, m)
                           \/ ProcessStep(p)
                           \/ LoseLock(p)
  \/ \E m \in Messages : Promote(m) \/ StalledCheck(m)
  \/ \E h \in Hosts : Crash(h)

Next == API \/ Worker \/ DeviceAcks \/ DeadLetters

(* Node keeps running the handlers it started, BullMQ keeps handing out    *)
(* jobs, promoting delays and checking for stalls.  Nothing makes a client *)
(* send, an operator click, a device acknowledge or a fault happen.        *)
Fairness ==
  /\ \A S \in SUBSET Messages : WF_vars(Enqueue(S))
  /\ \A p \in Processors : /\ WF_vars(ProcessStep(p))
                           /\ WF_vars(\E m \in Messages : Take(p, m))
  /\ \A m \in Messages : WF_vars(Promote(m)) /\ WF_vars(StalledCheck(m))
  /\ \A a \in Acks : WF_vars(AckStep(a))
  /\ \A a \in Admins : WF_vars(AdminStep(a))

Spec == Init /\ [][Next]_vars
FairSpec == Spec /\ Fairness

-----------------------------------------------------------------------------
(* What the pipeline promises.                                             *)

\* The row may still say failed while a dead-letter retry is between
\* job.retry() and markRequeued.
RetryUnderWay(m) == \E a \in Admins : admin[a].cur = m

BeforeRun(m, made) ==
  IF made = 0 THEN {"scheduled", "queued"}
  ELSE {"queued"} \cup (IF RetryUnderWay(m) THEN {"failed"} ELSE {})

DuringRun(p) ==
  CASE run[p].step = "start"                        -> BeforeRun(run[p].msg, run[p].attempt)
    [] run[p].step \in {"send", "record", "catch"}  -> {"processing"}
    [] run[p].step \in {"announceSent", "complete"} -> {"sent", "delivered"}
    [] run[p].step = "announceFailed"               -> {"failed"}
    [] run[p].step = "rethrow"                      -> {IF LastAttempt(p) THEN "failed" ELSE "queued"}
    [] OTHER                                        -> {}

\* What the row of m may say, given where its job is.
Agreed(m) ==
  LET j == job[m]
  IN CASE j.state = "none" -> IF m \in UNION pending THEN {"scheduled", "queued"} ELSE {"absent"}
       [] j.state = "delayed"   -> {IF j.attemptsMade = 0 THEN "scheduled" ELSE "queued"}
       [] j.state = "waiting"   -> BeforeRun(m, j.attemptsMade)
       [] j.state = "active"    -> UNION {DuringRun(p) : p \in {q \in Processors : run[q].msg = m}}
       [] j.state = "completed" -> {"sent", "delivered"}
       [] j.state \in {"failed", "removed"} -> {"failed"}

\* No fault or race hit m, other than those of these kinds.
Only(kinds, m) == mishaps[m] \subseteq kinds

(* The status a client reads is the state of the message's job, although   *)
(* row and job live in two stores and no transaction spans them: the two   *)
(* agree at every step of every handler unless a row write, a lock or the  *)
(* enqueueing failed or a dead-letter request lost a race.  A provider     *)
(* that hides its answer and a lost webhook change nothing.                *)
RowTracksJob == \A m \in Messages : Only({"answer", "event"}, m) => row[m].status \in Agreed(m)

(* The provider takes a message twice only after a failed row write, a     *)
(* lost answer or a lost lock: retries, bulk retries, discards and ack     *)
(* handlers alone never send a message again.                              *)
DuplicateNeedsFault ==
  \A m \in Messages : sends[m] > 1 => mishaps[m] \cap {"db", "answer", "lock"} # {}

(* Whatever goes wrong, no row, no completed job and no webhook claims a   *)
(* message was sent or delivered that the provider never accepted.         *)
NeverClaimsUnsent ==
  \A m \in Messages :
    sends[m] = 0 => /\ row[m].status \notin {"sent", "delivered"}
                    /\ job[m].state # "completed"
                    /\ events[m]["message.sent"] = 0
                    /\ events[m]["message.delivered"] = 0

\* Runs of m that ended in a final failure, the one in progress included.
FinalFailures(m) ==
  (IF job[m].attemptsMade >= Attempts THEN job[m].attemptsMade - (Attempts - 1) ELSE 0)
  + (IF \E p \in Processors : run[p].msg = m /\ At(p, "rethrow") /\ LastAttempt(p) THEN 1 ELSE 0)

Announced(m) == job[m].state = "completed" \/ \E p \in Processors : run[p].msg = m /\ At(p, "complete")

(* Subscribers hear of each outcome exactly once: one message.sent for a   *)
(* message that was sent, one message.failed each time its attempts are    *)
(* used up, message.delivered only for a row that says delivered.          *)
EventsMatchOutcome ==
  \A m \in Messages :
    Only({"answer"}, m) =>
      /\ events[m]["message.sent"] = IF Announced(m) THEN 1 ELSE 0
      /\ Announced(m) \/ events[m]["message.failed"] = FinalFailures(m)
      /\ events[m]["message.delivered"] > 0 => row[m].status = "delivered"

\* What the client of m sees while nothing excuses the pipeline.
ClientView == [m \in Messages |-> IF Only({"answer", "event"}, m) THEN row[m].status ELSE "disturbed"]

Lifecycle == INSTANCE MessageLifecycle WITH status <- ClientView

(* Whatever runs concurrently, the status of a message moves only along    *)
(* the lifecycle: never back from sent or delivered, never to sent without *)
(* processing, never to failed but from the last attempt.                  *)
ImplementsLifecycle == Lifecycle!Spec

(* Every message that stays clear of faults and races comes to an end the  *)
(* client can read, however often an operator intervenes.                  *)
EveryMessageSettles ==
  \A m \in Messages :
    row[m].status \in {"scheduled", "queued", "processing"} ~>
      (row[m].status \in {"sent", "delivered", "failed"} \/ mishaps[m] # {})

(* Through every fault, crash and stall, each job leaves the queue for     *)
(* good: completed, failed into the dead-letter queue, or discarded.       *)
JobsComeToRest ==
  <>[](\A m \in Messages : job[m].state \in {"none", "completed", "failed", "removed"})

-----------------------------------------------------------------------------
(* What the repository says of the pipeline and the code does not keep.    *)

(* dlq.controller.ts:32 says a discarded job leaves its message marked     *)
(* failed.  discard() checks isFailed() and removes later: a retry between *)
(* the two puts the job and the row back to queued, and the job is gone.   *)
DiscardedStaysFailed == \A m \in Messages : job[m].state = "removed" => row[m].status = "failed"

(* Roadmap.md:70 draws queued -> processing -> sent: nothing leads back to *)
(* queued once the message is sent.  markRequeued writes the row after     *)
(* job.retry(), so a fast worker is overtaken by it.                       *)
CompletedMeansSent ==
  \A m \in Messages : job[m].state = "completed" => row[m].status \in {"sent", "delivered"}

(* STATUS.md:107 says an ack flips a sent row to delivered and dispatches  *)
(* an event.  Two acks in flight both read `sent` and both dispatch.       *)
DeliveredOnce == \A m \in Messages : events[m]["message.delivered"] <= 1

=============================================================================

----------------------- MODULE MessagePipelineProofs -----------------------
(***************************************************************************)
(* What is proved of MessagePipeline, for any number of messages,          *)
(* processors, ack handlers, operators, hosts, attempts and faults:        *)
(*   - its types;                                                          *)
(*   - the delivery guarantees: nothing claims a message was sent that was *)
(*     not, and a second send needs a fault;                               *)
(*   - what a client and a subscriber are told: a message's row agrees     *)
(*     with its job, the statuses follow MessageLifecycle, and webhooks    *)
(*     tell each outcome once.                                             *)
(***************************************************************************)
EXTENDS MessagePipeline, TLAPS

-----------------------------------------------------------------------------
(* Type correctness.  Handlers that are not idle hold a message; the       *)
(* updates of row, sends and events they make need it.                     *)

BusyHandlersHoldAMessage ==
  /\ \A p \in Processors : ~At(p, "idle") => run[p].msg \in Messages
  /\ \A a \in Acks : ack[a].step # "idle" => ack[a].msg \in Messages

TypeInv == TypeOK /\ BusyHandlersHoldAMessage

\* The job operators return jobs.
LEMMA JobOperatorsType ==
  ASSUME NEW j \in Job, NEW d \in BOOLEAN, NEW n \in Nat
  PROVE  /\ NoJob \in Job /\ AddedJob(d) \in Job
         /\ Promoted(j) \in Job /\ Taken(j) \in Job /\ Completed(j) \in Job
         /\ FailedAttempt(j, n) \in Job /\ Stalled(j) \in Job
         /\ Reprocessed(j) \in Job /\ Removed(j) \in Job
  <1>1. NoJob \in Job /\ AddedJob(d) \in Job
    BY DEF Job, JobState, NoJob, AddedJob
  <1>2. Promoted(j) \in Job /\ Taken(j) \in Job /\ Reprocessed(j) \in Job /\ Removed(j) \in Job
    BY DEF Job, JobState, Promoted, Taken, Reprocessed, Removed
  <1>3. j.attemptsMade + 1 \in Nat /\ j.stalls + 1 \in Nat
    BY DEF Job
  <1>4. Completed(j) \in Job
    BY <1>3, Zenon DEF Job, JobState, Completed
  <1>5. FailedAttempt(j, n) \in Job
    BY <1>3, Zenon DEF Job, JobState, FailedAttempt
  <1>6. Stalled(j) \in Job
    BY <1>3 DEF Job, JobState, Stalled
  <1> QED
    BY <1>1, <1>2, <1>4, <1>5, <1>6

\* Init establishes the type invariant.
LEMMA TypeInit == Init => TypeInv
  <1> SUFFICES ASSUME Init PROVE TypeInv
    OBVIOUS
  <1>1. NoJob \in Job
    BY DEF Job, JobState, NoJob
  <1>2. row \in [Messages -> Row]
    BY DEF Init, Row
  <1>3. run \in [Processors -> Run]
    BY DEF Init, Run, Steps, IdleRun
  <1>4. ack \in [Acks -> AckHandler] /\ admin \in [Admins -> AdminOp]
    BY DEF Init, AckHandler, IdleAck, AdminOp, IdleAdmin
  <1>5. events \in [Messages -> [WebhookEvent -> Nat]]
    BY DEF Init
  <1>6. faultsLeft \in Nat /\ opsLeft \in Nat
    BY BoundsAssumption DEF Init
  <1>7. BusyHandlersHoldAMessage
    BY DEF Init, BusyHandlersHoldAMessage, At, IdleRun, IdleAck
  <1> QED
    BY <1>1, <1>2, <1>3, <1>4, <1>5, <1>6, <1>7 DEF Init, TypeInv, TypeOK, Mishap

\* Marking a mishap, and spending a fault, keeps the types.
LEMMA FaultType ==
  ASSUME mishaps \in [Messages -> SUBSET Mishap], faultsLeft \in Nat,
         NEW M, NEW kind \in Mishap
  PROVE  /\ Suffer(M, kind) => mishaps' \in [Messages -> SUBSET Mishap]
         /\ Fault(M, kind) => mishaps' \in [Messages -> SUBSET Mishap] /\ faultsLeft' \in Nat
         /\ NoFault => mishaps' \in [Messages -> SUBSET Mishap] /\ faultsLeft' \in Nat
  BY DEF Suffer, Fault, NoFault

\* So do the row writes ...
LEMMA UpdateType ==
  ASSUME row \in [Messages -> Row], mishaps \in [Messages -> SUBSET Mishap], faultsLeft \in Nat,
         NEW m \in Messages, NEW status \in MessageStatus
  PROVE  /\ Update(m, status) => row' \in [Messages -> Row]
         /\ UpdateThrows(m, status) => /\ row' \in [Messages -> Row]
                                       /\ mishaps' \in [Messages -> SUBSET Mishap]
                                       /\ faultsLeft' \in Nat
  <1>1. Update(m, status) => row' \in [Messages -> Row]
    BY DEF Update, Row
  <1>2. "db" \in Mishap
    BY DEF Mishap
  <1> QED
    BY <1>1, <1>2, FaultType DEF UpdateThrows

\* ... and the webhook dispatches.
LEMMA DispatchType ==
  ASSUME events \in [Messages -> [WebhookEvent -> Nat]],
         mishaps \in [Messages -> SUBSET Mishap], faultsLeft \in Nat,
         NEW m \in Messages, NEW e \in WebhookEvent, Dispatch(m, e)
  PROVE  /\ events' \in [Messages -> [WebhookEvent -> Nat]]
         /\ mishaps' \in [Messages -> SUBSET Mishap]
         /\ faultsLeft' \in Nat
  <1>1. "event" \in Mishap
    BY DEF Mishap
  <1>2. events[m][e] + 1 \in Nat
    OBVIOUS
  <1>3. [events EXCEPT ![m][e] = @ + 1] \in [Messages -> [WebhookEvent -> Nat]]
    BY <1>2
  <1> QED
    BY <1>1, <1>3, FaultType DEF Dispatch

\* Moving a run or an ack handler that holds a message to another step.
LEMMA GotoType ==
  ASSUME TypeInv, NEW p \in Processors, NEW step \in Steps, ~At(p, "idle"), Goto(p, step)
  PROVE  run' \in [Processors -> Run] /\ \A q \in Processors : ~At(q, "idle")' => run'[q].msg \in Messages
  <1>1. [run[p] EXCEPT !.step = step] \in Run
    BY DEF TypeInv, TypeOK, Run
  <1>2. run[p].msg \in Messages /\ [run[p] EXCEPT !.step = step].msg = run[p].msg
    BY DEF TypeInv, TypeOK, BusyHandlersHoldAMessage, Run
  <1>3. run' = [run EXCEPT ![p] = [run[p] EXCEPT !.step = step]]
    BY DEF Goto
  <1> QED
    BY <1>1, <1>2, <1>3 DEF TypeInv, TypeOK, BusyHandlersHoldAMessage, At

\* An ack handler that moves to another step, or ends, stays well typed.
LEMMA AckMovesType ==
  ASSUME TypeInv, NEW a \in Acks, ack[a].step # "idle",
         NEW step \in {"lookup", "lookAgain", "update", "announce"},
         AckGoto(a, step) \/ AckEnds(a)
  PROVE  /\ ack' \in [Acks -> AckHandler]
         /\ \A b \in Acks : ack'[b].step # "idle" => ack'[b].msg \in Messages
  <1>1. IdleAck \in AckHandler /\ IdleAck.step = "idle"
    BY DEF IdleAck, AckHandler
  <1>2. CASE AckGoto(a, step)
    BY <1>2 DEF TypeInv, TypeOK, BusyHandlersHoldAMessage, AckGoto, AckHandler
  <1>3. CASE AckEnds(a)
    BY <1>1, <1>3 DEF TypeInv, TypeOK, BusyHandlersHoldAMessage, AckEnds
  <1> QED
    BY <1>2, <1>3

-----------------------------------------------------------------------------
(* What the shared steps change and what they leave alone.                 *)

\* The state each job operator leaves a job in.
LEMMA JobStates ==
  ASSUME NEW j \in Job, NEW d \in BOOLEAN, NEW n \in Nat
  PROVE  /\ NoJob.state = "none" /\ AddedJob(d).state \in {"delayed", "waiting"}
         /\ Promoted(j).state = "waiting" /\ Taken(j).state = "active"
         /\ Completed(j).state = "completed" /\ Reprocessed(j).state = "waiting"
         /\ FailedAttempt(j, n).state \in {"delayed", "failed"}
         /\ Stalled(j).state \in {"waiting", "failed"} /\ Removed(j).state = "removed"
  <1>1. \A s : [j EXCEPT !.state = s].state = s
    BY DEF Job
  <1>2. \A s, k : /\ [j EXCEPT !.state = s, !.attemptsMade = k].state = s
                  /\ [j EXCEPT !.state = s, !.stalls = k].state = s
    BY DEF Job
  <1>3. FailedAttempt(j, n).state = (IF n + 1 < Attempts THEN "delayed" ELSE "failed")
    BY <1>2, Zenon DEF FailedAttempt
  <1>4. Stalled(j).state = (IF j.stalls + 1 > MaxStalledCount THEN "failed" ELSE "waiting")
    BY <1>2, Zenon DEF Stalled
  <1>5. Completed(j).state = "completed"
    BY <1>2, Zenon DEF Completed
  <1> QED
    BY <1>1, <1>3, <1>4, <1>5 DEF NoJob, AddedJob, Promoted, Taken, Reprocessed, Removed

\* Goto changes the step of one run and nothing else of any run.
LEMMA GotoMoves ==
  ASSUME TypeInv, NEW p \in Processors, NEW step, Goto(p, step)
  PROVE  /\ run'[p].step = step /\ run'[p].msg = run[p].msg /\ run'[p].id = run[p].id
         /\ run'[p].attempt = run[p].attempt /\ run'[p].locked = run[p].locked
         /\ \A q \in Processors \ {p} : run'[q] = run[q]
  BY DEF TypeInv, TypeOK, Goto, Run

\* A row update, failed or not, changes at most the status of one row.
LEMMA UpdateWrites ==
  ASSUME TypeInv, NEW m \in Messages, NEW status, Update(m, status) \/ UpdateThrows(m, status)
  PROVE  /\ row'[m].status \in {row[m].status, status} /\ row'[m].providerId = row[m].providerId
         /\ \A n \in Messages \ {m} : row'[n] = row[n]
  BY DEF TypeInv, TypeOK, Update, UpdateThrows, Row

-----------------------------------------------------------------------------
\* Every kind of step keeps the type invariant: the API's, ...
LEMMA TypeAPI == TypeInv /\ API => TypeInv'
  <1> SUFFICES ASSUME TypeInv, API PROVE TypeInv'
    OBVIOUS
  <1> USE DEF TypeInv, BusyHandlersHoldAMessage, At
  <1>1. ASSUME NEW S \in SUBSET Messages, NEW delayed \in BOOLEAN, Persist(S, delayed)
        PROVE  TypeInv'
    <2> DEFINE status == InitialStatus(delayed)
    <2>1. \A m \in Messages : [row[m] EXCEPT !.status = status] \in Row
      BY DEF TypeOK, Row, MessageStatus, InitialStatus
    <2>2. row' \in [Messages -> Row]
      BY <1>1, <2>1 DEF Persist, TypeOK
    <2> QED
      BY <1>1, <2>2 DEF Persist, TypeOK, bounds
  <1>2. ASSUME NEW S \in pending, Enqueue(S) PROVE TypeInv'
    <2>1. \A m \in Messages : AddedJob(row[m].status = "scheduled") \in Job
      BY DEF AddedJob, Job, JobState
    <2>2. job' \in [Messages -> Job]
      BY <1>2, <2>1 DEF Enqueue, TypeOK
    <2> QED
      BY <1>2, <2>2 DEF Enqueue, TypeOK, bounds
  <1>3. ASSUME NEW S \in pending, EnqueueFails(S) PROVE TypeInv'
    <2>1. mishaps' \in [Messages -> SUBSET Mishap] /\ faultsLeft' \in Nat
      BY <1>3, FaultType DEF EnqueueFails, Mishap, TypeOK
    <2> QED
      BY <1>3, <2>1 DEF EnqueueFails, TypeOK
  <1> QED
    BY <1>1, <1>2, <1>3 DEF API, Send, SendBulk

\* ... a processor's, ...
LEMMA TypeTake ==
  ASSUME TypeInv, NEW p \in Processors, NEW m \in Messages, Take(p, m)
  PROVE  TypeInv'
  <1> USE DEF TypeInv, BusyHandlersHoldAMessage, At
  <1>1. job' \in [Messages -> Job]
    BY JobOperatorsType DEF Take, TypeOK
  <1>2. job[m].attemptsMade \in Nat
    BY DEF TypeOK, Job
  <1>3. /\ run' \in [Processors -> Run]
        /\ \A q \in Processors : run'[q].step # "idle" => run'[q].msg \in Messages
    BY <1>2 DEF Take, TypeOK, Run, Steps
  <1> QED
    BY <1>1, <1>3 DEF Take, TypeOK, bounds

\* The handlers' steps keep the types.
LEMMA TypeProcessStep ==
  ASSUME TypeInv, NEW p \in Processors, ProcessStep(p)
  PROVE  TypeInv'
  <1> DEFINE m == run[p].msg
             BusyRuns == \A q \in Processors : ~At(q, "idle") => run[q].msg \in Messages
  <1> USE DEF TypeInv
  <1>0. /\ "processing" \in MessageStatus /\ "queued" \in MessageStatus /\ "failed" \in MessageStatus
        /\ "message.sent" \in WebhookEvent /\ "message.failed" \in WebhookEvent
        /\ "answer" \in Mishap /\ "db" \in Mishap
        /\ {"send", "rethrow", "catch", "announceSent", "complete", "announceFailed"} \subseteq Steps
    BY DEF MessageStatus, WebhookEvent, Mishap, Steps
  <1>1. ~At(p, "idle") /\ m \in Messages
    BY DEF ProcessStep, MarkProcessing, ProviderAccepts, ProviderRefuses, AnswerLost, RecordSent,
           AnnounceSent, CatchError, AnnounceFailed, Return, Rethrow, BusyHandlersHoldAMessage, At
  <1>2. CASE MarkProcessing(p)
    <2>1. run' \in [Processors -> Run] /\ BusyRuns'
      BY <1>0, <1>1, <1>2, GotoType DEF MarkProcessing
    <2>2. row' \in [Messages -> Row] /\ mishaps' \in [Messages -> SUBSET Mishap] /\ faultsLeft' \in Nat
      BY <1>0, <1>1, <1>2, UpdateType, FaultType DEF MarkProcessing, TypeOK
    <2> QED
      BY <1>2, <2>1, <2>2 DEF MarkProcessing, TypeOK, BusyHandlersHoldAMessage
  <1>3. CASE ProviderAccepts(p)
    <2>1. sends[m] + 1 \in Nat
      BY <1>1 DEF TypeOK
    <2>2. sends' \in [Messages -> Nat]
      BY <1>3, <2>1 DEF ProviderAccepts, TypeOK
    <2>3. /\ [run[p] EXCEPT !.step = "record", !.id = sends[m] + 1] \in Run
          /\ [run[p] EXCEPT !.step = "record", !.id = sends[m] + 1].msg = m
      BY <2>1 DEF TypeOK, Run, Steps
    <2>4. run' = [run EXCEPT ![p] = [run[p] EXCEPT !.step = "record", !.id = sends[m] + 1]]
      BY <1>3, Zenon DEF ProviderAccepts
    <2>5. run' \in [Processors -> Run] /\ BusyRuns'
      BY <1>1, <2>3, <2>4 DEF TypeOK, BusyHandlersHoldAMessage, At
    <2> QED
      BY <1>3, <2>2, <2>5 DEF ProviderAccepts, TypeOK, bounds, BusyHandlersHoldAMessage
  <1>4. CASE ProviderRefuses(p)
    <2>1. run' \in [Processors -> Run] /\ BusyRuns'
      BY <1>0, <1>1, <1>4, GotoType DEF ProviderRefuses
    <2> QED
      BY <1>4, <2>1 DEF ProviderRefuses, TypeOK, bounds, BusyHandlersHoldAMessage
  <1>5. CASE AnswerLost(p)
    <2>1. sends[m] + 1 \in Nat
      BY <1>1 DEF TypeOK
    <2>2. sends' \in [Messages -> Nat]
      BY <1>5, <2>1 DEF AnswerLost, TypeOK
    <2>3. run' \in [Processors -> Run] /\ BusyRuns'
      BY <1>0, <1>1, <1>5, GotoType DEF AnswerLost
    <2>4. mishaps' \in [Messages -> SUBSET Mishap] /\ faultsLeft' \in Nat
      BY <1>0, <1>5, FaultType DEF AnswerLost, TypeOK
    <2> QED
      BY <1>5, <2>2, <2>3, <2>4 DEF AnswerLost, TypeOK, BusyHandlersHoldAMessage
  <1>6. CASE RecordSent(p)
    <2>1. run' \in [Processors -> Run] /\ BusyRuns'
      BY <1>0, <1>1, <1>6, GotoType DEF RecordSent
    <2>2. run[p].id \in Nat /\ row[m].providerId \in Nat
      BY <1>1 DEF TypeOK, Run, Row
    <2>3. StoreSent(p) => row' \in [Messages -> Row]
      BY <2>2, <1>1 DEF TypeOK, StoreSent, Row, MessageStatus
    <2>4. row' \in [Messages -> Row] /\ mishaps' \in [Messages -> SUBSET Mishap] /\ faultsLeft' \in Nat
      BY <1>0, <1>6, <2>3, FaultType DEF RecordSent, TypeOK
    <2> QED
      BY <1>6, <2>1, <2>4 DEF RecordSent, TypeOK, BusyHandlersHoldAMessage
  <1>7. CASE AnnounceSent(p)
    <2>1. run' \in [Processors -> Run] /\ BusyRuns'
      BY <1>0, <1>1, <1>7, GotoType DEF AnnounceSent
    <2>2. /\ events' \in [Messages -> [WebhookEvent -> Nat]]
          /\ mishaps' \in [Messages -> SUBSET Mishap] /\ faultsLeft' \in Nat
      BY <1>0, <1>1, <1>7, DispatchType DEF AnnounceSent, TypeOK
    <2> QED
      BY <1>7, <2>1, <2>2 DEF AnnounceSent, TypeOK, BusyHandlersHoldAMessage
  <1>8. CASE CatchError(p)
    <2>1. run' \in [Processors -> Run] /\ BusyRuns'
      BY <1>0, <1>1, <1>8, GotoType DEF CatchError
    <2>2. row' \in [Messages -> Row] /\ mishaps' \in [Messages -> SUBSET Mishap] /\ faultsLeft' \in Nat
      BY <1>0, <1>1, <1>8, UpdateType, FaultType DEF CatchError, TypeOK
    <2> QED
      BY <1>8, <2>1, <2>2 DEF CatchError, TypeOK, BusyHandlersHoldAMessage
  <1>9. CASE AnnounceFailed(p)
    <2>1. run' \in [Processors -> Run] /\ BusyRuns'
      BY <1>0, <1>1, <1>9, GotoType DEF AnnounceFailed
    <2>2. /\ events' \in [Messages -> [WebhookEvent -> Nat]]
          /\ mishaps' \in [Messages -> SUBSET Mishap] /\ faultsLeft' \in Nat
      BY <1>0, <1>1, <1>9, DispatchType DEF AnnounceFailed, TypeOK
    <2> QED
      BY <1>9, <2>1, <2>2 DEF AnnounceFailed, TypeOK, BusyHandlersHoldAMessage
  <1>10. ASSUME NEW step, NEW outcome \in Job, Finish(p, step, outcome) PROVE TypeInv'
    <2>1. job' \in [Messages -> Job]
      BY <1>10 DEF Finish, TypeOK
    <2>2. run' \in [Processors -> Run] /\ BusyRuns'
      BY <1>10 DEF Finish, TypeOK, Run, IdleRun, Steps, BusyHandlersHoldAMessage, At
    <2> QED
      BY <1>10, <2>1, <2>2 DEF Finish, TypeOK, bounds, BusyHandlersHoldAMessage
  <1>11. job[m] \in Job /\ run[p].attempt \in Nat
    BY <1>1 DEF TypeOK, Run
  <1>12. Completed(job[m]) \in Job /\ FailedAttempt(job[m], run[p].attempt) \in Job
    BY <1>11, JobOperatorsType
  <1>13. CASE Return(p)
    BY <1>10, <1>12, <1>13 DEF Return
  <1>14. CASE Rethrow(p)
    BY <1>10, <1>12, <1>14 DEF Rethrow
  <1> QED
    BY <1>2, <1>3, <1>4, <1>5, <1>6, <1>7, <1>8, <1>9, <1>13, <1>14 DEF ProcessStep

\* ... those of BullMQ's clocks and of failing workers, ...
LEMMA TypeClocks ==
  ASSUME TypeInv, NEW m \in Messages, Promote(m) \/ StalledCheck(m)
  PROVE  TypeInv'
  <1>1. Promoted(job[m]) \in Job /\ Stalled(job[m]) \in Job
    <2>1. job[m] \in Job
      BY DEF TypeInv, TypeOK
    <2> QED
      BY <2>1, JobOperatorsType
  <1>2. job' \in [Messages -> Job]
    BY <1>1 DEF Promote, StalledCheck, TypeInv, TypeOK
  <1> QED
    BY <1>2 DEF Promote, StalledCheck, TypeInv, TypeOK, bounds, BusyHandlersHoldAMessage, At

\* So does a lost lock.
LEMMA TypeLoseLock ==
  ASSUME TypeInv, NEW p \in Processors, LoseLock(p)
  PROVE  TypeInv'
  <1> USE DEF TypeInv
  <1>1. /\ [run[p] EXCEPT !.locked = FALSE] \in Run
        /\ [run[p] EXCEPT !.locked = FALSE].msg = run[p].msg
        /\ [run[p] EXCEPT !.locked = FALSE].step = run[p].step
    BY DEF TypeOK, Run
  <1>2. run' = [run EXCEPT ![p] = [run[p] EXCEPT !.locked = FALSE]]
    BY Zenon DEF LoseLock
  <1>3. "lock" \in Mishap
    BY DEF Mishap
  <1>4. mishaps' \in [Messages -> SUBSET Mishap] /\ faultsLeft' \in Nat
    BY <1>3, FaultType DEF LoseLock, TypeOK
  <1> QED
    BY <1>1, <1>2, <1>4 DEF LoseLock, TypeOK, BusyHandlersHoldAMessage, At

\* So does the death of a worker.
LEMMA TypeCrash ==
  ASSUME TypeInv, NEW h \in Hosts, Crash(h)
  PROVE  TypeInv'
  <1> USE DEF TypeInv
  <1>1. IdleRun \in Run /\ IdleRun.step = "idle" /\ IdleAck \in AckHandler /\ IdleAck.step = "idle"
    BY DEF IdleRun, Run, Steps, IdleAck, AckHandler
  <1>2. "lock" \in Mishap
    BY DEF Mishap
  <1>3. mishaps' \in [Messages -> SUBSET Mishap] /\ faultsLeft' \in Nat
    BY <1>2, FaultType DEF Crash, TypeOK
  <1> QED
    BY <1>1, <1>3 DEF Crash, TypeOK, BusyHandlersHoldAMessage, At

\* ... the ack handlers', ...
LEMMA TypeAcks ==
  ASSUME TypeInv, NEW a \in Acks,
         AckStep(a) \/ \E m \in Messages : \E id \in 1..sends[m] : AckArrives(a, m, id)
  PROVE  TypeInv'
  <1> DEFINE BusyAcks == \A b \in Acks : ack[b].step # "idle" => ack[b].msg \in Messages
  <1> USE DEF TypeInv
  <1>0. "delivered" \in MessageStatus /\ "message.delivered" \in WebhookEvent
    BY DEF MessageStatus, WebhookEvent
  <1>1. ASSUME NEW m \in Messages, NEW id \in 1..sends[m], AckArrives(a, m, id) PROVE TypeInv'
    <2>1. sends[m] \in Nat
      BY DEF TypeOK
    <2>2. id \in Nat
      BY <2>1
    <2>3. ack' \in [Acks -> AckHandler] /\ BusyAcks'
      BY <1>1, <2>2 DEF AckArrives, AckHandler, TypeOK, BusyHandlersHoldAMessage
    <2> QED
      BY <1>1, <2>3 DEF AckArrives, TypeOK, bounds, BusyHandlersHoldAMessage, At
  <1>2. CASE AckLookup(a)
    <2>1. ack' \in [Acks -> AckHandler] /\ BusyAcks'
      BY <1>2, AckMovesType DEF AckLookup
    <2> QED
      BY <1>2, <2>1 DEF AckLookup, TypeOK, bounds, BusyHandlersHoldAMessage, At
  <1>3. CASE AckUpdate(a)
    <2>1. ack' \in [Acks -> AckHandler] /\ BusyAcks'
      BY <1>3, AckMovesType DEF AckUpdate
    <2>2. ack[a].msg \in Messages
      BY <1>3 DEF AckUpdate, BusyHandlersHoldAMessage
    <2> DEFINE m == ack[a].msg
    <2>3. /\ Update(m, "delivered") => row' \in [Messages -> Row]
          /\ UpdateThrows(m, "delivered") => /\ row' \in [Messages -> Row]
                                             /\ mishaps' \in [Messages -> SUBSET Mishap]
                                             /\ faultsLeft' \in Nat
          /\ NoFault => mishaps' \in [Messages -> SUBSET Mishap] /\ faultsLeft' \in Nat
      BY <1>0, <2>2, UpdateType DEF TypeOK, NoFault
    <2> QED
      BY <1>3, <2>1, <2>3, Zenon DEF AckUpdate, TypeOK, BusyHandlersHoldAMessage, At
  <1>4. CASE AckAnnounce(a)
    <2>1. ack' \in [Acks -> AckHandler] /\ BusyAcks'
      BY <1>4, AckMovesType DEF AckAnnounce
    <2>2. /\ events' \in [Messages -> [WebhookEvent -> Nat]]
          /\ mishaps' \in [Messages -> SUBSET Mishap] /\ faultsLeft' \in Nat
      BY <1>0, <1>4, DispatchType DEF AckAnnounce, TypeOK, BusyHandlersHoldAMessage
    <2> QED
      BY <1>4, <2>1, <2>2 DEF AckAnnounce, TypeOK, BusyHandlersHoldAMessage, At
  <1> QED
    BY <1>1, <1>2, <1>3, <1>4 DEF AckStep

\* ... and the operators'.
LEMMA TypeDeadLetters == TypeInv /\ DeadLetters => TypeInv'
  <1> SUFFICES ASSUME TypeInv, NEW a \in Admins,
                      \/ \E m \in Messages : BeginRetry(a, m) \/ BeginDiscard(a, m)
                      \/ \E c \in Channels : BeginRetryAll(a, c)
                      \/ AdminStep(a)
               PROVE  TypeInv'
    BY DEF DeadLetters
  <1> USE DEF TypeInv, BusyHandlersHoldAMessage, At
  <1>0. "queued" \in MessageStatus /\ "requeue" \in Mishap /\ "discard" \in Mishap
    BY DEF MessageStatus, Mishap
  <1>1. ASSUME NEW op \in {"retry", "discard"}, NEW S \in SUBSET Messages, Begin(a, op, S)
        PROVE  TypeInv'
    <2>1. admin' \in [Admins -> AdminOp]
      BY <1>1 DEF Begin, TypeOK, AdminOp
    <2>2. opsLeft' \in Nat
      BY <1>1 DEF Begin, TypeOK
    <2> QED
      BY <1>1, <2>1, <2>2 DEF Begin, TypeOK
  <1>2. AdminEnds(a) => admin' \in [Admins -> AdminOp]
    BY DEF AdminEnds, TypeOK, IdleAdmin, AdminOp
  <1>3. ASSUME NEW m \in Messages, Reprocess(a, m) PROVE TypeInv'
    <2>1. Reprocessed(job[m]) \in Job
      <3>1. job[m] \in Job
        BY DEF TypeOK
      <3> QED
        BY <3>1, JobOperatorsType
    <2>2. job' \in [Messages -> Job]
      BY <1>3, <2>1 DEF Reprocess, TypeOK
    <2>3. [admin[a] EXCEPT !.cur = m] \in AdminOp
      <3>1. admin[a] \in AdminOp
        BY DEF TypeOK
      <3> QED
        BY <3>1 DEF AdminOp
    <2>4. admin' \in [Admins -> AdminOp]
      <3>1. CASE AdminEnds(a)
        BY <1>2, <3>1
      <3>2. CASE admin' = [admin EXCEPT ![a].cur = m]
        <4>1. admin' = [admin EXCEPT ![a] = [admin[a] EXCEPT !.cur = m]]
          BY <3>2
        <4> QED
          BY <2>3, <4>1 DEF TypeOK
      <3> QED
        BY <1>3, <3>1, <3>2 DEF Reprocess
    <2> QED
      BY <1>3, <2>2, <2>4 DEF Reprocess, TypeOK, bounds
  <1>4. CASE MarkRequeued(a)
    <2>1. admin[a].cur \in Messages /\ admin[a] \in AdminOp
      BY <1>4 DEF MarkRequeued, TypeOK, AdminOp
    <2>2. NextJob(a) => admin' \in [Admins -> AdminOp]
      <3> DEFINE rest == admin[a].todo \ {admin[a].cur}
      <3>1. IdleAdmin \in AdminOp /\ [op |-> "retry", todo |-> rest, cur |-> NoMessage] \in AdminOp
        BY <2>1 DEF IdleAdmin, AdminOp
      <3> QED
        BY <3>1 DEF NextJob, TypeOK
    <2>3. row' \in [Messages -> Row] /\ mishaps' \in [Messages -> SUBSET Mishap] /\ faultsLeft' \in Nat
      <3>1. Update(admin[a].cur, "queued") => row' \in [Messages -> Row]
        BY <1>0, <2>1, UpdateType DEF TypeOK
      <3>2. UpdateThrows(admin[a].cur, "queued") =>
              /\ row' \in [Messages -> Row]
              /\ mishaps' \in [Messages -> SUBSET Mishap]
              /\ faultsLeft' \in Nat
        BY <1>0, <2>1, UpdateType DEF TypeOK
      <3>3. Suffer({admin[a].cur}, "requeue") => mishaps' \in [Messages -> SUBSET Mishap]
        BY <1>0, FaultType DEF TypeOK
      <3> QED
        BY <1>4, <3>1, <3>2, <3>3 DEF MarkRequeued, TypeOK
    <2> QED
      BY <1>2, <1>4, <2>2, <2>3 DEF MarkRequeued, TypeOK
  <1>5. CASE RemoveJob(a)
    <2>1. PICK m \in Messages :
            \/ UNCHANGED <<job, mishaps>>
            \/ /\ job' = [job EXCEPT ![m] = Removed(@)]
               /\ UNCHANGED mishaps \/ Suffer({m}, "discard")
      BY <1>5 DEF RemoveJob, TypeOK, AdminOp
    <2>2. Removed(job[m]) \in Job
      <3>1. job[m] \in Job
        BY DEF TypeOK
      <3> QED
        BY <3>1, JobOperatorsType
    <2>3. job' \in [Messages -> Job] /\ mishaps' \in [Messages -> SUBSET Mishap]
      BY <1>0, <2>1, <2>2, FaultType DEF TypeOK
    <2> QED
      BY <1>2, <1>5, <2>3 DEF RemoveJob, TypeOK
  <1> QED
    BY <1>1, <1>3, <1>4, <1>5 DEF BeginRetry, BeginDiscard, BeginRetryAll, AdminStep

\* Every step keeps the types.
LEMMA TypeNext == TypeInv /\ [Next]_vars => TypeInv'
  <1> SUFFICES ASSUME TypeInv, [Next]_vars PROVE TypeInv'
    OBVIOUS
  <1>1. CASE API
    BY <1>1, TypeAPI
  <1>2. CASE Worker
    BY <1>2, TypeTake, TypeProcessStep, TypeClocks, TypeLoseLock, TypeCrash DEF Worker
  <1>3. CASE DeviceAcks
    BY <1>3, TypeAcks DEF DeviceAcks
  <1>4. CASE DeadLetters
    BY <1>4, TypeDeadLetters
  <1>5. CASE UNCHANGED vars
    BY <1>5 DEF vars, TypeInv, TypeOK, BusyHandlersHoldAMessage, At
  <1> QED
    BY <1>1, <1>2, <1>3, <1>4, <1>5 DEF Next

(* Every reachable state is well typed.                                    *)
THEOREM TypeCorrect == Spec => []TypeOK
  <1>1. Spec => []TypeInv
    BY TypeInit, TypeNext, PTL DEF Spec
  <1>2. TypeInv => TypeOK
    BY DEF TypeInv
  <1> QED
    BY <1>1, <1>2, PTL

-----------------------------------------------------------------------------
(* NeverClaimsUnsent is inductive together with where the claims come      *)
(* from: runs past the send and ack handlers exist only for sent messages. *)

ClaimantsHaveSent ==
  /\ \A p \in Processors :
       run[p].step \in {"record", "announceSent", "complete"} => sends[run[p].msg] > 0
  /\ \A a \in Acks : ack[a].step # "idle" => sends[ack[a].msg] > 0

ClaimInv == TypeInv /\ NeverClaimsUnsent /\ ClaimantsHaveSent

\* No step forgets a send.
LEMMA SendsGrow ==
  ASSUME TypeInv, [Next]_vars, NEW m \in Messages
  PROVE  sends'[m] >= sends[m]
  <1>1. sends \in [Messages -> Nat] /\ sends[m] \in Nat
    BY DEF TypeInv, TypeOK
  <1>2. ASSUME NEW p \in Processors, ProviderAccepts(p) \/ AnswerLost(p) PROVE sends'[m] >= sends[m]
    BY <1>1, <1>2 DEF ProviderAccepts, AnswerLost
  <1>3. CASE UNCHANGED sends
    BY <1>1, <1>3
  <1> QED
    BY <1>2, <1>3 DEF Next, vars, bounds, API, Send, SendBulk, Persist, Enqueue, EnqueueFails,
      Worker, Take, ProcessStep, MarkProcessing, ProviderRefuses, RecordSent, AnnounceSent,
      CatchError, AnnounceFailed, Return, Rethrow, Finish, Promote, StalledCheck, LoseLock, Crash,
      DeviceAcks, AckArrives, AckStep, AckLookup, AckUpdate, AckAnnounce,
      DeadLetters, BeginRetry, BeginRetryAll, BeginDiscard, Begin, AdminStep, Reprocess,
      MarkRequeued, RemoveJob

\* Nothing is claimed, and nothing was sent, at first.
LEMMA ClaimInit == Init => ClaimInv
  BY TypeInit DEF Init, ClaimInv, NeverClaimsUnsent, ClaimantsHaveSent, IdleRun, IdleAck, NoJob,
                  WebhookEvent

\* A step that makes no new claim: no row, job, event, run or ack handler
\* says more than before.
NoNewClaim ==
  /\ \A m \in Messages :
       /\ row'[m].status \in {"sent", "delivered"} => row[m].status \in {"sent", "delivered"}
       /\ job'[m].state = "completed" => job[m].state = "completed"
       /\ events'[m]["message.sent"] = events[m]["message.sent"]
       /\ events'[m]["message.delivered"] = events[m]["message.delivered"]
  /\ \A p \in Processors :
       run'[p].step \in {"record", "announceSent", "complete"} =>
         /\ run[p].step \in {"record", "announceSent", "complete"}
         /\ run'[p].msg = run[p].msg
  /\ \A a \in Acks : ack'[a].step # "idle" => ack[a].step # "idle" /\ ack'[a].msg = ack[a].msg

\* A step that adds no claim keeps the invariant.
LEMMA NoNewClaimKeeps ==
  ASSUME ClaimInv, [Next]_vars, NoNewClaim
  PROVE  NeverClaimsUnsent' /\ ClaimantsHaveSent'
  <1>1. \A m \in Messages : sends[m] \in Nat /\ sends'[m] \in Nat /\ sends'[m] >= sends[m]
    BY SendsGrow, TypeNext DEF ClaimInv, TypeInv, TypeOK
  <1>2. NeverClaimsUnsent'
    BY <1>1 DEF ClaimInv, NoNewClaim, NeverClaimsUnsent
  <1>3. ASSUME NEW p \in Processors, run'[p].step \in {"record", "announceSent", "complete"}
        PROVE  sends'[run'[p].msg] > 0
    <2>1. run[p].msg \in Messages /\ run'[p].msg = run[p].msg /\ sends[run[p].msg] > 0
      BY <1>3 DEF ClaimInv, TypeInv, BusyHandlersHoldAMessage, At, NoNewClaim, ClaimantsHaveSent
    <2> QED
      BY <1>1, <2>1
  <1>4. ASSUME NEW a \in Acks, ack'[a].step # "idle" PROVE sends'[ack'[a].msg] > 0
    <2>1. ack[a].msg \in Messages /\ ack'[a].msg = ack[a].msg /\ sends[ack[a].msg] > 0
      BY <1>4 DEF ClaimInv, TypeInv, BusyHandlersHoldAMessage, NoNewClaim, ClaimantsHaveSent
    <2> QED
      BY <1>1, <2>1
  <1> QED
    BY <1>2, <1>3, <1>4 DEF ClaimantsHaveSent

\* The API, the clocks, failing workers and the operators claim nothing new.
LEMMA QuietSteps ==
  ASSUME TypeInv, API \/ DeadLetters \/ (\E m \in Messages : Promote(m) \/ StalledCheck(m))
                  \/ (\E p \in Processors : LoseLock(p)) \/ (\E h \in Hosts : Crash(h))
  PROVE  NoNewClaim
  <1> USE DEF NoNewClaim, TypeInv, TypeOK, bounds
  <1>1. CASE API
    <2>1. ASSUME NEW S, NEW delayed, Persist(S, delayed) PROVE NoNewClaim
      BY <2>1 DEF Persist, Row, InitialStatus
    <2>2. ASSUME NEW S, Enqueue(S) PROVE NoNewClaim
      BY <2>2 DEF Enqueue, AddedJob
    <2>3. ASSUME NEW S, EnqueueFails(S) PROVE NoNewClaim
      BY <2>3 DEF EnqueueFails
    <2> QED
      BY <1>1, <2>1, <2>2, <2>3 DEF API, Send, SendBulk
  <1>2. ASSUME NEW m \in Messages, Promote(m) \/ StalledCheck(m) PROVE NoNewClaim
    BY <1>2 DEF Promote, StalledCheck, Promoted, Stalled, Job
  <1>3. ASSUME NEW p \in Processors, LoseLock(p) PROVE NoNewClaim
    BY <1>3 DEF LoseLock, Run
  <1>4. ASSUME NEW h \in Hosts, Crash(h) PROVE NoNewClaim
    BY <1>4 DEF Crash, IdleRun, IdleAck
  <1>5. ASSUME NEW a \in Admins, NEW op, NEW S, Begin(a, op, S) PROVE NoNewClaim
    BY <1>5 DEF Begin
  <1>6. ASSUME NEW a \in Admins, NEW m \in Messages, Reprocess(a, m) PROVE NoNewClaim
    <2>1. Reprocessed(job[m]).state = "waiting"
      BY DEF Reprocessed, Job
    <2> QED
      BY <1>6, <2>1 DEF Reprocess
  <1>7. ASSUME NEW a \in Admins, MarkRequeued(a) PROVE NoNewClaim
    BY <1>7 DEF MarkRequeued, Update, UpdateThrows, Row
  <1>8. ASSUME NEW a \in Admins, RemoveJob(a) PROVE NoNewClaim
    <2>1. PICK m \in Messages : UNCHANGED job \/ job' = [job EXCEPT ![m] = Removed(@)]
      BY <1>8 DEF RemoveJob, AdminOp
    <2>2. Removed(job[m]).state = "removed"
      BY DEF Removed, Job
    <2>3. \A n \in Messages : job'[n].state = "completed" => job[n].state = "completed"
      BY <2>1, <2>2
    <2> QED
      BY <1>8, <2>3 DEF RemoveJob
  <1>9. CASE DeadLetters
    BY <1>5, <1>6, <1>7, <1>8, <1>9
    DEF DeadLetters, BeginRetry, BeginRetryAll, BeginDiscard, AdminStep
  <1> QED
    BY <1>1, <1>2, <1>3, <1>4, <1>9

\* Nor does a processor before the provider accepted, or after it refused.
LEMMA QuietRuns ==
  ASSUME TypeInv, NEW p \in Processors,
         \/ \E m \in Messages : Take(p, m)
         \/ MarkProcessing(p) \/ ProviderRefuses(p) \/ AnswerLost(p)
         \/ CatchError(p) \/ AnnounceFailed(p) \/ Rethrow(p)
  PROVE  NoNewClaim
  <1> USE DEF NoNewClaim, TypeInv, TypeOK, bounds, At
  <1>1. ASSUME NEW m \in Messages, Take(p, m) PROVE NoNewClaim
    <2>1. Taken(job[m]).state = "active"
      BY DEF Taken, Job
    <2> QED
      BY <1>1, <2>1 DEF Take
  <1>2. CASE MarkProcessing(p)
    <2>1. run[p].msg \in Messages
      BY <1>2 DEF MarkProcessing, BusyHandlersHoldAMessage
    <2>2. \A m \in Messages : row'[m].status \in {row[m].status, "processing"}
      BY <1>2, <2>1, UpdateWrites DEF MarkProcessing
    <2>3. \A q \in Processors : run'[q].step \notin {"send", "rethrow"} => run'[q] = run[q]
      BY <1>2, GotoMoves DEF MarkProcessing
    <2> QED
      BY <1>2, <2>2, <2>3 DEF MarkProcessing
  <1>3. CASE ProviderRefuses(p)
    BY <1>3 DEF ProviderRefuses, Goto, Run
  <1>4. CASE AnswerLost(p)
    BY <1>4 DEF AnswerLost, Goto, Run
  <1>5. CASE CatchError(p)
    <2>1. run[p].msg \in Messages
      BY <1>5 DEF CatchError, BusyHandlersHoldAMessage
    <2>2. \A m \in Messages : row'[m].status \in {row[m].status, "failed", "queued"}
      BY <1>5, <2>1, UpdateWrites DEF CatchError
    <2>3. \A q \in Processors : run'[q].step \notin {"announceFailed", "rethrow"} => run'[q] = run[q]
      BY <1>5, GotoMoves DEF CatchError
    <2> QED
      BY <1>5, <2>2, <2>3 DEF CatchError
  <1>6. CASE AnnounceFailed(p)
    <2>1. run[p].msg \in Messages
      BY <1>6 DEF AnnounceFailed, BusyHandlersHoldAMessage
    <2>2. \A m \in Messages : /\ events'[m]["message.sent"] = events[m]["message.sent"]
                              /\ events'[m]["message.delivered"] = events[m]["message.delivered"]
      BY <1>6, <2>1 DEF AnnounceFailed, Dispatch, WebhookEvent
    <2> QED
      BY <1>6, <2>2 DEF AnnounceFailed, Goto, Run
  <1>7. CASE Rethrow(p)
    <2>1. FailedAttempt(job[run[p].msg], run[p].attempt).state \in {"delayed", "failed"}
      <3>1. job[run[p].msg] \in Job /\ run[p].attempt \in Nat
        BY <1>7 DEF Rethrow, BusyHandlersHoldAMessage, Run
      <3> QED
        BY <3>1, JobStates
    <2> QED
      BY <1>7, <2>1 DEF Rethrow, Finish, IdleRun
  <1> QED
    BY <1>1, <1>2, <1>3, <1>4, <1>5, <1>6, <1>7

\* A processor claims a send only after one.
LEMMA ClaimingRuns ==
  ASSUME ClaimInv, NEW p \in Processors,
         ProviderAccepts(p) \/ RecordSent(p) \/ AnnounceSent(p) \/ Return(p)
  PROVE  NeverClaimsUnsent' /\ ClaimantsHaveSent'
  <1> DEFINE m == run[p].msg
  <1> USE DEF ClaimInv, TypeInv, TypeOK, bounds, At
  <1>0. m \in Messages
    BY DEF ProviderAccepts, RecordSent, AnnounceSent, Return, BusyHandlersHoldAMessage
  <1>1. CASE ProviderAccepts(p)
    <2>1. \A n \in Messages : sends'[n] \in Nat /\ sends'[n] >= sends[n]
      BY <1>0, <1>1 DEF ProviderAccepts
    <2>2. sends'[m] > 0
      BY <1>0, <1>1 DEF ProviderAccepts
    <2>3. NeverClaimsUnsent'
      BY <1>1, <2>1 DEF ProviderAccepts, NeverClaimsUnsent
    <2>4. run'[p].msg = m /\ \A q \in Processors \ {p} : run'[q] = run[q]
      BY <1>1 DEF ProviderAccepts, Run
    <2>5. ASSUME NEW q \in Processors, run'[q].step \in {"record", "announceSent", "complete"}
          PROVE  sends'[run'[q].msg] > 0
      BY <2>1, <2>2, <2>4, <2>5 DEF ClaimantsHaveSent, BusyHandlersHoldAMessage
    <2>6. \A a \in Acks : ack'[a].step # "idle" => sends'[ack'[a].msg] > 0
      BY <1>1, <2>1 DEF ProviderAccepts, ClaimantsHaveSent, BusyHandlersHoldAMessage
    <2> QED
      BY <2>3, <2>5, <2>6 DEF ClaimantsHaveSent
  <1>2. CASE RecordSent(p)
    <2>1. sends[m] > 0
      BY <1>2 DEF RecordSent, ClaimantsHaveSent
    <2>2. \A n \in Messages \ {m} : row'[n] = row[n]
      BY <1>2 DEF RecordSent, StoreSent
    <2>3. run'[p].msg = m /\ \A q \in Processors \ {p} : run'[q] = run[q]
      BY <1>2 DEF RecordSent, Goto, Run
    <2>4. NeverClaimsUnsent'
      BY <1>2, <2>1, <2>2 DEF RecordSent, NeverClaimsUnsent
    <2> QED
      BY <1>2, <2>1, <2>3, <2>4 DEF RecordSent, ClaimantsHaveSent
  <1>3. CASE AnnounceSent(p)
    <2>1. sends[m] > 0
      BY <1>3 DEF AnnounceSent, ClaimantsHaveSent
    <2>2. \A n \in Messages \ {m} : events'[n] = events[n]
      BY <1>3 DEF AnnounceSent, Dispatch
    <2>3. run'[p].msg = m /\ \A q \in Processors \ {p} : run'[q] = run[q]
      BY <1>3 DEF AnnounceSent, Goto, Run
    <2>4. NeverClaimsUnsent'
      BY <1>3, <2>1, <2>2 DEF AnnounceSent, NeverClaimsUnsent
    <2> QED
      BY <1>3, <2>1, <2>3, <2>4 DEF AnnounceSent, ClaimantsHaveSent
  <1>4. CASE Return(p)
    <2>1. sends[m] > 0
      BY <1>4 DEF Return, Finish, ClaimantsHaveSent
    <2>2. \A n \in Messages \ {m} : job'[n] = job[n]
      BY <1>4 DEF Return, Finish
    <2>3. run'[p].step = "idle" /\ \A q \in Processors \ {p} : run'[q] = run[q]
      BY <1>4 DEF Return, Finish, IdleRun
    <2> QED
      BY <1>4, <2>1, <2>2, <2>3 DEF Return, Finish, NeverClaimsUnsent, ClaimantsHaveSent
  <1> QED
    BY <1>1, <1>2, <1>3, <1>4

\* An ack handler acts on an id the provider gave out.
LEMMA ClaimingAcks ==
  ASSUME ClaimInv, DeviceAcks
  PROVE  NeverClaimsUnsent' /\ ClaimantsHaveSent'
  <1> USE DEF ClaimInv, TypeInv, TypeOK, bounds
  <1>1. ASSUME NEW a \in Acks, NEW m \in Messages, NEW id \in 1..sends[m], AckArrives(a, m, id)
        PROVE  NeverClaimsUnsent' /\ ClaimantsHaveSent'
    <2>1. sends[m] > 0
      BY <1>1
    <2> QED
      BY <1>1, <2>1 DEF AckArrives, NeverClaimsUnsent, ClaimantsHaveSent
  <1>2. ASSUME NEW a \in Acks, AckStep(a) PROVE NeverClaimsUnsent' /\ ClaimantsHaveSent'
    <2> DEFINE m == ack[a].msg
    <2>1. m \in Messages /\ sends[m] > 0
      BY <1>2 DEF AckStep, AckLookup, AckUpdate, AckAnnounce, BusyHandlersHoldAMessage, ClaimantsHaveSent
    <2>2. \A n \in Messages \ {m} : row'[n] = row[n] /\ events'[n] = events[n]
      BY <1>2 DEF AckStep, AckLookup, AckUpdate, AckAnnounce, Update, UpdateThrows, Dispatch
    <2>3. /\ ack'[a].step # "idle" => ack'[a].msg = m
          /\ \A b \in Acks \ {a} : ack'[b] = ack[b]
      BY <1>2 DEF AckStep, AckLookup, AckUpdate, AckAnnounce, AckGoto, AckEnds, IdleAck, AckHandler
    <2>4. UNCHANGED <<job, run, sends>>
      BY <1>2 DEF AckStep, AckLookup, AckUpdate, AckAnnounce
    <2>5. NeverClaimsUnsent'
      BY <2>1, <2>2, <2>4 DEF NeverClaimsUnsent
    <2> QED
      BY <2>1, <2>3, <2>4, <2>5 DEF ClaimantsHaveSent
  <1> QED
    BY <1>1, <1>2 DEF DeviceAcks

\* Every step keeps it: the ones that claim have an accepted send behind them.
LEMMA ClaimNext == ClaimInv /\ [Next]_vars => ClaimInv'
  <1> SUFFICES ASSUME ClaimInv, [Next]_vars PROVE NeverClaimsUnsent' /\ ClaimantsHaveSent'
    BY TypeNext DEF ClaimInv
  <1>1. ASSUME NoNewClaim PROVE NeverClaimsUnsent' /\ ClaimantsHaveSent'
    BY <1>1, NoNewClaimKeeps
  <1>2. CASE API \/ DeadLetters
    BY <1>1, <1>2, QuietSteps DEF ClaimInv
  <1>3. CASE Worker
    BY <1>1, <1>3, QuietSteps, QuietRuns, ClaimingRuns DEF Worker, ProcessStep, ClaimInv
  <1>4. CASE DeviceAcks
    BY <1>4, ClaimingAcks
  <1>5. CASE UNCHANGED vars
    BY <1>5 DEF vars, ClaimInv, NeverClaimsUnsent, ClaimantsHaveSent
  <1> QED
    BY <1>2, <1>3, <1>4, <1>5 DEF Next

(* No row, completed job or webhook ever claims a send that did not        *)
(* happen, through every crash, lost lock, failed write and race.          *)
THEOREM NothingUnsentIsClaimed == Spec => []NeverClaimsUnsent
  <1>1. Spec => []ClaimInv
    BY ClaimInit, ClaimNext, PTL DEF Spec
  <1>2. ClaimInv => NeverClaimsUnsent
    BY DEF ClaimInv
  <1> QED
    BY <1>1, <1>2, PTL

-----------------------------------------------------------------------------
(* DuplicateNeedsFault.  A second send needs a second pass of a processor  *)
(* through "send", so the invariant has to know which job states and steps *)
(* are still before the only send (UnsentUntilFault), that two runs of one *)
(* message never both hold its lock, that a run without a lock has lost it *)
(* to a fault, and that no batch is enqueued twice.                        *)

JobInv ==
  /\ \A S \in pending : \A m \in S : job[m].state = "none" /\ row[m].status # "absent"
  /\ \A S, T \in pending : S \cap T # {} => S = T
  /\ \A m \in Messages : row[m].status = "absent" => job[m].state = "none"
  /\ \A a \in Admins : \A m \in admin[a].todo : job[m].state # "none"

LockInv ==
  /\ \A p \in Processors : run[p].locked => ~At(p, "idle") /\ job[run[p].msg].state = "active"
  /\ \A p, q \in Processors : run[p].locked /\ run[q].locked /\ run[p].msg = run[q].msg => p = q
  /\ \A p \in Processors : ~At(p, "idle") => /\ run[p].locked \/ "lock" \in mishaps[run[p].msg]
                                             /\ job[run[p].msg].state # "none"
  /\ \A m \in Messages : job[m].state = "active" => Locked(m) \/ "lock" \in mishaps[m]

BeforeTheSend == {"start", "send", "catch", "announceFailed", "rethrow"}

UnsentUntilFault ==
  \A m \in Messages :
    mishaps[m] \cap {"db", "answer", "lock"} = {} =>
      /\ sends[m] <= 1
      /\ job[m].state \in {"none", "delayed", "waiting", "failed"} => sends[m] = 0
      /\ \A p \in Processors : run[p].msg = m /\ run[p].step \in BeforeTheSend => sends[m] = 0

SendInv == TypeInv /\ JobInv /\ LockInv /\ UnsentUntilFault

\* No job, no run and no send at first.
LEMMA SendInvInit == Init => SendInv
  <1> SUFFICES ASSUME Init PROVE SendInv
    OBVIOUS
  <1>1. JobInv
    BY DEF Init, JobInv, NoJob, IdleAdmin
  <1>2. LockInv
    BY DEF Init, LockInv, At, IdleRun, NoJob
  <1>3. UnsentUntilFault
    BY DEF Init, UnsentUntilFault
  <1> QED
    BY <1>1, <1>2, <1>3, TypeInit DEF SendInv

\* A mishap is added to those a message already had.
LEMMA SufferGrows ==
  ASSUME TypeInv, NEW M, NEW kind,
         Suffer(M, kind) \/ Fault(M, kind) \/ NoFault \/ UNCHANGED mishaps
  PROVE  \A m \in Messages : /\ mishaps[m] \subseteq mishaps'[m]
                             /\ (~ UNCHANGED mishaps /\ m \in M) => kind \in mishaps'[m]
  BY DEF TypeInv, TypeOK, Suffer, Fault, NoFault

\* No step forgets a mishap.
LEMMA MishapsGrow ==
  ASSUME TypeInv, [Next]_vars, NEW m \in Messages
  PROVE  mishaps[m] \subseteq mishaps'[m]
  <1>1. ASSUME NEW M, NEW kind, Suffer(M, kind) \/ Fault(M, kind) PROVE mishaps[m] \subseteq mishaps'[m]
    BY <1>1, SufferGrows
  <1>2. ASSUME UNCHANGED mishaps PROVE mishaps[m] \subseteq mishaps'[m]
    BY <1>2
  <1>3. ASSUME API \/ DeadLetters PROVE mishaps[m] \subseteq mishaps'[m]
    BY <1>1, <1>2, <1>3 DEF API, Send, SendBulk, Persist, Enqueue, EnqueueFails, bounds,
       DeadLetters, BeginRetry, BeginRetryAll, BeginDiscard, Begin, AdminStep, Reprocess,
       MarkRequeued, UpdateThrows, RemoveJob
  <1>4. ASSUME DeviceAcks PROVE mishaps[m] \subseteq mishaps'[m]
    BY <1>1, <1>2, <1>4 DEF DeviceAcks, AckArrives, AckStep, AckLookup, AckUpdate, AckAnnounce,
       UpdateThrows, Dispatch, NoFault, bounds
  <1>5. ASSUME NEW p \in Processors, ProcessStep(p) PROVE mishaps[m] \subseteq mishaps'[m]
    BY <1>1, <1>2, <1>5 DEF ProcessStep, MarkProcessing, ProviderAccepts, ProviderRefuses,
       AnswerLost, RecordSent, AnnounceSent, CatchError, AnnounceFailed, Return, Rethrow, Finish,
       UpdateThrows, Dispatch, NoFault, bounds
  <1>6. ASSUME Worker PROVE mishaps[m] \subseteq mishaps'[m]
    BY <1>1, <1>2, <1>5, <1>6 DEF Worker, Take, Promote, StalledCheck, LoseLock, Crash, bounds
  <1> QED
    BY <1>2, <1>3, <1>4, <1>6 DEF Next, vars

-----------------------------------------------------------------------------
\* JobInv: batches wait for their jobs, once each, and operators hold jobs.

JobFrame ==
  /\ pending' = pending
  /\ \A m \in Messages : /\ job'[m].state = "none" <=> job[m].state = "none"
                         /\ row'[m].status = "absent" => row[m].status = "absent"
  /\ \A a \in Admins : admin'[a].todo \subseteq admin[a].todo

\* A step that neither adds a batch nor creates or drops a job keeps JobInv.
LEMMA JobFrameKeeps ==
  ASSUME TypeInv, JobInv, JobFrame
  PROVE  JobInv'
  <1>1. (\A S \in pending : S \subseteq Messages) /\ (\A a \in Admins : admin[a].todo \subseteq Messages)
    BY DEF TypeInv, TypeOK, AdminOp
  <1>2. \A S \in pending' : \A m \in S : job'[m].state = "none" /\ row'[m].status # "absent"
    BY <1>1 DEF JobInv, JobFrame
  <1>3. \A S, T \in pending' : S \cap T # {} => S = T
    BY DEF JobInv, JobFrame
  <1>4. \A m \in Messages : row'[m].status = "absent" => job'[m].state = "none"
    BY DEF JobInv, JobFrame
  <1>5. \A a \in Admins : \A m \in admin'[a].todo : job'[m].state # "none"
    BY <1>1 DEF JobInv, JobFrame
  <1> QED
    BY <1>2, <1>3, <1>4, <1>5 DEF JobInv

\* The API saves new rows and adds jobs for rows that have none.
LEMMA JobAPI ==
  ASSUME TypeInv, JobInv, API
  PROVE  JobInv'
  <1> USE DEF TypeInv, TypeOK, bounds
  <1>1. ASSUME NEW S \in SUBSET Messages, NEW delayed \in BOOLEAN, Persist(S, delayed) PROVE JobInv'
    <2>1. \A m \in Messages : row'[m].status # "absent" <=> m \in S \/ row[m].status # "absent"
      BY <1>1 DEF Persist, Row, InitialStatus
    <2>2. \A m \in S : job[m].state = "none" /\ row[m].status = "absent"
      BY <1>1 DEF Persist, JobInv
    <2>3. \A T \in pending : S \cap T = {}
      BY <2>2 DEF JobInv
    <2> QED
      BY <1>1, <2>1, <2>2, <2>3 DEF Persist, JobInv
  <1>2. ASSUME NEW S \in pending, Enqueue(S) PROVE JobInv'
    <2>1. \A m \in Messages : IF m \in S THEN job'[m].state \in {"delayed", "waiting"}
                                         ELSE job'[m] = job[m]
      BY <1>2 DEF Enqueue, AddedJob
    <2>2. pending' = pending \ {S} /\ row' = row /\ admin' = admin
      BY <1>2 DEF Enqueue
    <2>3. \A T \in pending' : T \in pending /\ S \cap T = {}
      BY <2>2 DEF JobInv
    <2>4. \A a \in Admins : admin[a].todo \subseteq Messages
      BY DEF AdminOp
    <2> QED
      BY <2>1, <2>2, <2>3, <2>4 DEF JobInv
  <1>3. ASSUME NEW S \in pending, EnqueueFails(S) PROVE JobInv'
    BY <1>3 DEF EnqueueFails, JobInv
  <1> QED
    BY <1>1, <1>2, <1>3 DEF API, Send, SendBulk

\* The handlers' steps leave every job in the queue it is in.
LEMMA JobProcessStep ==
  ASSUME TypeInv, LockInv, NEW p \in Processors, ProcessStep(p)
  PROVE  JobFrame
  <1> DEFINE m == run[p].msg
  <1> USE DEF JobFrame, bounds
  <1>1. m \in Messages /\ job[m] \in Job /\ run[p].attempt \in Nat
    BY DEF ProcessStep, MarkProcessing, ProviderAccepts, ProviderRefuses, AnswerLost,
       RecordSent, AnnounceSent, CatchError, AnnounceFailed, Return, Rethrow,
       TypeInv, TypeOK, BusyHandlersHoldAMessage, At, Run
  <1>2. CASE MarkProcessing(p) \/ CatchError(p)
    <2>1. \A n \in Messages : row'[n].status \in {row[n].status, "processing", "failed", "queued"}
      BY <1>1, <1>2, UpdateWrites DEF MarkProcessing, CatchError
    <2> QED
      BY <1>2, <2>1 DEF MarkProcessing, CatchError
  <1>3. CASE RecordSent(p)
    <2>1. \A n \in Messages : row'[n].status \in {row[n].status, "sent"}
      BY <1>1, <1>3 DEF RecordSent, StoreSent, TypeInv, TypeOK
    <2> QED
      BY <1>3, <2>1 DEF RecordSent
  <1>4. CASE ProviderAccepts(p) \/ ProviderRefuses(p) \/ AnswerLost(p) \/ AnnounceSent(p) \/ AnnounceFailed(p)
    BY <1>4 DEF ProviderAccepts, ProviderRefuses, AnswerLost, AnnounceSent, AnnounceFailed
  <1>5. ASSUME NEW step, NEW outcome, Finish(p, step, outcome), outcome.state # "none" PROVE JobFrame
    <2>1. \A n \in Messages \ {m} : job'[n] = job[n]
      BY <1>5 DEF Finish, TypeInv, TypeOK
    <2>2. job'[m].state = "none" <=> job[m].state = "none"
      BY <1>1, <1>5 DEF Finish, TypeInv, TypeOK, LockInv
    <2> QED
      BY <1>5, <2>1, <2>2 DEF Finish
  <1>6. CASE Return(p)
    BY <1>1, <1>5, <1>6, JobStates DEF Return
  <1>7. CASE Rethrow(p)
    BY <1>1, <1>5, <1>7, JobStates DEF Rethrow
  <1> QED
    BY <1>2, <1>3, <1>4, <1>6, <1>7 DEF ProcessStep

\* So do BullMQ's own steps and the death of a worker.
LEMMA JobWorker ==
  ASSUME TypeInv, LockInv, Worker
  PROVE  JobFrame
  <1> USE DEF JobFrame, bounds
  <1>1. ASSUME NEW p \in Processors, NEW m \in Messages, Take(p, m) PROVE JobFrame
    <2>1. Taken(job[m]).state = "active"
      BY JobStates DEF TypeInv, TypeOK
    <2> QED
      BY <1>1, <2>1 DEF Take, TypeInv, TypeOK
  <1>2. ASSUME NEW m \in Messages, Promote(m) \/ StalledCheck(m) PROVE JobFrame
    <2>1. Promoted(job[m]).state # "none" /\ Stalled(job[m]).state # "none"
      BY JobStates DEF TypeInv, TypeOK
    <2> QED
      BY <1>2, <2>1 DEF Promote, StalledCheck, TypeInv, TypeOK
  <1>3. ASSUME NEW p \in Processors, LoseLock(p) PROVE JobFrame
    BY <1>3 DEF LoseLock
  <1>4. ASSUME NEW h \in Hosts, Crash(h) PROVE JobFrame
    BY <1>4 DEF Crash
  <1> QED
    BY <1>1, <1>2, <1>3, <1>4, JobProcessStep DEF Worker

\* Ack handlers touch no job.
LEMMA JobAcks ==
  ASSUME TypeInv, DeviceAcks
  PROVE  JobFrame
  <1> USE DEF JobFrame, bounds
  <1>1. ASSUME NEW a \in Acks, NEW m, NEW id, AckArrives(a, m, id) PROVE JobFrame
    BY <1>1 DEF AckArrives
  <1>2. ASSUME NEW a \in Acks, AckLookup(a) \/ AckAnnounce(a) PROVE JobFrame
    BY <1>2 DEF AckLookup, AckAnnounce
  <1>3. ASSUME NEW a \in Acks, AckUpdate(a) PROVE JobFrame
    <2>1. ack[a].msg \in Messages
      BY <1>3 DEF AckUpdate, TypeInv, BusyHandlersHoldAMessage
    <2>2. \A n \in Messages : row'[n].status \in {row[n].status, "delivered"}
      BY <1>3, <2>1, UpdateWrites DEF AckUpdate
    <2> QED
      BY <1>3, <2>2 DEF AckUpdate
  <1> QED
    BY <1>1, <1>2, <1>3 DEF DeviceAcks, AckStep

\* Dead-letter requests work on jobs that exist.
LEMMA JobDeadLetters ==
  ASSUME TypeInv, JobInv, DeadLetters
  PROVE  JobInv'
  <1> USE DEF bounds
  <1>1. ASSUME NEW a \in Admins, NEW op, NEW S \in SUBSET Messages, Begin(a, op, S),
               \A m \in S : job[m].state = "failed"
        PROVE  JobInv'
    <2>1. \A b \in Admins : \A m \in admin'[b].todo : job'[m].state # "none"
      BY <1>1 DEF Begin, JobInv, TypeInv, TypeOK
    <2> QED
      BY <1>1, <2>1 DEF Begin, JobInv
  <1>2. ASSUME NEW a \in Admins, AdminEnds(a) PROVE \A b \in Admins : admin'[b].todo \subseteq admin[b].todo
    BY <1>2 DEF AdminEnds, IdleAdmin, TypeInv, TypeOK
  <1>3. ASSUME NEW a \in Admins, NEW m \in Messages, Reprocess(a, m) PROVE JobFrame
    <2>1. Reprocessed(job[m]).state = "waiting"
      BY JobStates DEF TypeInv, TypeOK
    <2>2. \A n \in Messages : job'[n].state = "none" <=> job[n].state = "none"
      BY <1>3, <2>1 DEF Reprocess, TypeInv, TypeOK
    <2>3. \A b \in Admins : admin'[b].todo \subseteq admin[b].todo
      <3>1. CASE AdminEnds(a)
        BY <1>2, <3>1
      <3>2. CASE admin' = [admin EXCEPT ![a].cur = m]
        BY <3>2 DEF TypeInv, TypeOK, AdminOp
      <3> QED
        BY <1>3, <3>1, <3>2 DEF Reprocess
    <2> QED
      BY <1>3, <2>2, <2>3 DEF Reprocess, JobFrame
  <1>4. ASSUME NEW a \in Admins, MarkRequeued(a) PROVE JobFrame
    <2>1. admin[a].cur \in Messages
      BY <1>4 DEF MarkRequeued, TypeInv, TypeOK, AdminOp
    <2>2. \A n \in Messages : row'[n].status \in {row[n].status, "queued"}
      BY <1>4, <2>1, UpdateWrites DEF MarkRequeued
    <2>3. NextJob(a) => \A b \in Admins : admin'[b].todo \subseteq admin[b].todo
      BY DEF NextJob, IdleAdmin, TypeInv, TypeOK
    <2>4. \A b \in Admins : admin'[b].todo \subseteq admin[b].todo
      BY <1>2, <1>4, <2>3 DEF MarkRequeued
    <2> QED
      BY <1>4, <2>2, <2>4 DEF MarkRequeued, JobFrame
  <1>5. ASSUME NEW a \in Admins, RemoveJob(a) PROVE JobFrame
    <2>1. PICK m \in admin[a].todo : UNCHANGED job \/ job' = [job EXCEPT ![m] = Removed(@)]
      BY <1>5 DEF RemoveJob
    <2>2. m \in Messages /\ job[m].state # "none"
      BY DEF JobInv, TypeInv, TypeOK, AdminOp
    <2>3. Removed(job[m]).state = "removed"
      BY <2>2, JobStates DEF TypeInv, TypeOK
    <2>4. \A n \in Messages : job'[n].state = "none" <=> job[n].state = "none"
      BY <2>1, <2>2, <2>3 DEF TypeInv, TypeOK
    <2> QED
      BY <1>2, <1>5, <2>4 DEF RemoveJob, JobFrame
  <1> QED
    BY <1>1, <1>3, <1>4, <1>5, JobFrameKeeps
    DEF DeadLetters, BeginRetry, BeginRetryAll, BeginDiscard, AdminStep

-----------------------------------------------------------------------------
\* LockInv.  Most steps move a busy run or none, and leave the jobs' locks be.

LockFrame ==
  /\ \A p \in Processors : /\ run'[p].locked = run[p].locked /\ run'[p].msg = run[p].msg
                           /\ At(p, "idle")' <=> At(p, "idle")
  /\ \A m \in Messages : /\ job'[m].state = "active" <=> job[m].state = "active"
                         /\ job'[m].state = "none" => job[m].state = "none"

\* A step that moves no lock, run or active job keeps LockInv.
LEMMA LockFrameKeeps ==
  ASSUME TypeInv, LockInv, [Next]_vars, LockFrame
  PROVE  LockInv'
  <1>1. \A m \in Messages : mishaps[m] \subseteq mishaps'[m]
    BY MishapsGrow
  <1>2. \A p \in Processors : ~At(p, "idle") => run[p].msg \in Messages
    BY DEF TypeInv, BusyHandlersHoldAMessage
  <1>3. \A p \in Processors : run'[p].locked => ~At(p, "idle")' /\ job'[run'[p].msg].state = "active"
    BY <1>2 DEF LockInv, LockFrame
  <1>4. \A p, q \in Processors : run'[p].locked /\ run'[q].locked /\ run'[p].msg = run'[q].msg => p = q
    BY DEF LockInv, LockFrame
  <1>5. \A p \in Processors :
          ~At(p, "idle")' => /\ run'[p].locked \/ "lock" \in mishaps'[run'[p].msg]
                             /\ job'[run'[p].msg].state # "none"
    BY <1>1, <1>2 DEF LockInv, LockFrame
  <1>6. \A m \in Messages : job'[m].state = "active" => Locked(m)' \/ "lock" \in mishaps'[m]
    BY <1>1 DEF LockInv, LockFrame, Locked
  <1> QED
    BY <1>3, <1>4, <1>5, <1>6 DEF LockInv

\* The API adds jobs nobody runs yet.
LEMMA LockAPI ==
  ASSUME TypeInv, JobInv, API
  PROVE  LockFrame
  <1> USE DEF LockFrame, bounds, At
  <1>1. ASSUME NEW S, NEW delayed, Persist(S, delayed) PROVE LockFrame
    BY <1>1 DEF Persist
  <1>2. ASSUME NEW S \in pending, Enqueue(S) PROVE LockFrame
    <2>1. \A m \in Messages : job'[m] = job[m] \/ (job[m].state = "none" /\ job'[m].state \in {"delayed", "waiting"})
      BY <1>2 DEF Enqueue, AddedJob, JobInv
    <2> QED
      BY <1>2, <2>1 DEF Enqueue
  <1>3. ASSUME NEW S, EnqueueFails(S) PROVE LockFrame
    BY <1>3 DEF EnqueueFails
  <1> QED
    BY <1>1, <1>2, <1>3 DEF API, Send, SendBulk

\* Ack handlers hold no lock.
LEMMA LockAcks ==
  ASSUME DeviceAcks
  PROVE  LockFrame
  BY DEF LockFrame, bounds, At, DeviceAcks, AckArrives, AckStep, AckLookup, AckUpdate, AckAnnounce

\* A retry takes a failed job, and a removal one that is not locked.
LEMMA LockDeadLetters ==
  ASSUME TypeInv, JobInv, LockInv, [Next]_vars, DeadLetters
  PROVE  LockInv'
  <1> USE DEF bounds
  <1>1. ASSUME NEW a \in Admins, NEW op, NEW S, Begin(a, op, S) PROVE LockFrame
    BY <1>1 DEF Begin, LockFrame, At
  <1>2. ASSUME NEW a \in Admins, NEW m \in Messages, Reprocess(a, m) PROVE LockFrame
    <2>1. Reprocessed(job[m]).state = "waiting"
      BY JobStates DEF TypeInv, TypeOK
    <2>2. \A n \in Messages : job'[n] = job[n] \/ (job[n].state = "failed" /\ job'[n].state = "waiting")
      BY <1>2, <2>1 DEF Reprocess, TypeInv, TypeOK
    <2> QED
      BY <1>2, <2>2 DEF Reprocess, LockFrame, At
  <1>3. ASSUME NEW a \in Admins, MarkRequeued(a) PROVE LockFrame
    BY <1>3 DEF MarkRequeued, LockFrame, At
  <1>4. ASSUME NEW a \in Admins, RemoveJob(a) PROVE LockInv'
    <2>1. PICK m \in admin[a].todo :
                 UNCHANGED job \/ (~Locked(m) /\ job' = [job EXCEPT ![m] = Removed(@)])
      BY <1>4 DEF RemoveJob
    <2>2. m \in Messages
      BY DEF TypeInv, TypeOK, AdminOp
    <2>3. Removed(job[m]).state = "removed"
      BY <2>2, JobStates DEF TypeInv, TypeOK
    <2>4. \A n \in Messages : mishaps[n] \subseteq mishaps'[n]
      BY MishapsGrow
    <2>5. run' = run
      BY <1>4 DEF RemoveJob
    <2>6. \A n \in Messages : job'[n] = job[n] \/ (~Locked(n) /\ job'[n].state = "removed")
      BY <2>1, <2>2, <2>3 DEF TypeInv, TypeOK
    <2>7. \A p \in Processors : ~At(p, "idle") => run[p].msg \in Messages
      BY DEF TypeInv, BusyHandlersHoldAMessage
    <2> QED
      BY <2>4, <2>5, <2>6, <2>7 DEF LockInv, Locked, At
  <1> QED
    BY <1>1, <1>2, <1>3, <1>4, LockFrameKeeps
    DEF DeadLetters, BeginRetry, BeginRetryAll, BeginDiscard, AdminStep

\* A handler holds its lock until it returns or throws.
LEMMA LockProcessStep ==
  ASSUME TypeInv, LockInv, [Next]_vars, NEW p \in Processors, ProcessStep(p)
  PROVE  LockInv'
  <1> DEFINE m == run[p].msg
  <1>1. m \in Messages /\ job[m] \in Job /\ run[p].attempt \in Nat /\ ~At(p, "idle")
    BY DEF ProcessStep, MarkProcessing, ProviderAccepts, ProviderRefuses, AnswerLost,
       RecordSent, AnnounceSent, CatchError, AnnounceFailed, Return, Rethrow,
       TypeInv, TypeOK, BusyHandlersHoldAMessage, At, Run
  <1>2. ASSUME NEW step \in Steps \ {"idle"}, Goto(p, step), UNCHANGED job PROVE LockInv'
    <2>1. LockFrame
      BY <1>1, <1>2, GotoMoves DEF LockFrame, At
    <2> QED
      BY <2>1, LockFrameKeeps
  <1>3. {"send", "rethrow", "catch", "record", "announceSent", "complete", "announceFailed"} \subseteq Steps \ {"idle"}
    BY DEF Steps
  <1>4. CASE MarkProcessing(p) \/ ProviderRefuses(p) \/ AnswerLost(p) \/ RecordSent(p)
             \/ AnnounceSent(p) \/ CatchError(p) \/ AnnounceFailed(p)
    BY <1>2, <1>3, <1>4 DEF MarkProcessing, ProviderRefuses, AnswerLost, RecordSent, AnnounceSent,
       CatchError, AnnounceFailed, bounds
  <1>5. CASE ProviderAccepts(p)
    <2>1. LockFrame
      BY <1>1, <1>5 DEF ProviderAccepts, LockFrame, At, TypeInv, TypeOK, Run
    <2> QED
      BY <2>1, LockFrameKeeps
  <1>6. ASSUME NEW step, NEW outcome, Finish(p, step, outcome),
               outcome.state \in {"completed", "delayed", "failed"}
        PROVE  LockInv'
    <2>1. run'[p] = IdleRun /\ \A q \in Processors \ {p} : run'[q] = run[q]
      BY <1>6 DEF Finish, TypeInv, TypeOK
    <2>2. mishaps' = mishaps
      BY <1>6 DEF Finish, bounds
    <2>3. CASE run[p].locked
      <3>1. \A n \in Messages \ {m} : job'[n] = job[n]
        BY <1>6, <2>3 DEF Finish, TypeInv, TypeOK
      <3>2. job'[m].state \in {"completed", "delayed", "failed"}
        BY <1>1, <1>6, <2>3 DEF Finish, TypeInv, TypeOK
      <3>3. \A q \in Processors \ {p} : run[q].locked => run[q].msg # m
        BY <2>3 DEF LockInv
      <3>4. \A n \in Messages \ {m} : Locked(n) => Locked(n)'
        BY <2>1, <3>3 DEF Locked
      <3> QED
        BY <2>1, <2>2, <3>1, <3>2, <3>3, <3>4
        DEF LockInv, At, IdleRun, TypeInv, BusyHandlersHoldAMessage
    <2>4. CASE ~run[p].locked
      <3>1. job' = job
        BY <1>6, <2>4 DEF Finish
      <3>2. \A n \in Messages : Locked(n) => Locked(n)'
        BY <2>1, <2>4 DEF Locked
      <3> QED
        BY <2>1, <2>2, <3>1, <3>2 DEF LockInv, At, IdleRun
    <2> QED
      BY <2>3, <2>4
  <1>7. CASE Return(p)
    BY <1>1, <1>6, <1>7, JobStates DEF Return
  <1>8. CASE Rethrow(p)
    BY <1>1, <1>6, <1>8, JobStates DEF Rethrow
  <1> QED
    BY <1>4, <1>5, <1>7, <1>8 DEF ProcessStep

\* Only a waiting job is taken, so no second run locks it.
LEMMA LockWorker ==
  ASSUME TypeInv, LockInv, [Next]_vars, Worker
  PROVE  LockInv'
  <1> USE DEF bounds
  <1>0. /\ \A m \in Messages : mishaps[m] \subseteq mishaps'[m]
        /\ \A p \in Processors : ~At(p, "idle") => run[p].msg \in Messages
    BY MishapsGrow DEF TypeInv, BusyHandlersHoldAMessage
  <1>1. ASSUME NEW p \in Processors, NEW m \in Messages, Take(p, m) PROVE LockInv'
    <2>1. /\ run'[p].msg = m /\ run'[p].locked /\ ~At(p, "idle")'
          /\ \A q \in Processors \ {p} : run'[q] = run[q]
      BY <1>1 DEF Take, At, TypeInv, TypeOK
    <2>2. Taken(job[m]).state = "active"
      BY JobStates DEF TypeInv, TypeOK
    <2>3. job'[m].state = "active" /\ \A n \in Messages \ {m} : job'[n] = job[n]
      BY <1>1, <2>2 DEF Take, TypeInv, TypeOK
    <2>4. job[m].state = "waiting" /\ mishaps' = mishaps
      BY <1>1 DEF Take
    <2>5. \A q \in Processors : run[q].locked => run[q].msg # m
      BY <2>4 DEF LockInv
    <2>6. \A n \in Messages : Locked(n) => Locked(n)'
      BY <1>0, <1>1, <2>1, <2>5 DEF Locked, Take, LockInv
    <2>7. Locked(m)'
      BY <2>1 DEF Locked
    <2> QED
      BY <1>0, <2>1, <2>3, <2>4, <2>5, <2>6, <2>7 DEF LockInv, At
  <1>2. ASSUME NEW m \in Messages, Promote(m) PROVE LockInv'
    <2>1. Promoted(job[m]).state = "waiting"
      BY JobStates DEF TypeInv, TypeOK
    <2>2. LockFrame
      BY <1>2, <2>1 DEF Promote, LockFrame, At, TypeInv, TypeOK
    <2> QED
      BY <2>2, LockFrameKeeps
  <1>3. ASSUME NEW m \in Messages, StalledCheck(m) PROVE LockInv'
    <2>1. Stalled(job[m]).state \in {"waiting", "failed"}
      BY JobStates DEF TypeInv, TypeOK
    <2>2. job'[m].state \in {"waiting", "failed"} /\ \A n \in Messages \ {m} : job'[n] = job[n]
      BY <1>3, <2>1 DEF StalledCheck, TypeInv, TypeOK
    <2>3. run' = run /\ mishaps' = mishaps /\ ~Locked(m)
      BY <1>3 DEF StalledCheck
    <2> QED
      BY <1>0, <2>2, <2>3 DEF LockInv, Locked, At
  <1>4. ASSUME NEW p \in Processors, LoseLock(p) PROVE LockInv'
    <2>1. /\ ~run'[p].locked /\ run'[p].msg = run[p].msg /\ run'[p].step = run[p].step
          /\ \A q \in Processors \ {p} : run'[q] = run[q]
      BY <1>4 DEF LoseLock, TypeInv, TypeOK, Run
    <2>2. run[p].msg \in Messages /\ ~At(p, "idle")
      BY <1>0, <1>4 DEF LoseLock, LockInv
    <2>3. "lock" \in mishaps'[run[p].msg]
      BY <1>4, <2>2 DEF LoseLock, Fault, Suffer
    <2>4. \A n \in Messages \ {run[p].msg} : Locked(n) => Locked(n)'
      BY <2>1 DEF Locked
    <2>5. job' = job
      BY <1>4 DEF LoseLock
    <2> QED
      BY <1>0, <2>1, <2>2, <2>3, <2>4, <2>5 DEF LockInv, At
  <1>5. ASSUME NEW h \in Hosts, Crash(h) PROVE LockInv'
    <2> DEFINE P == {p \in Processors : HostOf[p] = h}
    <2>1. \A p \in Processors : run'[p] = IF p \in P THEN IdleRun ELSE run[p]
      BY <1>5 DEF Crash
    <2>2. ASSUME NEW n \in Messages, Locked(n) PROVE Locked(n)' \/ "lock" \in mishaps'[n]
      <3>1. PICK p \in Processors : run[p].msg = n /\ run[p].locked
        BY <2>2 DEF Locked
      <3>2. CASE p \in P
        <4>1. n # NoMessage
          BY NoMessageAssumption
        <4> QED
          BY <1>5, <3>1, <3>2, <4>1 DEF Crash, Fault, Suffer
      <3>3. CASE p \notin P
        BY <2>1, <3>1, <3>3 DEF Locked
      <3> QED
        BY <3>2, <3>3
    <2>3. job' = job /\ IdleRun.step = "idle" /\ ~IdleRun.locked
      BY <1>5 DEF Crash, IdleRun
    <2> QED
      BY <1>0, <2>1, <2>2, <2>3 DEF LockInv, At
  <1> QED
    BY <1>1, <1>2, <1>3, <1>4, <1>5, LockProcessStep DEF Worker

\* Every step keeps the invariants of jobs and locks.
LEMMA JobAndLockNext ==
  ASSUME TypeInv, JobInv, LockInv, [Next]_vars
  PROVE  JobInv' /\ LockInv'
  <1>1. CASE API
    BY <1>1, JobAPI, LockAPI, LockFrameKeeps
  <1>2. CASE Worker
    BY <1>2, JobWorker, JobFrameKeeps, LockWorker
  <1>3. CASE DeviceAcks
    BY <1>3, JobAcks, JobFrameKeeps, LockAcks, LockFrameKeeps
  <1>4. CASE DeadLetters
    BY <1>4, JobDeadLetters, LockDeadLetters
  <1>5. CASE UNCHANGED vars
    BY <1>5 DEF vars, JobInv, LockInv, At, Locked
  <1> QED
    BY <1>1, <1>2, <1>3, <1>4, <1>5 DEF Next

-----------------------------------------------------------------------------
\* UnsentUntilFault.  A step that sends nothing, and moves no job and no run
\* to before the send that was not there already, keeps it.

Retryable == {"none", "delayed", "waiting", "failed"}
Clear(m) == mishaps[m] \cap {"db", "answer", "lock"} = {}

SendFrame ==
  /\ sends' = sends
  /\ \A m \in Messages :
       Clear(m)' => /\ job'[m].state \in Retryable => sends[m] = 0 \/ job[m].state \in Retryable
                    /\ \A p \in Processors :
                         run'[p].msg = m /\ run'[p].step \in BeforeTheSend =>
                           sends[m] = 0 \/ (run[p].msg = m /\ run[p].step \in BeforeTheSend)

\* A step that sends nothing, and makes no sent message runnable again, keeps UnsentUntilFault.
LEMMA SendFrameKeeps ==
  ASSUME TypeInv, UnsentUntilFault, [Next]_vars, SendFrame
  PROVE  UnsentUntilFault'
  <1>1. \A m \in Messages : Clear(m)' => Clear(m)
    BY MishapsGrow DEF Clear
  <1>2. \A m \in Messages :
          Clear(m) => /\ sends[m] <= 1
                      /\ job[m].state \in Retryable => sends[m] = 0
                      /\ \A p \in Processors : run[p].msg = m /\ run[p].step \in BeforeTheSend => sends[m] = 0
    BY DEF UnsentUntilFault, Clear, Retryable
  <1>3. \A m \in Messages :
          Clear(m)' => /\ sends'[m] <= 1
                       /\ job'[m].state \in Retryable => sends'[m] = 0
                       /\ \A p \in Processors : run'[p].msg = m /\ run'[p].step \in BeforeTheSend => sends'[m] = 0
    BY <1>1, <1>2 DEF SendFrame
  <1> QED
    BY <1>3 DEF UnsentUntilFault, Clear, Retryable

\* A processor whose message is clear of faults holds its lock alone.
LEMMA ClearRunsAlone ==
  ASSUME LockInv, NEW p \in Processors, ~At(p, "idle"), Clear(run[p].msg)
  PROVE  /\ run[p].locked /\ job[run[p].msg].state = "active"
         /\ \A q \in Processors \ {p} : At(q, "idle") \/ run[q].msg # run[p].msg
  BY DEF LockInv, Clear

\* The handlers' steps keep it: after an accepted send, only a fault leads to the catch block.
LEMMA SendProcessStep ==
  ASSUME SendInv, [Next]_vars, NEW p \in Processors, ProcessStep(p)
  PROVE  UnsentUntilFault'
  <1> USE DEF SendInv
  <1>0. PICK m \in Messages : run[p].msg = m
    BY DEF ProcessStep, MarkProcessing, ProviderAccepts, ProviderRefuses, AnswerLost,
       RecordSent, AnnounceSent, CatchError, AnnounceFailed, Return, Rethrow,
       TypeInv, BusyHandlersHoldAMessage, At
  <1>1. job[m] \in Job /\ run[p].attempt \in Nat /\ ~At(p, "idle")
    BY <1>0 DEF ProcessStep, MarkProcessing, ProviderAccepts, ProviderRefuses, AnswerLost,
       RecordSent, AnnounceSent, CatchError, AnnounceFailed, Return, Rethrow,
       TypeInv, TypeOK, BusyHandlersHoldAMessage, At, Run
  <1>2. \A n \in Messages : Clear(n)' => Clear(n)
    BY MishapsGrow DEF Clear
  <1>3. ASSUME NEW step, Goto(p, step), UNCHANGED <<job, sends>>,
               Clear(m)' /\ step \in BeforeTheSend => run[p].step \in BeforeTheSend
        PROVE  UnsentUntilFault'
    <2>1. SendFrame
      BY <1>0, <1>3, GotoMoves DEF SendFrame
    <2> QED
      BY <2>1, SendFrameKeeps
  <1>4. CASE MarkProcessing(p) \/ ProviderRefuses(p) \/ CatchError(p) \/ AnnounceSent(p) \/ AnnounceFailed(p)
    BY <1>0, <1>3, <1>4 DEF MarkProcessing, ProviderRefuses, CatchError, AnnounceSent, AnnounceFailed,
       BeforeTheSend, At, bounds
  <1>5. CASE RecordSent(p)
    <2>1. CASE Goto(p, "announceSent")
      BY <1>0, <1>3, <1>5, <2>1 DEF RecordSent, BeforeTheSend
    <2>2. CASE Fault({m}, "db") /\ Goto(p, "catch")
      <3>1. ~Clear(m)'
        BY <1>0, <1>1, <2>2 DEF Fault, Suffer, Clear
      <3> QED
        BY <1>0, <1>3, <1>5, <2>2, <3>1 DEF RecordSent
    <2> QED
      BY <1>0, <1>5, <2>1, <2>2 DEF RecordSent
  <1>6. CASE ProviderAccepts(p) \/ AnswerLost(p)
    <2>1. /\ sends'[m] = sends[m] + 1 /\ sends[m] \in Nat
          /\ \A n \in Messages \ {m} : sends'[n] = sends[n]
          /\ job' = job
      BY <1>0, <1>1, <1>6 DEF ProviderAccepts, AnswerLost, TypeInv, TypeOK
    <2>2. run'[p].msg = m /\ \A q \in Processors \ {p} : run'[q] = run[q]
      BY <1>0, <1>6 DEF ProviderAccepts, AnswerLost, Goto, TypeInv, TypeOK, Run
    <2>3. AnswerLost(p) => ~Clear(m)'
      BY <1>0, <1>1 DEF AnswerLost, Fault, Suffer, Clear
    <2>4. ProviderAccepts(p) => run'[p].step = "record"
      BY DEF ProviderAccepts, TypeInv, TypeOK, Run
    <2>5. ASSUME Clear(m)'
          PROVE  /\ sends'[m] <= 1
                 /\ job'[m].state \notin Retryable
                 /\ \A q \in Processors : run'[q].msg = m => run'[q].step \notin BeforeTheSend
      <3>1. Clear(m) /\ run[p].step = "send"
        BY <1>0, <1>1, <1>2, <1>6, <2>5 DEF ProviderAccepts, AnswerLost, At
      <3>2. sends[m] = 0
        BY <1>0, <1>1, <3>1 DEF UnsentUntilFault, Clear, BeforeTheSend
      <3>3. job[m].state = "active" /\ \A q \in Processors \ {p} : At(q, "idle") \/ run[q].msg # m
        BY <1>0, <1>1, <3>1, ClearRunsAlone
      <3> QED
        BY <1>6, <2>1, <2>2, <2>3, <2>4, <2>5, <3>2, <3>3 DEF Retryable, BeforeTheSend, At
    <2>6. \A n \in Messages \ {m} : Clear(n)' =>
            /\ sends'[n] <= 1
            /\ job'[n].state \in Retryable => sends'[n] = 0
            /\ \A q \in Processors : run'[q].msg = n /\ run'[q].step \in BeforeTheSend => sends'[n] = 0
      BY <1>2, <2>1, <2>2 DEF UnsentUntilFault, Clear, Retryable
    <2> QED
      BY <2>5, <2>6 DEF UnsentUntilFault, Clear, Retryable
  <1>7. ASSUME NEW step, NEW outcome, Finish(p, step, outcome),
               outcome.state = "completed" \/ step \in BeforeTheSend
        PROVE  UnsentUntilFault'
    <2>1. /\ \A n \in Messages \ {m} : job'[n] = job[n]
          /\ job'[m].state \in {job[m].state, outcome.state}
          /\ \A q \in Processors \ {p} : run'[q] = run[q]
          /\ run'[p].step = "idle" /\ sends' = sends
      BY <1>0, <1>1, <1>7 DEF Finish, TypeInv, TypeOK, IdleRun
    <2>2. Clear(m)' /\ step \in BeforeTheSend => sends[m] = 0
      BY <1>0, <1>1, <1>2, <1>7 DEF Finish, At, UnsentUntilFault, Clear
    <2>3. SendFrame
      BY <1>0, <1>7, <2>1, <2>2 DEF SendFrame, Retryable, BeforeTheSend
    <2> QED
      BY <2>3, SendFrameKeeps
  <1>8. CASE Return(p)
    BY <1>0, <1>1, <1>7, <1>8, JobStates DEF Return
  <1>9. CASE Rethrow(p)
    BY <1>0, <1>1, <1>7, <1>9, JobStates DEF Rethrow, BeforeTheSend
  <1> QED
    BY <1>4, <1>5, <1>6, <1>8, <1>9 DEF ProcessStep

\* So does everything else that runs: a job becomes runnable only from a state that was unsent.
LEMMA SendOthers ==
  ASSUME SendInv, [Next]_vars,
         \/ API \/ DeviceAcks \/ DeadLetters
         \/ \E p \in Processors : (\E m \in Messages : Take(p, m)) \/ LoseLock(p)
         \/ \E m \in Messages : Promote(m) \/ StalledCheck(m)
         \/ \E h \in Hosts : Crash(h)
  PROVE  SendFrame
  <1> USE DEF SendInv, SendFrame, bounds
  <1>1. \A m \in Messages : job[m] \in Job
    BY DEF TypeInv, TypeOK
  <1>2. CASE API
    <2>1. ASSUME NEW S \in pending, Enqueue(S) PROVE SendFrame
      <3>1. \A m \in Messages : job'[m] = job[m] \/ job[m].state = "none"
        BY <2>1 DEF Enqueue, JobInv
      <3> QED
        BY <2>1, <3>1 DEF Enqueue, Retryable
    <2> QED
      BY <1>2, <2>1 DEF API, Send, SendBulk, Persist, EnqueueFails
  <1>3. CASE DeviceAcks
    BY <1>3 DEF DeviceAcks, AckArrives, AckStep, AckLookup, AckUpdate, AckAnnounce
  <1>4. CASE DeadLetters
    <2>1. ASSUME NEW a \in Admins, NEW m \in Messages, Reprocess(a, m) PROVE SendFrame
      BY <2>1 DEF Reprocess, Retryable, TypeInv, TypeOK
    <2>2. ASSUME NEW a \in Admins, RemoveJob(a) PROVE SendFrame
      <3>1. \A m \in Messages : Removed(job[m]).state = "removed"
        BY <1>1, JobStates
      <3>2. \A m \in Messages : job'[m] = job[m] \/ job'[m].state = "removed"
        BY <2>2, <3>1 DEF RemoveJob, TypeInv, TypeOK
      <3> QED
        BY <2>2, <3>2 DEF RemoveJob, Retryable
    <2> QED
      BY <1>4, <2>1, <2>2 DEF DeadLetters, BeginRetry, BeginRetryAll, BeginDiscard, Begin,
         AdminStep, MarkRequeued
  <1>5. ASSUME NEW p \in Processors, NEW m \in Messages, Take(p, m) PROVE SendFrame
    <2>1. Clear(m) => sends[m] = 0
      BY <1>5 DEF Take, UnsentUntilFault, Clear
    <2>2. Taken(job[m]).state = "active"
      BY <1>1, JobStates
    <2>3. mishaps' = mishaps /\ sends' = sends
      BY <1>5 DEF Take
    <2>4. run'[p].msg = m /\ \A q \in Processors \ {p} : run'[q] = run[q]
      BY <1>5 DEF Take, TypeInv, TypeOK
    <2>5. job'[m].state = "active" /\ \A n \in Messages \ {m} : job'[n] = job[n]
      BY <1>5, <2>2 DEF Take, TypeInv, TypeOK
    <2> QED
      BY <2>1, <2>3, <2>4, <2>5 DEF Clear, Retryable
  <1>6. ASSUME NEW p \in Processors, LoseLock(p) PROVE SendFrame
    BY <1>6 DEF LoseLock, TypeInv, TypeOK, Run
  <1>7. ASSUME NEW m \in Messages, Promote(m) PROVE SendFrame
    BY <1>7 DEF Promote, Retryable, TypeInv, TypeOK
  <1>8. ASSUME NEW m \in Messages, StalledCheck(m) PROVE SendFrame
    <2>1. ~Clear(m)
      BY <1>8 DEF StalledCheck, LockInv, Clear
    <2>2. mishaps' = mishaps /\ \A n \in Messages \ {m} : job'[n] = job[n]
      BY <1>8 DEF StalledCheck, TypeInv, TypeOK
    <2> QED
      BY <1>8, <2>1, <2>2 DEF StalledCheck, Clear
  <1>9. ASSUME NEW h \in Hosts, Crash(h) PROVE SendFrame
    BY <1>9 DEF Crash, IdleRun, BeforeTheSend
  <1> QED
    BY <1>2, <1>3, <1>4, <1>5, <1>6, <1>7, <1>8, <1>9

\* Every step keeps the strengthening of DuplicateNeedsFault.
LEMMA SendInvNext == SendInv /\ [Next]_vars => SendInv'
  <1> SUFFICES ASSUME SendInv, [Next]_vars PROVE SendInv'
    OBVIOUS
  <1>1. TypeInv' /\ JobInv' /\ LockInv'
    BY TypeNext, JobAndLockNext DEF SendInv
  <1>2. CASE UNCHANGED vars
    BY <1>1, <1>2 DEF vars, SendInv, UnsentUntilFault
  <1>3. CASE Next
    <2>1. CASE \E p \in Processors : ProcessStep(p)
      BY <1>1, <2>1, SendProcessStep DEF SendInv
    <2>2. CASE ~ \E p \in Processors : ProcessStep(p)
      <3>1. SendFrame
        BY <1>3, <2>2, SendOthers DEF Next, Worker
      <3> QED
        BY <1>1, <3>1, SendFrameKeeps DEF SendInv
    <2> QED
      BY <2>1, <2>2
  <1> QED
    BY <1>2, <1>3

(* Retries, bulk retries, discards, concurrent acks and a failed webhook   *)
(* never make the provider take a message twice: a second send needs a     *)
(* failed row write, a lost answer or a lost lock of that very message.    *)
THEOREM NoDuplicateWithoutFault == Spec => []DuplicateNeedsFault
  <1>1. Spec => []SendInv
    BY SendInvInit, SendInvNext, PTL DEF Spec
  <1>2. SendInv => DuplicateNeedsFault
    BY DEF SendInv, UnsentUntilFault, DuplicateNeedsFault, TypeInv, TypeOK
  <1> QED
    BY <1>1, <1>2, PTL

-----------------------------------------------------------------------------
(* RowTracksJob says where the row may be for each state of the job.  To   *)
(* be inductive it needs where the actors that still hold the message are: *)
(* its one run works on the attempt the job counts, an ack handler about   *)
(* to write `delivered` saw the row sent, and a dead-letter request        *)
(* between job.retry() and markRequeued holds a job that ran before.       *)

Quiet(m) == Only({"answer", "event"}, m)

RowStory(m) ==
  /\ job[m].state # "active" => row[m].status \in Agreed(m)
  /\ job[m].state = "none" => job[m].attemptsMade = 0
  /\ job[m].state = "failed" => job[m].attemptsMade > 0
  /\ \A p \in Processors :
       run[p].msg = m => /\ row[m].status \in DuringRun(p)
                         /\ run[p].attempt = job[m].attemptsMade
                         /\ At(p, "announceFailed") => LastAttempt(p)
  /\ \A a \in Acks :
       ack[a].msg = m => /\ ack[a].step = "update" => row[m].status \in {"sent", "delivered"}
                         /\ ack[a].step = "announce" => row[m].status = "delivered"
  /\ \A a \in Admins : admin[a].cur = m => job[m].attemptsMade > 0

RowInv == \A m \in Messages : Quiet(m) => RowStory(m)

\* Idle handlers hold nothing, and a retry works on a job of its list.
HoldersInv ==
  /\ \A p \in Processors : At(p, "idle") => run[p].msg = NoMessage
  /\ \A a \in Admins : admin[a].cur # NoMessage => admin[a].op = "retry" /\ admin[a].cur \in admin[a].todo

\* Nothing happens to a message before its row exists.
AbsentInv ==
  /\ \A m \in Messages : row[m].status = "absent" => sends[m] = 0 /\ mishaps[m] = {}
  /\ \A a \in Acks : ack[a].step # "idle" => row[ack[a].msg].status # "absent"

OutcomeInv == TypeInv /\ JobInv /\ LockInv /\ HoldersInv /\ AbsentInv /\ RowInv

\* Nobody holds a message at first, and no row exists.
LEMMA OutcomeInit == Init => OutcomeInv
  <1> SUFFICES ASSUME Init PROVE OutcomeInv
    OBVIOUS
  <1>1. TypeInv /\ JobInv /\ LockInv
    BY SendInvInit DEF SendInv
  <1>2. HoldersInv /\ AbsentInv
    BY DEF Init, HoldersInv, AbsentInv, At, IdleRun, IdleAdmin, IdleAck
  <1>3. \A m \in Messages : RowStory(m)
    BY NoMessageAssumption DEF Init, RowStory, Agreed, NoJob, IdleRun, IdleAck, IdleAdmin
  <1> QED
    BY <1>1, <1>2, <1>3 DEF OutcomeInv, RowInv

\* What a step does to a message it has no hand in: nothing it is told by.
Untouched(m) ==
  /\ row'[m] = row[m] /\ job'[m] = job[m] /\ events'[m] = events[m]
  /\ m \in UNION pending' <=> m \in UNION pending
  /\ \A p \in Processors : run'[p] = run[p] \/ (run[p].msg # m /\ run'[p].msg # m)
  /\ \A a \in Acks : ack'[a].msg = m /\ ack'[a].step \in {"update", "announce"} => ack'[a] = ack[a]
  /\ \A a \in Admins : admin'[a].cur = m <=> admin[a].cur = m

\* Quiet messages were quiet before.
LEMMA QuietBefore ==
  ASSUME TypeInv, [Next]_vars, NEW m \in Messages
  PROVE  /\ Quiet(m)' => Quiet(m)
         /\ Only({"answer"}, m)' => Only({"answer"}, m)
         /\ Only({"answer"}, m) => Quiet(m)
  BY MishapsGrow DEF Quiet, Only

\* A message no step touches keeps its story.
LEMMA UntouchedKeeps ==
  ASSUME TypeInv, NEW m \in Messages, Untouched(m), RowStory(m)
  PROVE  RowStory(m)'
  <1>1. RetryUnderWay(m)' <=> RetryUnderWay(m)
    BY DEF RetryUnderWay, Untouched
  <1>2. job'[m].state # "active" => row'[m].status \in Agreed(m)'
    <2>1. job[m].state \in JobState
      BY DEF TypeInv, TypeOK, Job
    <2>2. job[m].state # "active" => Agreed(m)' = Agreed(m)
      BY <1>1, <2>1 DEF JobState, Agreed, BeforeRun, Untouched
    <2> QED
      BY <2>2 DEF RowStory, Untouched
  <1>3. ASSUME NEW p \in Processors, run'[p].msg = m
        PROVE  /\ row'[m].status \in DuringRun(p)'
               /\ run'[p].attempt = job'[m].attemptsMade
               /\ At(p, "announceFailed")' => LastAttempt(p)'
    <2>1. run'[p] = run[p] /\ run[p].msg = m
      BY <1>3 DEF Untouched
    <2>2. DuringRun(p)' = DuringRun(p) /\ (LastAttempt(p)' <=> LastAttempt(p))
      BY <1>1, <2>1 DEF DuringRun, BeforeRun, LastAttempt
    <2> QED
      BY <2>1, <2>2 DEF RowStory, Untouched, At
  <1>4. \A a \in Acks :
          ack'[a].msg = m => /\ ack'[a].step = "update" => row'[m].status \in {"sent", "delivered"}
                             /\ ack'[a].step = "announce" => row'[m].status = "delivered"
    BY DEF RowStory, Untouched
  <1>5. \A a \in Admins : admin'[a].cur = m => job'[m].attemptsMade > 0
    BY DEF RowStory, Untouched
  <1> QED
    BY <1>2, <1>3, <1>4, <1>5 DEF RowStory, Untouched

-----------------------------------------------------------------------------
\* Every step keeps the bookkeeping of the handlers.
LEMMA HoldersNext ==
  ASSUME TypeInv, HoldersInv, [Next]_vars
  PROVE  HoldersInv'
  <1> USE DEF TypeInv, TypeOK, bounds
  <1>1. ASSUME UNCHANGED <<run, admin>> PROVE HoldersInv'
    BY <1>1 DEF HoldersInv, At
  <1>2. ASSUME NEW p \in Processors, NEW step \in Steps \ {"idle"}, Goto(p, step), UNCHANGED admin
        PROVE  HoldersInv'
    BY <1>2, GotoMoves DEF HoldersInv, At
  <1>3. {"send", "rethrow", "catch", "announceSent", "complete", "announceFailed"} \subseteq Steps \ {"idle"}
    BY DEF Steps
  <1>4. ASSUME NEW p \in Processors, ProcessStep(p) PROVE HoldersInv'
    <2>1. CASE MarkProcessing(p) \/ ProviderRefuses(p) \/ AnswerLost(p) \/ RecordSent(p)
               \/ AnnounceSent(p) \/ CatchError(p) \/ AnnounceFailed(p)
      BY <1>2, <1>3, <2>1 DEF MarkProcessing, ProviderRefuses, AnswerLost, RecordSent,
         AnnounceSent, CatchError, AnnounceFailed
    <2>2. CASE ProviderAccepts(p)
      BY <2>2 DEF ProviderAccepts, HoldersInv, At, Run
    <2>3. CASE Return(p) \/ Rethrow(p)
      BY <2>3 DEF Return, Rethrow, Finish, IdleRun, HoldersInv, At
    <2> QED
      BY <1>4, <2>1, <2>2, <2>3 DEF ProcessStep
  <1>5. ASSUME NEW p \in Processors, NEW m \in Messages, Take(p, m) PROVE HoldersInv'
    BY <1>5 DEF Take, HoldersInv, At
  <1>6. ASSUME NEW p \in Processors, LoseLock(p) PROVE HoldersInv'
    BY <1>6 DEF LoseLock, HoldersInv, At, Run
  <1>7. ASSUME NEW h \in Hosts, Crash(h) PROVE HoldersInv'
    BY <1>7 DEF Crash, HoldersInv, At, IdleRun
  <1>8. CASE Worker
    BY <1>1, <1>4, <1>5, <1>6, <1>7, <1>8 DEF Worker, Promote, StalledCheck
  <1>9. ASSUME NEW a \in Admins, UNCHANGED run, AdminEnds(a) PROVE HoldersInv'
    BY <1>9 DEF AdminEnds, IdleAdmin, HoldersInv, At
  <1>10. CASE DeadLetters
    <2>1. ASSUME NEW a \in Admins, NEW op, NEW S, Begin(a, op, S) PROVE HoldersInv'
      BY <2>1 DEF Begin, HoldersInv, At
    <2>2. ASSUME NEW a \in Admins, NEW m \in Messages, Reprocess(a, m) PROVE HoldersInv'
      <3>1. CASE admin' = [admin EXCEPT ![a].cur = m]
        BY <2>2, <3>1 DEF Reprocess, HoldersInv, At, AdminOp
      <3> QED
        BY <1>9, <2>2, <3>1 DEF Reprocess
    <2>3. ASSUME NEW a \in Admins, MarkRequeued(a) PROVE HoldersInv'
      <3>1. CASE NextJob(a)
        BY <2>3, <3>1 DEF MarkRequeued, NextJob, IdleAdmin, HoldersInv, At
      <3> QED
        BY <1>9, <2>3, <3>1 DEF MarkRequeued
    <2>4. ASSUME NEW a \in Admins, RemoveJob(a) PROVE HoldersInv'
      BY <1>9, <2>4 DEF RemoveJob
    <2> QED
      BY <1>10, <2>1, <2>2, <2>3, <2>4
      DEF DeadLetters, BeginRetry, BeginRetryAll, BeginDiscard, AdminStep
  <1>11. CASE API \/ DeviceAcks \/ UNCHANGED vars
    BY <1>1, <1>11 DEF API, Send, SendBulk, Persist, Enqueue, EnqueueFails, DeviceAcks, AckArrives,
       AckStep, AckLookup, AckUpdate, AckAnnounce, vars
  <1> QED
    BY <1>8, <1>10, <1>11 DEF Next

-----------------------------------------------------------------------------
\* AbsentInv: whoever sends a message or meets a mishap with it found its row.

AbsentFrame ==
  /\ \A m \in Messages : row'[m].status = "absent" => row[m].status = "absent"
  /\ \A m \in Messages : row'[m].status = "absent" => sends'[m] = sends[m] /\ mishaps'[m] = mishaps[m]
  /\ \A a \in Acks : ack'[a].step # "idle" => row[ack'[a].msg].status # "absent"

\* A step that only works on rows that exist keeps AbsentInv.
LEMMA AbsentFrameKeeps ==
  ASSUME TypeInv', AbsentInv, AbsentFrame
  PROVE  AbsentInv'
  BY DEF AbsentInv, AbsentFrame, TypeInv, BusyHandlersHoldAMessage

\* A fault marks only the messages it hits.
LEMMA SufferOnly ==
  ASSUME TypeInv, NEW M, NEW kind,
         Suffer(M, kind) \/ Fault(M, kind) \/ NoFault \/ UNCHANGED mishaps
  PROVE  \A m \in Messages \ M : mishaps'[m] = mishaps[m]
  BY DEF Suffer, Fault, NoFault

\* An ack handler keeps its message until it ends, and the others wait.
LEMMA AckMoves ==
  ASSUME TypeInv, NEW a \in Acks, AckStep(a)
  PROVE  /\ ack'[a] = IdleAck \/ ack'[a].msg = ack[a].msg
         /\ \A b \in Acks \ {a} : ack'[b] = ack[b]
  <1>1. AckEnds(a) \/ \E step : AckGoto(a, step)
    BY DEF AckStep, AckLookup, AckUpdate, AckAnnounce
  <1>2. CASE AckEnds(a)
    BY <1>2 DEF AckEnds, TypeInv, TypeOK
  <1>3. CASE \E step : AckGoto(a, step)
    BY <1>3 DEF AckGoto, TypeInv, TypeOK, AckHandler
  <1> QED
    BY <1>1, <1>2, <1>3

\* Every step works on rows that exist, or saves them.
LEMMA AbsentNext ==
  ASSUME TypeInv, JobInv, LockInv, HoldersInv, AbsentInv, [Next]_vars
  PROVE  AbsentInv'
  <1> USE DEF bounds
  <1>0. TypeInv'
    BY TypeNext
  <1>1. CASE API
    <2>1. ASSUME NEW S \in SUBSET Messages, NEW delayed \in BOOLEAN, Persist(S, delayed) PROVE AbsentFrame
      BY <2>1 DEF Persist, InitialStatus, AbsentFrame, AbsentInv, TypeInv, TypeOK, Row
    <2>2. ASSUME NEW S \in pending, Enqueue(S) \/ EnqueueFails(S) PROVE AbsentFrame
      <3>1. \A m \in Messages \ S : mishaps'[m] = mishaps[m]
        BY <2>2, SufferOnly DEF Enqueue, EnqueueFails
      <3> QED
        BY <2>2, <3>1 DEF Enqueue, EnqueueFails, AbsentFrame, AbsentInv, JobInv
    <2> QED
      BY <1>0, <1>1, <2>1, <2>2, AbsentFrameKeeps DEF API, Send, SendBulk
  <1>2. \A p \in Processors : ~At(p, "idle") => run[p].msg \in Messages /\ row[run[p].msg].status # "absent"
    BY DEF TypeInv, BusyHandlersHoldAMessage, LockInv, JobInv
  <1>3. CASE Worker
    <2>1. \A m \in Messages : row'[m].status = "absent" => row[m].status = "absent"
      BY <1>3, JobWorker DEF JobFrame
    <2>2. ASSUME NEW p \in Processors, ProcessStep(p) PROVE AbsentFrame
      <3> DEFINE m == run[p].msg
      <3>1. m \in Messages /\ row[m].status # "absent"
        BY <1>2, <2>2 DEF ProcessStep, MarkProcessing, ProviderAccepts, ProviderRefuses, AnswerLost,
           RecordSent, AnnounceSent, CatchError, AnnounceFailed, Return, Rethrow, At
      <3>2. \A n \in Messages \ {m} : sends'[n] = sends[n]
        BY <2>2 DEF ProcessStep, MarkProcessing, ProviderAccepts, ProviderRefuses, AnswerLost,
           RecordSent, AnnounceSent, CatchError, AnnounceFailed, Return, Rethrow, Finish, TypeInv, TypeOK
      <3>3. \A n \in Messages \ {m} : mishaps'[n] = mishaps[n]
        BY <2>2, SufferOnly DEF ProcessStep, MarkProcessing, ProviderAccepts, ProviderRefuses,
           AnswerLost, RecordSent, AnnounceSent, CatchError, AnnounceFailed, Return, Rethrow, Finish,
           UpdateThrows, Dispatch
      <3>4. ack' = ack
        BY <2>2 DEF ProcessStep, MarkProcessing, ProviderAccepts, ProviderRefuses, AnswerLost,
           RecordSent, AnnounceSent, CatchError, AnnounceFailed, Return, Rethrow, Finish
      <3> QED
        BY <2>1, <3>1, <3>2, <3>3, <3>4 DEF AbsentFrame, AbsentInv
    <2>3. ASSUME NEW p \in Processors, NEW m \in Messages, Take(p, m) PROVE AbsentFrame
      BY <2>3 DEF Take, AbsentFrame, AbsentInv
    <2>4. ASSUME NEW m \in Messages, Promote(m) \/ StalledCheck(m) PROVE AbsentFrame
      BY <2>4 DEF Promote, StalledCheck, AbsentFrame, AbsentInv
    <2>5. ASSUME NEW p \in Processors, LoseLock(p) PROVE AbsentFrame
      <3>1. ~At(p, "idle") /\ \A n \in Messages \ {run[p].msg} : mishaps'[n] = mishaps[n]
        BY <2>5, SufferOnly DEF LoseLock, LockInv
      <3> QED
        BY <1>2, <2>5, <3>1 DEF LoseLock, AbsentFrame, AbsentInv
    <2>6. ASSUME NEW h \in Hosts, Crash(h) PROVE AbsentFrame
      <3> DEFINE hit == {run[p].msg : p \in {q \in Processors : HostOf[q] = h}} \ {NoMessage}
      <3>1. \A n \in Messages \ hit : mishaps'[n] = mishaps[n]
        BY <2>6, SufferOnly DEF Crash
      <3>2. \A n \in hit : row[n].status # "absent"
        BY <1>2 DEF HoldersInv
      <3>3. \A a \in Acks : ack'[a].step # "idle" => ack'[a] = ack[a]
        BY <2>6 DEF Crash, IdleAck
      <3> QED
        BY <2>6, <3>1, <3>2, <3>3 DEF Crash, AbsentFrame, AbsentInv
    <2> QED
      BY <1>0, <1>3, <2>2, <2>3, <2>4, <2>5, <2>6, AbsentFrameKeeps DEF Worker
  <1>4. CASE DeviceAcks
    <2>1. \A m \in Messages : row'[m].status = "absent" => row[m].status = "absent"
      BY <1>4, JobAcks DEF JobFrame
    <2>2. ASSUME NEW a \in Acks, NEW m \in Messages, NEW id \in 1..sends[m], AckArrives(a, m, id)
          PROVE  AbsentFrame
      <3>1. row[m].status # "absent"
        BY <2>2 DEF AbsentInv
      <3> QED
        BY <2>2, <3>1 DEF AckArrives, AbsentFrame, AbsentInv, TypeInv, TypeOK
    <2>3. ASSUME NEW a \in Acks, AckStep(a) PROVE AbsentFrame
      <3> DEFINE m == ack[a].msg
      <3>1. ack[a].step # "idle" /\ row[m].status # "absent"
        BY <2>3 DEF AckStep, AckLookup, AckUpdate, AckAnnounce, AbsentInv
      <3>2. \A n \in Messages \ {m} : mishaps'[n] = mishaps[n]
        BY <2>3, SufferOnly DEF AckStep, AckLookup, AckUpdate, AckAnnounce, UpdateThrows, Dispatch
      <3>3. \A b \in Acks : ack'[b].step # "idle" => ack'[b].msg = ack[b].msg /\ ack[b].step # "idle"
        BY <2>3, <3>1, AckMoves DEF IdleAck
      <3>4. sends' = sends
        BY <2>3 DEF AckStep, AckLookup, AckUpdate, AckAnnounce
      <3> QED
        BY <2>1, <3>1, <3>2, <3>3, <3>4 DEF AbsentFrame, AbsentInv
    <2> QED
      BY <1>0, <1>4, <2>2, <2>3, AbsentFrameKeeps DEF DeviceAcks
  <1>5. CASE DeadLetters
    <2>1. \A a \in Admins : \A m \in admin[a].todo : m \in Messages /\ row[m].status # "absent"
      BY DEF JobInv, TypeInv, TypeOK, AdminOp
    <2>2. ASSUME NEW a \in Admins, NEW op, NEW S, Begin(a, op, S) PROVE AbsentFrame
      BY <2>2 DEF Begin, AbsentFrame, AbsentInv
    <2>3. ASSUME NEW a \in Admins, NEW m \in Messages, Reprocess(a, m) PROVE AbsentFrame
      BY <2>3 DEF Reprocess, AbsentFrame, AbsentInv
    <2>4. ASSUME NEW a \in Admins, MarkRequeued(a) PROVE AbsentFrame
      <3>1. admin[a].cur \in Messages /\ row[admin[a].cur].status # "absent"
        BY <2>1, <2>4 DEF MarkRequeued, HoldersInv
      <3>2. \A n \in Messages \ {admin[a].cur} : mishaps'[n] = mishaps[n]
        BY <2>4, SufferOnly DEF MarkRequeued, UpdateThrows
      <3>3. \A n \in Messages : row'[n].status \in {row[n].status, "queued"}
        BY <2>4, <3>1, UpdateWrites DEF MarkRequeued
      <3> QED
        BY <2>4, <3>1, <3>2, <3>3 DEF MarkRequeued, AbsentFrame, AbsentInv
    <2>5. ASSUME NEW a \in Admins, RemoveJob(a) PROVE AbsentFrame
      <3>1. PICK m \in admin[a].todo : UNCHANGED mishaps \/ Suffer({m}, "discard")
        BY <2>5 DEF RemoveJob
      <3>2. \A n \in Messages \ {m} : mishaps'[n] = mishaps[n]
        BY <3>1, SufferOnly
      <3> QED
        BY <2>1, <2>5, <3>2 DEF RemoveJob, AbsentFrame, AbsentInv
    <2> QED
      BY <1>0, <1>5, <2>2, <2>3, <2>4, <2>5, AbsentFrameKeeps
      DEF DeadLetters, BeginRetry, BeginRetryAll, BeginDiscard, AdminStep
  <1>6. CASE UNCHANGED vars
    BY <1>6 DEF vars, AbsentInv
  <1> QED
    BY <1>1, <1>3, <1>4, <1>5, <1>6 DEF Next

-----------------------------------------------------------------------------
\* RowInv.  A handler touches its own message only ...
LEMMA HandlerTouches ==
  ASSUME TypeInv, NEW p \in Processors, ProcessStep(p), NEW n \in Messages, n # run[p].msg
  PROVE  Untouched(n)
  <1> USE DEF TypeInv, TypeOK
  <1>1. run[p].msg \in Messages
    BY DEF ProcessStep, MarkProcessing, ProviderAccepts, ProviderRefuses, AnswerLost, RecordSent,
       AnnounceSent, CatchError, AnnounceFailed, Return, Rethrow, BusyHandlersHoldAMessage, At
  <1>2. row'[n] = row[n]
    BY <1>1 DEF ProcessStep, MarkProcessing, ProviderAccepts, ProviderRefuses, AnswerLost, RecordSent,
       AnnounceSent, CatchError, AnnounceFailed, Return, Rethrow, Finish, Update, UpdateThrows, StoreSent
  <1>3. job'[n] = job[n]
    BY DEF ProcessStep, MarkProcessing, ProviderAccepts, ProviderRefuses, AnswerLost, RecordSent,
       AnnounceSent, CatchError, AnnounceFailed, Return, Rethrow, Finish
  <1>4. events'[n] = events[n]
    BY DEF ProcessStep, MarkProcessing, ProviderAccepts, ProviderRefuses, AnswerLost, RecordSent,
       AnnounceSent, CatchError, AnnounceFailed, Return, Rethrow, Finish, Dispatch
  <1>5. UNCHANGED <<pending, ack, admin>>
    BY DEF ProcessStep, MarkProcessing, ProviderAccepts, ProviderRefuses, AnswerLost, RecordSent,
       AnnounceSent, CatchError, AnnounceFailed, Return, Rethrow, Finish
  <1>6. run'[p].msg # n /\ \A q \in Processors \ {p} : run'[q] = run[q]
    <2>1. ASSUME NEW step, Goto(p, step) PROVE run'[p].msg = run[p].msg /\ \A q \in Processors \ {p} : run'[q] = run[q]
      BY <2>1, GotoMoves
    <2>2. CASE ProviderAccepts(p)
      BY <2>2 DEF ProviderAccepts, Run
    <2>3. CASE Return(p) \/ Rethrow(p)
      BY <2>3, NoMessageAssumption DEF Return, Rethrow, Finish, IdleRun
    <2> QED
      BY <2>1, <2>2, <2>3 DEF ProcessStep, MarkProcessing, ProviderRefuses, AnswerLost, RecordSent,
         AnnounceSent, CatchError, AnnounceFailed
  <1> QED
    BY <1>2, <1>3, <1>4, <1>5, <1>6 DEF Untouched

\* ... and is alone with it while it is quiet.
LEMMA QuietRunIsAlone ==
  ASSUME LockInv, HoldersInv, NEW p \in Processors, run[p].msg \in Messages, Quiet(run[p].msg)
  PROVE  /\ ~At(p, "idle") /\ run[p].locked /\ job[run[p].msg].state = "active"
         /\ \A q \in Processors \ {p} : run[q].msg # run[p].msg
  <1>1. ~At(p, "idle") /\ "lock" \notin mishaps[run[p].msg]
    BY NoMessageAssumption DEF HoldersInv, Quiet, Only
  <1>2. \A q \in Processors : At(q, "idle") => run[q].msg # run[p].msg
    BY NoMessageAssumption DEF HoldersInv
  <1> QED
    BY <1>1, <1>2 DEF LockInv

\* A quiet message outside the active state is in no handler's hands.
LEMMA QuietIdleJob ==
  ASSUME LockInv, HoldersInv, NEW m \in Messages, Quiet(m), job[m].state # "active"
  PROVE  \A p \in Processors : run[p].msg # m
  BY QuietRunIsAlone

\* The rows a delivery ack can find sent: their job is done or about to be.
LEMMA SentStory ==
  ASSUME TypeInv, NEW m \in Messages, RowStory(m)
  PROVE  /\ row[m].status \in {"sent", "delivered"} => job[m].state \in {"active", "completed"}
         /\ \A p \in Processors :
              run[p].msg = m =>
                (row[m].status \in {"sent", "delivered"} <=> run[p].step \in {"announceSent", "complete"})
  <1>1. job[m].state \in JobState
    BY DEF TypeInv, TypeOK, Job
  <1>2. row[m].status \in {"sent", "delivered"} => job[m].state \in {"active", "completed"}
    BY <1>1 DEF RowStory, Agreed, BeforeRun, JobState
  <1>3. ASSUME NEW p \in Processors, run[p].msg = m
        PROVE  row[m].status \in {"sent", "delivered"} <=> run[p].step \in {"announceSent", "complete"}
    <2>1. row[m].status \in DuringRun(p) /\ run[p].step \in Steps
      BY <1>3 DEF RowStory, TypeInv, TypeOK, Run
    <2> QED
      BY <2>1 DEF DuringRun, BeforeRun, Steps
  <1> QED
    BY <1>2, <1>3

\* A step of the run of a quiet message: what is left to show of the story.
LEMMA OwnStep ==
  ASSUME TypeInv, LockInv, HoldersInv, NEW p \in Processors, NEW m \in Messages,
         run[p].msg = m, Quiet(m), RowStory(m), NEW step,
         run'[p].step = step, run'[p].msg = m, run'[p].attempt = run[p].attempt,
         \A q \in Processors \ {p} : run'[q] = run[q], UNCHANGED <<job, ack, admin>>,
         row'[m].status \in DuringRun(p)',
         step = "announceFailed" => LastAttempt(p),
         run[p].step \in {"announceSent", "complete"} => row'[m].status = row[m].status
  PROVE  RowStory(m)'
  <1>1. job[m].state = "active" /\ \A q \in Processors \ {p} : run[q].msg # m
    BY QuietRunIsAlone
  <1>2. ASSUME NEW q \in Processors, run'[q].msg = m
        PROVE  /\ row'[m].status \in DuringRun(q)'
               /\ run'[q].attempt = job'[m].attemptsMade
               /\ At(q, "announceFailed")' => LastAttempt(q)'
    BY <1>1, <1>2 DEF RowStory, LastAttempt, At
  <1>3. row[m].status \in {"sent", "delivered"} => row'[m].status = row[m].status
    BY SentStory
  <1>4. \A a \in Acks :
          ack'[a].msg = m => /\ ack'[a].step = "update" => row'[m].status \in {"sent", "delivered"}
                             /\ ack'[a].step = "announce" => row'[m].status = "delivered"
    BY <1>3 DEF RowStory
  <1> QED
    BY <1>1, <1>2, <1>4 DEF RowStory

\* A fault a client is not protected from takes the message out of the promise.
LEMMA FaultEndsQuiet ==
  ASSUME NEW M, NEW m \in Messages, m \in M, NEW kind \in Mishap \ {"answer", "event"},
         Suffer(M, kind) \/ Fault(M, kind)
  PROVE  ~Quiet(m)'
  BY DEF Suffer, Fault, Quiet, Only

\* A handler's steps tell the row what they do.
LEMMA RowProcessStep ==
  ASSUME OutcomeInv, [Next]_vars, NEW p \in Processors, ProcessStep(p), NEW m \in Messages,
         run[p].msg = m, Quiet(m)'
  PROVE  RowStory(m)'
  <1> USE DEF OutcomeInv
  <1>1. Quiet(m) /\ RowStory(m)
    BY QuietBefore DEF RowInv
  <1>2. /\ run[p].locked /\ job[m].state = "active"
        /\ \A q \in Processors \ {p} : run[q].msg # m
    BY <1>1, QuietRunIsAlone
  <1>3. "db" \in Mishap \ {"answer", "event"}
    BY DEF Mishap
  <1>4. row[m] \in Row /\ row[m].status \in DuringRun(p) /\ (At(p, "announceFailed") => LastAttempt(p))
    BY <1>1 DEF RowStory, TypeInv, TypeOK
  <1>5. ASSUME NEW step, Goto(p, step), UNCHANGED <<job, ack, admin>>,
               row'[m].status \in DuringRun(p)', step = "announceFailed" => LastAttempt(p),
               At(p, "announceSent") \/ At(p, "complete") => row'[m].status = row[m].status
        PROVE  RowStory(m)'
    BY <1>1, <1>5, GotoMoves, OwnStep DEF At
  <1>6. CASE MarkProcessing(p)
    <2>1. Update(m, "processing") /\ Goto(p, "send") /\ UNCHANGED <<job, ack, admin>>
      BY <1>3, <1>6, FaultEndsQuiet DEF MarkProcessing, UpdateThrows
    <2>2. row'[m].status = "processing" /\ run'[p].step = "send"
      BY <1>4, <2>1, GotoMoves DEF Update, Row, TypeInv, TypeOK
    <2> QED
      BY <1>5, <1>6, <2>1, <2>2 DEF DuringRun, At, MarkProcessing
  <1>7. CASE ProviderAccepts(p)
    <2>1. /\ run'[p].step = "record" /\ run'[p].msg = m /\ run'[p].attempt = run[p].attempt
          /\ \A q \in Processors \ {p} : run'[q] = run[q]
      BY <1>7 DEF ProviderAccepts, TypeInv, TypeOK, Run
    <2>2. row[m].status = "processing" /\ UNCHANGED <<row, job, ack, admin>>
      BY <1>4, <1>7 DEF ProviderAccepts, At, DuringRun
    <2>3. row'[m].status \in DuringRun(p)'
      BY <2>1, <2>2 DEF DuringRun
    <2> QED
      BY <1>1, <2>1, <2>2, <2>3, OwnStep
  <1>8. CASE ProviderRefuses(p) \/ AnswerLost(p)
    <2>1. Goto(p, "catch") /\ UNCHANGED <<row, job, ack, admin>> /\ At(p, "send")
      BY <1>8 DEF ProviderRefuses, AnswerLost
    <2>2. row'[m].status = "processing" /\ run'[p].step = "catch"
      BY <1>4, <2>1, GotoMoves DEF DuringRun, At
    <2> QED
      BY <1>5, <2>1, <2>2 DEF DuringRun
  <1>9. CASE RecordSent(p)
    <2>1. StoreSent(p) /\ Goto(p, "announceSent") /\ UNCHANGED <<job, ack, admin>> /\ At(p, "record")
      BY <1>3, <1>9, FaultEndsQuiet DEF RecordSent
    <2>2. row'[m].status = "sent" /\ run'[p].step = "announceSent"
      BY <2>1, GotoMoves DEF StoreSent, TypeInv, TypeOK
    <2> QED
      BY <1>5, <2>1, <2>2 DEF DuringRun, At
  <1>10. CASE AnnounceSent(p)
    <2>1. Goto(p, "complete") /\ UNCHANGED <<row, job, ack, admin>> /\ At(p, "announceSent")
      BY <1>10 DEF AnnounceSent
    <2>2. row'[m].status \in {"sent", "delivered"} /\ run'[p].step = "complete"
      BY <1>4, <2>1, GotoMoves DEF DuringRun, At
    <2> QED
      BY <1>5, <2>1, <2>2 DEF DuringRun
  <1>11. CASE CatchError(p)
    <2>1. /\ Update(m, IF LastAttempt(p) THEN "failed" ELSE "queued")
          /\ Goto(p, IF LastAttempt(p) THEN "announceFailed" ELSE "rethrow")
          /\ UNCHANGED <<job, ack, admin>> /\ At(p, "catch")
      BY <1>3, <1>11, FaultEndsQuiet DEF CatchError, UpdateThrows
    <2>2. /\ row'[m].status = IF LastAttempt(p) THEN "failed" ELSE "queued"
          /\ run'[p].step = IF LastAttempt(p) THEN "announceFailed" ELSE "rethrow"
          /\ LastAttempt(p)' <=> LastAttempt(p)
      BY <1>4, <2>1, GotoMoves DEF Update, Row, TypeInv, TypeOK, LastAttempt
    <2>3. row'[m].status \in DuringRun(p)'
      BY <2>2 DEF DuringRun
    <2> QED
      BY <1>5, <2>1, <2>3 DEF At
  <1>12. CASE AnnounceFailed(p)
    <2>1. Goto(p, "rethrow") /\ UNCHANGED <<row, job, ack, admin>> /\ At(p, "announceFailed")
      BY <1>12 DEF AnnounceFailed
    <2>2. row'[m].status = "failed" /\ run'[p].step = "rethrow" /\ LastAttempt(p)'
      BY <1>4, <2>1, GotoMoves DEF DuringRun, At, LastAttempt
    <2>3. row'[m].status \in DuringRun(p)'
      BY <2>2 DEF DuringRun
    <2> QED
      BY <1>5, <2>1, <2>3 DEF At
  <1>13. ASSUME NEW step, NEW outcome, Finish(p, step, outcome), outcome.attemptsMade > 0,
                outcome.state \notin {"none", "active"}, row[m].status \in Agreed(m)',
                row[m].status \in {"sent", "delivered"} <=> outcome.state = "completed"
         PROVE  RowStory(m)'
    <2>1. /\ job'[m] = outcome /\ row' = row /\ ack' = ack /\ admin' = admin
          /\ \A q \in Processors : run'[q].msg # m
      BY <1>2, <1>13, NoMessageAssumption DEF Finish, IdleRun, TypeInv, TypeOK
    <2> QED
      BY <1>1, <1>13, <2>1 DEF RowStory
  <1>14. /\ job[m] \in Job /\ run[p].attempt = job[m].attemptsMade /\ run[p].attempt \in Nat
         /\ job[m].attemptsMade \in Nat
    BY <1>1 DEF RowStory, TypeInv, TypeOK, Job, Run
  <1>15. ASSUME NEW step, NEW outcome \in Job, Finish(p, step, outcome) PROVE job'[m] = outcome
    BY <1>2, <1>15 DEF Finish, TypeInv, TypeOK
  <1>16. CASE Return(p)
    <2> DEFINE outcome == Completed(job[m])
    <2>1. Finish(p, "complete", outcome) /\ row[m].status \in {"sent", "delivered"}
      BY <1>4, <1>16 DEF Return, At, DuringRun
    <2>2. outcome.state = "completed" /\ outcome.attemptsMade > 0 /\ outcome \in Job
      <3>1. outcome \in Job
        BY <1>14, JobOperatorsType
      <3>2. outcome.state = "completed" /\ outcome.attemptsMade = job[m].attemptsMade + 1
        BY <1>14 DEF Completed, Job
      <3> QED
        BY <1>14, <3>1, <3>2
    <2>3. row[m].status \in Agreed(m)'
      BY <1>15, <2>1, <2>2 DEF Agreed
    <2> QED
      BY <1>13, <2>1, <2>2, <2>3
  <1>17. CASE Rethrow(p)
    <2> DEFINE outcome == FailedAttempt(job[m], run[p].attempt)
    <2>1. Finish(p, "rethrow", outcome) /\ row[m].status = IF LastAttempt(p) THEN "failed" ELSE "queued"
      BY <1>4, <1>17 DEF Rethrow, At, DuringRun
    <2>2. /\ outcome.state = IF LastAttempt(p) THEN "failed" ELSE "delayed"
          /\ outcome.attemptsMade = job[m].attemptsMade + 1 /\ outcome \in Job
      <3>1. outcome \in Job
        BY <1>14, JobOperatorsType
      <3>2. /\ outcome.state = (IF run[p].attempt + 1 < Attempts THEN "delayed" ELSE "failed")
            /\ outcome.attemptsMade = job[m].attemptsMade + 1
        BY <1>14 DEF FailedAttempt, Job
      <3>3. run[p].attempt + 1 < Attempts <=> ~LastAttempt(p)
        BY <1>14, AttemptsAssumption DEF LastAttempt
      <3> QED
        BY <3>1, <3>2, <3>3
    <2>3. row[m].status \in Agreed(m)'
      BY <1>14, <1>15, <2>1, <2>2 DEF Agreed
    <2> QED
      BY <1>13, <1>14, <2>1, <2>2, <2>3
  <1> QED
    BY <1>6, <1>7, <1>8, <1>9, <1>10, <1>11, <1>12, <1>16, <1>17 DEF ProcessStep

\* BullMQ's clocks and a new run: the job moves on where the row already is.
LEMMA RowWorker ==
  ASSUME OutcomeInv, [Next]_vars, Worker, NEW m \in Messages, Quiet(m)'
  PROVE  RowStory(m)'
  <1> USE DEF OutcomeInv, bounds
  <1>1. Quiet(m) /\ RowStory(m)
    BY QuietBefore DEF RowInv
  <1>2. "lock" \in Mishap \ {"answer", "event"} /\ job[m] \in Job /\ job[m].attemptsMade \in Nat
    BY DEF Mishap, TypeInv, TypeOK, Job
  <1>3. ASSUME Untouched(m) PROVE RowStory(m)'
    BY <1>1, <1>3, UntouchedKeeps
  <1>4. ASSUME NEW p \in Processors, ProcessStep(p) PROVE RowStory(m)'
    BY <1>3, <1>4, HandlerTouches, RowProcessStep
  <1>5. ASSUME NEW p \in Processors, NEW n \in Messages, Take(p, n) PROVE RowStory(m)'
    <2>1. /\ run[p].msg = NoMessage /\ run'[p].step = "start" /\ run'[p].msg = n
          /\ run'[p].attempt = job[n].attemptsMade /\ \A q \in Processors \ {p} : run'[q] = run[q]
          /\ UNCHANGED <<row, ack, admin, events, pending>>
      BY <1>5 DEF Take, HoldersInv, TypeInv, TypeOK
    <2>2. CASE n # m
      <3>1. Untouched(m)
        BY <1>5, <2>1, <2>2, NoMessageAssumption DEF Untouched, Take, TypeInv, TypeOK
      <3> QED
        BY <1>3, <3>1
    <2>3. CASE n = m
      <3>1. job'[m].state = "active" /\ job'[m].attemptsMade = job[m].attemptsMade
        BY <1>2, <1>5, <2>3 DEF Take, Taken, Job, TypeInv, TypeOK
      <3>2. row[m].status \in BeforeRun(m, job[m].attemptsMade) /\ \A q \in Processors : run[q].msg # m
        BY <1>1, <1>5, <2>3, QuietIdleJob DEF Take, RowStory, Agreed
      <3>3. row'[m].status \in DuringRun(p)'
        BY <2>1, <2>3, <3>2 DEF DuringRun, BeforeRun, RetryUnderWay
      <3> QED
        BY <1>1, <2>1, <2>3, <3>1, <3>2, <3>3 DEF RowStory, At
    <2> QED
      BY <2>2, <2>3
  <1>6. ASSUME NEW n \in Messages, Promote(n) PROVE RowStory(m)'
    <2>1. CASE n # m
      <3>1. Untouched(m)
        BY <1>6, <2>1 DEF Untouched, Promote, TypeInv, TypeOK
      <3> QED
        BY <1>3, <3>1
    <2>2. CASE n = m
      <3>1. job'[m].state = "waiting" /\ job'[m].attemptsMade = job[m].attemptsMade
        BY <1>2, <1>6, <2>2 DEF Promote, Promoted, Job, TypeInv, TypeOK
      <3>2. /\ row[m].status = IF job[m].attemptsMade = 0 THEN "scheduled" ELSE "queued"
            /\ \A q \in Processors : run[q].msg # m
        BY <1>1, <1>6, <2>2, QuietIdleJob DEF Promote, RowStory, Agreed
      <3>3. row'[m].status \in Agreed(m)'
        BY <1>6, <3>1, <3>2 DEF Promote, Agreed, BeforeRun
      <3> QED
        BY <1>1, <1>6, <3>1, <3>2, <3>3 DEF RowStory, Promote
    <2> QED
      BY <2>1, <2>2
  <1>7. ASSUME NEW n \in Messages, StalledCheck(n) PROVE RowStory(m)'
    <2>1. n # m
      BY <1>1, <1>7 DEF StalledCheck, LockInv, Quiet, Only
    <2>2. Untouched(m)
      BY <1>7, <2>1 DEF Untouched, StalledCheck, TypeInv, TypeOK
    <2> QED
      BY <1>3, <2>2
  <1>8. ASSUME NEW p \in Processors, LoseLock(p) PROVE RowStory(m)'
    <2>1. run[p].msg # m
      BY <1>2, <1>8, FaultEndsQuiet DEF LoseLock
    <2>2. run'[p].msg = run[p].msg /\ \A q \in Processors \ {p} : run'[q] = run[q]
      BY <1>8 DEF LoseLock, TypeInv, TypeOK, Run
    <2>3. Untouched(m)
      BY <1>8, <2>1, <2>2 DEF Untouched, LoseLock
    <2> QED
      BY <1>3, <2>3
  <1>9. ASSUME NEW h \in Hosts, Crash(h) PROVE RowStory(m)'
    <2> DEFINE P == {p \in Processors : HostOf[p] = h}
    <2>1. m \notin {run[p].msg : p \in P} \ {NoMessage}
      BY <1>2, <1>9, FaultEndsQuiet DEF Crash
    <2>2. \A p \in P : run[p].msg # m
      BY <2>1, NoMessageAssumption
    <2>3. \A p \in Processors : run'[p] = run[p] \/ (run[p].msg # m /\ run'[p].msg # m)
      BY <1>9, <2>2, NoMessageAssumption DEF Crash, IdleRun
    <2>4. \A a \in Acks : ack'[a].step \in {"update", "announce"} => ack'[a] = ack[a]
      BY <1>9 DEF Crash, IdleAck
    <2>5. Untouched(m)
      BY <1>9, <2>3, <2>4 DEF Untouched, Crash
    <2> QED
      BY <1>3, <2>5
  <1> QED
    BY <1>4, <1>5, <1>6, <1>7, <1>8, <1>9 DEF Worker

\* The API writes a row and its job before anybody else can know the message.
LEMMA RowAPI ==
  ASSUME OutcomeInv, [Next]_vars, API, NEW m \in Messages, Quiet(m)'
  PROVE  RowStory(m)'
  <1> USE DEF OutcomeInv, bounds
  <1>1. Quiet(m) /\ RowStory(m) /\ row[m] \in Row
    BY QuietBefore DEF RowInv, TypeInv, TypeOK
  <1>2. ASSUME Untouched(m) PROVE RowStory(m)'
    BY <1>1, <1>2, UntouchedKeeps
  <1>3. ASSUME job[m].state = "none", job'[m].state \notin {"active", "failed"},
               job'[m].attemptsMade = 0, row'[m].status \in Agreed(m)', UNCHANGED <<run, ack, admin>>,
               \A a \in Acks : ack[a].msg = m => ack[a].step \notin {"update", "announce"}
        PROVE  RowStory(m)'
    <2>1. \A p \in Processors : run[p].msg # m
      BY <1>1, <1>3, QuietIdleJob
    <2>2. \A a \in Admins : admin[a].cur # m
      BY <1>3, NoMessageAssumption DEF HoldersInv, JobInv
    <2> QED
      BY <1>1, <1>3, <2>1, <2>2 DEF RowStory
  <1>4. ASSUME NEW S \in SUBSET Messages, NEW delayed \in BOOLEAN, Persist(S, delayed) PROVE RowStory(m)'
    <2>1. CASE m \notin S
      <3>1. Untouched(m)
        BY <1>4, <2>1 DEF Untouched, Persist
      <3> QED
        BY <1>2, <3>1
    <2>2. CASE m \in S
      <3>1. row[m].status = "absent" /\ job[m].state = "none" /\ UNCHANGED <<job, run, ack, admin>>
        BY <1>4, <2>2 DEF Persist, JobInv
      <3>2. job'[m].attemptsMade = 0
        BY <1>1, <3>1 DEF RowStory
      <3>3. row'[m].status \in {"scheduled", "queued"} /\ m \in UNION pending'
        BY <1>1, <1>4, <2>2 DEF Persist, InitialStatus, Row
      <3>4. \A a \in Acks : ack[a].msg = m => ack[a].step \notin {"update", "announce"}
        BY <3>1 DEF AbsentInv
      <3>5. row'[m].status \in Agreed(m)'
        BY <3>1, <3>3 DEF Agreed
      <3> QED
        BY <1>3, <3>1, <3>2, <3>4, <3>5
    <2> QED
      BY <2>1, <2>2
  <1>5. ASSUME NEW S \in pending, Enqueue(S) PROVE RowStory(m)'
    <2>1. CASE m \notin S
      <3>1. m \in UNION pending' <=> m \in UNION pending
        BY <1>5, <2>1 DEF Enqueue
      <3>2. Untouched(m)
        BY <1>5, <2>1, <3>1 DEF Untouched, Enqueue
      <3> QED
        BY <1>2, <3>2
    <2>2. CASE m \in S
      <3>1. job[m].state = "none" /\ UNCHANGED <<row, run, ack, admin>>
        BY <1>5, <2>2 DEF Enqueue, JobInv
      <3>2. row[m].status \in {"scheduled", "queued"}
        BY <1>1, <2>2, <3>1 DEF RowStory, Agreed
      <3>3. /\ job'[m].state = IF row[m].status = "scheduled" THEN "delayed" ELSE "waiting"
            /\ job'[m].attemptsMade = 0
        BY <1>5, <2>2 DEF Enqueue, AddedJob
      <3>4. row'[m].status \in Agreed(m)'
        BY <3>1, <3>2, <3>3 DEF Agreed, BeforeRun
      <3>5. \A a \in Acks : ack[a].msg = m => ack[a].step \notin {"update", "announce"}
        BY <1>1, <3>2 DEF RowStory
      <3> QED
        BY <1>3, <3>1, <3>3, <3>4, <3>5
    <2> QED
      BY <2>1, <2>2
  <1>6. ASSUME NEW S \in pending, EnqueueFails(S) PROVE RowStory(m)'
    <2>1. m \notin S
      BY <1>6, FaultEndsQuiet DEF EnqueueFails, Mishap
    <2>2. m \in UNION pending' <=> m \in UNION pending
      BY <1>6, <2>1 DEF EnqueueFails
    <2>3. Untouched(m)
      BY <1>6, <2>2 DEF Untouched, EnqueueFails
    <2> QED
      BY <1>2, <2>3
  <1> QED
    BY <1>4, <1>5, <1>6 DEF API, Send, SendBulk

\* An ack that saw the row sent still finds it sent, or delivered, when it writes.
LEMMA RowAcks ==
  ASSUME OutcomeInv, [Next]_vars, DeviceAcks, NEW m \in Messages, Quiet(m)'
  PROVE  RowStory(m)'
  <1> USE DEF OutcomeInv, bounds
  <1>1. Quiet(m) /\ RowStory(m) /\ row[m] \in Row
    BY QuietBefore DEF RowInv, TypeInv, TypeOK
  <1>2. ASSUME Untouched(m) PROVE RowStory(m)'
    BY <1>1, <1>2, UntouchedKeeps
  <1>3. ASSUME NEW a \in Acks, NEW n \in Messages, NEW id, AckArrives(a, n, id) PROVE RowStory(m)'
    <2>1. Untouched(m)
      BY <1>3 DEF Untouched, AckArrives, TypeInv, TypeOK
    <2> QED
      BY <1>2, <2>1
  <1>4. ASSUME NEW a \in Acks, AckStep(a) PROVE RowStory(m)'
    <2> DEFINE n == ack[a].msg
    <2>1. n \in Messages
      BY <1>4 DEF AckStep, AckLookup, AckUpdate, AckAnnounce, TypeInv, BusyHandlersHoldAMessage
    <2>2. (ack'[a] = IdleAck \/ ack'[a].msg = n) /\ \A b \in Acks \ {a} : ack'[b] = ack[b]
      BY <1>4, AckMoves
    <2>3. UNCHANGED <<job, pending, run, admin>>
      BY <1>4 DEF AckStep, AckLookup, AckUpdate, AckAnnounce
    <2>4. CASE n # m
      <3>1. row'[m] = row[m] /\ events'[m] = events[m]
        BY <1>4, <2>1, <2>4 DEF AckStep, AckLookup, AckUpdate, AckAnnounce, Update, UpdateThrows,
           Dispatch, TypeInv, TypeOK
      <3>2. Untouched(m)
        BY <2>2, <2>3, <2>4, <3>1, NoMessageAssumption DEF Untouched, IdleAck
      <3> QED
        BY <1>2, <3>2
    <2>5. CASE n = m
      <3>1. ASSUME UNCHANGED row,
                   ack'[a].step = "update" => row[m].status \in {"sent", "delivered"},
                   ack'[a].step # "announce"
            PROVE  RowStory(m)'
        <4>1. job[m].state # "active" => row'[m].status \in Agreed(m)'
          BY <1>1, <2>3, <3>1 DEF RowStory, Agreed, BeforeRun, RetryUnderWay, TypeInv, TypeOK, Job, JobState
        <4>2. \A p \in Processors : run[p].msg = m => row'[m].status \in DuringRun(p)'
          BY <1>1, <2>3, <3>1 DEF RowStory, DuringRun, BeforeRun, RetryUnderWay, LastAttempt
        <4>3. \A p \in Processors : LastAttempt(p)' <=> LastAttempt(p)
          BY <2>3 DEF LastAttempt
        <4> QED
          BY <1>1, <2>2, <2>3, <3>1, <4>1, <4>2, <4>3 DEF RowStory, At
      <3>2. CASE AckLookup(a)
        <4>1. CASE AckEnds(a) \/ AckGoto(a, "lookAgain")
          <5>1. ack'[a].step \notin {"update", "announce"}
            BY <4>1 DEF AckEnds, AckGoto, IdleAck, TypeInv, TypeOK, AckHandler
          <5> QED
            BY <3>1, <3>2, <5>1 DEF AckLookup
        <4>2. CASE AckGoto(a, "update") /\ row[m].status = "sent"
          <5>1. ack'[a].step = "update"
            BY <4>2 DEF AckGoto, TypeInv, TypeOK, AckHandler
          <5> QED
            BY <3>1, <3>2, <4>2, <5>1 DEF AckLookup
        <4> QED
          BY <2>5, <3>2, <4>1, <4>2 DEF AckLookup
      <3>3. CASE AckUpdate(a)
        <4>1. Update(m, "delivered") /\ AckGoto(a, "announce") /\ row[m].status \in {"sent", "delivered"}
          <5>1. "db" \in Mishap \ {"answer", "event"}
            BY DEF Mishap
          <5> QED
            BY <1>1, <2>5, <3>3, <5>1, FaultEndsQuiet DEF AckUpdate, UpdateThrows, RowStory
        <4>2. row'[m].status = "delivered" /\ ack'[a].step = "announce"
          BY <1>1, <4>1 DEF Update, AckGoto, Row, TypeInv, TypeOK, AckHandler
        <4>3. /\ job[m].state \in {"active", "completed"}
              /\ \A p \in Processors : run[p].msg = m => run[p].step \in {"announceSent", "complete"}
          BY <1>1, <4>1, SentStory
        <4>4. job'[m].state # "active" => row'[m].status \in Agreed(m)'
          BY <2>3, <4>2, <4>3 DEF Agreed
        <4>5. \A p \in Processors : run[p].msg = m => row'[m].status \in DuringRun(p)'
          BY <2>3, <4>2, <4>3 DEF DuringRun
        <4> QED
          BY <1>1, <2>2, <2>3, <4>2, <4>3, <4>4, <4>5 DEF RowStory, At
      <3>4. CASE AckAnnounce(a)
        <4>1. ack'[a].step = "idle"
          BY <3>4 DEF AckAnnounce, AckEnds, IdleAck, TypeInv, TypeOK
        <4> QED
          BY <3>1, <3>4, <4>1 DEF AckAnnounce
      <3> QED
        BY <1>4, <3>2, <3>3, <3>4 DEF AckStep
    <2> QED
      BY <2>4, <2>5
  <1> QED
    BY <1>3, <1>4 DEF DeviceAcks

\* Dead-letter requests that lose no race find the job where they left it.
LEMMA RowDeadLetters ==
  ASSUME OutcomeInv, [Next]_vars, DeadLetters, NEW m \in Messages, Quiet(m)'
  PROVE  RowStory(m)'
  <1> USE DEF OutcomeInv, bounds
  <1>1. Quiet(m) /\ RowStory(m) /\ row[m] \in Row /\ job[m] \in Job
    BY QuietBefore DEF RowInv, TypeInv, TypeOK
  <1>2. ASSUME Untouched(m) PROVE RowStory(m)'
    BY <1>1, <1>2, UntouchedKeeps
  <1>3. ASSUME NEW a \in Admins, AdminEnds(a), admin[a].cur = NoMessage
        PROVE  \A b \in Admins : admin'[b].cur = admin[b].cur
    BY <1>3 DEF AdminEnds, IdleAdmin, TypeInv, TypeOK
  <1>4. ASSUME NEW a \in Admins, NEW op, NEW S, Begin(a, op, S) PROVE RowStory(m)'
    <2>1. \A b \in Admins : admin'[b].cur = admin[b].cur
      BY <1>4 DEF Begin, HoldersInv, TypeInv, TypeOK
    <2>2. Untouched(m)
      BY <1>4, <2>1 DEF Untouched, Begin
    <2> QED
      BY <1>2, <2>2
  <1>5. ASSUME NEW a \in Admins, NEW n \in Messages, Reprocess(a, n) PROVE RowStory(m)'
    <2>1. CASE AdminEnds(a) /\ UNCHANGED job
      <3>1. \A b \in Admins : admin'[b].cur = admin[b].cur
        BY <1>3, <1>5, <2>1 DEF Reprocess
      <3>2. Untouched(m)
        BY <1>5, <2>1, <3>1 DEF Untouched, Reprocess
      <3> QED
        BY <1>2, <3>2
    <2>2. CASE /\ job[n].state = "failed" /\ job' = [job EXCEPT ![n] = Reprocessed(@)]
               /\ admin' = [admin EXCEPT ![a].cur = n]
      <3>1. /\ admin[a].cur = NoMessage /\ admin'[a].cur = n
            /\ \A b \in Admins \ {a} : admin'[b] = admin[b]
            /\ UNCHANGED <<row, pending, run, ack, events>>
        BY <1>5, <2>2 DEF Reprocess, TypeInv, TypeOK, AdminOp
      <3>2. CASE n # m
        <4>1. Untouched(m)
          BY <2>2, <3>1, <3>2, NoMessageAssumption DEF Untouched, TypeInv, TypeOK
        <4> QED
          BY <1>2, <4>1
      <3>3. CASE n = m
        <4>1. job'[m].state = "waiting" /\ job'[m].attemptsMade = job[m].attemptsMade
          BY <1>1, <2>2, <3>3 DEF Reprocessed, Job, TypeInv, TypeOK
        <4>2. row[m].status = "failed" /\ job[m].attemptsMade > 0
          BY <1>1, <2>2, <3>3 DEF RowStory, Agreed
        <4>3. \A p \in Processors : run[p].msg # m
          BY <1>1, <2>2, <3>3, QuietIdleJob
        <4>4. RetryUnderWay(m)'
          BY <3>1, <3>3 DEF RetryUnderWay
        <4>5. row'[m].status \in Agreed(m)'
          BY <1>1, <3>1, <4>1, <4>2, <4>4 DEF Agreed, BeforeRun, Job
        <4> QED
          BY <1>1, <3>1, <4>1, <4>2, <4>3, <4>5 DEF RowStory
      <3> QED
        BY <3>2, <3>3
    <2> QED
      BY <1>5, <2>1, <2>2 DEF Reprocess
  <1>6. ASSUME NEW a \in Admins, MarkRequeued(a) PROVE RowStory(m)'
    <2> DEFINE n == admin[a].cur
    <2>1. n \in Messages /\ n # NoMessage
      BY <1>6 DEF MarkRequeued, TypeInv, TypeOK, AdminOp
    <2>2. UNCHANGED <<job, pending, run, ack, events>>
      BY <1>6 DEF MarkRequeued
    <2>3. admin'[a].cur = NoMessage /\ \A b \in Admins \ {a} : admin'[b] = admin[b]
      BY <1>6 DEF MarkRequeued, NextJob, AdminEnds, IdleAdmin, TypeInv, TypeOK
    <2>4. CASE n # m
      <3>1. row'[m] = row[m]
        BY <1>6, <2>1, <2>4, UpdateWrites DEF MarkRequeued
      <3>2. Untouched(m)
        BY <2>2, <2>3, <2>4, <3>1, NoMessageAssumption DEF Untouched
      <3> QED
        BY <1>2, <3>2
    <2>5. CASE n = m
      <3>1. "db" \in Mishap \ {"answer", "event"} /\ "requeue" \in Mishap \ {"answer", "event"}
        BY DEF Mishap
      <3>2. Update(m, "queued") /\ job[m].state = "waiting"
        BY <1>6, <2>5, <3>1, FaultEndsQuiet DEF MarkRequeued, UpdateThrows
      <3>3. row'[m].status = "queued"
        BY <1>1, <3>2 DEF Update, Row, TypeInv, TypeOK
      <3>4. \A p \in Processors : run[p].msg # m
        BY <1>1, <3>2, QuietIdleJob
      <3>5. row'[m].status \in Agreed(m)'
        BY <2>2, <3>2, <3>3 DEF Agreed, BeforeRun
      <3>6. row[m].status \notin {"sent", "delivered"}
        BY <1>1, <3>2, SentStory
      <3>7. \A b \in Admins : admin'[b].cur = m => admin[b].cur = m
        BY <2>1, <2>3, <2>5
      <3> QED
        BY <1>1, <2>2, <3>2, <3>4, <3>5, <3>6, <3>7 DEF RowStory
    <2> QED
      BY <2>4, <2>5
  <1>7. ASSUME NEW a \in Admins, RemoveJob(a) PROVE RowStory(m)'
    <2>1. admin[a].cur = NoMessage /\ AdminEnds(a) /\ UNCHANGED <<row, pending, run, ack, events>>
      BY <1>7 DEF RemoveJob, HoldersInv
    <2>2. \A b \in Admins : admin'[b].cur = admin[b].cur
      BY <1>3, <2>1
    <2>3. PICK n \in admin[a].todo :
            IF Locked(n) THEN UNCHANGED <<job, mishaps>>
            ELSE /\ job' = [job EXCEPT ![n] = Removed(@)]
                 /\ IF job[n].state \in {"failed", "removed"} THEN UNCHANGED mishaps
                    ELSE Suffer({n}, "discard")
      BY <1>7 DEF RemoveJob
    <2>4. CASE Locked(n) \/ n # m
      <3>1. job'[m] = job[m]
        BY <2>3, <2>4 DEF TypeInv, TypeOK
      <3>2. Untouched(m)
        BY <2>1, <2>2, <3>1 DEF Untouched
      <3> QED
        BY <1>2, <3>2
    <2>5. CASE ~Locked(n) /\ n = m
      <3>1. "discard" \in Mishap \ {"answer", "event"}
        BY DEF Mishap
      <3>2. job[m].state \in {"failed", "removed"}
        BY <2>3, <2>5, <3>1, FaultEndsQuiet
      <3>3. job'[m].state = "removed" /\ job'[m].attemptsMade = job[m].attemptsMade
        BY <1>1, <2>3, <2>5 DEF Removed, Job, TypeInv, TypeOK
      <3>4. row[m].status = "failed"
        BY <1>1, <3>2 DEF RowStory, Agreed
      <3>5. row'[m].status \in Agreed(m)'
        BY <2>1, <3>3, <3>4 DEF Agreed
      <3>6. \A p \in Processors : run[p].msg # m
        BY <1>1, <3>2, QuietIdleJob
      <3> QED
        BY <1>1, <2>1, <2>2, <3>3, <3>5, <3>6 DEF RowStory
    <2> QED
      BY <2>4, <2>5
  <1> QED
    BY <1>4, <1>5, <1>6, <1>7 DEF DeadLetters, BeginRetry, BeginRetryAll, BeginDiscard, AdminStep

\* Every step keeps the strengthening of RowTracksJob.
LEMMA OutcomeNext == OutcomeInv /\ [Next]_vars => OutcomeInv'
  <1> SUFFICES ASSUME OutcomeInv, [Next]_vars PROVE OutcomeInv'
    OBVIOUS
  <1>1. TypeInv' /\ JobInv' /\ LockInv' /\ HoldersInv' /\ AbsentInv'
    BY TypeNext, JobAndLockNext, HoldersNext, AbsentNext DEF OutcomeInv
  <1>2. ASSUME NEW m \in Messages, Quiet(m)' PROVE RowStory(m)'
    <2>1. CASE UNCHANGED vars
      <3>1. Untouched(m) /\ Quiet(m)
        BY <1>2, <2>1, QuietBefore DEF vars, Untouched, OutcomeInv
      <3> QED
        BY <3>1, UntouchedKeeps DEF OutcomeInv, RowInv
    <2> QED
      BY <1>2, <2>1, RowAPI, RowWorker, RowAcks, RowDeadLetters DEF Next
  <1> QED
    BY <1>1, <1>2 DEF OutcomeInv, RowInv

\* The strengthened invariant holds of every reachable state.
LEMMA OutcomeAlways == Spec => []OutcomeInv
  BY OutcomeInit, OutcomeNext, PTL DEF Spec

(* The status a client reads agrees with the state of the message's job at *)
(* every step of every handler, unless a row write, a lock or the          *)
(* enqueueing failed or a dead-letter request lost a race.                 *)
THEOREM RowFollowsJob == Spec => []RowTracksJob
  <1>1. ASSUME OutcomeInv, NEW m \in Messages, Quiet(m), job[m].state = "active"
        PROVE  row[m].status \in Agreed(m)
    <2>1. PICK p \in Processors : run[p].msg = m
      BY <1>1 DEF OutcomeInv, LockInv, Locked, Quiet, Only
    <2>2. row[m].status \in DuringRun(p)
      BY <1>1, <2>1 DEF OutcomeInv, RowInv, RowStory
    <2> QED
      BY <1>1, <2>1, <2>2 DEF Agreed
  <1>2. OutcomeInv => RowTracksJob
    BY <1>1 DEF OutcomeInv, RowInv, RowStory, RowTracksJob, Quiet
  <1> QED
    BY <1>2, OutcomeAlways, PTL

-----------------------------------------------------------------------------
(* ImplementsLifecycle: under the refinement mapping ClientView, the       *)
(* initial states are initial states of MessageLifecycle and every step is *)
(* a step of it or changes nothing a client sees.                          *)

\* What a client sees before and after a step.
LEMMA Views ==
  ASSUME NEW m \in Messages
  PROVE  /\ ClientView[m] = IF Quiet(m) THEN row[m].status ELSE "disturbed"
         /\ ClientView'[m] = IF Quiet(m)' THEN row'[m].status ELSE "disturbed"
  BY DEF ClientView, Quiet

\* Nothing visible happens.
LEMMA LifecycleStays ==
  ASSUME \A n \in Messages : /\ Quiet(n)' <=> Quiet(n)
                             /\ Quiet(n) => row'[n].status = row[n].status
  PROVE  UNCHANGED ClientView
  BY DEF ClientView, Quiet

\* One row moves: if its message is quiet, the client sees the move.
LEMMA LifecycleMoves ==
  ASSUME NEW m \in Messages, NEW from, NEW to,
         \A n \in Messages : Quiet(n)' <=> Quiet(n),
         \A n \in Messages \ {m} : row'[n].status = row[n].status,
         Quiet(m) => row[m].status \in from, row'[m].status = to
  PROVE  Lifecycle!Move(m, from, to) \/ UNCHANGED ClientView
  <1>1. CASE Quiet(m)
    <2>1. ClientView[m] \in from
      BY <1>1, Views
    <2>2. ClientView' = [ClientView EXCEPT ![m] = to]
      BY <1>1 DEF ClientView, Quiet
    <2> QED
      BY <2>1, <2>2 DEF Lifecycle!Move
  <1>2. CASE ~Quiet(m)
    BY <1>2 DEF ClientView, Quiet
  <1> QED
    BY <1>1, <1>2

\* A fault or a lost race: the client is told nothing more about the messages it hits.
LEMMA LifecycleDisturbs ==
  ASSUME TypeInv, NEW M, NEW kind \in Mishap \ {"answer", "event"}, Suffer(M, kind) \/ Fault(M, kind),
         \A n \in Messages \ M : row'[n].status = row[n].status
  PROVE  Lifecycle!Next
  <1> DEFINE S == M \cap Messages
  <1>1. \A n \in Messages : IF n \in S THEN ~Quiet(n)' ELSE Quiet(n)' <=> Quiet(n)
    BY SufferOnly, FaultEndsQuiet DEF Quiet, Only
  <1>2. ClientView' = [n \in Messages |-> IF n \in S THEN "disturbed" ELSE ClientView[n]]
    BY <1>1 DEF ClientView, Quiet
  <1>3. \A n \in Messages : ClientView[n] \in Lifecycle!Status
    BY DEF ClientView, TypeInv, TypeOK, Row, MessageStatus, Lifecycle!Status
  <1>4. Lifecycle!Disturb(S)
    BY <1>2, <1>3 DEF Lifecycle!Disturb, Lifecycle!MoveAll
  <1> QED
    BY <1>4 DEF Lifecycle!Next

\* A hidden answer, a lost webhook and a step without a fault disturb nobody.
LEMMA QuietKept ==
  ASSUME TypeInv,
         \/ NoFault \/ UNCHANGED mishaps
         \/ \E M, kind : kind \in {"answer", "event"} /\ Fault(M, kind)
  PROVE  \A n \in Messages : Quiet(n)' <=> Quiet(n)
  BY DEF NoFault, Fault, Suffer, Quiet, Only, TypeInv, TypeOK

\* A step the client sees nothing of, or one of the lifecycle.
Seen == Lifecycle!Next \/ UNCHANGED ClientView

\* The moves of the lifecycle, one by one.
LEMMA LifecycleSteps ==
  ASSUME NEW m \in Messages
  PROVE  /\ Lifecycle!Move(m, {"scheduled", "queued", "failed"}, "processing") => Seen
         /\ Lifecycle!Move(m, {"processing"}, "sent") => Seen
         /\ Lifecycle!Move(m, {"processing"}, "queued") => Seen
         /\ Lifecycle!Move(m, {"processing"}, "failed") => Seen
         /\ Lifecycle!Move(m, {"sent"}, "delivered") => Seen
         /\ Lifecycle!Move(m, {"failed"}, "queued") => Seen
  BY DEF Seen, Lifecycle!Next, Lifecycle!Start, Lifecycle!Succeed, Lifecycle!TryLater,
         Lifecycle!GiveUp, Lifecycle!Deliver, Lifecycle!Reopen

\* The API's steps: a batch is accepted at once, or disturbed as a whole.
LEMMA SeenAPI ==
  ASSUME OutcomeInv, API
  PROVE  Seen
  <1> USE DEF OutcomeInv, bounds
  <1>1. ASSUME NEW S \in SUBSET Messages, NEW delayed \in BOOLEAN, Persist(S, delayed) PROVE Seen
    <2> DEFINE first == InitialStatus(delayed)
    <2>1. first \in {"scheduled", "queued"}
      BY DEF InitialStatus
    <2>2. \A n \in S : row[n].status = "absent" /\ mishaps[n] = {}
      BY <1>1 DEF Persist, AbsentInv
    <2>3. \A n \in S : ClientView[n] = "absent"
      BY <2>2, Views DEF Quiet, Only
    <2>4. \A n \in Messages : row'[n].status = IF n \in S THEN first ELSE row[n].status
      BY <1>1 DEF Persist, TypeInv, TypeOK, Row
    <2>5. ClientView' = [n \in Messages |-> IF n \in S THEN first ELSE ClientView[n]]
      BY <1>1, <2>2, <2>4 DEF Persist, ClientView, Only
    <2>6. Lifecycle!Accept(S)
      BY <2>1, <2>3, <2>5 DEF Lifecycle!Accept, Lifecycle!MoveAll
    <2> QED
      BY <2>6 DEF Seen, Lifecycle!Next
  <1>2. ASSUME NEW S \in pending, Enqueue(S) PROVE Seen
    BY <1>2, QuietKept, LifecycleStays DEF Enqueue, Seen
  <1>3. ASSUME NEW S \in pending, EnqueueFails(S) PROVE Seen
    BY <1>3, LifecycleDisturbs DEF EnqueueFails, Mishap, Seen
  <1> QED
    BY <1>1, <1>2, <1>3 DEF API, Send, SendBulk

\* A handler moves its row from where the story says it is.
LEMMA SeenProcessStep ==
  ASSUME OutcomeInv, NEW p \in Processors, ProcessStep(p)
  PROVE  Seen
  <1> USE DEF OutcomeInv, bounds
  <1>0. PICK m \in Messages : run[p].msg = m
    BY DEF ProcessStep, MarkProcessing, ProviderAccepts, ProviderRefuses, AnswerLost,
       RecordSent, AnnounceSent, CatchError, AnnounceFailed, Return, Rethrow,
       TypeInv, BusyHandlersHoldAMessage, At
  <1>1. row[m] \in Row /\ (Quiet(m) => row[m].status \in DuringRun(p))
    BY <1>0 DEF RowInv, RowStory, TypeInv, TypeOK
  <1>2. "db" \in Mishap \ {"answer", "event"}
    BY DEF Mishap
  <1>3. ASSUME NEW status, UpdateThrows(m, status) PROVE Seen
    <2>1. \A n \in Messages \ {m} : row'[n].status = row[n].status
      BY <1>3, UpdateWrites
    <2> QED
      BY <1>2, <1>3, <2>1, LifecycleDisturbs DEF UpdateThrows, Seen
  <1>4. ASSUME NEW status, Update(m, status)
        PROVE  row'[m].status = status /\ \A n \in Messages \ {m} : row'[n].status = row[n].status
    BY <1>1, <1>4 DEF Update, Row, TypeInv, TypeOK
  <1>5. CASE MarkProcessing(p)
    <2>1. CASE NoFault /\ Update(m, "processing")
      <3>1. Quiet(m) => row[m].status \in {"scheduled", "queued", "failed"}
        BY <1>1, <1>5 DEF MarkProcessing, At, DuringRun, BeforeRun
      <3>2. Lifecycle!Move(m, {"scheduled", "queued", "failed"}, "processing") \/ UNCHANGED ClientView
        BY <1>4, <2>1, <3>1, QuietKept, LifecycleMoves
      <3> QED
        BY <3>2, LifecycleSteps DEF Seen
    <2> QED
      BY <1>0, <1>3, <1>5, <2>1 DEF MarkProcessing
  <1>6. CASE ProviderAccepts(p) \/ ProviderRefuses(p) \/ AnswerLost(p) \/ AnnounceSent(p)
             \/ AnnounceFailed(p) \/ Return(p) \/ Rethrow(p)
    <2>1. UNCHANGED row
      BY <1>6 DEF ProviderAccepts, ProviderRefuses, AnswerLost, AnnounceSent, AnnounceFailed,
         Return, Rethrow, Finish
    <2>2. \A n \in Messages : Quiet(n)' <=> Quiet(n)
      BY <1>6, QuietKept DEF ProviderAccepts, ProviderRefuses, AnswerLost, AnnounceSent,
         AnnounceFailed, Return, Rethrow, Finish, Dispatch
    <2> QED
      BY <2>1, <2>2, LifecycleStays DEF Seen
  <1>7. CASE RecordSent(p)
    <2>1. StoreSent(p) => /\ row'[m].status = "sent"
                          /\ \A n \in Messages \ {m} : row'[n].status = row[n].status
      BY <1>0 DEF StoreSent, TypeInv, TypeOK
    <2>2. CASE NoFault /\ StoreSent(p)
      <3>1. Quiet(m) => row[m].status \in {"processing"}
        BY <1>1, <1>7 DEF RecordSent, At, DuringRun
      <3>2. Lifecycle!Move(m, {"processing"}, "sent") \/ UNCHANGED ClientView
        BY <2>1, <2>2, <3>1, QuietKept, LifecycleMoves
      <3> QED
        BY <3>2, LifecycleSteps DEF Seen
    <2>3. CASE Fault({m}, "db") /\ (UNCHANGED row \/ StoreSent(p))
      <3>1. \A n \in Messages \ {m} : row'[n].status = row[n].status
        BY <2>1, <2>3
      <3> QED
        BY <1>2, <2>3, <3>1, LifecycleDisturbs DEF Seen
    <2> QED
      BY <1>0, <1>7, <2>2, <2>3 DEF RecordSent
  <1>8. CASE CatchError(p)
    <2> DEFINE status == IF LastAttempt(p) THEN "failed" ELSE "queued"
    <2>1. CASE NoFault /\ Update(m, status)
      <3>1. Quiet(m) => row[m].status \in {"processing"}
        BY <1>1, <1>8 DEF CatchError, At, DuringRun
      <3>2. Lifecycle!Move(m, {"processing"}, status) \/ UNCHANGED ClientView
        BY <1>4, <2>1, <3>1, QuietKept, LifecycleMoves
      <3> QED
        BY <3>2, LifecycleSteps DEF Seen
    <2> QED
      BY <1>0, <1>3, <1>8, <2>1 DEF CatchError
  <1> QED
    BY <1>5, <1>6, <1>7, <1>8 DEF ProcessStep

\* Clocks and new runs show nothing, failing workers disturb what they held.
LEMMA SeenWorker ==
  ASSUME OutcomeInv, Worker
  PROVE  Seen
  <1> USE DEF OutcomeInv, bounds
  <1>1. ASSUME UNCHANGED <<row, mishaps>> PROVE Seen
    BY <1>1, QuietKept, LifecycleStays DEF Seen
  <1>2. ASSUME NEW M, Fault(M, "lock"), UNCHANGED row PROVE Seen
    <2>1. "lock" \in Mishap \ {"answer", "event"}
      BY DEF Mishap
    <2> QED
      BY <1>2, <2>1, LifecycleDisturbs DEF Seen
  <1> QED
    BY <1>1, <1>2, SeenProcessStep DEF Worker, Take, Promote, StalledCheck, LoseLock, Crash

\* A delivery ack delivers a sent message, once.
LEMMA SeenAcks ==
  ASSUME OutcomeInv, DeviceAcks
  PROVE  Seen
  <1> USE DEF OutcomeInv, bounds
  <1>1. ASSUME UNCHANGED row, \A n \in Messages : Quiet(n)' <=> Quiet(n) PROVE Seen
    BY <1>1, LifecycleStays DEF Seen
  <1>2. ASSUME NEW a \in Acks, NEW m, NEW id, AckArrives(a, m, id) PROVE Seen
    BY <1>1, <1>2, QuietKept DEF AckArrives
  <1>3. ASSUME NEW a \in Acks, AckLookup(a) \/ AckAnnounce(a) PROVE Seen
    BY <1>1, <1>3, QuietKept DEF AckLookup, AckAnnounce, Dispatch
  <1>4. ASSUME NEW a \in Acks, AckUpdate(a) PROVE Seen
    <2> DEFINE m == ack[a].msg
    <2>1. m \in Messages /\ row[m] \in Row
      BY <1>4 DEF AckUpdate, TypeInv, TypeOK, BusyHandlersHoldAMessage
    <2>2. Quiet(m) => row[m].status \in {"sent", "delivered"}
      BY <1>4, <2>1 DEF AckUpdate, RowInv, RowStory
    <2>3. CASE NoFault /\ Update(m, "delivered")
      <3>1. row'[m].status = "delivered" /\ \A n \in Messages \ {m} : row'[n].status = row[n].status
        BY <2>1, <2>3 DEF Update, Row, TypeInv, TypeOK
      <3>2. \A n \in Messages : Quiet(n)' <=> Quiet(n)
        BY <2>3, QuietKept
      <3>3. CASE row[m].status = "delivered"
        BY <3>1, <3>2, <3>3, LifecycleStays DEF Seen
      <3>4. CASE row[m].status # "delivered"
        <4>1. Lifecycle!Move(m, {"sent"}, "delivered") \/ UNCHANGED ClientView
          BY <2>1, <2>2, <3>1, <3>2, <3>4, LifecycleMoves
        <4> QED
          BY <2>1, <4>1, LifecycleSteps DEF Seen
      <3> QED
        BY <3>3, <3>4
    <2>4. CASE UpdateThrows(m, "delivered")
      <3>1. \A n \in Messages \ {m} : row'[n].status = row[n].status
        BY <2>1, <2>4, UpdateWrites
      <3> QED
        BY <2>4, <3>1, LifecycleDisturbs DEF UpdateThrows, Mishap, Seen
    <2> QED
      BY <1>4, <2>3, <2>4 DEF AckUpdate
  <1> QED
    BY <1>2, <1>3, <1>4 DEF DeviceAcks, AckStep

\* A dead-letter retry reopens a failed message, a discard shows nothing.
LEMMA SeenDeadLetters ==
  ASSUME OutcomeInv, DeadLetters
  PROVE  Seen
  <1> USE DEF OutcomeInv, bounds
  <1>1. ASSUME UNCHANGED <<row, mishaps>> PROVE Seen
    BY <1>1, QuietKept, LifecycleStays DEF Seen
  <1>2. ASSUME NEW a \in Admins, RemoveJob(a) PROVE Seen
    <2>1. "discard" \in Mishap \ {"answer", "event"}
      BY DEF Mishap
    <2>2. PICK n : UNCHANGED mishaps \/ Suffer({n}, "discard")
      BY <1>2 DEF RemoveJob
    <2>3. UNCHANGED row
      BY <1>2 DEF RemoveJob
    <2> QED
      BY <1>1, <2>1, <2>2, <2>3, LifecycleDisturbs DEF Seen
  <1>3. ASSUME NEW a \in Admins, MarkRequeued(a) PROVE Seen
    <2> DEFINE m == admin[a].cur
    <2>1. m \in Messages /\ row[m] \in Row
      BY <1>3 DEF MarkRequeued, TypeInv, TypeOK, AdminOp
    <2>2. /\ "db" \in Mishap \ {"answer", "event"}
          /\ "requeue" \in Mishap \ {"answer", "event"}
      BY DEF Mishap
    <2>3. \A n \in Messages \ {m} : row'[n].status = row[n].status
      BY <1>3, <2>1, UpdateWrites DEF MarkRequeued
    <2>4. CASE UpdateThrows(m, "queued") \/ Suffer({m}, "requeue")
      BY <2>2, <2>3, <2>4, LifecycleDisturbs DEF UpdateThrows, Seen
    <2>5. CASE Update(m, "queued") /\ job[m].state = "waiting" /\ UNCHANGED mishaps
      <3>1. row'[m].status = "queued"
        BY <2>1, <2>5 DEF Update, Row, TypeInv, TypeOK
      <3>2. \A n \in Messages : Quiet(n)' <=> Quiet(n)
        BY <2>5, QuietKept
      <3>3. Quiet(m) => row[m].status \in {"queued", "failed"}
        <4>1. Quiet(m) => row[m].status \in Agreed(m) /\ job[m].attemptsMade > 0
          BY <2>1, <2>5 DEF RowInv, RowStory
        <4>2. job[m].attemptsMade > 0 => Agreed(m) \subseteq {"queued", "failed"}
          BY <2>1, <2>5 DEF Agreed, BeforeRun, TypeInv, TypeOK, Job
        <4> QED
          BY <4>1, <4>2
      <3>4. CASE row[m].status = "queued"
        BY <2>3, <3>1, <3>2, <3>4, LifecycleStays DEF Seen
      <3>5. CASE row[m].status # "queued"
        <4>1. Lifecycle!Move(m, {"failed"}, "queued") \/ UNCHANGED ClientView
          BY <2>1, <2>3, <3>1, <3>2, <3>3, <3>5, LifecycleMoves
        <4> QED
          BY <2>1, <4>1, LifecycleSteps DEF Seen
      <3> QED
        BY <3>4, <3>5
    <2> QED
      BY <1>3, <2>4, <2>5 DEF MarkRequeued
  <1> QED
    BY <1>1, <1>2, <1>3
    DEF DeadLetters, BeginRetry, BeginRetryAll, BeginDiscard, Begin, AdminStep, Reprocess

(* Whatever runs concurrently, the status of a message moves only along    *)
(* the lifecycle: never back from sent or delivered, never to sent without *)
(* processing, never to failed but from a last attempt.                    *)
THEOREM StatusFollowsLifecycle == Spec => ImplementsLifecycle
  <1>1. Init => Lifecycle!Init
    BY DEF Init, Lifecycle!Init, ClientView, Only
  <1>2. OutcomeInv /\ [Next]_vars => [Lifecycle!Next]_ClientView
    <2>1. OutcomeInv /\ Next => Seen
      BY SeenAPI, SeenWorker, SeenAcks, SeenDeadLetters DEF Next
    <2>2. UNCHANGED vars => UNCHANGED ClientView
      BY DEF vars, ClientView, Only
    <2> QED
      BY <2>1, <2>2 DEF Seen
  <1> QED
    BY <1>1, <1>2, OutcomeAlways, PTL DEF Spec, ImplementsLifecycle, Lifecycle!Spec

-----------------------------------------------------------------------------
(* EventsMatchOutcome, inductive together with OutcomeInv: the events of a *)
(* message change only where its run or an ack handler announces, and what *)
(* they are compared with changes only in the same run.                    *)

Hushed(m) == Only({"answer"}, m)

EventStory(m) ==
  /\ events[m]["message.sent"] = IF Announced(m) THEN 1 ELSE 0
  /\ Announced(m) \/ events[m]["message.failed"] = FinalFailures(m)
  /\ events[m]["message.delivered"] > 0 => row[m].status = "delivered"

EventsInv == OutcomeInv /\ EventsMatchOutcome

\* A step that announces nothing.
EventFrame(m) ==
  /\ events'[m] = events[m]
  /\ Announced(m)' <=> Announced(m)
  /\ Announced(m) \/ FinalFailures(m)' = FinalFailures(m)

\* A quiet message that was delivered stays delivered: no move of the lifecycle leads away.
LEMMA DeliveredStays ==
  ASSUME OutcomeInv, [Next]_vars, NEW m \in Messages, Quiet(m)', row[m].status = "delivered"
  PROVE  row'[m].status = "delivered"
  <1>1. CASE UNCHANGED vars
    BY <1>1 DEF vars
  <1>2. CASE Next
    <2>1. Quiet(m) /\ ClientView[m] = "delivered" /\ ClientView'[m] = row'[m].status
      BY QuietBefore, Views DEF OutcomeInv
    <2>2. row'[m].status # "disturbed"
      BY TypeNext DEF OutcomeInv, TypeInv, TypeOK, Row, MessageStatus
    <2>3. CASE UNCHANGED ClientView
      BY <2>1, <2>3
    <2>4. CASE Lifecycle!Next
      <3>1. ASSUME NEW S \in SUBSET Messages, Lifecycle!Accept(S) \/ Lifecycle!Disturb(S)
            PROVE  ClientView'[m] \in {"delivered", "disturbed"}
        BY <2>1, <3>1 DEF Lifecycle!Accept, Lifecycle!Disturb, Lifecycle!MoveAll
      <3>2. ASSUME NEW n, NEW from, NEW to, Lifecycle!Move(n, from, to), "delivered" \notin from
            PROVE  ClientView'[m] = "delivered"
        BY <2>1, <3>2 DEF Lifecycle!Move, ClientView
      <3> QED
        BY <2>1, <2>2, <2>4, <3>1, <3>2 DEF Lifecycle!Next, Lifecycle!Start, Lifecycle!Succeed,
           Lifecycle!TryLater, Lifecycle!GiveUp, Lifecycle!Deliver, Lifecycle!Reopen
    <2> QED
      BY <1>2, <2>3, <2>4, SeenAPI, SeenWorker, SeenAcks, SeenDeadLetters DEF Next, Seen
  <1> QED
    BY <1>1, <1>2

\* A message about which nothing is announced keeps its events' story.
LEMMA EventFrameKeeps ==
  ASSUME OutcomeInv, [Next]_vars, NEW m \in Messages, Hushed(m)', EventFrame(m), EventStory(m)
  PROVE  EventStory(m)'
  <1>1. Quiet(m)' /\ Quiet(m)
    BY QuietBefore DEF Hushed, Only, Quiet, OutcomeInv
  <1>2. row[m].status = "delivered" => row'[m].status = "delivered"
    BY <1>1, DeliveredStays
  <1> QED
    BY <1>2 DEF EventFrame, EventStory

\* Untouched messages and jobs that only wait announce nothing.
LEMMA EventsWait ==
  ASSUME NEW m \in Messages, events'[m] = events[m],
         \/ Untouched(m)
         \/ UNCHANGED <<job, run>>
         \/ /\ \A p \in Processors :
                  /\ run[p].msg # m
                  /\ run'[p].msg = m => run'[p].step \notin {"complete", "rethrow"}
            /\ job'[m].state = "completed" <=> job[m].state = "completed"
            /\ job'[m].attemptsMade = job[m].attemptsMade
  PROVE  EventFrame(m)
  <1>1. CASE Untouched(m)
    <2>1. job'[m] = job[m] /\ \A p \in Processors : run'[p].msg = m \/ run[p].msg = m => run'[p] = run[p]
      BY <1>1 DEF Untouched
    <2>2. Announced(m)' <=> Announced(m)
      BY <2>1 DEF Announced, At
    <2>3. (\E p \in Processors : run'[p].msg = m /\ At(p, "rethrow")' /\ LastAttempt(p)')
          <=> \E p \in Processors : run[p].msg = m /\ At(p, "rethrow") /\ LastAttempt(p)
      BY <2>1 DEF At, LastAttempt
    <2> QED
      BY <2>1, <2>2, <2>3 DEF EventFrame, FinalFailures
  <1>2. CASE UNCHANGED <<job, run>>
    BY <1>2 DEF EventFrame, Announced, FinalFailures, At, LastAttempt
  <1>3. CASE /\ \A p \in Processors :
                  /\ run[p].msg # m
                  /\ run'[p].msg = m => run'[p].step \notin {"complete", "rethrow"}
             /\ job'[m].state = "completed" <=> job[m].state = "completed"
             /\ job'[m].attemptsMade = job[m].attemptsMade
    BY <1>3 DEF EventFrame, Announced, FinalFailures, At
  <1> QED
    BY <1>1, <1>2, <1>3

\* A run of a hushed message is compared through its own step.
LEMMA EventsOfRun ==
  ASSUME NEW p \in Processors, NEW m \in Messages, run[p].msg = m,
         \A q \in Processors \ {p} : run[q].msg # m, job[m].state = "active"
  PROVE  /\ Announced(m) <=> At(p, "complete")
         /\ FinalFailures(m) =
              (IF job[m].attemptsMade >= Attempts THEN job[m].attemptsMade - (Attempts - 1) ELSE 0)
              + (IF At(p, "rethrow") /\ LastAttempt(p) THEN 1 ELSE 0)
  BY DEF Announced, FinalFailures

\* The same after a step of the run.
LEMMA EventsAfterStep ==
  ASSUME NEW p \in Processors, NEW m \in Messages, run'[p].msg = m,
         \A q \in Processors \ {p} : run'[q].msg # m, job'[m].state = "active"
  PROVE  /\ Announced(m)' <=> At(p, "complete")'
         /\ FinalFailures(m)' =
              (IF job'[m].attemptsMade >= Attempts THEN job'[m].attemptsMade - (Attempts - 1) ELSE 0)
              + (IF At(p, "rethrow")' /\ LastAttempt(p)' THEN 1 ELSE 0)
  BY DEF Announced, FinalFailures

\* A run announces once what it did.
LEMMA EventProcessStep ==
  ASSUME EventsInv, [Next]_vars, NEW p \in Processors, ProcessStep(p), NEW m \in Messages,
         run[p].msg = m, Hushed(m)'
  PROVE  EventStory(m)'
  <1> USE DEF EventsInv, OutcomeInv, bounds
  <1>1. Quiet(m) /\ RowStory(m) /\ Hushed(m) /\ EventStory(m)
    BY QuietBefore DEF Hushed, RowInv, EventsMatchOutcome, EventStory
  <1>2. /\ job[m].state = "active" /\ run[p].locked
        /\ \A q \in Processors \ {p} : run[q].msg # m
    BY <1>1, QuietRunIsAlone
  <1>3. /\ job[m] \in Job /\ job[m].attemptsMade \in Nat /\ run[p].attempt = job[m].attemptsMade
        /\ (At(p, "announceFailed") => LastAttempt(p))
        /\ row[m].status \in DuringRun(p)
    BY <1>1 DEF RowStory, TypeInv, TypeOK, Job
  <1>4. \A M, kind : m \in M /\ kind \in {"db", "event"} => ~Fault(M, kind)
    BY DEF Fault, Suffer, Hushed, Only
  <1>5. /\ Announced(m) <=> At(p, "complete")
        /\ FinalFailures(m) =
             (IF job[m].attemptsMade >= Attempts THEN job[m].attemptsMade - (Attempts - 1) ELSE 0)
             + (IF At(p, "rethrow") /\ LastAttempt(p) THEN 1 ELSE 0)
    BY <1>2, EventsOfRun
  <1>6. ASSUME NEW step, run'[p].step = step, run'[p].msg = m, run'[p].attempt = run[p].attempt,
               \A q \in Processors \ {p} : run'[q] = run[q], UNCHANGED job
        PROVE  /\ Announced(m)' <=> step = "complete"
               /\ FinalFailures(m)' =
                    (IF job[m].attemptsMade >= Attempts THEN job[m].attemptsMade - (Attempts - 1) ELSE 0)
                    + (IF step = "rethrow" /\ LastAttempt(p) THEN 1 ELSE 0)
    <2>1. (At(p, "complete")' <=> step = "complete") /\ (At(p, "rethrow")' <=> step = "rethrow")
          /\ (LastAttempt(p)' <=> LastAttempt(p))
      BY <1>6 DEF At, LastAttempt
    <2> QED
      BY <1>2, <1>6, <2>1, EventsAfterStep
  <1>7. ASSUME NEW step, Goto(p, step), UNCHANGED job
        PROVE  /\ Announced(m)' <=> step = "complete"
               /\ FinalFailures(m)' =
                    (IF job[m].attemptsMade >= Attempts THEN job[m].attemptsMade - (Attempts - 1) ELSE 0)
                    + (IF step = "rethrow" /\ LastAttempt(p) THEN 1 ELSE 0)
    BY <1>6, <1>7, GotoMoves
  <1>8. CASE MarkProcessing(p) \/ ProviderRefuses(p) \/ AnswerLost(p) \/ RecordSent(p)
    <2>1. /\ UNCHANGED <<job, events>> /\ ~At(p, "complete") /\ ~At(p, "rethrow")
          /\ \E step \in {"send", "catch", "announceSent"} : Goto(p, step)
      BY <1>4, <1>8 DEF MarkProcessing, UpdateThrows, ProviderRefuses, AnswerLost, RecordSent, At
    <2>2. EventFrame(m)
      BY <1>5, <1>7, <2>1 DEF EventFrame
    <2> QED
      BY <1>1, <2>2, EventFrameKeeps
  <1>9. CASE ProviderAccepts(p)
    <2>1. /\ run'[p].step = "record" /\ run'[p].msg = m /\ run'[p].attempt = run[p].attempt
          /\ \A q \in Processors \ {p} : run'[q] = run[q]
          /\ UNCHANGED <<job, events>> /\ ~At(p, "complete") /\ ~At(p, "rethrow")
      BY <1>9 DEF ProviderAccepts, At, TypeInv, TypeOK, Run
    <2>2. EventFrame(m)
      BY <1>5, <1>6, <2>1 DEF EventFrame
    <2> QED
      BY <1>1, <2>2, EventFrameKeeps
  <1>10. CASE CatchError(p)
    <2>1. /\ UNCHANGED <<job, events>> /\ ~At(p, "complete") /\ ~At(p, "rethrow")
          /\ Goto(p, IF LastAttempt(p) THEN "announceFailed" ELSE "rethrow")
      BY <1>4, <1>10 DEF CatchError, UpdateThrows, At
    <2>2. EventFrame(m)
      BY <1>5, <1>7, <2>1 DEF EventFrame
    <2> QED
      BY <1>1, <2>2, EventFrameKeeps
  <1>11. ASSUME NEW e \in WebhookEvent, Dispatch(m, e)
         PROVE  /\ events'[m][e] = events[m][e] + 1
                /\ \A f \in WebhookEvent \ {e} : events'[m][f] = events[m][f]
    BY <1>4, <1>11 DEF Dispatch, TypeInv, TypeOK
  <1>12. CASE AnnounceSent(p)
    <2>1. Dispatch(m, "message.sent") /\ Goto(p, "complete") /\ At(p, "announceSent") /\ UNCHANGED <<row, job>>
      BY <1>12 DEF AnnounceSent
    <2>2. /\ events'[m]["message.sent"] = events[m]["message.sent"] + 1
          /\ events'[m]["message.delivered"] = events[m]["message.delivered"]
      BY <1>11, <2>1 DEF WebhookEvent
    <2>3. Announced(m)' /\ ~Announced(m)
      BY <1>5, <1>7, <2>1 DEF At
    <2> QED
      BY <1>1, <2>1, <2>2, <2>3 DEF EventStory
  <1>13. CASE AnnounceFailed(p)
    <2>1. Dispatch(m, "message.failed") /\ Goto(p, "rethrow") /\ At(p, "announceFailed") /\ UNCHANGED <<row, job>>
      BY <1>13 DEF AnnounceFailed
    <2>2. /\ events'[m]["message.failed"] = events[m]["message.failed"] + 1
          /\ events'[m]["message.sent"] = events[m]["message.sent"]
          /\ events'[m]["message.delivered"] = events[m]["message.delivered"]
      BY <1>11, <2>1 DEF WebhookEvent
    <2>3. ~Announced(m)' /\ ~Announced(m) /\ FinalFailures(m)' = FinalFailures(m) + 1
      BY <1>3, <1>5, <1>7, <2>1, AttemptsAssumption DEF At
    <2> QED
      BY <1>1, <2>1, <2>2, <2>3 DEF EventStory
  <1>14. ASSUME NEW step, NEW outcome, Finish(p, step, outcome)
         PROVE  /\ job'[m] = outcome /\ UNCHANGED <<row, events>> /\ \A q \in Processors : run'[q].msg # m
    BY <1>2, <1>14, NoMessageAssumption DEF Finish, IdleRun, TypeInv, TypeOK
  <1>15. CASE Return(p)
    <2>1. Finish(p, "complete", Completed(job[m])) /\ At(p, "complete")
      BY <1>15 DEF Return
    <2>2. Completed(job[m]).state = "completed"
      BY <1>3 DEF Completed, Job
    <2>3. Announced(m)' /\ Announced(m)
      BY <1>5, <1>14, <2>1, <2>2 DEF Announced
    <2> QED
      BY <1>1, <1>14, <2>1, <2>3 DEF EventStory
  <1>16. CASE Rethrow(p)
    <2> DEFINE outcome == FailedAttempt(job[m], run[p].attempt)
    <2>1. Finish(p, "rethrow", outcome) /\ At(p, "rethrow") /\ ~At(p, "complete")
      BY <1>16 DEF Rethrow, At
    <2>2. outcome.state # "completed" /\ outcome.attemptsMade = job[m].attemptsMade + 1
      BY <1>3 DEF FailedAttempt, Job
    <2>3. ~Announced(m)' /\ ~Announced(m)
      BY <1>5, <1>14, <2>1, <2>2 DEF Announced
    <2>4. FinalFailures(m)' = IF job[m].attemptsMade + 1 >= Attempts
                              THEN job[m].attemptsMade + 1 - (Attempts - 1) ELSE 0
      <3>1. /\ job'[m].attemptsMade = job[m].attemptsMade + 1
            /\ ~ \E q \in Processors : run'[q].msg = m /\ At(q, "rethrow")' /\ LastAttempt(q)'
        BY <1>14, <2>1, <2>2
      <3> QED
        BY <1>3, <3>1, AttemptsAssumption DEF FinalFailures
    <2>5. FinalFailures(m)' = FinalFailures(m)
      BY <1>3, <1>5, <2>1, <2>4, AttemptsAssumption DEF LastAttempt
    <2> QED
      BY <1>1, <1>14, <2>1, <2>3, <2>5 DEF EventStory
  <1> QED
    BY <1>8, <1>9, <1>10, <1>12, <1>13, <1>15, <1>16 DEF ProcessStep

\* Nobody else announces anything, but the ack that delivered the row.
LEMMA EventOthers ==
  ASSUME EventsInv, Next, NEW m \in Messages, Hushed(m)',
         ~ \E p \in Processors : ProcessStep(p) /\ run[p].msg = m
  PROVE  EventStory(m)'
  <1> USE DEF EventsInv, OutcomeInv, bounds
  <1>1. /\ Quiet(m) /\ Quiet(m)' /\ RowStory(m) /\ Hushed(m) /\ EventStory(m)
        /\ job[m] \in Job
    <2>1. Hushed(m) /\ Quiet(m) /\ Quiet(m)' /\ job[m] \in Job
      BY QuietBefore DEF Hushed, Only, Quiet, TypeInv, TypeOK
    <2> QED
      BY <2>1 DEF RowInv, EventsMatchOutcome, EventStory, Hushed
  <1>2. ASSUME EventFrame(m) PROVE EventStory(m)'
    BY <1>1, <1>2, EventFrameKeeps
  <1>3. ASSUME events'[m] = events[m], Untouched(m) \/ UNCHANGED <<job, run>> PROVE EventStory(m)'
    BY <1>2, <1>3, EventsWait
  <1>4. ASSUME events'[m] = events[m], job[m].state # "active",
               \A p \in Processors : run'[p].msg = m /\ run[p].msg # m => run'[p].step \notin {"complete", "rethrow"},
               job'[m].state = "completed" <=> job[m].state = "completed",
               job'[m].attemptsMade = job[m].attemptsMade
        PROVE  EventStory(m)'
    <2>1. \A p \in Processors : run[p].msg # m
      BY <1>1, <1>4, QuietIdleJob
    <2> QED
      BY <1>2, <1>4, <2>1, EventsWait
  <1>5. CASE API
    <2>1. ASSUME NEW S \in pending, Enqueue(S) PROVE EventStory(m)'
      <3>1. UNCHANGED <<events, run>>
        BY <2>1 DEF Enqueue
      <3>2. CASE m \in S
        <4>1. job[m].state = "none" /\ job[m].attemptsMade = 0
          BY <1>1, <2>1, <3>2 DEF JobInv, RowStory
        <4>2. job'[m].state # "completed" /\ job'[m].attemptsMade = 0
          BY <2>1, <3>2 DEF Enqueue, AddedJob
        <4> QED
          BY <1>4, <3>1, <4>1, <4>2
      <3>3. CASE m \notin S
        <4>1. m \in UNION pending' <=> m \in UNION pending
          BY <2>1, <3>3 DEF Enqueue
        <4>2. Untouched(m)
          BY <2>1, <3>3, <4>1 DEF Untouched, Enqueue
        <4> QED
          BY <1>3, <3>1, <4>2
      <3> QED
        BY <3>2, <3>3
    <2> QED
      BY <1>3, <1>5, <2>1 DEF API, Send, SendBulk, Persist, EnqueueFails
  <1>6. CASE Worker
    <2>1. ASSUME NEW p \in Processors, ProcessStep(p), run[p].msg # m PROVE EventStory(m)'
      <3>1. Untouched(m)
        BY <2>1, HandlerTouches
      <3> QED
        BY <1>3, <3>1 DEF Untouched
    <2>2. ASSUME NEW p \in Processors, NEW n \in Messages, Take(p, n) PROVE EventStory(m)'
      <3>1. /\ UNCHANGED <<row, ack, admin, events, pending>> /\ run[p].msg = NoMessage
            /\ run'[p].msg = n /\ run'[p].step = "start" /\ \A q \in Processors \ {p} : run'[q] = run[q]
        BY <2>2 DEF Take, HoldersInv, TypeInv, TypeOK
      <3>2. CASE n # m
        <4>1. Untouched(m)
          BY <2>2, <3>1, <3>2, NoMessageAssumption DEF Untouched, Take, TypeInv, TypeOK
        <4> QED
          BY <1>3, <3>1, <4>1
      <3>3. CASE n = m
        <4>1. job[m].state = "waiting" /\ job'[m].state = "active" /\ job'[m].attemptsMade = job[m].attemptsMade
          BY <1>1, <2>2, <3>3 DEF Take, Taken, Job, TypeInv, TypeOK
        <4> QED
          BY <1>4, <3>1, <3>3, <4>1
      <3> QED
        BY <3>2, <3>3
    <2>3. ASSUME NEW n \in Messages, Promote(n) PROVE EventStory(m)'
      <3>1. UNCHANGED <<row, pending, run, ack, admin, events>>
        BY <2>3 DEF Promote
      <3>2. CASE n # m
        <4>1. job'[m] = job[m]
          BY <2>3, <3>2 DEF Promote, TypeInv, TypeOK
        <4> QED
          BY <1>3, <3>1, <4>1 DEF Untouched
      <3>3. CASE n = m
        <4>1. job[m].state = "delayed" /\ job'[m].state = "waiting" /\ job'[m].attemptsMade = job[m].attemptsMade
          BY <1>1, <2>3, <3>3 DEF Promote, Promoted, Job, TypeInv, TypeOK
        <4> QED
          BY <1>4, <3>1, <4>1
      <3> QED
        BY <3>2, <3>3
    <2>4. ASSUME NEW n \in Messages, StalledCheck(n) PROVE EventStory(m)'
      <3>1. n # m
        BY <1>1, <2>4 DEF StalledCheck, LockInv, Quiet, Only
      <3>2. Untouched(m)
        BY <2>4, <3>1 DEF Untouched, StalledCheck, TypeInv, TypeOK
      <3> QED
        BY <1>3, <3>2 DEF Untouched
    <2>5. "lock" \in Mishap \ {"answer", "event"}
      BY DEF Mishap
    <2>6. ASSUME NEW p \in Processors, LoseLock(p) PROVE EventStory(m)'
      <3>1. run[p].msg # m
        BY <1>1, <2>5, <2>6, FaultEndsQuiet DEF LoseLock
      <3>2. run'[p].msg = run[p].msg /\ \A q \in Processors \ {p} : run'[q] = run[q]
        BY <2>6 DEF LoseLock, TypeInv, TypeOK, Run
      <3>3. Untouched(m)
        BY <2>6, <3>1, <3>2 DEF Untouched, LoseLock
      <3> QED
        BY <1>3, <3>3 DEF Untouched
    <2>7. ASSUME NEW h \in Hosts, Crash(h) PROVE EventStory(m)'
      <3> DEFINE P == {p \in Processors : HostOf[p] = h}
      <3>1. m \notin {run[p].msg : p \in P} \ {NoMessage}
        BY <1>1, <2>5, <2>7, FaultEndsQuiet DEF Crash
      <3>2. \A p \in P : run[p].msg # m
        BY <3>1, NoMessageAssumption
      <3>3. \A p \in Processors : run'[p] = run[p] \/ (run[p].msg # m /\ run'[p].msg # m)
        BY <2>7, <3>2, NoMessageAssumption DEF Crash, IdleRun
      <3>4. \A a \in Acks : ack'[a].step \in {"update", "announce"} => ack'[a] = ack[a]
        BY <2>7 DEF Crash, IdleAck
      <3>5. Untouched(m)
        BY <2>7, <3>3, <3>4 DEF Untouched, Crash
      <3> QED
        BY <1>3, <3>5 DEF Untouched
    <2> QED
      BY <1>6, <2>1, <2>2, <2>3, <2>4, <2>6, <2>7 DEF Worker
  <1>7. CASE DeviceAcks
    <2>1. UNCHANGED <<job, run>>
      BY <1>7 DEF DeviceAcks, AckArrives, AckStep, AckLookup, AckUpdate, AckAnnounce
    <2>2. ASSUME NEW a \in Acks, AckAnnounce(a) PROVE EventStory(m)'
      <3>1. CASE ack[a].msg # m
        <4>1. events'[m] = events[m]
          BY <2>2, <3>1 DEF AckAnnounce, Dispatch, TypeInv, TypeOK
        <4> QED
          BY <1>3, <2>1, <4>1
      <3>2. CASE ack[a].msg = m
        <4>1. row[m].status = "delivered" /\ UNCHANGED row
          BY <1>1, <2>2, <3>2 DEF AckAnnounce, RowStory
        <4>2. ~Fault({m}, "event")
          BY DEF Fault, Suffer, Hushed, Only
        <4>3. events' = [events EXCEPT ![m]["message.delivered"] = @ + 1]
          BY <2>2, <3>2, <4>2 DEF AckAnnounce, Dispatch
        <4>4. /\ events'[m]["message.sent"] = events[m]["message.sent"]
              /\ events'[m]["message.failed"] = events[m]["message.failed"]
          BY <4>3 DEF TypeInv, TypeOK, WebhookEvent
        <4>5. (Announced(m)' <=> Announced(m)) /\ FinalFailures(m)' = FinalFailures(m)
          BY <2>1 DEF Announced, FinalFailures, At, LastAttempt
        <4> QED
          BY <1>1, <4>1, <4>4, <4>5 DEF EventStory
      <3> QED
        BY <3>1, <3>2
    <2> QED
      BY <1>3, <1>7, <2>1, <2>2 DEF DeviceAcks, AckArrives, AckStep, AckLookup, AckUpdate
  <1>8. CASE DeadLetters
    <2>1. UNCHANGED <<run, events>>
      BY <1>8 DEF DeadLetters, BeginRetry, BeginRetryAll, BeginDiscard, Begin, AdminStep, Reprocess,
         MarkRequeued, RemoveJob
    <2>2. ASSUME NEW n \in Messages, job[n].state = "failed" \/ job[n].state = "removed",
                 job' = [job EXCEPT ![n] = Reprocessed(@)] \/ job' = [job EXCEPT ![n] = Removed(@)]
          PROVE  EventStory(m)'
      <3>1. CASE n = m
        <4>1. job'[m].state \in {"waiting", "removed"} /\ job'[m].attemptsMade = job[m].attemptsMade
          BY <1>1, <2>2, <3>1 DEF Reprocessed, Removed, Job, TypeInv, TypeOK
        <4> QED
          BY <1>4, <2>1, <2>2, <3>1, <4>1
      <3>2. CASE n # m
        <4>1. job'[m] = job[m]
          BY <2>2, <3>2 DEF TypeInv, TypeOK
        <4>2. EventFrame(m)
          BY <2>1, <4>1 DEF EventFrame, Announced, FinalFailures, At, LastAttempt
        <4> QED
          BY <1>2, <4>2
      <3> QED
        BY <3>1, <3>2
    <2>3. ASSUME NEW a \in Admins, NEW n \in Messages, Reprocess(a, n) PROVE EventStory(m)'
      BY <1>3, <2>1, <2>2, <2>3 DEF Reprocess
    <2>4. ASSUME NEW a \in Admins, RemoveJob(a) PROVE EventStory(m)'
      <3>1. PICK n \in admin[a].todo :
              IF Locked(n) THEN UNCHANGED <<job, mishaps>>
              ELSE /\ job' = [job EXCEPT ![n] = Removed(@)]
                   /\ IF job[n].state \in {"failed", "removed"} THEN UNCHANGED mishaps
                      ELSE Suffer({n}, "discard")
        BY <2>4 DEF RemoveJob
      <3>2. n \in Messages
        BY DEF TypeInv, TypeOK, AdminOp
      <3>3. CASE job' = [job EXCEPT ![n] = Removed(@)] /\ n = m
        <4>1. job[n].state \in {"failed", "removed"} \/ UNCHANGED job
          BY <1>1, <3>1, <3>3, FaultEndsQuiet DEF Mishap
        <4> QED
          BY <1>3, <2>1, <2>2, <3>2, <3>3, <4>1
      <3>4. CASE job' = [job EXCEPT ![n] = Removed(@)] /\ n # m
        <4>1. job'[m] = job[m]
          BY <3>4 DEF TypeInv, TypeOK
        <4>2. EventFrame(m)
          BY <2>1, <4>1 DEF EventFrame, Announced, FinalFailures, At, LastAttempt
        <4> QED
          BY <1>2, <4>2
      <3> QED
        BY <1>3, <2>1, <3>1, <3>3, <3>4
    <2> QED
      BY <1>3, <1>8, <2>1, <2>3, <2>4
      DEF DeadLetters, BeginRetry, BeginRetryAll, BeginDiscard, Begin, AdminStep, MarkRequeued
  <1> QED
    BY <1>5, <1>6, <1>7, <1>8 DEF Next

\* No event and no outcome at first.
LEMMA EventsInit == Init => EventsInv
  <1> SUFFICES ASSUME Init, NEW m \in Messages PROVE EventStory(m)
    BY OutcomeInit DEF EventsInv, EventsMatchOutcome, EventStory
  <1>1. ~Announced(m) /\ FinalFailures(m) = 0
    BY AttemptsAssumption, NoMessageAssumption DEF Init, Announced, FinalFailures, NoJob, IdleRun, At
  <1> QED
    BY <1>1 DEF Init, EventStory, WebhookEvent

\* Every step keeps the events in line with the outcome.
LEMMA EventsNext == EventsInv /\ [Next]_vars => EventsInv'
  <1> SUFFICES ASSUME EventsInv, [Next]_vars PROVE EventsInv'
    OBVIOUS
  <1>1. OutcomeInv'
    BY OutcomeNext DEF EventsInv
  <1>2. ASSUME NEW m \in Messages, Hushed(m)' PROVE EventStory(m)'
    <2>1. CASE UNCHANGED vars
      BY <1>2, <2>1 DEF vars, EventsInv, EventsMatchOutcome, EventStory, Hushed, Only, Announced,
         FinalFailures, At, LastAttempt
    <2>2. CASE \E p \in Processors : ProcessStep(p) /\ run[p].msg = m
      BY <1>2, <2>2, EventProcessStep
    <2> QED
      BY <1>2, <2>1, <2>2, EventOthers
  <1> QED
    BY <1>1, <1>2 DEF EventsInv, EventsMatchOutcome, EventStory, Hushed

(* Subscribers hear of each outcome exactly once: one message.sent for a   *)
(* message that was sent, one message.failed each time its attempts were   *)
(* used up, message.delivered only for a row that says delivered.          *)
THEOREM EachOutcomeIsTold == Spec => []EventsMatchOutcome
  <1>1. Spec => []EventsInv
    BY EventsInit, EventsNext, PTL DEF Spec
  <1>2. EventsInv => EventsMatchOutcome
    BY DEF EventsInv
  <1> QED
    BY <1>1, <1>2, PTL
=============================================================================

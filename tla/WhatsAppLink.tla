---------------------------- MODULE WhatsAppLink ----------------------------
(***************************************************************************)
(* How the state of the WhatsApp client reaches the dashboard: the worker  *)
(* writes it, and the pairing QR, to two keys of Redis that expire, at     *)
(* every event of the client and, the status, every 30 s; the API answers  *)
(* with what it finds.  A restart may have the old worker run beside the   *)
(* new one; any worker may die.                                            *)
(*                                                                         *)
(* Time goes in heartbeats of 30 s.  A command sent to Redis is carried    *)
(* out, in order, or fails before the next one.                            *)
(***************************************************************************)
EXTENDS Naturals, Sequences

CONSTANTS
  Workers,
  StatusTtl,   \* STATUS_TTL_SECONDS / HEARTBEAT_MS
  QrTtl,       \* QR_TTL_SECONDS / HEARTBEAT_MS
  MaxEvents,   \* bound: events of the clients
  MaxFaults    \* bound: lost commands and workers that die

ASSUME LinkAssumption ==
  StatusTtl \in Nat \ {0} /\ QrTtl \in Nat \ {0} /\ MaxEvents \in Nat /\ MaxFaults \in Nat

Status == {"disconnected", "qr_required", "connected"}

VARIABLES
  worker,    \* each worker: its process, whether initialize() may still reject,
             \* this.ready, this.status
  wire,      \* the commands each worker has sent to Redis
  key,       \* whatsapp:status and whatsapp:qr, with the lifetime they have left
  beaten,    \* the workers whose interval fired in this period
  \* History and bounds:
  since,     \* periods since a running worker had each status, and since one was ready
  sinceQr,   \* periods since the client last showed a QR
  events, faults

vars == <<worker, wire, key, beaten, since, sinceQr, events, faults>>

Worker == [process : {"none", "up", "stopping", "gone"}, initializing : BOOLEAN,
           ready : BOOLEAN, status : Status]
Command == {<<"status", s>> : s \in Status} \cup {<<"qr">>, <<"clear">>, <<"leave">>}
Absent == [value |-> "absent", ttl |-> 0]

Running(w) == worker[w].process \in {"up", "stopping"}
Old == StatusTtl + QrTtl + 1     \* as far as since and sinceQr count
Shown == Status \cup {"ready"}    \* what since counts for
Shows(new, s) ==
  /\ new.process \in {"up", "stopping"}
  /\ IF s = "ready" THEN new.ready ELSE new.status = s

TypeOK ==
  /\ worker \in [Workers -> Worker]
  /\ \A w \in Workers : \A i \in 1..Len(wire[w]) : wire[w][i] \in Command
  /\ \/ key.status = Absent
     \/ key.status.value \in Status /\ key.status.ttl \in Nat \ {0}
  /\ key.qr \in 0..QrTtl
  /\ beaten \subseteq Workers
  /\ since \in [Shown -> 0..Old] /\ sinceQr \in 0..Old
  /\ events \in 0..MaxEvents /\ faults \in 0..MaxFaults

Init ==
  /\ worker = [w \in Workers |-> [process |-> "none", initializing |-> TRUE,
                                  ready |-> FALSE, status |-> "disconnected"]]
  /\ wire = [w \in Workers |-> <<>>]
  /\ key = [status |-> Absent, qr |-> 0]
  /\ beaten = {}
  /\ since = [s \in Shown |-> Old] /\ sinceQr = Old
  /\ events = 0 /\ faults = 0

-----------------------------------------------------------------------------
\* The worker.

\* What running workers have now counts as recent.
Noted(workers) ==
  since' = [s \in Shown |-> IF \E w \in Workers : Shows(workers[w], s) THEN 0 ELSE since[s]]

\* Every handler sets its fields at once and sends its commands in order.
Handle(w, new, commands) ==
  /\ worker' = [worker EXCEPT ![w] = new]
  /\ wire' = [wire EXCEPT ![w] = @ \o commands]
  /\ Noted(worker')

Event(w) == Running(w) /\ events < MaxEvents /\ events' = events + 1
Rest == UNCHANGED <<key, beaten, faults>>

Become(w, ready, status) == [worker[w] EXCEPT !.ready = ready, !.status = status]

\* onModuleInit: handlers, heartbeat, initialize().
Start(w) ==
  /\ worker[w].process = "none"
  /\ Handle(w, [worker[w] EXCEPT !.process = "up"], <<>>)
  /\ UNCHANGED <<key, beaten, sinceQr, events, faults>>

\* The client emits its events in any order and any number of times, also a QR
\* while it is ready: the handlers check nothing.

\* 'qr'. The flag stays as it is.
OnQr(w) ==
  /\ Event(w)
  /\ Handle(w, Become(w, worker[w].ready, "qr_required"),
            << <<"status", "qr_required">>, <<"qr">> >>)
  /\ sinceQr' = 0
  /\ Rest

\* 'ready'
OnReady(w) ==
  /\ Event(w)
  /\ Handle(w, Become(w, TRUE, "connected"), << <<"status", "connected">>, <<"clear">> >>)
  /\ UNCHANGED sinceQr /\ Rest

\* 'auth_failure' and 'disconnected'; as a bug, without setStatus().
OnLossUnsaid(w) ==
  /\ Event(w)
  /\ Handle(w, Become(w, FALSE, worker[w].status), << <<"clear">> >>)
  /\ UNCHANGED sinceQr /\ Rest
OnLoss(w) ==
  /\ Event(w)
  /\ Handle(w, Become(w, FALSE, "disconnected"),
            << <<"status", "disconnected">>, <<"clear">> >>)
  /\ UNCHANGED sinceQr /\ Rest

\* initialize() rejects, once, whatever events there were before; flag and QR stay.
OnInitFailure(w) ==
  /\ Event(w) /\ worker[w].initializing
  /\ Handle(w, [Become(w, worker[w].ready, "disconnected") EXCEPT !.initializing = FALSE],
            << <<"status", "disconnected">> >>)
  /\ UNCHANGED sinceQr /\ Rest

\* The interval of HEARTBEAT_MS; as bugs, one that only repeats a connection, and
\* one that says it in the client's words.
BeatRaw(w) == << <<"status", IF worker[w].ready THEN "ready" ELSE worker[w].status>> >>
BeatIfReady(w) == IF worker[w].ready THEN << <<"status", worker[w].status>> >> ELSE <<>>
Beat(w) == << <<"status", worker[w].status>> >>
Heartbeat(w) ==
  /\ worker[w].process = "up" /\ w \notin beaten
  /\ beaten' = beaten \cup {w}
  /\ wire' = [wire EXCEPT ![w] = @ \o Beat(w)]
  /\ UNCHANGED <<worker, key, since, sinceQr, events, faults>>

\* onModuleDestroy, up to the wait for the DEL.
Stop(w) ==
  /\ worker[w].process = "up"
  /\ Handle(w, [worker[w] EXCEPT !.process = "stopping"], << <<"leave">> >>)
  /\ UNCHANGED <<key, beaten, sinceQr, events, faults>>

\* app.close() is done, or the deadline of main.ts is reached.
Exit(w) ==
  /\ worker[w].process = "stopping"
  /\ worker' = [worker EXCEPT ![w].process = "gone"]
  /\ wire' = [wire EXCEPT ![w] = <<>>]
  /\ UNCHANGED <<key, beaten, since, sinceQr, events, faults>>

Die(w) ==
  /\ Running(w)
  /\ faults < MaxFaults /\ faults' = faults + 1
  /\ worker' = [worker EXCEPT ![w].process = "gone"]
  /\ wire' = [wire EXCEPT ![w] = <<>>]
  /\ UNCHANGED <<key, beaten, since, sinceQr, events>>

-----------------------------------------------------------------------------
\* Redis.

\* Each SET carries EX; as a bug, one period too many.
LifetimeLong == StatusTtl + 1
Lifetime == StatusTtl
Result(c) ==
  CASE c[1] = "status" -> [key EXCEPT !.status = [value |-> c[2], ttl |-> Lifetime]]
    [] c[1] = "qr"     -> [key EXCEPT !.qr = QrTtl]
    [] c[1] = "clear"  -> [key EXCEPT !.qr = 0]
    [] c[1] = "leave"  -> [status |-> Absent, qr |-> 0]

Deliver(w) ==
  /\ wire[w] # <<>>
  /\ key' = Result(Head(wire[w]))
  /\ wire' = [wire EXCEPT ![w] = Tail(@)]
  /\ UNCHANGED <<worker, beaten, since, sinceQr, events, faults>>

\* A command that fails is logged and forgotten.
Fail(w) ==
  /\ wire[w] # <<>>
  /\ faults < MaxFaults /\ faults' = faults + 1
  /\ wire' = [wire EXCEPT ![w] = Tail(@)]
  /\ UNCHANGED <<worker, key, beaten, since, sinceQr, events>>

\* 30 s pass: every interval has fired, every command was carried out or
\* failed; keys come closer to their expiry.
Older(n) == IF n < Old THEN n + 1 ELSE n
Tick ==
  /\ \A w \in Workers : worker[w].process = "up" => w \in beaten
  /\ \A w \in Workers : wire[w] = <<>>
  /\ beaten' = {}
  /\ key' = [status |-> IF key.status.ttl > 1 THEN [key.status EXCEPT !.ttl = @ - 1] ELSE Absent,
             qr |-> IF key.qr > 0 THEN key.qr - 1 ELSE 0]
  /\ since' = [s \in Shown |->
       IF \E w \in Workers : Shows(worker[w], s) THEN 0 ELSE Older(since[s])]
  /\ sinceQr' = Older(sinceQr)
  /\ UNCHANGED <<worker, wire, events, faults>>

\* What GET /providers/status and /providers/whatsapp/qr answer.
Reported == IF key.status = Absent THEN "unknown" ELSE key.status.value
QrShown == key.qr > 0

ClientEvent(w) == OnQr(w) \/ OnReady(w) \/ OnLoss(w) \/ OnInitFailure(w)
Next ==
  \/ \E w \in Workers :
       \/ Start(w) \/ ClientEvent(w) \/ Heartbeat(w) \/ Stop(w) \/ Exit(w) \/ Die(w)
       \/ Deliver(w) \/ Fail(w)
  \/ Tick

\* Time passes, intervals fire, commands come to an end, a worker told to stop
\* does; nobody has to start one and no client has to do anything.
Fairness ==
  /\ WF_vars(Tick)
  /\ \A w \in Workers : WF_vars(Heartbeat(w)) /\ WF_vars(Deliver(w)) /\ WF_vars(Exit(w))

Spec == Init /\ [][Next]_vars

-----------------------------------------------------------------------------
\* What is reported was the state of a running worker within the last 90 s,
\* and a QR that is shown was rotated by a client within the last 60 s, whatever
\* commands were lost and however the workers ended (whatsapp.service.ts:115: a
\* dead worker leaves no stale "connected" behind).
ReportIsRecent ==
  /\ key.status # Absent => since[key.status.value] < StatusTtl
  /\ QrShown => sinceQr < QrTtl

\* What is reported as connected let messages through within the last 90 s: the
\* dashboard does not go on saying so of workers that refuse every message, in
\* whatever order the client's events come, commands are lost and workers overlap
\* (whatsapp.service.ts:150).  The converse does not hold: a 'qr' of a ready
\* client, and initialize() that rejects after 'ready', leave the flag set.
ConnectedMeansReady == Reported = "connected" => since["ready"] < StatusTtl

\* When clients, workers and Redis leave each other in peace, what is reported
\* becomes, and stays, the state of a running worker, and "unknown" if there is
\* none, although an old worker's shutdown deletes the new one's keys.
ReportCatchesUp ==
  <>[](IF \E w \in Workers : Running(w)
       THEN \E w \in Workers : Running(w) /\ Reported = worker[w].status
       ELSE Reported = "unknown")
=============================================================================

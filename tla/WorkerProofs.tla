---------------------------- MODULE WorkerProofs ----------------------------
(***************************************************************************)
(* What the API reports of the WhatsApp client, for any number of workers, *)
(* any lifetimes of the keys and any events, losses and deaths.  The       *)
(* argument for the report: a command says what was so in the very period  *)
(* it is sent in, because none outlives the period, and a key's age and    *)
(* the lifetime it has left make up at most the lifetime it was set with.  *)
(* For what it says of a connection: a worker that has that status has the *)
(* flag set, so that a recent status means a recent flag.                  *)
(*   Posting is WebhookFanout with the constants MCWorker gives it, and    *)
(* with its theorems: a step of the worker is one of the link or one of    *)
(* the deliveries.                                                         *)
(***************************************************************************)
EXTENDS MCWorker, SequenceTheorems, TLAPS

-----------------------------------------------------------------------------
(* The inductive invariant.                                                *)

\* A command that has not reached Redis yet and says what was so this period.
Timely(c) ==
  /\ c[1] = "status" => since[c[2]] = 0
  /\ c[1] = "qr" => sinceQr = 0

Wires ==
  /\ wire \in [Workers -> Seq(Command)]
  /\ \A w \in Workers : \A i \in 1..Len(wire[w]) : Timely(wire[w][i])

\* What a running worker's client is now counts as of this period.
RunningIsRecent == \A w \in Workers : Running(w) => since[worker[w].status] = 0

\* The age of what Redis holds and the lifetime it has left.
KeysAge ==
  /\ key.status # Absent => since[key.status.value] + key.status.ttl <= StatusTtl
  /\ QrShown => sinceQr + key.qr <= QrTtl

\* Of a worker that has gone too, and so of the periods since: there was a flag
\* set whenever there was this status.
ConnectedIsReady ==
  /\ \A w \in Workers : worker[w].status = "connected" => worker[w].ready = TRUE
  /\ since["ready"] <= since["connected"]

\* The two keys, as Redis holds them.
Entry == [value : Status \cup {"absent"}, ttl : Nat]
Keys == key \in [status : Entry, qr : 0..QrTtl]

LinkInv == TypeOK /\ Keys /\ Wires /\ RunningIsRecent /\ KeysAge /\ ConnectedIsReady

-----------------------------------------------------------------------------
(* Commands.                                                               *)

\* A command is a SET of the status, a SET or DEL of the QR, or the last DEL.
LEMMA CommandForms ==
  ASSUME NEW c \in Command
  PROVE  \/ \E s \in Status : c = <<"status", s>>
         \/ c \in {<<"qr">>, <<"clear">>, <<"leave">>}
  BY DEF Command

\* What Redis holds after a command: a status that is new or as it was, or none.
LEMMA ResultForms ==
  ASSUME Keys, NEW c \in Command
  PROVE  /\ Result(c) \in [status : Entry, qr : 0..QrTtl]
         /\ \/ Result(c).status \in {Absent, key.status}
            \/ /\ c[1] = "status" /\ c[2] \in Status
               /\ Result(c).status = [value |-> c[2], ttl |-> StatusTtl]
         /\ \/ Result(c).qr \in {0, key.qr}
            \/ c[1] = "qr" /\ Result(c).qr = QrTtl
  <1> USE LinkAssumption
  <1>1. ASSUME NEW s \in Status, c = <<"status", s>>
        PROVE  /\ Result(c) = [key EXCEPT !.status = [value |-> s, ttl |-> StatusTtl]]
               /\ c[1] = "status" /\ c[2] = s
    BY <1>1 DEF Result, Lifetime
  <1>2. CASE \E s \in Status : c = <<"status", s>>
    <2>1. PICK s \in Status : c = <<"status", s>>
      BY <1>2
    <2>2. [value |-> s, ttl |-> StatusTtl] \in Entry
      BY DEF Entry
    <2> QED
      BY <1>1, <2>1, <2>2 DEF Keys
  <1>3. CASE c = <<"qr">>
    <2>1. Result(c) = [key EXCEPT !.qr = QrTtl] /\ c[1] = "qr"
      BY <1>3 DEF Result
    <2> QED
      BY <2>1 DEF Keys
  <1>4. CASE c = <<"clear">>
    <2>1. Result(c) = [key EXCEPT !.qr = 0]
      BY <1>4 DEF Result
    <2> QED
      BY <2>1 DEF Keys
  <1>5. CASE c = <<"leave">>
    <2>1. Result(c) = [status |-> Absent, qr |-> 0]
      BY <1>5 DEF Result
    <2> QED
      BY <2>1 DEF Keys, Entry, Absent
  <1> QED
    BY <1>2, <1>3, <1>4, <1>5, CommandForms

\* TypeOK says of the keys what the record's type leaves open: a status that is
\* there has a value and a lifetime.
LEMMA EntryForms ==
  ASSUME Keys, TypeOK
  PROVE  key.status = Absent \/ (key.status.value \in Status /\ key.status.ttl \in Nat \ {0})
  BY DEF TypeOK

\* What is counted, and how far.
LEMMA Vocabulary ==
  /\ Status \subseteq Shown /\ "connected" \in Shown /\ "ready" \in Shown /\ "ready" \notin Status
  /\ Old \in Nat
  BY LinkAssumption DEF Shown, Status, Old

\* A worker that shows itself connected shows itself ready.
LEMMA ConnectedShows ==
  ASSUME NEW w, w.status = "connected" => w.ready = TRUE, Shows(w, "connected")
  PROVE  Shows(w, "ready")
  BY DEF Shows

-----------------------------------------------------------------------------
(* Steps of a worker and of Redis.                                         *)

\* The initial state.
LEMMA InitLink == Init => LinkInv
  <1> SUFFICES ASSUME Init PROVE LinkInv
    OBVIOUS
  <1> USE LinkAssumption
  <1>1. worker \in [Workers -> Worker] /\ \A w \in Workers : ~Running(w)
    BY DEF Init, Worker, Status, Running
  <1>2. wire \in [Workers -> Seq(Command)] /\ \A w \in Workers : Len(wire[w]) = 0
    BY DEF Init
  <1>3. Keys /\ key.status = Absent /\ key.qr = 0
    BY DEF Init, Keys, Entry, Absent
  <1>4. beaten \subseteq Workers /\ events \in 0..MaxEvents /\ faults \in 0..MaxFaults
    BY DEF Init
  <1>5. since \in [Shown -> 0..Old] /\ sinceQr \in 0..Old
    BY DEF Init, Old
  <1>6. TypeOK
    BY <1>1, <1>2, <1>3, <1>4, <1>5 DEF TypeOK
  <1>7. Wires
    BY <1>2 DEF Wires
  <1>8. RunningIsRecent
    BY <1>1 DEF RunningIsRecent
  <1>9. KeysAge
    BY <1>3 DEF KeysAge, QrShown
  <1>10. ConnectedIsReady
    <2>1. Old \in Nat /\ "connected" \in Shown /\ "ready" \in Shown
      BY DEF Old, Shown, Status
    <2> QED
      BY <2>1 DEF Init, ConnectedIsReady
  <1> QED
    BY <1>3, <1>6, <1>7, <1>8, <1>9, <1>10 DEF LinkInv

\* A handler of w, that leaves it running and whose commands say what it sets.
LEMMA HandlerKeeps ==
  ASSUME LinkInv,
         NEW w \in Workers, NEW new \in Worker, NEW commands \in Seq(Command),
         Handle(w, new, commands),
         new.process \in {"up", "stopping"},
         new.status = "connected" => new.ready = TRUE,
         \A i \in 1..Len(commands) :
           /\ commands[i][1] = "status" => commands[i][2] = new.status
           /\ commands[i][1] = "qr" => sinceQr' = 0,
         sinceQr' \in {0, sinceQr}, events' \in 0..MaxEvents, UNCHANGED <<key, beaten, faults>>
  PROVE  LinkInv'
  <1> USE LinkAssumption
  <1>1. /\ worker \in [Workers -> Worker] /\ since \in [Shown -> 0..Old] /\ sinceQr \in 0..Old
        /\ wire \in [Workers -> Seq(Command)]
    BY DEF LinkInv, TypeOK, Wires
  <1>2. worker' \in [Workers -> Worker] /\ worker'[w] = new
        /\ \A v \in Workers \ {w} : worker'[v] = worker[v]
    BY <1>1 DEF Handle
  <1>3. wire' \in [Workers -> Seq(Command)] /\ wire'[w] = wire[w] \o commands
        /\ \A v \in Workers \ {w} : wire'[v] = wire[v]
    BY <1>1 DEF Handle
  <1>4. since' \in [Shown -> 0..Old]
        /\ \A s \in Shown : since'[s] \in {0, since[s]}
    BY <1>1 DEF Handle, Noted, Old
  <1>5. \A v \in Workers : Running(v)' => since'[worker'[v].status] = 0
    <2> SUFFICES ASSUME NEW v \in Workers, Running(v)'
                 PROVE  since'[worker'[v].status] = 0
      OBVIOUS
    <2>1. worker'[v].process \in {"up", "stopping"}
      BY DEF Running
    <2>2. worker'[v].status \in Status
      BY <1>2 DEF Worker
    <2> QED
      BY <2>1, <2>2, Vocabulary DEF Handle, Noted, Shows
  <1>6. since'[new.status] = 0
    BY <1>2, <1>5 DEF Running
  <1>7. sinceQr' \in 0..Old
    BY <1>1 DEF Old
  <1> DEFINE Then(c) == /\ c[1] = "status" => since'[c[2]] = 0
                        /\ c[1] = "qr" => sinceQr' = 0
  <1>8. ASSUME NEW v \in Workers, NEW i \in 1..Len(wire'[v])
        PROVE  Then(wire'[v][i])
    <2>1. ASSUME NEW j \in 1..Len(wire[v])
          PROVE  Then(wire[v][j])
      <3>1. Timely(wire[v][j]) /\ wire[v][j] \in Command
        BY <1>1 DEF LinkInv, Wires
      <3>2. wire[v][j][1] = "status" => wire[v][j][2] \in Status
        BY <3>1, CommandForms
      <3> QED
        BY <3>1, <3>2, <1>1, <1>4, Vocabulary DEF Timely
    <2>2. ASSUME NEW j \in 1..Len(commands)
          PROVE  Then(commands[j])
      BY <1>6
    <2>3. CASE v = w
      <3>1. CASE i \in 1..Len(wire[w])
        <4>1. wire'[v][i] = wire[w][i]
          BY <1>1, <1>3, <2>3, <3>1
        <4> HIDE DEF Then
        <4> QED
          BY ONLY <2>1, <2>3, <3>1, <4>1
      <3>2. CASE i \notin 1..Len(wire[w])
        <4>1. i - Len(wire[w]) \in 1..Len(commands)
              /\ wire'[v][i] = commands[i - Len(wire[w])]
          BY <1>1, <1>3, <2>3, <3>2
        <4> HIDE DEF Then
        <4> QED
          BY ONLY <2>2, <4>1
      <3> QED
        BY <3>1, <3>2
    <2>4. CASE v # w
      BY <1>3, <2>1, <2>4
    <2> QED
      BY <2>3, <2>4
  <1>9. Keys' /\ KeysAge'
    <2>1. Keys'
      BY DEF LinkInv, Keys
    <2>2. QrShown' => sinceQr' + key'.qr <= QrTtl
      BY <1>1 DEF LinkInv, Keys, KeysAge, QrShown
    <2>3. ASSUME key'.status # Absent
          PROVE  since'[key'.status.value] + key'.status.ttl <= StatusTtl
      <3>1. key.status.value \in Status /\ key.status.ttl \in Nat
            /\ since[key.status.value] + key.status.ttl <= StatusTtl
        BY <2>3, EntryForms DEF LinkInv, KeysAge
      <3>2. since[key.status.value] \in Nat /\ since'[key.status.value] \in {0, since[key.status.value]}
        BY <3>1, <1>1, <1>4, Vocabulary
      <3> QED
        BY <3>1, <3>2
    <2> QED
      BY <2>1, <2>2, <2>3 DEF KeysAge
  <1>10. ConnectedIsReady'
    <2>1. \A v \in Workers : worker'[v].status = "connected" => worker'[v].ready = TRUE
      BY <1>2 DEF LinkInv, ConnectedIsReady
    <2>2. since'["ready"] <= since'["connected"]
      <3>1. \A s \in Shown :
              since'[s] = IF \E v \in Workers : Shows(worker'[v], s) THEN 0 ELSE since[s]
        BY DEF Handle, Noted
      <3>2. (\E v \in Workers : Shows(worker'[v], "connected"))
              => \E v \in Workers : Shows(worker'[v], "ready")
        BY <2>1, ConnectedShows
      <3>3. /\ since["ready"] \in Nat /\ since["connected"] \in Nat
            /\ since["ready"] <= since["connected"]
        BY <1>1, Vocabulary DEF LinkInv, ConnectedIsReady
      <3> QED
        BY <3>1, <3>2, <3>3, Vocabulary
    <2> QED
      BY <2>1, <2>2 DEF ConnectedIsReady
  <1>11. TypeOK'
    <2>1. \A v \in Workers : \A i \in 1..Len(wire'[v]) : wire'[v][i] \in Command
      BY <1>3
    <2>2. /\ key'.status = Absent \/ (key'.status.value \in Status /\ key'.status.ttl \in Nat \ {0})
          /\ key'.qr \in 0..QrTtl /\ beaten' \subseteq Workers /\ faults' \in 0..MaxFaults
      BY DEF LinkInv, TypeOK
    <2> QED
      BY <1>2, <1>4, <1>7, <2>1, <2>2 DEF TypeOK
  <1>12. Wires'
    BY <1>3, <1>8 DEF Wires, Timely
  <1>13. RunningIsRecent'
    BY <1>5 DEF RunningIsRecent
  <1> QED
    BY <1>9, <1>10, <1>11, <1>12, <1>13 DEF LinkInv

\* A step that takes from, or sends a status on, w's wire, or empties it, and
\* lets no worker run that did not.
LEMMA FlowKeeps ==
  ASSUME LinkInv,
         NEW w \in Workers, NEW left \in Seq(Command),
         wire' = [wire EXCEPT ![w] = left],
         \A i \in 1..Len(left) : Timely(left[i]),
         worker' \in [Workers -> Worker],
         \A v \in Workers : /\ worker'[v].ready = worker[v].ready
                            /\ worker'[v].status = worker[v].status
                            /\ Running(v)' => Running(v),
         Keys', KeysAge',
         key'.status = Absent \/ (key'.status.value \in Status /\ key'.status.ttl \in Nat \ {0}),
         beaten' \subseteq Workers, faults' \in 0..MaxFaults,
         UNCHANGED <<since, sinceQr, events>>
  PROVE  LinkInv'
  <1>1. /\ worker \in [Workers -> Worker] /\ wire \in [Workers -> Seq(Command)]
        /\ since \in [Shown -> 0..Old] /\ sinceQr \in 0..Old /\ events \in 0..MaxEvents
    BY DEF LinkInv, TypeOK, Wires
  <1>2. wire' \in [Workers -> Seq(Command)]
        /\ \A v \in Workers : wire'[v] = IF v = w THEN left ELSE wire[v]
    BY <1>1
  <1>3. Wires'
    <2>1. \A v \in Workers : \A i \in 1..Len(wire'[v]) : Timely(wire'[v][i])
      BY <1>2 DEF LinkInv, Wires
    <2> QED
      BY <1>2, <2>1 DEF Wires, Timely
  <1>4. RunningIsRecent'
    BY DEF LinkInv, RunningIsRecent
  <1>5. ConnectedIsReady'
    BY DEF LinkInv, ConnectedIsReady
  <1>6. TypeOK'
    <2>1. \A v \in Workers : \A i \in 1..Len(wire'[v]) : wire'[v][i] \in Command
      BY <1>2
    <2>2. since' \in [Shown -> 0..Old] /\ sinceQr' \in 0..Old /\ events' \in 0..MaxEvents
      BY <1>1
    <2>3. key'.qr \in 0..QrTtl
      BY DEF Keys
    <2> QED
      BY <2>1, <2>2, <2>3 DEF TypeOK
  <1> QED
    BY <1>3, <1>4, <1>5, <1>6 DEF LinkInv

-----------------------------------------------------------------------------
(* One lemma per group of actions.                                         *)

\* The client's events: none says "connected" without setting the flag, none
\* clears the flag without another status, and each says what it sets.
LEMMA EventKeeps ==
  ASSUME LinkInv, NEW w \in Workers, ClientEvent(w)
  PROVE  LinkInv'
  <1> USE LinkAssumption
  <1>1. /\ worker[w] \in Worker /\ worker[w].process \in {"up", "stopping"}
        /\ events' \in 0..MaxEvents /\ UNCHANGED <<key, beaten, faults>>
    <2>1. Event(w) /\ Rest
      BY DEF ClientEvent, OnQr, OnReady, OnLoss, OnInitFailure
    <2>2. worker[w] \in Worker /\ events \in 0..MaxEvents
      BY DEF LinkInv, TypeOK
    <2> QED
      BY <2>1, <2>2 DEF Event, Running, Rest
  <1>2. ASSUME NEW ready \in BOOLEAN, NEW status \in Status
        PROVE  /\ Become(w, ready, status) \in Worker
               /\ Become(w, ready, status).process = worker[w].process
               /\ Become(w, ready, status).ready = ready
               /\ Become(w, ready, status).status = status
    BY <1>1 DEF Become, Worker
  <1>3. ASSUME NEW new \in Worker
        PROVE  LET settled == [new EXCEPT !.initializing = FALSE]
               IN  /\ settled \in Worker /\ settled.process = new.process
                   /\ settled.ready = new.ready /\ settled.status = new.status
    BY DEF Worker
  <1>4. ASSUME NEW st \in Status
        PROVE  <<"status", st>> \in Command
    BY DEF Command
  <1>5. <<"qr">> \in Command /\ <<"clear">> \in Command
    BY DEF Command
  <1>6. CASE OnQr(w)
    <2> DEFINE new == Become(w, worker[w].ready, "qr_required")
               commands == << <<"status", "qr_required">>, <<"qr">> >>
    <2>1. Handle(w, new, commands) /\ sinceQr' = 0
      BY <1>6 DEF OnQr
    <2>2. worker[w].ready \in BOOLEAN /\ "qr_required" \in Status
      BY <1>1 DEF Worker, Status
    <2>3. new \in Worker /\ new.process \in {"up", "stopping"} /\ new.status = "qr_required"
      BY <1>1, <1>2, <2>2
    <2>4. commands \in Seq(Command)
          /\ \A i \in 1..Len(commands) : commands[i][1] = "status" => commands[i][2] = "qr_required"
      BY <1>4, <1>5, <2>2
    <2> HIDE DEF new, commands
    <2> QED
      BY <1>1, <2>1, <2>3, <2>4, HandlerKeeps
  <1>7. CASE OnReady(w)
    <2> DEFINE new == Become(w, TRUE, "connected")
               commands == << <<"status", "connected">>, <<"clear">> >>
    <2>1. Handle(w, new, commands) /\ sinceQr' = sinceQr
      BY <1>7 DEF OnReady
    <2>2. "connected" \in Status
      BY DEF Status
    <2>3. /\ new \in Worker /\ new.process \in {"up", "stopping"}
          /\ new.ready = TRUE /\ new.status = "connected"
      BY <1>1, <1>2, <2>2
    <2>4. commands \in Seq(Command)
          /\ \A i \in 1..Len(commands) : /\ commands[i][1] = "status" => commands[i][2] = "connected"
                                         /\ commands[i][1] # "qr"
      BY <1>4, <1>5, <2>2
    <2> HIDE DEF new, commands
    <2> QED
      BY <1>1, <2>1, <2>3, <2>4, HandlerKeeps
  <1>8. CASE OnLoss(w)
    <2> DEFINE new == Become(w, FALSE, "disconnected")
               commands == << <<"status", "disconnected">>, <<"clear">> >>
    <2>1. Handle(w, new, commands) /\ sinceQr' = sinceQr
      BY <1>8 DEF OnLoss
    <2>2. "disconnected" \in Status
      BY DEF Status
    <2>3. new \in Worker /\ new.process \in {"up", "stopping"} /\ new.status = "disconnected"
      BY <1>1, <1>2, <2>2
    <2>4. commands \in Seq(Command)
          /\ \A i \in 1..Len(commands) : /\ commands[i][1] = "status" => commands[i][2] = "disconnected"
                                         /\ commands[i][1] # "qr"
      BY <1>4, <1>5, <2>2
    <2> HIDE DEF new, commands
    <2> QED
      BY <1>1, <2>1, <2>3, <2>4, HandlerKeeps
  <1>9. CASE OnInitFailure(w)
    <2> DEFINE became == Become(w, worker[w].ready, "disconnected")
               new == [became EXCEPT !.initializing = FALSE]
               commands == << <<"status", "disconnected">> >>
    <2>1. Handle(w, new, commands) /\ sinceQr' = sinceQr
      BY <1>9 DEF OnInitFailure
    <2>2. worker[w].ready \in BOOLEAN /\ "disconnected" \in Status
      BY <1>1 DEF Worker, Status
    <2>3. became \in Worker /\ became.process \in {"up", "stopping"} /\ became.status = "disconnected"
      BY <1>1, <1>2, <2>2
    <2> HIDE DEF became
    <2>4. new \in Worker /\ new.process \in {"up", "stopping"} /\ new.status = "disconnected"
      BY <1>3, <2>3
    <2>5. commands \in Seq(Command)
          /\ \A i \in 1..Len(commands) : /\ commands[i][1] = "status" => commands[i][2] = "disconnected"
                                         /\ commands[i][1] # "qr"
      BY <1>4, <2>2
    <2> HIDE DEF new, commands
    <2> QED
      BY <1>1, <2>1, <2>4, <2>5, HandlerKeeps
  <1> QED
    BY <1>6, <1>7, <1>8, <1>9 DEF ClientEvent

\* A worker starts, or begins to stop: what its client is stays as it was.
LEMMA StartOrStopKeeps ==
  ASSUME LinkInv, NEW w \in Workers, Start(w) \/ Stop(w)
  PROVE  LinkInv'
  <1>1. /\ worker[w] \in Worker /\ events \in 0..MaxEvents
        /\ UNCHANGED <<key, beaten, sinceQr, events, faults>>
    BY DEF LinkInv, TypeOK, Start, Stop
  <1>2. worker[w].status = "connected" => worker[w].ready = TRUE
    BY DEF LinkInv, ConnectedIsReady
  <1>3. ASSUME NEW process \in {"up", "stopping"}
        PROVE  LET new == [worker[w] EXCEPT !.process = process]
               IN  /\ new \in Worker /\ new.process = process
                   /\ new.status = "connected" => new.ready = TRUE
    BY <1>1, <1>2 DEF Worker
  <1>4. CASE Start(w)
    <2> DEFINE new == [worker[w] EXCEPT !.process = "up"]
    <2>1. Handle(w, new, <<>>) /\ <<>> \in Seq(Command) /\ \A i \in 1..Len(<<>>) : FALSE
      BY <1>4 DEF Start
    <2>2. /\ new \in Worker /\ new.process = "up"
          /\ new.status = "connected" => new.ready = TRUE
      BY <1>3
    <2> HIDE DEF new
    <2> QED
      BY <1>1, <2>1, <2>2, HandlerKeeps
  <1>5. CASE Stop(w)
    <2> DEFINE new == [worker[w] EXCEPT !.process = "stopping"]
               commands == << <<"leave">> >>
    <2>1. Handle(w, new, commands)
      BY <1>5 DEF Stop
    <2>2. /\ new \in Worker /\ new.process = "stopping"
          /\ new.status = "connected" => new.ready = TRUE
      BY <1>3
    <2>3. /\ commands \in Seq(Command)
          /\ \A i \in 1..Len(commands) : commands[i][1] = "leave"
      BY DEF Command
    <2> HIDE DEF new, commands
    <2> QED
      BY <1>1, <2>1, <2>2, <2>3, HandlerKeeps
  <1> QED
    BY <1>4, <1>5

\* The keys and the worker's fields are as they were: what Flow needs of them.
LEMMA Standing ==
  ASSUME LinkInv
  PROVE  /\ worker \in [Workers -> Worker] /\ wire \in [Workers -> Seq(Command)]
         /\ beaten \subseteq Workers /\ faults \in 0..MaxFaults
         /\ Keys /\ KeysAge
         /\ key.status = Absent \/ (key.status.value \in Status /\ key.status.ttl \in Nat \ {0})
         /\ \A w \in Workers : \A i \in 1..Len(wire[w]) : Timely(wire[w][i])
  BY EntryForms DEF LinkInv, TypeOK, Wires

\* The heartbeat says again what is so.
LEMMA HeartbeatKeeps ==
  ASSUME LinkInv, NEW w \in Workers, Heartbeat(w)
  PROVE  LinkInv'
  <1> DEFINE left == wire[w] \o Beat(w)
  <1>1. /\ wire' = [wire EXCEPT ![w] = left] /\ beaten' = beaten \cup {w} /\ Running(w)
        /\ UNCHANGED <<worker, key, since, sinceQr, events, faults>>
    BY DEF Heartbeat, Running
  <1>2. worker[w].status \in Status /\ since[worker[w].status] = 0
    BY <1>1, Standing DEF Worker, LinkInv, RunningIsRecent
  <1>3. Beat(w) \in Seq(Command) /\ Len(Beat(w)) = 1 /\ Timely(Beat(w)[1])
    BY <1>2 DEF Beat, Command, Timely
  <1>4. left \in Seq(Command) /\ \A i \in 1..Len(left) : Timely(left[i])
    <2>1. wire[w] \in Seq(Command) /\ \A i \in 1..Len(wire[w]) : Timely(wire[w][i])
      BY Standing
    <2>2. /\ left \in Seq(Command) /\ Len(left) = Len(wire[w]) + Len(Beat(w))
          /\ \A i \in 1..Len(wire[w]) + Len(Beat(w)) :
               left[i] = IF i <= Len(wire[w]) THEN wire[w][i] ELSE Beat(w)[i - Len(wire[w])]
      <3>1. wire[w] \in Seq(Command) /\ Beat(w) \in Seq(Command)
        BY <1>3, <2>1
      <3> QED
        BY <3>1, ConcatProperties, Zenon
    <2>3. ASSUME NEW i \in 1..Len(left)
          PROVE  Timely(left[i])
      <3>1. \/ i \in 1..Len(wire[w]) /\ left[i] = wire[w][i]
            \/ left[i] = Beat(w)[1]
        BY <1>3, <2>1, <2>2
      <3> QED
        BY <3>1, <2>1, <1>3
    <2> QED
      BY <2>2, <2>3
  <1>5. /\ worker' \in [Workers -> Worker] /\ beaten' \subseteq Workers /\ faults' \in 0..MaxFaults
        /\ key'.status = Absent \/ (key'.status.value \in Status /\ key'.status.ttl \in Nat \ {0})
    BY <1>1, Standing
  <1>6. Keys' /\ KeysAge'
    BY <1>1, Standing DEF Keys, KeysAge, QrShown
  <1>7. \A v \in Workers : Running(v)' => Running(v)
    BY <1>1 DEF Running
  <1> HIDE DEF left
  <1> QED
    BY <1>1, <1>4, <1>5, <1>6, <1>7, FlowKeeps

\* A worker ends, and what it had not sent with it.
LEMMA EndKeeps ==
  ASSUME LinkInv, NEW w \in Workers, Exit(w) \/ Die(w)
  PROVE  LinkInv'
  <1> DEFINE left == <<>>
  <1>1. /\ worker' = [worker EXCEPT ![w].process = "gone"] /\ wire' = [wire EXCEPT ![w] = left]
        /\ UNCHANGED <<key, beaten, since, sinceQr, events>>
    BY DEF Exit, Die
  <1>2. faults' \in 0..MaxFaults
    BY LinkAssumption, Standing DEF Exit, Die
  <1>3. worker' \in [Workers -> Worker]
        /\ \A v \in Workers : /\ worker'[v].ready = worker[v].ready
                              /\ worker'[v].status = worker[v].status
                              /\ Running(v)' => Running(v)
    BY <1>1, Standing DEF Worker, Running
  <1>4. /\ Keys' /\ KeysAge' /\ beaten' \subseteq Workers
        /\ key'.status = Absent \/ (key'.status.value \in Status /\ key'.status.ttl \in Nat \ {0})
    BY <1>1, Standing DEF Keys, KeysAge, QrShown
  <1>5. left \in Seq(Command) /\ \A i \in 1..Len(left) : Timely(left[i])
    OBVIOUS
  <1> HIDE DEF left
  <1> QED
    BY <1>1, <1>2, <1>3, <1>4, <1>5, FlowKeeps

\* Redis carries a command out, or it fails.
LEMMA CommandKeeps ==
  ASSUME LinkInv, NEW w \in Workers, Deliver(w) \/ Fail(w)
  PROVE  LinkInv'
  <1> USE LinkAssumption
  <1> DEFINE c == Head(wire[w])
             left == Tail(wire[w])
  <1>1. /\ wire[w] # <<>> /\ wire' = [wire EXCEPT ![w] = left]
        /\ UNCHANGED <<worker, beaten, since, sinceQr, events>>
    BY DEF Deliver, Fail
  <1>2. /\ c \in Command /\ left \in Seq(Command) /\ c = wire[w][1] /\ 1 \in 1..Len(wire[w])
        /\ \A i \in 1..Len(left) : i + 1 \in 1..Len(wire[w]) /\ left[i] = wire[w][i + 1]
    BY <1>1, Standing
  <1>3. Timely(c) /\ \A i \in 1..Len(left) : Timely(left[i])
    BY <1>2, Standing
  <1>4. key' \in {key, Result(c)} /\ faults' \in 0..MaxFaults
    BY Standing DEF Deliver, Fail
  <1> HIDE DEF c, left
  <1>5. since \in [Shown -> 0..Old] /\ sinceQr \in 0..Old
    BY DEF LinkInv, TypeOK
  <1>6. Keys' /\ \/ key'.status \in {Absent, key.status}
                 \/ /\ c[1] = "status" /\ c[2] \in Status
                    /\ key'.status = [value |-> c[2], ttl |-> StatusTtl]
    BY <1>2, <1>4, Standing, ResultForms DEF Keys
  <1>7. key'.qr \in {0, key.qr} \/ (c[1] = "qr" /\ key'.qr = QrTtl)
    BY <1>2, <1>4, Standing, ResultForms
  <1>8. key'.status # Absent => since'[key'.status.value] + key'.status.ttl <= StatusTtl
    BY <1>1, <1>3, <1>6, Standing DEF KeysAge, Timely
  <1>9. QrShown' => sinceQr' + key'.qr <= QrTtl
    BY <1>1, <1>3, <1>5, <1>7, Standing DEF KeysAge, Timely, QrShown
  <1>10. KeysAge'
    BY <1>8, <1>9 DEF KeysAge
  <1>11. key'.status = Absent \/ (key'.status.value \in Status /\ key'.status.ttl \in Nat \ {0})
    BY <1>6, Standing
  <1>12. worker' \in [Workers -> Worker] /\ beaten' \subseteq Workers
         /\ \A v \in Workers : Running(v)' => Running(v)
    BY <1>1, Standing DEF Running
  <1> QED
    BY <1>1, <1>2, <1>3, <1>4, <1>6, <1>10, <1>11, <1>12, FlowKeeps

\* A period passes: what is held grows older by what its lifetime loses.
LEMMA TickKeeps ==
  ASSUME LinkInv, Tick
  PROVE  LinkInv'
  <1> USE LinkAssumption
  <1>1. /\ UNCHANGED <<worker, wire, events, faults>> /\ beaten' = {}
        /\ \A w \in Workers : wire[w] = <<>>
    BY DEF Tick
  <1>2. since \in [Shown -> 0..Old] /\ sinceQr \in 0..Old /\ Old \in Nat
    BY DEF LinkInv, TypeOK, Old
  <1>3. since' \in [Shown -> 0..Old] /\ \A s \in Shown : since'[s] <= since[s] + 1
    BY <1>2 DEF Tick, Older
  <1>4. sinceQr' \in 0..Old /\ sinceQr' <= sinceQr + 1
    BY <1>2 DEF Tick, Older
  <1>5. \/ key'.status = Absent
        \/ /\ key.status # Absent /\ key.status.value \in Status
           /\ key'.status.value = key.status.value /\ key'.status \in Entry
           /\ key'.status.ttl = key.status.ttl - 1 /\ key'.status.ttl \in Nat \ {0}
    <2>1. CASE key.status.ttl > 1
      <3>1. key.status \in Entry /\ key'.status = [key.status EXCEPT !.ttl = @ - 1]
        BY <2>1, Standing DEF Tick, Keys
      <3>2. key.status # Absent
        BY <2>1 DEF Absent
      <3> QED
        BY <2>1, <3>1, <3>2, Standing DEF Entry
    <2>2. CASE ~(key.status.ttl > 1)
      BY <2>2 DEF Tick
    <2> QED
      BY <2>1, <2>2
  <1>6. key'.qr = IF key.qr > 0 THEN key.qr - 1 ELSE 0
    BY DEF Tick
  <1>7. Keys'
    <2>1. key' = [status |-> key'.status, qr |-> key'.qr]
      BY DEF Tick
    <2>2. key'.status \in Entry
      BY <1>5 DEF Entry, Absent
    <2>3. key'.qr \in 0..QrTtl
      BY <1>6, Standing DEF Keys
    <2> QED
      BY <2>1, <2>2, <2>3 DEF Keys
  <1>8. KeysAge'
    <2>1. ASSUME key'.status # Absent
          PROVE  since'[key'.status.value] + key'.status.ttl <= StatusTtl
      <3>1. /\ key.status.value \in Status /\ key'.status.value = key.status.value
            /\ key.status.ttl \in Nat /\ key'.status.ttl = key.status.ttl - 1
            /\ since[key.status.value] + key.status.ttl <= StatusTtl
        BY <2>1, <1>5, Standing DEF KeysAge
      <3>2. /\ since[key.status.value] \in Int /\ since'[key.status.value] \in Int
            /\ since'[key.status.value] <= since[key.status.value] + 1
        BY <1>2, <1>3, <3>1, Vocabulary
      <3> QED
        BY <3>1, <3>2
    <2>2. QrShown' => sinceQr' + key'.qr <= QrTtl
      <3>1. key.qr \in Nat /\ (key.qr > 0 => sinceQr + key.qr <= QrTtl)
        BY Standing DEF KeysAge, QrShown, Keys
      <3> QED
        <4>1. key'.qr > 0 => key.qr > 0 /\ key'.qr = key.qr - 1
          BY <1>6, <3>1
        <4>2. sinceQr \in Int /\ sinceQr' \in Int /\ sinceQr' <= sinceQr + 1
          BY <1>2, <1>4
        <4> QED
          BY <3>1, <4>1, <4>2, LinkAssumption DEF QrShown
    <2> QED
      BY <2>1, <2>2 DEF KeysAge
  <1>9. RunningIsRecent'
    <2> SUFFICES ASSUME NEW w \in Workers, Running(w)
                 PROVE  since'[worker[w].status] = 0
      BY <1>1 DEF RunningIsRecent, Running
    <2>1. worker[w].status \in Status
      BY Standing DEF Worker
    <2> QED
      BY <2>1, Vocabulary DEF Tick, Shows, Running
  <1>10. Wires'
    BY <1>1 DEF LinkInv, Wires
  <1>11. ConnectedIsReady'
    <2>1. \A w \in Workers : worker[w].status = "connected" => worker[w].ready = TRUE
      BY DEF LinkInv, ConnectedIsReady
    <2>2. \A s \in Shown :
            since'[s] = IF \E w \in Workers : Shows(worker[w], s) THEN 0 ELSE Older(since[s])
      BY DEF Tick
    <2>3. (\E w \in Workers : Shows(worker[w], "connected"))
            => \E w \in Workers : Shows(worker[w], "ready")
      BY <2>1, ConnectedShows
    <2>4. since'["ready"] <= since'["connected"]
      <3>1. since["ready"] <= since["connected"]
        BY DEF LinkInv, ConnectedIsReady
      <3>2. since["ready"] \in 0..Old /\ since["connected"] \in 0..Old
        BY <1>2, Vocabulary
      <3>3. Older(since["ready"]) <= Older(since["connected"]) /\ 0 <= Older(since["connected"])
        BY <1>2, <3>1, <3>2 DEF Older
      <3> QED
        BY <2>2, <2>3, <3>3, Vocabulary
    <2> QED
      BY <1>1, <2>1, <2>4 DEF ConnectedIsReady
  <1>12. TypeOK'
    <2>1. key'.status = Absent \/ (key'.status.value \in Status /\ key'.status.ttl \in Nat \ {0})
      BY <1>5
    <2>2. key'.qr \in 0..QrTtl
      BY <1>7 DEF Keys
    <2>3. events' \in 0..MaxEvents /\ faults' \in 0..MaxFaults /\ worker' \in [Workers -> Worker]
      BY <1>1 DEF LinkInv, TypeOK
    <2>4. \A w \in Workers : \A i \in 1..Len(wire'[w]) : wire'[w][i] \in Command
      BY <1>1
    <2> QED
      BY <1>1, <1>3, <1>4, <2>1, <2>2, <2>3, <2>4 DEF TypeOK
  <1> QED
    BY <1>7, <1>8, <1>9, <1>10, <1>11, <1>12 DEF LinkInv

\* LinkInv is inductive.
LEMMA LinkHolds == Spec => []LinkInv
  <1>1. LinkInv /\ [Next]_vars => LinkInv'
    <2> SUFFICES ASSUME LinkInv, [Next]_vars PROVE LinkInv'
      OBVIOUS
    <2>1. CASE Tick
      BY <2>1, TickKeeps
    <2>2. ASSUME NEW w \in Workers,
                 \/ Start(w) \/ ClientEvent(w) \/ Heartbeat(w) \/ Stop(w) \/ Exit(w) \/ Die(w)
                 \/ Deliver(w) \/ Fail(w)
          PROVE  LinkInv'
      BY <2>2, EventKeeps, StartOrStopKeeps, HeartbeatKeeps, EndKeeps, CommandKeeps
    <2>3. CASE UNCHANGED vars
      BY <2>3 DEF vars, LinkInv, TypeOK, Keys, Wires, Timely, RunningIsRecent, Running, KeysAge,
                  QrShown, ConnectedIsReady
    <2> QED
      BY <2>1, <2>2, <2>3 DEF Next
  <1> QED
    BY <1>1, InitLink, PTL DEF Spec

-----------------------------------------------------------------------------
(* The theorems.                                                           *)

\* Every variable has its type; what Redis holds of the status is one of the
\* states the API declares (whatsapp.service.ts:120).
THEOREM LinkTypeCorrect == Spec => []TypeOK
  BY LinkHolds, PTL DEF LinkInv

\* The API reports nothing older than the keys' lifetimes, whatever commands are
\* lost, however many workers run beside each other and however they end.
THEOREM ReportsAreRecent == Spec => []ReportIsRecent
  <1>1. LinkInv => ReportIsRecent
    <2> SUFFICES ASSUME LinkInv PROVE ReportIsRecent
      OBVIOUS
    <2>1. since \in [Shown -> 0..Old] /\ sinceQr \in 0..Old /\ StatusTtl \in Nat /\ QrTtl \in Nat
      BY LinkAssumption DEF LinkInv, TypeOK
    <2>2. key.status # Absent => since[key.status.value] < StatusTtl
      BY <2>1, Standing, Vocabulary DEF KeysAge
    <2>3. QrShown => sinceQr < QrTtl
      BY <2>1, Standing DEF KeysAge, QrShown, Keys, Old
    <2> QED
      BY <2>2, <2>3 DEF ReportIsRecent
  <1> QED
    BY <1>1, LinkHolds, PTL

\* What is reported as connected let messages through within the lifetime of the
\* report, in whatever order the clients' events come, also a QR of a ready client
\* and an initialize() that rejects after 'ready'.
THEOREM ReportedConnectionsAreReady == Spec => []ConnectedMeansReady
  <1>1. LinkInv => ConnectedMeansReady
    <2> SUFFICES ASSUME LinkInv, Reported = "connected" PROVE since["ready"] < StatusTtl
      BY DEF ConnectedMeansReady
    <2>1. key.status # Absent /\ key.status.value = "connected"
      BY DEF Reported
    <2>2. key.status.ttl \in Nat \ {0} /\ since["connected"] + key.status.ttl <= StatusTtl
      BY <2>1, Standing DEF KeysAge
    <2>3. since["ready"] \in Nat /\ since["connected"] \in Nat /\ StatusTtl \in Nat
      BY LinkAssumption, Vocabulary DEF LinkInv, TypeOK
    <2>4. since["ready"] <= since["connected"]
      BY DEF LinkInv, ConnectedIsReady
    <2> QED
      BY <2>2, <2>3, <2>4
  <1> QED
    BY <1>1, LinkHolds, PTL

-----------------------------------------------------------------------------
(* The worker that MCWorker puts together.                                 *)

Posting == INSTANCE WebhookFanoutProofs
  WITH Tenants <- {t1}, Notices <- {n1}, EventOf <- [n \in {n1} |-> e1],
       TenantOf <- [n \in {n1} |-> t1], Hooks <- {h1, hp},
       HookTenant <- [h \in {h1, hp} |-> IF h = h1 THEN t1 ELSE Platform],
       Events <- {e1}, Urls <- {u1}, Processors <- {p1},
       MaxFaults <- MaxDeliveryFaults, MaxEdits <- 0, faults <- deliveryFaults

\* Posting and MCWorker's Fanout have the same steps.
LEMMA SameDeliverySteps == Posting!Next <=> Fanout!Next
  BY DEF Posting!Next, Fanout!Next, Posting!Edit, Fanout!Edit, Posting!Dispatch,
         Fanout!Dispatch, Posting!DispatchFails, Fanout!DispatchFails, Posting!FindSubscribers,
         Fanout!FindSubscribers, Posting!QueueDeliveries, Fanout!QueueDeliveries,
         Posting!Process, Fanout!Process, Posting!Lapse, Fanout!Lapse, Posting!Take,
         Fanout!Take, Posting!Promote, Fanout!Promote, Posting!Operator, Fanout!Operator,
         Posting!Accepted, Fanout!Accepted, Posting!Refused, Fanout!Refused,
         Posting!AnswerLost, Fanout!AnswerLost, Posting!Finish, Fanout!Finish, Posting!Post,
         Fanout!Post, Posting!Target, Fanout!Target, Posting!Fault, Fanout!Fault,
         Posting!Suffers, Fanout!Suffers, Posting!Retry, Fanout!Retry, Posting!Discard,
         Fanout!Discard, Posting!Remove, Fanout!Remove, Posting!Operate, Fanout!Operate,
         Posting!Subscribes, Fanout!Subscribes, Posting!Webhook, Fanout!Webhook,
         Posting!Deliveries, Fanout!Deliveries, Posting!IdleRun, Fanout!IdleRun, Posting!sent,
         Fanout!sent, Posting!bounds, Fanout!bounds, Posting!AddedJob, Fanout!AddedJob,
         Posting!Taken, Fanout!Taken, Posting!Completed, Fanout!Completed,
         Posting!FailedAttempt, Fanout!FailedAttempt, Posting!Stalled, Fanout!Stalled,
         Posting!Promoted, Fanout!Promoted, Posting!Reprocessed, Fanout!Reprocessed,
         Posting!Removed, Fanout!Removed

\* The constants MCWorker gives are what WebhookFanout assumes of them.
LEMMA SameDeliveryConstants ==
  Posting!FanoutAssumption /\ Posting!AttemptsAssumption /\ Posting!StalledAssumption
  BY DeliveryConstants

\* A behaviour of the worker is one of the link ...
LEMMA WorkerLink == WorkerSpec => Spec
  <1>1. WorkerInit => Init
    BY DEF WorkerInit
  <1>2. [WorkerNext]_workerVars => [Next]_vars
    BY DEF WorkerNext, OnLink, OnDeliveries, workerVars
  <1> QED
    BY <1>1, <1>2, PTL DEF WorkerSpec, Spec

\* ... and one of the deliveries.
LEMMA WorkerDeliveries == WorkerSpec => Posting!Spec
  <1>1. WorkerInit => Posting!Init
    BY DEF WorkerInit, Fanout!Init, Posting!Init, Fanout!Webhook, Posting!Webhook,
           Fanout!Deliveries, Posting!Deliveries, Fanout!NoJob, Posting!NoJob,
           Fanout!IdleRun, Posting!IdleRun
  <1>2. [WorkerNext]_workerVars => [Posting!Next]_(Posting!vars)
    BY SameDeliverySteps DEF WorkerNext, OnLink, OnDeliveries, workerVars, deliveryVars, Posting!vars
  <1> QED
    BY <1>1, <1>2, PTL DEF WorkerSpec, Posting!Spec

\* Every variable of the link and of the deliveries has its type.
THEOREM WorkerTypeCorrect == WorkerSpec => []WorkerTypeOK
  <1>1. Posting!Spec => []Posting!TypeOK
    BY SameDeliveryConstants, Posting!FanoutTypeCorrect
  <1>2. Posting!TypeOK <=> Fanout!TypeOK
    BY DEF Posting!TypeOK, Fanout!TypeOK, Posting!Webhook, Fanout!Webhook, Posting!Run, Fanout!Run,
           Posting!Deliveries, Fanout!Deliveries, Posting!Job, Fanout!Job,
           Posting!JobState, Fanout!JobState
  <1>3. TypeOK /\ Posting!TypeOK => WorkerTypeOK
    BY <1>2 DEF WorkerTypeOK
  <1> QED
    BY <1>1, <1>3, WorkerLink, WorkerDeliveries, LinkTypeCorrect, PTL
=============================================================================

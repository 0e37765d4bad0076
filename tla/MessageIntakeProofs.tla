------------------------ MODULE MessageIntakeProofs ------------------------
(***************************************************************************)
(* Theorems about MessageIntake, for any number of requests, recipients,   *)
(* templates and edits, and any times: a batch is all or nothing, its      *)
(* texts come from one version of one template, and no job is due early.   *)
(***************************************************************************)
EXTENDS MessageIntake, TLAPS

-----------------------------------------------------------------------------
(* The invariant follows a request from one step of its handler to the     *)
(* next: what the handler holds across an await is what it checked or      *)
(* rendered before, and what it stored is what it holds.                   *)

\* The tables, and what was shown, hold what they may.
Tables ==
  /\ req = [r \in Requests |-> req[r]] /\ rows = [r \in Requests |-> rows[r]]
  /\ jobs = [r \in Requests |-> jobs[r]] /\ shown = [r \in Requests |-> shown[r]]
  /\ now \in 0..MaxTime /\ edits \in 0..MaxEdits
  /\ template \in [Templates -> Content \cup {None}]
  /\ \A r \in Requests : shown[r] \subseteq Content

IsRequest(x) ==
  x = [step |-> x.step, key |-> x.key, dto |-> x.dto, at |-> x.at, body |-> x.body]

When(r) == ScheduledAt(req[r].dto, req[r].at)

\* The texts the handler holds are those of one version of the sender's template.
Rendering(r) ==
  LET d == req[r].dto
  IN d.templateId # None =>
       /\ TemplateOwner[d.templateId] = req[r].key.tenant
       /\ \E c \in shown[r] :
            /\ c.channel = d.channel
            /\ \A i \in d.to : Missing(c, d, i) = {} /\ req[r].body[i] = Rendered(c, d, i)

\* The rows of a request are for all its recipients, with these texts, at its time.
RowsFit(r) ==
  /\ Storable(When(r)) /\ ScheduleOk(req[r].dto, req[r].at) /\ Rendering(r)
  /\ DOMAIN req[r].body = req[r].dto.to /\ DOMAIN rows[r] = req[r].dto.to
  /\ \A i \in req[r].dto.to :
       /\ rows[r][i].body = req[r].body[i]
       /\ rows[r][i].scheduledAt = When(r)
       /\ rows[r][i].status = IF When(r) # None THEN "scheduled" ELSE "queued"

\* So are its jobs, none of which is due before that time.
JobsFit(r) ==
  /\ DOMAIN jobs[r] = req[r].dto.to
  /\ \A i \in req[r].dto.to :
       /\ jobs[r][i].due \in Nat
       /\ IF When(r) = None THEN jobs[r][i].due <= now ELSE jobs[r][i].due >= When(r)

\* A request nobody made yet.
Fresh(r) == req[r] = [step |-> "none"] /\ rows[r] = <<>> /\ jobs[r] = <<>>

\* A request at each step of its handler.
Underway(r) ==
  /\ IsRequest(req[r])
  /\ req[r].key \in Key /\ req[r].dto \in Asked /\ req[r].at \in 0..now
  /\ req[r].step \in {"lookup", "prepared", "saved", "queued", "refused"}
  /\ req[r].step \in {"lookup", "prepared"} =>
       ScheduleOk(req[r].dto, req[r].at) /\ DOMAIN req[r].body = req[r].dto.to
  /\ req[r].step = "lookup" =>
       req[r].dto.templateId # None /\ template[req[r].dto.templateId] \in shown[r] \cup {None}
  /\ req[r].step = "prepared" => Rendering(r)
  /\ req[r].step \in {"saved", "queued"} => RowsFit(r)
  /\ rows[r] = <<>> \/ (req[r].step \in {"saved", "queued", "refused"} /\ RowsFit(r))
  /\ req[r].step = "queued" => JobsFit(r)
  /\ req[r].step # "queued" => jobs[r] = <<>>

IntakeInv == Tables /\ \A r \in Requests : Fresh(r) \/ Underway(r)

-----------------------------------------------------------------------------
\* A schedule that was let through and stored is none, or lies ahead of the
\* request by no more than MaxAhead.
LEMMA StoredSchedule ==
  ASSUME IntakeAssumption, NEW d \in Asked, NEW at \in Nat,
         ScheduleOk(d, at), Storable(ScheduledAt(d, at))
  PROVE  ScheduledAt(d, at) = None \/ ScheduledAt(d, at) \in (at + 1)..(at + MaxAhead)
  <1>1. /\ d.sendAt \in Nat \cup {None, Unreadable} /\ d.delaySeconds \in (1..MaxAhead) \cup {None}
        /\ MaxAhead \in Nat
    BY DEF IntakeAssumption, Dto
  <1>2. CASE d.sendAt # None
    BY <1>1, <1>2 DEF ScheduledAt, ScheduleOk, Storable
  <1>3. CASE d.sendAt = None /\ d.delaySeconds # None
    BY <1>1, <1>3 DEF ScheduledAt
  <1>4. CASE d.sendAt = None /\ d.delaySeconds = None
    BY <1>4 DEF ScheduledAt
  <1> QED
    BY <1>2, <1>3, <1>4

\* A request that takes a step has the fields it had, but for the step.
LEMMA GotoMoves ==
  ASSUME Tables, NEW r \in Requests, IsRequest(req[r]), NEW step, Goto(r, step)
  PROVE  /\ req' = [s \in Requests |-> req'[s]]
         /\ \A s \in Requests \ {r} : req'[s] = req[s]
         /\ req'[r] = [step |-> step, key |-> req[r].key, dto |-> req[r].dto,
                       at |-> req[r].at, body |-> req[r].body]
  <1>1. req' = [req EXCEPT ![r] = [req[r] EXCEPT !.step = step]]
    BY DEF Goto
  <1>2. [req[r] EXCEPT !.step = step]
          = [step |-> step, key |-> req[r].key, dto |-> req[r].dto,
             at |-> req[r].at, body |-> req[r].body]
    BY DEF IsRequest
  <1>3. req = [s \in Requests |-> req[s]]
    BY DEF Tables
  <1> QED
    BY <1>1, <1>2, <1>3

\* A step of one request keeps the invariant if it is right for that request.
LEMMA OneRequestSteps ==
  ASSUME IntakeInv, NEW r \in Requests, Tables', UNCHANGED <<now, template>>,
         \A s \in Requests \ {r} : /\ req'[s] = req[s] /\ rows'[s] = rows[s]
                                   /\ jobs'[s] = jobs[s] /\ shown'[s] = shown[s],
         Underway(r)'
  PROVE  IntakeInv'
  <1>1. ASSUME NEW s \in Requests, s # r PROVE Fresh(s)' \/ Underway(s)'
    <2>1. Fresh(s) => Fresh(s)'
      BY <1>1 DEF Fresh
    <2>2. Underway(s) => Underway(s)'
      <3>1. /\ req'[s] = req[s] /\ rows'[s] = rows[s] /\ jobs'[s] = jobs[s]
            /\ shown'[s] = shown[s] /\ now' = now /\ template' = template
        BY <1>1
      <3>2. When(s)' = When(s)
        BY <3>1 DEF When
      <3>3. Rendering(s) => Rendering(s)'
        BY <3>1 DEF Rendering
      <3>4. RowsFit(s) => RowsFit(s)'
        BY <3>1, <3>2, <3>3 DEF RowsFit
      <3>5. JobsFit(s) => JobsFit(s)'
        BY <3>1, <3>2 DEF JobsFit
      <3> QED
        BY <3>1, <3>3, <3>4, <3>5 DEF Underway, IsRequest
    <2> QED
      BY <1>1, <2>1, <2>2 DEF IntakeInv
  <1> QED
    BY <1>1 DEF IntakeInv

\* At first no request was made.
LEMMA IntakeInit == IntakeAssumption /\ Init => IntakeInv
  BY DEF IntakeAssumption, Init, IntakeInv, Tables, Fresh

\* A request arrives.
LEMMA IntakeReceives ==
  ASSUME IntakeAssumption, IntakeInv, NEW r \in Requests, req[r].step = "none",
         NEW k \in Key, NEW d \in Asked, Received(r, k, d)
  PROVE  IntakeInv'
  <1> DEFINE step == IF ~ChannelAllowed(k, d.channel) \/ ~ScheduleOk(d, now) THEN "refused"
                     ELSE IF d.templateId = None THEN "prepared"
                     ELSE IF d.message THEN "refused" ELSE "lookup"
             new == [step |-> step, key |-> k, dto |-> d, at |-> now, body |-> [i \in d.to |-> NoBody]]
  <1>1. Tables /\ rows[r] = <<>> /\ jobs[r] = <<>>
    BY DEF IntakeInv, Underway, Fresh
  <1>2. /\ req' = [req EXCEPT ![r] = new]
        /\ shown' = [shown EXCEPT ![r] =
             IF d.templateId = None THEN {} ELSE {template[d.templateId]} \ {None}]
        /\ UNCHANGED <<now, template, rows, jobs, edits>>
    BY DEF Received
  <1>3. d.templateId # None => d.templateId \in Templates
    BY DEF IntakeAssumption, Dto
  <1>4. Tables'
    <2>1. req' = [s \in Requests |-> req'[s]]
      BY <1>1, <1>2 DEF Tables
    <2>2. shown' = [s \in Requests |-> shown'[s]] /\ \A s \in Requests : shown'[s] \subseteq Content
      BY <1>1, <1>2, <1>3 DEF Tables
    <2> QED
      BY <1>1, <1>2, <2>1, <2>2 DEF Tables
  <1>5. req'[r] = new /\ \A s \in Requests \ {r} : req'[s] = req[s] /\ shown'[s] = shown[s]
    BY <1>1, <1>2 DEF Tables
  <1>6. shown'[r] = IF d.templateId = None THEN {} ELSE {template[d.templateId]} \ {None}
    BY <1>1, <1>2 DEF Tables
  <1>7. /\ new.step = step /\ new.key = k /\ new.dto = d /\ new.at = now
        /\ new.body = [i \in d.to |-> NoBody] /\ IsRequest(new)
    BY DEF IsRequest
  <1>8. /\ step \in {"lookup", "prepared", "refused"}
        /\ step \in {"lookup", "prepared"} => ScheduleOk(d, now)
        /\ step = "prepared" => d.templateId = None
        /\ step = "lookup" => d.templateId # None
    OBVIOUS
  <1> HIDE DEF new, step
  <1>9. Underway(r)'
    <2>1. IsRequest(req[r])'
      BY <1>5, <1>7 DEF IsRequest
    <2>2. now \in 0..now
      BY <1>1 DEF Tables
    <2>3. step = "prepared" => Rendering(r)'
      BY <1>5, <1>7, <1>8 DEF Rendering
    <2> QED
      BY <1>1, <1>2, <1>5, <1>6, <1>7, <1>8, <2>1, <2>2, <2>3 DEF Underway
  <1> QED
    BY <1>2, <1>4, <1>5, <1>9, OneRequestSteps

\* The template is read and the texts are rendered, in one step.
LEMMA IntakePrepares ==
  ASSUME IntakeAssumption, IntakeInv, NEW r \in Requests, Prepare(r)
  PROVE  IntakeInv'
  <1> DEFINE d == req[r].dto
             c == template[d.templateId]
  <1>1. /\ req[r].step = "lookup" /\ UNCHANGED <<now, template, rows, jobs, shown, edits>>
        /\ \/ /\ Resolves(req[r].key, d) /\ \A i \in d.to : Missing(c, d, i) = {}
              /\ req' = [req EXCEPT ![r].step = "prepared",
                                    ![r].body = [i \in d.to |-> Rendered(c, d, i)]]
           \/ Goto(r, "refused")
    BY DEF Prepare
  <1>2. Tables /\ Underway(r)
    BY <1>1 DEF IntakeInv, Fresh
  <1>3. /\ IsRequest(req[r]) /\ req[r].dto \in Asked
        /\ d.templateId # None /\ c \in shown[r] \cup {None} /\ rows[r] = <<>> /\ jobs[r] = <<>>
        /\ ScheduleOk(d, req[r].at) /\ DOMAIN req[r].body = d.to
    BY <1>1, <1>2 DEF Underway
  <1>4. CASE Goto(r, "refused")
    <2>1. /\ req' = [s \in Requests |-> req'[s]]
          /\ \A s \in Requests \ {r} : req'[s] = req[s]
          /\ req'[r] = [step |-> "refused", key |-> req[r].key, dto |-> req[r].dto,
                        at |-> req[r].at, body |-> req[r].body]
      BY <1>2, <1>3, <1>4, GotoMoves
    <2>2. Tables'
      BY <1>1, <1>2, <2>1 DEF Tables
    <2>3. Underway(r)'
      BY <1>1, <1>2, <1>3, <2>1 DEF Underway, IsRequest
    <2> QED
      BY <1>1, <2>1, <2>2, <2>3, OneRequestSteps
  <1>5. CASE /\ Resolves(req[r].key, d) /\ \A i \in d.to : Missing(c, d, i) = {}
             /\ req' = [req EXCEPT ![r].step = "prepared",
                                   ![r].body = [i \in d.to |-> Rendered(c, d, i)]]
    <2> DEFINE body == [i \in d.to |-> Rendered(c, d, i)]
               new == [step |-> "prepared", key |-> req[r].key, dto |-> d,
                       at |-> req[r].at, body |-> body]
    <2>1. req' = [req EXCEPT ![r] = [req[r] EXCEPT !.step = "prepared", !.body = body]]
      BY <1>2, <1>5 DEF Tables
    <2>2. [req[r] EXCEPT !.step = "prepared", !.body = body] = new
      <3> HIDE DEF body
      <3> DEFINE read == [req[r] EXCEPT !.step = "prepared"]
      <3>1. [req[r] EXCEPT !.step = "prepared", !.body = body] = [read EXCEPT !.body = body]
        BY Zenon
      <3>2. read = [step |-> "prepared", key |-> req[r].key, dto |-> d, at |-> req[r].at,
                    body |-> req[r].body]
        BY <1>3 DEF IsRequest
      <3> HIDE DEF read
      <3>3. [read EXCEPT !.body = body] = new
        BY <3>2
      <3> QED
        BY <3>1, <3>3
    <2>3. /\ req' = [s \in Requests |-> req'[s]] /\ req'[r] = new
          /\ \A s \in Requests \ {r} : req'[s] = req[s]
      BY <1>2, <2>1, <2>2 DEF Tables
    <2>4. Tables'
      BY <1>1, <1>2, <2>3 DEF Tables
    <2>5. /\ c # None /\ c \in shown[r] /\ c.channel = d.channel
          /\ TemplateOwner[d.templateId] = req[r].key.tenant
      BY <1>3, <1>5 DEF Resolves
    <2>6. /\ new.step = "prepared" /\ new.key = req[r].key /\ new.dto = d /\ new.at = req[r].at
          /\ new.body = body /\ IsRequest(new) /\ DOMAIN body = d.to
          /\ \A i \in d.to : body[i] = Rendered(c, d, i)
      BY DEF IsRequest
    <2> HIDE DEF new, body
    <2>7. Rendering(r)'
      <3>1. d.templateId # None =>
              /\ TemplateOwner[d.templateId] = req[r].key.tenant
              /\ \E v \in shown[r] :
                   /\ v.channel = d.channel
                   /\ \A i \in d.to : Missing(v, d, i) = {} /\ body[i] = Rendered(v, d, i)
        BY <1>5, <2>5, <2>6
      <3>2. req'[r].dto = d /\ req'[r].key = req[r].key /\ req'[r].body = body /\ shown' = shown
        BY <1>1, <2>3, <2>6
      <3> HIDE DEF c, d
      <3> QED
        BY <3>1, <3>2 DEF Rendering
    <2>8. Underway(r)'
      BY <1>1, <1>2, <1>3, <2>3, <2>6, <2>7 DEF Underway, IsRequest
    <2> QED
      BY <1>1, <2>3, <2>4, <2>8, OneRequestSteps
  <1> QED
    BY <1>1, <1>4, <1>5

\* The rows are stored for what the handler holds, all or none.
LEMMA IntakeSaves ==
  ASSUME IntakeInv, NEW r \in Requests, Save(r)
  PROVE  IntakeInv'
  <1> DEFINE d == req[r].dto
             when == ScheduledAt(d, req[r].at)
             new == [i \in DOMAIN req[r].body |->
                       [channel |-> d.channel, tenant |-> req[r].key.tenant, body |-> req[r].body[i],
                        scheduledAt |-> when,
                        status |-> IF when # None THEN "scheduled" ELSE "queued"]]
  <1>1. /\ req[r].step = "prepared" /\ UNCHANGED <<now, template, jobs, shown, edits>>
        /\ \/ Storable(when) /\ rows' = [rows EXCEPT ![r] = new] /\ Goto(r, "saved")
           \/ Goto(r, "refused") /\ UNCHANGED rows
    BY DEF Save
  <1>2. Tables /\ Underway(r)
    BY <1>1 DEF IntakeInv, Fresh
  <1>3. PICK step \in {"saved", "refused"} : Goto(r, step)
    BY <1>1
  <1>4. /\ req' = [s \in Requests |-> req'[s]]
        /\ \A s \in Requests \ {r} : req'[s] = req[s]
        /\ req'[r] = [step |-> step, key |-> req[r].key, dto |-> req[r].dto,
                      at |-> req[r].at, body |-> req[r].body]
    BY <1>2, <1>3, GotoMoves DEF Underway
  <1>5. /\ req'[r].step = step /\ req'[r].key = req[r].key /\ req'[r].dto = d
        /\ req'[r].at = req[r].at /\ req'[r].body = req[r].body /\ IsRequest(req'[r])
    BY <1>4 DEF IsRequest
  <1>6. /\ rows[r] = <<>> /\ jobs[r] = <<>> /\ ScheduleOk(d, req[r].at)
        /\ DOMAIN req[r].body = d.to /\ Rendering(r)
    BY <1>1, <1>2 DEF Underway
  <1>7. Rendering(r)' /\ When(r)' = when
    BY <1>1, <1>5, <1>6 DEF Rendering, When
  <1>8. CASE Goto(r, "refused") /\ UNCHANGED rows
    <2>1. req'[r].step = "refused" /\ Tables'
      BY <1>1, <1>2, <1>4, <1>8, GotoMoves DEF Tables, Underway
    <2>2. Underway(r)'
      BY <1>1, <1>2, <1>5, <1>6, <1>8, <2>1 DEF Underway, IsRequest
    <2> QED
      BY <1>1, <1>4, <1>8, <2>1, <2>2, OneRequestSteps
  <1>9. CASE Storable(when) /\ rows' = [rows EXCEPT ![r] = new] /\ Goto(r, "saved")
    <2>1. req'[r].step = "saved"
      <3>1. Goto(r, "saved") /\ IsRequest(req[r])
        BY <1>2, <1>9 DEF Underway
      <3>2. req'[r] = [step |-> "saved", key |-> req[r].key, dto |-> req[r].dto,
                       at |-> req[r].at, body |-> req[r].body]
        BY <1>2, <3>1, GotoMoves
      <3> QED
        BY <3>2
    <2>2. /\ rows' = [s \in Requests |-> rows'[s]] /\ rows'[r] = new
          /\ \A s \in Requests \ {r} : rows'[s] = rows[s]
      BY <1>2, <1>9 DEF Tables
    <2>3. Tables'
      BY <1>1, <1>2, <1>4, <2>2 DEF Tables
    <2>4. /\ DOMAIN new = d.to
          /\ \A i \in d.to : /\ new[i].body = req[r].body[i] /\ new[i].scheduledAt = when
                             /\ new[i].status = IF when # None THEN "scheduled" ELSE "queued"
      BY <1>6
    <2> HIDE DEF new, when
    <2>5. RowsFit(r)'
      BY <1>5, <1>6, <1>7, <1>9, <2>2, <2>4 DEF RowsFit
    <2>6. Underway(r)'
      BY <1>1, <1>2, <1>5, <1>6, <2>1, <2>5 DEF Underway, IsRequest
    <2> QED
      BY <1>1, <1>4, <2>2, <2>3, <2>6, OneRequestSteps
  <1> QED
    BY <1>1, <1>8, <1>9

\* The jobs are added for what the rows were stored from, all or none, and the
\* delay counts from a later time than the one it was computed for.
LEMMA IntakeEnqueues ==
  ASSUME IntakeAssumption, IntakeInv, NEW r \in Requests, Enqueue(r)
  PROVE  IntakeInv'
  <1> DEFINE new == [i \in DOMAIN req[r].body |-> [body |-> req[r].body[i], due |-> Due(r)]]
  <1>1. /\ req[r].step = "saved" /\ UNCHANGED <<now, template, rows, shown, edits>>
        /\ \/ jobs' = [jobs EXCEPT ![r] = new] /\ Goto(r, "queued")
           \/ Goto(r, "refused") /\ UNCHANGED jobs
    BY DEF Enqueue
  <1>2. Tables /\ Underway(r)
    BY <1>1 DEF IntakeInv, Fresh
  <1>3. PICK step \in {"queued", "refused"} : Goto(r, step)
    BY <1>1
  <1>4. /\ req' = [s \in Requests |-> req'[s]]
        /\ \A s \in Requests \ {r} : req'[s] = req[s]
        /\ req'[r] = [step |-> step, key |-> req[r].key, dto |-> req[r].dto,
                      at |-> req[r].at, body |-> req[r].body]
    BY <1>2, <1>3, GotoMoves DEF Underway
  <1>5. /\ req'[r].step = step /\ req'[r].key = req[r].key /\ req'[r].dto = req[r].dto
        /\ req'[r].at = req[r].at /\ req'[r].body = req[r].body /\ IsRequest(req'[r])
    BY <1>4 DEF IsRequest
  <1>6. RowsFit(r) /\ jobs[r] = <<>>
    BY <1>1, <1>2 DEF Underway
  <1>7. When(r)' = When(r)
    BY <1>5 DEF When
  <1>8. RowsFit(r)'
    <2>1. Rendering(r)'
      BY <1>1, <1>5, <1>6 DEF RowsFit, Rendering
    <2> QED
      BY <1>1, <1>5, <1>6, <1>7, <2>1 DEF RowsFit
  <1>9. CASE Goto(r, "refused") /\ UNCHANGED jobs
    <2>1. req'[r].step = "refused" /\ Tables'
      BY <1>1, <1>2, <1>4, <1>9, GotoMoves DEF Tables, Underway
    <2>2. Underway(r)'
      BY <1>1, <1>2, <1>5, <1>6, <1>8, <1>9, <2>1 DEF Underway, IsRequest
    <2> QED
      BY <1>1, <1>4, <1>9, <2>1, <2>2, OneRequestSteps
  <1>10. CASE jobs' = [jobs EXCEPT ![r] = new] /\ Goto(r, "queued")
    <2>1. req'[r].step = "queued"
      <3>1. Goto(r, "queued") /\ IsRequest(req[r])
        BY <1>2, <1>10 DEF Underway
      <3>2. req'[r] = [step |-> "queued", key |-> req[r].key, dto |-> req[r].dto,
                       at |-> req[r].at, body |-> req[r].body]
        BY <1>2, <3>1, GotoMoves
      <3> QED
        BY <3>2
    <2>2. /\ jobs' = [s \in Requests |-> jobs'[s]] /\ jobs'[r] = new
          /\ \A s \in Requests \ {r} : jobs'[s] = jobs[s]
      BY <1>2, <1>10 DEF Tables
    <2>3. Tables'
      BY <1>1, <1>2, <1>4, <2>2 DEF Tables
    <2>4. DOMAIN new = req[r].dto.to /\ \A i \in req[r].dto.to : new[i].due = Due(r)
      BY <1>6 DEF RowsFit
    <2> HIDE DEF new
    <2>5. /\ Due(r) \in Nat
          /\ IF When(r) = None THEN Due(r) <= now ELSE Due(r) >= When(r)
      <3>1. now \in Nat /\ req[r].at \in Nat /\ req[r].at <= now /\ req[r].dto \in Asked
        BY <1>2 DEF Tables, Underway, IntakeAssumption
      <3>2. MaxAhead \in Nat
        BY DEF IntakeAssumption
      <3>3. When(r) = None \/ When(r) \in (req[r].at + 1)..(req[r].at + MaxAhead)
        BY <1>6, <3>1, StoredSchedule DEF RowsFit, When
      <3>4. Due(r) = now + IF When(r) = None THEN 0 ELSE When(r) - req[r].at
        BY DEF Due, When
      <3>5. CASE When(r) = None
        BY <3>1, <3>4, <3>5
      <3>6. CASE When(r) # None
        BY <3>1, <3>2, <3>3, <3>4, <3>6
      <3> QED
        BY <3>5, <3>6
    <2>6. JobsFit(r)'
      BY <1>1, <1>5, <1>7, <2>2, <2>4, <2>5 DEF JobsFit
    <2>7. Underway(r)'
      BY <1>1, <1>2, <1>5, <1>8, <2>1, <2>6 DEF Underway, IsRequest
    <2> QED
      BY <1>1, <1>4, <2>2, <2>3, <2>7, OneRequestSteps
  <1> QED
    BY <1>1, <1>9, <1>10

\* Templates are edited and time passes: requests in between two steps stay
\* what they were, and have seen what their template became.
LEMMA IntakeAround ==
  ASSUME IntakeAssumption, IntakeInv, Tick \/ \E t \in Templates : EditTemplate(t)
  PROVE  IntakeInv'
  <1>0. Tables
    BY DEF IntakeInv
  <1>1. UNCHANGED <<req, rows, jobs>>
    BY DEF Tick, EditTemplate
  <1>2. /\ \A r \in Requests : shown[r] \subseteq shown'[r]
        /\ Tables' /\ now' >= now
        /\ \A r \in Requests : req[r].step = "lookup" /\ Underway(r) =>
             template'[req[r].dto.templateId] \in shown'[r] \cup {None}
    <2>1. CASE Tick
      <3>1. now' \in 0..MaxTime /\ now' >= now
        BY <1>0, <2>1 DEF Tick, Tables, IntakeAssumption
      <3> QED
        BY <1>0, <1>1, <2>1, <3>1 DEF Tick, Tables, Underway
    <2>2. ASSUME NEW t \in Templates, EditTemplate(t)
          PROVE  /\ \A r \in Requests : shown[r] \subseteq shown'[r]
                 /\ Tables' /\ now' >= now
                 /\ \A r \in Requests : req[r].step = "lookup" /\ Underway(r) =>
                      template'[req[r].dto.templateId] \in shown'[r] \cup {None}
      <3>1. PICK v \in Content \cup {None} :
              /\ template' = [template EXCEPT ![t] = v]
              /\ shown' = [r \in Requests |->
                   IF req[r].step = "lookup" /\ req[r].dto.templateId = t
                   THEN shown[r] \cup ({v} \ {None}) ELSE shown[r]]
        BY <2>2 DEF EditTemplate
      <3>2. now' = now /\ now \in Nat /\ edits' \in 0..MaxEdits
        BY <1>0, <2>2 DEF EditTemplate, Tables, IntakeAssumption
      <3>3. template' \in [Templates -> Content \cup {None}]
        BY <1>0, <3>1 DEF Tables
      <3>4. /\ shown' = [r \in Requests |-> shown'[r]]
            /\ \A r \in Requests : shown'[r] \subseteq Content /\ shown[r] \subseteq shown'[r]
        BY <1>0, <3>1 DEF Tables
      <3>5. Tables'
        BY <1>0, <1>1, <3>2, <3>3, <3>4 DEF Tables
      <3>6. ASSUME NEW r \in Requests, req[r].step = "lookup", Underway(r)
            PROVE  template'[req[r].dto.templateId] \in shown'[r] \cup {None}
        <4>1. req[r].dto.templateId \in Templates
          BY <3>6 DEF Underway, IntakeAssumption, Dto
        <4>2. template[req[r].dto.templateId] \in shown[r] \cup {None}
          BY <3>6 DEF Underway
        <4> QED
          BY <1>0, <3>1, <3>6, <4>1, <4>2 DEF Tables
      <3> QED
        BY <3>2, <3>4, <3>5, <3>6
    <2> QED
      BY <2>1, <2>2
  <1>3. ASSUME NEW r \in Requests, Underway(r) PROVE Underway(r)'
    <2>1. When(r)' = When(r)
      BY <1>1 DEF When
    <2>2. Rendering(r) => Rendering(r)'
      BY <1>1, <1>2 DEF Rendering
    <2>3. RowsFit(r) => RowsFit(r)'
      BY <1>1, <2>1, <2>2 DEF RowsFit
    <2>4. now \in Nat /\ now' \in Nat
      BY <1>0, <1>2 DEF Tables, IntakeAssumption
    <2>5. JobsFit(r) => JobsFit(r)'
      BY <1>1, <1>2, <2>1, <2>4 DEF JobsFit
    <2>6. req[r].at \in 0..now => req[r].at \in 0..now'
      BY <1>2, <2>4
    <2> QED
      BY <1>1, <1>2, <1>3, <2>2, <2>3, <2>5, <2>6 DEF Underway, IsRequest
  <1>4. ASSUME NEW r \in Requests, Fresh(r) PROVE Fresh(r)'
    BY <1>1, <1>4 DEF Fresh
  <1> QED
    BY <1>2, <1>3, <1>4 DEF IntakeInv

\* The invariant holds throughout, for constants as the assumption has them.
LEMMA IntakeHolds ==
  ASSUME IntakeAssumption
  PROVE  Spec => []IntakeInv
  <1>1. IntakeInv /\ [Next]_vars => IntakeInv'
    <2> SUFFICES ASSUME IntakeInv, [Next]_vars PROVE IntakeInv'
      OBVIOUS
    <2>1. CASE UNCHANGED vars
      <3>1. ASSUME NEW r \in Requests PROVE Fresh(r)' \/ Underway(r)'
        <4>1. Fresh(r) => Fresh(r)'
          BY <2>1 DEF vars, Fresh
        <4>2. /\ When(r)' = When(r) /\ (Rendering(r) => Rendering(r)')
          BY <2>1 DEF vars, When, Rendering
        <4>3. (RowsFit(r) => RowsFit(r)') /\ (JobsFit(r) => JobsFit(r)')
          BY <2>1, <4>2 DEF vars, RowsFit, JobsFit
        <4>4. Underway(r) => Underway(r)'
          BY <2>1, <4>2, <4>3 DEF vars, Underway, IsRequest
        <4> QED
          BY <4>1, <4>4 DEF IntakeInv
      <3> QED
        BY <2>1, <3>1 DEF vars, IntakeInv, Tables
    <2>2. ASSUME NEW r \in Requests, Send(r) \/ SendBulk(r) PROVE IntakeInv'
      BY <2>2, IntakeReceives DEF Send, SendBulk
    <2> QED
      BY <2>1, <2>2, IntakePrepares, IntakeSaves, IntakeEnqueues, IntakeAround DEF Next
  <1> QED
    BY <1>1, IntakeInit, PTL DEF Spec

\* Every reachable state is well typed.
THEOREM IntakeTypeCorrect ==
  ASSUME IntakeAssumption
  PROVE  Spec => []TypeOK
  <1>1. IntakeInv => TypeOK
    <2> SUFFICES ASSUME IntakeInv, NEW r \in Requests
                 PROVE  /\ req[r].step \in {"none", "lookup", "prepared", "saved", "queued", "refused"}
                        /\ DOMAIN rows[r] \subseteq Recipients
                        /\ \A i \in DOMAIN rows[r] :
                             /\ rows[r][i].status \in {"queued", "scheduled"}
                             /\ rows[r][i].scheduledAt \in Nat \cup {None}
                        /\ DOMAIN jobs[r] \subseteq Recipients
                        /\ \A i \in DOMAIN jobs[r] : jobs[r][i].due \in Nat
      BY DEF IntakeInv, Tables, TypeOK
    <2>1. DOMAIN <<>> = {}
      OBVIOUS
    <2>2. CASE Fresh(r)
      BY <2>1, <2>2 DEF Fresh
    <2>3. CASE Underway(r)
      <3>1. req[r].dto \in Asked /\ req[r].dto.to \subseteq Recipients /\ req[r].at \in Nat
        BY <2>3 DEF Underway, IntakeAssumption, Dto, IntakeInv, Tables
      <3>2. rows[r] # <<>> => /\ DOMAIN rows[r] \subseteq Recipients
                              /\ \A i \in DOMAIN rows[r] :
                                   /\ rows[r][i].status \in {"queued", "scheduled"}
                                   /\ rows[r][i].scheduledAt \in Nat \cup {None}
        <4> SUFFICES ASSUME rows[r] # <<>>
                     PROVE  /\ DOMAIN rows[r] \subseteq Recipients
                            /\ \A i \in DOMAIN rows[r] :
                                 /\ rows[r][i].status \in {"queued", "scheduled"}
                                 /\ rows[r][i].scheduledAt \in Nat \cup {None}
          OBVIOUS
        <4>1. RowsFit(r)
          BY <2>3 DEF Underway
        <4>2. MaxAhead \in Nat
          BY DEF IntakeAssumption
        <4>3. When(r) \in Nat \cup {None}
          BY <3>1, <4>1, <4>2, StoredSchedule DEF RowsFit, When
        <4> QED
          BY <3>1, <4>1, <4>3 DEF RowsFit
      <3>3. /\ DOMAIN jobs[r] \subseteq Recipients
            /\ \A i \in DOMAIN jobs[r] : jobs[r][i].due \in Nat
        BY <2>1, <2>3, <3>1 DEF Underway, JobsFit
      <3> QED
        BY <2>1, <2>3, <3>2, <3>3 DEF Underway
    <2> QED
      BY <2>2, <2>3 DEF IntakeInv
  <1> QED
    BY <1>1, IntakeHolds, PTL

\* A batch of any size is sent to all its recipients or to none.
THEOREM BatchesAreWhole ==
  ASSUME IntakeAssumption
  PROVE  Spec => []WholeBatch
  <1>1. IntakeInv => WholeBatch
    <2> SUFFICES ASSUME IntakeInv, NEW r \in Requests
                 PROVE  /\ \/ DOMAIN rows[r] = {}
                           \/ req[r].step # "none" /\ DOMAIN rows[r] = req[r].dto.to
                        /\ DOMAIN jobs[r] \in {{}, DOMAIN rows[r]}
      BY DEF WholeBatch
    <2>1. DOMAIN <<>> = {}
      OBVIOUS
    <2>2. CASE Fresh(r)
      BY <2>1, <2>2 DEF Fresh
    <2>3. CASE Underway(r)
      BY <2>1, <2>3 DEF Underway, RowsFit, JobsFit
    <2> QED
      BY <2>2, <2>3 DEF IntakeInv
  <1> QED
    BY <1>1, IntakeHolds, PTL

\* All texts of a batch come from one version of a template of the sender's,
\* with the recipient's own values first, however templates are edited.
THEOREM TextsAreOfOneVersion ==
  ASSUME IntakeAssumption
  PROVE  Spec => []OneVersion
  <1>1. IntakeInv => OneVersion
    <2> SUFFICES ASSUME IntakeInv, NEW r \in Requests, Templated(r)
                 PROVE  /\ TemplateOwner[req[r].dto.templateId] = req[r].key.tenant
                        /\ \E c \in shown[r] :
                             /\ c.channel = req[r].dto.channel
                             /\ \A i \in DOMAIN rows[r] :
                                  /\ rows[r][i].body.text = c.text
                                  /\ \A v \in c.holes :
                                       \/ /\ v \in req[r].dto.own[i]
                                          /\ rows[r][i].body.fill[v] = i
                                       \/ /\ v \in req[r].dto.variables \ req[r].dto.own[i]
                                          /\ rows[r][i].body.fill[v] = "all"
      BY DEF OneVersion
    <2> DEFINE d == req[r].dto
    <2>1. rows[r] # <<>> /\ d.templateId # None
      BY DEF Templated
    <2>2. RowsFit(r)
      BY <2>1 DEF IntakeInv, Fresh, Underway
    <2>3. /\ TemplateOwner[d.templateId] = req[r].key.tenant
          /\ \A i \in DOMAIN rows[r] : i \in d.to /\ rows[r][i].body = req[r].body[i]
      BY <2>1, <2>2 DEF RowsFit, Rendering
    <2>4. PICK c \in shown[r] :
            /\ c.channel = d.channel
            /\ \A i \in d.to : Missing(c, d, i) = {} /\ req[r].body[i] = Rendered(c, d, i)
      BY <2>1, <2>2 DEF RowsFit, Rendering
    <2>5. ASSUME NEW i \in DOMAIN rows[r], NEW v \in c.holes
          PROVE  \/ v \in d.own[i] /\ rows[r][i].body.fill[v] = i
                 \/ v \in d.variables \ d.own[i] /\ rows[r][i].body.fill[v] = "all"
      <3>1. i \in d.to /\ rows[r][i].body = Rendered(c, d, i) /\ Missing(c, d, i) = {}
        BY <2>3, <2>4
      <3>2. rows[r][i].body.fill[v] = Value(d, i, v)
        BY <3>1 DEF Rendered
      <3>3. HasValue(d, i, v)
        BY <3>1 DEF Missing
      <3> QED
        BY <3>2, <3>3 DEF Value, HasValue
    <2>6. ASSUME NEW i \in DOMAIN rows[r]
          PROVE  rows[r][i].body.text = c.text
      <3>1. rows[r][i].body = Rendered(c, d, i)
        BY <2>3, <2>4
      <3> QED
        BY <3>1 DEF Rendered
    <2> QED
      BY <2>3, <2>4, <2>5, <2>6
  <1> QED
    BY <1>1, IntakeHolds, PTL

\* Nothing is due before the time it was promised for, or promised for a time
\* the limits do not allow, however long the handler waits between its steps.
THEOREM NothingIsDueEarly ==
  ASSUME IntakeAssumption
  PROVE  Spec => []NeverEarly
  <1>1. IntakeInv => NeverEarly
    <2> SUFFICES ASSUME IntakeInv, NEW r \in Requests, NEW i \in DOMAIN jobs[r]
                 PROVE  IF rows[r][i].status = "scheduled"
                        THEN /\ rows[r][i].scheduledAt \in (req[r].at + 1)..(req[r].at + MaxAhead)
                             /\ jobs[r][i].due >= rows[r][i].scheduledAt
                        ELSE rows[r][i].scheduledAt = None /\ jobs[r][i].due <= now
      BY DEF NeverEarly
    <2>1. Underway(r) /\ RowsFit(r) /\ JobsFit(r)
      <3>1. jobs[r] # <<>>
        OBVIOUS
      <3> QED
        BY <3>1 DEF IntakeInv, Fresh, Underway
    <2>2. req[r].dto \in Asked /\ req[r].at \in Nat
      BY <2>1 DEF Underway, IntakeInv, Tables, IntakeAssumption
    <2>3. When(r) = None \/ When(r) \in (req[r].at + 1)..(req[r].at + MaxAhead)
      BY <2>1, <2>2, StoredSchedule DEF RowsFit, When
    <2>4. i \in req[r].dto.to /\ rows[r][i].scheduledAt = When(r)
      BY <2>1 DEF RowsFit, JobsFit
    <2> QED
      BY <2>1, <2>3, <2>4 DEF RowsFit, JobsFit
  <1> QED
    BY <1>1, IntakeHolds, PTL
=============================================================================

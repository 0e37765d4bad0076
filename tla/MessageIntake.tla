---------------------------- MODULE MessageIntake ----------------------------
(***************************************************************************)
(* What POST /messages/send and /messages/send-bulk make of a request      *)
(* before the pipeline takes over: who may send, when, and what text.  The *)
(* handler reads the clock once, then awaits the template lookup, the      *)
(* INSERT and the enqueueing, while the clock goes on and templates are    *)
(* edited.  send is a batch of one without a batch id.                     *)
(***************************************************************************)
EXTENDS Naturals

CONSTANTS
  Requests,
  Recipients,        \* places in a batch
  Owners,            \* tenants, and the platform (tenant_id IS NULL)
  Templates, TemplateOwner,   \* ids; tenant_id never changes
  Texts,             \* what a template says around its placeholders
  Vars,              \* names of placeholders, as far as PLACEHOLDER_RE matches them
  Grants,            \* what a key's allowedChannels may be, None among them
  SendAts, Delays,   \* the sendAt and delaySeconds a request may ask for, None among them
  Asked,             \* the bodies of requests, of Dto
  Unreadable,        \* a sendAt that is ISO 8601 and no Date: NaN
  MaxAhead,          \* MAX_SCHEDULE_MS
  None,
  MaxTime, MaxEdits  \* bounds on the clock and on edits of templates

Channels == {"email", "whatsapp"}
Content == [channel : Channels, text : Texts, holes : SUBSET Vars]

VARIABLES
  now,       \* milliseconds, coarsely
  template,  \* templates table
  req,       \* the requests
  rows,      \* messages table: the rows of each request
  jobs,      \* the jobs of each request
  shown,     \* history: what the request's template has said since it arrived
  edits

vars == <<now, template, req, rows, jobs, shown, edits>>

\* The key the guard read, and SendMessageDto or SendBulkDto.
Key == [tenant : Owners, channels : Grants]
Dto == [channel : Channels, to : SUBSET Recipients, templateId : Templates \cup {None},
        message : BOOLEAN, variables : SUBSET Vars, own : [Recipients -> SUBSET Vars],
        sendAt : SendAts, delaySeconds : Delays]

\* What the constants are.
IntakeAssumption ==
  /\ TemplateOwner \in [Templates -> Owners]
  /\ Grants \subseteq SUBSET Channels \cup {None}
  /\ SendAts \subseteq Nat \cup {None, Unreadable} /\ Delays \subseteq (1..MaxAhead) \cup {None}
  /\ Asked \subseteq Dto
  /\ MaxAhead \in Nat /\ MaxTime \in Nat /\ MaxEdits \in Nat
  /\ {None, Unreadable} \cap Nat = {} /\ None # Unreadable
  /\ None \notin Templates \cup Content

NoBody == [text |-> None, fill |-> <<>>]

TypeOK ==
  /\ now \in 0..MaxTime /\ edits \in 0..MaxEdits
  /\ template \in [Templates -> Content \cup {None}]
  /\ \A r \in Requests :
       /\ req[r].step \in {"none", "lookup", "prepared", "saved", "queued", "refused"}
       /\ shown[r] \subseteq Content
       /\ DOMAIN rows[r] \subseteq Recipients
       /\ \A i \in DOMAIN rows[r] :
            /\ rows[r][i].status \in {"queued", "scheduled"}
            /\ rows[r][i].scheduledAt \in Nat \cup {None}
       /\ DOMAIN jobs[r] \subseteq Recipients
       /\ \A i \in DOMAIN jobs[r] : jobs[r][i].due \in Nat

Init ==
  /\ now = 0
  /\ template \in [Templates -> Content \cup {None}]
  /\ req = [r \in Requests |-> [step |-> "none"]]
  /\ rows = [r \in Requests |-> <<>>] /\ jobs = [r \in Requests |-> <<>>]
  /\ shown = [r \in Requests |-> {}]
  /\ edits = 0

-----------------------------------------------------------------------------
\* resolveSchedule, at the time the request is read.  NaN is neither <= 0 nor
\* too far ahead; as a bug, the past is not refused.
ScheduleOkLate(d, at) ==
  /\ d.sendAt = None \/ d.delaySeconds = None
  /\ d.sendAt \in Nat => d.sendAt <= at + MaxAhead
ScheduleOk(d, at) ==
  /\ d.sendAt = None \/ d.delaySeconds = None
  /\ d.sendAt \in Nat => d.sendAt > at /\ d.sendAt <= at + MaxAhead

ScheduledAt(d, at) ==
  IF d.sendAt # None THEN d.sendAt
  ELSE IF d.delaySeconds # None THEN at + d.delaySeconds ELSE None

\* assertChannelAllowed
ChannelAllowed(k, channel) == k.channels = None \/ channel \in k.channels

\* resolveTemplate: findOne in the sender's scope, and the channel.
Resolves(k, d) ==
  /\ template[d.templateId] # None
  /\ TemplateOwner[d.templateId] = k.tenant
  /\ template[d.templateId].channel = d.channel

\* { ...dto.variables, ...recipient.variables }; as a bug, the other way round.
ValueSwapped(d, i, v) == IF v \in d.variables THEN "all" ELSE i
Value(d, i, v) == IF v \in d.own[i] THEN i ELSE "all"
HasValue(d, i, v) == v \in d.own[i] \cup d.variables

\* TemplatesService.render.  What the expression does not match stays as it is.
Missing(c, d, i) == {v \in c.holes : ~HasValue(d, i, v)}
Rendered(c, d, i) == [text |-> c.text, fill |-> [v \in c.holes |-> Value(d, i, v)]]

-----------------------------------------------------------------------------
Goto(r, step) == req' = [req EXCEPT ![r].step = step]

\* The dto as the validation pipe lets it through: message without a template,
\* anything beside one.
Valid(d) == d.to # {} /\ (d.templateId = None => d.message)

Received(r, k, d) ==
  /\ Valid(d)
  /\ req' = [req EXCEPT ![r] =
       [step |-> IF ~ChannelAllowed(k, d.channel) \/ ~ScheduleOk(d, now) THEN "refused"
                 ELSE IF d.templateId = None THEN "prepared"
                 ELSE IF d.message THEN "refused" ELSE "lookup",
        key |-> k, dto |-> d, at |-> now, body |-> [i \in d.to |-> NoBody]]]
  /\ shown' = [shown EXCEPT ![r] =
       IF d.templateId = None THEN {} ELSE {template[d.templateId]} \ {None}]
  /\ UNCHANGED <<now, template, rows, jobs, edits>>

\* One recipient; the variables are the dto's.
Send(r) ==
  /\ req[r].step = "none"
  /\ \E k \in Key, d \in Asked :
       /\ \E i \in Recipients : d.to = {i}
       /\ \A i \in Recipients : d.own[i] = {}
       /\ Received(r, k, d)
SendBulk(r) ==
  /\ req[r].step = "none"
  /\ \E k \in Key, d \in Asked : d.to = Recipients /\ Received(r, k, d)

\* The template is read, and every recipient's text rendered, in one go; as a
\* bug, whoever lacks a value is left out.
PrepareSome(r) ==
  LET d == req[r].dto
      c == template[d.templateId]
  IN /\ req[r].step = "lookup"
     /\ IF Resolves(req[r].key, d)
        THEN req' = [req EXCEPT ![r].step = "prepared",
                       ![r].body = [i \in {j \in d.to : Missing(c, d, j) = {}} |-> Rendered(c, d, i)]]
        ELSE Goto(r, "refused")
     /\ UNCHANGED <<now, template, rows, jobs, shown, edits>>
Prepare(r) ==
  LET d == req[r].dto
      c == template[d.templateId]
  IN /\ req[r].step = "lookup"
     /\ IF Resolves(req[r].key, d) /\ \A i \in d.to : Missing(c, d, i) = {}
        THEN req' = [req EXCEPT ![r].step = "prepared",
                                ![r].body = [i \in d.to |-> Rendered(c, d, i)]]
        ELSE Goto(r, "refused")
     /\ UNCHANGED <<now, template, rows, jobs, shown, edits>>

\* An Invalid Date is refused by PostgreSQL.
Storable(when) == when # Unreadable

\* messageRepo.save: all rows or, when it throws, none.
Save(r) ==
  LET d == req[r].dto
      when == ScheduledAt(d, req[r].at)
  IN /\ req[r].step = "prepared"
     /\ \/ /\ Storable(when)
           /\ rows' = [rows EXCEPT ![r] =
                [i \in DOMAIN req[r].body |->
                   [channel |-> d.channel, tenant |-> req[r].key.tenant, body |-> req[r].body[i],
                    scheduledAt |-> when,
                    status |-> IF when # None THEN "scheduled" ELSE "queued"]]]
           /\ Goto(r, "saved")
        \/ Goto(r, "refused") /\ UNCHANGED rows
     /\ UNCHANGED <<now, template, jobs, shown, edits>>

\* When BullMQ may run a job: the delay counts from the call, not from `at`.
Due(r) ==
  LET when == ScheduledAt(req[r].dto, req[r].at)
  IN now + IF when = None THEN 0 ELSE when - req[r].at

\* queue.add or addBulk, with the texts the handler holds; or it throws.
Enqueue(r) ==
  /\ req[r].step = "saved"
  /\ \/ /\ jobs' = [jobs EXCEPT ![r] =
             [i \in DOMAIN req[r].body |-> [body |-> req[r].body[i], due |-> Due(r)]]]
        /\ Goto(r, "queued")
     \/ Goto(r, "refused") /\ UNCHANGED jobs
  /\ UNCHANGED <<now, template, rows, shown, edits>>

\* Somebody creates, edits or deletes a template.
EditTemplate(t) ==
  /\ edits < MaxEdits
  /\ edits' = edits + 1
  /\ \E c \in Content \cup {None} :
       /\ template' = [template EXCEPT ![t] = c]
       /\ shown' = [r \in Requests |->
            IF req[r].step = "lookup" /\ req[r].dto.templateId = t
            THEN shown[r] \cup ({c} \ {None}) ELSE shown[r]]
  /\ UNCHANGED <<now, req, rows, jobs>>

Tick ==
  /\ now < MaxTime
  /\ now' = now + 1
  /\ UNCHANGED <<template, req, rows, jobs, shown, edits>>

Next ==
  \/ \E r \in Requests : Send(r) \/ SendBulk(r) \/ Prepare(r) \/ Save(r) \/ Enqueue(r)
  \/ \E t \in Templates : EditTemplate(t)
  \/ Tick

Spec == Init /\ [][Next]_vars

-----------------------------------------------------------------------------
Templated(r) == rows[r] # <<>> /\ req[r].dto.templateId # None

\* A request is sent to all its recipients or to none, rows and jobs alike, one
\* recipient without a value refusing the batch (messages.service.ts:139).
WholeBatch ==
  \A r \in Requests :
    /\ DOMAIN rows[r] \in {{}} \cup (IF req[r].step = "none" THEN {} ELSE {req[r].dto.to})
    /\ DOMAIN jobs[r] \in {{}, DOMAIN rows[r]}

\* All texts of a batch come from one version the template had while the
\* request ran, for the sender's channel and of the sender's tenant, filled with
\* the recipient's own values before the common ones, although the template is
\* edited meanwhile (messages.service.ts:57, templates.service.ts:65).
OneVersion ==
  \A r \in Requests : Templated(r) =>
    LET d == req[r].dto
    IN /\ TemplateOwner[d.templateId] = req[r].key.tenant
       /\ \E c \in shown[r] :
            /\ c.channel = d.channel
            /\ \A i \in DOMAIN rows[r] :
                 /\ rows[r][i].body.text = c.text
                 /\ \A v \in c.holes :
                      \/ v \in d.own[i] /\ rows[r][i].body.fill[v] = i
                      \/ v \in d.variables \ d.own[i] /\ rows[r][i].body.fill[v] = "all"

\* What was promised for a time is that far ahead and no further than 30 days,
\* and however long the handler waited, its job is not due before then; what was
\* not is due at once (messages.service.ts:40).
NeverEarly ==
  \A r \in Requests : \A i \in DOMAIN jobs[r] :
    LET when == rows[r][i].scheduledAt
    IN IF rows[r][i].status = "scheduled"
       THEN when \in (req[r].at + 1)..(req[r].at + MaxAhead) /\ jobs[r][i].due >= when
       ELSE when = None /\ jobs[r][i].due <= now
=============================================================================

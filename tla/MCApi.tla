-------------------------------- MODULE MCApi --------------------------------
(***************************************************************************)
(* The API for TLC.  Its handlers share no memory, so that a run follows   *)
(* one part of it, chosen at the start: the tenants, the keys and the      *)
(* guards that read them; the templates and webhooks of a tenant and of    *)
(* the platform; or what becomes of a request to send, its text or its     *)
(* time.                                                                   *)
(***************************************************************************)
EXTENDS TenantRegistry, TLC

CONSTANTS
  Requests, Recipients, Texts, Vars, SendAts, Delays, Unreadable,
  MaxAhead, MaxTime, MaxTemplateEdits,
  t1, t2, m1, m2       \* t1 sends, and m1 is its template

VARIABLES
  part,
  now, template, req, rows, jobs, shown, templateEdits

intakeVars == <<now, template, req, rows, jobs, shown, templateEdits>>
apiVars == <<part, vars, intakeVars>>

\* Requests are for a text, sent at once, or for a time, with a literal text.
Texted == [channel : {"email", "whatsapp"}, to : SUBSET Recipients, templateId : {m1, None},
           message : BOOLEAN, variables : SUBSET Vars, own : [Recipients -> SUBSET Vars],
           sendAt : {None}, delaySeconds : {None}]
Timed == [channel : {"email", "whatsapp"}, to : SUBSET Recipients, templateId : {None},
          message : BOOLEAN, variables : {{}}, own : [Recipients -> {{}}],
          sendAt : SendAts, delaySeconds : Delays]

Intake == INSTANCE MessageIntake
  WITH Owners <- {t1, Platform}, Templates <- {m1}, TemplateOwner <- [m \in {m1} |-> t1],
       Grants <- {None, {"whatsapp"}}, Asked <- Texted \cup Timed,
       MaxEdits <- MaxTemplateEdits, edits <- templateEdits

ASSUME IntakeConstants == Intake!IntakeAssumption

\* The rows a run may have and edit; a tenant's templates need the tenant.
InUse == CASE part = "tenants" -> Tenants \cup Keys
           [] part = "templates" -> {t1} \cup Templates
           [] part = "webhooks" -> {t1} \cup Hooks
           [] OTHER -> {}

ApiInit ==
  /\ part \in {"tenants", "templates", "webhooks", "text", "time"}
  /\ \E r \in [InUse -> Row \cup {None}] :
       row = [i \in Ids |-> IF i \in InUse THEN r[i] ELSE None]
  /\ part \in {"templates", "webhooks"} => Active(t1)
  /\ Init
  /\ Intake!Init
  /\ part # "text" => template[m1] = None

Registry ==
  /\ part = "tenants" /\ Next
  /\ \A a \in Admins : op'[a] # None => op'[a].id \in InUse
Scoped ==
  /\ part \in {"templates", "webhooks"} /\ \E a \in Admins : AdminStep(a)
  /\ \A a \in Admins : op'[a] # None => op'[a].id \in InUse \ {t1}
Sending ==
  /\ part \in {"text", "time"} /\ Intake!Next
  /\ part = "text" => now' = now            \* texts do not depend on the clock,
  /\ part = "time" => template' = template  \* nor schedules on templates

ApiNext ==
  \/ (Registry \/ Scoped) /\ UNCHANGED <<part, intakeVars>>
  \/ Sending /\ UNCHANGED <<part, vars>>

ApiSpec == ApiInit /\ [][ApiNext]_apiVars

ApiSymmetry ==
  UNION {Permutations(S) : S \in {Tenants \ {t1}, Templates \ {m1}, Names, Admins}}

-----------------------------------------------------------------------------
\* Every variable of the tables, the requests and the guards has its type.
ApiTypeOK == TypeOK /\ Intake!TypeOK

\* A request is sent to all its recipients or to none (messages.service.ts:139).
WholeBatch == Intake!WholeBatch

\* All texts of a batch come from one version of the template
\* (messages.service.ts:57).
OneVersion == Intake!OneVersion

\* No job is due before the time its message was promised for
\* (messages.service.ts:40).
NeverEarly == Intake!NeverEarly
=============================================================================

--------------------------- MODULE TenantRegistry ---------------------------
(***************************************************************************)
(* The four tables people edit over the API: tenants and api_keys (admins  *)
(* only), templates and webhooks (admins, and the API keys of their own    *)
(* tenant), and the guards that read the first two on every API request.   *)
(*                                                                         *)
(* An update is findOne(), Object.assign(), save().  save() reads the row  *)
(* once more and then writes the columns in which the entity differs from  *)
(* that second read; it inserts the entity when the second read found no   *)
(* row.  Nothing locks the row between the three round trips.              *)
(***************************************************************************)
EXTENDS Naturals

CONSTANTS
    Tenants, Keys, Templates, Hooks,   \* ids, each minted once
    Names,             \* values of a column other than is_active
    Admins,            \* editing requests in progress at a time
    Calls,             \* guarded API requests in progress at a time
    Platform,          \* tenant_id IS NULL
    Admin,             \* the scope of a dashboard user
    None,              \* no row; in a DTO, a field left out
    MaxEdits           \* bound on the editing requests

Owners == Tenants \cup {Platform}
Ids == Tenants \cup Keys \cup Templates \cup Hooks

\* A row of any of the four; name stands for the columns other than is_active.
Row == [owner: Owners, name: Names, active: BOOLEAN]

ASSUME RegistryAssumption ==
    /\ Tenants \cap (Keys \cup Templates \cup Hooks) = {}
    /\ Templates \cap (Keys \cup Hooks) = {}
    /\ Platform \notin Tenants
    /\ None \notin Names \cup BOOLEAN \cup Row
    /\ MaxEdits \in Nat

VARIABLES
    row,       \* the tables: id -> row
    minted,    \* ids handed out so far
    op,        \* editing requests
    call,      \* guarded requests
    word,      \* history: what the last answered edit of a row promised
    edits      \* editing requests so far

vars == <<row, minted, op, call, word, edits>>

\* UpdateTenantDto, UpdateApiKeyDto: any of the columns.
Dto == [name: Names \cup {None}, active: BOOLEAN \cup {None}]
Blank == [name |-> None, active |-> None]

\* TenantScope: everything for an admin, the rows of one's tenant for an API key.
Scope == Owners \cup {Admin}

\* A request: the call it awaits next, whose it is, its row and DTO, its entity,
\* save()'s second read; whether another edit of the row, or an activation, overlapped.
Op == [at: {"insert", "naming", "assigned", "loaded", "delete"},
       by: Scope, id: Ids, want: Dto, seen: Row, base: Row \cup {None},
       alone: BOOLEAN, opposed: BOOLEAN]

\* A guarded request (idle also when refused), and whether it got in against an edit's word.
Call == [at: {"idle", "tenant", "admitted"},
         owner: Owners, overruled: BOOLEAN]

\* What an admin was told, plainly if nothing overlapped the edit.
Words == {"none", "off", "gone", "off with rivals", "gone with rivals"}

-----------------------------------------------------------------------------
\* The tables and what PostgreSQL enforces on them.

Exists(id) == row[id] # None
Active(id) == Exists(id) /\ row[id].active
Referenced(t) == \E i \in Ids \ Tenants: Exists(i) /\ row[i].owner = t

\* Names are unique among tenants, and among the templates of one owner.
Named(i) == i \in Tenants \cup Templates
NameTaken(n, owner, i) ==
    \E j \in (IF i \in Tenants THEN Tenants ELSE Templates) \ {i}:
        Exists(j) /\ row[j].name = n /\ row[j].owner = owner

\* tenantWhere; as a bug, a clause that leaves the tenant out.
AllSeen(scope, i) == TRUE
Sees(scope, i) == scope = Admin \/ row[i].owner = scope

\* tenantIdForCreate
OwnerFor(scope, asked) == IF scope = Admin THEN asked ELSE scope

\* A unique index or a foreign key refuses the row; as a bug, no index.
NoNameIndex(id, r) == r.owner # Platform /\ ~Exists(r.owner)
Violates(id, r) ==
    \/ Named(id) /\ NameTaken(r.name, r.owner, id)
    \/ r.owner # Platform /\ ~Exists(r.owner)

\* However the checks of two requests interleave with their writes, no two
\* tenants, and no two templates of an owner, get one name, and no row outlives
\* or precedes its tenant: the services look before they write, and the
\* constraints of CreateTenants catch the rest (tenants.service.ts:17 and :37,
\* templates.service.ts:27 and :53, api-keys.service.ts:34).
NamesAndOwners ==
    /\ \A i \in Tenants \cup Templates:
          Exists(i) => ~NameTaken(row[i].name, row[i].owner, i)
    /\ \A i \in Ids \ Tenants: Exists(i) /\ row[i].owner # Platform => Exists(row[i].owner)

Over(x, y) == IF x = None THEN y ELSE x

\* Object.assign(entity, dto); as bugs: with null for what the DTO leaves out,
\* or with the column's default.
AssignedNulls(r, d) == [r EXCEPT !.name = d.name, !.active = d.active]
AssignedDefaults(r, d) == [r EXCEPT !.name = Over(d.name, @), !.active = Over(d.active, TRUE)]
Assigned(r, d) == [r EXCEPT !.name = Over(d.name, @), !.active = Over(d.active, @)]

\* The columns save() writes: those in which the entity and the second read
\* differ.
Merged(current, base, entity) ==
    [current EXCEPT !.name   = IF entity.name # base.name THEN entity.name ELSE @,
                    !.active = IF entity.active # base.active THEN entity.active ELSE @]

Init ==
    /\ row \in [Ids -> Row \cup {None}]
    /\ NamesAndOwners
    /\ \A i \in Templates: Exists(i) => row[i].active
    /\ \A t \in Tenants: Exists(t) => row[t].owner = Platform
    /\ minted = {id \in Ids: Exists(id)}
    /\ op = [a \in Admins |-> None]
    /\ call = [c \in Calls |-> [at |-> "idle", owner |-> Platform, overruled |-> FALSE]]
    /\ word = [id \in Ids |-> "none"]
    /\ edits = 0

-----------------------------------------------------------------------------
\* Admin requests.

InFlight(id) == {a \in Admins: op[a] # None /\ op[a].id = id}

\* A request by someone on row id starts, and from now on overlaps those in flight on it.
Begin(a, at, by, id, d, entity) ==
    /\ op[a] = None
    /\ edits < MaxEdits
    /\ edits' = edits + 1
    /\ op' = [b \in Admins |->
         IF b = a
         THEN [at |-> at, by |-> by, id |-> id, want |-> d, seen |-> entity, base |-> None,
               alone |-> InFlight(id) = {},
               opposed |-> \E c \in InFlight(id): op[c].want.active = TRUE]
         ELSE IF b \in InFlight(id)
         THEN [op[b] EXCEPT !.alone = FALSE, !.opposed = @ \/ d.active = TRUE]
         ELSE op[b]]
    /\ word' = [word EXCEPT ![id] =
                  IF d.active = TRUE /\ @ \in {"off", "off with rivals"} THEN "none" ELSE @]
    /\ UNCHANGED <<row, call>>

\* A request is answered; said is what the answer promises if nothing opposed it.
Finish(a, said) ==
    /\ op' = [op EXCEPT ![a] = None]
    /\ word' = [word EXCEPT ![op[a].id] =
                  IF said = "" \/ (said = "off" /\ op[a].opposed) THEN @
                  ELSE IF op[a].alone THEN said
                  ELSE IF said = "off" THEN "off with rivals" ELSE "gone with rivals"]
    /\ UNCHANGED <<minted, call, edits>>

Goto(a, at) == op' = [op EXCEPT ![a].at = at]

\* TenantsService.create: the name is free when asked.
CreateTenant(a) ==
    \E t \in Tenants \ minted, n \in Names:
        /\ ~NameTaken(n, Platform, t)
        /\ Begin(a, "insert", Admin, t, Blank, [owner |-> Platform, name |-> n, active |-> TRUE])
        /\ minted' = minted \cup {t}

\* ApiKeysService.create: the tenant exists and is active when asked.
CreateKey(a) ==
    \E k \in Keys \ minted, owner \in Owners, n \in Names:
        /\ owner # Platform => Active(owner)
        /\ Begin(a, "insert", Admin, k, Blank, [owner |-> owner, name |-> n, active |-> TRUE])
        /\ minted' = minted \cup {k}

\* TemplatesService.create: the name is free when asked; a tenant is not looked up.
CreateTemplate(a) ==
    \E t \in Templates \ minted, scope \in Scope, asked \in Owners, n \in Names:
        LET owner == OwnerFor(scope, asked)
        IN /\ ~NameTaken(n, owner, t)
           /\ Begin(a, "insert", scope, t, Blank, [owner |-> owner, name |-> n, active |-> TRUE])
           /\ minted' = minted \cup {t}

\* WebhooksService.create
CreateHook(a) ==
    \E h \in Hooks \ minted, scope \in Scope, asked \in Owners, n \in Names, on \in BOOLEAN:
        /\ Begin(a, "insert", scope, h, Blank,
                 [owner |-> OwnerFor(scope, asked), name |-> n, active |-> on])
        /\ minted' = minted \cup {h}

Insert(a) ==
    /\ op[a] # None /\ op[a].at = "insert"
    /\ row' = IF Violates(op[a].id, op[a].seen) THEN row
              ELSE [row EXCEPT ![op[a].id] = op[a].seen]
    /\ Finish(a, "")

\* TenantsService.update up to the save; a new name is looked up first.
UpdateTenant(a) ==
    \E t \in Tenants, d \in Dto:
        /\ Exists(t)
        /\ Begin(a, IF d.name \in {None, row[t].name} THEN "assigned" ELSE "naming",
                 Admin, t, d, Assigned(row[t], d))
        /\ UNCHANGED minted

\* TemplatesService.update up to the save.
UpdateTemplate(a) ==
    \E t \in Templates, scope \in Scope, d \in Dto:
        /\ Exists(t) /\ Sees(scope, t) /\ d.active = None
        /\ Begin(a, IF d.name \in {None, row[t].name} THEN "assigned" ELSE "naming",
                 scope, t, d, Assigned(row[t], d))
        /\ UNCHANGED minted

CheckName(a) ==
    /\ op[a] # None /\ op[a].at = "naming"
    /\ IF NameTaken(op[a].want.name, op[a].seen.owner, op[a].id)
       THEN Finish(a, "") /\ UNCHANGED row
       ELSE Goto(a, "assigned") /\ UNCHANGED <<row, minted, call, word, edits>>

\* ApiKeysService.update up to the save.
UpdateKey(a) ==
    \E k \in Keys, d \in Dto:
        /\ Exists(k)
        /\ Begin(a, "assigned", Admin, k, d, Assigned(row[k], d))
        /\ UNCHANGED minted

\* WebhooksService.update up to the save.
UpdateHook(a) ==
    \E h \in Hooks, scope \in Scope, d \in Dto:
        /\ Exists(h) /\ Sees(scope, h)
        /\ Begin(a, "assigned", scope, h, d, Assigned(row[h], d))
        /\ UNCHANGED minted

\* save(): the second read.
Reload(a) ==
    /\ op[a] # None /\ op[a].at = "assigned"
    /\ op' = [op EXCEPT ![a].at = "loaded", ![a].base = row[op[a].id]]
    /\ UNCHANGED <<row, minted, call, word, edits>>

\* save(): INSERT the entity or UPDATE what differs, unless a constraint refuses.
Saved(id, base, entity) ==
    IF base = None THEN entity
    ELSE IF ~Exists(id) THEN None
    ELSE Merged(row[id], base, entity)
WriteBack(a) ==
    /\ op[a] # None /\ op[a].at = "loaded"
    /\ LET id == op[a].id
           new == Saved(id, op[a].base, op[a].seen)
           refused == new # None /\ (Violates(id, new) \/ (op[a].base = None /\ Exists(id)))
       IN /\ row' = IF refused THEN row ELSE [row EXCEPT ![id] = new]
          /\ Finish(a, IF ~refused /\ op[a].want.active = FALSE THEN "off" ELSE "")

RemoveTenant(a) ==
    \E t \in Tenants: Exists(t) /\ Begin(a, "delete", Admin, t, Blank, row[t]) /\ UNCHANGED minted
RemoveKey(a) ==
    \E k \in Keys: Exists(k) /\ Begin(a, "delete", Admin, k, Blank, row[k]) /\ UNCHANGED minted
RemoveTemplate(a) ==
    \E t \in Templates, scope \in Scope:
        /\ Exists(t) /\ Sees(scope, t)
        /\ Begin(a, "delete", scope, t, Blank, row[t])
        /\ UNCHANGED minted
RemoveHook(a) ==
    \E h \in Hooks, scope \in Scope:
        /\ Exists(h) /\ Sees(scope, h)
        /\ Begin(a, "delete", scope, h, Blank, row[h])
        /\ UNCHANGED minted

\* remove(): DELETE; 409 while API keys, templates or webhooks refer to a tenant.
Delete(a) ==
    /\ op[a] # None /\ op[a].at = "delete"
    /\ IF op[a].id \in Tenants /\ Referenced(op[a].id)
       THEN UNCHANGED row /\ Finish(a, "")
       ELSE row' = [row EXCEPT ![op[a].id] = None] /\ Finish(a, "gone")

-----------------------------------------------------------------------------
\* ApiKeyGuard, and ApiKeyOrJwtGuard for a caller without a token.

Stands(id) == word[id] \in {"off", "gone"}

\* The active key is read; a platform key needs nothing more.
ReadKey(c) ==
    \E k \in Keys:
        /\ call[c].at # "tenant"
        /\ call' = [call EXCEPT ![c] =
             IF ~Active(k) THEN [at |-> "idle", owner |-> Platform, overruled |-> FALSE]
             ELSE [at |-> IF row[k].owner = Platform THEN "admitted" ELSE "tenant",
                   owner |-> row[k].owner, overruled |-> Stands(k)]]
        /\ UNCHANGED <<row, minted, op, word, edits>>

\* existsBy({ id, isActive: true }); as a bug, by id alone.
TenantExists(t) == Exists(t)
TenantOk(t) == Active(t)
ReadTenant(c) ==
    /\ call[c].at = "tenant"
    /\ call' = [call EXCEPT
         ![c].at = IF TenantOk(call[c].owner) THEN "admitted" ELSE "idle",
         ![c].owner = Platform,
         ![c].overruled = @ \/ (TenantOk(call[c].owner) /\ Stands(call[c].owner))]
    /\ UNCHANGED <<row, minted, op, word, edits>>

\* A valid dashboard token gets in without any key.
PresentToken(c) ==
    /\ call[c].at # "tenant"
    /\ call' = [call EXCEPT ![c] = [at |-> "admitted", owner |-> Platform, overruled |-> FALSE]]
    /\ UNCHANGED <<row, minted, op, word, edits>>

TenantRequest(a) == CreateTenant(a) \/ UpdateTenant(a) \/ RemoveTenant(a)
KeyRequest(a) == CreateKey(a) \/ UpdateKey(a) \/ RemoveKey(a)
TemplateRequest(a) == CreateTemplate(a) \/ UpdateTemplate(a) \/ RemoveTemplate(a)
HookRequest(a) == CreateHook(a) \/ UpdateHook(a) \/ RemoveHook(a)
AdminStep(a) ==
    \/ TenantRequest(a) \/ KeyRequest(a) \/ TemplateRequest(a) \/ HookRequest(a)
    \/ Insert(a) \/ CheckName(a) \/ Reload(a) \/ WriteBack(a) \/ Delete(a)
Guard(c) == ReadKey(c) \/ ReadTenant(c) \/ PresentToken(c)

Next ==
    \/ \E a \in Admins: AdminStep(a)
    \/ \E c \in Calls: Guard(c)

Spec == Init /\ [][Next]_vars

-----------------------------------------------------------------------------
\* Every variable has its type.
TypeOK ==
    /\ row \in [Ids -> Row \cup {None}]
    /\ minted \subseteq Ids
    /\ op \in [Admins -> Op \cup {None}]
    /\ call \in [Calls -> Call]
    /\ word \in [Ids -> Words]
    /\ edits \in 0..MaxEdits

\* What an admin was told of an edit no other edit of that row overlapped stays
\* true: a row switched off stays off until someone asks to switch it on, a
\* deleted row stays deleted, whatever edits of other columns follow
\* (tenants.service.ts:35, api-keys.service.ts:69).
WordIsKept ==
    \A id \in Ids: /\ word[id] = "off" => ~Active(id)
                   /\ word[id] = "gone" => ~Exists(id)

\* A template or webhook of one tenant changes, between whatever reads and
\* writes of others, only at the request of that tenant's keys or an admin
\* (tenant-scope.ts:19).
ScopeIsRespected ==
    [][\A i \in Templates \cup Hooks:
          row'[i] # row[i] =>
              \E a \in Admins:
                  /\ op[a] # None /\ op[a].id = i
                  /\ op[a].by \in {Admin, (IF Exists(i) THEN row[i] ELSE row'[i]).owner}]_vars

\* The guard's two reads let nobody in on a key that was, when the call
\* arrived, or a tenant that is, when it is admitted, switched off or deleted
\* by such an edit (api-key.guard.ts:24-31).
CutOff == \A c \in Calls: call[c].at = "admitted" => ~call[c].overruled

\* api-key.guard.ts:28: deactivating a tenant must cut off all of its keys at
\* once.  Here: the deactivation was answered, and nobody asked to reactivate
\* the tenant while it ran or since.
DeactivationHolds == \A t \in Tenants: word[t] \in {"off", "off with rivals"} => ~Active(t)
=============================================================================

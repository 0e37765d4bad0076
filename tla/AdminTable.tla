------------------------------ MODULE AdminTable ------------------------------
(***************************************************************************)
(* The dashboard's tables of tenants, API keys and webhooks: a page lists   *)
(* the rows once, and again after each of its own requests; the buttons of  *)
(* a row, and what they send, go by the row as it was listed.  Several tabs *)
(* have the page open, and nothing tells them of each other's changes.      *)
(* What the error banner says is left out.                                  *)
(***************************************************************************)
EXTENDS Naturals, FiniteSets

CONSTANTS
  Kind,      \* the page: "tenants", "api-keys" or "webhooks"
  Rows,      \* ids; one is never used again
  Tabs, None,
  MaxCalls   \* bounds the requests under way

\* What the constants are.
TableAssumption ==
  /\ Kind \in {"tenants", "api-keys", "webhooks"}
  /\ None \notin Rows \cup Tabs /\ MaxCalls \in Nat

VARIABLES
  row,       \* the table
  open,      \* the page is mounted
  list,      \* the rows it shows
  saving,    \* of each tab: the form's button is disabled
  calls      \* requests under way

tab == <<open, list, saving>>
vars == <<row, tab, calls>>

State == {"none", "active", "paused", "deleted"}   \* of a row; "paused" is is_active = false
Listing == [Rows -> State \ {"deleted"}]
Call == [tab : Tabs \cup {None},    \* None: the page that sent it was left
         op : {"list", "create", "update", "delete"},
         id : Rows \cup {None},
         read : {"active", "paused", None},  \* what the row's button was labelled for
         asked : BOOLEAN,           \* the operator confirmed a dialog first
         saves : BOOLEAN,           \* belongs to the form's submission
         answer : {"none", "ok", "error"},
         got : Listing \cup {None}]
Of(t) == {c \in calls : c.tab = t}

TypeOK ==
  /\ row \in [Rows -> State]
  /\ open \in [Tabs -> BOOLEAN]
  /\ list \in [Tabs -> Listing \cup {None}]
  /\ saving \in [Tabs -> BOOLEAN]
  /\ calls \subseteq Call
  /\ \A t \in Tabs : saving[t] = \E c \in Of(t) : c.saves

Init ==
  /\ row \in [Rows -> {"none", "active", "paused"}]
  /\ open = [t \in Tabs |-> FALSE]
  /\ list = [t \in Tabs |-> None]
  /\ saving = [t \in Tabs |-> FALSE]
  /\ calls = {}

Request(t, op) == [tab |-> t, op |-> op, id |-> None, read |-> None, asked |-> FALSE,
                   saves |-> FALSE, answer |-> "none", got |-> None]
Send(c) ==
  /\ Cardinality(calls) < MaxCalls
  /\ c \notin calls
  /\ calls' = calls \cup {c}

-----------------------------------------------------------------------------
Mount(t) ==
  /\ ~open[t]
  /\ open' = [open EXCEPT ![t] = TRUE]
  /\ Send(Request(t, "list"))
  /\ UNCHANGED <<row, list, saving>>

Leave(t) ==
  /\ open[t]
  /\ open' = [open EXCEPT ![t] = FALSE]
  /\ list' = [list EXCEPT ![t] = None]
  /\ saving' = [saving EXCEPT ![t] = FALSE]
  /\ calls' = (calls \ Of(t)) \cup {[c EXCEPT !.tab = None, !.saves = FALSE] :
                                      c \in {d \in Of(t) : d.answer = "none" /\ d.op # "list"}}
  /\ UNCHANGED row

\* create: the form's button is disabled until it is done.
Submit(t) ==
  /\ open[t] /\ ~saving[t]
  /\ saving' = [saving EXCEPT ![t] = TRUE]
  /\ Send([Request(t, "create") EXCEPT !.saves = TRUE])
  /\ UNCHANGED <<row, open, list>>

Listed(t, i) == list[t] # None /\ list[t][i] # "none"

\* toggleActive: the row says what the button offers; on the tenants page,
\* "Deactivate" asks first.
ToggleTenant(t, i) ==
  /\ Kind = "tenants" /\ Listed(t, i)
  /\ Send([Request(t, "update") EXCEPT !.id = i, !.read = list[t][i], !.asked = list[t][i] = "active"])
  /\ UNCHANGED <<row, tab>>
ToggleKey(t, i) ==
  /\ Kind = "api-keys" /\ Listed(t, i)
  /\ Send([Request(t, "update") EXCEPT !.id = i, !.read = list[t][i]])
  /\ UNCHANGED <<row, tab>>
ToggleWebhook(t, i) ==
  /\ Kind = "webhooks" /\ Listed(t, i)
  /\ Send([Request(t, "update") EXCEPT !.id = i, !.read = list[t][i]])
  /\ UNCHANGED <<row, tab>>

\* remove: always asks.
Remove(t, i) ==
  /\ Listed(t, i)
  /\ Send([Request(t, "delete") EXCEPT !.id = i, !.read = list[t][i], !.asked = TRUE])
  /\ UNCHANGED <<row, tab>>

-----------------------------------------------------------------------------
\* The server, which TenantRegistry models step by step.

Exists(i) == row[i] \in {"active", "paused"}
Answered(c, answer, got) ==
  calls' = (calls \ {c}) \cup {d \in {[c EXCEPT !.answer = answer, !.got = got]} : d.tab # None}

\* What an update leaves: isActive as the request says, the opposite of what
\* the button's row said; as a bug, the opposite of what the row says now.
Flipped(c) == IF row[c.id] = "active" THEN "paused" ELSE "active"
Written(c) == IF c.read = "active" THEN "paused" ELSE "active"

Serve(c) ==
  /\ c.answer = "none"
  /\ \/ /\ c.op = "list"
        /\ Answered(c, "ok", [i \in Rows |-> IF Exists(i) THEN row[i] ELSE "none"])
        /\ UNCHANGED row
     \/ /\ c.op = "create"
        /\ \E i \in Rows : row[i] = "none" /\ row' = [row EXCEPT ![i] = "active"]
        /\ Answered(c, "ok", None)
     \/ /\ c.op = "update" /\ Exists(c.id)
        /\ row' = [row EXCEPT ![c.id] = Written(c)]
        /\ Answered(c, "ok", None)
     \/ /\ c.op = "delete" /\ Exists(c.id)
        /\ row' = [row EXCEPT ![c.id] = "deleted"]
        /\ Answered(c, "ok", None)
  /\ UNCHANGED tab

\* 404; 409 for a name that is taken or a tenant with keys; no answer, whether
\* or not the request was carried out.
Refuse(c) ==
  /\ c.answer # "error"
  /\ Answered(c, "error", None)
  /\ UNCHANGED <<row, tab>>

-----------------------------------------------------------------------------
\* refresh()'s answer; with it ends the submission it belongs to.
Shown(c) ==
  /\ c.op = "list"
  /\ calls' = calls \ {c}
  /\ list' = IF c.answer = "ok" THEN [list EXCEPT ![c.tab] = c.got] ELSE list
  /\ saving' = IF c.saves THEN [saving EXCEPT ![c.tab] = FALSE] ELSE saving
  /\ UNCHANGED <<row, open>>

\* A request went well: refresh() again.
Done(c) ==
  /\ c.op # "list" /\ c.answer = "ok"
  /\ calls' = (calls \ {c}) \cup {[Request(c.tab, "list") EXCEPT !.saves = c.saves]}
  /\ UNCHANGED <<row, tab>>

\* It did not: an error, and "finally" the form can be used again.
Failed(c) ==
  /\ c.op # "list" /\ c.answer = "error"
  /\ calls' = calls \ {c}
  /\ saving' = IF c.saves THEN [saving EXCEPT ![c.tab] = FALSE] ELSE saving
  /\ UNCHANGED <<row, open, list>>

Answer(c) == c.answer # "none" /\ (Shown(c) \/ Done(c) \/ Failed(c))
Toggle(t, i) == ToggleTenant(t, i) \/ ToggleKey(t, i) \/ ToggleWebhook(t, i)

Next ==
  \/ \E t \in Tabs :
       \/ Mount(t) \/ Leave(t) \/ Submit(t)
       \/ \E i \in Rows : Toggle(t, i) \/ Remove(t, i)
  \/ \E c \in calls : Serve(c) \/ Refuse(c) \/ Answer(c)

Spec == Init /\ [][Next]_vars

-----------------------------------------------------------------------------
\* A change of the table, as somebody asked for it.
AsPressed ==
  \A i \in Rows :
    LET pressed(op) == {c \in calls : c.op = op /\ c.id = i /\ c.answer = "none"}
    IN /\ row[i] = "active" /\ row'[i] = "paused" =>
            \E c \in pressed("update") : c.read = "active" /\ (Kind = "tenants" => c.asked)
       /\ row[i] = "paused" /\ row'[i] = "active" => \E c \in pressed("update") : c.read = "paused"
       /\ row[i] # "deleted" /\ row'[i] = "deleted" => \E c \in pressed("delete") : c.asked

\* Nothing is paused, resumed or deleted but by somebody whose button said so,
\* and no tenant is cut off, and nothing deleted, without a confirmation: not
\* even by a list that is out of date, when another tab was faster or when
\* answers are shown out of order (tenants/page.tsx:68, api-keys/page.tsx:113).
ButtonsMeanWhatTheySay == [][AsPressed]_vars
=============================================================================

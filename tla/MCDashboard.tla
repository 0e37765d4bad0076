----------------------------- MODULE MCDashboard -----------------------------
(***************************************************************************)
(* The dashboard for TLC.  Next.js has one page of a tab mounted at a time *)
(* and nothing of a page outlives it but the token, so that a run follows   *)
(* one page, or the session, chosen at the start: the overview with its     *)
(* message list or with its dead-letter panel, the tables of tenants, keys  *)
(* and webhooks, the form for keys, the form for templates, the session.    *)
(***************************************************************************)
EXTENDS Naturals, TLC

CONSTANTS
  Parts,                             \* those the runs follow
  None, Unset, Platform, Blank, Subject,
  Slots, Acts, PageSize, MaxRows,    \* of the overview
  Tabs, Tokens, TableRow, Keys, Tenant, Template, Other,
  MaxCalls, MaxCallsOfATab           \* bounds the requests under way

VARIABLES
  part,
  row, failed, link, open, filter, offset, timers, call, shown, error, act,
  isActive, valid, stored, route, loading, logins,
  tableRow, tableOpen, tableList, tableSaving, tableCalls,
  tenant, key, keysOpen, keysForm, keysSaving, options, newKey, keysCalls,
  templates, formOpen, formList, form, editing, formSaving, formCalls, from

overview == <<row, failed, link, open, filter, offset, timers, call, shown, error, act>>
session == <<isActive, valid, stored, route, loading, logins>>
tables == <<tableRow, tableOpen, tableList, tableSaving, tableCalls>>
keys == <<tenant, key, keysOpen, keysForm, keysSaving, options, newKey, keysCalls>>
forms == <<templates, formOpen, formList, form, editing, formSaving, formCalls, from>>
vars == <<part, overview, session, tables, keys, forms>>

AllOf == [status |-> Unset, channel |-> Unset]

\* The link's badge and pairing code; the message list with a filter; the
\* dead-letter panel, whose list, and whose retry-all, take one job at a time: two
\* jobs of one queue, and one message with a job in either of two queues.
Badge == INSTANCE MessagesPage
  WITH Calls <- {"status", "qr"}, Statuses <- {"queued", "failed"}, Channels <- {"email"},
       Queues <- {"email"}, ListLimit <- 1, RetryLimit <- 1, Filters <- {AllOf}, MaxRows <- 0
List == INSTANCE MessagesPage
  WITH Calls <- {"messages"}, Statuses <- {"queued", "failed"}, Channels <- {"email"},
       Queues <- {"email"}, ListLimit <- 1, RetryLimit <- 1,
       Filters <- {AllOf, [AllOf EXCEPT !.status = "queued"]}
OneQueue == INSTANCE MessagesPage
  WITH Calls <- {"dlq"}, Statuses <- {"queued", "failed"}, Channels <- {"email"},
       Queues <- {"email"}, ListLimit <- 1, RetryLimit <- 1, Filters <- {AllOf}
TwoQueues == INSTANCE MessagesPage
  WITH Calls <- {"dlq"}, Statuses <- {"queued", "failed"}, Channels <- {"email"},
       Queues <- {"email", "webhooks"}, ListLimit <- 1, RetryLimit <- 1, Filters <- {AllOf},
       MaxRows <- 1

Session == INSTANCE DashboardSession
  WITH AdminPages <- {"/templates"}, MaxCalls <- MaxCallsOfATab, calls <- logins

TenantsPage == INSTANCE AdminTable
  WITH Kind <- "tenants", Rows <- {TableRow}, row <- tableRow, open <- tableOpen,
       list <- tableList, saving <- tableSaving, calls <- tableCalls
KeysPage == INSTANCE AdminTable
  WITH Kind <- "api-keys", Rows <- {TableRow}, row <- tableRow, open <- tableOpen,
       list <- tableList, saving <- tableSaving, calls <- tableCalls
WebhooksPage == INSTANCE AdminTable
  WITH Kind <- "webhooks", Rows <- {TableRow}, row <- tableRow, open <- tableOpen,
       list <- tableList, saving <- tableSaving, calls <- tableCalls

KeyForm == INSTANCE KeyForm
  WITH Tenants <- {Tenant}, Channels <- {"email"}, open <- keysOpen, form <- keysForm,
       saving <- keysSaving, calls <- keysCalls

Contents == {[channel |-> "email", subject |-> s] : s \in {Blank, Subject}}
\* One template and two requests at a time; two templates, one at a time.
OneTemplate == INSTANCE TemplateForm
  WITH Ids <- {Template}, table <- templates, open <- formOpen, list <- formList,
       saving <- formSaving, calls <- formCalls
TwoTemplates == INSTANCE TemplateForm
  WITH Ids <- {Template, Other}, MaxCalls <- 1, table <- templates, open <- formOpen,
       list <- formList, saving <- formSaving, calls <- formCalls

ASSUME PartAssumptions ==
  /\ Badge!PageAssumption /\ List!PageAssumption /\ OneQueue!PageAssumption
  /\ TwoQueues!PageAssumption /\ Session!SessionAssumption
  /\ TenantsPage!TableAssumption /\ KeysPage!TableAssumption /\ WebhooksPage!TableAssumption
  /\ KeyForm!FormAssumption /\ OneTemplate!TemplateAssumption /\ TwoTemplates!TemplateAssumption

-----------------------------------------------------------------------------
\* What a run does not follow stands still, as it is at first.

Init ==
  /\ part \in Parts
  /\ IF part = "two queues" THEN TwoQueues!Init ELSE List!Init
  /\ Session!Init /\ (part # "session" => isActive)
  /\ TenantsPage!Init
  /\ part \notin {"tenants", "api-keys", "webhooks"} => tableRow[TableRow] = "none"
  /\ KeyForm!Init /\ (part # "key form" => tenant[Tenant] = "active")
  /\ IF part = "two templates" THEN TwoTemplates!Init ELSE OneTemplate!Init
  /\ part \notin {"one template", "two templates"} => templates[Template] = None

InBadge == part = "badge" /\ UNCHANGED <<part, session, tables, keys, forms>>
InList == part = "list" /\ UNCHANGED <<part, session, tables, keys, forms>>
InPanel == UNCHANGED <<part, session, tables, keys, forms>>
Panel ==
  \/ part = "one queue" /\ OneQueue!Next
  \/ part = "two queues" /\ TwoQueues!Next
InSession == part = "session" /\ UNCHANGED <<part, overview, tables, keys, forms>>
InTables == UNCHANGED <<part, overview, session, keys, forms>>
Table ==
  \/ part = "tenants" /\ TenantsPage!Next
  \/ part = "api-keys" /\ KeysPage!Next
  \/ part = "webhooks" /\ WebhooksPage!Next
InKeyForm == part = "key form" /\ UNCHANGED <<part, overview, session, tables, forms>>
InTemplateForm == UNCHANGED <<part, overview, session, tables, keys>>
Templates ==
  \/ part = "one template" /\ OneTemplate!Next
  \/ part = "two templates" /\ TwoTemplates!Next

Next ==
  \/ InBadge /\ Badge!Next
  \/ InList /\ List!Next
  \/ InPanel /\ Panel
  \/ InSession /\ Session!Next
  \/ InTables /\ Table
  \/ InKeyForm /\ KeyForm!Next
  \/ InTemplateForm /\ Templates

\* The fairness of the overview and of the session; a part that stands still is
\* owed nothing.
Spec == Init /\ [][Next]_vars /\ List!Fairness /\ Session!Fairness

-----------------------------------------------------------------------------
\* Every variable of every page and of the session has its type, and a form's
\* button is disabled exactly while a request of its submission is under way.
TypeOK ==
  /\ part = "badge" => Badge!TypeOK
  /\ part = "list" => List!TypeOK
  /\ part = "one queue" => OneQueue!TypeOK
  /\ part = "two queues" => TwoQueues!TypeOK
  /\ part = "session" => Session!TypeOK
  /\ part \in {"tenants", "api-keys", "webhooks"} => TenantsPage!TypeOK
  /\ part = "key form" => KeyForm!TypeOK
  /\ part = "one template" => OneTemplate!TypeOK
  /\ part = "two templates" => TwoTemplates!TypeOK

\* One interval runs while the overview is mounted, for the filter and page now
\* set (page.tsx:114).
OneTimer == part = "list" => List!OneTimer

\* The pages of the message list leave no message out, if no two were created at
\* the same moment (messages.service.ts:213).
FullHistory == part = "list" => List!FullHistory

\* Once nothing changes elsewhere, nobody touches the page and no request fails,
\* the overview comes to show what is so: MessagesPage's PageCatchesUp, for the
\* part a run follows (page.tsx:94).
PageCatchesUp ==
  <>[][/\ part = "badge" => Badge!OnItsOwn
       /\ part = "list" => List!OnItsOwn
       /\ part = "one queue" => OneQueue!OnItsOwn
       /\ part = "two queues" => TwoQueues!OnItsOwn]_vars
    => <>[](/\ part = "badge" => Badge!Current
            /\ part = "list" => List!Current
            /\ part = "one queue" => OneQueue!Current
            /\ part = "two queues" => TwoQueues!Current)

\* An operator who presses "Retry all" whenever it is offered empties the
\* dead-letter queue, beyond the lists' limits too, whatever else is pressed
\* meanwhile: MessagesPage's EverythingRetried, where a run follows the panel
\* (dlq.service.ts:94).
PressAllOf(q) ==
  /\ InPanel
  /\ \/ part = "one queue" /\ q \in {"email"} /\ OneQueue!PressAll(q)
     \/ part = "two queues" /\ TwoQueues!PressAll(q)
Diligent == \A q \in {"email", "webhooks"} : WF_vars(PressAllOf(q))
EverythingRetried ==
  Diligent
      /\ <>[][/\ part = "one queue" => OneQueue!OnItsOwn \/ OneQueue!Pressing
              /\ part = "two queues" => TwoQueues!OnItsOwn \/ TwoQueues!Pressing]_vars
      /\ <>[](part \in {"one queue", "two queues"} => open)
    => <>[](part \in {"one queue", "two queues"} => \A q \in DOMAIN failed : failed[q] = <<>>)

\* Nothing is paused, resumed or deleted but by somebody whose button said so,
\* and asked first where it must (tenants/page.tsx:68, api-keys/page.tsx:113).
ButtonsMeanWhatTheySay ==
  [][/\ part = "tenants" => TenantsPage!AsPressed
     /\ part = "api-keys" => KeysPage!AsPressed
     /\ part = "webhooks" => WebhooksPage!AsPressed]_vars

\* No key's banner is overwritten by a key asked for before it appeared
\* (api-keys/page.tsx:94).
EachKeyIsSeen == [][KeyForm!SeenFirst]_vars

\* Text goes only to the template it was filled from (templates/page.tsx:49).
RightTarget == OneTemplate!RightTarget

\* An administrator deactivated for good ends up without a valid token
\* (auth.service.ts:24).
DeactivatedLocksOut == Session!DeactivatedLocksOut

\* No overview page goes on without a session (page.tsx:99).
ExpiryIsNoticed == Session!ExpiryIsNoticed
=============================================================================

------------------------------- MODULE KeyForm -------------------------------
(***************************************************************************)
(* Minting an API key on the dashboard: the form offers the active tenants  *)
(* of the last refresh and the channels; the answer carries the plaintext,  *)
(* of which the server keeps a hash, and a banner shows it until it is      *)
(* dismissed.  Tenants are edited elsewhere meanwhile.                      *)
(***************************************************************************)
EXTENDS Naturals, FiniteSets

CONSTANTS
  Tenants, Platform,   \* Platform: no tenant
  Channels,
  Keys, None,
  MaxCalls             \* bounds the requests under way

KeyRow == [tenantId : Tenants \cup {Platform}, allowed : SUBSET Channels]

\* What the constants are.
FormAssumption ==
  /\ Platform \notin Tenants /\ None \notin Keys \cup KeyRow
  /\ Channels # {} /\ MaxCalls \in Nat

VARIABLES
  tenant,     \* tenants table
  key,        \* api_keys table
  open, form, saving,
  options,    \* the tenants the dropdown offers
  newKey,     \* the key in the banner
  calls       \* requests under way

page == <<open, form, saving, options, newKey>>
vars == <<tenant, key, page, calls>>

EmptyForm == [tenantId |-> Platform, channels |-> Channels]
Form == [tenantId : Tenants \cup {Platform}, channels : SUBSET Channels]
\* "over" is the banner that was on the screen when a key was asked for.
Call == [op : {"create", "list"}, form : Form,
         over : Keys \cup {None}, saves : BOOLEAN, answer : {"none", "ok", "error"},
         key : Keys \cup {None}, got : SUBSET Tenants]

TypeOK ==
  /\ tenant \in [Tenants -> {"active", "inactive", "none"}]
  /\ key \in [Keys -> KeyRow \cup {None}]
  /\ open \in BOOLEAN /\ form \in Form /\ saving \in BOOLEAN
  /\ options \subseteq Tenants
  /\ newKey = None \/ (newKey \in Keys /\ key[newKey] # None)
  /\ calls \subseteq Call

Init ==
  /\ tenant \in [Tenants -> {"active", "inactive"}]
  /\ key = [k \in Keys |-> None]
  /\ open = FALSE /\ form = EmptyForm /\ saving = FALSE /\ options = {} /\ newKey = None
  /\ calls = {}

Listing(saves) == [op |-> "list", form |-> EmptyForm, over |-> None, saves |-> saves,
                   answer |-> "none", key |-> None, got |-> {}]
Creating == [Listing(TRUE) EXCEPT !.op = "create", !.form = form, !.over = newKey]
Send(c) == Cardinality(calls) < MaxCalls /\ calls' = calls \cup {c}

-----------------------------------------------------------------------------
TenantChanges(t) ==
  /\ tenant[t] # "none"
  /\ \E s \in {"active", "inactive", "none"} : tenant' = [tenant EXCEPT ![t] = s]
  /\ tenant'[t] = "none" => \A k \in Keys : key[k] # None => key[k].tenantId # t
  /\ UNCHANGED <<key, page, calls>>

Mount ==
  /\ ~open /\ open' = TRUE
  /\ Send(Listing(FALSE))
  /\ UNCHANGED <<tenant, key, form, saving, options, newKey>>

Leave ==
  /\ open
  /\ open' = FALSE /\ form' = EmptyForm /\ saving' = FALSE /\ options' = {} /\ newKey' = None
  /\ calls' = {}   \* what is minted after it was left, was minted just before
  /\ UNCHANGED <<tenant, key>>

\* toggleActive and remove end in a refresh, too.
Refresh ==
  /\ open
  /\ Send(Listing(FALSE))
  /\ UNCHANGED <<tenant, key, page>>

Choose(t) ==
  /\ open /\ t \in options \cup {Platform}
  /\ form' = [form EXCEPT !.tenantId = t]
  /\ UNCHANGED <<tenant, key, open, saving, options, newKey, calls>>

ToggleChannel(c) ==
  /\ open
  /\ form' = [form EXCEPT !.channels = IF c \in @ THEN @ \ {c} ELSE @ \cup {c}]
  /\ UNCHANGED <<tenant, key, open, saving, options, newKey, calls>>

\* create(): not without a channel, and not while another one is under way; as a
\* bug, the button is not disabled.
SubmitAgain ==
  /\ open /\ form.channels # {}
  /\ Send(Creating) /\ saving' = TRUE
  /\ UNCHANGED <<tenant, key, open, form, options, newKey>>
Submit ==
  /\ open /\ ~saving /\ form.channels # {}
  /\ Send(Creating) /\ saving' = TRUE
  /\ UNCHANGED <<tenant, key, open, form, options, newKey>>

-----------------------------------------------------------------------------
Answered(c, d) == calls' = (calls \ {c}) \cup {d}

\* All channels is no restriction, which the table keeps as NULL: here, all.
Mint(c) ==
  /\ c.op = "create" /\ c.answer = "none"
  /\ c.form.tenantId # Platform => tenant[c.form.tenantId] = "active"
  /\ \E k \in Keys :
       /\ key[k] = None
       /\ key' = [key EXCEPT ![k] = [tenantId |-> c.form.tenantId, allowed |-> c.form.channels]]
       /\ Answered(c, [c EXCEPT !.answer = "ok", !.key = k])
  /\ UNCHANGED <<tenant, page>>

List(c) ==
  /\ c.op = "list" /\ c.answer = "none"
  /\ Answered(c, [c EXCEPT !.answer = "ok", !.got = {t \in Tenants : tenant[t] = "active"}])
  /\ UNCHANGED <<tenant, key, page>>

\* Refused, or lost on the way there or back.
Fail(c) ==
  /\ c.answer # "error"
  /\ Answered(c, [c EXCEPT !.answer = "error"])
  /\ UNCHANGED <<tenant, key, page>>

\* The answer: the banner shows the key, and refresh() follows.
Banner(c) ==
  /\ c.op = "create" /\ c.answer = "ok"
  /\ newKey' = c.key
  /\ form' = EmptyForm
  /\ Answered(c, Listing(TRUE))
  /\ UNCHANGED <<tenant, key, open, saving, options>>

Over(c) ==
  /\ c.answer = "error" \/ (c.op = "list" /\ c.answer = "ok")
  /\ options' = IF c.answer = "ok" THEN c.got ELSE options
  /\ calls' = calls \ {c}
  /\ saving' = (saving /\ ~c.saves)
  /\ UNCHANGED <<tenant, key, open, form, newKey>>

Dismiss ==
  /\ newKey # None /\ newKey' = None
  /\ UNCHANGED <<tenant, key, open, form, saving, options, calls>>

Next ==
  \/ \E t \in Tenants : TenantChanges(t)
  \/ Mount \/ Leave \/ Refresh \/ Submit \/ Dismiss
  \/ \E t \in Tenants \cup {Platform} : Choose(t)
  \/ \E c \in Channels : ToggleChannel(c)
  \/ \E c \in calls : Mint(c) \/ List(c) \/ Fail(c) \/ Banner(c) \/ Over(c)

Spec == Init /\ [][Next]_vars

-----------------------------------------------------------------------------
\* A key that takes the banner's place was asked for over the one it replaces.
SeenFirst ==
  newKey # None /\ newKey' \notin {None, newKey} =>
    \A c \in calls : c.key = newKey' => c.over = newKey

\* A plaintext that is on the screen is replaced only by a key that was asked
\* for while it was there: whoever minted both has seen both
\* (api-keys/page.tsx:94).
EachKeyIsSeen == [][SeenFirst]_vars
=============================================================================

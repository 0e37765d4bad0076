--------------------------- MODULE DashboardSession ---------------------------
(***************************************************************************)
(* The dashboard's login session: POST /auth/login issues a JWT, the        *)
(* browser keeps it in localStorage, where all its tabs find it, every      *)
(* request carries what is there when it is sent, JwtAuthGuard answers 401  *)
(* to one that has expired, and a refresh that is told 401 removes the      *)
(* token and goes to the login page.                                        *)
(***************************************************************************)
EXTENDS Naturals, FiniteSets

CONSTANTS
  Tabs,
  AdminPages, \* the pages without an interval
  Tokens,    \* JWTs; one that is expired and forgotten may be issued again
  None,
  MaxCalls   \* bounds the requests of a kind that a tab has under way

\* What the constants are.
SessionAssumption == None \notin Tokens /\ MaxCalls \in Nat

VARIABLES
  isActive,  \* of the administrator's row in users
  valid,     \* tokens issued and not expired
  stored,    \* localStorage[cs_token]
  route,     \* the page of each tab
  loading,   \* of each tab: the login form waits for its answer
  calls      \* requests under way

vars == <<isActive, valid, stored, route, loading, calls>>

Pages == {"/login", "/"} \cup AdminPages
Call == [tab : Tabs, op : {"login", "refresh"}, token : Tokens \cup {None},
         answer : {"none", "found", "ok", "401", "failed"}]
Of(t, op) == {c \in calls : c.tab = t /\ c.op = op}

TypeOK ==
  /\ isActive \in BOOLEAN /\ valid \subseteq Tokens
  /\ stored \in Tokens \cup {None}
  /\ route \in [Tabs -> Pages]
  /\ loading \in [Tabs -> BOOLEAN]
  /\ calls \subseteq Call
  /\ \A t \in Tabs : Cardinality(Of(t, "login")) = IF loading[t] THEN 1 ELSE 0

Init ==
  /\ isActive \in BOOLEAN
  /\ valid = {} /\ stored = None
  /\ route = [t \in Tabs |-> "/login"]
  /\ loading = [t \in Tabs |-> FALSE]
  /\ calls = {}

-----------------------------------------------------------------------------
\* The users table is edited by hand; a token's twelve hours pass.
SetActive == isActive' = ~isActive /\ UNCHANGED <<valid, stored, route, loading, calls>>
Expire(k) ==
  /\ k \in valid
  /\ valid' = valid \ {k}
  /\ UNCHANGED <<isActive, stored, route, loading, calls>>

\* apiFetch: the token is read as the request is sent.
Send(t, op) ==
  /\ Cardinality(Of(t, op)) < MaxCalls
  /\ calls' = calls \cup {[tab |-> t, op |-> op, token |-> stored, answer |-> "none"]}

-----------------------------------------------------------------------------
\* LoginPage.onSubmit; the button is disabled while it waits.
Submit(t) ==
  /\ route[t] = "/login" /\ ~loading[t]
  /\ loading' = [loading EXCEPT ![t] = TRUE]
  /\ Send(t, "login")
  /\ UNCHANGED <<isActive, valid, stored, route>>

Becomes(c, answer, token) ==
  calls' = (calls \ {c}) \cup {[c EXCEPT !.answer = answer, !.token = token]}

\* AuthService.login: only an active user is found; as a bug, any is.
LookUpAny(c) ==
  /\ c.op = "login" /\ c.answer = "none"
  /\ Becomes(c, "found", None)
  /\ UNCHANGED <<isActive, valid, stored, route, loading>>
LookUp(c) ==
  /\ c.op = "login" /\ c.answer = "none"
  /\ Becomes(c, IF isActive THEN "found" ELSE "401", None)
  /\ UNCHANGED <<isActive, valid, stored, route, loading>>

\* argon2.verify takes its time, then the JWT is signed.
Forgotten == Tokens \ (valid \cup {stored} \cup {c.token : c \in calls})
Sign(c) ==
  /\ c.op = "login" /\ c.answer = "found"
  /\ \/ \E k \in Forgotten : Becomes(c, "ok", k) /\ valid' = valid \cup {k}
     \/ Becomes(c, "401", None) /\ UNCHANGED valid
  /\ UNCHANGED <<isActive, stored, route, loading>>

\* The answer: setToken and on to the overview, or an error in the form;
\* "finally", the button is enabled again.
LoginAnswer(c) ==
  /\ c.op = "login" /\ c.answer \in {"ok", "401", "failed"}
  /\ calls' = calls \ {c}
  /\ loading' = [loading EXCEPT ![c.tab] = FALSE]
  /\ IF c.answer = "ok"
     THEN stored' = c.token /\ route' = [route EXCEPT ![c.tab] = "/"]
     ELSE UNCHANGED <<stored, route>>
  /\ UNCHANGED <<isActive, valid>>

-----------------------------------------------------------------------------
\* Mounting a page: to the login page without a token, else refresh().
Open(t, page) ==
  /\ ~loading[t]
  /\ IF stored = None
     THEN route' = [route EXCEPT ![t] = "/login"] /\ UNCHANGED calls
     ELSE route' = [route EXCEPT ![t] = page] /\ Send(t, "refresh")
  /\ UNCHANGED <<isActive, valid, stored, loading>>

\* The overview's interval.
Tick(t) ==
  /\ route[t] = "/" /\ Send(t, "refresh")
  /\ UNCHANGED <<isActive, valid, stored, route, loading>>

\* JwtAuthGuard: a token that is there, and has not expired.
Guard(c) ==
  /\ c.op # "login" /\ c.answer = "none"
  /\ Becomes(c, IF c.token \in valid THEN "ok" ELSE "401", c.token)
  /\ UNCHANGED <<isActive, valid, stored, route, loading>>

Lost(c) ==
  /\ c.answer \in {"none", "found"}
  /\ Becomes(c, "failed", IF c.op = "login" THEN None ELSE c.token)
  /\ UNCHANGED <<isActive, valid, stored, route, loading>>

\* A refresh told 401 removes whatever token is stored now and leaves for the
\* login page; as a bug, it shows an error like any other.  A page's other
\* requests do just that, told 401 or not, and are left out.
RefreshAnswerShown(c) ==
  /\ c.op = "refresh" /\ c.answer \in {"ok", "401", "failed"}
  /\ calls' = calls \ {c}
  /\ UNCHANGED <<isActive, valid, stored, route, loading>>
RefreshAnswer(c) ==
  /\ c.op = "refresh" /\ c.answer \in {"ok", "401", "failed"}
  /\ calls' = calls \ {c}
  /\ IF c.answer = "401"
     THEN stored' = None /\ route' = [route EXCEPT ![c.tab] = "/login"]
     ELSE UNCHANGED <<stored, route>>
  /\ UNCHANGED <<isActive, valid, loading>>

\* Nav.logout.
Logout(t) ==
  /\ route[t] # "/login"
  /\ stored' = None
  /\ route' = [route EXCEPT ![t] = "/login"]
  /\ UNCHANGED <<isActive, valid, loading, calls>>

-----------------------------------------------------------------------------
Answer(c) == LoginAnswer(c) \/ RefreshAnswer(c)
Serve(c) == LookUp(c) \/ Sign(c) \/ Guard(c)

Next ==
  \/ SetActive
  \/ \E k \in Tokens : Expire(k)
  \/ \E t \in Tabs :
       \/ Submit(t) \/ Tick(t)
       \/ Logout(t) \/ \E page \in Pages \ {"/login"} : Open(t, page)
  \/ \E c \in calls : Serve(c) \/ Lost(c) \/ Answer(c)

Spec == Init /\ [][Next]_vars

\* Twelve hours pass, the overview's interval goes on, and what a tab has under
\* way is answered in the end: weak fairness of Expire, Tick and of what Serve and
\* Answer do, which stay enabled until they are taken, said by what they put an
\* end to.
Fairness ==
  /\ \A k \in Tokens : []<>(k \notin valid)
  /\ \A t \in Tabs :
       /\ []<>(route[t] # "/" \/ Of(t, "refresh") # {})
       /\ \A op \in {"login", "refresh"} : []<>(Of(t, op) = {})

-----------------------------------------------------------------------------
\* An administrator who is deactivated for good is locked out in the end, however
\* their logins and requests interleave with it, although the guard never looks at
\* users again and a login under way may still succeed (auth.service.ts:24).
DeactivatedLocksOut == <>[]~isActive => <>[](valid = {})

\* An overview page does not go on without a session: when the token expired, or
\* another tab signed out, it comes to the login page or to a new token, if only
\* requests get through again (page.tsx:99).
LeftBehind(t) == route[t] = "/" /\ stored \notin valid
ExpiryIsNoticed ==
  <>[][~ \E c \in calls : Lost(c)]_vars => \A t \in Tabs : LeftBehind(t) ~> ~LeftBehind(t)
=============================================================================

------------------------------ MODULE RateLimit ------------------------------
(***************************************************************************)
(* ApiKeyRateLimitGuard: the message budget of one API key.  A request     *)
(* adds its cost to a counter in Redis that belongs to the current         *)
(* one-minute window, and passes while the counter stays within the key's  *)
(* limit.  Nothing locks: the guard reads the limit, the clock and the     *)
(* counter at three different times, and relies on the order of INCRBY     *)
(* and on counters that outlive their window.                              *)
(*                                                                         *)
(* Keys do not share counters (ratelimit:<key id>:<window>), so one key is *)
(* enough.  Time is kept as the window and the second within it.           *)
(***************************************************************************)
EXTENDS Naturals

CONSTANTS
  Requests,       \* the requests made with the key, each one once
  MaxRecipients,  \* 100: the guard's clamp and the DTO's ArrayMaxSize
  WindowSeconds,  \* WINDOW_SECONDS
  Limits,         \* limits the key may have, 60 unless an admin sets another
  MaxSize,        \* bound: recipients in a request's body
  MaxWindow,      \* bound: the last window
  MaxFaults       \* bound: faults in a behaviour

ASSUME SizeAssumption   == MaxRecipients \in Nat \ {0} /\ MaxSize \in Nat
ASSUME WindowAssumption == WindowSeconds \in Nat \ {0} /\ MaxWindow \in Nat
ASSUME LimitAssumption  == Limits \subseteq Nat
ASSUME FaultAssumption  == MaxFaults \in Nat

VARIABLES
  limit,      \* api_keys.rate_limit_per_minute, or the environment's default
  window,     \* Date.now(), in windows
  second,     \* and in seconds within the window
  counter,    \* the key's counter of each window (0: no such Redis key)
  expiry,     \* when that Redis key expires
  req,        \* the guard's run for each request
  \* History, never read by the code:
  granted,    \* messages let through on the budget of each window
  spoilt,     \* windows whose counter was hit by a fault
  \* Bound:
  faultsLeft

vars == <<limit, window, second, counter, expiry, req, granted, spoilt, faultsLeft>>

Windows == 0..MaxWindow
Never == [window |-> 0, second |-> 0]    \* no lifetime: a real one is two windows away
Clock == [window : Nat, second : Nat]

\* Both endpoints are guarded before their bodies are validated.
Body == [bulk : BOOLEAN, recipients : 0..MaxSize]

Steps == {"new", "pick", "charge", "expire", "judge", "passed", "rejected", "error"}

Request == [step : Steps, body : Body, limit : Limits, window : Windows, count : Nat]

TypeOK ==
  /\ limit \in Limits
  /\ window \in Windows
  /\ second \in 0..(WindowSeconds - 1)
  /\ counter \in [Windows -> Nat]
  /\ expiry \in [Windows -> Clock]
  /\ req \in [Requests -> Request]
  /\ granted \in [Windows -> Nat]
  /\ spoilt \subseteq Windows
  /\ faultsLeft \in Nat

Init ==
  /\ limit \in Limits
  /\ window = 0
  /\ second = 0
  /\ counter = [w \in Windows |-> 0]
  /\ expiry = [w \in Windows |-> Never]
  /\ req = [r \in Requests |->
              [step |-> "new", body |-> [bulk |-> FALSE, recipients |-> 0],
               limit |-> limit, window |-> 0, count |-> 0]]
  /\ granted = [w \in Windows |-> 0]
  /\ spoilt = {}
  /\ faultsLeft = MaxFaults

-----------------------------------------------------------------------------
(* The guard's arithmetic.                                                 *)

\* recipients.length if there is an array, clamped on both sides.
Cost(body) ==
  IF body.recipients = 0 THEN 1
  ELSE IF body.recipients > MaxRecipients THEN MaxRecipients ELSE body.recipients

\* Messages a request sends at most once it passes: the DTO refuses an empty
\* or too long list, and `send` ignores a list it did not ask for.
Yield(body) ==
  IF ~body.bulk THEN 1
  ELSE IF body.recipients <= MaxRecipients THEN body.recipients ELSE 0

WithinLimit(count, r) == count <= req[r].limit

\* (mutant: the counter lives for one window)
OneWindow == [window |-> window + 1, second |-> second]

\* EXPIRE key, WINDOW_SECONDS * 2
Lifetime == [window |-> window + 2, second |-> second]

Reached(t) == window' > t.window \/ (window' = t.window /\ second' >= t.second)

-----------------------------------------------------------------------------
(* The clock, and an admin.                                                *)

\* Redis drops the counters whose time has come.
Tick ==
  /\ \/ second + 1 < WindowSeconds /\ second' = second + 1 /\ window' = window
     \/ second + 1 = WindowSeconds /\ second' = 0 /\ window' = window + 1 /\ window < MaxWindow
  /\ LET dropped == {w \in Windows : expiry[w] # Never /\ Reached(expiry[w])}
     IN /\ counter' = [w \in Windows |-> IF w \in dropped THEN 0 ELSE counter[w]]
        /\ expiry' = [w \in Windows |-> IF w \in dropped THEN Never ELSE expiry[w]]
  /\ UNCHANGED <<limit, req, granted, spoilt, faultsLeft>>

SetLimit(l) ==
  /\ limit' = l
  /\ UNCHANGED <<window, second, counter, expiry, req, granted, spoilt, faultsLeft>>

-----------------------------------------------------------------------------
(* canActivate, one action per awaited call.                               *)

Goto(r, step) == req' = [req EXCEPT ![r].step = step]

Fault(W) ==
  /\ faultsLeft > 0
  /\ faultsLeft' = faultsLeft - 1
  /\ spoilt' = spoilt \cup W

\* ApiKeyGuard read the key, and with it the limit, before this guard runs.
Arrive(r, body) ==
  /\ req[r].step = "new"
  /\ req' = [req EXCEPT ![r].step = "pick", ![r].body = body, ![r].limit = limit]
  /\ UNCHANGED <<limit, window, second, counter, expiry, granted, spoilt, faultsLeft>>

\* (mutant: Math.ceil)
PickWindowCeil(r) ==
  /\ req[r].step = "pick"
  /\ req' = [req EXCEPT ![r].step = "charge",
                        ![r].window = IF second = 0 THEN window ELSE window + 1]
  /\ UNCHANGED <<limit, window, second, counter, expiry, granted, spoilt, faultsLeft>>

\* Math.floor(Date.now() / window length), then `await queue.client`.
PickWindow(r) ==
  /\ req[r].step = "pick"
  /\ req' = [req EXCEPT ![r].step = "charge", ![r].window = window]
  /\ UNCHANGED <<limit, window, second, counter, expiry, granted, spoilt, faultsLeft>>

Incremented(r) == counter[req[r].window] + Cost(req[r].body)

\* Late: the answer of Redis took longer than a whole window.
Late(r) == window > req[r].window + 1

\* (mutant: only a counter of one is taken for a new one)
ChargeForgets(r) ==
  LET w == req[r].window
      count == Incremented(r)
  IN /\ req[r].step = "charge"
     /\ counter' = [counter EXCEPT ![w] = count]
     /\ req' = [req EXCEPT ![r].count = count,
                           ![r].step = IF count = 1 THEN "expire" ELSE "judge"]
     /\ granted' = [granted EXCEPT ![w] =
                      @ + IF WithinLimit(count, r) /\ ~Late(r) THEN Yield(req[r].body) ELSE 0]
     /\ UNCHANGED <<limit, window, second, expiry, spoilt, faultsLeft>>

\* INCRBY.  The count it answers decides whether the request will pass, so
\* the messages it lets through are granted here.
Charge(r) ==
  LET w == req[r].window
      count == Incremented(r)
  IN /\ req[r].step = "charge"
     /\ counter' = [counter EXCEPT ![w] = count]
     /\ req' = [req EXCEPT ![r].count = count,
                           ![r].step = IF count = Cost(req[r].body) THEN "expire" ELSE "judge"]
     /\ granted' = [granted EXCEPT ![w] =
                      @ + IF WithinLimit(count, r) /\ ~Late(r) THEN Yield(req[r].body) ELSE 0]
     /\ UNCHANGED <<limit, window, second, expiry, spoilt, faultsLeft>>

\* Redis took the INCRBY and the connection dropped: ioredis sends it again,
\* or gives up and the guard throws.  It may also fail before Redis took it.
ChargeFails(r) ==
  LET w == req[r].window
  IN /\ req[r].step = "charge"
     /\ Fault({w})
     /\ \/ counter' = [counter EXCEPT ![w] = Incremented(r)] /\ UNCHANGED req
        \/ counter' = [counter EXCEPT ![w] = Incremented(r)] /\ Goto(r, "error")
        \/ UNCHANGED counter /\ Goto(r, "error")
     /\ UNCHANGED <<limit, window, second, expiry, granted>>

\* Only the request that found no counter sets the lifetime.  EXPIRE of a key
\* that is gone does nothing.
SetExpiry(r) ==
  LET w == req[r].window
  IN /\ req[r].step = "expire"
     /\ expiry' = IF counter[w] > 0 THEN [expiry EXCEPT ![w] = Lifetime] ELSE expiry
     /\ Goto(r, "judge")
     /\ UNCHANGED <<limit, window, second, counter, granted, spoilt, faultsLeft>>

\* EXPIRE throws: the counter stays, without a lifetime.
SetExpiryFails(r) ==
  /\ req[r].step = "expire"
  /\ Fault({req[r].window})
  /\ Goto(r, "error")
  /\ UNCHANGED <<limit, window, second, counter, expiry, granted>>

\* The API process dies with every request in it.
Crash ==
  LET running == {r \in Requests : req[r].step \in {"pick", "charge", "expire", "judge"}}
  IN /\ running # {}
     /\ Fault({req[r].window : r \in {q \in running : req[q].step = "expire"}})
     /\ req' = [r \in Requests |->
                  IF r \in running THEN [req[r] EXCEPT !.step = "error"] ELSE req[r]]
     /\ UNCHANGED <<limit, window, second, counter, expiry, granted>>

\* 429, or on to validation and the handler.
Judge(r) ==
  /\ req[r].step = "judge"
  /\ Goto(r, IF WithinLimit(req[r].count, r) THEN "passed" ELSE "rejected")
  /\ UNCHANGED <<limit, window, second, counter, expiry, granted, spoilt, faultsLeft>>

Guard(r) ==
  \/ \E body \in Body : Arrive(r, body)
  \/ PickWindow(r) \/ Charge(r) \/ ChargeFails(r)
  \/ SetExpiry(r) \/ SetExpiryFails(r) \/ Judge(r)

Next ==
  \/ Tick
  \/ \E l \in Limits : SetLimit(l)
  \/ \E r \in Requests : Guard(r)
  \/ Crash

Spec == Init /\ [][Next]_vars

-----------------------------------------------------------------------------
(* What the budget promises.                                               *)

(* Whatever runs concurrently, however the clock moves between the guard's *)
(* steps and the admin changes the limit: a request never passes when the  *)
(* messages let through in its window, its own included, exceed the limit  *)
(* it was judged by.  Requests that Redis answers more than a window late  *)
(* are not counted: their counter may be gone.                             *)
WithinBudget ==
  [][\A r \in Requests :
       LET w == req[r].window
       IN req[r].step = "charge" /\ granted'[w] # granted[w] /\ req'[r] # req[r]
            => granted'[w] <= req[r].limit]_vars

(* A counter without a lifetime is about to get one, or was hit by a       *)
(* fault: no interleaving of first and later requests leaves a key in      *)
(* Redis for ever.                                                         *)
CountersExpire ==
  \A w \in Windows :
    counter[w] > 0 /\ expiry[w] = Never =>
      w \in spoilt \/ \E r \in Requests : req[r].step = "expire" /\ req[r].window = w

=============================================================================

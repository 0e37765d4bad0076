--------------------------- MODULE RateLimitProofs ---------------------------
(***************************************************************************)
(* The message budget holds for any number of requests, any limits and any *)
(* length of the window.  The argument: while a window can still be        *)
(* charged in time, its counter has a lifetime that ends two windows after *)
(* it was first charged, so it is still there, and it has counted at least *)
(* every message that was let through.                                     *)
(***************************************************************************)
EXTENDS RateLimit, TLAPS

(* A request never sends more messages than it was charged for: a bulk     *)
(* request within the DTO's limit is charged in full, any other sends one  *)
(* message or none (the guard's clamp, and the DTO's ArrayMaxSize).        *)
LEMMA CostCoversYield ==
  ASSUME NEW body \in Body
  PROVE  /\ Cost(body) \in Nat
         /\ Cost(body) > 0
         /\ Yield(body) \in Nat
         /\ Yield(body) <= Cost(body)
  BY SizeAssumption DEF Body, Cost, Yield

(* Init is well typed. *)
LEMMA InitTyped == Init => TypeOK
  BY SizeAssumption, WindowAssumption, LimitAssumption, FaultAssumption
  DEF Init, TypeOK, Windows, Never, Clock, Body, Steps, Request

(* Every step of the guard, the clock and the admin keeps the types. *)
LEMMA NextTyped == TypeOK /\ [Next]_vars => TypeOK'
  <1> SUFFICES ASSUME TypeOK, [Next]_vars PROVE TypeOK'
    OBVIOUS
  <1> USE SizeAssumption, WindowAssumption, LimitAssumption, FaultAssumption DEF TypeOK
  <1>1. CASE Tick
    <2>1. window' \in Windows /\ second' \in 0..(WindowSeconds - 1)
      BY <1>1 DEF Tick, Windows
    <2>2. counter' \in [Windows -> Nat] /\ expiry' \in [Windows -> Clock]
      BY <1>1 DEF Tick, Never, Clock
    <2>3. QED
      BY <2>1, <2>2, <1>1 DEF Tick
  <1>2. CASE \E l \in Limits : SetLimit(l)
    BY <1>2 DEF SetLimit
  <1>3. ASSUME NEW r \in Requests, Guard(r) PROVE TypeOK'
    <2>1. req[r] \in Request
      OBVIOUS
    <2>2. ASSUME NEW body \in Body, Arrive(r, body) PROVE TypeOK'
      BY <2>1, <2>2 DEF Arrive, Request, Steps
    <2>3. CASE PickWindow(r)
      BY <2>1, <2>3 DEF PickWindow, Request, Steps
    <2>4. Cost(req[r].body) \in Nat /\ Yield(req[r].body) \in Nat /\ Incremented(r) \in Nat
      BY <2>1, CostCoversYield DEF Request, Incremented
    <2>5. CASE Charge(r)
      BY <2>1, <2>4, <2>5 DEF Charge, Request, Steps
    <2>6. CASE ChargeFails(r)
      BY <2>1, <2>4, <2>6 DEF ChargeFails, Fault, Goto, Request, Steps
    <2>7. CASE SetExpiry(r)
      <3>1. Lifetime \in Clock
        BY DEF Lifetime, Clock, Windows
      <3>2. QED
        BY <2>1, <2>7, <3>1 DEF SetExpiry, Goto, Request, Steps
    <2>8. CASE SetExpiryFails(r)
      BY <2>1, <2>8 DEF SetExpiryFails, Fault, Goto, Request, Steps
    <2>9. CASE Judge(r)
      BY <2>1, <2>9 DEF Judge, Goto, Request, Steps
    <2>10. QED
      BY <1>3, <2>2, <2>3, <2>5, <2>6, <2>7, <2>8, <2>9 DEF Guard
  <1>4. CASE Crash
    BY <1>4 DEF Crash, Fault, Request, Steps
  <1>5. CASE UNCHANGED vars
    BY <1>5 DEF vars
  <1>6. QED
    BY <1>1, <1>2, <1>3, <1>4, <1>5 DEF Next

(* Every reachable state of the guard is well typed. *)
THEOREM TypeCorrect == Spec => []TypeOK
  BY InitTyped, NextTyped, PTL DEF Spec

-----------------------------------------------------------------------------
(* The strengthening of WithinBudget.                                      *)

\* No request charges a window of the future.
WindowsPicked == \A r \in Requests : req[r].window <= window

\* A counter outlives its window by a whole one.
CountersLive == \A w \in Windows : expiry[w] = Never \/ expiry[w].window >= w + 2

\* While a window may be charged in time, its counter covers what passed.
CountersCover == \A w \in Windows : window <= w + 1 => granted[w] <= counter[w]

BudgetInv == TypeOK /\ WindowsPicked /\ CountersLive /\ CountersCover

(* Init satisfies the strengthening. *)
LEMMA InitBudget == Init => BudgetInv
  BY InitTyped, WindowAssumption
  DEF Init, BudgetInv, WindowsPicked, CountersLive, CountersCover, Windows

(* Every step keeps the strengthening. *)
LEMMA NextBudget == BudgetInv /\ [Next]_vars => BudgetInv'
  <1> SUFFICES ASSUME BudgetInv, [Next]_vars PROVE BudgetInv'
    OBVIOUS
  <1>0. TypeOK /\ TypeOK' /\ WindowsPicked /\ CountersLive /\ CountersCover
    BY NextTyped DEF BudgetInv
  <1>t. /\ window \in Nat /\ window' \in Nat
        /\ \A r \in Requests : req[r] \in Request /\ req[r].window \in Windows
        /\ \A w \in Windows : /\ w \in Nat
                              /\ counter[w] \in Nat /\ granted[w] \in Nat
                              /\ expiry[w].window \in Nat /\ expiry[w].second \in Nat
    <2>1. Windows \subseteq Nat
      BY WindowAssumption DEF Windows
    <2>2. QED
      BY <2>1, <1>0 DEF TypeOK, Request, Clock
  <1> SUFFICES WindowsPicked' /\ CountersLive' /\ CountersCover'
    BY <1>0 DEF BudgetInv
  <1>1. CASE Tick
    <2> DEFINE dropped == {w \in Windows : expiry[w] # Never /\ Reached(expiry[w])}
    <2>1. (window' = window \/ window' = window + 1) /\ req' = req /\ granted' = granted
      BY <1>1 DEF Tick
    <2>2. /\ counter' = [w \in Windows |-> IF w \in dropped THEN 0 ELSE counter[w]]
          /\ expiry' = [w \in Windows |-> IF w \in dropped THEN Never ELSE expiry[w]]
      BY <1>1 DEF Tick
    <2>3. \A w \in dropped : window' >= w + 2
      BY <1>0, <1>t DEF CountersLive, Reached
    <2>4. WindowsPicked'
      BY <2>1, <1>0, <1>t DEF WindowsPicked, Windows
    <2>5. CountersLive'
      BY <2>2, <1>0 DEF CountersLive
    <2>6. CountersCover'
      <3> SUFFICES ASSUME NEW w \in Windows, window' <= w + 1 PROVE granted'[w] <= counter'[w]
        BY DEF CountersCover
      <3>1. w \notin dropped
        BY <2>3, <1>t
      <3>2. window <= w + 1
        BY <2>1, <1>t
      <3>3. QED
        BY <3>1, <3>2, <2>1, <2>2, <1>0 DEF CountersCover
    <2>7. QED
      BY <2>4, <2>5, <2>6
  <1>2. CASE \E l \in Limits : SetLimit(l)
    BY <1>2, <1>0 DEF SetLimit, WindowsPicked, CountersLive, CountersCover
  <1>3. ASSUME NEW r \in Requests, Guard(r)
        PROVE  WindowsPicked' /\ CountersLive' /\ CountersCover'
    <2>w. req[r].window \in Windows /\ req[r].body \in Body
      BY <1>t DEF Request
    <2>1. ASSUME NEW body \in Body, Arrive(r, body)
          PROVE  WindowsPicked' /\ CountersLive' /\ CountersCover'
      <3>1. \A q \in Requests : req'[q].window = req[q].window
        BY <2>1, <1>0 DEF Arrive, TypeOK, Request
      <3>2. QED
        BY <2>1, <3>1, <1>0 DEF Arrive, WindowsPicked, CountersLive, CountersCover
    <2>2. CASE PickWindow(r)
      <3>1. \A q \in Requests : req'[q].window = IF q = r THEN window ELSE req[q].window
        BY <2>2, <1>0 DEF PickWindow, TypeOK, Request
      <3>2. WindowsPicked'
        <4>1. window' = window /\ \A q \in Requests : req[q].window <= window
          BY <2>2, <1>0 DEF PickWindow, WindowsPicked
        <4>2. window <= window
          BY <1>t
        <4>3. QED
          BY <3>1, <4>1, <4>2 DEF WindowsPicked
      <3>3. QED
        BY <2>2, <3>2, <1>0 DEF PickWindow, CountersLive, CountersCover
    <2>3. CASE Charge(r)
      <3> DEFINE w == req[r].window
                 cost == Cost(req[r].body)
                 yield == Yield(req[r].body)
      <3>1. \A q \in Requests : req'[q].window = req[q].window
        BY <2>3, <1>0 DEF Charge, TypeOK, Request
      <3>2. cost \in Nat /\ yield \in Nat /\ yield <= cost
        BY <2>w, CostCoversYield
      <3>3. counter' = [counter EXCEPT ![w] = counter[w] + cost]
        BY <2>3 DEF Charge, Incremented
      <3>4. \/ granted' = [granted EXCEPT ![w] = granted[w] + yield]
            \/ granted' = [granted EXCEPT ![w] = granted[w] + 0]
        BY <2>3 DEF Charge
      <3>5. /\ \A v \in Windows : v # w => counter'[v] = counter[v] /\ granted'[v] = granted[v]
            /\ counter'[w] = counter[w] + cost
            /\ granted'[w] <= granted[w] + yield
        <4>1. counter \in [Windows -> Nat] /\ granted \in [Windows -> Nat] /\ w \in Windows
          BY <2>w, <1>0 DEF TypeOK
        <4> HIDE DEF w, cost, yield
        <4>2. counter'[w] = counter[w] + cost /\ \A v \in Windows : v # w => counter'[v] = counter[v]
          BY <4>1, <3>3
        <4>3. \A v \in Windows : v # w => granted'[v] = granted[v]
          BY <4>1, <3>4
        <4>4. granted'[w] <= granted[w] + yield
          BY <4>1, <3>2, <3>4
        <4>5. QED
          BY <4>2, <4>3, <4>4
      <3>6. CountersCover'
        <4> SUFFICES ASSUME NEW v \in Windows, window' <= v + 1 PROVE granted'[v] <= counter'[v]
          BY DEF CountersCover
        <4>1. granted[v] <= counter[v]
          BY <2>3, <1>0 DEF CountersCover, Charge
        <4>2. granted'[v] \in Nat
          BY <1>0 DEF TypeOK
        <4>3. CASE v = w
          <5>1. counter'[v] = counter[v] + cost /\ granted'[v] <= granted[v] + yield
            BY <3>5, <4>3
          <5>2. QED
            BY <5>1, <3>2, <4>1, <4>2, <1>t
        <4>4. CASE v # w
          BY <4>1, <4>4, <3>5
        <4>5. QED
          BY <4>3, <4>4
      <3>7. QED
        BY <2>3, <3>1, <3>6, <1>0 DEF Charge, WindowsPicked, CountersLive
    <2>4. CASE ChargeFails(r)
      <3>1. \A q \in Requests : req'[q].window = req[q].window
        BY <2>4, <1>0 DEF ChargeFails, Goto, TypeOK, Request
      <3>2. counter' = counter \/ counter' = [counter EXCEPT ![req[r].window] = Incremented(r)]
        BY <2>4 DEF ChargeFails
      <3>3. \A v \in Windows : counter'[v] >= counter[v]
        BY <3>2, <2>w, <1>t, <1>0, CostCoversYield DEF Incremented, TypeOK
      <3>4. CountersCover'
        <4> SUFFICES ASSUME NEW v \in Windows, window' <= v + 1 PROVE granted'[v] <= counter'[v]
          BY DEF CountersCover
        <4>1. granted[v] <= counter[v] /\ granted' = granted
          BY <2>4, <1>0 DEF CountersCover, ChargeFails
        <4>2. counter'[v] \in Nat
          BY <1>0 DEF TypeOK
        <4>3. QED
          BY <4>1, <4>2, <3>3, <1>t
      <3>5. QED
        BY <2>4, <3>1, <3>4, <1>0 DEF ChargeFails, WindowsPicked, CountersLive
    <2>5. CASE SetExpiry(r)
      <3>1. \A q \in Requests : req'[q].window = req[q].window
        BY <2>5, <1>0 DEF SetExpiry, Goto, TypeOK, Request
      <3>2. expiry' = expiry \/ expiry' = [expiry EXCEPT ![req[r].window] = Lifetime]
        BY <2>5 DEF SetExpiry
      <3>3. Lifetime.window >= req[r].window + 2
        BY <1>0, <1>t, <2>w DEF WindowsPicked, Lifetime
      <3>4. CountersLive'
        BY <3>2, <3>3, <2>w, <1>0 DEF CountersLive, TypeOK
      <3>5. QED
        BY <2>5, <3>1, <3>4, <1>0 DEF SetExpiry, WindowsPicked, CountersCover
    <2>6. CASE SetExpiryFails(r)
      <3>1. \A q \in Requests : req'[q].window = req[q].window
        BY <2>6, <1>0 DEF SetExpiryFails, Goto, TypeOK, Request
      <3>2. QED
        BY <2>6, <3>1, <1>0 DEF SetExpiryFails, WindowsPicked, CountersLive, CountersCover
    <2>7. CASE Judge(r)
      <3>1. \A q \in Requests : req'[q].window = req[q].window
        BY <2>7, <1>0 DEF Judge, Goto, TypeOK, Request
      <3>2. QED
        BY <2>7, <3>1, <1>0 DEF Judge, WindowsPicked, CountersLive, CountersCover
    <2>8. QED
      BY <1>3, <2>1, <2>2, <2>3, <2>4, <2>5, <2>6, <2>7 DEF Guard
  <1>4. CASE Crash
    <2>1. \A q \in Requests : req'[q].window = req[q].window
      BY <1>4, <1>0 DEF Crash, TypeOK, Request
    <2>2. QED
      BY <1>4, <2>1, <1>0 DEF Crash, WindowsPicked, CountersLive, CountersCover
  <1>5. CASE UNCHANGED vars
    BY <1>5, <1>0 DEF vars, WindowsPicked, CountersLive, CountersCover
  <1>6. QED
    BY <1>1, <1>2, <1>3, <1>4, <1>5 DEF Next

(* The guard never lets more messages through in one window than the limit *)
(* it judged the request by, for every number of concurrent requests and   *)
(* every way the clock and the limit move.                                 *)
THEOREM BudgetHolds == Spec => WithinBudget
  <1> DEFINE Judged(r) == LET w == req[r].window
                          IN req[r].step = "charge" /\ granted'[w] # granted[w] /\ req'[r] # req[r]
                               => granted'[w] <= req[r].limit
  <1>1. ASSUME BudgetInv, [Next]_vars, NEW r \in Requests PROVE Judged(r)
    <2> DEFINE w == req[r].window
    <2> SUFFICES ASSUME req[r].step = "charge", granted'[w] # granted[w], req'[r] # req[r]
                 PROVE  granted'[w] <= req[r].limit
      OBVIOUS
    <2>1. PICK q \in Requests : Charge(q)
      BY <1>1 DEF Next, vars, Tick, SetLimit, Guard, Arrive, PickWindow, ChargeFails, SetExpiry,
                  SetExpiryFails, Judge, Crash
    <2>2. q = r
      BY <2>1, <1>1 DEF Charge, BudgetInv, TypeOK
    <2>3. /\ w \in Windows /\ w \in Nat /\ window \in Nat /\ req[r].limit \in Nat
          /\ granted[w] \in Nat /\ counter[w] \in Nat /\ req[r].body \in Body
      <3>1. Windows \subseteq Nat
        BY WindowAssumption DEF Windows
      <3>2. QED
        BY <3>1, <1>1, LimitAssumption DEF BudgetInv, TypeOK, Request
    <2>4. granted' = [granted EXCEPT ![w] = @ + IF WithinLimit(Incremented(r), r) /\ ~Late(r)
                                                THEN Yield(req[r].body) ELSE 0]
      BY <2>1, <2>2 DEF Charge
    <2>5. granted \in [Windows -> Nat]
      BY <1>1 DEF BudgetInv, TypeOK
    <2>6. ~Late(r) /\ WithinLimit(Incremented(r), r)
      BY <2>3, <2>4, <2>5
    <2>7. granted'[w] = granted[w] + Yield(req[r].body)
      BY <2>3, <2>4, <2>5, <2>6
    <2>8. granted[w] <= counter[w]
      BY <2>3, <2>6, <1>1 DEF Late, BudgetInv, CountersCover
    <2>9. counter[w] + Cost(req[r].body) <= req[r].limit
      BY <2>6 DEF WithinLimit, Incremented
    <2>10. QED
      BY <2>3, <2>7, <2>8, <2>9, CostCoversYield
  <1>2. BudgetInv /\ [Next]_vars => \A r \in Requests : Judged(r)
    BY <1>1
  <1>3. BudgetInv /\ [Next]_vars =>
          [\A r \in Requests :
             LET w == req[r].window
             IN req[r].step = "charge" /\ granted'[w] # granted[w] /\ req'[r] # req[r]
                  => granted'[w] <= req[r].limit]_vars
    BY <1>2
  <1>4. QED
    BY <1>3, InitBudget, NextBudget, PTL DEF Spec, WithinBudget

-----------------------------------------------------------------------------
(* Every counter gets its lifetime. *)
LEMMA NextExpire == TypeOK /\ CountersExpire /\ [Next]_vars => CountersExpire'
  <1> SUFFICES ASSUME TypeOK, CountersExpire, [Next]_vars, NEW w \in Windows,
                      counter'[w] > 0, expiry'[w] = Never
               PROVE  w \in spoilt' \/ \E r \in Requests : req'[r].step = "expire" /\ req'[r].window = w
    BY DEF CountersExpire
  <1> DEFINE Setting(r) == req[r].step = "expire" /\ req[r].window = w
  <1>0. counter[w] > 0 /\ expiry[w] = Never => w \in spoilt \/ \E r \in Requests : Setting(r)
    BY DEF CountersExpire
  <1>1. CASE Tick
    BY <1>0, <1>1 DEF Tick
  <1>2. CASE \E l \in Limits : SetLimit(l)
    BY <1>0, <1>2 DEF SetLimit
  <1>3. ASSUME NEW r \in Requests, Guard(r)
        PROVE  w \in spoilt' \/ \E q \in Requests : req'[q].step = "expire" /\ req'[q].window = w
    <2>r. req \in [Requests -> Request] /\ req[r].window \in Windows /\ req[r].body \in Body
      BY DEF TypeOK, Request
    <2>1. ASSUME NEW body \in Body, Arrive(r, body)
          PROVE  w \in spoilt' \/ \E q \in Requests : req'[q].step = "expire" /\ req'[q].window = w
      BY <1>0, <2>1, <2>r DEF Arrive
    <2>2. CASE PickWindow(r)
      BY <1>0, <2>2, <2>r DEF PickWindow
    <2>3. CASE Charge(r)
      <3>1. CASE req[r].window = w /\ counter[w] = 0
        <4>1. Incremented(r) = Cost(req[r].body)
          BY <3>1, <2>r, CostCoversYield DEF Incremented
        <4>2. req'[r].step = "expire" /\ req'[r].window = w
          BY <4>1, <2>3, <3>1, <2>r DEF Charge, Request
        <4>3. QED
          BY <4>2
      <3>2. CASE ~(req[r].window = w /\ counter[w] = 0)
        <4>1. counter[w] > 0 /\ expiry[w] = Never
          BY <2>3, <3>2, <2>r DEF Charge, TypeOK
        <4>2. \A q \in Requests : Setting(q) => q # r /\ req'[q] = req[q]
          BY <2>3, <2>r DEF Charge
        <4>3. QED
          BY <1>0, <4>1, <4>2, <2>3 DEF Charge
      <3>3. QED
        BY <3>1, <3>2
    <2>4. CASE ChargeFails(r)
      <3>1. CASE req[r].window = w
        BY <2>4, <3>1 DEF ChargeFails, Fault
      <3>2. CASE req[r].window # w
        <4>1. counter[w] > 0 /\ expiry[w] = Never /\ spoilt \subseteq spoilt'
          BY <2>4, <3>2, <2>r DEF ChargeFails, Fault, TypeOK
        <4>2. \A q \in Requests : Setting(q) => req'[q] = req[q]
          BY <2>4, <3>2, <2>r DEF ChargeFails, Goto
        <4>3. QED
          BY <1>0, <4>1, <4>2
      <3>3. QED
        BY <3>1, <3>2
    <2>5. CASE SetExpiry(r)
      <3>1. Lifetime # Never
        BY DEF Lifetime, Never, TypeOK, Windows
      <3>2. req[r].window # w
        BY <2>5, <3>1, <2>r DEF SetExpiry, TypeOK
      <3>3. expiry[w] = Never
        BY <2>5, <3>2, <2>r DEF SetExpiry, TypeOK
      <3>4. \A q \in Requests : Setting(q) => req'[q] = req[q]
        BY <2>5, <3>2, <2>r DEF SetExpiry, Goto
      <3>5. QED
        BY <1>0, <3>3, <3>4, <2>5 DEF SetExpiry
    <2>6. CASE SetExpiryFails(r)
      <3>1. CASE req[r].window = w
        BY <2>6, <3>1 DEF SetExpiryFails, Fault
      <3>2. CASE req[r].window # w
        <4>1. \A q \in Requests : Setting(q) => req'[q] = req[q]
          BY <2>6, <3>2, <2>r DEF SetExpiryFails, Goto
        <4>2. QED
          BY <1>0, <4>1, <2>6 DEF SetExpiryFails, Fault
      <3>3. QED
        BY <3>1, <3>2
    <2>7. CASE Judge(r)
      <3>1. \A q \in Requests : Setting(q) => req'[q] = req[q]
        BY <2>7, <2>r DEF Judge, Goto
      <3>2. QED
        BY <1>0, <3>1, <2>7 DEF Judge
    <2>8. QED
      BY <1>3, <2>1, <2>2, <2>3, <2>4, <2>5, <2>6, <2>7 DEF Guard
  <1>4. CASE Crash
    <2>1. \A q \in Requests : Setting(q) => w \in spoilt'
      BY <1>4 DEF Crash, Fault
    <2>2. QED
      BY <1>0, <1>4, <2>1 DEF Crash, Fault
  <1>5. CASE UNCHANGED vars
    BY <1>0, <1>5 DEF vars
  <1>6. QED
    BY <1>1, <1>2, <1>3, <1>4, <1>5 DEF Next

(* No interleaving of requests leaves a counter in Redis for ever: only a  *)
(* failed Redis call, or the death of the API between INCRBY and EXPIRE,   *)
(* can.                                                                    *)
THEOREM CountersAlwaysExpire == Spec => []CountersExpire
  <1>1. Init => CountersExpire
    BY DEF Init, CountersExpire
  <1>2. QED
    BY <1>1, InitTyped, NextTyped, NextExpire, PTL DEF Spec
=============================================================================

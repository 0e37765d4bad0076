-------------------------- MODULE MessageLifecycle --------------------------
(***************************************************************************)
(* What a client of the service may see of its messages: the lifecycle of  *)
(* Roadmap.md:70, with the moves the code adds to it (scheduled messages,  *)
(* back to queued between attempts, dead-letter retries).  Which faults    *)
(* and races excuse the implementation is not said here: it may declare a  *)
(* message disturbed, and promises nothing more about that one.            *)
(***************************************************************************)
CONSTANT Messages

VARIABLE status

Status == {"absent", "scheduled", "queued", "processing", "sent", "delivered", "failed", "disturbed"}

\* One message moves between two sets of statuses, the others stay.
Move(m, from, to) ==
  /\ status[m] \in from
  /\ status' = [status EXCEPT ![m] = to]

\* The members of S move together, as a bulk request does.
MoveAll(S, from, to) ==
  /\ \A m \in S : status[m] \in from
  /\ status' = [m \in Messages |-> IF m \in S THEN to ELSE status[m]]

Init == status = [m \in Messages |-> "absent"]

Accept(S)   == \E first \in {"scheduled", "queued"} : MoveAll(S, {"absent"}, first)
Start(m)    == Move(m, {"scheduled", "queued", "failed"}, "processing")
Succeed(m)  == Move(m, {"processing"}, "sent")
TryLater(m) == Move(m, {"processing"}, "queued")
GiveUp(m)   == Move(m, {"processing"}, "failed")
Deliver(m)  == Move(m, {"sent"}, "delivered")
Reopen(m)   == Move(m, {"failed"}, "queued")
Disturb(S)  == MoveAll(S, Status, "disturbed")

Next ==
  \/ \E S \in SUBSET Messages : Accept(S) \/ Disturb(S)
  \/ \E m \in Messages : \/ Start(m) \/ Succeed(m) \/ TryLater(m) \/ GiveUp(m)
                         \/ Deliver(m) \/ Reopen(m)

Spec == Init /\ [][Next]_status
=============================================================================

------------------------------- MODULE MCWorker -------------------------------
(***************************************************************************)
(* What a worker process does besides running message jobs, for TLC: it    *)
(* reports its WhatsApp client's state, and delivers webhooks.  The two    *)
(* share nothing, so that a run follows one, chosen at the start.  One     *)
(* event of tenant t1, a webhook of t1 and one of the platform.            *)
(***************************************************************************)
EXTENDS WhatsAppLink

CONSTANTS
  t1, n1, h1, hp, e1, u1, p1, Platform, None,
  Attempts, MaxStalledCount, MaxDeliveryFaults, MaxOps

VARIABLES
  part,
  hook, notice, copy, job, run, discarding, posts, accepted, refused, mishaps,
  deliveryFaults, edits, ops

Fanout == INSTANCE WebhookFanout
  WITH Tenants <- {t1}, Notices <- {n1}, EventOf <- [n \in {n1} |-> e1],
       TenantOf <- [n \in {n1} |-> t1], Hooks <- {h1, hp},
       HookTenant <- [h \in {h1, hp} |-> IF h = h1 THEN t1 ELSE Platform],
       Events <- {e1}, Urls <- {u1}, Processors <- {p1},
       MaxFaults <- MaxDeliveryFaults, MaxEdits <- 0, faults <- deliveryFaults

ASSUME DeliveryConstants ==
  Fanout!FanoutAssumption /\ Fanout!AttemptsAssumption /\ Fanout!StalledAssumption

deliveryVars == <<hook, notice, copy, job, run, discarding, posts, accepted, refused, mishaps,
                  deliveryFaults, edits, ops>>
workerVars == <<part, vars, deliveryVars>>

WorkerInit ==
  /\ part \in {"link", "deliveries"}
  /\ Init /\ Fanout!Init
  /\ part = "link" => \A h \in {h1, hp} : hook[h] = None

OnLink == part = "link" /\ UNCHANGED <<part, deliveryVars>>
OnDeliveries == part = "deliveries" /\ UNCHANGED <<part, vars>>
WorkerNext == (OnLink /\ Next) \/ (OnDeliveries /\ Fanout!Next)

\* WebhookFanout's fairness, where a run follows it; where it does not,
\* Fairness has nothing to ask of a link that was never started.
DeliveryFairness ==
  /\ WF_workerVars(OnDeliveries /\ Fanout!Dispatch(n1))
  /\ WF_workerVars(OnDeliveries /\ Fanout!Process(p1))
  /\ WF_workerVars(OnDeliveries /\ \E h \in {h1, hp} : Fanout!Take(p1, <<n1, h>>))
  /\ \A h \in {h1, hp} : WF_workerVars(OnDeliveries /\ Fanout!Promote(<<n1, h>>))

WorkerSpec ==
  WorkerInit /\ [][WorkerNext]_workerVars /\ Fairness /\ DeliveryFairness

-----------------------------------------------------------------------------
\* Every variable of the link and of the deliveries has its type; what is reported
\* is one of the states the API declares (whatsapp.service.ts:120).
WorkerTypeOK == TypeOK /\ Fanout!TypeOK

\* Every delivery that was queued is completed, waits in the dead-letter queue
\* or was discarded in the end, whatever its endpoint does
\* (webhook.processor.ts:26).
DeliveriesSettle == Fanout!DeliveriesSettle
=============================================================================

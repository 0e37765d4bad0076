--------------------------- MODULE MCWebhookFanout ---------------------------
\* Instances of WebhookFanout for TLC: one event of tenant t1, a webhook of t1,
\* one of t2 and one of the platform.
EXTENDS WebhookFanout, TLC

CONSTANTS t1, t2, n1, h1, h2, hp, e1

MCEventOf == n1 :> e1
MCTenantOf == n1 :> t1
MCHookTenant == [h \in Hooks |-> IF h = h1 THEN t1 ELSE IF h = h2 THEN t2 ELSE Platform]

Symmetric == Permutations(Processors) \cup Permutations(Urls)
=============================================================================

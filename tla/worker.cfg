\* WhatsAppLink, and WebhookFanout's liveness.
CONSTANTS
    Workers = {w1, w2}
    StatusTtl = 3
    QrTtl = 2
    MaxEvents = 2
    MaxFaults = 1
    t1 = t1
    n1 = n1
    h1 = h1
    hp = hp
    e1 = e1
    u1 = u1
    p1 = p1
    Platform = Platform
    None = None
    Attempts = 3
    MaxStalledCount = 1
    MaxDeliveryFaults = 2
    MaxOps = 2
SPECIFICATION WorkerSpec
CHECK_DEADLOCK FALSE
INVARIANTS WorkerTypeOK ReportIsRecent ConnectedMeansReady
PROPERTIES ReportCatchesUp DeliveriesSettle

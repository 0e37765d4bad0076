\* MessagesPage, DashboardSession, AdminTable, KeyForm and TemplateForm.
CONSTANTS
    Parts = {"badge", "list", "one queue", "two queues", "session", "tenants", "api-keys", "webhooks", "key form", "one template", "two templates"}
    None = None
    Unset = Unset
    Platform = Platform
    Blank = Blank
    Subject = Subject
    Slots = {s1, s2}
    Acts = {a1, a2}
    PageSize = 1
    MaxRows = 2
    Tabs = {a, b}
    Tokens = {k1, k2}
    TableRow = r1
    Keys = {y1, y2}
    Tenant = t1
    Template = m1
    Other = m2
    MaxCalls = 2
    MaxCallsOfATab = 1
SPECIFICATION Spec
CHECK_DEADLOCK FALSE
INVARIANTS TypeOK OneTimer FullHistory RightTarget
PROPERTIES PageCatchesUp EverythingRetried ButtonsMeanWhatTheySay EachKeyIsSeen DeactivatedLocksOut ExpiryIsNoticed

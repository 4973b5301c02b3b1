\* A failure after the notification was recorded as processed.
SPECIFICATION Spec
CONSTANTS
    u1 = u1  u2 = u2
    o1 = o1  o2 = o2  o3 = o3
    n1 = n1  n2 = n2  n3 = n3
    Users = {u1}
    Orders = {o1}
    CustomerOf <- OneOrder
    InitialCredit <- CreditOne
    CreditGrants = {1}
    MaxGrants = 0
    Totals = {2}
    MaxAttempts = 1
    ProviderStatuses = {"approved", "rejected"}
    Notifications = {n1, n2, n3}
    Deliveries <- OneNotice
    Jobs = {}
    AdminRequests <- NoRequests
    ClientCancels = {}
    MaxFaults = 1
    Overlapping = TRUE
INVARIANTS
    ProcessedMeansApplied
CHECK_DEADLOCK FALSE

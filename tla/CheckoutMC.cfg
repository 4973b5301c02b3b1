\* Concurrent checkouts of two users with credit edits, cancellations and failures.
SPECIFICATION Spec
CONSTANTS
    u1 = u1  u2 = u2
    o1 = o1  o2 = o2  o3 = o3
    n1 = n1  n2 = n2  n3 = n3
    Users = {u1, u2}
    Orders = {o1, o2, o3}
    CustomerOf <- ThreeOrders
    InitialCredit <- CreditTwo
    CreditGrants = {1, 2}
    MaxGrants = 1
    Totals = {0, 1, 3}
    MaxAttempts = 1
    ProviderStatuses = {"approved", "rejected"}
    Notifications = {n1, n2, n3}
    Deliveries <- NoRequests
    Jobs = {}
    AdminRequests <- NoRequests
    ClientCancels = {o1, o2, o3}
    MaxFaults = 1
    Overlapping = TRUE
INVARIANTS
    NoOverdraft
    OrderBacked
CHECK_DEADLOCK FALSE

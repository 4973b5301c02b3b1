\* Settling handlers of an order one after the other, with failures and restarts.
SPECIFICATION Spec
CONSTANTS
    u1 = u1  u2 = u2
    o1 = o1  o2 = o2  o3 = o3
    n1 = n1  n2 = n2  n3 = n3
    Users = {u1}
    Orders = {o1, o2}
    CustomerOf <- TwoOrdersOneUser
    InitialCredit <- CreditOne
    CreditGrants = {1}
    MaxGrants = 1
    Totals = {1, 2}
    MaxAttempts = 1
    ProviderStatuses = {"approved", "rejected", "refunded"}
    Notifications = {n1, n2, n3}
    Deliveries <- BothNotices
    Jobs = {"j1"}
    AdminRequests <- RejectFirst
    ClientCancels = {o1, o2}
    MaxFaults = 2
    Overlapping = FALSE
INVARIANTS
    ReserveExplained
    ReserveCoversHolds
    CartKeptUntilPaid
PROPERTIES
    AccountRefined
    StrandedOnlyByFailure
CHECK_DEADLOCK FALSE

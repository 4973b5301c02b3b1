\* The job under fairness, one hold per customer, handlers overlapping.
SPECIFICATION FairSpec
CONSTANTS
    u1 = u1  u2 = u2
    o1 = o1  o2 = o2  o3 = o3
    n1 = n1  n2 = n2  n3 = n3
    Users = {u1, u2}
    Orders = {o1, o2}
    CustomerOf <- OneEach
    InitialCredit <- CreditOne
    CreditGrants = {1}
    MaxGrants = 0
    Totals = {2}
    MaxAttempts = 1
    ProviderStatuses = {"in_process", "rejected", "approved"}
    Notifications = {n1, n2, n3}
    Deliveries <- OneNotice
    Jobs = {"j1"}
    AdminRequests <- CancelFirst
    ClientCancels = {o1}
    MaxFaults = 0
    Overlapping = TRUE
PROPERTIES
    HeldCreditEventuallySettled
CHECK_DEADLOCK FALSE

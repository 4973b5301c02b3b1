\* Two requests for a code, two resets, a login and a mailing over one class.
SPECIFICATION Spec
CONSTANTS
    ann = ann
    bob = bob
    q1 = q1
    q2 = q2
    r1 = r1
    r2 = r2
    l1 = l1
    b1 = b1
    Accounts <- TwoUsers
    Asks <- TwoAsks
    AskedBy <- AnnAsksTwice
    Resets <- TwoResets
    Logins <- OneLogin
    LoginOf <- AnnLogsIn
    Batches <- OneBatch
    Roster <- Class
INVARIANTS
    EarlierCodesDead
    SpentTwiceOnlyWhenRaced
    EveryStudentCounted
PROPERTIES
    KnownStudentsKeepPassword
SYMMETRY Alike
CHECK_DEADLOCK FALSE

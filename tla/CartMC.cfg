\* Three overlapping PUTs of one customer with clears and failures.
SPECIFICATION CartSpec
CONSTANTS
    Users = {u1}
    Puts = {p1, p2, p3}
    Items = {"album", "photos"}
    NoCart = NoCart
    NoId = NoId
INVARIANTS
    AnsweredPutReadBack
    ConflictOnlyWhenRaced
CHECK_DEADLOCK FALSE

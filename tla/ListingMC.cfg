\* A walk through any of the lists, while rows of it are written.
SPECIFICATION Spec
CONSTANTS
    r1 = r1
    r2 = r2
    r3 = r3
    shown = shown
    hidden = hidden
    all = all
    Ids <- ThreeRows
    Names <- TwoNames
    Classes <- TwoClasses
    All = all
    Limits <- Pairs
    Instants = 3
    MaxLoaded = 3
    MaxWrites = 2
    DateText <- SaturdayToMonday
SYMMETRY Alike
INVARIANTS
    NothingMissed
    NothingRepeated
    OrderKept
CHECK_DEADLOCK FALSE

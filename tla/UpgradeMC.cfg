\* A database created with the first release, upgraded and reverted at will.
SPECIFICATION Spec
CONSTANTS
    FirstRelease = 1
    MaxReverts = 2
INVARIANTS
    SchemaFollowsHistory
    EntitiesMatch
PROPERTIES
    UpgradeSucceeds
    StatusKept
CHECK_DEADLOCK FALSE

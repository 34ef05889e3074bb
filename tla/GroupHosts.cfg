CONSTANTS
    Member = {r1, r2}
    None = None
    MaxGeneration = 2
    MaxSent = 3
SPECIFICATION SpecGroup
CHECK_DEADLOCK FALSE
INVARIANTS
    TypeOK
    SenderKeysUnique
    NeverAhead
    ReadsWithinGrant
PROPERTIES
    GroupExamplePasses

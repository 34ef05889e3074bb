CONSTANTS
    Alice = Alice
    Bob = Bob
    HdrChunks = 2
    EkChunks = 4
    Ct1Chunks = 3
    Ct2Chunks = 3
    MaxEpoch = 3
    MaxInFlight = 6
SPECIFICATION Spec
INVARIANTS
    TypeOK
    EpochSecretsAgree
    NoInvalidMac
    RolesExclusive

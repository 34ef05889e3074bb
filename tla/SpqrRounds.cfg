CONSTANTS
    Alice = Alice
    Bob = Bob
    HdrChunks = 2
    EkChunks = 36
    Ct1Chunks = 30
    Ct2Chunks = 4
    MaxEpoch = 3
    MaxInFlight = 1
SPECIFICATION SpecRounds
CHECK_DEADLOCK FALSE
PROPERTY EpochAdvances

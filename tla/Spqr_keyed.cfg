CONSTANTS
    Alice = Alice
    Bob = Bob
    HdrChunks = 2
    EkChunks = 3
    Ct1Chunks = 2
    Ct2Chunks = 2
    MaxEpoch = 1
    MaxInFlight = 2
SPECIFICATION Spec
PROPERTY EveryMessageKeyed

SPECIFICATION Spec
CONSTANTS
    Byte = {0, 1}
    Zero = 0
    ChunkSize = 2
    MaxSlice = 4
    MaxInput = 5
INVARIANTS
    TypeOK
    MacsOfContent
    GenuineAccepted
    AcceptedAgrees
PROPERTIES
    RefusedForGood

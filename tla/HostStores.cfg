SPECIFICATION Spec
CONSTANTS
    Ids = {i1, i2, i3}
    Records = {r1, r2}
    None = None
    Error = Error
    Done = Done
    KeyPair = KeyPair
    Blocks = {b1, b2, b3, b4, b5}
    KvMax = 2
    MaxLost = 1
CHECK_DEADLOCK FALSE
INVARIANTS
    TypeOK
    HeapAccounted
    KeysDistinct
PROPERTIES
    MapStoresImplemented

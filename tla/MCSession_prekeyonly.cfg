CONSTANTS
    Alice = Alice
    Bob = Bob
    None = None
    o1 = o1
    o2 = o2
    OneTimeKeys = {o1, o2}
    Bundles <- BundlesClassic
    KyberStores = {Alice, Bob}
    MaxForwardJumps = 2
    MaxMessageKeys = 2
    MaxReceiverChains = 2
    MaxArchivedStates = 1
    MaxPqJump = 2
    MaxKey = 8
    MaxSent = 4
SPECIFICATION Spec
CHECK_DEADLOCK FALSE
INVARIANT PreKeyOnlyBeforeReply

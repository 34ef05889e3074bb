CONSTANTS
    Alice = Alice
    Bob = Bob
    None = None
    o1 = o1
    OneTimeKeys = {o1}
    Bundles <- BundlesOfBoth
    KyberStores = {Alice, Bob}
    Hosts = {"any"}
    MaxForwardJumps = 1
    MaxMessageKeys = 1
    MaxReceiverChains = 2
    MaxArchivedStates = 1
    MaxPqJump = 2
    MaxKey = 6
    MaxSent = 2
SPECIFICATION SpecHosts
CHECK_DEADLOCK FALSE
INVARIANT StateFreedOnce

CONSTANTS
    Alice = Alice
    Bob = Bob
    None = None
    o1 = o1
    o2 = o2
    OneTimeKeys = {o1, o2}
    Bundles <- BundlesMixed
    KyberStores = {Alice}
    MaxForwardJumps = 2
    MaxMessageKeys = 1
    MaxReceiverChains = 2
    MaxArchivedStates = 1
    MaxPqJump = 2
    MaxKey = 8
    MaxSent = 5
SPECIFICATION Spec
INVARIANTS
    TypeOK
    SealingKeysUnique
    OneTimeKeySpent
    OneSessionPerOneTimeKey
    WhisperOpensOnce
    IdentityBeforeSession
    AheadOpens
    HandshakesAgree

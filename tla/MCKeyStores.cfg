SPECIFICATION Spec
CONSTANTS
    MaxId = 2
    MaxGen = 2
    BaseKeys = {b1, b2}
    Peers = {p1}
    PeerKeys = {k1, k2}
    NoValue = NoValue
    Torn = Torn
INVARIANTS
    TypeOK
    PreKeysKept
    LongLivedKept
    UseAcceptedOnce
    IdentityPinned
SYMMETRY Symmetry

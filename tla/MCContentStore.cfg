SPECIFICATION Spec
CONSTANTS
    Dicts = {"state", "contacts", "groups", "group_avatars", "profiles", "profile_keys", "profile_avatars", "sticker_packs", "thread", "sender_key"}
    Threads = {"thread"}
    Keys = {1, 2}
    Byte = {"a", "b"}
    LongNames <- MCLongNames
    Values <- MCValues
    Batches <- MCBatches
    NoValue = NoValue
    Torn = Torn
    BufLen = 2
    PageLen = 1
    NamesLen = 4
    BatchLen = 13
    MaxOps = 2
INVARIANTS
    TypeOK
PROPERTIES
    ImplementsKvBackend
    AnswersAreTrue
    ClearIsComplete
    MethodReturns

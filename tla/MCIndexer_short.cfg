\* One follower whose endpoints may answer any query with too few logs.
CONSTANTS
    t1 = t1   t2 = t2   a = a   b = b   zero = zero
    admin = admin   minter = minter   p1 = p1   p2 = p2
    Token = {t1, t2}
    Account = {a, b}
    ZERO = zero
    Role = {admin, minter}
    AdminRole = {admin}
    Log <- MCShortLog
    Proc = {p1}
    Mode <- MCMode1
    Fork <- MCShortFork
    MaxBlock = 3
    StartBlock = 1
    Confirmations = 0
    MaxLag = 0
    Chunk = 2
    TopicChunk = 2
    LiveChunk = 1
    LiveLookback = 2
    AddressChunk = 2
    RangesPerTick = 1
    ShortReplies = TRUE
    LegacyCursors <- MCNew
    NoTxn = NoTxn
SPECIFICATION Spec
INVARIANTS
    TypeOK
    HoldersCounted
    FlagsExact
PROPERTIES
    KnownTransfersApplied

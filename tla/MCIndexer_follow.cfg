\* One follower that crashes, fails and restarts on a chain that forks.
CONSTANTS
    t1 = t1   t2 = t2   a = a   b = b   zero = zero
    admin = admin   minter = minter   p1 = p1   p2 = p2
    Token = {t1, t2}
    Account = {a, b}
    ZERO = zero
    Role = {admin, minter}
    AdminRole = {admin}
    Log <- MCLog
    Proc = {p1}
    Mode <- MCMode1
    Fork <- MCFork
    MaxBlock = 4
    StartBlock = 1
    Confirmations = 1
    MaxLag = 1
    Chunk = 2
    TopicChunk = 2
    LiveChunk = 1
    LiveLookback = 2
    AddressChunk = 1
    RangesPerTick = 1
    ShortReplies = FALSE
    LegacyCursors <- MCLegacy
    NoTxn = NoTxn
SPECIFICATION FairSpec
INVARIANTS
    CanonicalOnly
    CursorComplete
    AppliedInOrder
PROPERTIES
    ImplementsLedger
    CatchesUp
    DeploymentsListed

\* The follower and a --cobalt-backfill run on one database file.
CONSTANTS
    p1 = p1   p2 = p2   pol = pol   tok = tok
    Proc = {p1, p2}
    Mode <- MCBackfill
    Log <- MCLog
    Policy = {pol}
    Token = {tok}
    Deployed <- MCDeployed
    StartBlock = 1
    CobaltBlock = 2
    MaxBlock = 4
    MaxLag = 1
    StreamChunk = 2
    Concurrency = 2
    RangesPerTick = 1
SPECIFICATION FairSpec
INVARIANTS
    StreamComplete
    StateIsNewest
    StartExact
PROPERTIES
    CursorsOnlyAdvance
    CatchesUp

\* --fill-creators against what it is offered for: the same instance.
CONSTANTS
    e1 = e1   e2 = e2   e3 = e3
    c1 = c1   c2 = c2   c3 = c3
    logs = logs   block = block
    Call = {c1, c2, c3}
    Method = {logs, block}
    GetLogs = logs
    Asks <- MCAsks
    Endpoint = {e1, e2, e3}
    Position <- MCPosition
    OnChain = {e1, e3}
    Dependable = {e2, e3}
    Slots = 2
    None = None
    a = a   b = b   c = c
    Log <- MCLog
    Addresses <- MCAddresses
    From = 1
    To = 4
    Max = 1
    Span = 3
    Full = 1
    t1 = t1   t2 = t2   t3 = t3   t4 = t4   t5 = t5
    Token = {t1, t2, t3, t4, t5}
    Block <- MCBlock
    Sure = {t1, t3, t4}
    Flaky = {t5}
    Limit = 2
SPECIFICATION MCSpec
INVARIANT
    DeployersBackfilled

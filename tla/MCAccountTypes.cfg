\* One token, two admins, one of them also looked up by visitors.
CONSTANTS
    T = T   a = a   b = b   zero = zero   admin = admin   other = other
    Token = {T}
    Account = {a, b}
    ZERO = zero
    Role = {admin}
    AdminRole = {admin}
    Log <- MCLog
    Codes <- MCCodes
    Visited = {a}
    WarmLimit = 2
    Concurrency = 2
    Others = {other}
SPECIFICATION FairSpec
PROPERTIES
    FilterConverges
    LabelsConverge

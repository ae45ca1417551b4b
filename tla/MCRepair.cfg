\* Every tool, beside a follower where the tool checks for one.
CONSTANTS
    A = A   B = B   a = a   b = b   ZERO = ZERO
    Token = {A, B}
    Account = {a, b}
    Role = {}
    AdminRole = {}
    Log <- MCLog
    MaxBlock = 4
    Tools = {"rebuild", "prepared", "chain"}
    FromBlocks = {1, 2, 3}
SPECIFICATION Spec
PROPERTIES
    CountsExact
    LedgerExact
    HoldersSumToSupply
CHECK_DEADLOCK FALSE

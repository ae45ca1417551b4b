\* Every reader, at every set of stored rows.
CONSTANTS
    zeroAdmin = zeroAdmin   defaultAdmin = defaultAdmin
    seizer = seizer   burner = burner   x = x   y = y
    exempt = exempt   receiver = receiver   sender = sender
    p = p   q = q   r = r   none = none   block = block
    Account = {x, y}
    Role = {zeroAdmin, defaultAdmin, seizer, burner}
    Label <- MCLabel
    SeizeRole = seizer
    BurnBlockedRole = burner
    ExemptScope = exempt
    ReceiverScope = receiver
    SenderScope = sender
    NoPolicy = none
    AlwaysBlock = block
    Limit = 2
    Policy <- MCPolicy
    Missing = Missing
    Histories <- MCHistories
    Paged <- MCPaged
SPECIFICATION Spec
INVARIANTS
    ArmedExact
    ListedHold
    AnnouncementsExact
    DetailsExact
    NoScopeHidden
    PagingExact
CHECK_DEADLOCK FALSE

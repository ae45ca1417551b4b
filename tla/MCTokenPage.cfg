\* A visit in which a request for a token fails only while its card is open.
CONSTANTS
    A = A   B = B   all = all   some = some   None = None
    Token = {A, B}
    Filter = {all, some}
    NoFilter = all
    Pages <- MCPages
    LateFailures = FALSE
    MaxLists = 2
    MaxCards = 2
SPECIFICATION FairSpec
INVARIANTS
    UrlNamesCard
    CardShowsItsToken
    OpenCardVisible
PROPERTIES
    ListConverges

\* A visit in which a request may fail after another card was opened.
CONSTANTS
    A = A   B = B   all = all   some = some   None = None
    Token = {A, B}
    Filter = {all, some}
    NoFilter = all
    Pages <- MCPages
    LateFailures = TRUE
    MaxLists = 2
    MaxCards = 2
SPECIFICATION Spec
INVARIANTS
    CardShowsItsToken

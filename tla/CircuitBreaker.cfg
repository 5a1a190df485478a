SPECIFICATION PersistentSpec
CONSTANTS
    Callers = {c1, c2, c3}
    Threshold = 2
    Timeout = 2
    MaxFailures = 5
INVARIANTS TypeOK StateMatchesCount
PROPERTIES ClosesAgain

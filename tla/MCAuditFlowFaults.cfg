SPECIFICATION Spec
CONSTANTS
    r1 = r1
    r2 = r2
    w1 = w1
    w2 = w2
    p1 = p1
    p2 = p2
    NoUrl = NoUrl
    Urls = {u1, u2}
    Requests = {r1, r2}
    Workers = {w1, w2}
    Procs = {p1, p2}
    Home <- TwoProcesses
    MaxQueueSize = 1
    KeepCompleted = 1
    MaxStalled = 1
    MaxArrivals = 3
    Faults = {"get", "set", "queue", "expire", "crash"}
INVARIANTS TypeOK SingleFlight QueueOvershootBounded IInv
PROPERTIES NewestWins FreshAnswer
SYMMETRY Symmetry

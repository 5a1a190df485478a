SPECIFICATION Spec
CONSTANTS
    r1 = r1
    r2 = r2
    w1 = w1
    w2 = w2
    p1 = p1
    p2 = p2
    NoUrl = NoUrl
    Urls = {u1}
    Requests = {r1}
    Workers = {w1}
    Procs = {p1}
    Home <- OneProcess
    MaxQueueSize = 1
    KeepCompleted = 1
    MaxStalled = 1
    MaxArrivals = 2
    Faults = {"expire"}
PROPERTIES DispatchIsServed

\* Two threads that add or resize, two that prefetch, two calls of prefetch_lists.
SPECIFICATION PFairSpec
CONSTANTS
    Threads = {a1, a2, p1, p2}
    Pool = {p1, p2}
    Lists = {l1, l2}
    NoThread = NoThread
    NoList = NoList
    MaxOps = 1
    RemapMayFail = FALSE
    Requests <- SomeRequests
    MaxPrefetches = 2
INVARIANTS
    TasksArePrivate
PROPERTIES
    ImplementsListAccess
    AllCallsReturn

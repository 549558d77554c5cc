\* Two callers and two indices: queues of length two,
\* stops at every point of a call.  The system stops when all calls are made.
SPECIFICATION FairSpec
CONSTANTS
    Callers = {c1, c2}
    Indices = {1, 2}
    NoCaller = none
    MaxCalls = 2
INVARIANTS
    TypeOK
    OneFunctionPerFuture
PROPERTIES
    FlushIsAlone
    ImplementsFanOut
    CallsEnd
    StoppedWorkersExit
CHECK_DEADLOCK FALSE

\* Calls over at most six vectors; MaxPasses = 2 lets the passes run out,
\* SplitCap = 3 does for these sizes what 64 does.
SPECIFICATION FairSpec
CONSTANTS
    Calls <- MergeCalls
    MaxPasses = 2
    SplitCap = 3
    PqSamplePercent = 100
INVARIANTS
    TypeOK
    Partition
    EncodersApart
    SplitsLeaveNoListEmpty
PROPERTIES
    ImplementsMergedIndex
    Termination

\* As HNSW.cfg, but a group that raises the maximum level runs in parallel
SPECIFICATION Spec
CONSTANTS
    Threads = {t1, t2}
    Batches <- TwoPairs
    MaxLevel = 1
    Cap <- TwoAndOne
    Threshold = 1
    MayInterrupt = TRUE
    AnyLevels = TRUE
INVARIANTS
    LevelsExist
CHECK_DEADLOCK FALSE

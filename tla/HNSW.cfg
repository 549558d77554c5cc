\* Two calls that add two nodes each, by two threads; levels 0 and 1.
\* The behaviour ends after the last call.
SPECIFICATION Spec
CONSTANTS
    Threads = {t1, t2}
    Batches <- TwoPairs
    MaxLevel = 1
    Cap <- TwoAndOne
    Threshold = 1
    MayInterrupt = TRUE
    AnyLevels = FALSE
INVARIANTS
    TypeOK
    LevelsExist
    LinksAreNew
    NoLinkLost
    NoNodeLeftAlone
    EntryPointIsTop
PROPERTIES
    AllAdded
CHECK_DEADLOCK FALSE

\* two lists in a file of up to 64 bytes, grown, emptied and overwritten: every
\* layout of regions and holes, and what readers get
SPECIFICATION Spec
\* the storage rests when nobody calls
CHECK_DEADLOCK FALSE
CONSTANTS
    NList = 2
    CodeSize = 1
    IdBytes = 3
    MaxBytes = 64
    MaxAdded = 3
    MaxSize = 4
    MaxChunk = 2
    NewSizes = {0, 4}
    Ops <- AllOps
    InPlaceShrink = FALSE
    GrowAfterMerge = FALSE
    Sources <- EqualShards
INVARIANTS
    TypeOK
    SpaceDisjoint
PROPERTIES
    NeverCopiesOntoItself
    ImplementsListStore

\* Two lists and two threads; batches of up to two vectors with any of three ids,
\* every type of map, removals, updates and a merge with an index of two vectors
SPECIFICATION Spec
CONSTANTS
    NList = 2
    Ranks = {0, 1}
    Ids = {0, 1, 2}
    MaxAdded = 3
    MaxBatch = 2
    Types <- AllTypes
    Sources <- OneOther
    Shifts = {1}
    Careful = TRUE
INVARIANTS
    TypeOK
    MapAgrees
    CountAgrees
    BatchOrderKept
PROPERTIES
    ImplementsIdStore

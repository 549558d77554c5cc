\* a vector without a list is added and then removed by its id
SPECIFICATION Spec
CONSTANTS
    NList = 2
    Ranks = {0, 1}
    Ids = {0, 1}
    MaxAdded = 2
    MaxBatch = 1
    Types <- HashtableOnly
    Sources <- NoOther
    Shifts = {2}
    Careful = FALSE
INVARIANTS
    ListNoInRange

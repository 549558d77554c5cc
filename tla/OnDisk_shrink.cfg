\* a list of nine entries shrunk to one, with the real size of an id
SPECIFICATION Spec
CONSTANTS
    NList = 1
    CodeSize = 1
    IdBytes = 8
    MaxBytes = 512
    MaxAdded = 10
    MaxSize = 10
    MaxChunk = 9
    NewSizes = {0, 1, 4}
    Ops <- AddAndShrink
    InPlaceShrink = TRUE
    GrowAfterMerge = FALSE
    Sources <- NoSources
INVARIANTS
    IdsFollowCodes

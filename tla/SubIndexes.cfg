\* Three indexes, which are interchangeable; two calls of add with three
\* vectors
SPECIFICATION Spec
CONSTANTS
    Subs = {s1, s2, s3}
    Kinds = {"shards", "successive", "replicas"}
    BatchSizes = {3}
    MaxAdds = 2
    GivenIds = {0}
INVARIANTS
    TypeOK
    TotalAgrees
    AnswersAsOne
SYMMETRY AnyOrder

\* Four threads on three lists: one remapping, one asleep at level 2, one reading,
\* one at lock_1.  update_totsize may throw; the process then stops in its locks,
\* so a deadlock is expected here.
SPECIFICATION Spec
CONSTANTS
    Threads = {t1, t2, t3, t4}
    Lists = {l1, l2, l3}
    NoThread = NoThread
    NoList = NoList
    MaxOps = 2
    RemapMayFail = TRUE
SYMMETRY ThreadsAndLists
CHECK_DEADLOCK FALSE
INVARIANTS
    TypeOK
    ListExclusion
    RemapExclusion
    NoLostWakeup
    SomeThreadCanProceed

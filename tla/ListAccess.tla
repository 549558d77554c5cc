------------------------------ MODULE ListAccess ------------------------------
(***************************************************************************)
(* What the locks of an OnDiskInvertedLists promise to the code that runs  *)
(* under them, with no mutex, counter or condition variable in sight.      *)
(*                                                                         *)
(* A thread claims a list before it touches the mapped file and gives the  *)
(* claim back afterwards.  A claim is exclusive.  One claimant at a time   *)
(* may be the allocator, who edits the slot table and moves its list; the  *)
(* allocator alone may remap the file, and only while nobody is touching   *)
(* the mapping.  A claimant that waits to become the allocator keeps its   *)
(* claim but touches nothing.                                              *)
(***************************************************************************)
CONSTANTS Threads, Lists, NoThread, NoList

VARIABLES claim,      \* the list each thread claims, NoList if none
          touching,   \* does the thread use addresses inside the mapping?
          allocator,  \* the thread that owns the slot table, or NoThread
          remapping   \* is the mapping being replaced?

avars == <<claim, touching, allocator, remapping>>

AInit ==
    /\ claim = [t \in Threads |-> NoList]
    /\ touching = [t \in Threads |-> FALSE]
    /\ allocator = NoThread
    /\ remapping = FALSE

Claim(t, l) ==
    /\ claim[t] = NoList
    /\ \A u \in Threads : claim[u] # l
    /\ ~remapping
    /\ claim' = [claim EXCEPT ![t] = l]
    /\ touching' = [touching EXCEPT ![t] = TRUE]
    /\ UNCHANGED <<allocator, remapping>>

Release(t) ==
    /\ claim[t] # NoList
    /\ allocator # t
    /\ claim' = [claim EXCEPT ![t] = NoList]
    /\ touching' = [touching EXCEPT ![t] = FALSE]
    /\ UNCHANGED <<allocator, remapping>>

StopTouching(t) ==
    /\ touching[t]
    /\ allocator # t
    /\ touching' = [touching EXCEPT ![t] = FALSE]
    /\ UNCHANGED <<claim, allocator, remapping>>

BecomeAllocator(t) ==
    /\ claim[t] # NoList
    /\ ~touching[t]
    /\ allocator = NoThread
    /\ allocator' = t
    /\ UNCHANGED <<claim, touching, remapping>>

BeginRemap(t) ==
    /\ allocator = t
    /\ \A u \in Threads : ~touching[u]
    /\ remapping' = TRUE
    /\ UNCHANGED <<claim, touching, allocator>>

EndRemap(t) ==
    /\ allocator = t
    /\ remapping
    /\ remapping' = FALSE
    /\ touching' = [touching EXCEPT ![t] = TRUE]
    /\ UNCHANGED <<claim, allocator>>

BeginMove(t) ==
    /\ allocator = t
    /\ ~remapping
    /\ touching' = [touching EXCEPT ![t] = TRUE]
    /\ UNCHANGED <<claim, allocator, remapping>>

LeaveAllocator(t) ==
    /\ allocator = t
    /\ touching[t]
    /\ allocator' = NoThread
    /\ UNCHANGED <<claim, touching, remapping>>

ANext ==
    \E t \in Threads :
        \/ \E l \in Lists : Claim(t, l)
        \/ Release(t)
        \/ StopTouching(t)
        \/ BecomeAllocator(t)
        \/ BeginRemap(t)
        \/ EndRemap(t)
        \/ BeginMove(t)
        \/ LeaveAllocator(t)

ASpec == AInit /\ [][ANext]_avars
===============================================================================

--------------------------- MODULE LockLevels_proofs ---------------------------
(***************************************************************************)
(* The safety of LockLevels for every number of threads and lists.         *)
(*                                                                         *)
(* RemapExclusion is not inductive: nothing in it says why a thread that   *)
(* got past lock_3 is alone.  The reason is a count.  lock_3 compares the  *)
(* NUMBER of level-1 holders with n_level2; the invariant below says what  *)
(* these numbers count, and a finite set with as many members as one of    *)
(* its subsets is that subset.                                             *)
(***************************************************************************)
EXTENDS Prefetch, TLAPS, FiniteSetTheorems

HoldersMatch ==
    /\ \A t \in At(Holding1) : list[t] \in level1_holders
    /\ Cardinality(level1_holders) = Cardinality(At(Holding1))

Level2Counts ==
    /\ n_level2 = Cardinality(At(Counted2))
    /\ level2_in_use <=> At(Holding2) # {}

RemapSealed ==
    \A t \in At(Remapping) :
        mutex1 = t /\ Cardinality(level1_holders) <= n_level2

LockInv ==
    /\ TypeOK
    /\ ListExclusion
    /\ AllocatorExclusion
    /\ HoldersMatch
    /\ Level2Counts
    /\ RemapSealed

-------------------------------------------------------------------------------
(* A set of threads given by their pc is finite. *)
LEMMA AtFinite ==
    ASSUME NEW P
    PROVE  IsFiniteSet(At(P)) /\ Cardinality(At(P)) \in Nat
<1>1. At(P) \in SUBSET Threads
    BY DEF At
<1>2. IsFiniteSet(At(P))
    BY <1>1, ThreadsAssumption, FS_Subset
<1> QED
    BY <1>2, FS_CardinalityType

(* The lists are finitely many, so level1_holders has a size. *)
LEMMA HoldersFinite ==
    ASSUME TypeOK
    PROVE  IsFiniteSet(level1_holders) /\ Cardinality(level1_holders) \in Nat
<1>1. IsFiniteSet(level1_holders)
    BY ListsAssumption, FS_Subset DEF TypeOK
<1> QED
    BY <1>1, FS_CardinalityType

(* A step of thread t between two members, or two non-members, of P leaves  *)
(* the set of threads at P as it is.                                        *)
LEMMA AtSame ==
    ASSUME TypeOK, NEW t \in Threads, NEW P, NEW from, NEW to,
           GoTo(t, from, to), from \in P <=> to \in P
    PROVE  At(P)' = At(P)
BY DEF At, GoTo, TypeOK

(* A step of t into P adds t, and one to the count. *)
LEMMA AtEnter ==
    ASSUME TypeOK, NEW t \in Threads, NEW P, NEW from, NEW to,
           GoTo(t, from, to), from \notin P, to \in P
    PROVE  /\ At(P)' = At(P) \union {t}
           /\ t \notin At(P)
           /\ Cardinality(At(P)') = Cardinality(At(P)) + 1
<1>1. At(P)' = At(P) \union {t} /\ t \notin At(P)
    BY DEF At, GoTo, TypeOK
<1> QED
    BY <1>1, AtFinite, FS_AddElement

(* A step of t out of P removes t, and one from the count. *)
LEMMA AtLeave ==
    ASSUME TypeOK, NEW t \in Threads, NEW P, NEW from, NEW to,
           GoTo(t, from, to), from \in P, to \notin P
    PROVE  /\ At(P)' = At(P) \ {t}
           /\ t \in At(P)
           /\ Cardinality(At(P)') = Cardinality(At(P)) - 1
<1>1. At(P)' = At(P) \ {t} /\ t \in At(P)
    BY DEF At, GoTo, TypeOK
<1> QED
    BY <1>1, AtFinite, FS_RemoveElement

(* Signal and Broadcast only move threads out of their wait sets. *)
LEMMA WakeType ==
    ASSUME asleep \in [Threads -> CVs \union {"no"}], NEW cv \in CVs,
           Signal(cv) \/ Broadcast(cv) \/ (\E t \in Threads : WaitOn(t, cv))
    PROVE  asleep' \in [Threads -> CVs \union {"no"}]
BY DEF Signal, Broadcast, WaitOn, Sleepers

(* The type invariant alone is inductive. *)
LEMMA TypeStep ==
    ASSUME TypeOK, [Next]_vars, LockInv
    PROVE  TypeOK'
<1> USE DEF TypeOK, lockvars, GoTo, PCs, CVs
<1>1. CASE UNCHANGED vars
    BY <1>1 DEF vars
<1>2. CASE Finished
    BY <1>2 DEF Finished, vars
<1>3. ASSUME NEW t \in Threads, ThreadStep(t) \/ SpuriousWakeup(t)
      PROVE  TypeOK'
    <2>1. CASE \E l \in Lists : Call(t, l)
        BY <2>1, MaxOpsAssumption DEF Call
    <2>2. CASE lock_1(t) \/ lock_3(t)
        BY <2>2 DEF lock_1, lock_3
    <2>10. CASE lock_2(t)
        BY <2>10 DEF lock_2
    <2>11. CASE lock_3_enter(t)
        BY <2>11 DEF lock_3_enter
    <2>3. CASE lock_1_wait(t) \/ lock_2_wait(t) \/ lock_3_wait(t)
        BY <2>3 DEF lock_1_wait, lock_2_wait, lock_3_wait, WaitOn
    <2>4. CASE unlock_1(t)
        <3>1. asleep' \in [Threads -> CVs \union {"no"}]
            BY <2>4, WakeType DEF unlock_1
        <3> QED
            BY <2>4, <3>1 DEF unlock_1
    <2>5. CASE lock_2_enter(t)
        <3>1. asleep' \in [Threads -> CVs \union {"no"}]
            BY <2>5, WakeType DEF lock_2_enter
        <3>2. /\ n_level2' = n_level2 + 1
              /\ pc' = [pc EXCEPT ![t] = "wait_2"]
              /\ UNCHANGED <<mutex1, level1_holders, level2_in_use,
                             level3_in_use, list, ops>>
            BY <2>5 DEF lock_2_enter
        <3> QED
            BY <3>1, <3>2
    <2>6. CASE unlock_2(t)
        <3>1. asleep' \in [Threads -> CVs \union {"no"}]
            BY <2>6, WakeType DEF unlock_2
        <3>2. pc[t] = "move" /\ t \in At(Counted2)
            BY <2>6 DEF unlock_2, At, Counted2, Holding2
        <3>3. Cardinality(At(Counted2)) # 0
            BY <3>2, AtFinite, FS_EmptySet
        <3>4. n_level2 - 1 \in Nat
            BY <3>3, AtFinite DEF LockInv, Level2Counts
        <3> QED
            BY <2>6, <3>1, <3>4 DEF unlock_2
    <2>7. CASE unlock_3(t)
        <3>1. asleep' \in [Threads -> CVs \union {"no"}]
            BY <2>7, WakeType DEF unlock_3
        <3> QED
            BY <2>7, <3>1 DEF unlock_3
    <2>8. CASE NeedsNewSlot(t) \/ SlotFound(t) \/ update_totsize_throws(t)
        BY <2>8 DEF NeedsNewSlot, SlotFound, update_totsize_throws
    <2>9. CASE SpuriousWakeup(t)
        BY <2>9 DEF SpuriousWakeup
    <2> QED
        BY <1>3, <2>1, <2>2, <2>3, <2>4, <2>5, <2>6, <2>7, <2>8, <2>9, <2>10,
           <2>11
        DEF ThreadStep
<1> QED
    BY <1>1, <1>2, <1>3 DEF Next

-------------------------------------------------------------------------------
SameSets ==
    /\ At(Holding1)' = At(Holding1)
    /\ At(Counted2)' = At(Counted2)
    /\ At(Holding2)' = At(Holding2)
    /\ At(Remapping)' = At(Remapping)

(* A step that neither takes nor gives back a level keeps the invariant. *)
LEMMA QuietStep ==
    ASSUME LockInv, TypeOK', SameSets,
           UNCHANGED <<mutex1, level1_holders, n_level2, level2_in_use>>,
           \A u \in At(Holding1) : list'[u] = list[u]
    PROVE  LockInv'
<1>1. HoldersMatch' /\ ListExclusion'
    BY DEF LockInv, HoldersMatch, ListExclusion, SameSets
<1>2. Level2Counts'
    <2>1. n_level2' = Cardinality(At(Counted2)')
        BY DEF LockInv, Level2Counts, SameSets
    <2>2. level2_in_use' <=> At(Holding2)' # {}
        BY Zenon DEF LockInv, Level2Counts, SameSets
    <2> QED
        BY <2>1, <2>2, Zenon DEF Level2Counts
<1>3. RemapSealed' /\ AllocatorExclusion'
    BY DEF LockInv, RemapSealed, AllocatorExclusion, SameSets
<1> QED
    BY <1>1, <1>2, <1>3 DEF LockInv

(* The steps between two places of the same standing are quiet. *)
LEMMA SameStanding ==
    ASSUME TypeOK, NEW t \in Threads, NEW from, NEW to, GoTo(t, from, to),
           \/ from = "idle" /\ to = "lock_1"
           \/ from = "use" /\ to = "lock_2"
           \/ from = "alloc" /\ to \in {"move", "wait_3"}
           \/ from = "remap" /\ to = "thrown"
    PROVE  SameSets
<1> USE DEF Holding1, Holding2, Counted2, Remapping, PCs
<1>1. from \in Holding1 <=> to \in Holding1
    OBVIOUS
<1>2. from \in Counted2 <=> to \in Counted2
    OBVIOUS
<1>3. from \in Holding2 <=> to \in Holding2
    OBVIOUS
<1>4. from \in Remapping <=> to \in Remapping
    OBVIOUS
<1>5. At(Holding1)' = At(Holding1) /\ At(Counted2)' = At(Counted2)
    BY <1>1, <1>2, AtSame
<1>6. At(Holding2)' = At(Holding2) /\ At(Remapping)' = At(Remapping)
    BY <1>3, <1>4, AtSame
<1> QED
    BY <1>5, <1>6 DEF SameSets

-------------------------------------------------------------------------------
(* lock_1 adds its list to the holders and its thread to those past lock_1. *)
LEMMA Lock1Step ==
    ASSUME LockInv, TypeOK', NEW t \in Threads, lock_1(t)
    PROVE  LockInv'
<1> DEFINE from == "lock_1"  to == "use"
<1> USE DEF Holding1, Holding2, Counted2, Remapping, PCs
<1>1. TypeOK /\ GoTo(t, from, to)
    BY DEF LockInv, lock_1
<1>2. /\ At(Holding1)' = At(Holding1) \union {t}
      /\ Cardinality(At(Holding1)') = Cardinality(At(Holding1)) + 1
    BY <1>1, AtEnter
<1>3. /\ At(Counted2)' = At(Counted2)
      /\ At(Holding2)' = At(Holding2)
      /\ At(Remapping)' = At(Remapping)
    BY <1>1, AtSame
<1> HIDE DEF Holding1, Holding2, Counted2, Remapping, PCs
<1>4. /\ list[t] \notin level1_holders
      /\ level1_holders' = level1_holders \union {list[t]}
      /\ UNCHANGED <<mutex1, n_level2, level2_in_use, list>>
      /\ mutex1 = NoThread
    BY DEF lock_1
<1>5. Cardinality(level1_holders') = Cardinality(level1_holders) + 1
    BY <1>1, <1>4, HoldersFinite, FS_AddElement
<1>6. HoldersMatch'
    BY <1>2, <1>4, <1>5 DEF HoldersMatch, LockInv
<1>7. ListExclusion'
    BY <1>2, <1>4 DEF HoldersMatch, LockInv, ListExclusion
<1>8. Level2Counts'
    BY <1>3, <1>4, Zenon DEF Level2Counts, LockInv
<1>9. At(Remapping)' = {}
    BY <1>3, <1>4, ThreadsAssumption DEF RemapSealed, LockInv, At
<1>10. RemapSealed' /\ AllocatorExclusion'
    BY <1>3, <1>9 DEF RemapSealed, AllocatorExclusion, LockInv
<1> QED
    BY <1>6, <1>7, <1>8, <1>10 DEF LockInv

(* unlock_1 takes one list and one thread away; no other holder has that list. *)
LEMMA Unlock1Step ==
    ASSUME LockInv, TypeOK', NEW t \in Threads, unlock_1(t)
    PROVE  LockInv'
<1> USE DEF Holding1, Holding2, Counted2, Remapping, PCs
<1>1. PICK from \in {"use", "update"} : TypeOK /\ GoTo(t, from, "idle")
    BY DEF LockInv, unlock_1
<1>2. /\ At(Holding1)' = At(Holding1) \ {t}
      /\ t \in At(Holding1)
      /\ Cardinality(At(Holding1)') = Cardinality(At(Holding1)) - 1
    BY <1>1, AtLeave
<1>3. /\ At(Counted2)' = At(Counted2)
      /\ At(Holding2)' = At(Holding2)
      /\ At(Remapping)' = At(Remapping)
    BY <1>1, AtSame
<1> HIDE DEF Holding1, Holding2, Counted2, Remapping, PCs
<1>4. /\ level1_holders' = level1_holders \ {list[t]}
      /\ UNCHANGED <<mutex1, n_level2, level2_in_use, list>>
      /\ mutex1 = NoThread
    BY DEF unlock_1
<1>5. list[t] \in level1_holders
    BY <1>2 DEF HoldersMatch, LockInv
<1>6. Cardinality(level1_holders') = Cardinality(level1_holders) - 1
    BY <1>1, <1>4, <1>5, HoldersFinite, FS_RemoveElement
<1>7. \A u \in At(Holding1)' : u \in At(Holding1) /\ list[u] # list[t]
    BY <1>2 DEF ListExclusion, LockInv
<1>8. HoldersMatch'
    BY <1>2, <1>4, <1>6, <1>7 DEF HoldersMatch, LockInv
<1>9. ListExclusion'
    BY <1>2, <1>4 DEF LockInv, ListExclusion
<1>10. Level2Counts'
    BY <1>3, <1>4, Zenon DEF Level2Counts, LockInv
<1>11. At(Remapping)' = {}
    BY <1>3, <1>4, ThreadsAssumption DEF RemapSealed, LockInv, At
<1>12. RemapSealed' /\ AllocatorExclusion'
    BY <1>3, <1>11 DEF RemapSealed, AllocatorExclusion, LockInv
<1> QED
    BY <1>8, <1>9, <1>10, <1>12 DEF LockInv

(* The thread is counted in n_level2 before it waits. *)
LEMMA Lock2EnterStep ==
    ASSUME LockInv, TypeOK', NEW t \in Threads, lock_2_enter(t)
    PROVE  LockInv'
<1> USE DEF Holding1, Holding2, Counted2, Remapping, PCs
<1>1. TypeOK /\ GoTo(t, "lock_2", "wait_2")
    BY DEF LockInv, lock_2_enter
<1>2. Cardinality(At(Counted2)') = Cardinality(At(Counted2)) + 1
    BY <1>1, AtEnter
<1>3. At(Holding1)' = At(Holding1)
    BY <1>1, AtSame
<1>4. At(Holding2)' = At(Holding2) /\ At(Remapping)' = At(Remapping)
    BY <1>1, AtSame
<1> HIDE DEF Holding1, Holding2, Counted2, Remapping, PCs
<1>5. /\ n_level2' = n_level2 + 1
      /\ UNCHANGED <<mutex1, level1_holders, level2_in_use, list>>
      /\ mutex1 = NoThread
    BY DEF lock_2_enter
<1>6. HoldersMatch' /\ ListExclusion'
    BY <1>3, <1>5 DEF HoldersMatch, ListExclusion, LockInv
<1>7. n_level2' = Cardinality(At(Counted2)')
    BY <1>2, <1>5 DEF Level2Counts, LockInv
<1>8. level2_in_use' <=> At(Holding2)' # {}
    BY <1>4, <1>5, Zenon DEF Level2Counts, LockInv
<1>9. Level2Counts'
    BY <1>7, <1>8, Zenon DEF Level2Counts
<1>10. At(Remapping)' = {}
    BY <1>4, <1>5, ThreadsAssumption DEF RemapSealed, LockInv, At
<1>11. RemapSealed' /\ AllocatorExclusion'
    BY <1>4, <1>10 DEF RemapSealed, AllocatorExclusion, LockInv
<1> QED
    BY <1>6, <1>9, <1>11 DEF LockInv

(* Level 2 was free, so the thread that takes it is the only one there. *)
LEMMA Lock2Step ==
    ASSUME LockInv, TypeOK', NEW t \in Threads, lock_2(t)
    PROVE  LockInv'
<1> USE DEF Holding1, Holding2, Counted2, Remapping, PCs
<1>1. TypeOK /\ GoTo(t, "wait_2", "alloc")
    BY DEF LockInv, lock_2
<1>2. At(Holding2)' = At(Holding2) \union {t}
    BY <1>1, AtEnter
<1>3. At(Holding1)' = At(Holding1) /\ At(Counted2)' = At(Counted2)
    BY <1>1, AtSame
<1>4. At(Remapping)' = At(Remapping)
    BY <1>1, AtSame
<1> HIDE DEF Holding1, Holding2, Counted2, Remapping, PCs
<1>5. /\ UNCHANGED <<mutex1, level1_holders, n_level2, list>>
      /\ mutex1 = NoThread
    BY DEF lock_2
<1>6. At(Holding2) = {}
    BY Zenon DEF lock_2, Level2Counts, LockInv
<1>7. At(Holding2)' = {t}
    BY <1>2, <1>6
<1>8. HoldersMatch' /\ ListExclusion'
    BY <1>3, <1>5 DEF HoldersMatch, ListExclusion, LockInv
<1>9. n_level2' = Cardinality(At(Counted2)')
    BY <1>3, <1>5 DEF Level2Counts, LockInv
<1>10. level2_in_use'
    BY Zenon DEF lock_2
<1>11. Level2Counts'
    BY <1>7, <1>9, <1>10 DEF Level2Counts
<1>12. At(Remapping)' = {}
    BY <1>4, <1>5, ThreadsAssumption DEF RemapSealed, LockInv, At
<1>13. RemapSealed' /\ AllocatorExclusion'
    BY <1>7, <1>12 DEF RemapSealed, AllocatorExclusion
<1> QED
    BY <1>8, <1>11, <1>13 DEF LockInv

(* The allocator was alone, so level 2 is empty when it leaves. *)
LEMMA Unlock2Step ==
    ASSUME LockInv, TypeOK', NEW t \in Threads, unlock_2(t)
    PROVE  LockInv'
<1> USE DEF Holding1, Holding2, Counted2, Remapping, PCs
<1>1. TypeOK /\ GoTo(t, "move", "update")
    BY DEF LockInv, unlock_2
<1>2. At(Holding2)' = At(Holding2) \ {t} /\ t \in At(Holding2)
    BY <1>1, AtLeave
<1>3. Cardinality(At(Counted2)') = Cardinality(At(Counted2)) - 1
    BY <1>1, AtLeave
<1>4. At(Holding1)' = At(Holding1) /\ At(Remapping)' = At(Remapping)
    BY <1>1, AtSame
<1> HIDE DEF Holding1, Holding2, Counted2, Remapping, PCs
<1>5. /\ n_level2' = n_level2 - 1
      /\ UNCHANGED <<mutex1, level1_holders, list>>
      /\ mutex1 = NoThread
    BY DEF unlock_2
<1>6. At(Holding2)' = {}
    BY <1>2 DEF AllocatorExclusion, LockInv
<1>7. HoldersMatch' /\ ListExclusion'
    BY <1>4, <1>5 DEF HoldersMatch, ListExclusion, LockInv
<1>8. n_level2' = Cardinality(At(Counted2)')
    BY <1>3, <1>5 DEF Level2Counts, LockInv
<1>9. ~level2_in_use'
    BY Zenon DEF unlock_2
<1>10. Level2Counts'
    BY <1>6, <1>8, <1>9 DEF Level2Counts
<1>11. At(Remapping)' = {}
    BY <1>4, <1>5, ThreadsAssumption DEF RemapSealed, LockInv, At
<1>12. RemapSealed' /\ AllocatorExclusion'
    BY <1>6, <1>11 DEF RemapSealed, AllocatorExclusion
<1> QED
    BY <1>7, <1>10, <1>12 DEF LockInv

(* lock_3 returns with the count settled and the mutex held. *)
LEMMA Lock3Step ==
    ASSUME LockInv, TypeOK', NEW t \in Threads, lock_3(t)
    PROVE  LockInv'
<1> USE DEF Holding1, Holding2, Counted2, Remapping, PCs
<1>1. TypeOK /\ GoTo(t, "wait_3", "remap")
    BY DEF LockInv, lock_3
<1>2. At(Remapping)' = At(Remapping) \union {t}
    BY <1>1, AtEnter
<1>3. At(Holding1)' = At(Holding1) /\ At(Counted2)' = At(Counted2)
    BY <1>1, AtSame
<1>4. At(Holding2)' = At(Holding2)
    BY <1>1, AtSame
<1> HIDE DEF Holding1, Holding2, Counted2, Remapping, PCs
<1>5. /\ UNCHANGED <<level1_holders, n_level2, level2_in_use, list>>
      /\ mutex1 = NoThread
      /\ mutex1' = t
      /\ Cardinality(level1_holders) <= n_level2
    BY DEF lock_3
<1>6. HoldersMatch' /\ ListExclusion'
    BY <1>3, <1>5 DEF HoldersMatch, ListExclusion, LockInv
<1>7. Level2Counts'
    BY <1>3, <1>4, <1>5, Zenon DEF Level2Counts, LockInv
<1>8. At(Remapping) = {}
    BY <1>5, ThreadsAssumption DEF RemapSealed, LockInv, At
<1>9. RemapSealed'
    BY <1>2, <1>5, <1>8 DEF RemapSealed
<1>10. AllocatorExclusion'
    BY <1>4 DEF AllocatorExclusion, LockInv
<1> QED
    BY <1>6, <1>7, <1>9, <1>10 DEF LockInv

(* The only remapper leaves, and the mutex is free again. *)
LEMMA Unlock3Step ==
    ASSUME LockInv, TypeOK', NEW t \in Threads, unlock_3(t)
    PROVE  LockInv'
<1> USE DEF Holding1, Holding2, Counted2, Remapping, PCs
<1>1. TypeOK /\ GoTo(t, "remap", "move")
    BY DEF LockInv, unlock_3
<1>2. At(Remapping)' = At(Remapping) \ {t} /\ t \in At(Remapping)
    BY <1>1, AtLeave
<1>3. At(Holding1)' = At(Holding1) /\ At(Counted2)' = At(Counted2)
    BY <1>1, AtSame
<1>4. At(Holding2)' = At(Holding2)
    BY <1>1, AtSame
<1> HIDE DEF Holding1, Holding2, Counted2, Remapping, PCs
<1>5. UNCHANGED <<level1_holders, n_level2, level2_in_use, list>>
    BY DEF unlock_3
<1>6. HoldersMatch' /\ ListExclusion'
    BY <1>3, <1>5 DEF HoldersMatch, ListExclusion, LockInv
<1>7. Level2Counts'
    BY <1>3, <1>4, <1>5, Zenon DEF Level2Counts, LockInv
<1>8. At(Remapping)' = {}
    BY <1>2 DEF RemapSealed, LockInv
<1>9. RemapSealed' /\ AllocatorExclusion'
    BY <1>4, <1>8 DEF RemapSealed, AllocatorExclusion, LockInv
<1> QED
    BY <1>6, <1>7, <1>9 DEF LockInv

-------------------------------------------------------------------------------
(* Every step keeps the invariant. *)
LEMMA LockStep ==
    ASSUME LockInv, [Next]_vars
    PROVE  LockInv'
<1>1. TypeOK /\ TypeOK'
    BY TypeStep DEF LockInv
<1>2. ASSUME UNCHANGED <<pc, list, mutex1, level1_holders, n_level2,
                         level2_in_use>>
      PROVE  LockInv'
    <2>1. SameSets /\ \A u \in At(Holding1) : list'[u] = list[u]
        BY <1>2 DEF SameSets, At
    <2> QED
        BY <1>1, <1>2, <2>1, QuietStep
<1>3. CASE UNCHANGED vars \/ Finished
    BY <1>2, <1>3 DEF vars, lockvars, Finished
<1>4. ASSUME NEW t \in Threads, SpuriousWakeup(t)
      PROVE  LockInv'
    BY <1>2, <1>4 DEF SpuriousWakeup, lockvars
<1>5. ASSUME NEW t \in Threads, ThreadStep(t)
      PROVE  LockInv'
    <2>1. CASE lock_1_wait(t) \/ lock_2_wait(t) \/ lock_3_wait(t)
        BY <1>2, <2>1 DEF lock_1_wait, lock_2_wait, lock_3_wait, lockvars
    <2>2. ASSUME NEW l \in Lists, Call(t, l)
          PROVE  LockInv'
        <3>1. SameSets
            BY <1>1, <2>2, SameStanding DEF Call
        <3>2. \A u \in At(Holding1) : list'[u] = list[u]
            BY <1>1, <2>2 DEF Call, GoTo, At, Holding1, TypeOK
        <3> QED
            BY <1>1, <2>2, <3>1, <3>2, QuietStep DEF Call, lockvars
    <2>3. CASE NeedsNewSlot(t) \/ SlotFound(t) \/ update_totsize_throws(t)
        <3>1. SameSets
            BY <1>1, <2>3, SameStanding
            DEF NeedsNewSlot, SlotFound, update_totsize_throws
        <3> QED
            BY <1>1, <2>3, <3>1, QuietStep
            DEF NeedsNewSlot, SlotFound, update_totsize_throws, lockvars
    <2>4. CASE lock_3_enter(t)
        <3>1. SameSets
            BY <1>1, <2>4, SameStanding DEF lock_3_enter
        <3> QED
            BY <1>1, <2>4, <3>1, QuietStep DEF lock_3_enter
    <2>5. CASE lock_1(t)
        BY <1>1, <2>5, Lock1Step
    <2>6. CASE unlock_1(t)
        BY <1>1, <2>6, Unlock1Step
    <2>7. CASE lock_2_enter(t)
        BY <1>1, <2>7, Lock2EnterStep
    <2>8. CASE lock_2(t)
        BY <1>1, <2>8, Lock2Step
    <2>9. CASE unlock_2(t)
        BY <1>1, <2>9, Unlock2Step
    <2>10. CASE lock_3(t)
        BY <1>1, <2>10, Lock3Step
    <2>11. CASE unlock_3(t)
        BY <1>1, <2>11, Unlock3Step
    <2> QED
        BY <1>5, <2>1, <2>2, <2>3, <2>4, <2>5, <2>6, <2>7, <2>8, <2>9, <2>10,
           <2>11
        DEF ThreadStep
<1> QED
    BY <1>3, <1>4, <1>5 DEF Next

(* No lock is held before the first call. *)
LEMMA LockInit ==
    ASSUME Init
    PROVE  LockInv
<1>1. \A P : "idle" \notin P => At(P) = {}
    BY DEF Init, At
<1>2. At(Holding1) = {} /\ At(Counted2) = {} /\ At(Holding2) = {}
      /\ At(Remapping) = {}
    BY <1>1 DEF Holding1, Counted2, Holding2, Remapping
<1>3. Cardinality({}) = 0
    BY FS_EmptySet
<1>4. TypeOK
    <2>1. /\ level1_holders \in SUBSET Lists
          /\ n_level2 \in Nat
          /\ mutex1 \in Threads \union {NoThread}
          /\ pc \in [Threads -> PCs]
          /\ list \in [Threads -> Lists]
          /\ asleep \in [Threads -> CVs \union {"no"}]
        BY DEF Init, PCs
    <2>2. ops \in [Threads -> 0 .. MaxOps]
        BY MaxOpsAssumption DEF Init
    <2>3. level2_in_use \in BOOLEAN /\ level3_in_use \in BOOLEAN
        BY DEF Init
    <2> QED
        BY <2>1, <2>2, <2>3 DEF TypeOK
<1>5. HoldersMatch
    BY <1>2, <1>3 DEF Init, HoldersMatch
<1>6. Level2Counts
    BY <1>2, <1>3 DEF Init, Level2Counts
<1>7. ListExclusion /\ AllocatorExclusion /\ RemapSealed
    BY <1>2 DEF ListExclusion, AllocatorExclusion, RemapSealed
<1> QED
    BY <1>4, <1>5, <1>6, <1>7 DEF LockInv

(* The invariant holds in every reachable state, with or without failures. *)
THEOREM LockInvariance == Spec => []LockInv
<1>1. Init => LockInv
    BY LockInit
<1>2. LockInv /\ [Next]_vars => LockInv'
    BY LockStep
<1> QED
    BY <1>1, <1>2, PTL DEF Spec

(* The state has the types of the C++ fields. *)
THEOREM TypeCorrect == Spec => []TypeOK
<1>1. LockInv => TypeOK
    BY DEF LockInv
<1> QED
    BY <1>1, LockInvariance, PTL

(* Two threads past lock_1 never share a list. *)
THEOREM ListsAreExclusive == Spec => []ListExclusion
<1>1. LockInv => ListExclusion
    BY DEF LockInv
<1> QED
    BY <1>1, LockInvariance, PTL

(* One thread at a time is between lock_2 and unlock_2. *)
THEOREM AllocatorIsExclusive == Spec => []AllocatorExclusion
<1>1. LockInv => AllocatorExclusion
    BY DEF LockInv
<1> QED
    BY <1>1, LockInvariance, PTL

(* A thread in update_totsize finds every level-1 holder counted in n_level2, *)
(* hence waiting in lock_2 or itself.                                         *)
LEMMA CountSettlesRemap ==
    ASSUME LockInv, NEW t \in At(Remapping)
    PROVE  At(Holding1) = At(Counted2)
<1>1. At(Counted2) \in SUBSET At(Holding1)
    BY DEF At, Counted2, Holding2, Holding1, PCs
<1>2. Cardinality(At(Counted2)) <= Cardinality(At(Holding1))
    BY <1>1, AtFinite, FS_Subset
<1>3. Cardinality(At(Holding1)) <= Cardinality(At(Counted2))
    BY DEF LockInv, RemapSealed, HoldersMatch, Level2Counts
<1>4. Cardinality(At(Holding1)) = Cardinality(At(Counted2))
    BY <1>2, <1>3, AtFinite
<1> QED
    BY <1>1, <1>4, AtFinite, FS_Subset

(* The count keeps everybody away from a mapping that is replaced.           *)
LEMMA SealExcludes == LockInv => RemapExclusion
<1>1. SUFFICES ASSUME LockInv, NEW t \in At(Remapping), NEW u \in At(Touching)
               PROVE  FALSE
    BY DEF RemapExclusion
<1>2. u \in At(Counted2)
    <2>1. u \in At(Holding1)
        BY <1>1 DEF At, Touching, Holding1, PCs
    <2> QED
        BY <1>1, <2>1, CountSettlesRemap
<1>3. u \in At(Holding2) /\ t \in At(Holding2)
    BY <1>1, <1>2 DEF At, Touching, Counted2, Holding2, Remapping
<1>4. u = t
    BY <1>1, <1>3 DEF LockInv, AllocatorExclusion
<1> QED
    BY <1>1, <1>4 DEF At, Touching, Remapping

(* No thread uses the mapping while it is replaced, nor after a failure. *)
THEOREM RemapIsExclusive == Spec => []RemapExclusion
BY SealExcludes, LockInvariance, PTL

-------------------------------------------------------------------------------
(* Lost wakeups.  Beside the locks one has to know where a sleeper is and     *)
(* that a thread on its way through lock_3 has announced itself.              *)
SleepersInPlace ==
    \A t \in Threads :
        /\ asleep[t] = "level1_cv" => pc[t] = "lock_1"
        /\ asleep[t] = "level2_cv" => pc[t] = "wait_2"
        /\ asleep[t] = "level3_cv" => pc[t] = "wait_3"

Announced == \A t \in Threads : pc[t] \in {"wait_3", "remap", "thrown"} => level3_in_use

WakeInv ==
    /\ SleepersInPlace
    /\ Announced
    /\ NoLostWakeup

(* A thread that holds lock 2 is the only one that can sleep in lock_3. *)
LEMMA OneInLock3 ==
    ASSUME LockInv, WakeInv, NEW t \in At(Holding2)
    PROVE  Sleepers("level3_cv") \subseteq {t}
BY DEF LockInv, AllocatorExclusion, WakeInv, SleepersInPlace, Sleepers, At, Holding2

(* A signal on level 3 leaves nobody asleep there. *)
LEMMA SignalEmptiesLevel3 ==
    ASSUME LockInv, WakeInv, Signal("level3_cv")
    PROVE  Sleepers("level3_cv")' = {}
<1>1. \A t, u \in Sleepers("level3_cv") : t = u
    BY DEF LockInv, AllocatorExclusion, WakeInv, SleepersInPlace, Sleepers, At, Holding2
<1>2. asleep \in [Threads -> CVs \union {"no"}]
    BY DEF LockInv, TypeOK
<1> QED
    BY <1>1, <1>2 DEF Signal, Sleepers, CVs

(* What a signal or a broadcast does to the sleepers of another variable, *)
(* and of its own.                                                        *)
LEMMA WakeOnlyOwn ==
    ASSUME LockInv, NEW cv \in CVs, Signal(cv) \/ Broadcast(cv)
    PROVE  /\ \A other \in CVs : Sleepers(other)' \subseteq Sleepers(other)
           /\ \A other \in CVs \ {cv} : Sleepers(other)' = Sleepers(other)
           /\ Broadcast(cv) => Sleepers(cv)' = {}
<1>1. asleep \in [Threads -> CVs \union {"no"}]
    BY DEF LockInv, TypeOK
<1> QED
    BY <1>1 DEF Signal, Broadcast, Sleepers, CVs
(* Only a thread that is awake moves, and it falls asleep where it waits. *)
LEMMA PlacesStep ==
    ASSUME LockInv, WakeInv, NEW t \in Threads, ThreadStep(t) \/ SpuriousWakeup(t)
    PROVE  SleepersInPlace'
<1> USE DEF SleepersInPlace, GoTo
<1>1. /\ pc \in [Threads -> PCs]
      /\ asleep \in [Threads -> CVs \union {"no"}]
      /\ SleepersInPlace
    BY DEF LockInv, TypeOK, WakeInv
<1>2. CASE lock_1_wait(t) \/ lock_2_wait(t) \/ lock_3_wait(t)
    BY <1>1, <1>2 DEF lock_1_wait, lock_2_wait, lock_3_wait, WaitOn
<1>3. CASE unlock_1(t)
    BY <1>1, <1>3 DEF unlock_1, Signal, Broadcast, Sleepers
<1>4. CASE lock_2_enter(t)
    BY <1>1, <1>4 DEF lock_2_enter, Signal, Sleepers
<1>5. CASE unlock_2(t)
    BY <1>1, <1>5 DEF unlock_2, Signal, Sleepers
<1>6. CASE unlock_3(t)
    BY <1>1, <1>6 DEF unlock_3, Broadcast
<1>7. CASE \/ \E l \in Lists : Call(t, l)
           \/ lock_1(t) \/ NeedsNewSlot(t) \/ lock_2(t) \/ SlotFound(t)
           \/ lock_3_enter(t) \/ lock_3(t) \/ update_totsize_throws(t)
    BY <1>1, <1>7 DEF Call, lock_1, NeedsNewSlot, lock_2, SlotFound, lock_3_enter,
       lock_3, update_totsize_throws
<1>8. CASE SpuriousWakeup(t)
    BY <1>1, <1>8 DEF SpuriousWakeup
<1> QED
    BY <1>2, <1>3, <1>4, <1>5, <1>6, <1>7, <1>8 DEF ThreadStep

(* level3_in_use is reset by the thread that leaves lock_3, and nobody else *)
(* is in there.                                                             *)
LEMMA AnnouncedStep ==
    ASSUME LockInv, WakeInv, NEW t \in Threads, ThreadStep(t) \/ SpuriousWakeup(t)
    PROVE  Announced'
<1> USE DEF Announced, GoTo
<1>1. pc \in [Threads -> PCs] /\ Announced
    BY DEF LockInv, TypeOK, WakeInv
<1>2. CASE unlock_3(t)
    <2>1. \A u \in Threads : pc[u] \in {"wait_3", "remap", "thrown"} => u = t
        BY <1>2 DEF unlock_3, LockInv, AllocatorExclusion, At, Holding2
    <2> QED
        BY <1>1, <1>2, <2>1 DEF unlock_3
<1>3. CASE lock_3_enter(t)
    BY <1>1, <1>3 DEF lock_3_enter
<1>4. CASE lock_3(t) \/ update_totsize_throws(t)
    BY <1>1, <1>4 DEF lock_3, update_totsize_throws, lockvars
<1>5. CASE lock_1_wait(t) \/ lock_2_wait(t) \/ lock_3_wait(t) \/ SpuriousWakeup(t)
    BY <1>1, <1>5 DEF lock_1_wait, lock_2_wait, lock_3_wait, SpuriousWakeup, lockvars
<1>6. CASE \/ \E l \in Lists : Call(t, l)
           \/ lock_1(t) \/ unlock_1(t) \/ NeedsNewSlot(t) \/ lock_2_enter(t)
           \/ lock_2(t) \/ unlock_2(t) \/ SlotFound(t)
    BY <1>1, <1>6 DEF Call, lock_1, unlock_1, NeedsNewSlot, lock_2_enter, lock_2,
       unlock_2, SlotFound, lockvars
<1> QED
    BY <1>2, <1>3, <1>4, <1>5, <1>6 DEF ThreadStep

(* The three promises of NoLostWakeup, each over the state it depends on. *)
Level1Awake ==
    \A t \in Sleepers("level1_cv") : level3_in_use \/ list[t] \in level1_holders
Level2Awake ==
    Sleepers("level2_cv") # {} =>
        level2_in_use \/ \E t \in Threads : pc[t] = "wait_2" /\ asleep[t] = "no"
Level3Awake ==
    \A t \in Sleepers("level3_cv") : Cardinality(level1_holders) > n_level2

LEMMA Level1Step ==
    ASSUME LockInv, WakeInv, NEW t \in Threads, ThreadStep(t) \/ SpuriousWakeup(t)
    PROVE  Level1Awake'
<1> USE DEF Level1Awake, Sleepers
<1>1. /\ asleep \in [Threads -> CVs \union {"no"}]
      /\ list \in [Threads -> Lists]
      /\ Level1Awake
    BY DEF LockInv, TypeOK, WakeInv, NoLostWakeup
<1>2. CASE unlock_1(t)
    <2>1. CASE level3_in_use
        BY <1>2, <2>1 DEF unlock_1
    <2>2. CASE ~level3_in_use
        BY <1>1, <1>2, <2>2 DEF unlock_1, Broadcast
    <2> QED
        BY <2>1, <2>2
<1>3. CASE unlock_3(t)
    BY <1>1, <1>3 DEF unlock_3, Broadcast
<1>4. CASE lock_1_wait(t)
    BY <1>1, <1>4 DEF lock_1_wait, WaitOn, lockvars
<1>5. CASE lock_2_wait(t) \/ lock_3_wait(t)
    BY <1>1, <1>5 DEF lock_2_wait, lock_3_wait, WaitOn, lockvars
<1>6. CASE lock_2_enter(t)
    BY <1>1, <1>6 DEF lock_2_enter, Signal
<1>7. CASE unlock_2(t)
    BY <1>1, <1>7 DEF unlock_2, Signal
<1>8. CASE \E l \in Lists : Call(t, l)
    BY <1>1, <1>8 DEF Call, GoTo, lockvars
<1>9. CASE \/ lock_1(t) \/ NeedsNewSlot(t) \/ lock_2(t) \/ SlotFound(t)
           \/ lock_3_enter(t) \/ lock_3(t) \/ update_totsize_throws(t)
    BY <1>1, <1>9 DEF lock_1, NeedsNewSlot, lock_2, SlotFound, lock_3_enter, lock_3,
       update_totsize_throws, lockvars
<1>10. CASE SpuriousWakeup(t)
    BY <1>1, <1>10 DEF SpuriousWakeup, lockvars
<1> QED
    BY <1>2, <1>3, <1>4, <1>5, <1>6, <1>7, <1>8, <1>9, <1>10 DEF ThreadStep
LEMMA Level2Step ==
    ASSUME LockInv, WakeInv, NEW t \in Threads, ThreadStep(t) \/ SpuriousWakeup(t)
    PROVE  Level2Awake'
<1> USE DEF Level2Awake, Sleepers
<1>1. /\ asleep \in [Threads -> CVs \union {"no"}]
      /\ pc \in [Threads -> PCs]
      /\ Level2Awake
      /\ \A u \in Threads : asleep[u] = "level2_cv" => pc[u] = "wait_2"
    BY DEF LockInv, TypeOK, WakeInv, NoLostWakeup, SleepersInPlace
<1>2. CASE lock_2(t)
    BY <1>2 DEF lock_2
<1>3. CASE lock_2_wait(t)
    BY <1>3 DEF lock_2_wait, lockvars
<1>4. CASE unlock_2(t)
    <2>1. CASE Sleepers("level2_cv") = {}
        BY <1>4, <2>1 DEF unlock_2, Signal
    <2>2. CASE Sleepers("level2_cv") # {}
        <3>1. PICK u \in Sleepers("level2_cv") : asleep' = [asleep EXCEPT ![u] = "no"]
            BY <1>4, <2>2 DEF unlock_2, Signal
        <3>2. u # t /\ pc'[u] = "wait_2" /\ asleep'[u] = "no"
            BY <1>1, <1>4, <3>1 DEF unlock_2, GoTo
        <3> QED
            BY <3>1, <3>2
    <2> QED
        BY <2>1, <2>2
<1>5. CASE SpuriousWakeup(t)
    <2>1. CASE asleep[t] = "level2_cv"
        BY <1>1, <1>5, <2>1 DEF SpuriousWakeup
    <2>2. CASE asleep[t] # "level2_cv"
        BY <1>1, <1>5, <2>2 DEF SpuriousWakeup, lockvars
    <2> QED
        BY <2>1, <2>2
<1>6. ASSUME Sleepers("level2_cv")' = Sleepers("level2_cv"),
             UNCHANGED level2_in_use,
             \A u \in Threads : pc[u] = "wait_2" /\ asleep[u] = "no"
                                => pc'[u] = "wait_2" /\ asleep'[u] = "no"
      PROVE  Level2Awake'
    BY <1>1, <1>6
<1>7. CASE unlock_1(t) \/ lock_2_enter(t) \/ unlock_3(t)
    BY <1>1, <1>6, <1>7 DEF unlock_1, lock_2_enter, unlock_3, Signal, Broadcast, GoTo
<1>8. CASE lock_1_wait(t) \/ lock_3_wait(t)
    BY <1>1, <1>6, <1>8 DEF lock_1_wait, lock_3_wait, WaitOn, lockvars
<1>9. CASE \/ \E l \in Lists : Call(t, l)
           \/ lock_1(t) \/ NeedsNewSlot(t) \/ SlotFound(t) \/ lock_3_enter(t)
           \/ lock_3(t) \/ update_totsize_throws(t)
    BY <1>1, <1>6, <1>9 DEF Call, lock_1, NeedsNewSlot, SlotFound, lock_3_enter,
       lock_3, update_totsize_throws, GoTo, lockvars
<1> QED
    BY <1>2, <1>3, <1>4, <1>5, <1>7, <1>8, <1>9 DEF ThreadStep

LEMMA Level3Step ==
    ASSUME LockInv, WakeInv, NEW t \in Threads, ThreadStep(t) \/ SpuriousWakeup(t)
    PROVE  Level3Awake'
<1>1. /\ asleep \in [Threads -> CVs \union {"no"}]
      /\ Level3Awake
      /\ ~level3_in_use => Sleepers("level3_cv") = {}
    BY DEF LockInv, TypeOK, WakeInv, NoLostWakeup, SleepersInPlace, Announced,
       Sleepers, Level3Awake
<1>2. ASSUME Sleepers("level3_cv")' = {}
      PROVE  Level3Awake'
    BY <1>2 DEF Level3Awake
<1>3. ASSUME Sleepers("level3_cv")' \subseteq Sleepers("level3_cv"),
             UNCHANGED <<level1_holders, n_level2>>
      PROVE  Level3Awake'
    BY <1>1, <1>3 DEF Level3Awake
<1>4. CASE unlock_1(t)
    <2>1. CASE level3_in_use
        BY <1>2, <1>4, <2>1, SignalEmptiesLevel3 DEF unlock_1
    <2>2. CASE ~level3_in_use
        BY <1>1, <1>2, <1>4, <2>2 DEF unlock_1, Broadcast, Sleepers
    <2> QED
        BY <2>1, <2>2
<1>5. CASE lock_2_enter(t)
    <2>1. CASE level3_in_use
        BY <1>2, <1>5, <2>1, SignalEmptiesLevel3 DEF lock_2_enter
    <2>2. CASE ~level3_in_use
        BY <1>1, <1>2, <1>5, <2>2 DEF lock_2_enter, Sleepers
    <2> QED
        BY <2>1, <2>2
<1>6. CASE unlock_2(t)
    <2>1. t \in At(Holding2) /\ asleep[t] = "no"
        BY <1>6 DEF unlock_2, GoTo, At, Holding2
    <2>2. Sleepers("level3_cv") = {}
        BY <2>1, OneInLock3 DEF Sleepers
    <2>3. Sleepers("level3_cv")' = {}
        BY <1>1, <1>6, <2>2 DEF unlock_2, Signal, Sleepers, CVs
    <2> QED
        BY <1>2, <2>3
<1>7. CASE lock_1(t)
    BY <1>1, <1>2, <1>7 DEF lock_1, Sleepers
<1>8. CASE lock_3_wait(t)
    BY <1>1, <1>8 DEF lock_3_wait, WaitOn, Sleepers, Level3Awake, lockvars
<1>9. CASE unlock_3(t)
    BY <1>1, <1>3, <1>9 DEF unlock_3, Broadcast, Sleepers
<1>10. CASE lock_1_wait(t) \/ lock_2_wait(t) \/ SpuriousWakeup(t)
    BY <1>1, <1>3, <1>10 DEF lock_1_wait, lock_2_wait, SpuriousWakeup, WaitOn,
       Sleepers, lockvars
<1>11. CASE \/ \E l \in Lists : Call(t, l)
            \/ NeedsNewSlot(t) \/ lock_2(t) \/ SlotFound(t) \/ lock_3_enter(t)
            \/ lock_3(t) \/ update_totsize_throws(t)
    BY <1>3, <1>11 DEF Call, NeedsNewSlot, lock_2, SlotFound, lock_3_enter, lock_3,
       update_totsize_throws, Sleepers, lockvars
<1> QED
    BY <1>4, <1>5, <1>6, <1>7, <1>8, <1>9, <1>10, <1>11 DEF ThreadStep

LEMMA WakeStep == LockInv /\ WakeInv /\ [Next]_vars => WakeInv'
<1> SUFFICES ASSUME LockInv, WakeInv, [Next]_vars PROVE WakeInv'
    OBVIOUS
<1>1. CASE UNCHANGED vars
    <2>1. UNCHANGED <<level1_holders, n_level2, level2_in_use, level3_in_use,
                     asleep, pc, list>>
        BY <1>1 DEF vars, lockvars
    <2> QED
        BY <2>1 DEF WakeInv, SleepersInPlace, Announced, NoLostWakeup, Sleepers
<1>2. ASSUME NEW t \in Threads, ThreadStep(t) \/ SpuriousWakeup(t) PROVE WakeInv'
    BY <1>2, PlacesStep, AnnouncedStep, Level1Step, Level2Step, Level3Step
       DEF WakeInv, NoLostWakeup, Level1Awake, Level2Awake, Level3Awake
<1> QED
    BY <1>1, <1>2 DEF Next, Finished

LEMMA WakeInit == Init => WakeInv
<1> SUFFICES ASSUME Init PROVE WakeInv
    OBVIOUS
<1>1. \A t \in Threads : asleep[t] = "no" /\ pc[t] = "idle"
    BY DEF Init
<1> QED
    BY <1>1 DEF WakeInv, SleepersInPlace, Announced, NoLostWakeup, Sleepers

(* No wakeup is lost, for any number of threads and lists: a sleeper whose    *)
(* condition holds always has somebody awake or on the way who will run it.   *)
THEOREM WakeupsAreKept == Spec => []NoLostWakeup
<1>1. WakeInv => NoLostWakeup
    BY DEF WakeInv
<1> QED
    BY <1>1, WakeInit, WakeStep, LockInvariance, PTL DEF Spec

-------------------------------------------------------------------------------
(***************************************************************************)
(* The levels never wait in a circle.  Two more facts are needed: who may  *)
(* own mutex1 between two steps, and that a remap that keeps the others    *)
(* out (level3_in_use) has a thread behind it.                             *)
(***************************************************************************)
MutexOwned ==
    mutex1 # NoThread => mutex1 \in Threads /\ pc[mutex1] \in {"remap", "thrown"}

Pending ==
    level3_in_use => \E t \in Threads : pc[t] \in {"wait_3", "remap", "thrown"}

OwnersInv == MutexOwned /\ Pending

(* lock_3 leaves mutex1 to its caller, which gives it back in unlock_3 or not *)
(* at all; level3_in_use is raised on the way in and reset on the way out.    *)
LEMMA OwnersStep == LockInv /\ OwnersInv /\ [Next]_vars => OwnersInv'
<1> SUFFICES ASSUME LockInv, OwnersInv, [Next]_vars PROVE OwnersInv'
    OBVIOUS
<1> USE DEF OwnersInv, MutexOwned, Pending, GoTo
<1>1. pc \in [Threads -> PCs] /\ MutexOwned /\ Pending
    BY DEF LockInv, TypeOK
<1>2. CASE UNCHANGED vars
    BY <1>1, <1>2 DEF vars, lockvars
<1>3. ASSUME NEW t \in Threads, SpuriousWakeup(t) PROVE OwnersInv'
    BY <1>1, <1>3 DEF SpuriousWakeup, lockvars
<1>4. ASSUME NEW t \in Threads, ThreadStep(t) PROVE OwnersInv'
    <2>1. CASE lock_3_enter(t)
        BY <1>1, <2>1 DEF lock_3_enter
    <2>2. CASE lock_3(t)
        BY <1>1, <2>2 DEF lock_3
    <2>3. CASE unlock_3(t)
        BY <1>1, <2>3 DEF unlock_3
    <2>4. CASE update_totsize_throws(t)
        <3>1. pc[t] = "remap" /\ pc' = [pc EXCEPT ![t] = "thrown"]
            BY <2>4 DEF update_totsize_throws
        <3>2. UNCHANGED <<mutex1, level3_in_use>>
            BY <2>4 DEF update_totsize_throws, lockvars
        <3> QED
            BY <1>1, <3>1, <3>2
    <2>5. CASE lock_1_wait(t) \/ lock_2_wait(t) \/ lock_3_wait(t)
        BY <1>1, <2>5 DEF lock_1_wait, lock_2_wait, lock_3_wait, lockvars
    <2>6. ASSUME NEW from \in PCs \ {"wait_3", "remap", "thrown"}, NEW to \in PCs,
                 pc[t] = from, pc' = [pc EXCEPT ![t] = to],
                 UNCHANGED <<mutex1, level3_in_use>>
          PROVE  OwnersInv'
        BY <1>1, <2>6
    <2>7. CASE \E l \in Lists : Call(t, l)
        BY <2>6, <2>7 DEF Call, lockvars, PCs
    <2>8. CASE lock_1(t) \/ unlock_1(t) \/ NeedsNewSlot(t)
        BY <2>6, <2>8 DEF lock_1, unlock_1, NeedsNewSlot, lockvars, PCs
    <2>9. CASE lock_2_enter(t) \/ lock_2(t)
        BY <2>6, <2>9 DEF lock_2_enter, lock_2, PCs
    <2>10. CASE unlock_2(t) \/ SlotFound(t)
        BY <2>6, <2>10 DEF unlock_2, SlotFound, lockvars, PCs
    <2> QED
        BY <1>4, <2>1, <2>2, <2>3, <2>4, <2>5, <2>7, <2>8, <2>9, <2>10 DEF ThreadStep
<1> QED
    BY <1>2, <1>3, <1>4 DEF Next, Finished

(* A thread in lock_3 whose readers have all gone to wait in lock_2 can go on: *)
(* every level-1 holder is counted in n_level2.                                *)
LEMMA WaitersAreCounted ==
    ASSUME LockInv, At(Holding1) \subseteq At(Counted2)
    PROVE  Cardinality(level1_holders) <= n_level2
<1>1. Cardinality(At(Holding1)) <= Cardinality(At(Counted2))
    BY AtFinite, FS_Subset
<1> QED
    BY <1>1 DEF LockInv, HoldersMatch, Level2Counts

(* Nobody past lock_1: no list is taken. *)
LEMMA NobodyHolds ==
    ASSUME LockInv, At(Holding1) = {}
    PROVE  level1_holders = {}
<1>1. Cardinality(level1_holders) = 0
    BY FS_EmptySet DEF LockInv, HoldersMatch
<1> QED
    BY <1>1, HoldersFinite, FS_EmptySet DEF LockInv

(* The thread nearest to the innermost level is the one that can go on.       *)
LEMMA NoCircle ==
    ASSUME LockInv, WakeInv, OwnersInv
    PROVE  SomeThreadCanProceed
<1> DEFINE Free == {"use", "lock_2", "alloc", "move", "update"}
<1>1. SUFFICES ASSUME At({"thrown"}) = {}, NEW busy \in Threads, pc[busy] # "idle"
               PROVE  \E t \in Threads : CanProceed(t)
    BY DEF SomeThreadCanProceed, At
<1>2. /\ pc \in [Threads -> PCs]
      /\ asleep \in [Threads -> CVs \union {"no"}]
      /\ \A t \in Threads : pc[t] # "thrown"
    BY <1>1 DEF LockInv, TypeOK, At
<1>3. /\ SleepersInPlace
      /\ NoLostWakeup
      /\ MutexOwned
      /\ Pending
    BY DEF WakeInv, OwnersInv
<1>4. CASE mutex1 # NoThread
    <2>1. mutex1 \in Threads /\ pc[mutex1] = "remap"
        BY <1>2, <1>3, <1>4 DEF MutexOwned
    <2>2. asleep[mutex1] = "no"
        BY <1>2, <1>3, <2>1 DEF SleepersInPlace, CVs
    <2> QED
        BY <2>1, <2>2 DEF CanProceed
<1>5. CASE mutex1 = NoThread /\ \E t \in Threads : pc[t] \in Free
    <2>1. PICK t \in Threads : pc[t] \in Free
        BY <1>5
    <2>2. asleep[t] = "no"
        BY <1>2, <1>3, <2>1 DEF SleepersInPlace, CVs
    <2> QED
        BY <1>5, <2>1, <2>2 DEF CanProceed
<1>6. CASE /\ mutex1 = NoThread
           /\ \A t \in Threads : pc[t] \notin Free
           /\ \E t \in Threads : pc[t] = "wait_3"
    <2>1. PICK t \in Threads : pc[t] = "wait_3"
        BY <1>6
    <2>2. At(Holding1) \subseteq At(Counted2)
        BY <1>2, <1>6 DEF At, Holding1, Counted2, Holding2, PCs
    <2>3. Cardinality(level1_holders) <= n_level2
        BY <2>2, WaitersAreCounted
    <2>4. Cardinality(level1_holders) \in Nat /\ n_level2 \in Nat
        BY HoldersFinite DEF LockInv, TypeOK
    <2>5. t \notin Sleepers("level3_cv")
        BY <1>3, <2>3, <2>4 DEF NoLostWakeup
    <2>6. asleep[t] = "no"
        BY <1>2, <1>3, <2>1, <2>5 DEF SleepersInPlace, Sleepers, CVs
    <2> QED
        BY <1>6, <2>1, <2>3, <2>6 DEF CanProceed
<1>7. CASE /\ mutex1 = NoThread
           /\ \A t \in Threads : pc[t] \notin Free \union {"wait_3"}
    <2>1. \A t \in Threads : pc[t] \in {"idle", "lock_1", "wait_2"}
        <3>1. \A t \in Threads : pc[t] # "remap"
            BY <1>7, ThreadsAssumption DEF LockInv, RemapSealed, At, Remapping
        <3> QED
            BY <1>2, <1>7, <3>1 DEF PCs
    <2>2. ~level3_in_use
        BY <1>3, <2>1 DEF Pending
    <2>3. ~level2_in_use
        BY <2>1 DEF LockInv, Level2Counts, At, Holding2
    <2>4. CASE \E t \in Threads : pc[t] = "wait_2"
        <3>1. PICK t \in Threads : pc[t] = "wait_2"
            BY <2>4
        <3>2. \E u \in Threads : pc[u] = "wait_2" /\ asleep[u] = "no"
            <4>1. CASE asleep[t] = "no"
                BY <3>1, <4>1
            <4>2. CASE asleep[t] # "no"
                <5>1. t \in Sleepers("level2_cv")
                    BY <1>2, <1>3, <3>1, <4>2 DEF SleepersInPlace, Sleepers, CVs
                <5> QED
                    BY <1>3, <2>3, <5>1 DEF NoLostWakeup
            <4> QED
                BY <4>1, <4>2
        <3> QED
            BY <1>7, <2>3, <3>2 DEF CanProceed
    <2>5. CASE \A t \in Threads : pc[t] # "wait_2"
        <3>1. level1_holders = {}
            BY <2>1, <2>5, NobodyHolds DEF At, Holding1
        <3>2. pc[busy] = "lock_1"
            BY <1>1, <2>1, <2>5
        <3>3. busy \notin Sleepers("level1_cv")
            BY <1>3, <2>2, <3>1 DEF NoLostWakeup
        <3>4. asleep[busy] = "no"
            BY <1>2, <1>3, <3>2, <3>3 DEF SleepersInPlace, Sleepers, CVs
        <3> QED
            BY <1>7, <2>2, <3>1, <3>2, <3>4 DEF CanProceed
    <2> QED
        BY <2>4, <2>5
<1> QED
    BY <1>4, <1>5, <1>6, <1>7

(* No deadlock among the three levels, for any number of threads and lists:    *)
(* as long as update_totsize has not failed, one of the threads in a call can  *)
(* go on, whatever the others wait for.                                        *)
THEOREM SomeoneProceeds == Spec => []SomeThreadCanProceed
<1>1. Init => OwnersInv
    BY DEF Init, OwnersInv, MutexOwned, Pending
<1>2. LockInv /\ WakeInv /\ OwnersInv => SomeThreadCanProceed
    BY NoCircle
<1> QED
    BY <1>1, <1>2, WakeInit, WakeStep, OwnersStep, LockInvariance, PTL DEF Spec

-------------------------------------------------------------------------------
(***************************************************************************)
(* The lock levels implement ListAccess for every number of threads and    *)
(* lists: each step of a thread is one step on the claims, the allocator   *)
(* and the mapping, or leaves all of them alone.                           *)
(***************************************************************************)
(* The allocator of the mapping is the one thread that holds lock 2. *)
LEMMA AllocatorIs ==
    ASSUME AllocatorExclusion
    PROVE  /\ \A t \in At(Holding2) : Allocator = t
           /\ At(Holding2) = {} => Allocator = NoThread
           /\ \A t \in Threads : Allocator = t => t \in At(Holding2)
<1>1. ASSUME NEW t \in At(Holding2) PROVE Allocator = t
    <2>1. At(Holding2) = {t}
        BY DEF AllocatorExclusion
    <2> QED
        BY <2>1 DEF Allocator
<1>2. At(Holding2) = {} => Allocator = NoThread
    BY DEF Allocator
<1>3. ASSUME NEW t \in Threads, Allocator = t PROVE t \in At(Holding2)
    <2>1. At(Holding2) # {}
        BY <1>2, <1>3, ThreadsAssumption
    <2> QED
        BY <1>1, <1>3, <2>1
<1> QED
    BY <1>1, <1>2, <1>3

(* The same after a step. *)
LEMMA AllocatorWillBe ==
    ASSUME AllocatorExclusion'
    PROVE  /\ \A t \in At(Holding2)' : Allocator' = t
           /\ At(Holding2)' = {} => Allocator' = NoThread
<1>1. ASSUME NEW t \in At(Holding2)' PROVE Allocator' = t
    <2>1. At(Holding2)' = {t}
        BY DEF AllocatorExclusion
    <2> QED
        BY <2>1 DEF Allocator
<1>2. At(Holding2)' = {} => Allocator' = NoThread
    BY DEF Allocator
<1> QED
    BY <1>1, <1>2

(* The allocator stays if the holders of lock 2 stay. *)
LEMMA AllocatorSame ==
    ASSUME LockInv, LockInv', At(Holding2)' = At(Holding2)
    PROVE  UNCHANGED Allocator
<1>1. CASE At(Holding2) = {}
    BY <1>1, AllocatorIs, AllocatorWillBe DEF LockInv
<1>2. CASE \E u : u \in At(Holding2)
    BY <1>2, AllocatorIs, AllocatorWillBe DEF LockInv
<1> QED
    BY <1>1, <1>2

(* While mutex1 is free nobody remaps. *)
LEMMA FreeMutexMeansNoRemap ==
    ASSUME LockInv, mutex1 = NoThread
    PROVE  At(Remapping) = {} /\ ~InRemap
BY ThreadsAssumption DEF LockInv, RemapSealed, At, InRemap

(* How a step of one thread from pc value from to pc value to shows. *)
LEMMA StepShows ==
    ASSUME LockInv, LockInv', NEW t \in Threads, NEW from, NEW to,
           GoTo(t, from, to), UNCHANGED list
    PROVE  /\ (from \in Holding1 <=> to \in Holding1) => UNCHANGED Claims
           /\ to \in Holding1 => Claims' = [Claims EXCEPT ![t] = list[t]]
           /\ to \notin Holding1 => Claims' = [Claims EXCEPT ![t] = NoList]
           /\ (from \in Touching <=> to \in Touching) => UNCHANGED Touches
           /\ to \in Touching => Touches' = [Touches EXCEPT ![t] = TRUE]
           /\ to \notin Touching => Touches' = [Touches EXCEPT ![t] = FALSE]
           /\ (from \in Holding2 <=> to \in Holding2) => UNCHANGED Allocator
           /\ (from \in Remapping <=> to \in Remapping) => UNCHANGED InRemap
<1>1. /\ pc[t] = from /\ pc'[t] = to
      /\ \A u \in Threads : u # t => pc'[u] = pc[u]
    BY DEF GoTo, LockInv, TypeOK
<1>2. ASSUME from \in Holding2 <=> to \in Holding2 PROVE UNCHANGED Allocator
    <2>1. At(Holding2)' = At(Holding2)
        BY <1>2, AtSame DEF LockInv
    <2> QED
        BY <2>1, AllocatorSame
<1>3. ASSUME from \in Remapping <=> to \in Remapping PROVE UNCHANGED InRemap
    <2>1. At(Remapping)' = At(Remapping)
        BY <1>3, AtSame DEF LockInv
    <2> QED
        BY <2>1, Zenon DEF InRemap
<1>4. /\ (from \in Holding1 <=> to \in Holding1) => UNCHANGED Claims
      /\ to \in Holding1 => Claims' = [Claims EXCEPT ![t] = list[t]]
      /\ to \notin Holding1 => Claims' = [Claims EXCEPT ![t] = NoList]
    BY <1>1 DEF Claims
<1>5. /\ (from \in Touching <=> to \in Touching) => UNCHANGED Touches
      /\ to \in Touching => Touches' = [Touches EXCEPT ![t] = TRUE]
      /\ to \notin Touching => Touches' = [Touches EXCEPT ![t] = FALSE]
    <2>1. ASSUME from \in Touching <=> to \in Touching PROVE UNCHANGED Touches
        BY <1>1, <2>1 DEF Touches
    <2>2. ASSUME to \in Touching PROVE Touches' = [Touches EXCEPT ![t] = TRUE]
        BY <1>1, <2>2 DEF Touches
    <2>3. ASSUME to \notin Touching PROVE Touches' = [Touches EXCEPT ![t] = FALSE]
        <3>1. (pc'[t] \in Touching) = FALSE
            BY <1>1, <2>3
        <3>2. Touches = [u \in Threads |-> pc[u] \in Touching]
              /\ Touches' = [u \in Threads |-> pc'[u] \in Touching]
            BY DEF Touches
        <3>3. \A u \in Threads : u # t => Touches'[u] = Touches[u]
            BY <1>1, <3>2, Zenon
        <3>4. Touches'[t] = FALSE
            BY <3>1, <3>2, Zenon
        <3> QED
            BY <3>2, <3>3, <3>4, Zenon
    <2> QED
        BY <2>1, <2>2, <2>3
<1> QED
    BY <1>2, <1>3, <1>4, <1>5

-------------------------------------------------------------------------------
(* A step that changes no claim, no touch, no allocator and no mapping. *)
Hidden == UNCHANGED <<Claims, Touches, Allocator, InRemap>>

(* A thread that only waits, or that sleeps or wakes, shows nothing. *)
LEMMA SamePlaceHidden ==
    ASSUME LockInv, LockInv', UNCHANGED <<pc, list>>
    PROVE  Hidden
<1>1. UNCHANGED At(Holding2) /\ UNCHANGED At(Remapping)
    BY DEF At
<1>2. UNCHANGED Claims /\ UNCHANGED Touches
    BY DEF Claims, Touches
<1>3. UNCHANGED Allocator
    BY <1>1, AllocatorSame
<1>4. UNCHANGED InRemap
    BY <1>1, Zenon DEF InRemap
<1> QED
    BY <1>2, <1>3, <1>4 DEF Hidden

(* Before lock_1 returns the argument of a call is nobody else's business. *)
LEMMA CallHidden ==
    ASSUME LockInv, LockInv', NEW t \in Threads, NEW l \in Lists, Call(t, l)
    PROVE  Hidden
<1>1. /\ GoTo(t, "idle", "lock_1") /\ list' = [list EXCEPT ![t] = l]
      /\ pc[t] = "idle" /\ pc'[t] = "lock_1"
      /\ \A u \in Threads : u # t => pc'[u] = pc[u] /\ list'[u] = list[u]
    BY DEF Call, GoTo, LockInv, TypeOK
<1>2. Claims' = Claims
    BY <1>1 DEF Claims, Holding1
<1>3. Touches' = Touches
    BY <1>1 DEF Touches, Touching
<1>4. At(Holding2)' = At(Holding2) /\ At(Remapping)' = At(Remapping)
    BY <1>1, AtSame DEF LockInv, Holding2, Remapping
<1>5. Allocator' = Allocator
    BY <1>4, AllocatorSame
<1>6. InRemap' = InRemap
    BY <1>4, Zenon DEF InRemap
<1> QED
    BY <1>2, <1>3, <1>5, <1>6 DEF Hidden

(* Steps between two pc values that stand for the same thing. *)
LEMMA PassageHidden ==
    ASSUME LockInv, LockInv', NEW t \in Threads,
           \/ lock_2_enter(t) \/ lock_3_enter(t) \/ update_totsize_throws(t)
    PROVE  Hidden
<1> USE DEF Holding1, Holding2, Touching, Remapping, PCs
<1>1. CASE lock_2_enter(t)
    <2>1. GoTo(t, "lock_2", "wait_2") /\ UNCHANGED list
        BY <1>1 DEF lock_2_enter
    <2> QED
        BY <2>1, StepShows DEF Hidden
<1>2. CASE lock_3_enter(t)
    <2>1. GoTo(t, "alloc", "wait_3") /\ UNCHANGED list
        BY <1>2 DEF lock_3_enter
    <2> QED
        BY <2>1, StepShows DEF Hidden
<1>3. CASE update_totsize_throws(t)
    <2>1. GoTo(t, "remap", "thrown") /\ UNCHANGED list
        BY <1>3 DEF update_totsize_throws
    <2> QED
        BY <2>1, StepShows DEF Hidden
<1> QED
    BY <1>1, <1>2, <1>3

-------------------------------------------------------------------------------
(* lock_1 claims a list that nobody claims, while nothing is remapped. *)
LEMMA LockClaims ==
    ASSUME LockInv, LockInv', NEW t \in Threads, lock_1(t)
    PROVE  Access!Claim(t, list[t])
<1>1. GoTo(t, "lock_1", "use") /\ UNCHANGED list /\ mutex1 = NoThread
      /\ list[t] \notin level1_holders /\ pc[t] = "lock_1" /\ list[t] \in Lists
    BY DEF lock_1, GoTo, LockInv, TypeOK
<1>2. Claims[t] = NoList
    BY <1>1 DEF Claims, Holding1
<1>3. \A u \in Threads : Claims[u] # list[t]
    BY <1>1, NoListAssumption DEF Claims, LockInv, HoldersMatch, At
<1>4. ~InRemap
    BY <1>1, FreeMutexMeansNoRemap
<1>5. /\ Claims' = [Claims EXCEPT ![t] = list[t]]
      /\ Touches' = [Touches EXCEPT ![t] = TRUE]
      /\ UNCHANGED <<Allocator, InRemap>>
    BY <1>1, StepShows DEF Holding1, Holding2, Touching, Remapping, PCs
<1> QED
    BY <1>2, <1>3, <1>4, <1>5 DEF Access!Claim

(* unlock_1 gives the claim back. *)
LEMMA UnlockReleases ==
    ASSUME LockInv, LockInv', NEW t \in Threads, unlock_1(t)
    PROVE  Access!Release(t)
<1>1. PICK from \in {"use", "update"} : GoTo(t, from, "idle")
    BY DEF unlock_1
<1>2. UNCHANGED list /\ pc[t] = from /\ list[t] \in Lists
    BY <1>1 DEF unlock_1, GoTo, LockInv, TypeOK
<1>3. Claims[t] # NoList
    BY <1>2, NoListAssumption DEF Claims, Holding1, PCs
<1>4. Allocator # t
    <2>1. t \notin At(Holding2)
        BY <1>2 DEF At, Holding2
    <2> QED
        BY <2>1, AllocatorIs DEF LockInv
<1>5. /\ Claims' = [Claims EXCEPT ![t] = NoList]
      /\ Touches' = [Touches EXCEPT ![t] = FALSE]
      /\ UNCHANGED <<Allocator, InRemap>>
    BY <1>1, <1>2, StepShows DEF Holding1, Holding2, Touching, Remapping, PCs
<1> QED
    BY <1>3, <1>4, <1>5 DEF Access!Release

(* A thread that needs a new slot stops touching its list. *)
LEMMA NeedStopsTouching ==
    ASSUME LockInv, LockInv', NEW t \in Threads, NeedsNewSlot(t)
    PROVE  Access!StopTouching(t)
<1>1. GoTo(t, "use", "lock_2") /\ UNCHANGED list /\ pc[t] = "use"
    BY DEF NeedsNewSlot, GoTo
<1>2. Touches[t]
    BY <1>1 DEF Touches, Touching
<1>3. Allocator # t
    <2>1. t \notin At(Holding2)
        BY <1>1 DEF At, Holding2
    <2> QED
        BY <2>1, AllocatorIs DEF LockInv
<1>4. /\ Touches' = [Touches EXCEPT ![t] = FALSE]
      /\ UNCHANGED <<Claims, Allocator, InRemap>>
    BY <1>1, StepShows DEF Holding1, Holding2, Touching, Remapping, PCs
<1> QED
    BY <1>2, <1>3, <1>4 DEF Access!StopTouching

(* lock_2 returns to one thread at a time. *)
LEMMA LockMakesAllocator ==
    ASSUME LockInv, LockInv', NEW t \in Threads, lock_2(t)
    PROVE  Access!BecomeAllocator(t)
<1>1. GoTo(t, "wait_2", "alloc") /\ UNCHANGED list /\ pc[t] = "wait_2"
      /\ pc'[t] = "alloc" /\ list[t] \in Lists /\ ~level2_in_use
    BY DEF lock_2, GoTo, LockInv, TypeOK
<1>2. Claims[t] # NoList
    BY <1>1, NoListAssumption DEF Claims, Holding1, PCs
<1>3. ~Touches[t]
    BY <1>1 DEF Touches, Touching
<1>4. Allocator = NoThread
    BY <1>1, AllocatorIs DEF LockInv, Level2Counts
<1>5. Allocator' = t
    <2>1. t \in At(Holding2)'
        BY <1>1 DEF At, Holding2
    <2> QED
        BY <2>1, AllocatorWillBe DEF LockInv
<1>6. UNCHANGED <<Claims, Touches, InRemap>>
    BY <1>1, StepShows DEF Holding1, Touching, Remapping, PCs
<1> QED
    BY <1>2, <1>3, <1>4, <1>5, <1>6 DEF Access!BecomeAllocator

(* In the state after lock_3 nobody touches the mapping: RemapExclusion, by  *)
(* the count of the level-1 holders.                                         *)
LEMMA Lock3BeginsRemap ==
    ASSUME LockInv, LockInv', RemapExclusion', NEW t \in Threads, lock_3(t)
    PROVE  Access!BeginRemap(t)
<1>1. GoTo(t, "wait_3", "remap") /\ UNCHANGED list /\ pc[t] = "wait_3"
      /\ pc'[t] = "remap"
    BY DEF lock_3, GoTo, LockInv, TypeOK
<1>2. Allocator = t
    <2>1. t \in At(Holding2)
        BY <1>1 DEF At, Holding2
    <2> QED
        BY <2>1, AllocatorIs DEF LockInv
<1>3. At(Remapping)' # {}
    <2>1. t \in At(Remapping)'
        BY <1>1 DEF At, Remapping
    <2> QED
        BY <2>1
<1>4. \A u \in Threads : ~Touches[u]
    <2>1. At(Touching)' = {}
        BY <1>3 DEF RemapExclusion
    <2>2. At(Touching)' = At(Touching)
        BY <1>1, AtSame DEF LockInv, Touching
    <2> QED
        BY <2>1, <2>2 DEF At, Touches
<1>5. InRemap' = TRUE
    BY <1>3 DEF InRemap
<1>6. UNCHANGED <<Claims, Touches, Allocator>>
    BY <1>1, StepShows DEF Holding1, Holding2, Touching, PCs
<1> QED
    BY <1>2, <1>4, <1>5, <1>6 DEF Access!BeginRemap

(* unlock_3 ends the remap, and the thread goes on to move its list. *)
LEMMA Unlock3EndsRemap ==
    ASSUME LockInv, LockInv', NEW t \in Threads, unlock_3(t)
    PROVE  Access!EndRemap(t)
<1>1. GoTo(t, "remap", "move") /\ UNCHANGED list /\ pc[t] = "remap"
      /\ mutex1' = NoThread
    BY DEF unlock_3, GoTo, LockInv, TypeOK
<1>2. Allocator = t
    <2>1. t \in At(Holding2)
        BY <1>1 DEF At, Holding2
    <2> QED
        BY <2>1, AllocatorIs DEF LockInv
<1>3. InRemap
    BY <1>1 DEF InRemap, At, Remapping
<1>4. InRemap' = FALSE
    <2>1. At(Remapping)' = {}
        BY <1>1, ThreadsAssumption DEF LockInv, RemapSealed, At
    <2> QED
        BY <2>1 DEF InRemap
<1>5. Touches' = [Touches EXCEPT ![t] = TRUE] /\ UNCHANGED <<Claims, Allocator>>
    BY <1>1, StepShows DEF Holding1, Holding2, Touching, PCs
<1> QED
    BY <1>2, <1>3, <1>4, <1>5 DEF Access!EndRemap

(* A slot without remapping: the allocator begins to move its list. *)
LEMMA SlotBeginsMove ==
    ASSUME LockInv, LockInv', NEW t \in Threads, SlotFound(t)
    PROVE  Access!BeginMove(t)
<1>1. GoTo(t, "alloc", "move") /\ UNCHANGED list /\ pc[t] = "alloc"
    BY DEF SlotFound, GoTo, LockInv, TypeOK
<1>2. t \in At(Holding2)
    BY <1>1 DEF At, Holding2
<1>3. Allocator = t
    BY <1>2, AllocatorIs DEF LockInv
<1>4. ~InRemap
    <2>1. SUFFICES ASSUME NEW u \in At(Remapping) PROVE FALSE
        BY DEF InRemap
    <2>2. u \in At(Holding2)
        BY DEF At, Remapping, Holding2
    <2>3. u = t
        BY <1>2, <2>2 DEF LockInv, AllocatorExclusion
    <2> QED
        BY <1>1, <2>3 DEF At, Remapping
<1>5. Touches' = [Touches EXCEPT ![t] = TRUE]
      /\ UNCHANGED <<Claims, Allocator, InRemap>>
    BY <1>1, StepShows DEF Holding1, Holding2, Touching, Remapping, PCs
<1> QED
    BY <1>3, <1>4, <1>5 DEF Access!BeginMove

(* unlock_2 leaves the slot table to the next thread. *)
LEMMA UnlockLeavesAllocator ==
    ASSUME LockInv, LockInv', NEW t \in Threads, unlock_2(t)
    PROVE  Access!LeaveAllocator(t)
<1>1. GoTo(t, "move", "update") /\ UNCHANGED list /\ pc[t] = "move"
    BY DEF unlock_2, GoTo, LockInv, TypeOK
<1>2. t \in At(Holding2)
    BY <1>1 DEF At, Holding2
<1>3. Allocator = t /\ Touches[t]
    BY <1>1, <1>2, AllocatorIs DEF LockInv, Touches, Touching
<1>4. Allocator' = NoThread
    <2>1. At(Holding2)' = At(Holding2) \ {t}
        BY <1>1, AtLeave DEF LockInv, Holding2
    <2>2. At(Holding2) = {t}
        BY <1>2 DEF LockInv, AllocatorExclusion
    <2>3. At(Holding2)' = {}
        BY <2>1, <2>2
    <2> QED
        BY <2>3, AllocatorWillBe DEF LockInv
<1>5. UNCHANGED <<Claims, Touches, InRemap>>
    BY <1>1, StepShows DEF Holding1, Touching, Remapping, PCs
<1> QED
    BY <1>3, <1>4, <1>5 DEF Access!LeaveAllocator

-------------------------------------------------------------------------------
(* Every step of a thread is a step of ListAccess or shows nothing. *)
LEMMA ThreadStepShows ==
    ASSUME LockInv, LockInv', RemapExclusion', NEW t \in Threads,
           ThreadStep(t) \/ SpuriousWakeup(t)
    PROVE  Access!ANext \/ Hidden
<1>1. CASE lock_1_wait(t) \/ lock_2_wait(t) \/ lock_3_wait(t) \/ SpuriousWakeup(t)
    BY <1>1, SamePlaceHidden DEF lock_1_wait, lock_2_wait, lock_3_wait, SpuriousWakeup
<1>2. CASE \E l \in Lists : Call(t, l)
    BY <1>2, CallHidden
<1>3. CASE lock_2_enter(t) \/ lock_3_enter(t) \/ update_totsize_throws(t)
    BY <1>3, PassageHidden
<1>4. CASE lock_1(t)
    <2>1. list[t] \in Lists
        BY DEF LockInv, TypeOK
    <2> QED
        BY <1>4, <2>1, LockClaims DEF Access!ANext
<1>5. CASE unlock_1(t)
    BY <1>5, UnlockReleases DEF Access!ANext
<1>6. CASE NeedsNewSlot(t)
    BY <1>6, NeedStopsTouching DEF Access!ANext
<1>7. CASE lock_2(t)
    BY <1>7, LockMakesAllocator DEF Access!ANext
<1>8. CASE lock_3(t)
    BY <1>8, Lock3BeginsRemap DEF Access!ANext
<1>9. CASE unlock_3(t)
    BY <1>9, Unlock3EndsRemap DEF Access!ANext
<1>10. CASE SlotFound(t)
    BY <1>10, SlotBeginsMove DEF Access!ANext
<1>11. CASE unlock_2(t)
    BY <1>11, UnlockLeavesAllocator DEF Access!ANext
<1> QED
    BY <1>1, <1>2, <1>3, <1>4, <1>5, <1>6, <1>7, <1>8, <1>9, <1>10, <1>11
    DEF ThreadStep

(* Before the first call nothing is claimed.                                  *)
LEMMA BeginsUnclaimed == Init => Access!AInit
<1> SUFFICES ASSUME Init PROVE Access!AInit
    OBVIOUS
<1>1. \A t \in Threads : pc[t] = "idle"
    BY DEF Init
<1>2. At(Holding2) = {} /\ At(Remapping) = {}
    BY <1>1 DEF At, Holding2, Remapping
<1>3. Allocator = NoThread /\ InRemap = FALSE
    BY <1>2 DEF Allocator, InRemap
<1>4. Claims = [t \in Threads |-> NoList]
    BY <1>1 DEF Claims, Holding1
<1>5. Touches = [t \in Threads |-> FALSE]
    <2>1. \A t \in Threads : (pc[t] \in Touching) = FALSE
        BY <1>1 DEF Touching
    <2> QED
        BY <2>1, Zenon DEF Touches
<1> QED
    BY <1>3, <1>4, <1>5 DEF Access!AInit

(* Every step of the locks is a step of ListAccess, or shows nothing.         *)
LEMMA LockStepShows ==
    LockInv /\ LockInv' /\ RemapExclusion' /\ [Next]_vars => [Access!ANext]_(Access!avars)
<1> SUFFICES ASSUME LockInv, LockInv', RemapExclusion', [Next]_vars
             PROVE  Access!ANext \/ Hidden
    BY DEF Hidden, Access!avars
<1>1. CASE UNCHANGED vars
    BY <1>1, SamePlaceHidden DEF vars
<1>2. CASE Finished
    BY <1>2, SamePlaceHidden DEF Finished, vars
<1>3. ASSUME NEW t \in Threads, ThreadStep(t) \/ SpuriousWakeup(t)
      PROVE  Access!ANext \/ Hidden
    BY <1>3, ThreadStepShows
<1> QED
    BY <1>1, <1>2, <1>3 DEF Next

(* The mutex, the three counters and the condition variables of LockLevels    *)
(* implement exclusive claims on lists, one allocator, and a remap that       *)
(* nobody is touching: for every number of threads and lists, with or without *)
(* failing remaps.                                                            *)
THEOREM LocksImplementListAccess == Spec => ImplementsListAccess
BY BeginsUnclaimed, LockStepShows, LockInvariance, RemapIsExclusive, PTL
   DEF Spec, ImplementsListAccess, Access!ASpec

-------------------------------------------------------------------------------
(* The prefetch threads on top of the lock levels, for every pool, every    *)
(* set of lists and every request: what was shown of the locks holds with   *)
(* the tasks handed out by get_next_list, and the list of tasks is filled   *)
(* while nobody reads it.                                                   *)

(* The tasks are lists, and the threads that run belong to the pool. *)
PTypeOK ==
    /\ list_ids \in Seq(Lists)
    /\ cur_list \in Nat
    /\ list_nos \in Seq(Lists)
    /\ running \in SUBSET Pool
    /\ tocreate \in Nat

-------------------------------------------------------------------------------
(* Types of the tasks. *)
LEMMA TasksTyped == ASSUME PTypeOK, [PNext]_allvars PROVE PTypeOK'
<1> USE DEF PTypeOK
<1>1. CASE UNCHANGED pvars
    BY <1>1 DEF pvars
<1>2. ASSUME NEW nos \in Requests, prefetch_lists(nos) PROVE PTypeOK'
    BY <1>2, RequestsAssumption DEF prefetch_lists
<1>3. CASE join
    <2>1. Pool \in SUBSET Threads
        BY PoolAssumption
    <2>2. IsFiniteSet(Pool) /\ Cardinality(Pool) \in Nat
        BY <2>1, ThreadsAssumption, FS_Subset, FS_CardinalityType
    <2>3. Len(list_nos) \in Nat
        OBVIOUS
    <2> QED
        BY <1>3, <2>2, <2>3 DEF join
<1>4. CASE prepare_task
    <2>1. Head(list_nos) \in Lists /\ Tail(list_nos) \in Seq(Lists)
        BY <1>4 DEF prepare_task
    <2>2. Append(list_ids, Head(list_nos)) \in Seq(Lists)
        BY <2>1
    <2> QED
        BY <1>4, <2>1, <2>2 DEF prepare_task
<1>5. CASE create_thread
    BY <1>5 DEF create_thread, tasks
<1>6. CASE prefetch_returns \/ destroy \/ destroyed
    BY <1>6 DEF prefetch_returns, destroy, destroyed, tasks
<1>7. ASSUME NEW p \in Pool, get_next_list(p) PROVE PTypeOK'
    BY <1>7 DEF get_next_list
<1> QED
    BY <1>1, <1>2, <1>3, <1>4, <1>5, <1>6, <1>7
    DEF PNext, PrefetchStep, one_list, AdderStep, allvars

(* The join comes before the filling, and threads are created after it. *)
LEMMA TasksKept ==
    ASSUME PTypeOK, TasksArePrivate, [PNext]_allvars PROVE TasksArePrivate'
<1> USE DEF TasksArePrivate
<1>1. CASE UNCHANGED pvars
    BY <1>1 DEF pvars
<1>2. ASSUME NEW nos \in Requests, prefetch_lists(nos) PROVE TasksArePrivate'
    BY <1>2 DEF prefetch_lists
<1>3. CASE join
    BY <1>3 DEF join, Joined
<1>4. CASE prepare_task
    BY <1>4 DEF prepare_task
<1>5. CASE create_thread
    BY <1>5 DEF create_thread
<1>6. CASE prefetch_returns \/ destroy \/ destroyed
    BY <1>6 DEF prefetch_returns, destroy, destroyed
<1>7. ASSUME NEW p \in Pool, get_next_list(p) PROVE TasksArePrivate'
    BY <1>7 DEF get_next_list
<1> QED
    BY <1>1, <1>2, <1>3, <1>4, <1>5, <1>6, <1>7
    DEF PNext, PrefetchStep, one_list, AdderStep, allvars

(* prefetch_lists writes list_ids and cur_list without their mutex only     *)
(* when the threads of the call before were joined, whatever it is asked    *)
(* for and however many threads it starts.                                  *)
THEOREM TasksStayPrivate == PSpec => []TasksArePrivate
<1>1. PInit => PTypeOK /\ TasksArePrivate
    BY DEF PInit, PTypeOK, TasksArePrivate
<1>2. PTypeOK /\ TasksArePrivate /\ [PNext]_allvars
      => PTypeOK' /\ TasksArePrivate'
    BY TasksTyped, TasksKept
<1> QED
    BY <1>1, <1>2, PTL DEF PSpec

-------------------------------------------------------------------------------
(* A thread that takes a task is at lock_1, as after a call of its own. *)
TakesTask(p) ==
    /\ GoTo(p, "idle", "lock_1")
    /\ \E l \in Lists : list' = [list EXCEPT ![p] = l]
    /\ UNCHANGED <<lockvars, asleep, ops>>

(* What a step of the composition is for the locks. *)
LEMMA LockView ==
    ASSUME PTypeOK, [PNext]_allvars
    PROVE  [Next]_vars \/ \E p \in Threads : TakesTask(p)
<1>1. CASE UNCHANGED vars
    BY <1>1
<1>2. CASE (\E nos \in Requests : prefetch_lists(nos)) \/ destroy \/ PrefetchStep
    BY <1>2 DEF prefetch_lists, destroy, PrefetchStep, join, prepare_task,
       create_thread, prefetch_returns, destroyed
<1>3. ASSUME NEW p \in Pool, get_next_list(p)
      PROVE  [Next]_vars \/ \E q \in Threads : TakesTask(q)
    <2>1. CASE cur_list < Len(list_ids)
        <3>1. cur_list + 1 \in 1 .. Len(list_ids)
            BY <2>1 DEF PTypeOK
        <3>2. list_ids[cur_list + 1] \in Lists
            BY <3>1 DEF PTypeOK
        <3>3. TakesTask(p)
            BY <1>3, <2>1, <3>2 DEF get_next_list, TakesTask
        <3> QED
            BY <3>3, PoolAssumption
    <2>2. CASE ~(cur_list < Len(list_ids))
        BY <1>3, <2>2 DEF get_next_list, vars
    <2> QED
        BY <2>1, <2>2
<1>4. ASSUME NEW p \in Pool, lock_1(p) \/ lock_1_wait(p) \/ unlock_1(p) PROVE Next
    <2>1. p \in Threads
        BY PoolAssumption
    <2> QED
        BY <1>4, <2>1 DEF Next, ThreadStep
<1>5. ASSUME NEW t \in Adders, AdderStep(t) PROVE Next
    BY <1>5 DEF AdderStep, Adders, Next
<1>6. ASSUME NEW t \in Threads, SpuriousWakeup(t) PROVE Next
    BY <1>6 DEF Next
<1> QED
    BY <1>1, <1>2, <1>3, <1>4, <1>5, <1>6 DEF PNext, one_list, allvars

LEMMA TaskKeepsLocks ==
    ASSUME LockInv, NEW p \in Threads, TakesTask(p) PROVE LockInv'
<1>1. TypeOK
    BY DEF LockInv
<1>2. PICK l \in Lists : list' = [list EXCEPT ![p] = l]
    BY DEF TakesTask
<1>3. TypeOK'
    BY <1>1, <1>2 DEF TakesTask, GoTo, TypeOK, PCs, lockvars
<1>4. SameSets
    BY <1>1, SameStanding DEF TakesTask
<1>5. \A u \in At(Holding1) : list'[u] = list[u]
    BY <1>1, <1>2 DEF TakesTask, GoTo, At, Holding1, TypeOK
<1> QED
    BY <1>3, <1>4, <1>5, QuietStep DEF TakesTask, lockvars

LEMMA TaskHidden ==
    ASSUME LockInv, LockInv', NEW p \in Threads, TakesTask(p) PROVE Hidden
<1>1. PICK l \in Lists : list' = [list EXCEPT ![p] = l]
    BY DEF TakesTask
<1>2. TypeOK /\ TypeOK'
    BY DEF LockInv
<1>3. SameSets
    BY <1>2, SameStanding DEF TakesTask
<1>4. \A t \in Threads : (pc'[t] \in Holding1) = (pc[t] \in Holding1)
    BY <1>2 DEF TakesTask, GoTo, Holding1, PCs, TypeOK
<1>5. \A t \in Threads : pc[t] \in Holding1 => list'[t] = list[t]
    BY <1>1, <1>2 DEF TakesTask, GoTo, Holding1, TypeOK
<1>6. UNCHANGED Claims
    BY <1>4, <1>5 DEF Claims
<1>7. \A t \in Threads : (pc'[t] \in Touching) = (pc[t] \in Touching)
    BY <1>2 DEF TakesTask, GoTo, Touching, TypeOK
<1>8. UNCHANGED Touches
    BY <1>7 DEF Touches
<1>9. UNCHANGED Allocator
    BY <1>3, AllocatorSame DEF SameSets
<1>10. UNCHANGED InRemap
    BY <1>3, Zenon DEF InRemap, SameSets
<1> QED
    BY <1>6, <1>8, <1>9, <1>10 DEF Hidden

-------------------------------------------------------------------------------
(* Every property that follows from the invariant of the locks holds with   *)
(* the prefetch threads.                                                    *)
THEOREM PrefetchKeepsLocks == PSpec => [](PTypeOK /\ LockInv)
<1>1. PInit => PTypeOK /\ LockInv
    BY LockInit DEF PInit, PTypeOK
<1>2. PTypeOK /\ LockInv /\ [PNext]_allvars => PTypeOK' /\ LockInv'
    <2> SUFFICES ASSUME PTypeOK, LockInv, [PNext]_allvars PROVE LockInv'
        BY TasksTyped
    <2> QED
        BY LockView, LockStep, TaskKeepsLocks
<1> QED
    BY <1>1, <1>2, PTL DEF PSpec

(* Add, resize and the prefetch threads together implement exclusive claims *)
(* on lists and a remap that nobody is touching, for any pool and requests. *)
THEOREM PrefetchImplementsListAccess == PSpec => ImplementsListAccess
<1>1. PTypeOK /\ LockInv /\ LockInv' /\ RemapExclusion' /\ [PNext]_allvars
      => [Access!ANext]_(Access!avars)
    <2> SUFFICES ASSUME PTypeOK, LockInv, LockInv', RemapExclusion', [PNext]_allvars
                 PROVE  [Access!ANext]_(Access!avars)
        OBVIOUS
    <2>1. CASE [Next]_vars
        BY <2>1, LockStepShows
    <2>2. ASSUME NEW p \in Threads, TakesTask(p)
          PROVE  [Access!ANext]_(Access!avars)
        BY <2>2, TaskHidden DEF Hidden, Access!avars
    <2> QED
        BY <2>1, <2>2, LockView
<1>2. PInit => Access!AInit
    BY BeginsUnclaimed DEF PInit
<1> QED
    BY <1>1, <1>2, SealExcludes, PrefetchKeepsLocks, PTL
    DEF PSpec, ImplementsListAccess, Access!ASpec
===============================================================================

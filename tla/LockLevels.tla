------------------------------ MODULE LockLevels ------------------------------
(***************************************************************************)
(* struct LockLevels of OnDiskInvertedLists.cpp: n level-1 locks, one      *)
(* level-2 lock and one level-3 lock built from a mutex and three          *)
(* condition variables, together with the threads that take them:          *)
(* add_entries and resize (through resize_locked and allocate_slot) and    *)
(* the prefetch threads (one_list).                                        *)
(*                                                                         *)
(* A critical section that gives mutex1 back before it returns is one      *)
(* action whose guard is that mutex1 is free.  lock_3 is different: it     *)
(* returns with mutex1 held and unlock_3 releases it, so mutex1 has an     *)
(* owner in between.  A thread asleep on a condition variable is not       *)
(* scheduled until a signal, a broadcast or a spurious wakeup releases it, *)
(* and then evaluates the condition of its while loop again.               *)
(***************************************************************************)
EXTENDS Naturals, FiniteSets

CONSTANTS
    Threads,        \* callers of add_entries / resize, and prefetch threads
    Lists,          \* the list numbers
    NoThread,       \* "mutex1 is free"
    MaxOps,         \* bound: calls made by each thread
    RemapMayFail    \* may update_totsize throw (munmap, truncate, mmap)?

ASSUME ThreadsAssumption == IsFiniteSet(Threads) /\ NoThread \notin Threads
ASSUME ListsAssumption == IsFiniteSet(Lists)
ASSUME MaxOpsAssumption == MaxOps \in Nat
ASSUME RemapAssumption == RemapMayFail \in BOOLEAN

VARIABLES
    mutex1,          \* the thread that owns mutex1 between two actions
    level1_holders,  \* list numbers whose level-1 lock is held
    n_level2,        \* threads that hold lock 2 or wait for it
    level2_in_use,
    level3_in_use,
    asleep,          \* the condition variable a thread sleeps on, or "no"
    pc,              \* where each thread is
    list,            \* the list_no argument of its current call
    ops              \* calls it may still make

lockvars == <<mutex1, level1_holders, n_level2, level2_in_use, level3_in_use>>
vars == <<lockvars, asleep, pc, list, ops>>

CVs == {"level1_cv", "level2_cv", "level3_cv"}

(* "use" holds lock 1 and touches the list; "lock_2" calls lock_2, "wait_2" *)
(* is in its loop; "alloc" holds lock 2 (free_slot, allocate_slot);         *)
(* "wait_3" is in lock_3's loop; "remap" is in update_totsize; "move" copies *)
(* the list under lock 2; "update" is back under lock 1 alone; "thrown" left *)
(* update_totsize by an exception.                                          *)
PCs == {"idle", "lock_1", "use", "lock_2", "wait_2", "alloc", "wait_3",
        "remap", "move", "update", "thrown"}

Holding1 == PCs \ {"idle", "lock_1"}
Holding2 == {"alloc", "wait_3", "remap", "move", "thrown"}
Counted2 == Holding2 \union {"wait_2"}
Touching == {"use", "move", "update"}
Remapping == {"remap", "thrown"}

At(P) == {t \in Threads : pc[t] \in P}

Init ==
    /\ mutex1 = NoThread
    /\ level1_holders = {}
    /\ n_level2 = 0
    /\ level2_in_use = FALSE
    /\ level3_in_use = FALSE
    /\ asleep = [t \in Threads |-> "no"]
    /\ pc = [t \in Threads |-> "idle"]
    /\ list \in [Threads -> Lists]
    /\ ops = [t \in Threads |-> MaxOps]

-------------------------------------------------------------------------------
(* Threads and condition variables. *)

Sleepers(cv) == {t \in Threads : asleep[t] = cv}

(* pthread_cond_broadcast *)
Broadcast(cv) ==
    asleep' = [t \in Threads |-> IF asleep[t] = cv THEN "no" ELSE asleep[t]]

(* pthread_cond_signal: one sleeper, whichever it is, if there is one *)
Signal(cv) ==
    \/ Sleepers(cv) = {} /\ UNCHANGED asleep
    \/ \E t \in Sleepers(cv) : asleep' = [asleep EXCEPT ![t] = "no"]

GoTo(t, from, to) ==
    /\ pc[t] = from
    /\ asleep[t] = "no"
    /\ pc' = [pc EXCEPT ![t] = to]

(* pthread_cond_wait: go to sleep, the mutex is free for the others *)
WaitOn(t, cv) == asleep' = [asleep EXCEPT ![t] = cv]

-------------------------------------------------------------------------------
(* Mutations of the definitions below, each a mistake one could make in the *)
(* C++; they are used only to see that the properties notice.               *)

(* lock_1 without the test of level1_holders *)
lock_1_shared(t) ==
    /\ mutex1 = NoThread
    /\ ~level3_in_use
    /\ GoTo(t, "lock_1", "use")
    /\ level1_holders' = level1_holders \union {list[t]}
    /\ UNCHANGED <<mutex1, n_level2, level2_in_use, level3_in_use, asleep,
                   list, ops>>


(* unlock_1 that wakes the level-1 sleepers only *)
unlock_1_forgets_level3(t) ==
    /\ mutex1 = NoThread
    /\ GoTo(t, "use", "idle") \/ GoTo(t, "update", "idle")
    /\ level1_holders' = level1_holders \ {list[t]}
    /\ Broadcast("level1_cv")
    /\ UNCHANGED <<mutex1, n_level2, level2_in_use, level3_in_use, list, ops>>

(* lock_2 that does not count itself *)
lock_2_enter_uncounted(t) ==
    /\ mutex1 = NoThread
    /\ GoTo(t, "lock_2", "wait_2")
    /\ IF level3_in_use THEN Signal("level3_cv") ELSE UNCHANGED asleep
    /\ UNCHANGED <<lockvars, list, ops>>

(* lock_2 that does not tell the thread in lock_3 *)
lock_2_enter_silent(t) ==
    /\ mutex1 = NoThread
    /\ GoTo(t, "lock_2", "wait_2")
    /\ n_level2' = n_level2 + 1
    /\ UNCHANGED <<mutex1, level1_holders, level2_in_use, level3_in_use,
                   asleep, list, ops>>

(* lock_2 that does not wait *)
lock_2_barges(t) ==
    /\ mutex1 = NoThread
    /\ GoTo(t, "wait_2", "alloc")
    /\ level2_in_use' = TRUE
    /\ UNCHANGED <<mutex1, level1_holders, n_level2, level3_in_use, asleep,
                   list, ops>>

(* lock_3 that lets one reader too many through *)
lock_3_off_by_one(t) ==
    /\ mutex1 = NoThread
    /\ Cardinality(level1_holders) <= n_level2 + 1
    /\ GoTo(t, "wait_3", "remap")
    /\ mutex1' = t
    /\ UNCHANGED <<level1_holders, n_level2, level2_in_use, level3_in_use,
                   asleep, list, ops>>

-------------------------------------------------------------------------------
(* The three levels. *)

lock_1(t) ==
    /\ mutex1 = NoThread
    /\ ~level3_in_use
    /\ list[t] \notin level1_holders
    /\ GoTo(t, "lock_1", "use")
    /\ level1_holders' = level1_holders \union {list[t]}
    /\ UNCHANGED <<mutex1, n_level2, level2_in_use, level3_in_use, asleep,
                   list, ops>>

lock_1_wait(t) ==
    /\ mutex1 = NoThread
    /\ level3_in_use \/ list[t] \in level1_holders
    /\ pc[t] = "lock_1" /\ asleep[t] = "no"
    /\ WaitOn(t, "level1_cv")
    /\ UNCHANGED <<lockvars, pc, list, ops>>

(* the thread is done with the list: one_list, or the end of add_entries *)
unlock_1(t) ==
    /\ mutex1 = NoThread
    /\ GoTo(t, "use", "idle") \/ GoTo(t, "update", "idle")
    /\ level1_holders' = level1_holders \ {list[t]}
    /\ IF level3_in_use THEN Signal("level3_cv") ELSE Broadcast("level1_cv")
    /\ UNCHANGED <<mutex1, n_level2, level2_in_use, level3_in_use, list, ops>>

(* lock_2 up to its loop *)
lock_2_enter(t) ==
    /\ mutex1 = NoThread
    /\ GoTo(t, "lock_2", "wait_2")
    /\ n_level2' = n_level2 + 1
    /\ IF level3_in_use THEN Signal("level3_cv") ELSE UNCHANGED asleep
    /\ UNCHANGED <<mutex1, level1_holders, level2_in_use, level3_in_use, list,
                   ops>>

lock_2(t) ==
    /\ mutex1 = NoThread
    /\ ~level2_in_use
    /\ GoTo(t, "wait_2", "alloc")
    /\ level2_in_use' = TRUE
    /\ UNCHANGED <<mutex1, level1_holders, n_level2, level3_in_use, asleep,
                   list, ops>>

lock_2_wait(t) ==
    /\ mutex1 = NoThread
    /\ level2_in_use
    /\ pc[t] = "wait_2" /\ asleep[t] = "no"
    /\ WaitOn(t, "level2_cv")
    /\ UNCHANGED <<lockvars, pc, list, ops>>

unlock_2(t) ==
    /\ mutex1 = NoThread
    /\ GoTo(t, "move", "update")
    /\ level2_in_use' = FALSE
    /\ n_level2' = n_level2 - 1
    /\ Signal("level2_cv")
    /\ UNCHANGED <<mutex1, level1_holders, level3_in_use, list, ops>>

lock_3_enter(t) ==
    /\ mutex1 = NoThread
    /\ GoTo(t, "alloc", "wait_3")
    /\ level3_in_use' = TRUE
    /\ UNCHANGED <<mutex1, level1_holders, n_level2, level2_in_use, asleep,
                   list, ops>>

(* lock_3 returns without releasing mutex1 *)
lock_3(t) ==
    /\ mutex1 = NoThread
    /\ Cardinality(level1_holders) <= n_level2
    /\ GoTo(t, "wait_3", "remap")
    /\ mutex1' = t
    /\ UNCHANGED <<level1_holders, n_level2, level2_in_use, level3_in_use,
                   asleep, list, ops>>

lock_3_wait(t) ==
    /\ mutex1 = NoThread
    /\ Cardinality(level1_holders) > n_level2
    /\ pc[t] = "wait_3" /\ asleep[t] = "no"
    /\ WaitOn(t, "level3_cv")
    /\ UNCHANGED <<lockvars, pc, list, ops>>

unlock_3(t) ==
    /\ mutex1 = t
    /\ GoTo(t, "remap", "move")
    /\ level3_in_use' = FALSE
    /\ mutex1' = NoThread
    /\ Broadcast("level1_cv")
    /\ UNCHANGED <<level1_holders, n_level2, level2_in_use, list, ops>>

-------------------------------------------------------------------------------
(* The code that runs between the lock calls. *)

(* add_entries, resize or one_list is called for list l *)
Call(t, l) ==
    /\ ops[t] > 0
    /\ GoTo(t, "idle", "lock_1")
    /\ ops' = [ops EXCEPT ![t] = @ - 1]
    /\ list' = [list EXCEPT ![t] = l]
    /\ UNCHANGED <<lockvars, asleep>>

(* resize_locked: the new size does not fit the slot of the list *)
NeedsNewSlot(t) ==
    /\ GoTo(t, "use", "lock_2")
    /\ UNCHANGED <<lockvars, asleep, list, ops>>

(* allocate_slot found room, or the list becomes empty and needs none *)
SlotFound(t) ==
    /\ GoTo(t, "alloc", "move")
    /\ UNCHANGED <<lockvars, asleep, list, ops>>

(* update_totsize throws: no frame on the way out unlocks anything *)
update_totsize_throws(t) ==
    /\ RemapMayFail
    /\ GoTo(t, "remap", "thrown")
    /\ UNCHANGED <<lockvars, asleep, list, ops>>

SpuriousWakeup(t) ==
    /\ asleep[t] \in CVs
    /\ asleep' = [asleep EXCEPT ![t] = "no"]
    /\ UNCHANGED <<lockvars, pc, list, ops>>

(* every call has returned *)
Finished ==
    /\ \A t \in Threads : pc[t] = "idle" /\ ops[t] = 0
    /\ UNCHANGED vars

ThreadStep(t) ==
    \/ \E l \in Lists : Call(t, l)
    \/ lock_1(t) \/ lock_1_wait(t) \/ unlock_1(t)
    \/ NeedsNewSlot(t)
    \/ lock_2_enter(t) \/ lock_2(t) \/ lock_2_wait(t) \/ unlock_2(t)
    \/ SlotFound(t)
    \/ lock_3_enter(t) \/ lock_3(t) \/ lock_3_wait(t) \/ unlock_3(t)
    \/ update_totsize_throws(t)

Next ==
    \/ \E t \in Threads : ThreadStep(t) \/ SpuriousWakeup(t)
    \/ Finished

Spec == Init /\ [][Next]_vars

-------------------------------------------------------------------------------
(* Properties. *)

TypeOK ==
    /\ mutex1 \in Threads \union {NoThread}
    /\ level1_holders \in SUBSET Lists
    /\ n_level2 \in Nat
    /\ level2_in_use \in BOOLEAN
    /\ level3_in_use \in BOOLEAN
    /\ asleep \in [Threads -> CVs \union {"no"}]
    /\ pc \in [Threads -> PCs]
    /\ list \in [Threads -> Lists]
    /\ ops \in [Threads -> 0 .. MaxOps]

(* Two threads that are past lock_1 work on different lists, so a list is   *)
(* never resized while another thread reads or fills it.                    *)
ListExclusion ==
    \A t, u \in At(Holding1) : t # u => list[t] # list[u]

(* One thread at a time edits the slot table, remaps the file or moves its  *)
(* list (free_slot and allocate_slot say "should hold lock2").              *)
AllocatorExclusion ==
    \A t, u \in At(Holding2) : t = u

(* While update_totsize replaces the mapping, or after it failed half way,  *)
(* no thread uses an address inside the mapping: lock_3 counts the level-1  *)
(* holders that wait in lock_2 and waits for all the others.                *)
RemapExclusion ==
    At(Remapping) # {} => At(Touching) = {}

(* A sleeping thread whose condition has come true is always about to be    *)
(* woken: a level-1 sleeper has its list taken or a remap pending, a        *)
(* level-3 sleeper still has a reader to wait for, and when level 2 is free *)
(* some thread that wants it is awake.                                      *)
NoLostWakeup ==
    /\ \A t \in Sleepers("level1_cv") :
          level3_in_use \/ list[t] \in level1_holders
    /\ \A t \in Sleepers("level3_cv") :
          Cardinality(level1_holders) > n_level2
    /\ Sleepers("level2_cv") # {} =>
          \/ level2_in_use
          \/ \E t \in Threads : pc[t] = "wait_2" /\ asleep[t] = "no"

(* t is in a call and can go on before any other thread does anything.      *)
CanProceed(t) ==
    /\ pc[t] \notin {"idle", "thrown"}
    /\ asleep[t] = "no"
    /\ mutex1 \in {t, NoThread}
    /\ pc[t] = "lock_1" => ~level3_in_use /\ list[t] \notin level1_holders
    /\ pc[t] = "wait_2" => ~level2_in_use
    /\ pc[t] = "wait_3" => Cardinality(level1_holders) <= n_level2

(* The three levels never wait for each other in a circle: unless           *)
(* update_totsize has failed, whenever some threads are in calls one of     *)
(* them can proceed.  A thread in lock_3 waits for readers, readers that    *)
(* need a slot wait in lock_2 for the same thread, and callers of lock_1    *)
(* wait for both.                                                           *)
SomeThreadCanProceed ==
    At({"thrown"}) = {} /\ At({"idle"}) # Threads => \E t \in Threads : CanProceed(t)

-------------------------------------------------------------------------------
(* The claims and the allocator that the lock state stands for. *)

CONSTANT NoList     \* "the thread claims no list"

ASSUME NoListAssumption == NoList \notin Lists

Claims == [t \in Threads |-> IF pc[t] \in Holding1 THEN list[t] ELSE NoList]
Touches == [t \in Threads |-> pc[t] \in Touching]
Allocator == IF At(Holding2) = {} THEN NoThread
             ELSE CHOOSE t \in At(Holding2) : TRUE
InRemap == At(Remapping) # {}

Access == INSTANCE ListAccess WITH
    claim <- Claims, touching <- Touches, allocator <- Allocator, remapping <- InRemap

(* The locks keep the promise of ListAccess at every step. *)
ImplementsListAccess == Access!ASpec
===============================================================================

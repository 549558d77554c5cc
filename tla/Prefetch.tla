-------------------------------- MODULE Prefetch --------------------------------
(***************************************************************************)
(* OngoingPrefetch of OnDiskInvertedLists.cpp on top of the lock levels:   *)
(* searches hand lists to prefetch_lists, which starts threads that read   *)
(* them under their level-1 locks while other threads add and resize.      *)
(*                                                                         *)
(* prefetch_lists holds a mutex of its own from beginning to end, so one   *)
(* call at a time is under way, whoever makes it.  It empties the list of  *)
(* tasks under list_ids_mutex, but fills it again without: it relies on    *)
(* the join of the threads in between.                                     *)
(***************************************************************************)
EXTENDS LockLevels, Sequences

CONSTANTS
    Pool,           \* the threads that prefetch; their number is prefetch_nthread
    Requests,       \* the sequences of lists that searches ask for
    MaxPrefetches   \* bound: calls of prefetch_lists

ASSUME PoolAssumption == Pool \subseteq Threads
ASSUME RequestsAssumption == Requests \subseteq Seq(Lists)

VARIABLES
    list_ids,   \* the tasks
    cur_list,   \* tasks taken so far
    running,    \* the prefetch threads that were created and did not end
    phase,      \* where the call of prefetch_lists, or the destructor, is
    list_nos,   \* the argument of the call, as far as it is not yet in list_ids
    tocreate,   \* threads the call has still to create
    nprefetch   \* calls of prefetch_lists that may still be made

tasks == <<list_ids, cur_list>>
pvars == <<list_ids, cur_list, running, phase, list_nos, tocreate, nprefetch>>
allvars == <<vars, pvars>>

Adders == Threads \ Pool

PInit ==
    /\ Init
    /\ list_ids = <<>>
    /\ cur_list = 0
    /\ running = {}
    /\ phase = "idle"
    /\ list_nos = <<>>
    /\ tocreate = 0
    /\ nprefetch = MaxPrefetches

-------------------------------------------------------------------------------
(* prefetch_lists: the caller. *)

(* the list of tasks is emptied, so that old threads take no more of them *)
prefetch_lists(nos) ==
    /\ phase = "idle"
    /\ nprefetch > 0
    /\ phase' = "join"
    /\ list_ids' = <<>>
    /\ list_nos' = nos
    /\ nprefetch' = nprefetch - 1
    /\ UNCHANGED <<vars, cur_list, running, tocreate>>

(* Mutation of Joined: only the first thread is waited for. *)
JoinedFirst == Cardinality(running) <= 1

Joined == running = {}

join ==
    /\ phase = "join"
    /\ Joined
    /\ phase' = "prepare"
    /\ cur_list' = 0
    /\ tocreate' = IF Len(list_nos) < Cardinality(Pool) THEN Len(list_nos)
                   ELSE Cardinality(Pool)
    /\ UNCHANGED <<vars, list_ids, running, list_nos, nprefetch>>

(* list_size is read without a lock: whether the list is empty just now is  *)
(* anybody's guess                                                          *)
prepare_task ==
    /\ phase = "prepare"
    /\ list_nos # <<>>
    /\ list_ids' \in {list_ids, Append(list_ids, Head(list_nos))}
    /\ list_nos' = Tail(list_nos)
    /\ UNCHANGED <<vars, cur_list, running, phase, tocreate, nprefetch>>

create_thread ==
    /\ phase = "prepare"
    /\ list_nos = <<>>
    /\ tocreate > 0
    /\ \E p \in Pool \ running : running' = running \union {p}
    /\ tocreate' = tocreate - 1
    /\ UNCHANGED <<vars, tasks, phase, list_nos, nprefetch>>

prefetch_returns ==
    /\ phase = "prepare"
    /\ list_nos = <<>>
    /\ tocreate = 0
    /\ phase' = "idle"
    /\ UNCHANGED <<vars, tasks, running, list_nos, tocreate, nprefetch>>

(* ~OngoingPrefetch, which only a caller without other calls may run: the   *)
(* threads are joined once they have done all tasks                         *)
destroy ==
    /\ phase = "idle"
    /\ \A t \in Adders : pc[t] = "idle"
    /\ phase' = "destroy"
    /\ UNCHANGED <<vars, tasks, running, list_nos, tocreate, nprefetch>>

destroyed ==
    /\ phase = "destroy"
    /\ running = {}
    /\ phase' = "gone"
    /\ UNCHANGED <<vars, tasks, running, list_nos, tocreate, nprefetch>>

PrefetchStep ==
    join \/ prepare_task \/ create_thread \/ prefetch_returns \/ destroyed

-------------------------------------------------------------------------------
(* The prefetch threads. *)

(* get_next_list, and lock_1 or the end of the thread *)
get_next_list(p) ==
    /\ p \in running
    /\ pc[p] = "idle"
    /\ IF cur_list < Len(list_ids)
       THEN /\ cur_list' = cur_list + 1
            /\ list' = [list EXCEPT ![p] = list_ids[cur_list + 1]]
            /\ GoTo(p, "idle", "lock_1")
            /\ UNCHANGED running
       ELSE /\ running' = running \ {p}
            /\ UNCHANGED <<cur_list, list, pc>>
    /\ UNCHANGED <<lockvars, asleep, ops, list_ids, phase, list_nos, tocreate,
                   nprefetch>>

(* one_list reads the size, the ids and the codes under lock 1 alone *)
one_list(p) ==
    \/ get_next_list(p)
    \/ (lock_1(p) \/ lock_1_wait(p) \/ unlock_1(p)) /\ UNCHANGED pvars

(* the other threads add and resize while the lists exist *)
AdderStep(t) ==
    /\ ThreadStep(t)
    /\ phase \notin {"destroy", "gone"}
    /\ UNCHANGED pvars

AllReturned ==
    /\ \A t \in Threads : pc[t] = "idle"
    /\ \A t \in Adders : ops[t] = 0
    /\ running = {}
    /\ phase \in {"idle", "gone"}

PNext ==
    \/ \E nos \in Requests : prefetch_lists(nos)
    \/ destroy
    \/ PrefetchStep
    \/ \E p \in Pool : one_list(p)
    \/ \E t \in Adders : AdderStep(t)
    \/ \E t \in Threads : SpuriousWakeup(t) /\ UNCHANGED pvars
    \/ /\ phase = "gone" \/ AllReturned
       /\ UNCHANGED allvars

PSpec == PInit /\ [][PNext]_allvars

(* Every thread that can run is run eventually, the caller of              *)
(* prefetch_lists included; nobody has to make another call of it.         *)
PFairSpec ==
    /\ PSpec
    /\ WF_allvars(PrefetchStep)
    /\ \A p \in Pool : WF_allvars(one_list(p))
    /\ \A t \in Adders : WF_allvars(AdderStep(t))

-------------------------------------------------------------------------------
(* Properties; ImplementsListAccess of LockLevels is another. *)

(* While prefetch_lists fills list_ids and resets cur_list without their    *)
(* mutex, no prefetch thread is there to read them.                         *)
TasksArePrivate == phase = "prepare" /\ list_nos # <<>> => running = {}

(* Every add, resize and prefetch_lists returns, every prefetch thread ends *)
(* and the destructor comes to its end: a thread that waits for a list      *)
(* somebody else resizes delays the join, but no thread waits for a thread  *)
(* that waits for it.                                                       *)
AllCallsReturn ==
    <>[](phase = "gone" \/ AllReturned)
===============================================================================

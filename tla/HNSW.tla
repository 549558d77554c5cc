---------------------------------- MODULE HNSW ----------------------------------
(***************************************************************************)
(* Building an HNSW graph: hnsw_add_vertices, and add_with_locks run by    *)
(* several threads at once.                                                *)
(*                                                                         *)
(* Every node has a level and, for each level up to it, a list of          *)
(* neighbours.  A batch is inserted group by group, from the highest level *)
(* of its nodes down, with a barrier between groups.  A thread that        *)
(* inserts a node searches each level from a node `nearest`, links its     *)
(* node to some of what it found, and then enters the reverse links.       *)
(* Lists are written under the lock of their node and read without it.     *)
(*                                                                         *)
(* Distances are left out: what a search finds is any part of what it can  *)
(* reach, and pruning keeps any neighbours.  A list is the set of its      *)
(* elements; LinksAreNew says that no list gets an element twice.          *)
(***************************************************************************)
EXTENDS Integers, Sequences, FiniteSets

CONSTANTS
    Threads,
    Batches,        \* the sets of nodes that are added, one call after the other
    MaxLevel,       \* bound: levels of the nodes
    Cap,            \* Cap[l] neighbours at level l
    Threshold,      \* larger groups are inserted in parallel; 100 in the code
    MayInterrupt,   \* may the interrupt callback end an add?
    AnyLevels       \* may a large group raise the maximum level?

Nodes == UNION {Batches[b] : b \in DOMAIN Batches}
Levels == 0 .. MaxLevel
NoNode == -1
NoThread == "none"

(* every call adds new nodes, and a call that adds none returns at once     *)
ASSUME BatchesAssumption ==
    /\ Batches \in Seq(SUBSET Nat)
    /\ \A b \in DOMAIN Batches : Batches[b] # {} /\ IsFiniteSet(Batches[b])
    /\ \A b, c \in DOMAIN Batches : b # c => Batches[b] \cap Batches[c] = {}
ASSUME ThreadsAssumption == Threads # {} /\ NoThread \notin Threads
ASSUME BoundsAssumption ==
    MaxLevel \in Nat /\ Threshold \in Nat /\ Cap \in [Levels -> Nat \ {0}]
ASSUME ChoicesAssumption == MayInterrupt \in BOOLEAN /\ AnyLevels \in BOOLEAN

VARIABLES
    levels,         \* level of each node
    links,          \* links[n][l]: neighbours of n at level l
    max_level, entry_point,
    batch,          \* number of the batch being added
    group,          \* the level whose nodes are being inserted, or -1
    waiting,        \* nodes of the group that no thread has taken
    team,           \* the threads of the parallel region
    interrupt,
    locks,          \* thread that holds the lock of a node
    critical,       \* thread in the critical section
    th,             \* what each thread does
    inserted,       \* nodes whose insertion has ended
    pruned          \* <<n, l>>: links[n][l] was pruned once

hnsw == <<links, max_level, entry_point, pruned>>
control == <<batch, group, waiting, team, interrupt>>
vars == <<levels, hnsw, control, locks, critical, th, inserted>>

Idle == [pc |-> "idle"]

LevelOf(S) == {levels[n] : n \in S}
Top(S) == CHOOSE l \in S : \A k \in S : k <= l

(* The nodes of a batch at its top level raise the maximum level when they  *)
(* are above all earlier nodes.  Unless AnyLevels, they are few.            *)
Raising(lv, b) ==
    LET top == Top({lv[n] : n \in Batches[b]})
    IN  {n \in Batches[b] : lv[n] = top /\ \A c \in 1 .. (b - 1) : \A m \in Batches[c] : lv[m] < top}

RaisedBySmallGroups(lv) ==
    \A b \in 2 .. Len(Batches) : Cardinality(Raising(lv, b)) <= Threshold

Init ==
    /\ levels \in {lv \in [Nodes -> Levels] : AnyLevels \/ RaisedBySmallGroups(lv)}
    /\ links = [n \in Nodes |-> [l \in 0 .. levels[n] |-> {}]]
    /\ max_level = -1
    /\ entry_point = NoNode
    /\ batch = 0
    /\ group = -1
    /\ waiting = {}
    /\ team = {}
    /\ interrupt = FALSE
    /\ locks = [n \in Nodes |-> NoThread]
    /\ critical = NoThread
    /\ th = [t \in Threads |-> Idle]
    /\ inserted = {}
    /\ pruned = {}

-------------------------------------------------------------------------------
(* hnsw_add_vertices *)

Master == CHOOSE t \in Threads : TRUE

At(t, pc) == th[t].pc = pc

AllIdle == \A t \in Threads : At(t, "idle")

StartGroup(b, l) ==
    LET nodes == {n \in Batches[b] : levels[n] = l}
    IN  /\ group' = l
        /\ waiting' = nodes
        /\ team' = IF Cardinality(nodes) > Threshold THEN Threads ELSE {Master}
        /\ interrupt' = FALSE

add_batch ==
    /\ group = -1
    /\ batch < Len(Batches)
    /\ batch' = batch + 1
    /\ StartGroup(batch', Top(LevelOf(Batches[batch'])))
    /\ UNCHANGED <<levels, hnsw, locks, critical, th, inserted>>

(* the threads have met at the end of the loop over a group *)
next_group ==
    /\ group # -1
    /\ waiting = {}
    /\ AllIdle
    /\ IF interrupt \/ group = 0   \* throws, or the last group is done
       THEN group' = -1 /\ team' = {} /\ UNCHANGED <<waiting, interrupt>>
       ELSE StartGroup(batch, group - 1)
    /\ UNCHANGED <<levels, hnsw, batch, locks, critical, th, inserted>>

(* the nodes that are left when the callback said to stop *)
skip(t) ==
    /\ t \in team
    /\ At(t, "idle")
    /\ interrupt
    /\ waiting # {}
    /\ waiting' = {}
    /\ UNCHANGED <<levels, hnsw, batch, group, team, interrupt, locks, critical, th, inserted>>

-------------------------------------------------------------------------------
(* add_with_locks *)

Goes(t, fields) == th' = [th EXCEPT ![t] = fields]
PtLevel(t) == levels[th[t].pt]

(* the insertion ends; the callback may ask to stop *)
End(t) ==
    /\ Goes(t, Idle)
    /\ inserted' = inserted \union {th[t].pt}
    /\ \E b \in {FALSE, MayInterrupt} : interrupt' = (interrupt \/ b)

Reads(t, pt) ==
    IF entry_point = NoNode THEN [pc |-> "first", pt |-> pt]
    ELSE [pc |-> "lock", pt |-> pt, nearest |-> entry_point]

begin(t) ==
    /\ t \in team
    /\ At(t, "idle")
    /\ ~interrupt
    /\ \E pt \in waiting :
          /\ waiting' = waiting \ {pt}
          /\ Goes(t, Reads(t, pt))
    /\ UNCHANGED <<levels, hnsw, batch, group, team, interrupt, locks, critical, inserted>>

(* Mutation of IsFirst: the entry point is not checked again. *)
IsFirstUnchecked(t) == TRUE

IsFirst(t) == entry_point = NoNode

(* the critical section for the first node *)
first(t) ==
    /\ At(t, "first")
    /\ critical = NoThread
    /\ IF IsFirst(t)
       THEN /\ critical' = t
            /\ max_level' = PtLevel(t)
            /\ Goes(t, [pc |-> "first_entry", pt |-> th[t].pt])
       ELSE /\ Goes(t, Reads(t, th[t].pt))
            /\ UNCHANGED <<critical, max_level>>
    /\ UNCHANGED <<levels, links, entry_point, pruned, control, locks, inserted>>

first_entry(t) ==
    /\ At(t, "first_entry")
    /\ entry_point' = th[t].pt
    /\ critical' = NoThread
    /\ End(t)
    /\ UNCHANGED <<levels, links, max_level, pruned, batch, group, waiting, team, locks>>

Neighbours(S, l) == UNION {IF l \in DOMAIN links[n] THEN links[n][l] ELSE {} : n \in S}

(* what a search from n at level l can reach: the nodes that are in every   *)
(* set that holds n and all neighbours of its members                       *)
Reach(n, l) ==
    {m \in Nodes : \A S \in SUBSET Nodes : n \in S /\ Neighbours(S, l) \subseteq S => m \in S}

Search(t, nearest, level, seen) ==
    [pc |-> "search", pt |-> th[t].pt, nearest |-> nearest, level |-> level, seen |-> seen]

(* Mutation of From: the greedy search stops a level too early. *)
FromAbove(t, nearest, level) ==
    IF level <= PtLevel(t) + 1 THEN Search(t, nearest, level, {nearest})
    ELSE [pc |-> "descend", pt |-> th[t].pt, nearest |-> nearest, level |-> level]

(* greedy search at the levels above the node, then its own levels *)
From(t, nearest, level) ==
    IF level <= PtLevel(t) THEN Search(t, nearest, level, {nearest})
    ELSE [pc |-> "descend", pt |-> th[t].pt, nearest |-> nearest, level |-> level]

(* from here on the node's own lock is held, but for the reverse links *)
lock_own(t) ==
    /\ At(t, "lock")
    /\ locks[th[t].pt] = NoThread
    /\ locks' = [locks EXCEPT ![th[t].pt] = t]
    /\ Goes(t, From(t, th[t].nearest, max_level))
    /\ UNCHANGED <<levels, hnsw, control, critical, inserted>>

(* greedy_update_nearest at one level above the level of the node *)
descend(t) ==
    /\ At(t, "descend")
    /\ \E n \in Reach(th[t].nearest, th[t].level) : Goes(t, From(t, n, th[t].level - 1))
    /\ UNCHANGED <<levels, hnsw, control, locks, critical, inserted>>

(* search_neighbors_to_add reads one more neighbour of a node it has seen *)
visit(t) ==
    /\ At(t, "search")
    /\ \E n \in Neighbours(th[t].seen, th[t].level) \ th[t].seen :
          Goes(t, Search(t, th[t].nearest, th[t].level, th[t].seen \union {n}))
    /\ UNCHANGED <<levels, hnsw, control, locks, critical, inserted>>

(* Mutation of WithLinks: the list is not pruned when it just got full. *)
WithLinksOneMore(old, new, l) ==
    IF Cardinality(old \union new) <= Cap[l] + 1 THEN {old \union new}
    ELSE {S \in SUBSET (old \union new) : Cardinality(S) \in 1 .. Cap[l]}

(* add_link_tpl: a list with room grows, a full one is pruned; depending on *)
(* distances and prune_headroom any of its nodes may be left, but not none  *)
WithLinks(old, new, l) ==
    IF Cardinality(old \union new) <= Cap[l] THEN {old \union new}
    ELSE {S \in SUBSET (old \union new) : Cardinality(S) \in 1 .. Cap[l]}

Pruned(old, new, n, l) ==
    IF Cardinality(old \union new) <= Cap[l] THEN {} ELSE {<<n, l>>}

(* some of the nodes found become neighbours; the own lock is released *)
link(t) ==
    /\ At(t, "search")
    /\ LET pt == th[t].pt
           l == th[t].level
           old == links[pt][l]
       IN  \E targets \in SUBSET th[t].seen :
              /\ Cardinality(targets) \in 1 .. Cap[l]
              /\ \E new \in WithLinks(old, targets, l) : links' = [links EXCEPT ![pt][l] = new]
              /\ pruned' = pruned \union Pruned(old, targets, pt, l)
              /\ locks' = [locks EXCEPT ![pt] = NoThread]
              /\ Goes(t, [pc |-> "reverse", pt |-> pt, nearest |-> th[t].nearest,
                          level |-> l, todo |-> targets])
    /\ UNCHANGED <<levels, max_level, entry_point, control, critical, inserted>>

(* Mutation of MayLock: no lock is taken for a reverse link. *)
MayLockAnything(n) == TRUE

MayLock(n) == locks[n] = NoThread

lock_other(t) ==
    /\ At(t, "reverse")
    /\ \E n \in th[t].todo :
          /\ MayLock(n)
          /\ locks' = [locks EXCEPT ![n] = t]
          /\ Goes(t, [pc |-> "write", pt |-> th[t].pt, nearest |-> th[t].nearest,
                      level |-> th[t].level, todo |-> th[t].todo \ {n},
                      other |-> n, old |-> links[n][th[t].level]])
    /\ UNCHANGED <<levels, hnsw, control, critical, inserted>>

(* the reverse link is entered and the lock released *)
link_back(t) ==
    /\ At(t, "write")
    /\ LET n == th[t].other
           l == th[t].level
       IN  /\ \E new \in WithLinks(th[t].old, {th[t].pt}, l) :
                 links' = [links EXCEPT ![n][l] = new]
           /\ pruned' = pruned \union Pruned(th[t].old, {th[t].pt}, n, l)
           /\ locks' = [locks EXCEPT ![n] = NoThread]
    /\ Goes(t, [pc |-> "reverse", pt |-> th[t].pt, nearest |-> th[t].nearest,
                level |-> th[t].level, todo |-> th[t].todo])
    /\ UNCHANGED <<levels, max_level, entry_point, control, critical, inserted>>

(* Mutation of NextNearest: the search goes on from a node just linked to. *)
NextNearestLinked(t) ==
    LET found == links[th[t].pt][th[t].level]
    IN  CHOOSE n \in found : n # entry_point \/ found = {n}

NextNearest(t) == th[t].nearest

(* Mutation of OwnLock: the lock is not released after level 0. *)
OwnLockKept(t) == t

OwnLock(t) == IF th[t].level > 0 THEN t ELSE NoThread

(* the own lock is taken again; after level 0 it is released for good *)
relock(t) ==
    /\ At(t, "reverse")
    /\ th[t].todo = {}
    /\ locks[th[t].pt] = NoThread
    /\ locks' = [locks EXCEPT ![th[t].pt] = OwnLock(t)]
    /\ Goes(t, IF th[t].level > 0 THEN Search(t, NextNearest(t), th[t].level - 1, {NextNearest(t)})
               ELSE [pc |-> "raise", pt |-> th[t].pt])
    /\ UNCHANGED <<levels, hnsw, control, critical, inserted>>

(* Mutation of Raises: a lower node replaces the entry point as well. *)
RaisesOrLowers(t) == PtLevel(t) # max_level

Raises(t) == PtLevel(t) > max_level

(* the critical section at the end *)
raise(t) ==
    /\ At(t, "raise")
    /\ critical = NoThread
    /\ IF Raises(t)
       THEN /\ critical' = t
            /\ max_level' = PtLevel(t)
            /\ Goes(t, [pc |-> "raise_entry", pt |-> th[t].pt])
            /\ UNCHANGED <<inserted, interrupt>>
       ELSE End(t) /\ UNCHANGED <<critical, max_level>>
    /\ UNCHANGED <<levels, links, entry_point, pruned, batch, group, waiting, team, locks>>

raise_entry(t) ==
    /\ At(t, "raise_entry")
    /\ entry_point' = th[t].pt
    /\ critical' = NoThread
    /\ End(t)
    /\ UNCHANGED <<levels, links, max_level, pruned, batch, group, waiting, team, locks>>

-------------------------------------------------------------------------------
add_with_locks(t) ==
    \/ begin(t) \/ skip(t) \/ first(t) \/ first_entry(t) \/ lock_own(t) \/ descend(t)
    \/ visit(t) \/ link(t) \/ lock_other(t) \/ link_back(t)
    \/ relock(t) \/ raise(t) \/ raise_entry(t)

Next ==
    \/ add_batch
    \/ next_group
    \/ \E t \in Threads : add_with_locks(t)

(* threads run; a lock or a critical section that is free again and again   *)
(* is taken, since each is asked for only finitely often                    *)
Fairness ==
    /\ WF_vars(add_batch \/ next_group)
    /\ \A t \in Threads : WF_vars(add_with_locks(t))

Spec == Init /\ [][Next]_vars /\ Fairness
-------------------------------------------------------------------------------
(* Properties. *)

Linking == {"search", "reverse", "write"}

(* Lists exist for the levels of a node and hold no more than their         *)
(* capacity; at most one thread works on a node and holds the critical      *)
(* section.                                                                 *)
TypeOK ==
    /\ \A n \in Nodes :
          /\ DOMAIN links[n] = 0 .. levels[n]
          /\ \A l \in DOMAIN links[n] : links[n][l] \subseteq Nodes /\ Cardinality(links[n][l]) <= Cap[l]
    /\ max_level \in -1 .. MaxLevel
    /\ entry_point \in Nodes \union {NoNode}
    /\ batch \in 0 .. Len(Batches)
    /\ waiting \subseteq Nodes /\ inserted \subseteq Nodes
    /\ \A n \in Nodes : locks[n] \in Threads \union {NoThread}
    /\ critical \in Threads \union {NoThread}
    /\ \A s, t \in Threads : s # t /\ ~At(s, "idle") /\ ~At(t, "idle") => th[s].pt # th[t].pt

(* "neighbors[offsets[i]:offsets[i+1]] is the list of neighbors of vector   *)
(* i": a thread that searches or links at some level touches only nodes     *)
(* that have this level; the range of any other node is outside its part of *)
(* the array, in the lists of the next node.                                *)
LevelsExist ==
    \A t \in Threads :
        th[t].pc \in Linking =>
            \A n \in {th[t].pt, th[t].nearest}
                     \union (IF At(t, "search") THEN th[t].seen ELSE th[t].todo) :
                th[t].level <= levels[n]

(* Whoever enters a link finds that it is not there yet, and does not link  *)
(* a node to itself (print_neighbor_stats asserts it): a node that is being *)
(* inserted is found at a level only after its own search there.            *)
LinksAreNew ==
    \A t \in Threads :
        /\ At(t, "search") => th[t].pt \notin th[t].seen /\ links[th[t].pt][th[t].level] = {}
        /\ At(t, "write") => th[t].pt \notin th[t].old

(* Between two calls links are mutual, except where a list was pruned: no   *)
(* reverse link is overwritten by one that another thread enters.           *)
NoLinkLost ==
    group = -1 =>
        \A m, n \in Nodes : \A l \in DOMAIN links[m] :
            n \in links[m][l] => m \in links[n][l] \/ <<n, l>> \in pruned

(* Between two calls every node that was inserted has a neighbour at level  *)
(* 0, unless it is the only one, and the entry point is a node of the       *)
(* maximum level, the highest of the inserted nodes.                        *)
NoNodeLeftAlone ==
    group = -1 /\ Cardinality(inserted) > 1 => \A n \in inserted : links[n][0] # {}

EntryPointIsTop ==
    group = -1 /\ inserted # {} =>
        entry_point \in inserted /\ max_level = levels[entry_point]
        /\ max_level = Top(LevelOf(inserted))

(* Every call comes to an end: no thread waits for ever for a lock.         *)
AllAdded == <>(batch = Len(Batches) /\ group = -1)
===============================================================================

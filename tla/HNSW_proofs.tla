------------------------------ MODULE HNSW_proofs ------------------------------
(***************************************************************************)
(* Proofs about HNSW for any number of threads, nodes, levels and calls.   *)
(*                                                                         *)
(* The inductive invariant has two layers.  ControlInv follows the calls,  *)
(* their groups and the two critical sections; it holds of every add.      *)
(* GraphInv follows the lists and what the threads between two locks know  *)
(* of them.  It needs that no large group raises the maximum level         *)
(* (~AnyLevels): without that a thread may search a level that its nearest *)
(* node does not have, as the run hnsw_race shows.                         *)
(***************************************************************************)
EXTENDS HNSW, FiniteSetTheorems, WellFoundedInduction, TLAPS

-----------------------------------------------------------------------------
(* The control layer. *)

Active(t) == ~At(t, "idle")

(* between the two assignments of a critical section *)
InSection == {"first_entry", "raise_entry"}

(* what lies between the first look at the entry point and the last lock *)
Middle == {"lock", "descend", "search", "reverse", "write"}

GroupNodes == {n \in Batches[batch] : levels[n] = group}

(* some node at level l or above is in the graph *)
Reached(l) == \E m \in inserted : levels[m] >= l

TypeInv ==
    /\ levels \in [Nodes -> Levels]
    /\ max_level \in -1 .. MaxLevel
    /\ batch \in 0 .. Len(Batches)
    /\ group \in -1 .. MaxLevel
    /\ waiting \subseteq Nodes
    /\ inserted \subseteq Nodes
    /\ interrupt \in BOOLEAN
    /\ critical \in Threads \cup {NoThread}
    /\ th = [t \in Threads |-> th[t]]
    /\ \A t \in Threads :
          /\ th[t].pc \in {"idle", "first", "raise"} \cup InSection \cup Middle
          /\ Active(t) => th[t].pt \in Nodes

(* A group is a level of the batch; the nodes that wait are in it, and none *)
(* below it has been inserted.                                              *)
GroupInv ==
    /\ group = -1 => waiting = {}
    /\ group # -1 =>
          /\ batch >= 1
          /\ waiting \subseteq GroupNodes
          /\ \E n \in Batches[batch] : levels[n] >= group
    /\ waiting \cap inserted = {}
    /\ \A n \in inserted : \E c \in 1 .. batch :
          n \in Batches[c] /\ (c = batch /\ group # -1 => levels[n] >= group)

(* The threads of the team work on different nodes of the group, and the    *)
(* one between the two assignments is the one in the critical section.      *)
ThreadInv ==
    /\ \A t \in Threads : Active(t) =>
          /\ group # -1
          /\ t \in team
          /\ th[t].pt \in GroupNodes
          /\ th[t].pt \notin waiting
          /\ th[t].pt \notin inserted
    /\ \A s, t \in Threads :
          s # t /\ Active(s) /\ Active(t) => th[s].pt # th[t].pt
    /\ \A t \in Threads : critical = t <=> th[t].pc \in InSection

(* The entry point is the last node that raised the maximum level; there is *)
(* none exactly as long as the graph is empty.                              *)
EntryInv ==
    /\ entry_point \in inserted \cup {NoNode}
    /\ entry_point = NoNode <=> inserted = {}
    /\ \A t \in Threads :
          /\ entry_point = NoNode => th[t].pc \in {"idle", "first", "first_entry"}
          /\ At(t, "first_entry") => entry_point = NoNode
          /\ th[t].pc \in InSection => max_level = PtLevel(t)
    /\ critical = NoThread =>
          max_level = IF entry_point = NoNode THEN -1 ELSE levels[entry_point]
    /\ \A n \in inserted : levels[n] <= max_level

(* Every group that has been left has raised the graph to its level, even   *)
(* if it was interrupted.                                                   *)
ReachedInv ==
    /\ \A c \in 1 .. batch : \A n \in Batches[c] :
          c < batch \/ group = -1 \/ levels[n] > group => Reached(levels[n])
    /\ group # -1 /\ interrupt => Reached(group)
    /\ group # -1 /\ (\E n \in Batches[batch] : levels[n] = group) =>
          waiting # {} \/ (\E t \in Threads : Active(t)) \/ Reached(group)

ControlInv == TypeInv /\ GroupInv /\ ThreadInv /\ EntryInv /\ ReachedInv

-----------------------------------------------------------------------------
(* The graph layer. *)

(* A large group is not above the graph, so the level that a thread reads   *)
(* is that of the entry point it has read before.                           *)
LevelInv ==
    /\ RaisedBySmallGroups(levels)
    /\ group # -1 => team \subseteq {Master} \/ inserted = {} \/ Reached(group)
    /\ \A t \in Threads :
          /\ At(t, "lock") => /\ th[t].nearest \in inserted
                              /\ levels[th[t].nearest] = max_level
          /\ At(t, "raise_entry") => team \subseteq {Master}

(* the thread has linked its node at level l *)
Linked(t, l) ==
    \/ th[t].pc \in {"raise", "raise_entry"}
    \/ th[t].pc \in {"reverse", "write"} /\ th[t].level <= l
    \/ At(t, "search") /\ th[t].level < l

(* the nodes that a list of level l may hold *)
Ready(l) ==
    {m \in Nodes :
        /\ levels[m] >= l
        /\ m \in inserted \/ \E t \in Threads : Linked(t, l) /\ th[t].pt = m}

ListsInv ==
    /\ links = [n \in Nodes |-> [l \in 0 .. levels[n] |-> links[n][l]]]
    /\ locks = [n \in Nodes |-> locks[n]]
    /\ \A n \in Nodes : locks[n] \in Threads \cup {NoThread}
    /\ \A n \in Nodes : \A l \in 0 .. levels[n] :
          /\ links[n][l] \subseteq Ready(l)
          /\ links[n][l] # {} => n \in Ready(l)
          /\ Cardinality(links[n][l]) <= Cap[l]

(* the nodes that a thread is about to touch *)
Touched(t) ==
    IF At(t, "search") THEN th[t].seen
    ELSE IF At(t, "reverse") THEN th[t].todo
    ELSE IF At(t, "write") THEN th[t].todo \cup {th[t].other}
    ELSE {}

(* A thread works below the level of its nearest node and touches nodes of  *)
(* its level only; it holds the lock of the list it is about to write; the  *)
(* nodes it has not yet linked back have no link to its own, which has one  *)
(* to them unless its list was pruned.                                      *)
WorkInv(t) ==
    /\ th[t].pc \in {"descend"} \cup Linking =>
          /\ th[t].level \in Levels
          /\ th[t].nearest \in inserted
          /\ th[t].level <= levels[th[t].nearest]
          /\ th[t].level > PtLevel(t) <=> At(t, "descend")
    /\ th[t].pc \in Linking => Touched(t) \subseteq Ready(th[t].level)
    /\ th[t].pc \in {"descend", "search"} => locks[th[t].pt] = t
    /\ At(t, "write") =>
          /\ locks[th[t].other] = t
          /\ th[t].old = links[th[t].other][th[t].level]
          /\ th[t].other \notin th[t].todo
    /\ th[t].pc \in {"reverse", "write"} => \A n \in Touched(t) :
          /\ th[t].pt \notin links[n][th[t].level]
          /\ n \in links[th[t].pt][th[t].level] \/ <<th[t].pt, th[t].level>> \in pruned

(* the thread that inserts m has not yet linked n back to it *)
Pending(m, n, l) ==
    \E t \in Threads :
        /\ th[t].pc \in {"reverse", "write"}
        /\ th[t].pt = m
        /\ th[t].level = l
        /\ n \in Touched(t)

(* Every link is mutual, or was, or will be.                                *)
MutualInv ==
    \A m, n \in Nodes : \A l \in 0 .. levels[m] :
        n \in links[m][l] =>
            \/ m \in links[n][l]
            \/ <<n, l>> \in pruned
            \/ Pending(m, n, l)

(* what t still does when f is the only node of the graph *)
AboutToLink(t, f) ==
    /\ th[t].pc \notin {"raise", "raise_entry"}
    /\ At(t, "search") /\ th[t].level = 0 => th[t].seen \subseteq {f}
    /\ th[t].pc \in {"reverse", "write"} /\ th[t].level = 0 => f \in Touched(t)

(* A node without neighbours at level 0 is the only one so far, and all     *)
(* threads that are about to end have it before them.                       *)
ConnectedInv ==
    /\ \A t \in Threads : Linked(t, 0) => links[th[t].pt][0] # {}
    /\ \A f \in inserted : links[f][0] = {} =>
          /\ inserted = {f}
          /\ \A t \in Threads : AboutToLink(t, f)

GraphInv ==
    LevelInv /\ ListsInv /\ (\A t \in Threads : WorkInv(t)) /\ MutualInv /\ ConnectedInv

-----------------------------------------------------------------------------
(* Nodes, batches and levels. *)

(* A nonempty set of numbers has a least member. *)
LEMMA HasLeast ==
    ASSUME NEW T, T \subseteq Nat, T # {}
    PROVE  \E x \in T : \A y \in T : x <= y
<1> DEFINE R == {ss \in Nat \X Nat : ss[1] < ss[2]}
<1>1. IsWellFoundedOn(R, Nat)
  BY NatLessThanWellFounded DEF OpToRel
<1>2. \A x, y \in Nat : x < y => <<x, y>> \in R
  OBVIOUS
<1> HIDE DEF R
<1>3. PICK x \in T : \A y \in T : ~(<<y, x>> \in R)
  BY <1>1, WFMin
<1>4. \A y \in T : ~(y < x)
  BY <1>2, <1>3, Zenon
<1> QED
  BY <1>4

(* A nonempty set of levels has a highest member, which Top chooses. *)
LEMMA TopIsHighest ==
    ASSUME NEW S, S \subseteq Levels, S # {}
    PROVE  Top(S) \in S /\ \A k \in S : k <= Top(S)
<1>0. MaxLevel \in Nat /\ \A l \in S : l \in Nat /\ l <= MaxLevel
  BY BoundsAssumption DEF Levels
<1> DEFINE T == {MaxLevel - l : l \in S}
<1>1. T \subseteq Nat /\ T # {}
  BY <1>0
<1>2. PICK x \in T : \A y \in T : x <= y
  <2> HIDE DEF T
  <2> QED
    BY <1>1, HasLeast
<1>3. PICK l \in S : x = MaxLevel - l
  BY <1>2
<1>4. \A k \in S : k <= l
  BY <1>0, <1>2, <1>3
<1> QED
  BY <1>4 DEF Top

(* Batches are nonempty finite sets of numbers that share no node. *)
LEMMA BatchFacts ==
    /\ Len(Batches) \in Nat /\ DOMAIN Batches = 1 .. Len(Batches)
    /\ NoNode \notin Nodes /\ Nodes \subseteq Nat
    /\ \A b \in 1 .. Len(Batches) :
          Batches[b] # {} /\ Batches[b] \subseteq Nodes /\ IsFiniteSet(Batches[b])
    /\ \A b, c \in 1 .. Len(Batches) : \A n \in Batches[b] : n \in Batches[c] => b = c
<1>1. Len(Batches) \in Nat /\ DOMAIN Batches = 1 .. Len(Batches)
  BY BatchesAssumption
<1>2. \A b \in DOMAIN Batches : Batches[b] \subseteq Nodes /\ Batches[b] \subseteq Nat
  BY BatchesAssumption DEF Nodes
<1>3. Nodes \subseteq Nat
  BY <1>2 DEF Nodes
<1>4. NoNode \notin Nodes
  BY <1>3 DEF NoNode
<1>5. \A b, c \in DOMAIN Batches : \A n \in Batches[b] : n \in Batches[c] => b = c
  BY BatchesAssumption
<1> QED
  BY <1>1, <1>2, <1>3, <1>4, <1>5, BatchesAssumption

(* Levels can be compared. *)
LEMMA LevelsAreNumbers ==
    /\ Levels \subseteq Nat
    /\ TypeInv => \A n \in Nodes : levels[n] \in Levels /\ levels[n] \in Nat
<1>1. Levels \subseteq Nat
  BY BoundsAssumption DEF Levels
<1> QED
  BY <1>1 DEF TypeInv

(* The master thread of a parallel region exists. *)
LEMMA MasterIsThread == Master \in Threads
  BY ThreadsAssumption DEF Master

-----------------------------------------------------------------------------
(* The control layer is inductive. *)

(* Nothing has been added yet. *)
LEMMA InitControl == Init => ControlInv
<1> SUFFICES ASSUME Init PROVE ControlInv
  OBVIOUS
<1> USE BatchFacts, BoundsAssumption, ThreadsAssumption DEF Init
<1>1. TypeInv
  <2>1. levels \in [Nodes -> Levels]
    BY Zenon
  <2>2. \A t \in Threads : th[t] = Idle
    OBVIOUS
  <2>3. th = [t \in Threads |-> th[t]]
    OBVIOUS
  <2>4. max_level \in -1 .. MaxLevel /\ group \in -1 .. MaxLevel /\ batch \in 0 .. Len(Batches)
    OBVIOUS
  <2> QED
    BY <2>1, <2>2, <2>3, <2>4 DEF TypeInv, Idle, Active, At
<1>2. GroupInv /\ ThreadInv /\ ReachedInv
  BY DEF GroupInv, ThreadInv, ReachedInv, Idle, Active, At, InSection, Reached
<1>3. EntryInv
  BY DEF EntryInv, Idle, At, InSection
<1> QED
  BY <1>1, <1>2, <1>3 DEF ControlInv

(* A call begins with the top level of its batch. *)
LEMMA AddBatchStep ==
    ASSUME TypeInv, add_batch
    PROVE  /\ batch' = batch + 1 /\ batch' \in 1 .. Len(Batches)
           /\ group' \in Levels
           /\ waiting' = {n \in Batches[batch'] : levels[n] = group'}
           /\ team' = IF Cardinality(waiting') > Threshold THEN Threads ELSE {Master}
           /\ \E n \in Batches[batch'] : levels[n] = group'
           /\ \A n \in Batches[batch'] : levels[n] <= group'
<1> DEFINE b == batch + 1
           S == LevelOf(Batches[b])
<1>1. batch' = b /\ b \in 1 .. Len(Batches)
  BY BatchFacts DEF TypeInv, add_batch
<1>2. S \subseteq Levels /\ S # {}
  BY <1>1, BatchFacts DEF LevelOf, TypeInv
<1>3. StartGroup(b, Top(S))
  BY <1>1 DEF add_batch
<1>4. Top(S) \in S /\ \A k \in S : k <= Top(S)
  <2> HIDE DEF S
  <2> QED
    BY <1>2, TopIsHighest
<1>5. group' = Top(S) /\ waiting' = {n \in Batches[b] : levels[n] = group'}
      /\ team' = IF Cardinality(waiting') > Threshold THEN Threads ELSE {Master}
  BY <1>3 DEF StartGroup
<1> QED
  BY <1>1, <1>2, <1>4, <1>5 DEF LevelOf

(* A new call keeps the control invariant: its nodes are in no earlier batch. *)
LEMMA AddBatchControl ==
    ASSUME ControlInv, add_batch
    PROVE  ControlInv'
<1> USE DEF ControlInv
<1>0. /\ group = -1 /\ interrupt' = FALSE
      /\ UNCHANGED <<levels, hnsw, locks, critical, th, inserted>>
  BY DEF add_batch, StartGroup
<1>1. \A t \in Threads : ~Active(t)
  BY <1>0 DEF ThreadInv
<1>2. TypeInv'
  <2>1. group' \in -1 .. MaxLevel /\ batch' \in 0 .. Len(Batches)
    BY AddBatchStep, BatchFacts, BoundsAssumption DEF Levels
  <2>2. waiting' \subseteq Nodes
    BY AddBatchStep, BatchFacts
  <2> QED
    BY <1>0, <2>1, <2>2 DEF TypeInv, hnsw, Active, At
<1>3. GroupInv'
  <2>1. \A n \in inserted : \E c \in 1 .. batch : n \in Batches[c]
    BY DEF GroupInv
  <2>2. waiting' \cap inserted = {}
    BY <2>1, AddBatchStep, BatchFacts DEF TypeInv
  <2>3. \A n \in inserted : \E c \in 1 .. batch' : n \in Batches[c] /\ c # batch'
    BY <2>1, AddBatchStep DEF TypeInv
  <2>4. group' # -1 /\ batch' >= 1 /\ waiting' \subseteq GroupNodes'
        /\ \E n \in Batches[batch'] : levels'[n] >= group'
    BY <1>0, AddBatchStep, BoundsAssumption DEF Levels, GroupNodes
  <2> QED
    BY <1>0, <2>2, <2>3, <2>4 DEF GroupInv
<1>4. ThreadInv'
  BY <1>0, <1>1 DEF ThreadInv, Active, At
<1>5. EntryInv'
  BY <1>0 DEF EntryInv, hnsw, At, PtLevel
<1>6. ReachedInv'
  <2>1. \A c \in 1 .. batch : \A n \in Batches[c] : Reached(levels[n])
    BY <1>0 DEF ReachedInv
  <2>2. waiting' # {}
    BY AddBatchStep
  <2>3. \A n \in Batches[batch'] : ~(levels[n] > group')
    <3>1. \A n \in Batches[batch'] : levels[n] <= group' /\ levels[n] \in Nat
      BY AddBatchStep, BatchFacts, LevelsAreNumbers
    <3>2. group' \in Nat
      BY AddBatchStep, LevelsAreNumbers
    <3> QED
      BY <3>1, <3>2
  <2>4. group' # -1
    BY AddBatchStep, BoundsAssumption DEF Levels
  <2>5. \A c \in 1 .. batch' : c = batch' \/ c \in 1 .. batch
    BY AddBatchStep DEF TypeInv
  <2> QED
    BY <1>0, <2>1, <2>2, <2>3, <2>4, <2>5 DEF ReachedInv, Reached
<1> QED
  BY <1>2, <1>3, <1>4, <1>5, <1>6

(* A group that was left, interrupted or not, has a node in the graph.      *)
LEMMA GroupReached ==
    ASSUME ControlInv, next_group, NEW n \in Batches[batch], levels[n] >= group
    PROVE  Reached(levels[n])
<1>1. group # -1 /\ waiting = {} /\ (\A t \in Threads : ~Active(t)) /\ batch \in 1 .. batch
  BY DEF next_group, AllIdle, Active, ControlInv, GroupInv, TypeInv
<1>2. CASE levels[n] = group
  BY <1>1, <1>2 DEF ControlInv, ReachedInv
<1>3. CASE levels[n] > group
  BY <1>1, <1>3 DEF ControlInv, ReachedInv
<1>4. levels[n] \in Int /\ group \in Int
  BY BatchFacts, <1>1 DEF ControlInv, TypeInv, Levels
<1> QED
  BY <1>2, <1>3, <1>4

(* So does the next group, or the end of the call: all threads are idle. *)
LEMMA NextGroupControl ==
    ASSUME ControlInv, next_group
    PROVE  ControlInv'
<1> USE DEF ControlInv
<1>0. /\ group \in Levels /\ waiting = {} /\ batch \in 1 .. Len(Batches)
      /\ \A t \in Threads : ~Active(t)
      /\ UNCHANGED <<levels, hnsw, batch, locks, critical, th, inserted>>
  BY DEF next_group, AllIdle, Active, TypeInv, GroupInv, Levels
<1>1. \/ group' = -1 /\ UNCHANGED <<waiting, interrupt>> /\ (interrupt \/ group = 0)
      \/ StartGroup(batch, group - 1) /\ group # 0
  BY DEF next_group
<1>2. CASE group' = -1 /\ UNCHANGED <<waiting, interrupt>> /\ (interrupt \/ group = 0)
  <2>1. TypeInv'
    BY <1>0, <1>2, BoundsAssumption DEF TypeInv, hnsw, Active, At
  <2>2. GroupInv'
    BY <1>0, <1>2 DEF GroupInv
  <2>3. ThreadInv'
    BY <1>0, <1>2 DEF ThreadInv, Active, At
  <2>4. EntryInv'
    BY <1>0 DEF EntryInv, hnsw, At, PtLevel
  <2>5. ReachedInv'
    <3>1. SUFFICES ASSUME NEW c \in 1 .. batch, NEW n \in Batches[c]
                   PROVE  Reached(levels[n])
      BY <1>0, <1>2 DEF ReachedInv, Reached
    <3>2. CASE c < batch
      BY <3>2 DEF ReachedInv
    <3>3. CASE c = batch /\ levels[n] >= group
      BY <3>3, GroupReached
    <3>4. CASE c = batch /\ levels[n] < group
      <4>1. interrupt /\ Reached(group)
        BY <1>0, <1>2, <3>4, BatchFacts, BoundsAssumption DEF ReachedInv, TypeInv, Levels
      <4>2. PICK m \in inserted : levels[m] >= group
        BY <4>1 DEF Reached
      <4>3. levels[m] \in Nat /\ levels[n] \in Nat /\ group \in Nat
        BY <1>0, <3>4, <4>2, BatchFacts, LevelsAreNumbers DEF TypeInv
      <4> QED
        BY <3>4, <4>2, <4>3 DEF Reached
    <3>5. levels[n] \in Int /\ group \in Int /\ c \in Int /\ batch \in Int /\ c <= batch
      BY <1>0, BatchFacts DEF TypeInv, Levels
    <3> QED
      BY <3>2, <3>3, <3>4, <3>5
  <2> QED
    BY <2>1, <2>2, <2>3, <2>4, <2>5
<1>3. CASE StartGroup(batch, group - 1) /\ group # 0
  <2>0. /\ group' = group - 1 /\ group' # -1 /\ group' \in Levels
        /\ waiting' = {n \in Batches[batch] : levels[n] = group'}
        /\ interrupt' = FALSE
    BY <1>0, <1>3, BoundsAssumption DEF StartGroup, Levels
  <2>1. TypeInv'
    <3>1. group' \in -1 .. MaxLevel
      BY <2>0, BoundsAssumption DEF Levels
    <3>2. waiting' \subseteq Nodes
      BY <1>0, <2>0, BatchFacts
    <3>3. interrupt' \in BOOLEAN
      BY <2>0
    <3> QED
      BY <1>0, <3>1, <3>2, <3>3 DEF TypeInv, hnsw, Active, At
  <2>2. GroupInv'
    <3>1. PICK n \in Batches[batch] : levels[n] >= group
      BY <1>0, BoundsAssumption DEF GroupInv, Levels
    <3>2. levels[n] >= group'
      <4>1. levels[n] \in Nat /\ group \in Nat
        BY <1>0, <3>1, BatchFacts, LevelsAreNumbers
      <4> QED
        BY <2>0, <3>1, <4>1
    <3>3. \A m \in inserted : \E c \in 1 .. batch :
             m \in Batches[c] /\ (c = batch => levels[m] >= group)
      BY <1>0, BoundsAssumption DEF GroupInv, Levels
    <3>4. \A m \in inserted : \E c \in 1 .. batch :
             m \in Batches[c] /\ (c = batch => levels[m] > group')
      BY <1>0, <2>0, <3>3, BoundsAssumption DEF TypeInv, Levels
    <3>5. waiting' \cap inserted = {}
      <4>1. SUFFICES ASSUME NEW m \in waiting', m \in inserted PROVE FALSE
        OBVIOUS
      <4>2. PICK c \in 1 .. batch : m \in Batches[c] /\ (c = batch => levels[m] > group')
        BY <3>4, <4>1
      <4>3. m \in Batches[batch] /\ levels[m] = group'
        BY <2>0, <4>1
      <4>4. c = batch
        BY <1>0, <4>2, <4>3, BatchFacts
      <4> QED
        BY <2>0, <4>2, <4>3, <4>4, BoundsAssumption DEF Levels
    <3>6. \A m \in inserted : \E c \in 1 .. batch :
             m \in Batches[c] /\ (c = batch => levels[m] >= group')
      BY <1>0, <2>0, <3>4, BoundsAssumption DEF TypeInv, Levels
    <3>7. batch >= 1
      BY <1>0
    <3> QED
      BY <1>0, <2>0, <3>1, <3>2, <3>5, <3>6, <3>7 DEF GroupInv, GroupNodes
  <2>3. ThreadInv'
    BY <1>0 DEF ThreadInv, Active, At
  <2>4. EntryInv'
    BY <1>0 DEF EntryInv, hnsw, At, PtLevel
  <2>5. ReachedInv'
    <3>1. \A c \in 1 .. batch : \A n \in Batches[c] : c < batch => Reached(levels[n])
      BY DEF ReachedInv
    <3>2. \A n \in Batches[batch] : levels[n] > group' => levels[n] >= group
      <4>1. group \in Nat /\ \A n \in Batches[batch] : levels[n] \in Nat
        BY <1>0, BatchFacts, LevelsAreNumbers
      <4> QED
        BY <2>0, <4>1
    <3>3. \A n \in Batches[batch] : levels[n] > group' => Reached(levels[n])
      BY <3>2, GroupReached
    <3>4. \A c \in 1 .. batch : c < batch \/ c = batch
      BY <1>0
    <3>5. (\E n \in Batches[batch] : levels[n] = group') => waiting' # {}
      BY <2>0
    <3> QED
      BY <1>0, <2>0, <3>1, <3>3, <3>4, <3>5 DEF ReachedInv, Reached
  <2> QED
    BY <2>1, <2>2, <2>3, <2>4, <2>5
<1> QED
  BY <1>1, <1>2, <1>3

(* So does a thread that drops the rest of the group after an interrupt. *)
LEMMA SkipControl ==
    ASSUME ControlInv, NEW t \in Threads, skip(t)
    PROVE  ControlInv'
<1> USE DEF ControlInv
<1>0. /\ waiting # {} /\ interrupt /\ waiting' = {}
      /\ UNCHANGED <<levels, hnsw, batch, group, team, interrupt, locks, critical, th, inserted>>
  BY DEF skip
<1>1. group # -1
  BY <1>0 DEF GroupInv
<1>2. TypeInv'
  BY <1>0 DEF TypeInv, hnsw, Active, At
<1>3. GroupInv' /\ ThreadInv'
  BY <1>0 DEF GroupInv, ThreadInv, GroupNodes, Active, At
<1>4. EntryInv'
  BY <1>0 DEF EntryInv, hnsw, At, PtLevel
<1>5. ReachedInv'
  BY <1>0, <1>1 DEF ReachedInv, Reached
<1> QED
  BY <1>2, <1>3, <1>4, <1>5

(* What a thread does next concerns no other thread.                        *)
LEMMA GoesTo ==
    ASSUME th = [s \in Threads |-> th[s]], NEW t \in Threads, NEW r, Goes(t, r)
    PROVE  /\ th' = [s \in Threads |-> th'[s]]
           /\ th'[t] = r
           /\ \A s \in Threads : s # t => th'[s] = th[s]
  BY DEF Goes

(* What a thread goes on with after a look at the entry point. *)
LEMMA ReadsFields ==
    ASSUME NEW t, NEW pt
    PROVE  /\ Reads(t, pt).pt = pt
           /\ entry_point = NoNode => Reads(t, pt).pc = "first"
           /\ entry_point # NoNode => /\ Reads(t, pt).pc = "lock"
                                      /\ Reads(t, pt).nearest = entry_point
  BY DEF Reads

(* A step of t between the look at the entry point and the last lock. *)
MiddleStep(t) ==
    /\ th[t].pc \in Middle
    /\ th'[t].pc \in (Middle \ {"lock"}) \cup {"raise"}
    /\ th'[t].pt = th[t].pt
    /\ \A s \in Threads : s # t => th'[s] = th[s]
    /\ th' = [s \in Threads |-> th'[s]]
    /\ UNCHANGED <<levels, max_level, entry_point, control, critical, inserted>>

Work(t) ==
    \/ lock_own(t) \/ descend(t) \/ visit(t) \/ link(t)
    \/ lock_other(t) \/ link_back(t) \/ relock(t)

(* What a thread goes on with at level l from node n. *)
LEMMA FromFields ==
    ASSUME NEW t, NEW n, NEW l
    PROVE  /\ From(t, n, l).pt = th[t].pt
           /\ From(t, n, l).nearest = n
           /\ From(t, n, l).level = l
           /\ l <= PtLevel(t) => From(t, n, l).pc = "search" /\ From(t, n, l).seen = {n}
           /\ ~(l <= PtLevel(t)) => From(t, n, l).pc = "descend"
  BY DEF From, Search

(* All steps between the first look and the last lock are middle steps. *)
LEMMA WorkIsMiddle ==
    ASSUME TypeInv, NEW t \in Threads, Work(t)
    PROVE  MiddleStep(t)
<1>0. th = [s \in Threads |-> th[s]]
  BY DEF TypeInv
<1> USE DEF At, Middle
<1>1. CASE lock_own(t)
  <2> DEFINE r == From(t, th[t].nearest, max_level)
  <2>1. Goes(t, r) /\ th[t].pc = "lock"
        /\ UNCHANGED <<levels, max_level, entry_point, control, critical, inserted>>
    BY <1>1 DEF lock_own, hnsw
  <2>2. r.pt = th[t].pt /\ r.pc \in {"search", "descend"}
    BY FromFields
  <2> HIDE DEF r
  <2> QED
    BY <1>0, <2>1, <2>2, GoesTo DEF MiddleStep
<1>2. CASE descend(t)
  <2>1. PICK n : Goes(t, From(t, n, th[t].level - 1))
    BY <1>2 DEF descend
  <2> DEFINE r == From(t, n, th[t].level - 1)
  <2>2. r.pt = th[t].pt /\ r.pc \in {"search", "descend"}
    BY FromFields
  <2>3. Goes(t, r) /\ th[t].pc = "descend"
        /\ UNCHANGED <<levels, max_level, entry_point, control, critical, inserted>>
    BY <1>2, <2>1 DEF descend, hnsw
  <2> HIDE DEF r
  <2> QED
    BY <1>0, <2>2, <2>3, GoesTo DEF MiddleStep
<1>3. CASE visit(t)
  <2>1. PICK n : Goes(t, Search(t, th[t].nearest, th[t].level, th[t].seen \cup {n}))
    BY <1>3 DEF visit
  <2> DEFINE r == Search(t, th[t].nearest, th[t].level, th[t].seen \cup {n})
  <2>2. r.pt = th[t].pt /\ r.pc = "search"
    BY DEF Search
  <2>3. Goes(t, r) /\ th[t].pc = "search"
        /\ UNCHANGED <<levels, max_level, entry_point, control, critical, inserted>>
    BY <1>3, <2>1 DEF visit, hnsw
  <2> HIDE DEF r
  <2> QED
    BY <1>0, <2>2, <2>3, GoesTo DEF MiddleStep
<1>4. CASE link(t)
  <2>1. PICK targets : Goes(t, [pc |-> "reverse", pt |-> th[t].pt, nearest |-> th[t].nearest,
                                level |-> th[t].level, todo |-> targets])
    BY <1>4 DEF link
  <2> DEFINE r == [pc |-> "reverse", pt |-> th[t].pt, nearest |-> th[t].nearest,
                   level |-> th[t].level, todo |-> targets]
  <2>2. r.pt = th[t].pt /\ r.pc = "reverse"
    OBVIOUS
  <2>3. Goes(t, r) /\ th[t].pc = "search"
        /\ UNCHANGED <<levels, max_level, entry_point, control, critical, inserted>>
    BY <1>4, <2>1 DEF link
  <2> HIDE DEF r
  <2> QED
    BY <1>0, <2>2, <2>3, GoesTo DEF MiddleStep
<1>5. CASE lock_other(t)
  <2>1. PICK n : Goes(t, [pc |-> "write", pt |-> th[t].pt, nearest |-> th[t].nearest,
                      level |-> th[t].level, todo |-> th[t].todo \ {n},
                      other |-> n, old |-> links[n][th[t].level]])
    BY <1>5 DEF lock_other
  <2> DEFINE r == [pc |-> "write", pt |-> th[t].pt, nearest |-> th[t].nearest,
                   level |-> th[t].level, todo |-> th[t].todo \ {n},
                   other |-> n, old |-> links[n][th[t].level]]
  <2>2. r.pt = th[t].pt /\ r.pc = "write"
    OBVIOUS
  <2>3. Goes(t, r) /\ th[t].pc = "reverse"
        /\ UNCHANGED <<levels, max_level, entry_point, control, critical, inserted>>
    BY <1>5, <2>1 DEF lock_other, hnsw
  <2> HIDE DEF r
  <2> QED
    BY <1>0, <2>2, <2>3, GoesTo DEF MiddleStep
<1>6. CASE link_back(t)
  <2> DEFINE r == [pc |-> "reverse", pt |-> th[t].pt, nearest |-> th[t].nearest,
                   level |-> th[t].level, todo |-> th[t].todo]
  <2>2. r.pt = th[t].pt /\ r.pc = "reverse"
    OBVIOUS
  <2>3. Goes(t, r) /\ th[t].pc = "write"
        /\ UNCHANGED <<levels, max_level, entry_point, control, critical, inserted>>
    BY <1>6 DEF link_back
  <2> HIDE DEF r
  <2> QED
    BY <1>0, <2>2, <2>3, GoesTo DEF MiddleStep
<1>7. CASE relock(t)
  <2> DEFINE r == IF th[t].level > 0
                  THEN Search(t, NextNearest(t), th[t].level - 1, {NextNearest(t)})
                  ELSE [pc |-> "raise", pt |-> th[t].pt]
  <2>2. r.pt = th[t].pt /\ r.pc \in {"search", "raise"}
    BY DEF Search
  <2>3. Goes(t, r) /\ th[t].pc = "reverse"
        /\ UNCHANGED <<levels, max_level, entry_point, control, critical, inserted>>
    BY <1>7 DEF relock, hnsw
  <2> HIDE DEF r
  <2> QED
    BY <1>0, <2>2, <2>3, GoesTo DEF MiddleStep
<1> QED
  BY <1>1, <1>2, <1>3, <1>4, <1>5, <1>6, <1>7 DEF Work

(* Middle steps keep the control invariant. *)
LEMMA MiddleControl ==
    ASSUME ControlInv, NEW t \in Threads, MiddleStep(t)
    PROVE  ControlInv'
<1> USE DEF ControlInv
<1>0. UNCHANGED <<levels, max_level, entry_point, batch, group, waiting, team, interrupt,
                  critical, inserted>>
  BY DEF MiddleStep, control
<1>1. \A s \in Threads : /\ Active(s)' <=> Active(s)
                         /\ Active(s) => th'[s].pt = th[s].pt
                         /\ th'[s].pc \in InSection <=> th[s].pc \in InSection
  BY DEF MiddleStep, Active, At, Middle, InSection
<1>2. TypeInv'
  BY <1>0, <1>1 DEF TypeInv, MiddleStep, Active, At, Middle
<1>3. GroupInv'
  BY <1>0 DEF GroupInv, GroupNodes
<1>4. ThreadInv'
  BY <1>0, <1>1 DEF ThreadInv, GroupNodes
<1>5. EntryInv'
  <2>1. entry_point # NoNode
    BY DEF EntryInv, MiddleStep, Middle
  <2>2. \A s \in Threads : th'[s].pc \in InSection => th'[s] = th[s]
    BY DEF MiddleStep, Middle, InSection
  <2> QED
    BY <1>0, <2>1, <2>2 DEF EntryInv, InSection, At, PtLevel
<1>6. ReachedInv'
  BY <1>0, <1>1 DEF ReachedInv, Reached
<1> QED
  BY <1>2, <1>3, <1>4, <1>5, <1>6

(* A thread takes a node and looks at the entry point.                      *)
LEMMA BeginStep ==
    ASSUME TypeInv, NEW t \in Threads, begin(t)
    PROVE  /\ t \in team /\ At(t, "idle") /\ ~interrupt
           /\ th'[t].pt \in waiting
           /\ waiting' = waiting \ {th'[t].pt}
           /\ entry_point = NoNode => th'[t].pc = "first"
           /\ entry_point # NoNode => th'[t].pc = "lock" /\ th'[t].nearest = entry_point
           /\ \A s \in Threads : s # t => th'[s] = th[s]
           /\ th' = [s \in Threads |-> th'[s]]
           /\ UNCHANGED <<levels, links, max_level, entry_point, pruned, batch, group, team,
                          interrupt, locks, critical, inserted>>
<1>1. PICK pt \in waiting : waiting' = waiting \ {pt} /\ Goes(t, Reads(t, pt))
  BY DEF begin
<1>2. th' = [s \in Threads |-> th'[s]] /\ th'[t] = Reads(t, pt)
      /\ \A s \in Threads : s # t => th'[s] = th[s]
  BY <1>1, GoesTo DEF TypeInv
<1> QED
  BY <1>1, <1>2, ReadsFields DEF begin, hnsw

(* A thread that takes a node of the group keeps it. *)
LEMMA BeginControl ==
    ASSUME ControlInv, NEW t \in Threads, begin(t)
    PROVE  ControlInv'
<1> USE DEF ControlInv
<1>0. /\ UNCHANGED <<levels, max_level, entry_point, batch, group, team, interrupt,
                     critical, inserted>>
      /\ th'[t].pc \in {"first", "lock"} /\ th'[t].pt \in waiting
  BY BeginStep
<1>1. group # -1
  BY <1>0 DEF GroupInv
<1>2. TypeInv'
  BY <1>0, BeginStep DEF TypeInv, Active, At, Middle, InSection
<1>3. GroupInv'
  BY <1>0, BeginStep DEF GroupInv, GroupNodes
<1>4. ThreadInv'
  <2>1. th'[t].pt \in GroupNodes' /\ th'[t].pt \notin waiting' /\ th'[t].pt \notin inserted'
    BY <1>0, <1>1, BeginStep DEF GroupInv, GroupNodes
  <2>2. \A s \in Threads : Active(s) => th[s].pt # th'[t].pt
    BY <1>0 DEF ThreadInv
  <2>3. critical' # t
    BY <1>0, BeginStep DEF ThreadInv, At, InSection
  <2>4. th'[t].pc \notin InSection
    BY <1>0 DEF InSection
  <2> QED
    BY <1>0, <1>1, <2>1, <2>2, <2>3, <2>4, BeginStep DEF ThreadInv, GroupNodes, Active, At
<1>5. EntryInv'
  BY <1>0, BeginStep DEF EntryInv, At, PtLevel, InSection
<1>6. ReachedInv'
  <2>1. Active(t)'
    BY <1>0 DEF Active, At
  <2> QED
    BY <1>0, <2>1 DEF ReachedInv, Reached
<1> QED
  BY <1>2, <1>3, <1>4, <1>5, <1>6

(* The first node: only one thread finds that there is no entry point.      *)
LEMMA FirstStep ==
    ASSUME TypeInv, NEW t \in Threads, first(t)
    PROVE  /\ At(t, "first") /\ critical = NoThread
           /\ th'[t].pt = th[t].pt
           /\ entry_point = NoNode =>
                 th'[t].pc = "first_entry" /\ critical' = t /\ max_level' = PtLevel(t)
           /\ entry_point # NoNode =>
                 /\ th'[t].pc = "lock" /\ th'[t].nearest = entry_point
                 /\ UNCHANGED <<critical, max_level>>
           /\ \A s \in Threads : s # t => th'[s] = th[s]
           /\ th' = [s \in Threads |-> th'[s]]
           /\ UNCHANGED <<levels, links, entry_point, pruned, batch, group, waiting, team,
                          interrupt, locks, inserted>>
<1>0. th = [s \in Threads |-> th[s]]
  BY DEF TypeInv
<1>1. CASE entry_point = NoNode
  <2>1. Goes(t, [pc |-> "first_entry", pt |-> th[t].pt]) /\ critical' = t /\ max_level' = PtLevel(t)
    BY <1>1 DEF first, IsFirst
  <2>2. th' = [s \in Threads |-> th'[s]] /\ th'[t] = [pc |-> "first_entry", pt |-> th[t].pt]
        /\ \A s \in Threads : s # t => th'[s] = th[s]
    BY <1>0, <2>1, GoesTo
  <2> QED
    BY <1>1, <2>1, <2>2 DEF first, control
<1>2. CASE entry_point # NoNode
  <2>1. Goes(t, Reads(t, th[t].pt)) /\ UNCHANGED <<critical, max_level>>
    BY <1>2 DEF first, IsFirst
  <2>2. th' = [s \in Threads |-> th'[s]] /\ th'[t] = Reads(t, th[t].pt)
        /\ \A s \in Threads : s # t => th'[s] = th[s]
    BY <1>0, <2>1, GoesTo
  <2> QED
    BY <1>2, <2>1, <2>2, ReadsFields DEF first, control
<1> QED
  BY <1>1, <1>2

(* The critical section for the first node keeps it, for either outcome. *)
LEMMA FirstControl ==
    ASSUME ControlInv, NEW t \in Threads, first(t)
    PROVE  ControlInv'
<1> USE DEF ControlInv
<1>0. /\ UNCHANGED <<levels, entry_point, batch, group, waiting, team, interrupt, inserted>>
      /\ th[t].pc = "first" /\ th'[t].pt = th[t].pt /\ critical = NoThread
      /\ th'[t].pc \in {"first_entry", "lock"}
      /\ \A s \in Threads : s # t => th'[s] = th[s]
  BY FirstStep DEF At
<1>1. \A s \in Threads : /\ Active(s)' <=> Active(s)
                         /\ Active(s) => th'[s].pt = th[s].pt
  BY <1>0 DEF Active, At
<1>2. TypeInv'
  <2>1. max_level' \in -1 .. MaxLevel
    <3>1. PtLevel(t) \in -1 .. MaxLevel
      BY <1>0, BoundsAssumption DEF PtLevel, TypeInv, Active, At, Levels
    <3> QED
      BY <3>1, FirstStep DEF TypeInv
  <2>2. critical' \in Threads \cup {NoThread}
    BY FirstStep DEF TypeInv
  <2> QED
    BY <1>0, <1>1, <2>1, <2>2, FirstStep DEF TypeInv, Active, At, Middle, InSection
<1>3. GroupInv'
  BY <1>0 DEF GroupInv, GroupNodes
<1>4. ThreadInv'
  <2>1. \A s \in Threads : critical' = s <=> th'[s].pc \in InSection
    BY <1>0, FirstStep, ThreadsAssumption DEF ThreadInv, InSection
  <2> QED
    BY <1>0, <1>1, <2>1 DEF ThreadInv, GroupNodes
<1>5. EntryInv'
  <2>1. \A s \in Threads : th[s].pc \notin InSection
    BY <1>0, ThreadsAssumption DEF ThreadInv
  <2>2. CASE entry_point = NoNode
    <3>1. critical' # NoThread
      BY <2>2, FirstStep, ThreadsAssumption
    <3>2. \A s \in Threads : th'[s].pc \in InSection => max_level' = PtLevel(s)'
      BY <1>0, <2>1, <2>2, FirstStep DEF PtLevel
    <3>3. \A n \in inserted : FALSE
      BY <2>2 DEF EntryInv
    <3> QED
      BY <1>0, <2>2, <3>1, <3>2, <3>3, FirstStep DEF EntryInv, At
  <2>3. CASE entry_point # NoNode
    BY <1>0, <2>1, <2>3, FirstStep DEF EntryInv, At, PtLevel, InSection
  <2> QED
    BY <2>2, <2>3
<1>6. ReachedInv'
  BY <1>0, <1>1 DEF ReachedInv, Reached
<1> QED
  BY <1>2, <1>3, <1>4, <1>5, <1>6

(* An insertion ends.                                                       *)
EndStep(t) ==
    /\ th[t].pc \in {"first_entry", "raise", "raise_entry"}
    /\ th'[t].pc = "idle"
    /\ \A s \in Threads : s # t => th'[s] = th[s]
    /\ th' = [s \in Threads |-> th'[s]]
    /\ inserted' = inserted \cup {th[t].pt}
    /\ interrupt' \in BOOLEAN
    /\ UNCHANGED <<levels, links, max_level, pruned, batch, group, waiting, team, locks>>

(* The thread is idle and its node is in the graph. *)
LEMMA EndFacts ==
    ASSUME TypeInv, NEW t \in Threads, End(t)
    PROVE  /\ th'[t].pc = "idle"
           /\ \A s \in Threads : s # t => th'[s] = th[s]
           /\ th' = [s \in Threads |-> th'[s]]
           /\ inserted' = inserted \cup {th[t].pt}
           /\ interrupt' \in BOOLEAN
<1>1. Goes(t, Idle) /\ Idle.pc = "idle" /\ th = [s \in Threads |-> th[s]]
  BY DEF End, Idle, TypeInv
<1>2. interrupt' \in BOOLEAN
  BY ChoicesAssumption DEF End, TypeInv
<1>3. th' = [s \in Threads |-> th'[s]] /\ th'[t] = Idle
      /\ \A s \in Threads : s # t => th'[s] = th[s]
  BY <1>1, GoesTo
<1> QED
  BY <1>1, <1>2, <1>3 DEF End

(* The three ways in which an insertion ends.                               *)
LEMMA EndSteps ==
    ASSUME TypeInv, NEW t \in Threads
    PROVE  /\ first_entry(t) \/ raise_entry(t) => /\ EndStep(t)
                                                  /\ th[t].pc \in InSection
                                                  /\ entry_point' = th[t].pt
                                                  /\ critical' = NoThread
           /\ raise(t) /\ ~Raises(t) => /\ EndStep(t)
                                        /\ At(t, "raise")
                                        /\ critical = NoThread
                                        /\ PtLevel(t) <= max_level
                                        /\ UNCHANGED <<entry_point, critical>>
<1>1. ASSUME first_entry(t) PROVE EndStep(t)
  BY <1>1, EndFacts DEF first_entry, EndStep, At
<1>2. ASSUME raise_entry(t) PROVE EndStep(t)
  BY <1>2, EndFacts DEF raise_entry, EndStep, At
<1>3. ASSUME raise(t), ~Raises(t)
      PROVE  EndStep(t) /\ At(t, "raise") /\ critical = NoThread /\ PtLevel(t) <= max_level
             /\ UNCHANGED <<entry_point, critical>>
  <2>1. End(t) /\ UNCHANGED <<critical, max_level>>
    BY <1>3 DEF raise
  <2>2. PtLevel(t) <= max_level
    BY <1>3, BoundsAssumption DEF Raises, PtLevel, TypeInv, raise, Active, At, Levels
  <2> QED
    BY <1>3, <2>1, <2>2, EndFacts DEF raise, EndStep, At
<1> QED
  BY <1>1, <1>2, <1>3 DEF first_entry, raise_entry, At, InSection

(* What follows from the end of an insertion whatever its section does.     *)
LEMMA EndControl ==
    ASSUME ControlInv, NEW t \in Threads, EndStep(t)
    PROVE  /\ GroupInv' /\ ReachedInv'
           /\ \A n \in inserted' : n \in inserted \/ n = th[t].pt
           /\ th[t].pt \in Nodes /\ PtLevel(t) = group /\ group # -1
<1> USE DEF ControlInv
<1>0. /\ UNCHANGED <<levels, batch, group, waiting>>
      /\ inserted' = inserted \cup {th[t].pt}
      /\ Active(t)
  BY DEF EndStep, Active, At
<1>1. /\ group # -1 /\ th[t].pt \in Nodes /\ PtLevel(t) = group
      /\ th[t].pt \in Batches[batch] /\ th[t].pt \notin waiting
  BY <1>0 DEF ThreadInv, TypeInv, GroupNodes, PtLevel
<1>2. batch \in 1 .. batch
  BY <1>1 DEF GroupInv, TypeInv
<1>3. group \in Int
  BY DEF TypeInv
<1>4. GroupInv'
  <2>1. \A n \in inserted' : \E c \in 1 .. batch : n \in Batches[c] /\ (c = batch => levels[n] >= group)
    BY <1>0, <1>1, <1>2, <1>3 DEF GroupInv, PtLevel
  <2> QED
    BY <1>0, <1>1, <2>1 DEF GroupInv, GroupNodes
<1>5. ReachedInv'
  <2>1. \A l : Reached(l) => Reached(l)'
    BY <1>0 DEF Reached
  <2>2. Reached(group)'
    BY <1>0, <1>1, <1>3 DEF Reached, PtLevel
  <2> QED
    BY <1>0, <2>1, <2>2 DEF ReachedInv
<1> QED
  BY <1>0, <1>1, <1>4, <1>5

(* The second assignment of a critical section keeps it. *)
LEMMA EntryControl ==
    ASSUME ControlInv, NEW t \in Threads, first_entry(t) \/ raise_entry(t)
    PROVE  ControlInv'
<1> USE DEF ControlInv
<1>0. /\ EndStep(t) /\ th[t].pc \in InSection /\ entry_point' = th[t].pt
      /\ critical' = NoThread /\ critical = t
  BY EndSteps DEF ThreadInv
<1>1. /\ UNCHANGED <<levels, max_level, batch, group, waiting, team>>
      /\ inserted' = inserted \cup {th[t].pt} /\ interrupt' \in BOOLEAN
      /\ th'[t].pc = "idle" /\ (\A s \in Threads : s # t => th'[s] = th[s])
      /\ th' = [s \in Threads |-> th'[s]]
  BY <1>0 DEF EndStep
<1>2. GroupInv' /\ ReachedInv' /\ th[t].pt \in Nodes
  BY <1>0, EndControl
<1>3. TypeInv'
  BY <1>0, <1>1, <1>2 DEF TypeInv, Active, At
<1>4. \A s \in Threads : s # t => th[s].pc \notin InSection
  BY <1>0 DEF ThreadInv
<1>5. ThreadInv'
  <2>1. \A s \in Threads : Active(s)' => Active(s) /\ s # t /\ th'[s].pt = th[s].pt
    BY <1>1 DEF Active, At
  <2>2. \A s \in Threads : Active(s)' => th[s].pt # th[t].pt
    BY <1>0, <2>1 DEF ThreadInv, Active, At, InSection
  <2>3. \A s \in Threads : critical' = s <=> th'[s].pc \in InSection
    BY <1>0, <1>1, <1>4, ThreadsAssumption DEF InSection
  <2> QED
    BY <1>1, <2>1, <2>2, <2>3 DEF ThreadInv, GroupNodes
<1>6. EntryInv'
  <2>1. max_level = PtLevel(t)
    BY <1>0 DEF EntryInv
  <2>2. entry_point' # NoNode /\ inserted' # {} /\ entry_point' \in inserted'
    BY <1>0, <1>1, <1>2, BatchFacts
  <2>3. \A s \in Threads : th'[s].pc \notin InSection
    BY <1>1, <1>4 DEF InSection
  <2>4. max_level' = levels'[entry_point']
    BY <1>0, <1>1, <2>1 DEF PtLevel
  <2>5. \A n \in inserted' : levels'[n] <= max_level'
    BY <1>1, <2>1 DEF EntryInv, PtLevel, TypeInv
  <2> QED
    BY <2>2, <2>3, <2>4, <2>5 DEF EntryInv, At, InSection
<1> QED
  BY <1>2, <1>3, <1>5, <1>6

(* The critical section at the end keeps it, whether the level is raised or not. *)
LEMMA RaiseControl ==
    ASSUME ControlInv, NEW t \in Threads, raise(t)
    PROVE  ControlInv'
<1> USE DEF ControlInv
<1>0. At(t, "raise") /\ critical = NoThread /\ Active(t) /\ entry_point # NoNode
  BY DEF raise, At, Active, EntryInv
<1>1. CASE ~Raises(t)
  <2>0. /\ EndStep(t) /\ UNCHANGED <<entry_point, critical>> /\ PtLevel(t) <= max_level
    BY <1>1, EndSteps
  <2>1. /\ UNCHANGED <<levels, max_level, batch, group, waiting, team>>
        /\ inserted' = inserted \cup {th[t].pt} /\ interrupt' \in BOOLEAN
        /\ th'[t].pc = "idle" /\ (\A s \in Threads : s # t => th'[s] = th[s])
        /\ th' = [s \in Threads |-> th'[s]]
    BY <2>0 DEF EndStep
  <2>2. GroupInv' /\ ReachedInv' /\ th[t].pt \in Nodes
    BY <2>0, EndControl
  <2>3. TypeInv'
    BY <2>0, <2>1, <2>2 DEF TypeInv, Active, At
  <2>4. ThreadInv'
    <3>1. \A s \in Threads : Active(s)' => Active(s) /\ s # t /\ th'[s].pt = th[s].pt
      BY <2>1 DEF Active, At
    <3>2. \A s \in Threads : Active(s)' => th[s].pt # th[t].pt
      BY <1>0, <3>1 DEF ThreadInv
    <3>3. \A s \in Threads : critical' = s <=> th'[s].pc \in InSection
      BY <1>0, <2>0, <2>1, ThreadsAssumption DEF ThreadInv, InSection
    <3> QED
      BY <2>1, <3>1, <3>2, <3>3 DEF ThreadInv, GroupNodes
  <2>5. EntryInv'
    <3>1. \A n \in inserted' : levels'[n] <= max_level'
      BY <2>0, <2>1 DEF EntryInv, PtLevel
    <3> QED
      BY <1>0, <2>0, <2>1, <3>1 DEF EntryInv, At, PtLevel, InSection
  <2> QED
    BY <2>2, <2>3, <2>4, <2>5
<1>2. CASE Raises(t)
  <2>0. /\ Goes(t, [pc |-> "raise_entry", pt |-> th[t].pt]) /\ critical' = t
        /\ max_level' = PtLevel(t)
        /\ UNCHANGED <<levels, entry_point, batch, group, waiting, team, interrupt, inserted>>
    BY <1>2 DEF raise
  <2>1. /\ th' = [s \in Threads |-> th'[s]] /\ th'[t] = [pc |-> "raise_entry", pt |-> th[t].pt]
        /\ \A s \in Threads : s # t => th'[s] = th[s]
    BY <2>0, GoesTo DEF TypeInv
  <2>2. th'[t].pc = "raise_entry" /\ th'[t].pt = th[t].pt
    BY <2>1
  <2>3. \A s \in Threads : (Active(s)' <=> Active(s)) /\ th'[s].pt = th[s].pt
    BY <1>0, <2>1, <2>2 DEF Active, At
  <2>4. TypeInv'
    <3>1. max_level' \in -1 .. MaxLevel
      BY <1>0, <2>0, BoundsAssumption DEF PtLevel, TypeInv, Levels
    <3> QED
      BY <2>0, <2>1, <2>2, <2>3, <3>1 DEF TypeInv, InSection
  <2>5. GroupInv' /\ ReachedInv'
    BY <2>0, <2>3 DEF GroupInv, ReachedInv, GroupNodes, Reached
  <2>6. ThreadInv'
    <3>1. \A s \in Threads : critical' = s <=> th'[s].pc \in InSection
      BY <1>0, <2>0, <2>1, <2>2, ThreadsAssumption DEF ThreadInv, InSection
    <3> QED
      BY <2>0, <2>3, <3>1 DEF ThreadInv, GroupNodes
  <2>7. EntryInv'
    <3>1. \A n \in inserted : levels[n] <= PtLevel(t)
      <4>1. max_level \in Int /\ PtLevel(t) \in Int /\ PtLevel(t) > max_level
        BY <1>0, <1>2, BoundsAssumption DEF Raises, PtLevel, TypeInv, Levels
      <4>2. \A n \in inserted : levels[n] \in Int /\ levels[n] <= max_level
        BY BoundsAssumption DEF EntryInv, TypeInv, Levels
      <4> QED
        BY <4>1, <4>2
    <3>2. \A s \in Threads : th[s].pc \notin InSection
      BY <1>0, ThreadsAssumption DEF ThreadInv
    <3>3. \A s \in Threads : th'[s].pc \in InSection => max_level' = PtLevel(s)'
      BY <2>0, <2>1, <2>2, <3>2 DEF PtLevel
    <3>4. critical' # NoThread
      BY <2>0, ThreadsAssumption
    <3> QED
      BY <1>0, <2>0, <2>1, <2>2, <3>1, <3>3, <3>4 DEF EntryInv, At
  <2> QED
    BY <2>4, <2>5, <2>6, <2>7
<1> QED
  BY <1>1, <1>2

(* Every step keeps the control invariant. *)
LEMMA ControlStep ==
    ASSUME ControlInv, [Next]_vars
    PROVE  ControlInv'
<1>1. CASE add_batch
  BY <1>1, AddBatchControl
<1>2. CASE next_group
  BY <1>2, NextGroupControl
<1>3. ASSUME NEW t \in Threads, add_with_locks(t) PROVE ControlInv'
  <2>1. CASE begin(t)
    BY <2>1, BeginControl
  <2>2. CASE skip(t)
    BY <2>2, SkipControl
  <2>3. CASE first(t)
    BY <2>3, FirstControl
  <2>4. CASE first_entry(t) \/ raise_entry(t)
    BY <2>4, EntryControl
  <2>5. CASE Work(t)
    BY <2>5, WorkIsMiddle, MiddleControl DEF ControlInv
  <2>6. CASE raise(t)
    BY <2>6, RaiseControl
  <2> QED
    BY <1>3, <2>1, <2>2, <2>3, <2>4, <2>5, <2>6 DEF add_with_locks, Work
<1>4. CASE UNCHANGED vars
  <2> USE <1>4 DEF vars, hnsw, control, ControlInv
  <2>1. TypeInv' /\ GroupInv'
    BY DEF TypeInv, GroupInv, GroupNodes, Active, At
  <2>2. ThreadInv' /\ EntryInv'
    BY DEF ThreadInv, EntryInv, GroupNodes, Active, At, PtLevel
  <2>3. ReachedInv'
    BY DEF ReachedInv, Reached, Active, At
  <2> QED
    BY <2>1, <2>2, <2>3
<1> QED
  BY <1>1, <1>2, <1>3, <1>4 DEF Next

(* The calls, their groups and the two critical sections keep the control   *)
(* part of the invariant, whatever a thread finds in the lists.             *)
THEOREM ControlInvariant == Spec => []ControlInv
<1>1. Init => ControlInv
  BY InitControl
<1>2. ControlInv /\ [Next]_vars => ControlInv'
  BY ControlStep
<1> QED
  BY <1>1, <1>2, PTL DEF Spec

(* Between two calls the entry point is an inserted node, of the maximum    *)
(* level, and no inserted node is higher: the race for the first node and   *)
(* the two assignments of a critical section lose no update, and an         *)
(* interrupted call leaves the pair consistent.                             *)
THEOREM EntryPointCorrect == Spec => []EntryPointIsTop
<1>1. ControlInv => EntryPointIsTop
  <2>1. SUFFICES ASSUME ControlInv, group = -1, inserted # {}
                 PROVE  /\ entry_point \in inserted /\ max_level = levels[entry_point]
                        /\ max_level = Top(LevelOf(inserted))
    BY DEF EntryPointIsTop
  <2> USE <2>1 DEF ControlInv
  <2>2. entry_point \in inserted /\ entry_point # NoNode
    BY DEF EntryInv
  <2>3. critical = NoThread
    BY DEF ThreadInv, TypeInv, Active, At, InSection
  <2>4. max_level = levels[entry_point]
    BY <2>2, <2>3 DEF EntryInv
  <2> DEFINE S == LevelOf(inserted)
  <2>5. S \subseteq Levels /\ S # {} /\ max_level \in S
    BY <2>2, <2>4 DEF LevelOf, TypeInv
  <2>6. \A l \in S : l <= max_level
    BY DEF LevelOf, EntryInv
  <2>7. max_level = Top(S)
    <3> HIDE DEF S
    <3>1. Top(S) \in S /\ \A k \in S : k <= Top(S)
      BY <2>5, TopIsHighest
    <3>2. Top(S) <= max_level /\ max_level <= Top(S)
      BY <2>5, <2>6, <3>1
    <3>3. Top(S) \in Int /\ max_level \in Int
      <4>1. Levels \subseteq Int
        BY BoundsAssumption DEF Levels
      <4> QED
        BY <2>5, <3>1, <4>1
    <3> QED
      BY <3>2, <3>3
  <2> QED
    BY <2>2, <2>4, <2>7
<1> QED
  BY <1>1, ControlInvariant, PTL

-----------------------------------------------------------------------------
(* The levels: a large group does not raise the maximum level. *)

(* A group that is large and the top of a later batch has an older node at  *)
(* its level or above.                                                      *)
LEMMA LargeGroupIsBelow ==
    ASSUME TypeInv, RaisedBySmallGroups(levels),
           NEW b \in 2 .. Len(Batches), NEW l \in Levels,
           \E n \in Batches[b] : levels[n] = l,
           \A n \in Batches[b] : levels[n] <= l,
           Cardinality({n \in Batches[b] : levels[n] = l}) > Threshold
    PROVE  \E c \in 1 .. (b - 1) : \E m \in Batches[c] : levels[m] >= l
<1>0. b \in 1 .. Len(Batches) /\ (\A c \in 1 .. (b - 1) : c \in 1 .. Len(Batches))
  BY BatchFacts
<1>1. \A c \in 1 .. Len(Batches) : \A m \in Batches[c] : levels[m] \in Levels
  BY BatchFacts DEF TypeInv
<1> DEFINE S == {levels[n] : n \in Batches[b]}
<1>2. S \subseteq Levels /\ S # {} /\ l \in S /\ \A k \in S : k <= l
  BY <1>0, <1>1
<1>3. Top(S) = l
  <2> HIDE DEF S
  <2>1. Top(S) \in S /\ \A k \in S : k <= Top(S)
    BY <1>2, TopIsHighest
  <2>2. Top(S) <= l /\ l <= Top(S)
    BY <1>2, <2>1
  <2>3. Levels \subseteq Int
    BY BoundsAssumption DEF Levels
  <2>4. Top(S) \in Int /\ l \in Int
    BY <1>2, <2>1, <2>3
  <2> QED
    BY <2>2, <2>4
<1>4. SUFFICES ASSUME \A c \in 1 .. (b - 1) : \A m \in Batches[c] : levels[m] < l
               PROVE  FALSE
  <2>1. \A c \in 1 .. (b - 1) : \A m \in Batches[c] : levels[m] \in Nat
    BY <1>0, <1>1, LevelsAreNumbers
  <2>2. l \in Nat
    BY LevelsAreNumbers
  <2> QED
    BY <2>1, <2>2
<1>5. Raising(levels, b) = {n \in Batches[b] : levels[n] = l}
  BY <1>3, <1>4 DEF Raising
<1>6. Cardinality(Raising(levels, b)) <= Threshold
  BY DEF RaisedBySmallGroups
<1>7. IsFiniteSet({n \in Batches[b] : levels[n] = l})
  BY <1>0, BatchFacts, FS_Subset
<1>8. Cardinality({n \in Batches[b] : levels[n] = l}) \in Nat
  BY <1>7, FS_CardinalityType
<1> QED
  BY <1>5, <1>6, <1>8, BoundsAssumption

(* A large first group of a call is not above the graph. *)
LEMMA AddBatchLevel ==
    ASSUME ControlInv, LevelInv, add_batch
    PROVE  LevelInv'
<1> USE DEF ControlInv
<1>0. /\ group = -1
      /\ UNCHANGED <<levels, hnsw, locks, critical, th, inserted>>
  BY DEF add_batch
<1>1. \A t \in Threads : At(t, "idle")
  BY <1>0 DEF ThreadInv, Active
<1>2. RaisedBySmallGroups(levels)'
  BY <1>0 DEF LevelInv, RaisedBySmallGroups, Raising
<1>3. team' \subseteq {Master} \/ inserted' = {} \/ Reached(group)'
  <2>1. SUFFICES ASSUME Cardinality(waiting') > Threshold, inserted # {}
                 PROVE  Reached(group')
    BY <1>0, AddBatchStep DEF Reached
  <2>2. batch >= 1
    BY <2>1 DEF GroupInv, TypeInv
  <2>3. batch' \in 2 .. Len(Batches)
    BY <2>2, AddBatchStep, BatchFacts DEF TypeInv
  <2>4. PICK c \in 1 .. (batch' - 1) : \E m \in Batches[c] : levels[m] >= group'
    BY <2>1, <2>3, AddBatchStep, LargeGroupIsBelow DEF LevelInv
  <2>5. c \in 1 .. batch
    BY <2>4, AddBatchStep, BatchFacts DEF TypeInv
  <2>6. PICK m \in Batches[c] : levels[m] >= group'
    BY <2>4
  <2>7. Reached(levels[m])
    BY <1>0, <2>5 DEF ReachedInv
  <2>8. PICK n \in inserted : levels[n] >= levels[m]
    BY <2>7 DEF Reached
  <2>9. levels[n] \in Nat /\ levels[m] \in Nat /\ group' \in Nat
    <3>1. n \in Nodes /\ c \in 1 .. Len(Batches)
      BY <2>5, AddBatchStep, BatchFacts DEF TypeInv
    <3>2. m \in Nodes
      BY <3>1, BatchFacts
    <3> QED
      BY <3>1, <3>2, AddBatchStep, LevelsAreNumbers
  <2> QED
    BY <2>6, <2>8, <2>9 DEF Reached
<1> QED
  BY <1>0, <1>1, <1>2, <1>3 DEF LevelInv, At

(* Nor is any later group: the groups before it have reached the graph. *)
LEMMA NextGroupLevel ==
    ASSUME ControlInv, LevelInv, next_group
    PROVE  LevelInv'
<1> USE DEF ControlInv
<1>0. /\ group \in Levels /\ waiting = {} /\ batch \in 1 .. Len(Batches)
      /\ \A t \in Threads : At(t, "idle")
      /\ UNCHANGED <<levels, hnsw, batch, locks, critical, th, inserted>>
  BY DEF next_group, AllIdle, TypeInv, GroupInv, Levels
<1>1. RaisedBySmallGroups(levels)'
  BY <1>0 DEF LevelInv, RaisedBySmallGroups, Raising
<1>2. group' = -1 \/ group' = group - 1
  BY DEF next_group, StartGroup
<1>3. group' = group - 1 => Reached(group')
  <2>1. PICK n \in Batches[batch] : levels[n] >= group
    BY <1>0, BoundsAssumption DEF GroupInv, Levels
  <2>2. PICK m \in inserted : levels[m] >= levels[n]
    BY <2>1, GroupReached DEF Reached
  <2>3. levels[n] \in Int /\ levels[m] \in Int /\ group \in Int
    BY <1>0, BatchFacts, BoundsAssumption DEF TypeInv, Levels
  <2> QED
    BY <2>1, <2>2, <2>3 DEF Reached
<1> QED
  BY <1>0, <1>1, <1>2, <1>3 DEF LevelInv, At, Reached

(* Only a thread that is alone raises the maximum level after the first.    *)
LEMMA RaisesAlone ==
    ASSUME ControlInv, LevelInv, NEW t \in Threads, raise(t), Raises(t)
    PROVE  team \subseteq {Master}
<1> USE DEF ControlInv
<1>1. At(t, "raise") /\ Active(t) /\ th[t].pt \in Nodes
  BY DEF raise, At, Active, TypeInv
<1>2. group # -1 /\ PtLevel(t) = group /\ inserted # {}
  BY <1>1 DEF ThreadInv, GroupNodes, PtLevel, EntryInv, At
<1>3. \A m \in inserted : levels[m] < group
  <2>1. group > max_level
    BY <1>2 DEF Raises
  <2>2. group \in Int /\ max_level \in Int
    BY DEF TypeInv
  <2>3. \A m \in inserted : levels[m] \in Int /\ levels[m] <= max_level
    BY BoundsAssumption DEF EntryInv, TypeInv, Levels
  <2> QED
    BY <2>1, <2>2, <2>3
<1>4. ~Reached(group)
  BY <1>3, BoundsAssumption DEF Reached, TypeInv, Levels
<1> QED
  BY <1>2, <1>4 DEF LevelInv

(* No step of a thread raises the maximum level under another one. *)
LEMMA ThreadLevel ==
    ASSUME ControlInv, LevelInv, NEW t \in Threads, add_with_locks(t)
    PROVE  LevelInv'
<1> USE DEF ControlInv
<1>1. UNCHANGED <<levels, group, team>>
  BY DEF add_with_locks, begin, skip, first, first_entry, lock_own, descend, visit, link,
         lock_other, link_back, relock, raise, raise_entry, control
<1>2. RaisedBySmallGroups(levels)'
  BY <1>1 DEF LevelInv, RaisedBySmallGroups, Raising
<1>3. inserted' = inserted \/ (EndStep(t) /\ inserted' = inserted \cup {th[t].pt})
  BY EndSteps DEF EndStep, add_with_locks, begin, skip, first, lock_own, descend, visit, link,
         lock_other, link_back, relock, raise, control
<1>4. group # -1 => team' \subseteq {Master} \/ inserted' = {} \/ Reached(group)'
  <2>1. CASE inserted' = inserted
    BY <1>1, <2>1 DEF LevelInv, Reached
  <2>2. CASE EndStep(t) /\ inserted' = inserted \cup {th[t].pt}
    <3>1. levels[th[t].pt] = group /\ group \in Int
      BY <2>2, EndControl DEF PtLevel, TypeInv
    <3> QED
      BY <1>1, <2>2, <3>1 DEF Reached
  <2> QED
    BY <1>3, <2>1, <2>2
<1>5. ASSUME NEW s \in Threads
      PROVE  /\ At(s, "lock")' => /\ th'[s].nearest \in inserted'
                                  /\ levels'[th'[s].nearest] = max_level'
             /\ At(s, "raise_entry")' => team' \subseteq {Master}
  <2>0. \A r \in Threads : th[r].pc # "idle" => r \in team
    BY DEF ThreadInv, Active, At
  <2>1. CASE begin(t)
    <3>1. ASSUME th'[t].pc = "lock" PROVE th'[t].nearest \in inserted /\ levels[th'[t].nearest] = max_level
      <4>1. entry_point # NoNode /\ th'[t].nearest = entry_point
        BY <2>1, <3>1, BeginStep
      <4>2. \A r \in Threads : ~At(r, "first_entry")
        BY <4>1 DEF EntryInv
      <4>3. \A r \in Threads : ~At(r, "raise_entry")
        BY <2>0, <2>1, BeginStep DEF LevelInv, At
      <4>4. critical = NoThread
        BY <4>2, <4>3 DEF ThreadInv, TypeInv, At, InSection
      <4> QED
        BY <4>1, <4>4 DEF EntryInv
    <3> QED
      BY <1>1, <2>1, <3>1, BeginStep DEF LevelInv, At
  <2>2. CASE skip(t)
    BY <2>2 DEF LevelInv, At, skip, hnsw
  <2>3. CASE first(t)
    <3>1. CASE entry_point = NoNode
      <4>1. \A r \in Threads : th[r].pc \notin {"lock", "raise_entry"}
        BY <3>1 DEF EntryInv
      <4> QED
        BY <2>3, <3>1, <4>1, FirstStep DEF At
    <3>2. CASE entry_point # NoNode
      <4>1. entry_point \in inserted /\ levels[entry_point] = max_level
        BY <2>3, <3>2, FirstStep DEF EntryInv
      <4> QED
        BY <2>3, <3>2, <4>1, FirstStep DEF LevelInv, At
    <3> QED
      BY <3>1, <3>2
  <2>4. CASE EndStep(t)
    BY <2>4 DEF EndStep, LevelInv, At
  <2>5. CASE Work(t)
    <3>1. MiddleStep(t)
      BY <2>5, WorkIsMiddle
    <3> QED
      BY <3>1 DEF MiddleStep, LevelInv, At, Middle, control
  <2>6. CASE raise(t) /\ Raises(t)
    <3>1. team \subseteq {Master} /\ th[t].pc = "raise"
      BY <2>6, RaisesAlone DEF raise, At
    <3>2. \A r \in Threads : r # t => th[r].pc = "idle"
      BY <2>0, <3>1
    <3>3. /\ Goes(t, [pc |-> "raise_entry", pt |-> th[t].pt])
      BY <2>6 DEF raise
    <3>4. /\ th'[t] = [pc |-> "raise_entry", pt |-> th[t].pt]
          /\ \A r \in Threads : r # t => th'[r] = th[r]
      BY <3>3, GoesTo DEF TypeInv
    <3> QED
      BY <1>1, <3>1, <3>2, <3>4 DEF At
  <2> QED
    BY <2>1, <2>2, <2>3, <2>4, <2>5, <2>6, EndSteps DEF add_with_locks, Work
<1> QED
  BY <1>1, <1>2, <1>4, <1>5 DEF LevelInv

-----------------------------------------------------------------------------
(* The lists. *)

(* What a working thread is known to have. *)
LEMMA WorkTypes ==
    ASSUME ControlInv, GraphInv, NEW t \in Threads, th[t].pc \in {"descend"} \cup Linking
    PROVE  /\ th[t].pt \in Nodes /\ th[t].pt \notin inserted
           /\ th[t].level \in Levels /\ th[t].level \in Nat
           /\ PtLevel(t) \in Levels /\ PtLevel(t) \in Nat
           /\ th[t].nearest \in inserted /\ th[t].nearest \in Nodes
           /\ ~At(t, "descend") => th[t].level \in 0 .. levels[th[t].pt]
           /\ Touched(t) \subseteq Nodes
           /\ \A n \in Touched(t) : levels[n] >= th[t].level /\ th[t].level \in 0 .. levels[n]
<1>1. Active(t)
  BY DEF Active, At, Linking
<1>2. th[t].pt \in Nodes /\ th[t].pt \notin inserted
  BY <1>1 DEF ControlInv, TypeInv, ThreadInv
<1>3. WorkInv(t)
  BY DEF GraphInv
<1>4. /\ th[t].level \in Levels /\ th[t].nearest \in inserted
      /\ th[t].level > PtLevel(t) <=> At(t, "descend")
  BY <1>3 DEF WorkInv
<1>5. th[t].level \in Nat /\ PtLevel(t) \in Levels /\ PtLevel(t) \in Nat
  BY <1>2, <1>4, LevelsAreNumbers DEF ControlInv, PtLevel
<1>6. ~At(t, "descend") => th[t].level \in 0 .. levels[th[t].pt]
  BY <1>4, <1>5 DEF PtLevel
<1>7. Touched(t) \subseteq Ready(th[t].level)
  BY <1>3 DEF WorkInv, Touched, At, Linking
<1>8. Touched(t) \subseteq Nodes /\ \A n \in Touched(t) : levels[n] >= th[t].level
  BY <1>7 DEF Ready
<1>9. \A n \in Touched(t) : levels[n] \in Nat
  BY <1>8, LevelsAreNumbers DEF ControlInv
<1>10. \A n \in Touched(t) : th[t].level \in 0 .. levels[n]
  BY <1>5, <1>8, <1>9
<1>11. th[t].nearest \in Nodes
  BY <1>4 DEF ControlInv, TypeInv
<1> QED
  BY <1>2, <1>4, <1>5, <1>6, <1>8, <1>10, <1>11

(* A node that is being searched for at a level is in no list of the level, *)
(* and its own list there is empty: no other thread can have found it.      *)
LEMMA SearchIsFresh ==
    ASSUME ControlInv, GraphInv, NEW t \in Threads, At(t, "search")
    PROVE  /\ th[t].pt \notin Ready(th[t].level)
           /\ th[t].pt \notin th[t].seen
           /\ links[th[t].pt][th[t].level] = {}
<1>0. th[t].pc \in {"descend"} \cup Linking
  BY DEF At, Linking
<1>1. th[t].pt \in Nodes /\ th[t].pt \notin inserted /\ th[t].level \in Nat
      /\ th[t].level \in 0 .. levels[th[t].pt]
  BY <1>0, WorkTypes DEF At
<1>2. \A s \in Threads : Linked(s, th[t].level) => Active(s)
  BY DEF Linked, Active, At
<1>3. ~Linked(t, th[t].level)
  BY <1>1 DEF Linked, At
<1>4. Active(t)
  BY DEF Active, At
<1>5. th[t].pt \notin Ready(th[t].level)
  BY <1>1, <1>2, <1>3, <1>4 DEF Ready, ControlInv, ThreadInv
<1>6. th[t].seen \subseteq Ready(th[t].level)
  BY <1>0 DEF GraphInv, WorkInv, Touched, At, Linking
<1>7. links[th[t].pt][th[t].level] = {}
  BY <1>1, <1>5 DEF GraphInv, ListsInv
<1> QED
  BY <1>5, <1>6, <1>7

(* A step of one thread takes no node out of the nodes that lists may hold, *)
(* if it leaves its own node there.                                         *)
LEMMA ReadyGrows ==
    ASSUME UNCHANGED levels, inserted \subseteq inserted', NEW t \in Threads, NEW l,
           \A s \in Threads : s # t => th'[s] = th[s],
           Linked(t, l) => \/ th[t].pt \in inserted'
                           \/ Linked(t, l)' /\ th'[t].pt = th[t].pt
    PROVE  Ready(l) \subseteq Ready(l)'
<1>1. SUFFICES ASSUME NEW m \in Ready(l) PROVE m \in Ready(l)'
  OBVIOUS
<1>2. m \in Nodes /\ levels'[m] >= l
  BY <1>1 DEF Ready
<1>3. CASE m \in inserted
  BY <1>2, <1>3 DEF Ready
<1>4. CASE m \notin inserted
  <2>1. PICK s \in Threads : Linked(s, l) /\ th[s].pt = m
    BY <1>1, <1>4 DEF Ready
  <2>2. CASE s = t
    BY <1>2, <2>1, <2>2 DEF Ready
  <2>3. CASE s # t
    <3>1. Linked(s, l)' /\ th'[s].pt = m
      BY <2>1, <2>3 DEF Linked, At
    <3> QED
      BY <1>2, <3>1 DEF Ready
  <2> QED
    BY <2>2, <2>3
<1> QED
  BY <1>3, <1>4

(* Lists that do not change stay well formed. *)
LEMMA ListsKept ==
    ASSUME GraphInv, UNCHANGED <<levels, links>>,
           \A n \in Nodes : \A l \in 0 .. levels[n] : Ready(l) \subseteq Ready(l)',
           locks' = [n \in Nodes |-> locks'[n]],
           \A n \in Nodes : locks'[n] \in Threads \cup {NoThread}
    PROVE  ListsInv'
  BY DEF GraphInv, ListsInv

(* What a thread knows stays true when others leave its lists and locks.    *)
LEMMA OtherKept ==
    ASSUME ControlInv, GraphInv, NEW s \in Threads,
           th'[s] = th[s], UNCHANGED levels, inserted \subseteq inserted',
           th[s].pc \in Linking => Ready(th[s].level) \subseteq Ready(th[s].level)',
           \A n \in Nodes : locks[n] = s => locks'[n] = s,
           At(s, "write") =>
              links'[th[s].other][th[s].level] = links[th[s].other][th[s].level],
           th[s].pc \in {"reverse", "write"} => \A n \in Touched(s) :
              /\ th[s].pt \notin links'[n][th[s].level]
              /\ \/ n \in links'[th[s].pt][th[s].level]
                 \/ <<th[s].pt, th[s].level>> \in pruned'
    PROVE  WorkInv(s)'
<1>0. WorkInv(s)
  BY DEF GraphInv
<1>1. /\ \A pc : At(s, pc)' <=> At(s, pc)
      /\ Touched(s)' = Touched(s) /\ PtLevel(s)' = PtLevel(s)
  BY DEF At, Touched, PtLevel
<1>2. th[s].pc \in {"descend"} \cup Linking =>
          /\ th[s].level \in Levels /\ th[s].nearest \in inserted'
          /\ th[s].level <= levels'[th[s].nearest]
          /\ th[s].level > PtLevel(s)' <=> At(s, "descend")
  BY <1>0, <1>1 DEF WorkInv
<1>3. th[s].pc \in Linking => Touched(s) \subseteq Ready(th[s].level)'
  BY <1>0 DEF WorkInv
<1>4. th[s].pc \in {"descend", "search"} => locks'[th[s].pt] = s
  BY <1>0, WorkTypes DEF WorkInv, Linking
<1>5. At(s, "write") => th[s].other \in Nodes
  BY WorkTypes DEF Touched, At, Linking
<1>6. At(s, "write") => /\ locks'[th[s].other] = s
                        /\ th[s].old = links'[th[s].other][th[s].level]
                        /\ th[s].other \notin th[s].todo
  BY <1>0, <1>5 DEF WorkInv
<1> QED
  BY <1>1, <1>2, <1>3, <1>4, <1>6 DEF WorkInv

(* Steps that touch no list and no lock: a group begins or ends, a thread   *)
(* takes a node, or is in a critical section.                               *)
InLists == {"descend"} \cup Linking

Quiet ==
    /\ UNCHANGED <<levels, links, locks, pruned>>
    /\ inserted \subseteq inserted'
    /\ \A s \in Threads :
          /\ th[s].pc \in InLists \/ th'[s].pc \in InLists => th'[s] = th[s]
          /\ th'[s].pc \in {"raise", "raise_entry"} =>
                th[s].pc \in {"raise", "raise_entry"} /\ th'[s].pt = th[s].pt
          /\ th[s].pc \in {"raise", "raise_entry"} =>
                \/ th'[s].pc \in {"raise", "raise_entry"} /\ th'[s].pt = th[s].pt
                \/ th[s].pt \in inserted'
    /\ \/ inserted' = inserted
       \/ \E t \in Threads : EndStep(t)

(* Quiet steps keep the graph invariant. *)
LEMMA QuietGraph ==
    ASSUME ControlInv, GraphInv, Quiet
    PROVE  ListsInv' /\ (\A t \in Threads : WorkInv(t)') /\ MutualInv' /\ ConnectedInv'
<1> USE DEF AboutToLink, Pending
<1>1. \A l : Ready(l) \subseteq Ready(l)'
  <2>1. SUFFICES ASSUME NEW l, NEW m \in Ready(l) PROVE m \in Ready(l)'
    OBVIOUS
  <2>2. m \in Nodes /\ levels'[m] >= l
    BY <2>1 DEF Ready, Quiet
  <2>3. CASE m \in inserted
    BY <2>2, <2>3 DEF Ready, Quiet
  <2>4. CASE m \notin inserted
    <3>1. PICK s \in Threads : Linked(s, l) /\ th[s].pt = m
      BY <2>1, <2>4 DEF Ready
    <3>2. m \in inserted' \/ (Linked(s, l)' /\ th'[s].pt = m)
      BY <3>1 DEF Linked, Quiet, At, InLists, Linking
    <3> QED
      BY <2>2, <3>2 DEF Ready
  <2> QED
    BY <2>3, <2>4
<1>2. ListsInv'
  BY <1>1, ListsKept DEF Quiet, GraphInv, ListsInv
<1>3. ASSUME NEW s \in Threads PROVE WorkInv(s)'
  <2>1. CASE th'[s] = th[s]
    <3>1. \A n \in Nodes : locks[n] = s => locks'[n] = s
      BY DEF Quiet
    <3>2. WorkInv(s)
      BY DEF GraphInv
    <3>3. /\ At(s, "write") =>
              links'[th[s].other][th[s].level] = links[th[s].other][th[s].level]
          /\ th[s].pc \in {"reverse", "write"} => \A n \in Touched(s) :
              /\ th[s].pt \notin links'[n][th[s].level]
              /\ \/ n \in links'[th[s].pt][th[s].level]
                 \/ <<th[s].pt, th[s].level>> \in pruned'
      BY <3>2 DEF WorkInv, Quiet
    <3>4. Ready(th[s].level) \subseteq Ready(th[s].level)'
      BY <1>1, <2>1
    <3> QED
      BY <2>1, <3>1, <3>3, <3>4, OtherKept DEF Quiet
  <2>2. CASE th'[s].pc \notin InLists
    BY <2>2 DEF WorkInv, Touched, At, InLists, Linking
  <2> QED
    BY <2>1, <2>2 DEF Quiet
<1>4. MutualInv'
  <2>1. SUFFICES ASSUME NEW m \in Nodes, NEW n \in Nodes, NEW l \in 0 .. levels'[m],
                        n \in links'[m][l]
                 PROVE  \/ m \in links'[n][l]
                        \/ <<n, l>> \in pruned'
                        \/ Pending(m, n, l)'
    BY DEF MutualInv
  <2>2. CASE m \in links[n][l] \/ <<n, l>> \in pruned
    BY <2>2 DEF Quiet
  <2>3. ASSUME NEW t \in Threads, th[t].pc \in {"reverse", "write"}, th[t].pt = m,
               th[t].level = l, n \in Touched(t)
        PROVE  /\ th'[t].pc \in {"reverse", "write"} /\ th'[t].pt = m
               /\ th'[t].level = l /\ n \in Touched(t)'
    BY <2>3 DEF Quiet, InLists, Linking, Touched, At
  <2>4. l \in 0 .. levels[m] /\ n \in links[m][l]
    BY <2>1 DEF Quiet
  <2> QED
    BY <2>2, <2>3, <2>4 DEF GraphInv, MutualInv
<1>5. ConnectedInv'
  <2>1. ASSUME NEW t \in Threads, Linked(t, 0)' PROVE links'[th'[t].pt][0] # {}
    <3>1. Linked(t, 0) /\ th'[t].pt = th[t].pt
      BY <2>1 DEF Linked, Quiet, At, InLists, Linking
    <3> QED
      BY <3>1 DEF GraphInv, ConnectedInv, Quiet
  <2>2. ASSUME NEW f \in inserted', links'[f][0] = {}
        PROVE  /\ inserted' = {f}
               /\ \A t \in Threads : AboutToLink(t, f)'
    <3>0. links[f][0] = {}
      BY <2>2 DEF Quiet
    <3>1. CASE f \in inserted
      <4>1. /\ inserted = {f}
            /\ \A t \in Threads : th[t].pc \notin {"raise", "raise_entry"}
        BY <3>0, <3>1 DEF GraphInv, ConnectedInv
      <4>2. \A t \in Threads : ~At(t, "first_entry")
        BY <4>1 DEF ControlInv, EntryInv, At
      <4>3. inserted' = inserted
        BY <4>1, <4>2 DEF Quiet, EndStep, At
      <4>4. \A t \in Threads : th'[t].pc \notin {"raise", "raise_entry"}
        BY <4>1 DEF Quiet
      <4>5. ASSUME NEW t \in Threads
            PROVE  /\ At(t, "search")' /\ th'[t].level = 0 => th'[t].seen \subseteq {f}
                   /\ th'[t].pc \in {"reverse", "write"} /\ th'[t].level = 0 => f \in Touched(t)'
        <5>1. th'[t].pc \in Linking => th'[t] = th[t]
          BY DEF Quiet, InLists
        <5> QED
          BY <3>0, <3>1, <5>1 DEF GraphInv, ConnectedInv, Touched, At, Linking
      <4> QED
        BY <4>1, <4>3, <4>4, <4>5
    <3>2. CASE f \notin inserted
      <4>1. PICK t \in Threads : EndStep(t)
        BY <3>2, <2>2 DEF Quiet
      <4>2. f = th[t].pt
        BY <2>2, <3>2, <4>1 DEF EndStep
      <4>3. At(t, "first_entry")
        BY <3>0, <4>1, <4>2 DEF EndStep, At, GraphInv, ConnectedInv, Linked
      <4>4. /\ inserted = {}
            /\ \A s \in Threads : th[s].pc \in {"idle", "first", "first_entry"}
        BY <4>3 DEF ControlInv, EntryInv
      <4>5. inserted' = {f}
        BY <4>1, <4>2, <4>4 DEF EndStep
      <4>6. \A s \in Threads : th'[s].pc \in {"idle", "first", "first_entry"}
        BY <4>1, <4>4 DEF EndStep
      <4> QED
        BY <4>5, <4>6 DEF At
    <3> QED
      BY <3>1, <3>2
  <2> QED
    BY <2>1, <2>2 DEF ConnectedInv
<1> QED
  BY <1>2, <1>3, <1>4, <1>5

(* All steps outside the lists are quiet. *)
LEMMA QuietSteps ==
    ASSUME ControlInv,
           \/ add_batch \/ next_group \/ UNCHANGED vars
           \/ \E t \in Threads :
                 \/ begin(t) \/ skip(t) \/ first(t)
                 \/ first_entry(t) \/ raise(t) \/ raise_entry(t)
    PROVE  Quiet
<1> USE DEF InLists, Linking
<1>1. CASE add_batch \/ next_group \/ UNCHANGED vars
  BY <1>1 DEF add_batch, next_group, vars, hnsw, Quiet
<1>2. ASSUME NEW t \in Threads, begin(t) PROVE Quiet
  BY <1>2, BeginStep DEF ControlInv, Quiet, At
<1>3. ASSUME NEW t \in Threads, skip(t) PROVE Quiet
  BY <1>3 DEF skip, hnsw, Quiet
<1>4. ASSUME NEW t \in Threads, first(t) PROVE Quiet
  BY <1>4, FirstStep DEF ControlInv, Quiet, At
<1>5. ASSUME NEW t \in Threads, EndStep(t) PROVE Quiet
  BY <1>5 DEF EndStep, Quiet
<1>6. ASSUME NEW t \in Threads, raise(t), Raises(t) PROVE Quiet
  <2>1. Goes(t, [pc |-> "raise_entry", pt |-> th[t].pt]) /\ th[t].pc = "raise"
        /\ UNCHANGED <<levels, links, pruned, locks, inserted>>
    BY <1>6 DEF raise, At
  <2>2. /\ th'[t] = [pc |-> "raise_entry", pt |-> th[t].pt]
        /\ \A s \in Threads : s # t => th'[s] = th[s]
    BY <2>1, GoesTo DEF ControlInv, TypeInv
  <2>3. th'[t].pc = "raise_entry" /\ th'[t].pt = th[t].pt
    BY <2>2
  <2> QED
    BY <2>1, <2>2, <2>3 DEF Quiet
<1> QED
  BY <1>1, <1>2, <1>3, <1>4, <1>5, <1>6, EndSteps DEF ControlInv

-----------------------------------------------------------------------------
(* The steps that work on the lists. *)

(* The steps that change no list: what remains to be shown of each is what  *)
(* the thread itself knows afterwards.                                      *)
Searching(t) ==
    /\ th[t].pc \in {"lock", "descend", "search", "reverse"}
    /\ UNCHANGED <<levels, links, pruned, inserted>>
    /\ \A s \in Threads : s # t => th'[s] = th[s]
    /\ th'[t].pt = th[t].pt
    /\ locks' = [n \in Nodes |-> locks'[n]]
    /\ \A n \in Nodes : /\ locks'[n] \in Threads \cup {NoThread}
                        /\ \A s \in Threads : s # t /\ locks[n] = s => locks'[n] = s
    /\ \A l \in Nat : Linked(t, l) => Linked(t, l)'
    /\ Linked(t, 0)' => Linked(t, 0)
    /\ At(t, "reverse") =>
          \A n \in Touched(t) : At(t, "write")' /\ th'[t].level = th[t].level /\ n \in Touched(t)'

(* Steps that change no list keep it, if the thread knows what it should. *)
LEMMA SearchingGraph ==
    ASSUME ControlInv, GraphInv, NEW t \in Threads, Searching(t), WorkInv(t)',
           \A f \in inserted : links[f][0] = {} /\ inserted = {f} => AboutToLink(t, f)'
    PROVE  ListsInv' /\ (\A s \in Threads : WorkInv(s)') /\ MutualInv' /\ ConnectedInv'
<1> USE DEF AboutToLink, Pending
<1>1. \A l \in Nat : Ready(l) \subseteq Ready(l)'
  BY ReadyGrows DEF Searching
<1>2. ListsInv'
  <2>1. \A n \in Nodes : \A l \in 0 .. levels[n] : Ready(l) \subseteq Ready(l)'
    BY <1>1, LevelsAreNumbers DEF ControlInv
  <2> QED
    BY <2>1, ListsKept DEF Searching
<1>3. ASSUME NEW s \in Threads PROVE WorkInv(s)'
  <2>1. CASE s = t
    BY <2>1
  <2>2. CASE s # t
    <3>1. th'[s] = th[s] /\ \A n \in Nodes : locks[n] = s => locks'[n] = s
      BY <2>2 DEF Searching
    <3>2. WorkInv(s)
      BY DEF GraphInv
    <3>3. /\ At(s, "write") =>
              links'[th[s].other][th[s].level] = links[th[s].other][th[s].level]
          /\ th[s].pc \in {"reverse", "write"} => \A n \in Touched(s) :
              /\ th[s].pt \notin links'[n][th[s].level]
              /\ \/ n \in links'[th[s].pt][th[s].level]
                 \/ <<th[s].pt, th[s].level>> \in pruned'
      BY <3>2 DEF WorkInv, Searching
    <3>4. th[s].pc \in Linking => Ready(th[s].level) \subseteq Ready(th[s].level)'
      BY <1>1, <3>1, WorkTypes
    <3> QED
      BY <3>1, <3>3, <3>4, OtherKept DEF Searching
  <2> QED
    BY <2>1, <2>2
<1>4. MutualInv'
  <2>1. SUFFICES ASSUME NEW m \in Nodes, NEW n \in Nodes, NEW l \in 0 .. levels'[m],
                        n \in links'[m][l]
                 PROVE  \/ m \in links'[n][l]
                        \/ <<n, l>> \in pruned'
                        \/ Pending(m, n, l)'
    BY DEF MutualInv
  <2>2. CASE m \in links[n][l] \/ <<n, l>> \in pruned
    BY <2>2 DEF Searching
  <2>3. ASSUME NEW s \in Threads, th[s].pc \in {"reverse", "write"}, th[s].pt = m,
               th[s].level = l, n \in Touched(s)
        PROVE  /\ th'[s].pc \in {"reverse", "write"} /\ th'[s].pt = m
               /\ th'[s].level = l /\ n \in Touched(s)'
    BY <2>3 DEF Searching, Touched, At
  <2>4. l \in 0 .. levels[m] /\ n \in links[m][l]
    BY <2>1 DEF Searching
  <2> QED
    BY <2>2, <2>3, <2>4 DEF GraphInv, MutualInv
<1>5. ConnectedInv'
  <2>1. ASSUME NEW s \in Threads, Linked(s, 0)' PROVE links'[th'[s].pt][0] # {}
    <3>1. Linked(s, 0) /\ th'[s].pt = th[s].pt
      BY <2>1 DEF Linked, Searching, At
    <3> QED
      BY <3>1 DEF GraphInv, ConnectedInv, Searching
  <2>2. ASSUME NEW f \in inserted', links'[f][0] = {}
        PROVE  /\ inserted' = {f}
               /\ \A s \in Threads : AboutToLink(s, f)'
    <3>1. f \in inserted /\ links[f][0] = {} /\ inserted' = inserted
      BY <2>2 DEF Searching
    <3>2. inserted = {f}
      BY <3>1 DEF GraphInv, ConnectedInv
    <3>3. ASSUME NEW s \in Threads, s # t
          PROVE  AboutToLink(s, f)'
      <4>1. th'[s] = th[s]
        BY <3>3 DEF Searching
      <4> QED
        BY <3>1, <4>1 DEF GraphInv, ConnectedInv, Touched, At
    <3> QED
      BY <3>1, <3>2, <3>3
  <2> QED
    BY <2>1, <2>2 DEF ConnectedInv
<1> QED
  BY <1>2, <1>3, <1>4, <1>5

(* The next thing of a search at a level of the thread's reach.             *)
LEMMA FromWork ==
    ASSUME ControlInv, NEW t \in Threads, At(t, "lock") \/ At(t, "descend"),
           UNCHANGED <<levels, inserted>>,
           NEW n \in inserted, NEW l \in Levels, l <= levels[n],
           th'[t] = From(t, n, l), locks'[th[t].pt] = t
    PROVE  /\ WorkInv(t)'
           /\ th'[t].pt = th[t].pt
           /\ th'[t].pc \in {"descend", "search"}
           /\ ~Linked(t, 0)'
           /\ At(t, "search")' => th'[t].seen = {n}
<1>1. th[t].pt \in Nodes /\ n \in Nodes
  BY DEF ControlInv, TypeInv, Active, At
<1>2. PtLevel(t) \in Nat /\ l \in Nat /\ levels[n] \in Nat
  BY <1>1, LevelsAreNumbers DEF PtLevel, ControlInv
<1>3. /\ th'[t].pt = th[t].pt /\ th'[t].nearest = n /\ th'[t].level = l
      /\ l <= PtLevel(t) => th'[t].pc = "search" /\ th'[t].seen = {n}
      /\ ~(l <= PtLevel(t)) => th'[t].pc = "descend"
  BY FromFields
<1>4. PtLevel(t)' = PtLevel(t)
  BY <1>3 DEF PtLevel
<1>5. n \in Ready(l)'
  BY <1>1 DEF Ready
<1>6. WorkInv(t)'
  <2>1. CASE l <= PtLevel(t)
    <3>1. Touched(t)' = {n} /\ th'[t].pc = "search"
      BY <1>3, <2>1 DEF Touched, At
    <3> QED
      BY <1>2, <1>3, <1>4, <1>5, <2>1, <3>1 DEF WorkInv, At
  <2>2. CASE ~(l <= PtLevel(t))
    <3>1. th'[t].pc = "descend" /\ l > PtLevel(t)
      BY <1>2, <1>3, <2>2
    <3> QED
      BY <1>2, <1>3, <1>4, <3>1 DEF WorkInv, At, Linking
  <2> QED
    BY <2>1, <2>2
<1>7. ~Linked(t, 0)'
  BY <1>2, <1>3 DEF Linked, At
<1> QED
  BY <1>2, <1>3, <1>6, <1>7 DEF At

(* The first search begins at an inserted node of the maximum level. *)
LEMMA LockOwnGraph ==
    ASSUME ControlInv, GraphInv, NEW t \in Threads, lock_own(t)
    PROVE  ListsInv' /\ (\A s \in Threads : WorkInv(s)') /\ MutualInv' /\ ConnectedInv'
<1> USE DEF AboutToLink
<1>0. /\ At(t, "lock") /\ locks[th[t].pt] = NoThread
      /\ locks' = [locks EXCEPT ![th[t].pt] = t]
      /\ Goes(t, From(t, th[t].nearest, max_level))
      /\ UNCHANGED <<levels, links, pruned, inserted>>
  BY DEF lock_own, hnsw
<1>1. th'[t] = From(t, th[t].nearest, max_level) /\ \A s \in Threads : s # t => th'[s] = th[s]
  BY <1>0, GoesTo DEF ControlInv, TypeInv
<1>2. th[t].nearest \in inserted /\ max_level = levels[th[t].nearest]
  BY <1>0 DEF GraphInv, LevelInv
<1>3. th[t].pt \in Nodes /\ th[t].nearest \in Nodes
  BY <1>0, <1>2 DEF ControlInv, TypeInv, Active, At
<1>4. max_level \in Levels /\ max_level \in Nat
  BY <1>2, <1>3, LevelsAreNumbers DEF ControlInv
<1>5. /\ locks' = [n \in Nodes |-> locks'[n]] /\ locks'[th[t].pt] = t
      /\ \A n \in Nodes : n # th[t].pt => locks'[n] = locks[n]
  BY <1>0, <1>3 DEF GraphInv, ListsInv
<1>6. /\ WorkInv(t)' /\ th'[t].pt = th[t].pt /\ th'[t].pc \in {"descend", "search"}
      /\ ~Linked(t, 0)'
      /\ At(t, "search")' => th'[t].seen = {th[t].nearest}
  BY <1>0, <1>1, <1>2, <1>4, <1>5, FromWork
<1>7. Searching(t)
  <2>1. \A n \in Nodes : /\ locks'[n] \in Threads \cup {NoThread}
                         /\ \A s \in Threads : s # t /\ locks[n] = s => locks'[n] = s
    BY <1>0, <1>5, ThreadsAssumption DEF GraphInv, ListsInv
  <2>2. \A l \in Nat : ~Linked(t, l)
    BY <1>0 DEF Linked, At
  <2> QED
    BY <1>0, <1>1, <1>5, <1>6, <2>1, <2>2 DEF Searching, At
<1>8. \A f \in inserted : links[f][0] = {} /\ inserted = {f} => AboutToLink(t, f)'
  BY <1>2, <1>6
<1> QED
  BY <1>6, <1>7, <1>8, SearchingGraph

(* Above the level of its node a thread meets only nodes that are in the    *)
(* graph: those of its own group are not that high.                         *)
LEMMA ReachInserted ==
    ASSUME ControlInv, GraphInv, NEW t \in Threads, At(t, "descend"),
           NEW n \in Reach(th[t].nearest, th[t].level)
    PROVE  n \in inserted /\ levels[n] >= th[t].level
<1> DEFINE l == th[t].level
           S == {m \in inserted : levels[m] >= l}
<1>1. /\ l \in Nat /\ PtLevel(t) \in Nat /\ l > PtLevel(t)
      /\ th[t].nearest \in S /\ PtLevel(t) = group
  <2>1. th[t].pc \in {"descend"} \cup Linking /\ WorkInv(t) /\ Active(t)
    BY DEF At, GraphInv, Active
  <2>2. l > PtLevel(t) /\ th[t].nearest \in inserted /\ l <= levels[th[t].nearest]
    BY <2>1 DEF WorkInv
  <2>3. l \in Nat /\ PtLevel(t) \in Nat /\ levels[th[t].nearest] \in Nat
    BY <2>1, WorkTypes, LevelsAreNumbers DEF ControlInv
  <2>4. PtLevel(t) = group
    BY <2>1 DEF ControlInv, ThreadInv, GroupNodes, PtLevel
  <2> QED
    BY <2>2, <2>3, <2>4
<1>2. S \in SUBSET Nodes
  BY DEF ControlInv, TypeInv
<1>3. Neighbours(S, l) \subseteq S
  <2>1. SUFFICES ASSUME NEW x \in S, NEW m \in IF l \in DOMAIN links[x] THEN links[x][l] ELSE {}
                 PROVE  m \in S
    BY DEF Neighbours
  <2>2. x \in Nodes /\ levels[x] \in Nat
    BY <1>2, LevelsAreNumbers DEF ControlInv
  <2>3. l \in 0 .. levels[x] /\ m \in links[x][l]
    BY <1>1, <2>1, <2>2
  <2>4. m \in Ready(l)
    BY <2>2, <2>3 DEF GraphInv, ListsInv
  <2>5. m \in Nodes /\ levels[m] >= l /\ levels[m] \in Nat
    BY <2>4, LevelsAreNumbers DEF Ready, ControlInv
  <2>6. CASE m \in inserted
    BY <2>5, <2>6
  <2>7. ASSUME NEW s \in Threads, Linked(s, l), th[s].pt = m PROVE FALSE
    <3>1. Active(s)
      BY <2>7 DEF Linked, Active, At
    <3>2. levels[m] = group
      BY <2>7, <3>1 DEF ControlInv, ThreadInv, GroupNodes
    <3> QED
      BY <1>1, <2>5, <3>2
  <2> QED
    BY <2>4, <2>6, <2>7 DEF Ready
<1>4. n \in S
  BY <1>1, <1>2, <1>3 DEF Reach
<1> QED
  BY <1>4

(* The greedy search stays among inserted nodes. *)
LEMMA DescendGraph ==
    ASSUME ControlInv, GraphInv, NEW t \in Threads, descend(t)
    PROVE  ListsInv' /\ (\A s \in Threads : WorkInv(s)') /\ MutualInv' /\ ConnectedInv'
<1> USE DEF AboutToLink
<1>1. PICK n \in Reach(th[t].nearest, th[t].level) : Goes(t, From(t, n, th[t].level - 1))
  BY DEF descend
<1>2. /\ At(t, "descend") /\ UNCHANGED <<levels, links, pruned, inserted, locks>>
      /\ WorkInv(t)
  BY DEF descend, hnsw, GraphInv
<1>3. th'[t] = From(t, n, th[t].level - 1) /\ \A s \in Threads : s # t => th'[s] = th[s]
  BY <1>1, GoesTo DEF ControlInv, TypeInv
<1>4. n \in inserted /\ levels[n] >= th[t].level
  BY <1>1, <1>2, ReachInserted
<1>5. th[t].level - 1 \in Levels /\ th[t].level - 1 <= levels[n]
  <2>1. th[t].level \in Levels /\ PtLevel(t) \in Nat /\ th[t].level > PtLevel(t)
    BY <1>2, WorkTypes DEF At, WorkInv
  <2>2. levels[n] \in Nat
    BY <1>4, LevelsAreNumbers DEF ControlInv, TypeInv
  <2> QED
    BY <1>4, <2>1, <2>2, BoundsAssumption DEF Levels
<1>6. locks'[th[t].pt] = t
  BY <1>2 DEF WorkInv, At
<1>7. /\ WorkInv(t)' /\ th'[t].pt = th[t].pt /\ th'[t].pc \in {"descend", "search"}
      /\ ~Linked(t, 0)'
      /\ At(t, "search")' => th'[t].seen = {n}
  BY <1>2, <1>3, <1>4, <1>5, <1>6, FromWork
<1>8. Searching(t)
  <2>1. \A l \in Nat : ~Linked(t, l)
    BY <1>2 DEF Linked, At
  <2> QED
    BY <1>2, <1>3, <1>7, <2>1 DEF Searching, At, GraphInv, ListsInv
<1>9. \A f \in inserted : links[f][0] = {} /\ inserted = {f} => AboutToLink(t, f)'
  BY <1>4, <1>7
<1> QED
  BY <1>7, <1>8, <1>9, SearchingGraph

(* A search meets only nodes whose list at the level exists and whose own   *)
(* thread has linked them there.                                            *)
LEMMA NeighboursReady ==
    ASSUME ControlInv, GraphInv, NEW l \in Nat, NEW S, S \subseteq Ready(l)
    PROVE  Neighbours(S, l) \subseteq Ready(l)
<1>1. SUFFICES ASSUME NEW x \in S, NEW m \in IF l \in DOMAIN links[x] THEN links[x][l] ELSE {}
               PROVE  m \in Ready(l)
  BY DEF Neighbours
<1>2. x \in Nodes
  BY DEF Ready
<1>3. l \in 0 .. levels[x] /\ m \in links[x][l]
  BY <1>1, <1>2 DEF GraphInv, ListsInv
<1> QED
  BY <1>2, <1>3 DEF GraphInv, ListsInv

(* A search finds only nodes that lists of its level may hold. *)
LEMMA VisitGraph ==
    ASSUME ControlInv, GraphInv, NEW t \in Threads, visit(t)
    PROVE  ListsInv' /\ (\A s \in Threads : WorkInv(s)') /\ MutualInv' /\ ConnectedInv'
<1> USE DEF AboutToLink
<1>1. PICK n \in Neighbours(th[t].seen, th[t].level) :
         Goes(t, Search(t, th[t].nearest, th[t].level, th[t].seen \cup {n}))
  BY DEF visit
<1>2. /\ At(t, "search") /\ UNCHANGED <<levels, links, pruned, inserted, locks>>
      /\ WorkInv(t)
  BY DEF visit, hnsw, GraphInv
<1>3. /\ th'[t] = Search(t, th[t].nearest, th[t].level, th[t].seen \cup {n})
      /\ \A s \in Threads : s # t => th'[s] = th[s]
  BY <1>1, GoesTo DEF ControlInv, TypeInv
<1>4. /\ th'[t].pc = "search" /\ th'[t].pt = th[t].pt /\ th'[t].nearest = th[t].nearest
      /\ th'[t].level = th[t].level /\ th'[t].seen = th[t].seen \cup {n}
  BY <1>3 DEF Search
<1>5. /\ th[t].level \in Levels /\ th[t].level \in Nat /\ th[t].nearest \in inserted
      /\ th[t].level <= levels[th[t].nearest] /\ ~(th[t].level > PtLevel(t))
      /\ th[t].seen \subseteq Ready(th[t].level) /\ locks[th[t].pt] = t
  BY <1>2, WorkTypes DEF WorkInv, At, Linking, Touched
<1>6. n \in Ready(th[t].level)
  BY <1>1, <1>5, NeighboursReady
<1>7. Searching(t)
  BY <1>2, <1>3, <1>4 DEF Searching, At, GraphInv, ListsInv, Linked
<1>8. WorkInv(t)'
  <2>1. Ready(th[t].level) \subseteq Ready(th[t].level)'
    <3>1. \A l \in Nat : Ready(l) \subseteq Ready(l)'
      BY <1>7, ReadyGrows DEF Searching
    <3> QED
      BY <1>4, <1>5, <3>1
  <2>2. Touched(t)' = th[t].seen \cup {n} /\ PtLevel(t)' = PtLevel(t)
    BY <1>2, <1>4 DEF Touched, At, PtLevel
  <2>3. Touched(t)' \subseteq Ready(th[t].level)'
    BY <1>5, <1>6, <2>1, <2>2
  <2> QED
    BY <1>2, <1>4, <1>5, <2>2, <2>3 DEF WorkInv, At
<1>9. \A f \in inserted : links[f][0] = {} /\ inserted = {f} => AboutToLink(t, f)'
  <2>1. SUFFICES ASSUME NEW f \in inserted, links[f][0] = {}, th[t].level = 0
                 PROVE  th'[t].seen \subseteq {f}
    BY <1>4
  <2>2. th[t].seen \subseteq {f}
    BY <1>2, <2>1 DEF GraphInv, ConnectedInv
  <2>3. Neighbours(th[t].seen, 0) = {}
    BY <2>1, <2>2 DEF Neighbours
  <2> QED
    BY <1>1, <2>1, <2>3
<1> QED
  BY <1>7, <1>8, <1>9, SearchingGraph

(* The copy that is read under the lock is the list. *)
LEMMA LockOtherGraph ==
    ASSUME ControlInv, GraphInv, NEW t \in Threads, lock_other(t)
    PROVE  ListsInv' /\ (\A s \in Threads : WorkInv(s)') /\ MutualInv' /\ ConnectedInv'
<1> USE DEF AboutToLink
<1>1. PICK n \in th[t].todo :
        /\ locks[n] = NoThread
        /\ locks' = [locks EXCEPT ![n] = t]
        /\ Goes(t, [pc |-> "write", pt |-> th[t].pt, nearest |-> th[t].nearest,
                    level |-> th[t].level, todo |-> th[t].todo \ {n},
                    other |-> n, old |-> links[n][th[t].level]])
  BY DEF lock_other, MayLock
<1>2. /\ At(t, "reverse") /\ UNCHANGED <<levels, links, pruned, inserted>>
      /\ WorkInv(t)
  BY DEF lock_other, hnsw, GraphInv
<1>3. /\ th'[t] = [pc |-> "write", pt |-> th[t].pt, nearest |-> th[t].nearest,
                    level |-> th[t].level, todo |-> th[t].todo \ {n},
                    other |-> n, old |-> links[n][th[t].level]]
      /\ \A s \in Threads : s # t => th'[s] = th[s]
  BY <1>1, GoesTo DEF ControlInv, TypeInv
<1>4. /\ th'[t].pc = "write" /\ th'[t].pt = th[t].pt /\ th'[t].nearest = th[t].nearest
      /\ th'[t].level = th[t].level /\ th'[t].todo = th[t].todo \ {n}
      /\ th'[t].other = n /\ th'[t].old = links[n][th[t].level]
  BY <1>3
<1>5. /\ Touched(t) = th[t].todo /\ Touched(t)' = th[t].todo /\ PtLevel(t)' = PtLevel(t)
      /\ n \in Nodes
  <2>1. Touched(t) = th[t].todo
    BY <1>2 DEF Touched, At
  <2>2. Touched(t)' = th[t].todo
    BY <1>1, <1>4 DEF Touched, At
  <2>3. Touched(t) \subseteq Nodes
    BY <1>2, WorkTypes DEF At, Linking
  <2> QED
    BY <1>1, <1>2, <1>4, <2>1, <2>2, <2>3 DEF PtLevel
<1>6. /\ locks' = [m \in Nodes |-> locks'[m]] /\ locks'[n] = t
      /\ \A m \in Nodes : m # n => locks'[m] = locks[m]
  BY <1>1, <1>5 DEF GraphInv, ListsInv
<1>7. Searching(t)
  <2>1. \A m \in Nodes : /\ locks'[m] \in Threads \cup {NoThread}
                         /\ \A s \in Threads : s # t /\ locks[m] = s => locks'[m] = s
    BY <1>1, <1>6, ThreadsAssumption DEF GraphInv, ListsInv
  <2>2. \A l \in Nat : Linked(t, l) => Linked(t, l)'
    BY <1>2, <1>4 DEF Linked, At
  <2>3. Linked(t, 0)' => Linked(t, 0)
    BY <1>2, <1>4 DEF Linked, At
  <2> QED
    BY <1>2, <1>3, <1>4, <1>5, <1>6, <2>1, <2>2, <2>3 DEF Searching, At
<1>8. WorkInv(t)'
  <2>0. th[t].level \in Nat
    BY <1>2, WorkTypes DEF At, Linking
  <2>1. Ready(th[t].level) \subseteq Ready(th[t].level)'
    <3>1. \A l \in Nat : Ready(l) \subseteq Ready(l)'
      BY <1>7, ReadyGrows DEF Searching
    <3> QED
      BY <1>4, <2>0, <3>1
  <2>2. Touched(t)' \subseteq Ready(th[t].level)'
    BY <1>2, <1>5, <2>1 DEF WorkInv, At, Linking
  <2>3. /\ th[t].level \in Levels /\ th[t].nearest \in inserted
        /\ th[t].level <= levels[th[t].nearest] /\ ~(th[t].level > PtLevel(t))
        /\ \A m \in Touched(t) :
              /\ th[t].pt \notin links[m][th[t].level]
              /\ m \in links[th[t].pt][th[t].level] \/ <<th[t].pt, th[t].level>> \in pruned
    BY <1>2 DEF WorkInv, At, Linking
  <2>4. /\ th'[t].level \in Levels /\ th'[t].nearest \in inserted'
        /\ th'[t].level <= levels'[th'[t].nearest] /\ ~(th'[t].level > PtLevel(t)')
    BY <1>2, <1>4, <1>5, <2>3
  <2>5. \A m \in Touched(t)' :
              /\ th'[t].pt \notin links'[m][th'[t].level]
              /\ \/ m \in links'[th'[t].pt][th'[t].level]
                 \/ <<th'[t].pt, th'[t].level>> \in pruned'
    BY <1>2, <1>4, <1>5, <2>3
  <2>6. /\ locks'[th'[t].other] = t /\ th'[t].old = links'[th'[t].other][th'[t].level]
        /\ th'[t].other \notin th'[t].todo
    BY <1>2, <1>4, <1>6
  <2> QED
    BY <1>4, <2>2, <2>4, <2>5, <2>6 DEF WorkInv, At
<1>9. \A f \in inserted : links[f][0] = {} /\ inserted = {f} => AboutToLink(t, f)'
  BY <1>2, <1>4, <1>5 DEF GraphInv, ConnectedInv, At
<1> QED
  BY <1>7, <1>8, <1>9, SearchingGraph

(* The next level down begins at the same nearest node. *)
LEMMA RelockGraph ==
    ASSUME ControlInv, GraphInv, NEW t \in Threads, relock(t)
    PROVE  ListsInv' /\ (\A s \in Threads : WorkInv(s)') /\ MutualInv' /\ ConnectedInv'
<1> USE DEF AboutToLink
<1> DEFINE l == th[t].level
           next == Search(t, th[t].nearest, l - 1, {th[t].nearest})
           done == [pc |-> "raise", pt |-> th[t].pt]
<1>1. /\ At(t, "reverse") /\ UNCHANGED <<levels, links, pruned, inserted>>
      /\ th[t].todo = {} /\ locks[th[t].pt] = NoThread
      /\ locks' = [locks EXCEPT ![th[t].pt] = OwnLock(t)]
      /\ Goes(t, IF l > 0 THEN next ELSE done)
      /\ WorkInv(t)
  BY DEF relock, hnsw, GraphInv, NextNearest
<1>2. /\ th'[t] = IF l > 0 THEN next ELSE done
      /\ \A s \in Threads : s # t => th'[s] = th[s]
  BY <1>1, GoesTo DEF ControlInv, TypeInv
<1>3. th'[t].pt = th[t].pt
  BY <1>2 DEF Search
<1>4. /\ l \in Levels /\ l \in Nat /\ th[t].nearest \in inserted /\ th[t].pt \in Nodes
      /\ levels[th[t].nearest] \in Nat /\ l <= levels[th[t].nearest]
      /\ PtLevel(t) \in Nat /\ ~(l > PtLevel(t))
      /\ th[t].nearest \in Nodes
  BY <1>1, WorkTypes, LevelsAreNumbers DEF WorkInv, At, Linking, ControlInv
<1>5. l > 0 => /\ th'[t].pc = "search" /\ th'[t].level = l - 1
               /\ th'[t].nearest = th[t].nearest /\ th'[t].seen = {th[t].nearest}
  BY <1>2 DEF Search
<1>6. ~(l > 0) => th'[t].pc = "raise" /\ l = 0
  BY <1>2, <1>4
<1>7. /\ locks' = [m \in Nodes |-> locks'[m]] /\ locks'[th[t].pt] = OwnLock(t)
      /\ \A m \in Nodes : m # th[t].pt => locks'[m] = locks[m]
  BY <1>1, <1>4 DEF GraphInv, ListsInv
<1>8. Searching(t)
  <2>1. \A m \in Nodes : /\ locks'[m] \in Threads \cup {NoThread}
                         /\ \A s \in Threads : s # t /\ locks[m] = s => locks'[m] = s
    BY <1>1, <1>7, ThreadsAssumption DEF GraphInv, ListsInv, OwnLock
  <2>2. \A k \in Nat : Linked(t, k) => Linked(t, k)'
    BY <1>1, <1>4, <1>5, <1>6 DEF Linked, At
  <2>3. Linked(t, 0)' => Linked(t, 0)
    BY <1>1, <1>4, <1>5, <1>6 DEF Linked, At
  <2>4. Touched(t) = {}
    BY <1>1 DEF Touched, At
  <2> QED
    BY <1>1, <1>2, <1>3, <1>7, <2>1, <2>2, <2>3, <2>4 DEF Searching, At
<1>9. WorkInv(t)'
  <2>1. CASE l > 0
    <3>1. Touched(t)' = {th[t].nearest} /\ PtLevel(t)' = PtLevel(t)
      BY <1>1, <1>3, <1>5, <2>1 DEF Touched, At, PtLevel
    <3>2. Touched(t)' \subseteq Ready(th[t].level)'
      BY <1>1, <1>4, <1>5, <2>1, <3>1 DEF Ready
    <3>3. l - 1 \in Levels /\ l - 1 <= levels[th[t].nearest] /\ ~(l - 1 > PtLevel(t))
      BY <1>4, <2>1, BoundsAssumption DEF Levels
    <3>4. locks'[th[t].pt] = t
      BY <1>7, <2>1 DEF OwnLock
    <3> QED
      BY <1>1, <1>3, <1>4, <1>5, <2>1, <3>1, <3>2, <3>3, <3>4 DEF WorkInv, At
  <2>2. CASE ~(l > 0)
    BY <1>6, <2>2 DEF WorkInv, At, Linking
  <2> QED
    BY <2>1, <2>2
<1>10. \A f \in inserted : links[f][0] = {} /\ inserted = {f} => AboutToLink(t, f)'
  <2>1. SUFFICES ASSUME NEW f \in inserted, links[f][0] = {}, inserted = {f}
                 PROVE  l > 0
    BY <1>4, <1>5
  <2>2. l = 0 => f \in Touched(t)
    BY <1>1, <2>1 DEF GraphInv, ConnectedInv, At
  <2>3. Touched(t) = {}
    BY <1>1 DEF Touched, At
  <2> QED
    BY <1>4, <2>2, <2>3
<1> QED
  BY <1>8, <1>9, <1>10, SearchingGraph

-----------------------------------------------------------------------------
(* The two steps that write lists. *)

(* A list is only ever made longer, or pruned to what it may hold; it never *)
(* gets empty.                                                              *)
LEMMA WithLinksFacts ==
    ASSUME NEW old, NEW added, added # {}, NEW l \in Levels, NEW new \in WithLinks(old, added, l)
    PROVE  /\ new \subseteq old \cup added
           /\ new # {}
           /\ Cardinality(new) <= Cap[l]
           /\ \A m : <<m, l>> \notin Pruned(old, added, m, l) => new = old \cup added
<1>0. Cap[l] \in Nat
  BY BoundsAssumption
<1>1. CASE Cardinality(old \cup added) <= Cap[l]
  BY <1>1 DEF WithLinks
<1>2. CASE ~(Cardinality(old \cup added) <= Cap[l])
  <2>1. new \in SUBSET (old \cup added) /\ Cardinality(new) \in 1 .. Cap[l]
    BY <1>2 DEF WithLinks
  <2>2. new # {}
    BY <2>1, FS_EmptySet
  <2>3. \A m : <<m, l>> \in Pruned(old, added, m, l)
    BY <1>2 DEF Pruned
  <2>4. Cardinality(new) <= Cap[l]
    BY <1>0, <2>1
  <2> QED
    BY <1>2, <2>1, <2>2, <2>3, <2>4
<1> QED
  BY <1>1, <1>2

(* What link does: the list of a fresh node becomes its targets.            *)
LEMMA LinkStep ==
    ASSUME ControlInv, GraphInv, NEW t \in Threads, link(t)
    PROVE  \E targets \in SUBSET th[t].seen :
              /\ targets # {} /\ Cardinality(targets) <= Cap[th[t].level]
              /\ links' = [links EXCEPT ![th[t].pt][th[t].level] = targets]
              /\ pruned' = pruned
              /\ locks' = [locks EXCEPT ![th[t].pt] = NoThread]
              /\ th'[t].pc = "reverse" /\ th'[t].pt = th[t].pt
              /\ th'[t].nearest = th[t].nearest /\ th'[t].level = th[t].level
              /\ th'[t].todo = targets
<1> DEFINE pt == th[t].pt
           l == th[t].level
<1>0. At(t, "search")
  BY DEF link
<1>1. links[pt][l] = {} /\ l \in Levels
  BY <1>0, SearchIsFresh, WorkTypes DEF At, Linking
<1>2. PICK targets \in SUBSET th[t].seen :
         /\ Cardinality(targets) \in 1 .. Cap[l]
         /\ \E new \in WithLinks(links[pt][l], targets, l) :
               links' = [links EXCEPT ![pt][l] = new]
         /\ pruned' = pruned \cup Pruned(links[pt][l], targets, pt, l)
         /\ locks' = [locks EXCEPT ![pt] = NoThread]
         /\ Goes(t, [pc |-> "reverse", pt |-> pt, nearest |-> th[t].nearest,
                     level |-> l, todo |-> targets])
  BY DEF link
<1>3. targets # {} /\ Cardinality(targets) <= Cap[l]
  <2>1. Cap[l] \in Nat
    BY <1>1, BoundsAssumption
  <2>2. Cardinality(targets) >= 1 /\ Cardinality(targets) <= Cap[l]
    BY <1>2, <2>1
  <2>3. Cardinality({}) = 0
    BY FS_EmptySet
  <2> QED
    BY <2>2, <2>3
<1>4. {} \cup targets = targets
  OBVIOUS
<1>5. WithLinks(links[pt][l], targets, l) = {targets}
  BY <1>1, <1>3, <1>4 DEF WithLinks
<1>6. Pruned(links[pt][l], targets, pt, l) = {}
  BY <1>1, <1>3, <1>4 DEF Pruned
<1>7. th'[t] = [pc |-> "reverse", pt |-> pt, nearest |-> th[t].nearest,
                level |-> l, todo |-> targets]
  BY <1>2, GoesTo DEF ControlInv, TypeInv
<1>8. links' = [links EXCEPT ![pt][l] = targets] /\ pruned' = pruned
  BY <1>2, <1>5, <1>6
<1>9. /\ th'[t].pc = "reverse" /\ th'[t].pt = pt /\ th'[t].nearest = th[t].nearest
      /\ th'[t].level = l /\ th'[t].todo = targets
  BY <1>7
<1> QED
  BY <1>2, <1>3, <1>8, <1>9

Replaces(n, l, new) == links' = [links EXCEPT ![n][l] = new]

(* One list is replaced, the others stay. *)
LEMMA OneList ==
    ASSUME ListsInv, TypeInv, NEW n \in Nodes, NEW l \in 0 .. levels[n], NEW new,
           Replaces(n, l, new)
    PROVE  /\ links' = [m \in Nodes |-> [k \in 0 .. levels[m] |-> links'[m][k]]]
           /\ links'[n][l] = new
           /\ \A m \in Nodes : \A k \in 0 .. levels[m] :
                 m # n \/ k # l => links'[m][k] = links[m][k]
<1>1. links = [m \in Nodes |-> [k \in 0 .. levels[m] |-> links[m][k]]]
  BY DEF ListsInv
<1>2. /\ DOMAIN links = Nodes
      /\ \A m \in Nodes : /\ DOMAIN links[m] = 0 .. levels[m]
                          /\ links[m] = [k \in 0 .. levels[m] |-> links[m][k]]
  BY <1>1
<1>3. links' = [links EXCEPT ![n] = [links[n] EXCEPT ![l] = new]]
  BY DEF Replaces
<1>4. /\ links'[n] = [links[n] EXCEPT ![l] = new]
      /\ \A m \in Nodes : m # n => links'[m] = links[m]
      /\ links' = [m \in Nodes |-> links'[m]]
  BY <1>2, <1>3
<1>5. links'[n][l] = new /\ \A k \in 0 .. levels[n] : k # l => links'[n][k] = links[n][k]
  BY <1>2, <1>4
<1>6. links'[n] = [k \in 0 .. levels[n] |-> links'[n][k]]
  BY <1>2, <1>4
<1>7. \A m \in Nodes : links'[m] = [k \in 0 .. levels[m] |-> links'[m][k]]
  BY <1>2, <1>4, <1>6
<1>8. links' = [m \in Nodes |-> [k \in 0 .. levels[m] |-> links'[m][k]]]
  BY <1>4, <1>7
<1> QED
  BY <1>4, <1>5, <1>8

(* The links of a node to its targets, all of which it will link back. *)
LEMMA LinkGraph ==
    ASSUME ControlInv, GraphInv, NEW t \in Threads, link(t)
    PROVE  ListsInv' /\ (\A s \in Threads : WorkInv(s)') /\ MutualInv' /\ ConnectedInv'
<1> USE DEF AboutToLink, Pending
<1>0. PICK targets \in SUBSET th[t].seen :
              /\ targets # {} /\ Cardinality(targets) <= Cap[th[t].level]
              /\ links' = [links EXCEPT ![th[t].pt][th[t].level] = targets]
              /\ pruned' = pruned
              /\ locks' = [locks EXCEPT ![th[t].pt] = NoThread]
              /\ th'[t].pc = "reverse" /\ th'[t].pt = th[t].pt
              /\ th'[t].nearest = th[t].nearest /\ th'[t].level = th[t].level
              /\ th'[t].todo = targets
  BY LinkStep
<1>1. /\ At(t, "search") /\ WorkInv(t) /\ MiddleStep(t)
      /\ UNCHANGED <<levels, inserted>> /\ \A s \in Threads : s # t => th'[s] = th[s]
  BY WorkIsMiddle DEF link, GraphInv, MiddleStep, Work, ControlInv
<1> DEFINE pt == th[t].pt
           l == th[t].level
<1>2. /\ pt \in Nodes /\ pt \notin inserted /\ l \in Levels /\ l \in Nat /\ l \in 0 .. levels[pt]
      /\ pt \notin Ready(l) /\ pt \notin th[t].seen /\ links[pt][l] = {}
      /\ PtLevel(t) \in Nat /\ locks[pt] = t
      /\ th[t].seen \subseteq Ready(l)
  BY <1>1, SearchIsFresh, WorkTypes DEF At, Linking, WorkInv, Touched
<1>3. /\ links' = [m \in Nodes |-> [k \in 0 .. levels[m] |-> links'[m][k]]]
      /\ links'[pt][l] = targets
      /\ \A m \in Nodes : \A k \in 0 .. levels[m] :
            m # pt \/ k # l => links'[m][k] = links[m][k]
  <2>1. ListsInv /\ TypeInv
    BY DEF GraphInv, ControlInv
  <2>2. Replaces(pt, l, targets)
    BY <1>0 DEF Replaces
  <2>3. pt \in Nodes /\ l \in 0 .. levels[pt]
    BY <1>2
  <2> HIDE DEF pt, l
  <2> QED
    BY <2>1, <2>2, <2>3, OneList
<1>4. /\ locks' = [m \in Nodes |-> locks'[m]] /\ locks'[pt] = NoThread
      /\ \A m \in Nodes : m # pt => locks'[m] = locks[m]
  BY <1>0, <1>2 DEF GraphInv, ListsInv
<1>5. \A k \in Nat : Linked(t, k) => Linked(t, k)'
  BY <1>0, <1>1, <1>2 DEF Linked, At
<1>6. \A k \in Nat : Ready(k) \subseteq Ready(k)'
  BY <1>0, <1>1, <1>5, ReadyGrows
<1>7. \A m \in Nodes : levels[m] \in Nat
  BY LevelsAreNumbers DEF ControlInv
<1>8. \A s \in Threads : s # t /\ Active(s) => th[s].pt # pt
  BY <1>1 DEF ControlInv, ThreadInv, Active, At
<1>9. Touched(t)' = targets /\ targets \subseteq Nodes
  BY <1>0, <1>2 DEF Touched, At, Ready
<1>10. ListsInv'
  <2>1. pt \in Ready(l)'
    BY <1>0, <1>1, <1>2 DEF Ready, Linked
  <2>2. targets \subseteq Ready(l)'
    BY <1>0, <1>2, <1>6
  <2>3. ASSUME NEW n \in Nodes, NEW k \in 0 .. levels[n]
        PROVE  /\ links'[n][k] \subseteq Ready(k)'
               /\ links'[n][k] # {} => n \in Ready(k)'
               /\ Cardinality(links'[n][k]) <= Cap[k]
    <3>1. CASE n = pt /\ k = l
      <4>1. Ready(k)' = Ready(l)'
        BY <1>0, <3>1 DEF Ready
      <4> QED
        BY <1>0, <1>3, <2>1, <2>2, <3>1, <4>1
    <3>2. CASE n # pt \/ k # l
      <4>1. links'[n][k] = links[n][k] /\ k \in Nat
        BY <1>3, <3>2
      <4> QED
        BY <1>6, <4>1 DEF GraphInv, ListsInv
    <3> QED
      BY <3>1, <3>2
  <2>4. \A n \in Nodes : locks'[n] \in Threads \cup {NoThread}
    BY <1>4 DEF GraphInv, ListsInv
  <2> QED
    BY <1>1, <1>3, <1>4, <2>3, <2>4 DEF ListsInv
<1>11. ASSUME NEW s \in Threads, s # t PROVE WorkInv(s)'
  <2>0. th'[s] = th[s] /\ WorkInv(s)
    BY <1>1, <1>11 DEF GraphInv
  <2>1. \A n \in Nodes : locks[n] = s => locks'[n] = s
    BY <1>2, <1>4, <1>11
  <2>2. th[s].pc \in Linking => Ready(th[s].level) \subseteq Ready(th[s].level)'
    BY <1>6, <2>0, WorkTypes
  <2>3. ASSUME At(s, "write")
        PROVE  links'[th[s].other][th[s].level] = links[th[s].other][th[s].level]
    <3>1. th[s].other \in Touched(s) /\ locks[th[s].other] = s
      BY <2>0, <2>3 DEF Touched, At, WorkInv
    <3>2. th[s].other \in Nodes /\ th[s].level \in 0 .. levels[th[s].other]
      BY <2>3, <3>1, WorkTypes DEF At, Linking
    <3>3. th[s].other # pt
      BY <1>2, <1>11, <3>1
    <3> QED
      BY <1>3, <3>2, <3>3
  <2>4. ASSUME th[s].pc \in {"reverse", "write"}, NEW n \in Touched(s)
        PROVE  /\ th[s].pt \notin links'[n][th[s].level]
               /\ \/ n \in links'[th[s].pt][th[s].level]
                  \/ <<th[s].pt, th[s].level>> \in pruned'
    <3>1. /\ n \in Nodes /\ th[s].level \in 0 .. levels[n]
          /\ th[s].pt \in Nodes /\ th[s].level \in 0 .. levels[th[s].pt]
          /\ Active(s) /\ n \in Ready(th[s].level)
      BY <2>0, <2>4, WorkTypes DEF At, Linking, Active, WorkInv
    <3>2. n # pt \/ th[s].level # l
      BY <1>2, <3>1
    <3>3. links'[n][th[s].level] = links[n][th[s].level]
      BY <1>3, <3>1, <3>2
    <3>4. links'[th[s].pt][th[s].level] = links[th[s].pt][th[s].level]
      BY <1>3, <1>8, <1>11, <3>1
    <3> QED
      BY <1>0, <2>0, <2>4, <3>3, <3>4 DEF WorkInv
  <2> QED
    BY <1>1, <2>0, <2>1, <2>2, <2>3, <2>4, OtherKept
<1>12. WorkInv(t)'
  <2>1. /\ th'[t].level \in Levels /\ th'[t].nearest \in inserted'
        /\ th'[t].level <= levels'[th'[t].nearest] /\ ~(th'[t].level > PtLevel(t)')
    BY <1>0, <1>1 DEF WorkInv, At, Linking, PtLevel
  <2>2. Touched(t)' \subseteq Ready(th[t].level)'
    <3>1. th[t].seen \subseteq Ready(th[t].level)'
      BY <1>0, <1>2, <1>6
    <3> QED
      BY <1>9, <3>1
  <2>3. ASSUME NEW n \in targets PROVE pt \notin links'[n][l] /\ n \in links'[pt][l]
    <3>1. n \in Nodes /\ n # pt /\ n \in Ready(l)
      BY <1>0, <1>2, <1>9
    <3>2. l \in 0 .. levels[n]
      BY <1>2, <1>7, <3>1 DEF Ready
    <3>3. links'[n][l] = links[n][l] /\ links[n][l] \subseteq Ready(l)
      BY <1>3, <3>1, <3>2 DEF GraphInv, ListsInv
    <3> QED
      BY <1>2, <1>3, <3>3
  <2> QED
    BY <1>0, <1>9, <2>1, <2>2, <2>3 DEF WorkInv, At
<1>13. MutualInv'
  <2>1. SUFFICES ASSUME NEW m \in Nodes, NEW n \in Nodes, NEW k \in 0 .. levels[m],
                        n \in links'[m][k]
                 PROVE  \/ m \in links'[n][k]
                        \/ <<n, k>> \in pruned'
                        \/ Pending(m, n, k)'
    BY <1>1 DEF MutualInv
  <2>2. CASE m = pt /\ k = l
    BY <1>0, <1>3, <1>9, <2>1, <2>2
  <2>3. CASE m # pt \/ k # l
    <3>1. n \in links[m][k]
      BY <1>3, <2>1, <2>3
    <3>2. CASE m \in links[n][k]
      <4>1. n \in Ready(k)
        BY <2>1, <3>1 DEF GraphInv, ListsInv
      <4>2. k \in 0 .. levels[n]
        BY <1>7, <4>1 DEF Ready
      <4>3. n # pt \/ k # l
        BY <1>2, <3>2
      <4> QED
        BY <1>3, <3>2, <4>2, <4>3
    <3>3. CASE <<n, k>> \in pruned
      BY <1>0, <3>3
    <3>4. ASSUME NEW s \in Threads, th[s].pc \in {"reverse", "write"}, th[s].pt = m,
                 th[s].level = k, n \in Touched(s)
          PROVE  /\ th'[s].pc \in {"reverse", "write"} /\ th'[s].pt = m
                 /\ th'[s].level = k /\ n \in Touched(s)'
      <4>1. th'[s] = th[s]
        BY <1>1, <3>4 DEF At
      <4> QED
        BY <3>4, <4>1 DEF Touched, At
    <3> QED
      BY <3>1, <3>2, <3>3, <3>4 DEF GraphInv, MutualInv
  <2> QED
    BY <2>2, <2>3
<1>14. ConnectedInv'
  <2>1. ASSUME NEW s \in Threads, Linked(s, 0)' PROVE links'[th'[s].pt][0] # {}
    <3>1. CASE s = t
      <4>1. l = 0
        BY <1>0, <1>2, <2>1, <3>1 DEF Linked, At
      <4> QED
        BY <1>0, <1>3, <3>1, <4>1
    <3>2. CASE s # t
      <4>1. th'[s] = th[s] /\ Linked(s, 0) /\ Active(s)
        BY <1>1, <2>1, <3>2 DEF Linked, At, Active
      <4>2. th[s].pt \in Nodes /\ 0 \in 0 .. levels[th[s].pt]
        BY <1>7, <4>1 DEF ControlInv, TypeInv
      <4>3. links'[th[s].pt][0] = links[th[s].pt][0]
        BY <1>3, <1>8, <3>2, <4>1, <4>2
      <4> QED
        BY <4>1, <4>3 DEF GraphInv, ConnectedInv
    <3> QED
      BY <3>1, <3>2
  <2>2. ASSUME NEW f \in inserted', links'[f][0] = {}
        PROVE  /\ inserted' = {f}
               /\ \A s \in Threads : AboutToLink(s, f)'
    <3>1. f \in inserted /\ f \in Nodes /\ f # pt /\ 0 \in 0 .. levels[f]
      BY <1>1, <1>2, <1>7, <2>2 DEF ControlInv, TypeInv
    <3>2. links[f][0] = {}
      BY <1>3, <2>2, <3>1
    <3>3. inserted = {f} /\ (l = 0 => th[t].seen \subseteq {f})
      BY <1>1, <3>1, <3>2 DEF GraphInv, ConnectedInv
    <3>4. l = 0 => f \in targets
      BY <1>0, <3>3
    <3>5. ASSUME NEW s \in Threads
          PROVE  AboutToLink(s, f)'
      <4>1. CASE s = t
        BY <1>0, <1>9, <3>4, <4>1 DEF At
      <4>2. CASE s # t
        <5>1. th'[s] = th[s]
          BY <1>1, <4>2
        <5> QED
          BY <3>1, <3>2, <5>1 DEF GraphInv, ConnectedInv, Touched, At
      <4> QED
        BY <4>1, <4>2
    <3> QED
      BY <1>1, <3>3, <3>5
  <2> QED
    BY <2>1, <2>2 DEF ConnectedInv
<1> QED
  BY <1>10, <1>11, <1>12, <1>13, <1>14

(* What link_back does. *)
LEMMA LinkBackStep ==
    ASSUME ControlInv, GraphInv, NEW t \in Threads, link_back(t)
    PROVE  \E new \in WithLinks(th[t].old, {th[t].pt}, th[t].level) :
              /\ links' = [links EXCEPT ![th[t].other][th[t].level] = new]
              /\ pruned' = pruned \cup Pruned(th[t].old, {th[t].pt}, th[t].other, th[t].level)
              /\ locks' = [locks EXCEPT ![th[t].other] = NoThread]
              /\ th'[t].pc = "reverse" /\ th'[t].pt = th[t].pt
              /\ th'[t].nearest = th[t].nearest /\ th'[t].level = th[t].level
              /\ th'[t].todo = th[t].todo
<1>1. Goes(t, [pc |-> "reverse", pt |-> th[t].pt, nearest |-> th[t].nearest,
               level |-> th[t].level, todo |-> th[t].todo])
  BY DEF link_back
<1>2. th'[t] = [pc |-> "reverse", pt |-> th[t].pt, nearest |-> th[t].nearest,
                level |-> th[t].level, todo |-> th[t].todo]
  BY <1>1, GoesTo DEF ControlInv, TypeInv
<1>3. /\ th'[t].pc = "reverse" /\ th'[t].pt = th[t].pt
      /\ th'[t].nearest = th[t].nearest /\ th'[t].level = th[t].level
      /\ th'[t].todo = th[t].todo
  BY <1>2
<1> QED
  BY <1>3 DEF link_back

(* A reverse link, entered under the lock of the list it goes to. *)
LEMMA LinkBackGraph ==
    ASSUME ControlInv, GraphInv, NEW t \in Threads, link_back(t)
    PROVE  ListsInv' /\ (\A s \in Threads : WorkInv(s)') /\ MutualInv' /\ ConnectedInv'
<1> USE DEF AboutToLink, Pending
<1> DEFINE pt == th[t].pt
           l == th[t].level
           other == th[t].other
           old == th[t].old
<1>0. PICK new \in WithLinks(old, {pt}, l) :
              /\ links' = [links EXCEPT ![other][l] = new]
              /\ pruned' = pruned \cup Pruned(old, {pt}, other, l)
              /\ locks' = [locks EXCEPT ![other] = NoThread]
              /\ th'[t].pc = "reverse" /\ th'[t].pt = pt
              /\ th'[t].nearest = th[t].nearest /\ th'[t].level = l
              /\ th'[t].todo = th[t].todo
  BY LinkBackStep
<1>1. /\ At(t, "write") /\ WorkInv(t) /\ MiddleStep(t)
      /\ UNCHANGED <<levels, inserted>> /\ \A s \in Threads : s # t => th'[s] = th[s]
  BY WorkIsMiddle DEF link_back, GraphInv, MiddleStep, Work, ControlInv
<1>2. /\ Touched(t) = th[t].todo \cup {other} /\ other \notin th[t].todo
      /\ Touched(t)' = th[t].todo
      /\ old = links[other][l] /\ locks[other] = t
      /\ Touched(t) \subseteq Ready(l)
  BY <1>0, <1>1 DEF Touched, At, WorkInv, Linking
<1>3. /\ pt \in Nodes /\ l \in Levels /\ l \in Nat /\ l \in 0 .. levels[pt]
      /\ PtLevel(t) \in Nat
      /\ other \in Nodes /\ l \in 0 .. levels[other]
      /\ \A n \in Touched(t) : n \in Nodes /\ l \in 0 .. levels[n]
  BY <1>1, <1>2, WorkTypes DEF At, Linking
<1>4. /\ links' = [m \in Nodes |-> [k \in 0 .. levels[m] |-> links'[m][k]]]
      /\ links'[other][l] = new
      /\ \A m \in Nodes : \A k \in 0 .. levels[m] :
            m # other \/ k # l => links'[m][k] = links[m][k]
  <2>1. ListsInv /\ TypeInv
    BY DEF GraphInv, ControlInv
  <2>2. Replaces(other, l, new)
    BY <1>0 DEF Replaces
  <2>3. other \in Nodes /\ l \in 0 .. levels[other]
    BY <1>3
  <2> HIDE DEF other, l
  <2> QED
    BY <2>1, <2>2, <2>3, OneList
<1>5. /\ locks' = [m \in Nodes |-> locks'[m]] /\ locks'[other] = NoThread
      /\ \A m \in Nodes : m # other => locks'[m] = locks[m]
  BY <1>0, <1>3 DEF GraphInv, ListsInv
<1>6. /\ new \subseteq old \cup {pt} /\ new # {} /\ Cardinality(new) <= Cap[l]
      /\ <<other, l>> \notin pruned' => new = old \cup {pt}
      /\ pruned \subseteq pruned'
  <2>1. {pt} # {}
    OBVIOUS
  <2>2. /\ new \subseteq old \cup {pt} /\ new # {} /\ Cardinality(new) <= Cap[l]
        /\ <<other, l>> \notin Pruned(old, {pt}, other, l) => new = old \cup {pt}
    <3> DEFINE added == {pt}
    <3>1. new \in WithLinks(old, added, l) /\ l \in Levels /\ added # {}
      BY <1>0, <1>3
    <3> SUFFICES /\ new \subseteq old \cup added /\ new # {} /\ Cardinality(new) <= Cap[l]
                 /\ <<other, l>> \notin Pruned(old, added, other, l) => new = old \cup added
      OBVIOUS
    <3> HIDE DEF pt, l, old, other, added
    <3> QED
      BY <3>1, WithLinksFacts
  <2> QED
    BY <1>0, <2>2
<1>7. \A k \in Nat : Ready(k) \subseteq Ready(k)'
  <2>1. \A k \in Nat : Linked(t, k) => Linked(t, k)'
    BY <1>0, <1>1 DEF Linked, At
  <2> QED
    BY <1>0, <1>1, <2>1, ReadyGrows
<1>8. \A m \in Nodes : levels[m] \in Nat
  BY LevelsAreNumbers DEF ControlInv
<1>9. \A s \in Threads : s # t /\ Active(s) => th[s].pt # pt
  BY <1>1 DEF ControlInv, ThreadInv, Active, At
<1>10. pt \in Ready(l) /\ other \in Ready(l) /\ old \subseteq Ready(l)
  <2>1. pt \in Ready(l)
    <3>1. Linked(t, l)
      BY <1>1, <1>3 DEF Linked, At
    <3>2. levels[pt] >= l
      BY <1>3
    <3> QED
      BY <1>3, <3>1, <3>2 DEF Ready
  <2> QED
    BY <1>2, <1>3, <2>1 DEF GraphInv, ListsInv
(* what a list holds stays there, unless it is pruned *)
<1>11. \A n \in Nodes : \A k \in 0 .. levels[n] : \A x \in links[n][k] :
          x \in links'[n][k] \/ <<n, k>> \in pruned'
  <2>1. SUFFICES ASSUME NEW n \in Nodes, NEW k \in 0 .. levels[n], NEW x \in links[n][k]
                 PROVE  x \in links'[n][k] \/ <<n, k>> \in pruned'
    OBVIOUS
  <2>2. CASE n = other /\ k = l
    BY <1>2, <1>4, <1>6, <2>2
  <2>3. CASE n # other \/ k # l
    BY <1>4, <2>3
  <2> QED
    BY <2>2, <2>3
<1>12. ListsInv'
  <2>1. ASSUME NEW n \in Nodes, NEW k \in 0 .. levels[n]
        PROVE  /\ links'[n][k] \subseteq Ready(k)'
               /\ links'[n][k] # {} => n \in Ready(k)'
               /\ Cardinality(links'[n][k]) <= Cap[k]
    <3>1. CASE n = other /\ k = l
      <4>1. Ready(k) \subseteq Ready(k)'
        BY <1>7
      <4>2. new \subseteq Ready(k) /\ other \in Ready(k)
        BY <1>6, <1>10, <3>1
      <4> QED
        BY <1>4, <1>6, <3>1, <4>1, <4>2
    <3>2. CASE n # other \/ k # l
      <4>1. links'[n][k] = links[n][k] /\ k \in Nat
        BY <1>4, <3>2
      <4> QED
        BY <1>7, <4>1 DEF GraphInv, ListsInv
    <3> QED
      BY <3>1, <3>2
  <2>2. \A n \in Nodes : locks'[n] \in Threads \cup {NoThread}
    BY <1>5 DEF GraphInv, ListsInv
  <2> QED
    BY <1>1, <1>4, <1>5, <2>1, <2>2 DEF ListsInv
<1>13. ASSUME NEW s \in Threads, s # t PROVE WorkInv(s)'
  <2>0. th'[s] = th[s] /\ WorkInv(s)
    BY <1>1, <1>13 DEF GraphInv
  <2>1. \A n \in Nodes : locks[n] = s => locks'[n] = s
    BY <1>2, <1>5, <1>13
  <2>2. th[s].pc \in Linking => Ready(th[s].level) \subseteq Ready(th[s].level)'
    BY <1>7, <2>0, WorkTypes
  <2>3. ASSUME At(s, "write")
        PROVE  links'[th[s].other][th[s].level] = links[th[s].other][th[s].level]
    <3>1. th[s].other \in Touched(s) /\ locks[th[s].other] = s
      BY <2>0, <2>3 DEF Touched, At, WorkInv
    <3>2. th[s].other \in Nodes /\ th[s].level \in 0 .. levels[th[s].other]
      BY <2>3, <3>1, WorkTypes DEF At, Linking
    <3>3. th[s].other # other
      BY <1>2, <1>13, <3>1
    <3> QED
      BY <1>4, <3>2, <3>3
  <2>4. ASSUME th[s].pc \in {"reverse", "write"}, NEW n \in Touched(s)
        PROVE  /\ th[s].pt \notin links'[n][th[s].level]
               /\ \/ n \in links'[th[s].pt][th[s].level]
                  \/ <<th[s].pt, th[s].level>> \in pruned'
    <3>1. /\ n \in Nodes /\ th[s].level \in 0 .. levels[n]
          /\ th[s].pt \in Nodes /\ th[s].level \in 0 .. levels[th[s].pt]
          /\ Active(s)
      BY <2>4, WorkTypes DEF At, Linking, Active
    <3>2. th[s].pt # pt
      BY <1>9, <1>13, <3>1
    <3>3. links'[n][th[s].level] \subseteq links[n][th[s].level] \cup {pt}
      <4>1. CASE n = other /\ th[s].level = l
        BY <1>2, <1>4, <1>6, <4>1
      <4>2. CASE n # other \/ th[s].level # l
        BY <1>4, <3>1, <4>2
      <4> QED
        BY <4>1, <4>2
    <3>4. /\ th[s].pt \notin links[n][th[s].level]
          /\ \/ n \in links[th[s].pt][th[s].level]
             \/ <<th[s].pt, th[s].level>> \in pruned
      BY <2>0, <2>4 DEF WorkInv
    <3> QED
      BY <1>6, <1>11, <3>1, <3>2, <3>3, <3>4
  <2> QED
    BY <1>1, <2>0, <2>1, <2>2, <2>3, <2>4, OtherKept
<1>14. WorkInv(t)'
  <2>1. /\ th'[t].level \in Levels /\ th'[t].nearest \in inserted'
        /\ th'[t].level <= levels'[th'[t].nearest] /\ ~(th'[t].level > PtLevel(t)')
    BY <1>0, <1>1 DEF WorkInv, At, Linking, PtLevel
  <2>2. Touched(t)' \subseteq Ready(th[t].level)'
    <3>1. Ready(th[t].level) \subseteq Ready(th[t].level)'
      BY <1>0, <1>3, <1>7
    <3> QED
      BY <1>2, <3>1
  <2>3. ASSUME NEW n \in th[t].todo
        PROVE  pt \notin links'[n][l] /\ (n \in links'[pt][l] \/ <<pt, l>> \in pruned')
    <3>1. n \in Nodes /\ l \in 0 .. levels[n] /\ n # other
      BY <1>2, <1>3
    <3>2. pt \notin links[n][l] /\ (n \in links[pt][l] \/ <<pt, l>> \in pruned)
      BY <1>1, <1>2 DEF WorkInv, At
    <3> QED
      BY <1>3, <1>4, <1>6, <1>11, <3>1, <3>2
  <2> QED
    BY <1>0, <1>2, <2>1, <2>2, <2>3 DEF WorkInv, At
<1>15. MutualInv'
  <2>1. SUFFICES ASSUME NEW m \in Nodes, NEW n \in Nodes, NEW k \in 0 .. levels[m],
                        n \in links'[m][k]
                 PROVE  \/ m \in links'[n][k]
                        \/ <<n, k>> \in pruned'
                        \/ Pending(m, n, k)'
    BY <1>1 DEF MutualInv
  <2>2. CASE m = other /\ k = l /\ n = pt
    <3>1. other \in links[pt][l] \/ <<pt, l>> \in pruned
      BY <1>1, <1>2 DEF WorkInv, At
    <3> QED
      BY <1>3, <1>6, <1>11, <2>2, <3>1
  <2>3. CASE n \in links[m][k]
    <3>1. n \in Ready(k)
      BY <2>1, <2>3 DEF GraphInv, ListsInv
    <3>2. k \in 0 .. levels[n]
      BY <1>8, <3>1 DEF Ready
    <3>3. CASE m \in links[n][k]
      BY <1>11, <3>2, <3>3
    <3>4. CASE <<n, k>> \in pruned
      BY <1>6, <3>4
    <3>5. ASSUME NEW s \in Threads, th[s].pc \in {"reverse", "write"}, th[s].pt = m,
                 th[s].level = k, n \in Touched(s)
          PROVE  \/ m \in links'[n][k]
                 \/ <<n, k>> \in pruned'
                 \/ Pending(m, n, k)'
      <4>1. CASE s # t
        <5>1. th'[s] = th[s]
          BY <1>1, <4>1
        <5>2. Touched(s)' = Touched(s)
          BY <5>1 DEF Touched, At
        <5> QED
          BY <3>5, <5>1, <5>2
      <4>2. CASE s = t /\ n = other
        BY <1>4, <1>6, <3>5, <4>2
      <4>3. CASE s = t /\ n \in th[t].todo
        BY <1>0, <1>2, <3>5, <4>3
      <4> QED
        BY <1>2, <3>5, <4>1, <4>2, <4>3
    <3> QED
      BY <2>1, <2>3, <3>3, <3>4, <3>5 DEF GraphInv, MutualInv
  <2>4. n \in links[m][k] \/ (m = other /\ k = l /\ n = pt)
    BY <1>2, <1>4, <1>6, <2>1
  <2> QED
    BY <2>2, <2>3, <2>4
<1>16. ConnectedInv'
  <2>1. ASSUME NEW s \in Threads, Linked(s, 0)' PROVE links'[th'[s].pt][0] # {}
    <3>1. Linked(s, 0) /\ Active(s) /\ th'[s].pt = th[s].pt
      BY <1>0, <1>1, <2>1 DEF Linked, At, Active
    <3>2. th[s].pt \in Nodes /\ 0 \in 0 .. levels[th[s].pt]
      BY <1>8, <3>1 DEF ControlInv, TypeInv
    <3>3. links[th[s].pt][0] # {}
      BY <3>1 DEF GraphInv, ConnectedInv
    <3> QED
      BY <1>4, <1>6, <3>1, <3>2, <3>3
  <2>2. ASSUME NEW f \in inserted', links'[f][0] = {}
        PROVE  /\ inserted' = {f}
               /\ \A s \in Threads : AboutToLink(s, f)'
    <3>1. f \in inserted /\ f \in Nodes /\ 0 \in 0 .. levels[f]
      BY <1>1, <1>8, <2>2 DEF ControlInv, TypeInv
    <3>2. links[f][0] = {} /\ (f # other \/ l # 0)
      BY <1>4, <1>6, <2>2, <3>1
    <3>3. inserted = {f} /\ (l = 0 => f \in Touched(t))
      BY <1>1, <3>1, <3>2 DEF GraphInv, ConnectedInv, At
    <3>4. l = 0 => f \in th[t].todo
      BY <1>2, <3>2, <3>3
    <3>5. ASSUME NEW s \in Threads
          PROVE  AboutToLink(s, f)'
      <4>1. CASE s = t
        BY <1>0, <1>2, <3>4, <4>1 DEF At
      <4>2. CASE s # t
        <5>1. th'[s] = th[s]
          BY <1>1, <4>2
        <5> QED
          BY <3>1, <3>2, <5>1 DEF GraphInv, ConnectedInv, Touched, At
      <4> QED
        BY <4>1, <4>2
    <3> QED
      BY <1>1, <3>3, <3>5
  <2> QED
    BY <2>1, <2>2 DEF ConnectedInv
<1> QED
  BY <1>12, <1>13, <1>14, <1>15, <1>16

-----------------------------------------------------------------------------
(* The graph layer is inductive. *)

(* All lists are empty. *)
LEMMA InitGraph ==
    ASSUME ~AnyLevels, Init
    PROVE  GraphInv
<1>1. \A t \in Threads : th[t].pc = "idle"
  BY DEF Init, Idle
<1>2. RaisedBySmallGroups(levels)
  BY Zenon DEF Init
<1>3. LevelInv
  BY <1>1, <1>2 DEF LevelInv, At, Init
<1>4. /\ links = [n \in Nodes |-> [l \in 0 .. levels[n] |-> {}]]
      /\ locks = [n \in Nodes |-> NoThread]
      /\ inserted = {}
  BY DEF Init
<1>5. \A n \in Nodes : \A l \in 0 .. levels[n] : links[n][l] = {}
  BY <1>4
<1>6. \A n \in Nodes : \A l \in 0 .. levels[n] : Cardinality(links[n][l]) <= Cap[l]
  <2>1. TypeInv
    BY InitControl DEF ControlInv
  <2>2. \A n \in Nodes : levels[n] \in 0 .. MaxLevel
    BY <2>1 DEF TypeInv, Levels
  <2>3. \A n \in Nodes : \A l \in 0 .. levels[n] : Cap[l] \in Nat
    BY <2>2, BoundsAssumption DEF Levels
  <2> QED
    BY <1>5, <2>3, FS_EmptySet
<1>7. links = [n \in Nodes |-> [l \in 0 .. levels[n] |-> links[n][l]]]
  BY <1>4, <1>5
<1>8. ListsInv
  BY <1>4, <1>5, <1>6, <1>7 DEF ListsInv
<1>9. \A t \in Threads : WorkInv(t)
  BY <1>1 DEF WorkInv, At, Linking
<1>10. MutualInv /\ ConnectedInv
  BY <1>1, <1>4, <1>5 DEF MutualInv, ConnectedInv, Linked, At
<1> QED
  BY <1>3, <1>8, <1>9, <1>10 DEF GraphInv

(* Every step keeps the graph invariant. *)
LEMMA GraphStep ==
    ASSUME ControlInv, GraphInv, [Next]_vars
    PROVE  GraphInv'
<1>1. LevelInv'
  <2>1. CASE add_batch
    BY <2>1, AddBatchLevel DEF GraphInv
  <2>2. CASE next_group
    BY <2>2, NextGroupLevel DEF GraphInv
  <2>3. ASSUME NEW t \in Threads, add_with_locks(t) PROVE LevelInv'
    BY <2>3, ThreadLevel DEF GraphInv
  <2>4. CASE UNCHANGED vars
    BY <2>4 DEF GraphInv, LevelInv, RaisedBySmallGroups, Raising, Reached, At, vars, hnsw, control
  <2> QED
    BY <2>1, <2>2, <2>3, <2>4 DEF Next
<1>2. ListsInv' /\ (\A t \in Threads : WorkInv(t)') /\ MutualInv' /\ ConnectedInv'
  <2>1. CASE Quiet
    BY <2>1, QuietGraph
  <2>2. ASSUME NEW t \in Threads, Work(t)
        PROVE  ListsInv' /\ (\A s \in Threads : WorkInv(s)') /\ MutualInv' /\ ConnectedInv'
    BY <2>2, LockOwnGraph, DescendGraph, VisitGraph, LinkGraph, LockOtherGraph,
       LinkBackGraph, RelockGraph DEF Work
  <2>3. Quiet \/ \E t \in Threads : Work(t)
    BY QuietSteps DEF Next, add_with_locks, Work
  <2> QED
    BY <2>1, <2>2, <2>3
<1> QED
  BY <1>1, <1>2 DEF GraphInv

-----------------------------------------------------------------------------
(* What the graph layer shows. *)

(* Without a large group that raises the maximum level, both layers hold.   *)
THEOREM GraphInvariant ==
    ASSUME ~AnyLevels
    PROVE  Spec => [](ControlInv /\ GraphInv)
<1>1. Init => ControlInv /\ GraphInv
  BY InitControl, InitGraph
<1>2. ControlInv /\ GraphInv /\ [Next]_vars => (ControlInv /\ GraphInv)'
  BY ControlStep, GraphStep
<1> QED
  BY <1>1, <1>2, PTL DEF Spec

(* No list outgrows its part of the array, and no two threads insert the    *)
(* same node.                                                               *)
THEOREM TypeCorrect ==
    ASSUME ~AnyLevels
    PROVE  Spec => []TypeOK
<1>1. ControlInv /\ GraphInv => TypeOK
  <2>1. SUFFICES ASSUME ControlInv, GraphInv PROVE TypeOK
    OBVIOUS
  <2>2. ASSUME NEW n \in Nodes
        PROVE  /\ DOMAIN links[n] = 0 .. levels[n]
               /\ \A l \in DOMAIN links[n] :
                     links[n][l] \subseteq Nodes /\ Cardinality(links[n][l]) <= Cap[l]
    <3>1. links[n] = [l \in 0 .. levels[n] |-> links[n][l]]
      BY <2>1 DEF GraphInv, ListsInv
    <3>2. DOMAIN links[n] = 0 .. levels[n]
      BY <3>1
    <3> QED
      BY <2>1, <3>2 DEF GraphInv, ListsInv, Ready
  <2>3. /\ max_level \in -1 .. MaxLevel /\ batch \in 0 .. Len(Batches)
        /\ waiting \subseteq Nodes /\ inserted \subseteq Nodes
        /\ critical \in Threads \cup {NoThread}
        /\ entry_point \in Nodes \cup {NoNode}
    BY <2>1 DEF ControlInv, TypeInv, EntryInv
  <2>4. \A n \in Nodes : locks[n] \in Threads \cup {NoThread}
    BY <2>1 DEF GraphInv, ListsInv
  <2>5. \A s, t \in Threads : s # t /\ ~At(s, "idle") /\ ~At(t, "idle") => th[s].pt # th[t].pt
    BY <2>1 DEF ControlInv, ThreadInv, Active
  <2> QED
    BY <2>2, <2>3, <2>4, <2>5 DEF TypeOK
<1> QED
  BY <1>1, GraphInvariant, PTL

(* A thread that searches or links at a level touches only nodes that have  *)
(* this level, so it stays within the lists of the node it means.           *)
THEOREM LevelsExistInvariant ==
    ASSUME ~AnyLevels
    PROVE  Spec => []LevelsExist
<1>1. ControlInv /\ GraphInv => LevelsExist
  <2>1. SUFFICES ASSUME ControlInv, GraphInv, NEW t \in Threads, th[t].pc \in Linking,
                        NEW n \in {th[t].pt, th[t].nearest}
                                  \cup (IF At(t, "search") THEN th[t].seen ELSE th[t].todo)
                 PROVE  th[t].level <= levels[n]
    BY DEF LevelsExist
  <2>2. WorkInv(t) /\ th[t].pc \in {"descend"} \cup Linking /\ ~At(t, "descend")
    BY <2>1 DEF GraphInv, Linking, At
  <2>3. CASE n = th[t].pt
    <3>1. th[t].level \in Nat /\ PtLevel(t) \in Nat /\ ~(th[t].level > PtLevel(t))
      BY <2>1, <2>2, WorkTypes DEF WorkInv
    <3> QED
      BY <2>3, <3>1 DEF PtLevel
  <2>4. CASE n = th[t].nearest
    BY <2>2, <2>4 DEF WorkInv
  <2>5. CASE n \in Touched(t)
    <3>1. th[t].level \in Nat /\ levels[n] >= th[t].level /\ n \in Nodes
      BY <2>1, <2>2, <2>5, WorkTypes
    <3>2. levels[n] \in Nat
      BY <2>1, <3>1, LevelsAreNumbers DEF ControlInv
    <3> QED
      BY <3>1, <3>2
  <2>6. n \in {th[t].pt, th[t].nearest} \cup Touched(t)
    BY <2>1 DEF Touched, At, Linking
  <2> QED
    BY <2>3, <2>4, <2>5, <2>6
<1> QED
  BY <1>1, GraphInvariant, PTL

(* Whoever enters a link finds that it is not there yet: a node is found at *)
(* a level only after its own search there, so neither it nor one it has    *)
(* found can have linked the two before.                                    *)
THEOREM LinksAreNewInvariant ==
    ASSUME ~AnyLevels
    PROVE  Spec => []LinksAreNew
<1>1. ControlInv /\ GraphInv => LinksAreNew
  <2>1. SUFFICES ASSUME ControlInv, GraphInv, NEW t \in Threads
                 PROVE  /\ At(t, "search") => /\ th[t].pt \notin th[t].seen
                                              /\ links[th[t].pt][th[t].level] = {}
                        /\ At(t, "write") => th[t].pt \notin th[t].old
    BY DEF LinksAreNew
  <2>2. At(t, "write") => th[t].pt \notin th[t].old
    <3>1. WorkInv(t)
      BY <2>1 DEF GraphInv
    <3>2. At(t, "write") => th[t].other \in Touched(t)
      BY DEF Touched, At
    <3> QED
      BY <3>1, <3>2 DEF WorkInv, At
  <2> QED
    BY <2>1, <2>2, SearchIsFresh
<1> QED
  BY <1>1, GraphInvariant, PTL

(* Between two calls links are mutual, except where a list was pruned: the  *)
(* locks and the copy that is read under them lose no reverse link.         *)
THEOREM NoLinkLostInvariant ==
    ASSUME ~AnyLevels
    PROVE  Spec => []NoLinkLost
<1> USE DEF Pending
<1>1. ControlInv /\ GraphInv => NoLinkLost
  <2>1. SUFFICES ASSUME ControlInv, GraphInv, group = -1, NEW m \in Nodes, NEW n \in Nodes,
                        NEW l \in DOMAIN links[m], n \in links[m][l]
                 PROVE  m \in links[n][l] \/ <<n, l>> \in pruned
    BY DEF NoLinkLost
  <2>2. l \in 0 .. levels[m]
    <3>1. links[m] = [k \in 0 .. levels[m] |-> links[m][k]]
      BY <2>1 DEF GraphInv, ListsInv
    <3> QED
      BY <2>1, <3>1
  <2>3. \A t \in Threads : th[t].pc \notin {"reverse", "write"}
    BY <2>1 DEF ControlInv, ThreadInv, Active, At
  <2> QED
    BY <2>1, <2>2, <2>3 DEF GraphInv, MutualInv
<1> QED
  BY <1>1, GraphInvariant, PTL

(* Between two calls every inserted node has a neighbour at level 0, unless *)
(* it is the only one, even after an interrupted call.                      *)
THEOREM NoNodeLeftAloneInvariant ==
    ASSUME ~AnyLevels
    PROVE  Spec => []NoNodeLeftAlone
<1>1. ControlInv /\ GraphInv => NoNodeLeftAlone
  <2>1. SUFFICES ASSUME GraphInv, Cardinality(inserted) > 1,
                        NEW n \in inserted, links[n][0] = {}
                 PROVE  FALSE
    BY DEF NoNodeLeftAlone
  <2>2. inserted = {n}
    BY <2>1 DEF GraphInv, ConnectedInv
  <2> QED
    BY <2>1, <2>2, FS_Singleton
<1> QED
  BY <1>1, GraphInvariant, PTL
===============================================================================

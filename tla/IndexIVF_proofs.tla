---------------------------- MODULE IndexIVF_proofs ----------------------------
(***************************************************************************)
(* Proofs about IndexIVF for any number of lists, threads, ids and vectors *)
(* and any other index to merge.                                           *)
(***************************************************************************)
EXTENDS IndexIVF, FiniteSetTheorems, FunctionTheorems, SequenceTheorems, TLAPS

-----------------------------------------------------------------------------
(* The inductive invariant, first layer: the order of a batch. *)

Stored == [id : Nat, code : Nat]
Vec == [id : Nat, list : Nat \cup {-1}, code : Nat]
LO == [list : Int, ofs : Int]

(* inverted lists with numbers from 0 *)
IsLists(ls) ==
    /\ IsFiniteSet(DOMAIN ls)
    /\ DOMAIN ls = 0 .. (Cardinality(DOMAIN ls) - 1)
    /\ ls \in [DOMAIN ls -> Seq(Stored)]

AddCalls ==
    [op : {"add"}, vecs : Seq(Vec), base : Nat, todo : [Ranks -> SUBSET Nat],
     all_ofs : Seq(LO)]
ScanCalls == [op : {"scan"}, sel : SUBSET Ids]
RemoveCalls == [op : {"remove"}, rest : Seq(Ids), nremove : Nat, then : Seq(Vec)]
UpdateCalls == [op : {"update"}, rest : Seq(Vec)]

IsConcat(c) ==
    /\ c = [op |-> "concat", add_id |-> c.add_id, flat |-> c.flat, new_lists |-> c.new_lists]
    /\ c.add_id \in Nat
    /\ c.flat \in BOOLEAN
    /\ IsLists(c.new_lists)

Numbered(vecs) ==
    \A i \in DOMAIN vecs : vecs[i].code = nadded - Len(vecs) + i

InRange(vecs) == \A i \in DOMAIN vecs : vecs[i].list \in DOMAIN lists \cup {-1}

CallInv ==
    \/ call = Idle
    \/ /\ call \in AddCalls
       /\ DOMAIN call.all_ofs = DOMAIN call.vecs
       /\ Numbered(call.vecs) /\ InRange(call.vecs)
    \/ call \in ScanCalls
    \/ call \in RemoveCalls /\ Numbered(call.then) /\ InRange(call.then)
    \/ /\ call \in UpdateCalls
       /\ \A k \in DOMAIN call.rest : call.rest[k].code <= nadded
    \/ IsConcat(call)

ShapeInv ==
    /\ IsLists(lists)
    /\ nadded \in 0 .. MaxAdded
    /\ other = [lists |-> other.lists, ntotal |-> other.ntotal]
    /\ IsLists(other.lists)
    /\ CallInv

(* codes of vectors that this index has not given out, or only before the   *)
(* batch of the call                                                        *)
Old(ls, n) ==
    \A l \in DOMAIN ls : \A p \in DOMAIN ls[l] : ls[l][p].code <= n \/ ls[l][p].code > MaxAdded

CodeInv ==
    /\ Old(other.lists, 0)
    /\ call.op = "concat" => Old(call.new_lists, nadded)
    /\ call.op = "remove" => Old(lists, nadded - Len(call.then))
    /\ call.op # "add" => Old(lists, nadded)

(* the vectors a thread has still to enter come after those it has entered *)
TodoInv ==
    call.op = "add" =>
        \A r \in Ranks :
            /\ \A j \in call.todo[r] : /\ j \in DOMAIN call.vecs
                                       /\ Owner(j, call.vecs[j].list) = r
            /\ \A i \in DOMAIN call.vecs \ call.todo[r] :
                  Owner(i, call.vecs[i].list) = r => \A j \in call.todo[r] : i < j

(* an entry of the batch is a vector that was entered into its list *)
IsEntered(l, p) ==
    LET i == lists[l][p].code - (nadded - Len(call.vecs))
    IN  /\ i \in DOMAIN call.vecs
        /\ lists[l][p] = Entry(call.vecs[i])
        /\ call.vecs[i].list = l
        /\ \A r \in Ranks : i \notin call.todo[r]

IsInOrder(l, p) ==
    \/ lists[l][p].code <= nadded - Len(call.vecs)
    \/ lists[l][p].code > MaxAdded
    \/ /\ IsEntered(l, p)
       /\ \A q \in p + 1 .. Len(lists[l]) :
             lists[l][q].code <= MaxAdded => lists[l][p].code < lists[l][q].code

BatchInv ==
    call.op = "add" =>
        \A l \in DOMAIN lists : \A p \in DOMAIN lists[l] : IsInOrder(l, p)

OrderInv == ShapeInv /\ CodeInv /\ TodoInv /\ BatchInv

-----------------------------------------------------------------------------
(* The inductive invariant, second layer: ids, map and counts. *)

(* an id is in one place *)
Unique(ls) ==
    \A l, m \in DOMAIN ls : \A p \in DOMAIN ls[l], q \in DOMAIN ls[m] :
        ls[l][p].id = ls[m][q].id => l = m /\ p = q

Holds(ls, id) == \E l \in DOMAIN ls : \E p \in DOMAIN ls[l] : ls[l][p].id = id

(* every entry is found by its id *)
Forward(M, ls) ==
    \A l \in DOMAIN ls : \A p \in DOMAIN ls[l] :
        /\ ls[l][p].id \in DOMAIN M
        /\ M[ls[l][p].id] = lo_build(l, p - 1)

(* what is found for an id is the entry with that id *)
IsPlaceOf(lo, ls, id) ==
    \E l \in DOMAIN ls : \E p \in DOMAIN ls[l] :
        lo = lo_build(l, p - 1) /\ ls[l][p].id = id

Backward(M, ls) ==
    \A id \in DOMAIN M : M[id] \in {Unassigned, NoEntry} \/ IsPlaceOf(M[id], ls, id)

MapInv ==
    /\ type \in {"NoMap", "Array", "Hashtable"}
    /\ type # "Array" => array = <<>> /\ ~partial
    /\ array \in Seq(LO)
    /\ type # "Hashtable" => hashtable = <<>>
    /\ partial \in BOOLEAN
    /\ type # "NoMap" => Backward(Map, lists) /\ (~partial => Forward(Map, lists))
    /\ type = "Hashtable" => /\ hashtable \in [DOMAIN hashtable -> LO]
                             /\ DOMAIN hashtable \subseteq Nat
                             /\ Backward(hashtable, lists)

Todo == UNION {call.todo[r] : r \in Ranks}

(* the ids of a batch are new and distinct until they are entered *)
AddIdsInv ==
    call.op = "add" =>
        /\ \A i, j \in DOMAIN call.vecs : call.vecs[i].id = call.vecs[j].id => i = j
        /\ \A i \in Todo : ~Holds(lists, call.vecs[i].id)
        /\ type = "Array" => /\ call.base = ntotal
                             /\ \A i \in DOMAIN call.vecs : call.vecs[i].id = call.base + i - 1
        /\ type = "Hashtable" => \A i \in DOMAIN call.vecs :
                                    i \in Todo \/ call.all_ofs[i] # NoEntry

(* update_vectors with a hash table: as long as every id was found, the ids *)
(* that were removed are distinct and gone                                  *)
RemoveInv ==
    call.op = "remove" =>
        /\ type = "Hashtable"
        /\ \A k \in DOMAIN call.rest : call.rest[k] \in DOMAIN hashtable =>
              hashtable[call.rest[k]].list # -1
        /\ call.then # <<>> =>
              LET n == Len(call.then) - Len(call.rest)
              IN  /\ n \in Nat
                  /\ call.nremove <= n
                  /\ \A k \in DOMAIN call.rest : call.rest[k] = call.then[n + k].id
                  /\ call.nremove = n =>
                        \A i \in 1 .. n :
                            /\ ~Holds(lists, call.then[i].id)
                            /\ \A j \in 1 .. (i - 1) : call.then[i].id # call.then[j].id

UpdateInv ==
    call.op = "update" =>
        /\ type = "Array" /\ ~partial
        /\ \A k \in DOMAIN call.rest :
              /\ call.rest[k].list \in DOMAIN lists
              /\ call.rest[k].id < Len(array) => array[call.rest[k].id + 1].list # -1

PendingPlaces == {x \in Places(other.lists) : x[1] \in Pending}

MergeInv ==
    /\ other.ntotal \in Nat
    /\ call.op # "concat" /\ other.ntotal > 0 =>
          Unique(other.lists) /\ other.ntotal = SizeOf(other.lists)
    /\ call.op \in {"scan", "concat"} => type = "NoMap"
    /\ call.op = "concat" =>
          /\ DOMAIN lists \subseteq DOMAIN call.new_lists
          /\ \A l \in DOMAIN lists : call.new_lists[l] = lists[l]
          /\ Unique(other.lists) /\ Unique(call.new_lists)
          /\ \A x \in PendingPlaces :
                ~Holds(call.new_lists, other.lists[x[1]][x[2]].id + call.add_id)
          /\ SizeOf(call.new_lists) + Cardinality(PendingPlaces) = SizeOf(lists) + other.ntotal

Entering == IF call.op = "add" THEN {i \in DOMAIN call.vecs \ Todo : call.vecs[i].list # -1} ELSE {}

CountInv ==
    /\ ntotal \in Nat /\ nlost \in Nat
    /\ ntotal + Cardinality(Entering) =
          SizeOf(lists) + nlost + (IF call.op = "remove" THEN call.nremove ELSE 0)
    /\ type = "Array" => Len(array) = ntotal + (IF call.op = "add" THEN Len(call.vecs) ELSE 0)

IdInv == Unique(lists) /\ MapInv /\ AddIdsInv /\ RemoveInv /\ UpdateInv /\ MergeInv /\ CountInv

IInv == OrderInv /\ IdInv

-----------------------------------------------------------------------------
(* Lists and places. *)

(* A list is a sequence of entries. *)
LEMMA ListIsSeq ==
    ASSUME NEW ls, IsLists(ls), NEW l \in DOMAIN ls
    PROVE  /\ ls[l] \in Seq(Stored)
           /\ Len(ls[l]) \in Nat
           /\ DOMAIN ls[l] = 1 .. Len(ls[l])
           /\ \A p \in DOMAIN ls[l] : ls[l][p] \in Stored
           /\ l \in Nat
<1>1. ls[l] \in Seq(Stored)
  BY DEF IsLists
<1>2. Cardinality(DOMAIN ls) \in Nat
  BY FS_CardinalityType DEF IsLists
<1>3. l \in 0 .. (Cardinality(DOMAIN ls) - 1)
  BY DEF IsLists
<1> QED
  BY <1>1, <1>2, <1>3

(* A place is a list and a position in it. *)
LEMMA PlacesAre ==
    ASSUME NEW ls
    PROVE  \A x : x \in Places(ls) <=> \E l \in DOMAIN ls : \E p \in DOMAIN ls[l] : x = <<l, p>>
BY DEF Places

(* The lists of an index have finitely many places. *)
LEMMA PlacesFinite ==
    ASSUME NEW ls, IsLists(ls)
    PROVE  IsFiniteSet(Places(ls)) /\ SizeOf(ls) \in Nat
<1> DEFINE Row(l) == {l} \X DOMAIN ls[l]
           rows == {Row(l) : l \in DOMAIN ls}
<1>1. IsFiniteSet(DOMAIN ls)
  BY DEF IsLists
<1>2. IsFiniteSet(rows)
  <2> DEFINE row == [l \in DOMAIN ls |-> Row(l)]
  <2>1. row \in Surjection(DOMAIN ls, rows)
    BY Fun_IsSurj
  <2> QED
    BY <1>1, <2>1, FS_Surjection
<1>3. ASSUME NEW row \in rows PROVE IsFiniteSet(row)
  <2>1. PICK l \in DOMAIN ls : row = {l} \X DOMAIN ls[l]
    OBVIOUS
  <2>2. Len(ls[l]) \in Nat /\ DOMAIN ls[l] = 1 .. Len(ls[l])
    BY ListIsSeq
  <2>3. IsFiniteSet(DOMAIN ls[l])
    BY <2>2, FS_Interval
  <2>4. IsFiniteSet({l})
    BY FS_Singleton
  <2> QED
    BY <2>1, <2>3, <2>4, FS_Product
<1>4. IsFiniteSet(UNION rows)
  <2> HIDE DEF rows
  <2> QED
    BY <1>2, <1>3, FS_UNION
<1>5. IsFiniteSet(Places(ls))
  BY <1>4 DEF Places
<1> QED
  BY <1>5, FS_CardinalityType DEF SizeOf

(* What an append does to the lists. *)
Appended(ls, l, e) == [ls EXCEPT ![l] = Append(@, e)]

LEMMA AppendedIs ==
    ASSUME NEW ls, IsLists(ls), NEW l \in DOMAIN ls, NEW e \in Stored
    PROVE  /\ IsLists(Appended(ls, l, e))
           /\ DOMAIN Appended(ls, l, e) = DOMAIN ls
           /\ \A m \in DOMAIN ls : m # l => Appended(ls, l, e)[m] = ls[m]
           /\ Len(Appended(ls, l, e)[l]) = Len(ls[l]) + 1
           /\ DOMAIN Appended(ls, l, e)[l] = 1 .. (Len(ls[l]) + 1)
           /\ \A p \in DOMAIN ls[l] : Appended(ls, l, e)[l][p] = ls[l][p]
           /\ Appended(ls, l, e)[l][Len(ls[l]) + 1] = e
           /\ Places(Appended(ls, l, e)) = Places(ls) \cup {<<l, Len(ls[l]) + 1>>}
           /\ SizeOf(Appended(ls, l, e)) = SizeOf(ls) + 1
<1> DEFINE new == Appended(ls, l, e)
<1>1. ls[l] \in Seq(Stored) /\ Len(ls[l]) \in Nat /\ DOMAIN ls[l] = 1 .. Len(ls[l])
  BY ListIsSeq
<1>2. /\ DOMAIN new = DOMAIN ls
      /\ new[l] = Append(ls[l], e)
      /\ \A m \in DOMAIN ls : m # l => new[m] = ls[m]
  BY DEF Appended, IsLists
<1>3. /\ new[l] \in Seq(Stored)
      /\ Len(new[l]) = Len(ls[l]) + 1
      /\ DOMAIN new[l] = 1 .. (Len(ls[l]) + 1)
      /\ \A p \in DOMAIN ls[l] : new[l][p] = ls[l][p]
      /\ new[l][Len(ls[l]) + 1] = e
  BY <1>1, <1>2
<1>4. IsLists(new)
  <2>1. new \in [DOMAIN ls -> Seq(Stored)]
    BY <1>3 DEF Appended, IsLists
  <2> QED
    BY <1>2, <2>1 DEF IsLists
<1> HIDE DEF new
<1>5. Places(new) = Places(ls) \cup {<<l, Len(ls[l]) + 1>>}
  <2>1. ASSUME NEW x \in Places(new) PROVE x \in Places(ls) \cup {<<l, Len(ls[l]) + 1>>}
    <3>1. PICK m \in DOMAIN new : \E p \in DOMAIN new[m] : x = <<m, p>>
      BY <2>1, PlacesAre
    <3>2. PICK p \in DOMAIN new[m] : x = <<m, p>>
      BY <3>1
    <3>3. m \in DOMAIN ls /\ (p \in DOMAIN ls[m] \/ (m = l /\ p = Len(ls[l]) + 1))
      BY <1>1, <1>2, <1>3, <3>1, <3>2
    <3> QED
      BY <3>2, <3>3, PlacesAre
  <2>2. ASSUME NEW x \in Places(ls) PROVE x \in Places(new)
    <3>1. PICK m \in DOMAIN ls : \E p \in DOMAIN ls[m] : x = <<m, p>>
      BY <2>2, PlacesAre
    <3>2. PICK p \in DOMAIN ls[m] : x = <<m, p>>
      BY <3>1
    <3>3. m \in DOMAIN new /\ p \in DOMAIN new[m]
      BY <1>1, <1>2, <1>3, <3>1, <3>2
    <3> QED
      BY <3>2, <3>3, PlacesAre
  <2>3. l \in DOMAIN new /\ Len(ls[l]) + 1 \in DOMAIN new[l]
    BY <1>1, <1>2, <1>3
  <2>4. <<l, Len(ls[l]) + 1>> \in Places(new)
    BY <2>3, PlacesAre
  <2> QED
    BY <2>1, <2>2, <2>4
<1>6. <<l, Len(ls[l]) + 1>> \notin Places(ls)
  <2> SUFFICES ASSUME <<l, Len(ls[l]) + 1>> \in Places(ls) PROVE FALSE
    OBVIOUS
  <2>1. \E m \in DOMAIN ls : \E p \in DOMAIN ls[m] : <<l, Len(ls[l]) + 1>> = <<m, p>>
    BY PlacesAre
  <2>2. Len(ls[l]) + 1 \in DOMAIN ls[l]
    BY <2>1
  <2> QED
    BY <1>1, <2>2
<1>7. SizeOf(new) = SizeOf(ls) + 1
  BY <1>5, <1>6, PlacesFinite, FS_AddElement DEF SizeOf
<1> QED
  BY <1>1, <1>2, <1>3, <1>4, <1>5, <1>7 DEF new

(* What taking an entry out does to the lists: the last one takes its place. *)
Cut(ls, l, ofs) == [ls EXCEPT ![l] = TakenOut(@, ofs)]

LEMMA CutIs ==
    ASSUME NEW ls, IsLists(ls), NEW l \in DOMAIN ls, NEW k \in DOMAIN ls[l]
    PROVE  /\ IsLists(Cut(ls, l, k - 1))
           /\ DOMAIN Cut(ls, l, k - 1) = DOMAIN ls
           /\ \A m \in DOMAIN ls : m # l => Cut(ls, l, k - 1)[m] = ls[m]
           /\ Len(Cut(ls, l, k - 1)[l]) = Len(ls[l]) - 1
           /\ DOMAIN Cut(ls, l, k - 1)[l] = 1 .. (Len(ls[l]) - 1)
           /\ \A p \in 1 .. (Len(ls[l]) - 1) :
                 Cut(ls, l, k - 1)[l][p] = IF p = k THEN ls[l][Len(ls[l])] ELSE ls[l][p]
           /\ Places(Cut(ls, l, k - 1)) = Places(ls) \ {<<l, Len(ls[l])>>}
           /\ SizeOf(Cut(ls, l, k - 1)) = SizeOf(ls) - 1
<1> DEFINE last == Len(ls[l])
           new == Cut(ls, l, k - 1)
<1>1. /\ ls[l] \in Seq(Stored) /\ last \in Nat \ {0} /\ DOMAIN ls[l] = 1 .. last
      /\ k \in 1 .. last
      /\ \A p \in 1 .. last : ls[l][p] \in Stored
  BY ListIsSeq
<1>2. /\ DOMAIN new = DOMAIN ls
      /\ new[l] = TakenOut(ls[l], k - 1)
      /\ \A m \in DOMAIN ls : m # l => new[m] = ls[m]
  BY DEF Cut, IsLists
<1>3. new[l] = [p \in 1 .. (last - 1) |-> IF p = k THEN ls[l][last] ELSE ls[l][p]]
  BY <1>1, <1>2 DEF TakenOut
<1>4. new[l] \in Seq(Stored) /\ Len(new[l]) = last - 1 /\ DOMAIN new[l] = 1 .. (last - 1)
  <2>1. last - 1 \in Nat
    BY <1>1
  <2>2. \A p \in 1 .. (last - 1) : (IF p = k THEN ls[l][last] ELSE ls[l][p]) \in Stored
    BY <1>1
  <2> HIDE DEF new, last
  <2>3. new[l] \in [1 .. (last - 1) -> Stored]
    BY <1>3, <2>2
  <2> QED
    BY <2>1, <2>3, IsASeq
<1>5. IsLists(new)
  <2>1. new \in [DOMAIN ls -> Seq(Stored)]
    BY <1>2, <1>4 DEF Cut, IsLists
  <2> QED
    BY <1>2, <2>1 DEF IsLists
<1> HIDE DEF new
<1>6. Places(new) = Places(ls) \ {<<l, last>>}
  <2>1. ASSUME NEW x \in Places(new) PROVE x \in Places(ls) \ {<<l, last>>}
    <3>1. PICK m \in DOMAIN new : \E p \in DOMAIN new[m] : x = <<m, p>>
      BY <2>1, PlacesAre
    <3>2. PICK p \in DOMAIN new[m] : x = <<m, p>>
      BY <3>1
    <3>3. m \in DOMAIN ls /\ p \in DOMAIN ls[m] /\ ~(m = l /\ p = last)
      BY <1>1, <1>2, <1>4, <3>1, <3>2
    <3> QED
      BY <3>2, <3>3, PlacesAre
  <2>2. ASSUME NEW x \in Places(ls) \ {<<l, last>>} PROVE x \in Places(new)
    <3>1. PICK m \in DOMAIN ls : \E p \in DOMAIN ls[m] : x = <<m, p>>
      BY <2>2, PlacesAre
    <3>2. PICK p \in DOMAIN ls[m] : x = <<m, p>>
      BY <3>1
    <3>3. m \in DOMAIN new /\ p \in DOMAIN new[m]
      BY <1>1, <1>2, <1>4, <2>2, <3>1, <3>2
    <3> QED
      BY <3>2, <3>3, PlacesAre
  <2> QED
    BY <2>1, <2>2
<1>7. <<l, last>> \in Places(ls)
  <2>1. last \in DOMAIN ls[l]
    BY <1>1
  <2> QED
    BY <2>1, PlacesAre
<1>8. SizeOf(new) = SizeOf(ls) - 1
  BY <1>6, <1>7, PlacesFinite, FS_RemoveElement DEF SizeOf
<1> QED
  BY <1>1, <1>2, <1>3, <1>4, <1>5, <1>6, <1>8 DEF new

-----------------------------------------------------------------------------
(* Scanning a list. *)

(* In a finite set of numbers there is, for every count below its size, a    *)
(* number that so many others exceed.                                        *)
LEMMA RankExists ==
    ASSUME NEW S \in SUBSET Nat, IsFiniteSet(S), NEW m \in Nat, m < Cardinality(S)
    PROVE  \E f \in S : Cardinality({g \in S : g > f}) = m
<1> DEFINE above(f) == {g \in S : g > f}
           n == Cardinality(S)
           rank == [f \in S |-> Cardinality(above(f))]
<1>1. n \in Nat
  BY FS_CardinalityType
<1>2. \A f \in S : IsFiniteSet(above(f)) /\ Cardinality(above(f)) \in Nat
  <2>1. SUFFICES ASSUME NEW f \in S PROVE IsFiniteSet(above(f))
    BY FS_CardinalityType
  <2>2. above(f) \in SUBSET S
    OBVIOUS
  <2> QED
    BY <2>2, FS_Subset
<1>3. ASSUME NEW f \in S PROVE Cardinality(above(f)) <= n - 1
  <2>1. above(f) \in SUBSET (S \ {f})
    OBVIOUS
  <2>2. IsFiniteSet(S \ {f}) /\ Cardinality(S \ {f}) = n - 1
    BY FS_RemoveElement
  <2> HIDE DEF above, n
  <2> QED
    BY <2>1, <2>2, FS_Subset
<1>4. rank \in [S -> 0 .. (n - 1)]
  <2> HIDE DEF above, n
  <2> QED
    BY <1>1, <1>2, <1>3
<1>5. ASSUME NEW f \in S, NEW h \in S, f < h PROVE Cardinality(above(h)) < Cardinality(above(f))
  <2>1. above(h) \in SUBSET above(f) /\ h \in above(f) /\ h \notin above(h)
    <3>1. f \in Nat /\ h \in Nat /\ f < h
      BY <1>5
    <3>2. \A g \in S : g > h => g > f
      BY <3>1
    <3>3. h > f /\ ~(h > h)
      BY <3>1
    <3> QED
      BY <3>2, <3>3, Zenon
  <2>2. above(h) # above(f)
    BY <2>1
  <2> HIDE DEF above
  <2>3. /\ Cardinality(above(h)) <= Cardinality(above(f))
        /\ Cardinality(above(f)) = Cardinality(above(h)) => above(f) = above(h)
    BY <1>2, <2>1, FS_Subset
  <2> QED
    BY <1>2, <2>2, <2>3
<1>6. \A f, h \in S : rank[f] = rank[h] => f = h
  <2>1. SUFFICES ASSUME NEW f \in S, NEW h \in S, f # h PROVE rank[f] # rank[h]
    OBVIOUS
  <2>2. f < h \/ h < f
    BY <2>1
  <2> HIDE DEF above
  <2> QED
    BY <1>2, <1>5, <2>2
<1>7. rank \in Injection(S, 0 .. (n - 1))
  <2> HIDE DEF rank, n
  <2> QED
    BY <1>4, <1>6, Fun_IsInj
<1>8. IsFiniteSet(0 .. (n - 1)) /\ Cardinality(0 .. (n - 1)) = n
  <2> HIDE DEF n
  <2> QED
    BY <1>1, FS_Interval
<1>9. rank \in Surjection(S, 0 .. (n - 1))
  <2> HIDE DEF rank
  <2>1. Cardinality(S) = Cardinality(0 .. (n - 1))
    BY <1>8
  <2> QED
    BY <1>7, <1>8, <2>1, FS_Injection
<1>10. m \in 0 .. (n - 1)
  BY <1>1
<1>11. \E f \in S : rank[f] = m
  <2> HIDE DEF rank
  <2>1. \A t \in 0 .. (n - 1) : \E f \in S : rank[f] = t
    BY <1>9 DEF Surjection
  <2> QED
    BY <1>10, <2>1
<1> QED
  BY <1>11

(* The scan keeps exactly the entries that are not selected, each once. *)
Kept(es, sel) == {p \in DOMAIN es : es[p].id \notin sel}

LEMMA CompactedIs ==
    ASSUME NEW es \in Seq(Stored), NEW sel
    PROVE  /\ Compacted(es, sel) \in Seq(Stored)
           /\ \E from \in Bijection(DOMAIN Compacted(es, sel), Kept(es, sel)) :
                 \A p \in DOMAIN Compacted(es, sel) : Compacted(es, sel)[p] = es[from[p]]
<1> DEFINE kept == {p \in DOMAIN es : es[p].id \notin sel}
           k == Cardinality(kept)
           low == kept \cap (1 .. k)
           high == kept \ (1 .. k)
           holes == (1 .. k) \ kept
           Above(f) == {g \in kept : g > f}
           Below(h) == {i \in holes : i < h}
           Filler(h) == CHOOSE f \in kept : Cardinality(Above(f)) = Cardinality(Below(h))
           from == [p \in 1 .. k |-> IF p \in kept THEN p ELSE Filler(p)]
<1>1. DOMAIN es = 1 .. Len(es) /\ Len(es) \in Nat /\ \A p \in DOMAIN es : es[p] \in Stored
  OBVIOUS
<1>2. IsFiniteSet(kept) /\ k \in Nat /\ kept \in SUBSET Nat
  <2>1. kept \in SUBSET (1 .. Len(es))
    BY <1>1
  <2>2. IsFiniteSet(1 .. Len(es))
    BY <1>1, FS_Interval
  <2>3. IsFiniteSet(kept)
    <3> HIDE DEF kept
    <3> QED
      BY <2>1, <2>2, FS_Subset
  <2> QED
    BY <1>1, <2>3, FS_CardinalityType
<1> HIDE DEF kept, k
<1>3. IsFiniteSet(1 .. k) /\ Cardinality(1 .. k) = k
  BY <1>2, FS_Interval
<1>4. /\ IsFiniteSet(holes) /\ IsFiniteSet(high)
      /\ Cardinality(holes) = k - Cardinality(low)
      /\ Cardinality(high) = k - Cardinality(low)
      /\ Cardinality(low) \in Nat
  <2>1. (1 .. k) \cap kept = low /\ kept \cap (1 .. k) = low
    OBVIOUS
  <2>2. IsFiniteSet(low)
    BY <1>2, FS_Intersection
  <2>3. Cardinality(holes) = Cardinality(1 .. k) - Cardinality((1 .. k) \cap kept)
        /\ IsFiniteSet(holes)
    BY <1>3, FS_Difference
  <2>4. Cardinality(high) = Cardinality(kept) - Cardinality(kept \cap (1 .. k))
        /\ IsFiniteSet(high)
    BY <1>2, FS_Difference
  <2> QED
    BY <1>3, <2>1, <2>2, <2>3, <2>4, FS_CardinalityType DEF k
<1> HIDE DEF low, high, holes
<1>5. ASSUME NEW h \in holes
      PROVE  /\ IsFiniteSet(Below(h)) /\ Cardinality(Below(h)) \in Nat
             /\ Cardinality(Below(h)) < Cardinality(high)
  <2>1. Below(h) \in SUBSET (holes \ {h})
    <3>1. holes \subseteq Nat
      BY <1>2 DEF holes
    <3> QED
      BY <3>1
  <2>2. IsFiniteSet(holes \ {h}) /\ Cardinality(holes \ {h}) = Cardinality(holes) - 1
    BY <1>4, FS_RemoveElement
  <2> HIDE DEF Below
  <2>3. IsFiniteSet(Below(h)) /\ Cardinality(Below(h)) <= Cardinality(holes) - 1
    BY <2>1, <2>2, FS_Subset
  <2>4. Cardinality(Below(h)) \in Nat /\ Cardinality(holes) \in Nat
    BY <1>4, <2>3, FS_CardinalityType
  <2> QED
    BY <1>4, <2>3, <2>4
<1>6. ASSUME NEW h \in holes
      PROVE  /\ Filler(h) \in high
             /\ Cardinality(Above(Filler(h))) = Cardinality(Below(h))
  <2> DEFINE m == Cardinality(Below(h))
  <2>1. m \in Nat /\ m < Cardinality(high) /\ Cardinality(high) \in Nat
    BY <1>4, <1>5, FS_CardinalityType
  <2>2. high \in SUBSET kept
    BY DEF high
  <2>3. m < Cardinality(kept)
    <3>1. Cardinality(high) <= Cardinality(kept) /\ Cardinality(kept) \in Nat
      BY <1>2, <2>2, FS_Subset DEF k
    <3> HIDE DEF m
    <3> QED
      BY <2>1, <3>1
  <2>4. \E f \in kept : Cardinality(Above(f)) = m
    <3> HIDE DEF m
    <3> QED
      BY <1>2, <2>1, <2>3, RankExists
  <2>5. Filler(h) \in kept /\ Cardinality(Above(Filler(h))) = m
    BY <2>4
  <2> DEFINE f == Filler(h)
  <2> HIDE DEF Filler, m
  <2>6. ASSUME f \in 1 .. k PROVE FALSE
    <3>1. high \in SUBSET Above(f)
      <4>1. \A g \in high : g \in kept /\ g \in Nat /\ ~(g \in 1 .. k) /\ g >= 1
        BY <1>1 DEF high, kept
      <4> HIDE DEF f
      <4>2. \A g \in high : g > f
        BY <1>2, <2>6, <4>1
      <4> QED
        BY <4>1, <4>2
    <3>2. IsFiniteSet(Above(f))
      <4>1. Above(f) \in SUBSET kept
        OBVIOUS
      <4> QED
        BY <1>2, <4>1, FS_Subset
    <3>3. Cardinality(high) <= Cardinality(Above(f))
      <4> HIDE DEF Above
      <4> QED
        BY <3>1, <3>2, FS_Subset
    <3> QED
      BY <2>1, <2>5, <3>3
  <2> QED
    BY <2>5, <2>6 DEF high, m
<1>7. ASSUME NEW h \in holes, NEW i \in holes, h < i PROVE Filler(h) # Filler(i)
  <2>1. Below(h) \in SUBSET Below(i) /\ h \in Below(i) /\ h \notin Below(h)
    <3>1. h \in Nat /\ i \in Nat /\ h < i
      BY <1>2, <1>7 DEF holes
    <3>2. \A j \in holes : j < h => j < i
      BY <1>2, <3>1 DEF holes
    <3>3. ~(h < h)
      BY <3>1
    <3> QED
      BY <3>1, <3>2, <3>3, Zenon
  <2>2. Below(h) # Below(i)
    BY <2>1
  <2>3. Cardinality(Below(h)) # Cardinality(Below(i))
    <3> HIDE DEF Below
    <3> QED
      BY <1>5, <2>1, <2>2, FS_Subset
  <2> HIDE DEF Filler, Below, Above
  <2> QED
    BY <1>6, <2>3
<1>8. from \in [1 .. k -> kept]
  <2>1. ASSUME NEW p \in 1 .. k PROVE (IF p \in kept THEN p ELSE Filler(p)) \in kept
    <3>1. CASE p \in kept
      BY <3>1
    <3>2. CASE p \notin kept
      <4>1. p \in holes
        BY <3>2 DEF holes
      <4>2. Filler(p) \in high
        BY <4>1, <1>6
      <4> HIDE DEF Filler
      <4> QED
        BY <3>2, <4>2 DEF high
    <3> QED
      BY <3>1, <3>2
  <2> HIDE DEF Filler
  <2> QED
    BY <2>1
<1>9. \A p, q \in 1 .. k : from[p] = from[q] => p = q
  <2>1. \A p \in 1 .. k : p \in kept \/ (p \in holes /\ Filler(p) \in high)
    BY <1>6 DEF holes
  <2>2. \A p, q \in holes : Filler(p) = Filler(q) => p = q
    <3>1. holes \subseteq Nat
      BY <1>2 DEF holes
    <3>2. SUFFICES ASSUME NEW p \in holes, NEW q \in holes, p # q PROVE Filler(p) # Filler(q)
      OBVIOUS
    <3>3. p < q \/ q < p
      BY <3>1, <3>2
    <3> HIDE DEF Filler
    <3> QED
      BY <1>7, <3>3
  <2>3. high \cap (1 .. k) = {} /\ holes \cap kept = {}
    BY DEF high, holes
  <2> HIDE DEF Filler
  <2> QED
    BY <2>1, <2>2, <2>3
<1> HIDE DEF from
<1>10. from \in Injection(1 .. k, kept)
  BY <1>8, <1>9, Fun_IsInj
<1>11. from \in Surjection(1 .. k, kept)
  <2>1. Cardinality(1 .. k) = Cardinality(kept)
    BY <1>3 DEF k
  <2> QED
    BY <1>2, <1>10, <2>1, FS_Injection
<1>12. from \in Bijection(1 .. k, kept)
  BY <1>10, <1>11 DEF Bijection
<1>13. Compacted(es, sel) = [p \in 1 .. k |-> IF p \in kept THEN es[p] ELSE es[Filler(p)]]
  BY DEF Compacted, kept, k, holes
<1>14. \A p \in 1 .. k : Compacted(es, sel)[p] = es[from[p]]
  <2> HIDE DEF Filler
  <2> QED
    BY <1>13 DEF from
<1>15. \A p \in 1 .. k : es[from[p]] \in Stored
  <2>1. kept \subseteq DOMAIN es
    BY DEF kept
  <2> QED
    BY <1>1, <1>8, <2>1
<1>16. DOMAIN Compacted(es, sel) = 1 .. k
  <2> HIDE DEF Filler
  <2> QED
    BY <1>13
<1>17. Compacted(es, sel) \in [1 .. k -> Stored]
  <2>1. Compacted(es, sel) = [p \in 1 .. k |-> Compacted(es, sel)[p]]
    <3> HIDE DEF Filler
    <3> QED
      BY <1>13
  <2> QED
    BY <1>14, <1>15, <2>1
<1>18. Compacted(es, sel) \in Seq(Stored)
  BY <1>2, <1>17, IsASeq
<1> QED
  BY <1>12, <1>14, <1>16, <1>18 DEF kept, Kept

-----------------------------------------------------------------------------
(* The kinds of calls. *)

LEMMA CallKinds ==
    ASSUME CallInv
    PROVE  /\ call.op \in {"none", "add", "scan", "remove", "update", "concat"}
           /\ call.op = "none" <=> call = Idle
           /\ call.op = "add" => /\ call \in AddCalls
                                 /\ DOMAIN call.all_ofs = DOMAIN call.vecs
                                 /\ Numbered(call.vecs) /\ InRange(call.vecs)
           /\ call.op = "scan" => call \in ScanCalls
           /\ call.op = "remove" => /\ call \in RemoveCalls
                                    /\ Numbered(call.then) /\ InRange(call.then)
           /\ call.op = "update" => /\ call \in UpdateCalls
                                    /\ \A k \in DOMAIN call.rest : call.rest[k].code <= nadded
           /\ call.op = "concat" => IsConcat(call)
<1>1. CASE call = Idle
  BY <1>1 DEF Idle
<1>2. CASE call \in AddCalls /\ DOMAIN call.all_ofs = DOMAIN call.vecs
           /\ Numbered(call.vecs) /\ InRange(call.vecs)
  <2>1. call.op = "add"
    BY <1>2 DEF AddCalls
  <2> QED
    BY <1>2, <2>1 DEF Idle
<1>3. CASE call \in ScanCalls
  <2>1. call.op = "scan"
    BY <1>3 DEF ScanCalls
  <2> QED
    BY <1>3, <2>1 DEF Idle
<1>4. CASE call \in RemoveCalls /\ Numbered(call.then) /\ InRange(call.then)
  <2>1. call.op = "remove"
    BY <1>4 DEF RemoveCalls
  <2> QED
    BY <1>4, <2>1 DEF Idle
<1>5. CASE call \in UpdateCalls /\ \A k \in DOMAIN call.rest : call.rest[k].code <= nadded
  <2>1. call.op = "update"
    BY <1>5 DEF UpdateCalls
  <2> QED
    BY <1>5, <2>1 DEF Idle
<1>6. CASE IsConcat(call)
  <2>1. call.op = "concat"
    BY <1>6 DEF IsConcat
  <2> QED
    BY <1>6, <2>1 DEF Idle
<1> QED
  BY <1>1, <1>2, <1>3, <1>4, <1>5, <1>6 DEF CallInv

(* What a call keeps of the lists between its steps is that they are lists,  *)
(* of the same number.                                                       *)
LEMMA SameCallShape ==
    ASSUME ShapeInv, UNCHANGED <<nadded, call, other>>,
           IsLists(lists'), DOMAIN lists' = DOMAIN lists
    PROVE  ShapeInv'
<1>1. CallInv'
  BY DEF ShapeInv, CallInv, Numbered, InRange
<1> QED
  BY <1>1 DEF ShapeInv

(* No call. *)
LEMMA IdleShape ==
    ASSUME ShapeInv, call' = Idle, UNCHANGED <<nadded, other>>, IsLists(lists')
    PROVE  ShapeInv'
BY DEF ShapeInv, CallInv

(* Without a batch there is nothing to say of its order. *)
LEMMA NoBatch ==
    ASSUME call'.op # "add"
    PROVE  TodoInv' /\ BatchInv'
BY DEF TodoInv, BatchInv

(* Taking entries away or moving them keeps the codes. *)
LEMMA OldCut ==
    ASSUME NEW ls, IsLists(ls), NEW l \in DOMAIN ls, NEW k \in DOMAIN ls[l],
           NEW n \in Int, Old(ls, n)
    PROVE  Old(Cut(ls, l, k - 1), n)
<1> DEFINE last == Len(ls[l])
           new == Cut(ls, l, k - 1)
<1>1. last \in Nat /\ DOMAIN ls[l] = 1 .. last /\ last \in DOMAIN ls[l]
  BY ListIsSeq
<1>2. /\ DOMAIN new = DOMAIN ls
      /\ \A m \in DOMAIN ls : m # l => new[m] = ls[m]
      /\ DOMAIN new[l] = 1 .. (last - 1)
      /\ \A p \in 1 .. (last - 1) : new[l][p] = IF p = k THEN ls[l][last] ELSE ls[l][p]
  BY CutIs
<1> HIDE DEF new, last
<1>3. SUFFICES ASSUME NEW m \in DOMAIN new, NEW p \in DOMAIN new[m]
               PROVE new[m][p].code <= n \/ new[m][p].code > MaxAdded
  BY DEF Old, new
<1>4. CASE m = l
  <2>1. p \in 1 .. (last - 1) /\ p \in DOMAIN ls[l]
    BY <1>1, <1>2, <1>3, <1>4
  <2> QED
    BY <1>1, <1>2, <1>4, <2>1 DEF Old
<1>5. CASE m # l
  BY <1>2, <1>3, <1>5 DEF Old
<1> QED
  BY <1>4, <1>5

(* Appending an entry with a low number keeps the codes. *)
LEMMA OldAppended ==
    ASSUME NEW ls, IsLists(ls), NEW l \in DOMAIN ls, NEW e \in Stored,
           NEW n \in Nat, Old(ls, n), e.code <= n
    PROVE  Old(Appended(ls, l, e), n)
<1> DEFINE last == Len(ls[l])
           new == Appended(ls, l, e)
<1>1. last \in Nat /\ DOMAIN ls[l] = 1 .. last
  BY ListIsSeq
<1>2. /\ DOMAIN new = DOMAIN ls
      /\ \A m \in DOMAIN ls : m # l => new[m] = ls[m]
      /\ DOMAIN new[l] = 1 .. (last + 1)
      /\ \A p \in DOMAIN ls[l] : new[l][p] = ls[l][p]
      /\ new[l][last + 1] = e
  BY AppendedIs
<1> HIDE DEF new, last
<1>3. SUFFICES ASSUME NEW m \in DOMAIN new, NEW p \in DOMAIN new[m]
               PROVE new[m][p].code <= n \/ new[m][p].code > MaxAdded
  BY DEF Old, new
<1>4. CASE m = l
  <2>1. p \in DOMAIN ls[l] \/ p = last + 1
    BY <1>1, <1>2, <1>3, <1>4
  <2> QED
    BY <1>1, <1>2, <1>4, <2>1 DEF Old
<1>5. CASE m # l
  BY <1>2, <1>3, <1>5 DEF Old
<1> QED
  BY <1>4, <1>5

(* Old codes stay old when more are given out. *)
LEMMA OldGrows ==
    ASSUME NEW ls, IsLists(ls), NEW n \in Int, NEW m \in Int, n <= m, Old(ls, n)
    PROVE  Old(ls, m)
<1>1. \A l \in DOMAIN ls : \A p \in DOMAIN ls[l] : ls[l][p].code \in Nat
  BY ListIsSeq DEF Stored
<1> QED
  BY <1>1 DEF Old

-----------------------------------------------------------------------------
(* Adding a batch: its order. *)

(* The vectors of a call are numbered on from those before. *)
LEMMA BatchIs ==
    ASSUME NEW ids \in SeqsUpTo(Ids, MaxBatch), NEW ls \in [DOMAIN ids -> DOMAIN lists \cup {-1}],
           ShapeInv
    PROVE  /\ Batch(ids, ls) \in Seq(Vec)
           /\ Len(Batch(ids, ls)) = Len(ids) /\ Len(ids) \in Nat
           /\ DOMAIN Batch(ids, ls) = 1 .. Len(ids) /\ DOMAIN ids = 1 .. Len(ids)
           /\ ids \in Seq(Ids)
           /\ Batch(ids, ls) # <<>>
           /\ \A i \in 1 .. Len(ids) :
                 Batch(ids, ls)[i] = [id |-> ids[i], list |-> ls[i], code |-> nadded + i]
<1>1. PICK k \in 1 .. MaxBatch : ids \in [1 .. k -> Ids]
  BY DEF SeqsUpTo
<1>2. k \in Nat /\ k >= 1
  BY BoundsAssumption
<1>3. ids \in Seq(Ids)
  BY <1>1, <1>2, IsASeq
<1>4. Len(ids) = k /\ DOMAIN ids = 1 .. k
  BY <1>1, <1>2, <1>3
<1>5. \A i \in 1 .. k : [id |-> ids[i], list |-> ls[i], code |-> nadded + i] \in Vec
  <2>1. SUFFICES ASSUME NEW i \in 1 .. k
                 PROVE  ids[i] \in Nat /\ ls[i] \in Nat \cup {-1} /\ nadded + i \in Nat
    BY DEF Vec
  <2>2. ids[i] \in Nat
    BY <1>1, IdsAssumption
  <2>3. nadded \in Nat
    BY BoundsAssumption DEF ShapeInv
  <2>4. ls[i] \in DOMAIN lists \cup {-1}
    BY <1>4
  <2>5. \A l \in DOMAIN lists : l \in Nat
    BY ListIsSeq DEF ShapeInv
  <2> QED
    BY <2>2, <2>3, <2>4, <2>5
<1>6. Batch(ids, ls) = [i \in 1 .. k |-> [id |-> ids[i], list |-> ls[i], code |-> nadded + i]]
  BY <1>4 DEF Batch
<1>7. Batch(ids, ls) \in [1 .. k -> Vec]
  BY <1>5, <1>6
<1>8. Batch(ids, ls) \in Seq(Vec) /\ Len(Batch(ids, ls)) = k /\ DOMAIN Batch(ids, ls) = 1 .. k
  <2> HIDE DEF Vec
  <2>1. Batch(ids, ls) \in Seq(Vec)
    BY <1>2, <1>7, IsASeq
  <2> QED
    BY <1>2, <1>7, <2>1
<1>9. Batch(ids, ls) # <<>>
  BY <1>2, <1>8
<1> QED
  BY <1>2, <1>3, <1>4, <1>6, <1>8, <1>9

(* A batch begins: nothing of it is in the lists. *)
LEMMA BeginAddOrder ==
    ASSUME OrderInv, NEW vecs \in Seq(Vec), BeginAdd(vecs), UNCHANGED <<lists, other>>,
           nadded' \in 0 .. MaxAdded, InRange(vecs), array \in Seq(LO),
           \A i \in DOMAIN vecs : vecs[i].code = nadded' - Len(vecs) + i,
           Old(lists, nadded' - Len(vecs))
    PROVE  OrderInv'
<1>1. call' = AddCall(vecs)
  BY DEF BeginAdd
<1>2. /\ call'.op = "add" /\ call'.vecs = vecs
      /\ call'.todo = [r \in Ranks |-> {i \in DOMAIN vecs : Owner(i, vecs[i].list) = r}]
      /\ call'.all_ofs = [i \in DOMAIN vecs |-> NoEntry]
  BY <1>1 DEF AddCall
<1>3. Len(vecs) \in Nat /\ DOMAIN vecs = 1 .. Len(vecs)
  OBVIOUS
<1>4. call' \in AddCalls /\ DOMAIN call'.all_ofs = DOMAIN call'.vecs
  <2>1. Len(array) \in Nat
    OBVIOUS
  <2>2. call'.todo \in [Ranks -> SUBSET Nat]
    BY <1>2, <1>3
  <2>3. NoEntry \in LO
    BY DEF NoEntry, lo_build, LO
  <2>4. call'.all_ofs \in Seq(LO)
    BY <1>2, <1>3, <2>3, IsASeq
  <2> HIDE DEF Vec, LO
  <2> QED
    BY <1>1, <1>2, <2>1, <2>2, <2>4 DEF AddCall, AddCalls
<1>5. Numbered(call.vecs)' /\ InRange(call.vecs)'
  BY <1>2 DEF Numbered, InRange
<1>6. ShapeInv'
  BY <1>4, <1>5 DEF OrderInv, ShapeInv, CallInv
<1>7. CodeInv'
  BY <1>2 DEF OrderInv, CodeInv
<1>8. TodoInv'
  <2>1. ASSUME NEW r \in Ranks
        PROVE  call'.todo[r] = {i \in DOMAIN vecs : Owner(i, vecs[i].list) = r}
    BY <1>2
  <2> QED
    BY <1>2, <2>1 DEF TodoInv, Owner
<1>9. BatchInv'
  BY <1>2 DEF BatchInv, IsInOrder, Old
<1> QED
  BY <1>6, <1>7, <1>8, <1>9 DEF OrderInv

(* The step of add_one, taken apart. *)
LEMMA AddOneIs ==
    ASSUME OrderInv, NEW r \in Ranks, add_one(r)
    PROVE  /\ call.op = "add"
           /\ UNCHANGED <<ntotal, type, hashtable, other, nadded, nlost, partial>>
           /\ \E i \in call.todo[r] :
                 /\ i \in DOMAIN call.vecs
                 /\ call.vecs[i] \in Vec
                 /\ Entry(call.vecs[i]) \in Stored
                 /\ \A j \in call.todo[r] : i <= j
                 /\ IF call.vecs[i].list = -1 THEN lists' = lists
                    ELSE /\ call.vecs[i].list \in DOMAIN lists
                         /\ lists' = Appended(lists, call.vecs[i].list, Entry(call.vecs[i]))
                 /\ array' = IF type = "Array"
                             THEN [array EXCEPT ![call.base + i] =
                                      IF call.vecs[i].list = -1 THEN Unassigned
                                      ELSE lo_build(call.vecs[i].list, Len(lists[call.vecs[i].list]))]
                             ELSE array
                 /\ call'.op = "add" /\ call'.vecs = call.vecs /\ call'.base = call.base
                 /\ call' \in AddCalls
                 /\ DOMAIN call'.all_ofs = DOMAIN call'.vecs
                 /\ call'.todo[r] = call.todo[r] \ {i}
                 /\ \A s \in Ranks : s # r => call'.todo[s] = call.todo[s]
                 /\ \A j \in DOMAIN call.vecs : call'.all_ofs[j] =
                       IF j = i /\ type = "Hashtable"
                       THEN IF call.vecs[i].list = -1 THEN Unassigned
                            ELSE lo_build(call.vecs[i].list, Len(lists[call.vecs[i].list]))
                       ELSE call.all_ofs[j]
<1> DEFINE lo(i) == IF call.vecs[i].list = -1 THEN Unassigned
                    ELSE lo_build(call.vecs[i].list, Len(lists[call.vecs[i].list]))
<1>1. call.op = "add"
  BY DEF add_one
<1>2. call \in AddCalls /\ InRange(call.vecs) /\ DOMAIN call.all_ofs = DOMAIN call.vecs
  BY <1>1, CallKinds DEF OrderInv, ShapeInv
<1>3. PICK i \in call.todo[r] :
         /\ \A j \in call.todo[r] : i <= j
         /\ lists' = IF call.vecs[i].list = -1 THEN lists
                     ELSE [lists EXCEPT ![call.vecs[i].list] = Append(@, Entry(call.vecs[i]))]
         /\ array' = IF type = "Array" THEN [array EXCEPT ![call.base + i] = lo(i)] ELSE array
         /\ call' = [call EXCEPT !.todo[r] = @ \ {i},
                                 !.all_ofs[i] = IF type = "Hashtable" THEN lo(i) ELSE @]
  BY DEF add_one
<1>4. i \in DOMAIN call.vecs
  BY <1>1 DEF OrderInv, TodoInv
<1>5. call.vecs[i] \in Vec /\ call.vecs[i].list \in DOMAIN lists \cup {-1}
  BY <1>2, <1>4 DEF AddCalls, InRange
<1>6. Entry(call.vecs[i]) \in Stored
  BY <1>5 DEF Vec, Entry, Stored
<1>7. lo(i) \in LO
  <2>1. CASE call.vecs[i].list = -1
    BY <2>1 DEF Unassigned, lo_build, LO
  <2>2. CASE call.vecs[i].list # -1
    <3>1. Len(lists[call.vecs[i].list]) \in Int /\ call.vecs[i].list \in Int
      BY <1>5, <2>2, ListIsSeq DEF OrderInv, ShapeInv
    <3> QED
      BY <2>2, <3>1 DEF lo_build, LO
  <2> QED
    BY <2>1, <2>2
<1> HIDE DEF lo
<1>8. /\ call.todo \in [Ranks -> SUBSET Nat] /\ call.all_ofs \in Seq(LO)
      /\ call = [op |-> "add", vecs |-> call.vecs, base |-> call.base, todo |-> call.todo,
                 all_ofs |-> call.all_ofs]
      /\ call.vecs \in Seq(Vec) /\ call.base \in Nat
  BY <1>2 DEF AddCalls
<1> DEFINE todo == [call.todo EXCEPT ![r] = @ \ {i}]
           all_ofs == [call.all_ofs EXCEPT ![i] = IF type = "Hashtable" THEN lo(i) ELSE @]
<1>9. /\ call'.op = "add" /\ call'.vecs = call.vecs /\ call'.base = call.base
      /\ call'.todo = todo /\ call'.all_ofs = all_ofs
      /\ call' = [op |-> "add", vecs |-> call.vecs, base |-> call.base, todo |-> todo,
                  all_ofs |-> all_ofs]
  <2>1. DOMAIN call = {"op", "vecs", "base", "todo", "all_ofs"}
    BY <1>8
  <2>2. call' = [f \in DOMAIN call |-> IF f = "todo" THEN todo
                                      ELSE IF f = "all_ofs" THEN all_ofs ELSE call[f]]
    BY <1>3, <2>1
  <2> HIDE DEF todo, all_ofs
  <2>3. /\ call'.op = "add" /\ call'.vecs = call.vecs /\ call'.base = call.base
        /\ call'.todo = todo /\ call'.all_ofs = all_ofs
    BY <1>1, <2>1, <2>2
  <2>4. call' = [op |-> "add", vecs |-> call.vecs, base |-> call.base, todo |-> todo,
                 all_ofs |-> all_ofs]
    BY <1>1, <2>1, <2>2
  <2> QED
    BY <2>3, <2>4
<1>10. /\ todo \in [Ranks -> SUBSET Nat]
       /\ todo[r] = call.todo[r] \ {i}
       /\ \A s \in Ranks : s # r => todo[s] = call.todo[s]
  BY <1>8
<1>11. /\ all_ofs \in Seq(LO) /\ DOMAIN all_ofs = DOMAIN call.vecs
       /\ \A j \in DOMAIN call.vecs : all_ofs[j] =
             IF j = i /\ type = "Hashtable" THEN lo(i) ELSE call.all_ofs[j]
  BY <1>2, <1>4, <1>7, <1>8
<1> HIDE DEF todo, all_ofs
<1>12. call' \in AddCalls
  BY <1>8, <1>9, <1>10, <1>11 DEF AddCalls
<1>13. UNCHANGED <<ntotal, type, hashtable, other, nadded, nlost, partial>>
  BY DEF add_one
<1>14. IF call.vecs[i].list = -1 THEN lists' = lists
       ELSE /\ call.vecs[i].list \in DOMAIN lists
            /\ lists' = Appended(lists, call.vecs[i].list, Entry(call.vecs[i]))
  BY <1>3, <1>5 DEF Appended
<1>15. /\ \A j \in call.todo[r] : i <= j
       /\ array' = IF type = "Array" THEN [array EXCEPT ![call.base + i] = lo(i)] ELSE array
       /\ call'.op = "add" /\ call'.vecs = call.vecs /\ call'.base = call.base
       /\ DOMAIN call'.all_ofs = DOMAIN call'.vecs
       /\ call'.todo[r] = call.todo[r] \ {i}
       /\ \A s \in Ranks : s # r => call'.todo[s] = call.todo[s]
       /\ \A j \in DOMAIN call.vecs : call'.all_ofs[j] =
             IF j = i /\ type = "Hashtable" THEN lo(i) ELSE call.all_ofs[j]
  BY <1>3, <1>9, <1>10, <1>11
<1> HIDE <1>3, <1>9
<1> QED
  BY <1>1, <1>4, <1>5, <1>6, <1>12, <1>13, <1>14, <1>15 DEF lo

(* Each list gets the vectors of its thread in their order. *)
LEMMA AddOneOrder ==
    ASSUME OrderInv, NEW r \in Ranks, add_one(r)
    PROVE  OrderInv'
<1>1. /\ call.op = "add" /\ call'.op = "add" /\ call'.vecs = call.vecs
      /\ UNCHANGED <<other, nadded>> /\ call' \in AddCalls
      /\ DOMAIN call'.all_ofs = DOMAIN call'.vecs
  BY AddOneIs
<1>2. PICK i \in call.todo[r] :
         /\ i \in DOMAIN call.vecs
         /\ call.vecs[i] \in Vec
         /\ Entry(call.vecs[i]) \in Stored
         /\ \A j \in call.todo[r] : i <= j
         /\ IF call.vecs[i].list = -1 THEN lists' = lists
            ELSE /\ call.vecs[i].list \in DOMAIN lists
                 /\ lists' = Appended(lists, call.vecs[i].list, Entry(call.vecs[i]))
         /\ call'.todo[r] = call.todo[r] \ {i}
         /\ \A s \in Ranks : s # r => call'.todo[s] = call.todo[s]
  BY AddOneIs
<1>3. /\ IsLists(lists) /\ Numbered(call.vecs) /\ InRange(call.vecs)
      /\ call.vecs \in Seq(Vec) /\ nadded \in Nat /\ MaxAdded \in Nat /\ nadded <= MaxAdded
      /\ call.todo \in [Ranks -> SUBSET Nat]
  BY <1>1, CallKinds, BoundsAssumption DEF OrderInv, ShapeInv, AddCalls
<1>4. IsLists(lists') /\ DOMAIN lists' = DOMAIN lists
  BY <1>2, <1>3, AppendedIs
<1>5. ShapeInv'
  <2>1. Numbered(call.vecs)' /\ InRange(call.vecs)'
    BY <1>1, <1>3, <1>4 DEF Numbered, InRange
  <2> QED
    BY <1>1, <1>4, <2>1 DEF OrderInv, ShapeInv, CallInv
<1>6. CodeInv'
  BY <1>1 DEF OrderInv, CodeInv
<1>7. \A s \in Ranks : call'.todo[s] \subseteq call.todo[s]
  BY <1>2
<1>8. \A s \in Ranks : /\ \A j \in call.todo[s] : /\ j \in DOMAIN call.vecs
                                                 /\ Owner(j, call.vecs[j].list) = s
                       /\ \A j \in DOMAIN call.vecs \ call.todo[s] :
                             Owner(j, call.vecs[j].list) = s => \A k \in call.todo[s] : j < k
  BY <1>1 DEF OrderInv, TodoInv
<1>9. TodoInv'
  <2>1. SUFFICES ASSUME NEW s \in Ranks
                 PROVE  /\ \A j \in call'.todo[s] : /\ j \in DOMAIN call.vecs
                                                    /\ Owner(j, call.vecs[j].list) = s
                        /\ \A j \in DOMAIN call.vecs \ call'.todo[s] :
                              Owner(j, call.vecs[j].list) = s => \A k \in call'.todo[s] : j < k
    BY <1>1 DEF TodoInv, Owner
  <2>2. CASE s # r
    BY <1>2, <1>8, <2>2
  <2>3. CASE s = r
    <3>1. \A k \in call'.todo[s] : k \in Nat /\ i \in Nat /\ i <= k /\ i # k
      BY <1>2, <1>3, <2>3
    <3>2. \A k \in call'.todo[s] : i < k
      BY <3>1
    <3> QED
      BY <1>2, <1>7, <1>8, <2>3, <3>2
  <2> QED
    BY <2>2, <2>3
<1> DEFINE base == nadded - Len(call.vecs)
           l0 == call.vecs[i].list
           last == Len(lists[l0])
<1>10. /\ Len(call.vecs) \in Nat /\ DOMAIN call.vecs = 1 .. Len(call.vecs) /\ base \in Int
       /\ \A j \in DOMAIN call.vecs : call.vecs[j].code = base + j /\ call.vecs[j].code \in Nat
  <2>1. Len(call.vecs) \in Nat /\ DOMAIN call.vecs = 1 .. Len(call.vecs)
        /\ \A j \in DOMAIN call.vecs : call.vecs[j] \in Vec
    BY <1>3
  <2>2. \A j \in DOMAIN call.vecs : call.vecs[j].code \in Nat
    BY <2>1 DEF Vec
  <2>3. base \in Int
    BY <1>3, <2>1
  <2>4. \A j \in DOMAIN call.vecs : call.vecs[j].code = base + j
    BY <1>3 DEF Numbered
  <2> QED
    BY <2>1, <2>2, <2>3, <2>4
<1>11. \A s \in Ranks : i \notin call'.todo[s]
  BY <1>2, <1>8
<1> HIDE DEF base
<1>12. ASSUME NEW l \in DOMAIN lists, NEW p \in DOMAIN lists[l], lists'[l][p] = lists[l][p],
              IsEntered(l, p)
       PROVE  IsEntered(l, p)'
  BY <1>1, <1>7, <1>12 DEF IsEntered, Entry
<1>13. BatchInv
  BY DEF OrderInv
<1>14. ASSUME call.vecs[i].list = -1 PROVE BatchInv'
  <2>1. lists' = lists
    BY <1>2, <1>14
  <2>2. SUFFICES ASSUME NEW l \in DOMAIN lists, NEW p \in DOMAIN lists[l]
                 PROVE  IsInOrder(l, p)'
    BY <1>1, <2>1 DEF BatchInv
  <2>3. IsInOrder(l, p)
    BY <1>1, <1>13 DEF BatchInv
  <2>4. IsEntered(l, p) => IsEntered(l, p)'
    BY <1>12, <2>1
  <2> QED
    BY <1>1, <2>1, <2>3, <2>4 DEF IsInOrder
<1>15. ASSUME call.vecs[i].list # -1 PROVE BatchInv'
  <2>1. /\ l0 \in DOMAIN lists /\ last \in Nat /\ DOMAIN lists[l0] = 1 .. last
        /\ \A m \in DOMAIN lists : m # l0 => lists'[m] = lists[m]
        /\ Len(lists'[l0]) = last + 1
        /\ DOMAIN lists'[l0] = 1 .. (last + 1)
        /\ \A p \in DOMAIN lists[l0] : lists'[l0][p] = lists[l0][p]
        /\ lists'[l0][last + 1] = Entry(call.vecs[i])
    <3>1. l0 \in DOMAIN lists /\ lists' = Appended(lists, l0, Entry(call.vecs[i]))
      BY <1>2, <1>15
    <3>2. last \in Nat /\ DOMAIN lists[l0] = 1 .. last
      BY <1>3, <3>1, ListIsSeq
    <3> QED
      BY <1>2, <1>3, <3>1, <3>2, AppendedIs, SMTT(30)
  <2> HIDE DEF last
  <2>e. Entry(call.vecs[i]).code = base + i
    BY <1>2, <1>10 DEF Entry
  <2> HIDE DEF l0
  <2>2. SUFFICES ASSUME NEW l \in DOMAIN lists, NEW p \in DOMAIN lists'[l]
                 PROVE  IsInOrder(l, p)'
    BY <1>1, <1>4 DEF BatchInv
  <2>3. \A m \in DOMAIN lists : \A q \in DOMAIN lists[m] : IsInOrder(m, q)
    BY <1>1, <1>13 DEF BatchInv
  <2>4. CASE l # l0
    <3>1. lists'[l] = lists[l]
      BY <2>1, <2>4
    <3>2. IsInOrder(l, p) /\ (IsEntered(l, p) => IsEntered(l, p)')
      BY <1>12, <2>2, <2>3, <3>1
    <3> QED
      BY <1>1, <3>1, <3>2 DEF IsInOrder
  <2>5. CASE l = l0 /\ p = last + 1
    <3>1. lists'[l][p] = Entry(call.vecs[i]) /\ lists'[l][p].code = base + i
      BY <2>1, <2>5, <2>e
    <3>2. (base + i) - base = i
      BY <1>2, <1>10
    <3>3. IsEntered(l, p)'
      BY <1>1, <1>2, <1>11, <2>5, <3>1, <3>2 DEF IsEntered, base, Entry, l0
    <3>4. p + 1 .. Len(lists'[l]) = {}
      BY <2>1, <2>5
    <3> QED
      BY <3>3, <3>4 DEF IsInOrder
  <2>6. CASE l = l0 /\ p # last + 1
    <3>1. p \in DOMAIN lists[l] /\ lists'[l][p] = lists[l][p]
      <4>1. p \in 1 .. (last + 1)
        BY <2>1, <2>2, <2>6
      <4>2. p \in 1 .. last
        BY <2>1, <2>6, <4>1
      <4> QED
        BY <2>1, <2>6, <4>2
    <3>2. CASE IsEntered(l, p)
              /\ \A k \in p + 1 .. Len(lists[l]) :
                    lists[l][k].code <= MaxAdded => lists[l][p].code < lists[l][k].code
      <4> DEFINE j == lists[l][p].code - (nadded - Len(call.vecs))
      <4>1. /\ j \in DOMAIN call.vecs /\ call.vecs[j].list = l
            /\ \A s \in Ranks : j \notin call.todo[s]
            /\ lists[l][p] = Entry(call.vecs[j])
        BY <3>2 DEF IsEntered
      <4>2. lists[l][p].code = base + j
        BY <1>10, <4>1 DEF Entry
      <4> HIDE DEF j
      <4>3. Owner(j, call.vecs[j].list) = Owner(i, call.vecs[i].list)
        BY <2>6, <4>1 DEF Owner, l0
      <4>4. j < i
        BY <1>2, <1>8, <4>1, <4>3
      <4>5. lists'[l][last + 1].code = base + i
        BY <2>1, <2>6, <2>e
      <4>6. lists'[l][p].code < lists'[l][last + 1].code
        BY <1>2, <1>10, <3>1, <4>1, <4>2, <4>4, <4>5
      <4>7. \A q \in p + 1 .. Len(lists'[l]) :
               q = last + 1 \/ (q \in p + 1 .. Len(lists[l]) /\ lists'[l][q] = lists[l][q])
        <5> SUFFICES ASSUME NEW q \in p + 1 .. Len(lists'[l]), q # last + 1
                     PROVE  q \in p + 1 .. Len(lists[l]) /\ lists'[l][q] = lists[l][q]
          OBVIOUS
        <5>1. /\ last \in Nat /\ Len(lists'[l]) = last + 1 /\ DOMAIN lists[l] = 1 .. last
              /\ p \in 1 .. last
          BY <2>1, <2>6, <3>1
        <5>2. Len(lists[l]) = last
          BY <2>6 DEF last
        <5>3. q \in p + 1 .. last /\ q \in 1 .. last
          BY <5>1
        <5> QED
          BY <2>1, <2>6, <5>1, <5>2, <5>3
      <4>8. IsEntered(l, p)'
        BY <1>12, <3>1, <3>2
      <4> QED
        BY <3>1, <3>2, <4>6, <4>7, <4>8 DEF IsInOrder
    <3> QED
      BY <1>1, <2>3, <3>1, <3>2 DEF IsInOrder
  <2> QED
    BY <2>4, <2>5, <2>6
<1>16. BatchInv'
  BY <1>14, <1>15
<1> QED
  BY <1>5, <1>6, <1>9, <1>16 DEF OrderInv

(* The batch is in: its codes are old. *)
LEMMA AddEndOrder ==
    ASSUME OrderInv, add_end
    PROVE  OrderInv'
<1>1. call.op = "add" /\ call' = Idle /\ UNCHANGED <<lists, other, nadded>>
  BY DEF add_end
<1>2. ShapeInv'
  BY <1>1, IdleShape DEF OrderInv, ShapeInv
<1>3. call.vecs \in Seq(Vec) /\ nadded \in Nat
  BY <1>1, CallKinds, BoundsAssumption DEF OrderInv, ShapeInv, AddCalls
<1>4. Old(lists, nadded)
  <2>1. SUFFICES ASSUME NEW l \in DOMAIN lists, NEW p \in DOMAIN lists[l]
                 PROVE lists[l][p].code <= nadded \/ lists[l][p].code > MaxAdded
    BY DEF Old
  <2>2. lists[l][p].code \in Nat
    BY ListIsSeq DEF OrderInv, ShapeInv, Stored
  <2>3. Len(call.vecs) \in Nat /\ DOMAIN call.vecs = 1 .. Len(call.vecs)
    BY <1>3
  <2>4. \/ lists[l][p].code <= nadded - Len(call.vecs)
        \/ lists[l][p].code > MaxAdded
        \/ IsEntered(l, p)
    BY <1>1 DEF OrderInv, BatchInv, IsInOrder
  <2>5. IsEntered(l, p) => lists[l][p].code - (nadded - Len(call.vecs)) \in DOMAIN call.vecs
    BY DEF IsEntered
  <2> QED
    BY <1>3, <2>2, <2>3, <2>4, <2>5
<1>5. CodeInv'
  BY <1>1, <1>4 DEF OrderInv, CodeInv, Idle, Old
<1> QED
  BY <1>1, <1>2, <1>5, NoBatch DEF OrderInv, Idle

-----------------------------------------------------------------------------
(* Removing and updating: what a step does. *)

(* What the map says of an id is its place. *)
LEMMA MapPlace ==
    ASSUME NEW M, NEW ls, Backward(M, ls), NEW id \in DOMAIN M, M[id].list # -1
    PROVE  IsPlaceOf(M[id], ls, id)
BY DEF Backward, Unassigned, NoEntry, lo_build

(* The table of a call that is not an add. *)
LEMMA HashMap ==
    ASSUME IInv, type = "Hashtable", call.op # "add"
    PROVE  Map = hashtable /\ Backward(hashtable, lists) /\ Forward(hashtable, lists)
BY DEF Map, IInv, IdInv, MapInv

LEMMA RemoveNextIs ==
    ASSUME IInv, remove_next
    PROVE  /\ call.op = "remove" /\ call.rest # <<>> /\ type = "Hashtable"
           /\ UNCHANGED <<ntotal, type, array, other, nadded, nlost, partial>>
           /\ call' \in RemoveCalls /\ call'.op = "remove"
           /\ call'.rest = Tail(call.rest) /\ call'.then = call.then
           /\ \/ /\ Head(call.rest) \in DOMAIN hashtable
                 /\ hashtable' = TableWithout(Head(call.rest))
                 /\ call'.nremove = call.nremove + 1
                 /\ \E l \in DOMAIN lists : \E k \in DOMAIN lists[l] :
                       /\ hashtable[Head(call.rest)] = lo_build(l, k - 1)
                       /\ lists[l][k].id = Head(call.rest)
                       /\ lists' = Cut(lists, l, k - 1)
              \/ /\ Head(call.rest) \notin DOMAIN hashtable
                 /\ call'.nremove = call.nremove
                 /\ UNCHANGED <<lists, hashtable>>
<1> DEFINE id == Head(call.rest)
<1>1. call.op = "remove" /\ call.rest # <<>>
      /\ UNCHANGED <<ntotal, type, array, other, nadded, nlost, partial>>
  BY DEF remove_next
<1>2. type = "Hashtable" /\ RemoveInv
  BY <1>1 DEF IInv, IdInv, RemoveInv
<1>3. call \in RemoveCalls
  BY <1>1, CallKinds DEF IInv, OrderInv, ShapeInv
<1>4. /\ call.rest \in Seq(Ids) /\ call.nremove \in Nat /\ call.then \in Seq(Vec)
      /\ call = [op |-> "remove", rest |-> call.rest, nremove |-> call.nremove, then |-> call.then]
  BY <1>3 DEF RemoveCalls
<1>5. Tail(call.rest) \in Seq(Ids) /\ 1 \in DOMAIN call.rest /\ id = call.rest[1]
  BY <1>1, <1>4
<1>6. CASE id \in DOMAIN hashtable
  <2>1. /\ lists' = [lists EXCEPT ![hashtable[id].list] = TakenOut(@, hashtable[id].ofs)]
        /\ hashtable' = TableWithout(id)
        /\ call' = [call EXCEPT !.rest = Tail(@), !.nremove = @ + 1]
    BY <1>6 DEF remove_next
  <2>2. hashtable[id].list # -1
    BY <1>1, <1>2, <1>5, <1>6 DEF RemoveInv
  <2>3. IsPlaceOf(hashtable[id], lists, id)
    BY <1>1, <1>2, <1>6, <2>2, HashMap, MapPlace
  <2>4. PICK l \in DOMAIN lists : \E k \in DOMAIN lists[l] :
           hashtable[id] = lo_build(l, k - 1) /\ lists[l][k].id = id
    BY <2>3 DEF IsPlaceOf
  <2>5. PICK k \in DOMAIN lists[l] : hashtable[id] = lo_build(l, k - 1) /\ lists[l][k].id = id
    BY <2>4
  <2>6. lists' = Cut(lists, l, k - 1)
    BY <2>1, <2>5 DEF Cut, lo_build
  <2>7. call' = [op |-> "remove", rest |-> Tail(call.rest), nremove |-> call.nremove + 1,
                 then |-> call.then]
    <3>1. DOMAIN call = {"op", "rest", "nremove", "then"}
      BY <1>4
    <3>2. call' = [f \in DOMAIN call |-> IF f = "rest" THEN Tail(call.rest)
                                        ELSE IF f = "nremove" THEN call.nremove + 1 ELSE call[f]]
      BY <2>1, <3>1
    <3> QED
      BY <1>1, <3>1, <3>2
  <2>8. call' \in RemoveCalls
    BY <1>4, <1>5, <2>7 DEF RemoveCalls
  <2> QED
    BY <1>1, <1>2, <1>6, <2>1, <2>5, <2>6, <2>7, <2>8
<1>7. CASE id \notin DOMAIN hashtable
  <2>1. call' = [call EXCEPT !.rest = Tail(@)] /\ UNCHANGED <<lists, hashtable>>
    BY <1>7 DEF remove_next
  <2>2. call' = [op |-> "remove", rest |-> Tail(call.rest), nremove |-> call.nremove,
                 then |-> call.then]
    <3>1. DOMAIN call = {"op", "rest", "nremove", "then"}
      BY <1>4
    <3>2. call' = [f \in DOMAIN call |-> IF f = "rest" THEN Tail(call.rest) ELSE call[f]]
      BY <2>1, <3>1
    <3> QED
      BY <1>1, <3>1, <3>2
  <2>3. call' \in RemoveCalls
    BY <1>4, <1>5, <2>2 DEF RemoveCalls
  <2> QED
    BY <1>1, <1>2, <1>7, <2>1, <2>2, <2>3
<1> QED
  BY <1>6, <1>7

(* The map of an array. *)
LEMMA ArrayMap ==
    ASSUME IInv, type = "Array"
    PROVE  /\ array \in Seq(LO) /\ Len(array) \in Nat /\ DOMAIN array = 1 .. Len(array)
           /\ Map = [id \in 0 .. (Len(array) - 1) |-> array[id + 1]]
           /\ DOMAIN Map = 0 .. (Len(array) - 1)
           /\ Backward(Map, lists) /\ (~partial => Forward(Map, lists))
<1>1. array \in Seq(LO) /\ Backward(Map, lists) /\ (~partial => Forward(Map, lists))
  BY DEF IInv, IdInv, MapInv
<1>2. Map = [id \in 0 .. (Len(array) - 1) |-> array[id + 1]]
  BY DEF Map
<1> HIDE DEF Map
<1> QED
  BY <1>1, <1>2

(* update_codes takes the entry out of its list and appends it to another.   *)
LEMMA UpdateOneIs ==
    ASSUME IInv, update_one
    PROVE  /\ call.op = "update" /\ call.rest # <<>> /\ type = "Array" /\ ~partial
           /\ Head(call.rest) \in Vec /\ call.rest \in Seq(Vec)
           /\ UNCHANGED <<ntotal, type, hashtable, other, nadded, nlost, partial>>
           /\ \/ /\ call' = Idle
                 /\ UNCHANGED <<lists, array>>
              \/ /\ Head(call.rest).id < Len(array)
                 /\ Head(call.rest).list \in DOMAIN lists
                 /\ call' \in UpdateCalls /\ call'.op = "update"
                 /\ call'.rest = Tail(call.rest)
                 /\ \E l \in DOMAIN lists : \E k \in DOMAIN lists[l] :
                       LET v == Head(call.rest)
                           es == lists[l]
                           out == Cut(lists, l, k - 1)
                           moved == IF k # Len(es)
                                    THEN [array EXCEPT ![es[Len(es)].id + 1] = lo_build(l, k - 1)]
                                    ELSE array
                       IN  /\ array[v.id + 1] = lo_build(l, k - 1)
                           /\ lists[l][k].id = v.id
                           /\ lists' = Appended(out, v.list, Entry(v))
                           /\ array' = [moved EXCEPT ![v.id + 1] =
                                           lo_build(v.list, Len(out[v.list]))]
<1> DEFINE v == Head(call.rest)
<1>1. call.op = "update" /\ call.rest # <<>>
      /\ UNCHANGED <<ntotal, type, hashtable, other, nadded, nlost, partial>>
  BY DEF update_one
<1>2. type = "Array" /\ ~partial /\ UpdateInv
  BY <1>1 DEF IInv, IdInv, UpdateInv
<1>3. call \in UpdateCalls
  BY <1>1, CallKinds DEF IInv, OrderInv, ShapeInv
<1>4. call.rest \in Seq(Vec) /\ call = [op |-> "update", rest |-> call.rest]
  BY <1>3 DEF UpdateCalls
<1>5. Tail(call.rest) \in Seq(Vec) /\ 1 \in DOMAIN call.rest /\ v = call.rest[1] /\ v \in Vec
  BY <1>1, <1>4
<1>6. CASE ~(v.id < Len(array))
  <2>1. call' = Idle /\ UNCHANGED <<lists, array>>
    BY <1>6 DEF update_one
  <2> QED
    BY <1>1, <1>2, <1>4, <1>5, <2>1
<1>7. CASE v.id < Len(array)
  <2> DEFINE lo == array[v.id + 1]
  <2>1. v.id \in Nat /\ Len(array) \in Nat /\ v.id \in 0 .. (Len(array) - 1)
    BY <1>2, <1>5, <1>7, ArrayMap DEF Vec
  <2>2. lo.list # -1 /\ v.list \in DOMAIN lists
    BY <1>1, <1>2, <1>5, <1>7 DEF UpdateInv
  <2>3. v.id \in DOMAIN Map /\ Map[v.id] = lo /\ Backward(Map, lists)
    BY <1>2, <2>1, ArrayMap
  <2>4. IsPlaceOf(lo, lists, v.id)
    BY <2>2, <2>3, MapPlace
  <2>5. PICK l \in DOMAIN lists : \E k \in DOMAIN lists[l] :
           lo = lo_build(l, k - 1) /\ lists[l][k].id = v.id
    BY <2>4 DEF IsPlaceOf
  <2>6. PICK k \in DOMAIN lists[l] : lo = lo_build(l, k - 1) /\ lists[l][k].id = v.id
    BY <2>5
  <2> DEFINE es == lists[l]
             out == Cut(lists, l, k - 1)
             moved == IF k # Len(es)
                      THEN [array EXCEPT ![es[Len(es)].id + 1] = lo]
                      ELSE array
  <2>7. lo.list = l /\ lo.ofs = k - 1
    BY <2>6 DEF lo_build
  <2>8. k \in Int /\ Len(es) \in Int /\ (k - 1 # Len(es) - 1 <=> k # Len(es))
    <3>1. Len(es) \in Nat /\ DOMAIN es = 1 .. Len(es)
      BY ListIsSeq DEF IInv, OrderInv, ShapeInv
    <3> QED
      BY <3>1
  <2>9. /\ lists' = [[lists EXCEPT ![l] = TakenOut(@, k - 1)]
                        EXCEPT ![v.list] = Append(@, Entry(v))]
        /\ array' = [moved EXCEPT ![v.id + 1] =
                        lo_build(v.list, Len([lists EXCEPT ![l] = TakenOut(@, k - 1)][v.list]))]
        /\ call' = [call EXCEPT !.rest = Tail(@)]
    BY <1>7, <2>7, <2>8 DEF update_one
  <2>10. call' = [op |-> "update", rest |-> Tail(call.rest)]
    <3>1. DOMAIN call = {"op", "rest"}
      BY <1>4
    <3>2. call' = [f \in DOMAIN call |-> IF f = "rest" THEN Tail(call.rest) ELSE call[f]]
      BY <2>9, <3>1
    <3> QED
      BY <1>1, <3>1, <3>2
  <2>11. call' \in UpdateCalls /\ call'.op = "update" /\ call'.rest = Tail(call.rest)
    BY <1>5, <2>10 DEF UpdateCalls
  <2>12. lists' = Appended(out, v.list, Entry(v))
    BY <2>9 DEF Cut, Appended
  <2>13. array' = [moved EXCEPT ![v.id + 1] = lo_build(v.list, Len(out[v.list]))]
    BY <2>9 DEF Cut
  <2>14. moved = IF k # Len(es)
                 THEN [array EXCEPT ![es[Len(es)].id + 1] = lo_build(l, k - 1)]
                 ELSE array
    BY <2>6
  <2> HIDE DEF moved
  <2> QED
    BY <1>1, <1>2, <1>4, <1>5, <1>7, <2>2, <2>6, <2>11, <2>12, <2>13, <2>14
<1> QED
  BY <1>6, <1>7

-----------------------------------------------------------------------------
(* The other calls: the order of batches and the shapes of things. *)

(* What a scan does to the lists. *)
ScanOf(ls, sel) == [l \in DOMAIN ls |-> Compacted(ls[l], sel)]

LEMMA ScanIs ==
    ASSUME NEW ls, IsLists(ls), NEW sel
    PROVE  /\ IsLists(ScanOf(ls, sel))
           /\ DOMAIN ScanOf(ls, sel) = DOMAIN ls
           /\ \A l \in DOMAIN ls : \A p \in DOMAIN ScanOf(ls, sel)[l] :
                 \E q \in DOMAIN ls[l] :
                    ScanOf(ls, sel)[l][p] = ls[l][q] /\ ls[l][q].id \notin sel
           /\ Unique(ls) => Unique(ScanOf(ls, sel))
<1> DEFINE new == ScanOf(ls, sel)
           kept(l) == Kept(ls[l], sel)
<1>1. DOMAIN new = DOMAIN ls /\ \A l \in DOMAIN ls : new[l] = Compacted(ls[l], sel)
  BY DEF ScanOf
<1>2. ASSUME NEW l \in DOMAIN ls
      PROVE  /\ new[l] \in Seq(Stored)
             /\ \E from \in Bijection(DOMAIN new[l], kept(l)) :
                   \A p \in DOMAIN new[l] : new[l][p] = ls[l][from[p]]
  <2>1. ls[l] \in Seq(Stored)
    BY ListIsSeq
  <2> QED
    BY <1>1, <2>1, CompactedIs
<1> HIDE DEF new
<1>3. IsLists(new)
  <2>1. new \in [DOMAIN ls -> Seq(Stored)]
    BY <1>1, <1>2 DEF ScanOf, new
  <2> QED
    BY <1>1, <2>1 DEF IsLists
<1>4. ASSUME NEW l \in DOMAIN ls
      PROVE  \E from \in [DOMAIN new[l] -> DOMAIN ls[l]] :
                /\ \A p \in DOMAIN new[l] : new[l][p] = ls[l][from[p]] /\ ls[l][from[p]].id \notin sel
                /\ \A p, q \in DOMAIN new[l] : from[p] = from[q] => p = q
  <2>1. PICK from \in Bijection(DOMAIN new[l], kept(l)) :
           \A p \in DOMAIN new[l] : new[l][p] = ls[l][from[p]]
    BY <1>2
  <2>2. /\ from \in [DOMAIN new[l] -> kept(l)]
        /\ \A p, q \in DOMAIN new[l] : from[p] = from[q] => p = q
    BY <2>1, Fun_BijectionProperties
  <2>3. \A p \in DOMAIN new[l] : from[p] \in DOMAIN ls[l] /\ ls[l][from[p]].id \notin sel
    BY <2>2 DEF Kept
  <2>4. from \in [DOMAIN new[l] -> DOMAIN ls[l]]
    BY <2>2, <2>3
  <2> QED
    BY <2>1, <2>2, <2>3, <2>4
<1>5. \A l \in DOMAIN ls : \A p \in DOMAIN new[l] :
         \E q \in DOMAIN ls[l] : new[l][p] = ls[l][q] /\ ls[l][q].id \notin sel
  BY <1>4
<1>6. ASSUME Unique(ls) PROVE Unique(new)
  <2>1. SUFFICES ASSUME NEW l \in DOMAIN new, NEW m \in DOMAIN new,
                        NEW p \in DOMAIN new[l], NEW q \in DOMAIN new[m],
                        new[l][p].id = new[m][q].id
                 PROVE  l = m /\ p = q
    BY DEF Unique
  <2>2. PICK f \in [DOMAIN new[l] -> DOMAIN ls[l]] :
                /\ \A i \in DOMAIN new[l] : new[l][i] = ls[l][f[i]] /\ ls[l][f[i]].id \notin sel
                /\ \A i, j \in DOMAIN new[l] : f[i] = f[j] => i = j
    BY <1>1, <1>4
  <2>3. \E r \in DOMAIN ls[m] : new[m][q] = ls[m][r]
    BY <1>1, <1>5
  <2>4. PICK r \in DOMAIN ls[m] : new[m][q] = ls[m][r]
    BY <2>3
  <2>5. f[p] \in DOMAIN ls[l] /\ ls[l][f[p]].id = ls[m][r].id
    BY <2>1, <2>2, <2>4
  <2>6. l = m /\ f[p] = r
    BY <1>1, <1>6, <2>5 DEF Unique
  <2>7. \E j \in DOMAIN ls[l] : f[q] = j /\ new[l][q] = ls[l][j]
    BY <2>1, <2>2, <2>6
  <2>8. ls[l][f[q]].id = ls[l][f[p]].id /\ f[q] \in DOMAIN ls[l]
    BY <2>1, <2>2, <2>5, <2>6, <2>7
  <2>9. f[q] = f[p]
    BY <1>1, <1>6, <2>5, <2>8 DEF Unique
  <2> QED
    BY <2>1, <2>2, <2>6, <2>9
<1> QED
  BY <1>1, <1>3, <1>5, <1>6 DEF new

(* The entries that a merge takes over keep their codes. *)
LEMMA ShiftedIs ==
    ASSUME NEW es \in Seq(Stored), NEW a \in Nat
    PROVE  /\ Shifted(es, a) \in Seq(Stored)
           /\ Len(Shifted(es, a)) = Len(es)
           /\ DOMAIN Shifted(es, a) = DOMAIN es
           /\ \A p \in DOMAIN es : /\ Shifted(es, a)[p].id = es[p].id + a
                                   /\ Shifted(es, a)[p].code = es[p].code
<1>1. DOMAIN es = 1 .. Len(es) /\ Len(es) \in Nat /\ \A p \in DOMAIN es : es[p] \in Stored
  OBVIOUS
<1>2. ASSUME NEW p \in DOMAIN es
      PROVE  /\ [es[p] EXCEPT !.id = @ + a] \in Stored
             /\ [es[p] EXCEPT !.id = @ + a].id = es[p].id + a
             /\ [es[p] EXCEPT !.id = @ + a].code = es[p].code
  <2> DEFINE e == es[p]
  <2>1. e \in [id : Nat, code : Nat]
    BY <1>1 DEF Stored
  <2> HIDE DEF e
  <2>2. e = [id |-> e.id, code |-> e.code] /\ e.id \in Nat /\ e.code \in Nat
    BY <2>1
  <2>3. [e EXCEPT !.id = @ + a] = [id |-> e.id + a, code |-> e.code]
    BY <2>2
  <2>4. [id |-> e.id + a, code |-> e.code] \in Stored
    BY <2>2 DEF Stored
  <2> QED
    BY <2>3, <2>4 DEF e
<1>3. Shifted(es, a) \in [1 .. Len(es) -> Stored]
  BY <1>1, <1>2 DEF Shifted
<1>4. Shifted(es, a) \in Seq(Stored)
  BY <1>1, <1>3, IsASeq
<1>5. Len(Shifted(es, a)) = Len(es) /\ DOMAIN Shifted(es, a) = DOMAIN es
  BY <1>1, <1>3, <1>4
<1> QED
  BY <1>2, <1>4, <1>5 DEF Shifted

(* merge_from appends to each list. *)
MergeOf(ls, ms, a) == [l \in DOMAIN ls |-> ls[l] \o Shifted(ms[l], a)]

IsMerge(new, ls, ms, a) ==
    \A l \in DOMAIN ls :
       /\ Len(new[l]) = Len(ls[l]) + Len(ms[l])
       /\ DOMAIN new[l] = 1 .. (Len(ls[l]) + Len(ms[l]))
       /\ \A p \in DOMAIN ls[l] : new[l][p] = ls[l][p]
       /\ \A p \in DOMAIN ms[l] : /\ new[l][Len(ls[l]) + p].id = ms[l][p].id + a
                                  /\ new[l][Len(ls[l]) + p].code = ms[l][p].code

LEMMA MergeIs ==
    ASSUME NEW ls, IsLists(ls), NEW ms, IsLists(ms), DOMAIN ms = DOMAIN ls, NEW a \in Nat
    PROVE  /\ IsLists(MergeOf(ls, ms, a))
           /\ DOMAIN MergeOf(ls, ms, a) = DOMAIN ls
           /\ IsMerge(MergeOf(ls, ms, a), ls, ms, a)
<1> DEFINE new == MergeOf(ls, ms, a)
<1>1. DOMAIN new = DOMAIN ls /\ \A l \in DOMAIN ls : new[l] = ls[l] \o Shifted(ms[l], a)
  BY DEF MergeOf
<1>2. ASSUME NEW l \in DOMAIN ls
      PROVE  /\ new[l] \in Seq(Stored)
             /\ Len(new[l]) = Len(ls[l]) + Len(ms[l])
             /\ DOMAIN new[l] = 1 .. (Len(ls[l]) + Len(ms[l]))
             /\ \A p \in DOMAIN ls[l] : new[l][p] = ls[l][p]
             /\ \A p \in DOMAIN ms[l] : /\ new[l][Len(ls[l]) + p].id = ms[l][p].id + a
                                        /\ new[l][Len(ls[l]) + p].code = ms[l][p].code
  <2> DEFINE t == Shifted(ms[l], a)
  <2>1. /\ ls[l] \in Seq(Stored) /\ Len(ls[l]) \in Nat /\ DOMAIN ls[l] = 1 .. Len(ls[l])
        /\ ms[l] \in Seq(Stored) /\ Len(ms[l]) \in Nat /\ DOMAIN ms[l] = 1 .. Len(ms[l])
    BY ListIsSeq
  <2>2. /\ t \in Seq(Stored) /\ Len(t) = Len(ms[l]) /\ DOMAIN t = DOMAIN ms[l]
        /\ \A p \in DOMAIN ms[l] : t[p].id = ms[l][p].id + a /\ t[p].code = ms[l][p].code
    BY <2>1, ShiftedIs
  <2> HIDE DEF new, t
  <2>3. new[l] = ls[l] \o t
    BY <1>1 DEF t
  <2> DEFINE s == ls[l]
             n == Len(ls[l])
             m == Len(ms[l])
  <2> HIDE DEF s, n, m
  <2>4. /\ s \in Seq(Stored) /\ n \in Nat /\ Len(s) = n /\ DOMAIN s = 1 .. n
        /\ m \in Nat /\ Len(t) = m /\ DOMAIN t = 1 .. m
    BY <2>1, <2>2 DEF s, n, m
  <2>5. /\ s \o t \in Seq(Stored)
        /\ Len(s \o t) = n + m
        /\ \A i \in 1 .. (n + m) : (s \o t)[i] = IF i <= n THEN s[i] ELSE t[i - n]
    <3> HIDE DEF Stored
    <3>1. t \in Seq(Stored) /\ s \in Seq(Stored)
      BY <2>2, <2>4
    <3>2. /\ s \o t \in Seq(Stored)
          /\ Len(s \o t) = Len(s) + Len(t)
          /\ \A i \in 1 .. Len(s) + Len(t) :
                (s \o t)[i] = IF i <= Len(s) THEN s[i] ELSE t[i - Len(s)]
      BY <3>1, ConcatProperties, Zenon
    <3> QED
      BY <2>4, <3>2
  <2>6. DOMAIN (s \o t) = 1 .. (n + m)
    BY <2>5
  <2>7. \A p \in 1 .. n : (s \o t)[p] = s[p]
    BY <2>4, <2>5
  <2>8. ASSUME NEW p \in 1 .. m PROVE (s \o t)[n + p] = t[p]
    <3>1. n + p \in 1 .. (n + m) /\ ~(n + p <= n) /\ (n + p) - n = p
      BY <2>4
    <3> QED
      BY <2>5, <3>1
  <2> QED
    BY <2>1, <2>2, <2>3, <2>5, <2>6, <2>7, <2>8 DEF s, n, m
<1> HIDE DEF new
<1>3. IsLists(new)
  <2>1. new \in [DOMAIN ls -> Seq(Stored)]
    BY <1>1, <1>2 DEF MergeOf, new
  <2> QED
    BY <1>1, <2>1 DEF IsLists
<1>4. IsMerge(new, ls, ms, a)
  BY <1>2 DEF IsMerge
<1> QED
  BY <1>1, <1>3, <1>4 DEF new

-----------------------------------------------------------------------------
(* Ids and the map under an append. *)

(* An entry with a new id keeps ids in one place. *)
LEMMA AppendedUnique ==
    ASSUME NEW ls, IsLists(ls), NEW l \in DOMAIN ls, NEW e \in Stored,
           Unique(ls), ~Holds(ls, e.id)
    PROVE  Unique(Appended(ls, l, e))
<1> DEFINE new == Appended(ls, l, e)
           last == Len(ls[l])
<1>1. last \in Nat /\ DOMAIN ls[l] = 1 .. last
  BY ListIsSeq
<1>2. /\ DOMAIN new = DOMAIN ls
      /\ \A m \in DOMAIN ls : m # l => new[m] = ls[m]
      /\ DOMAIN new[l] = 1 .. (last + 1)
      /\ \A p \in DOMAIN ls[l] : new[l][p] = ls[l][p]
      /\ new[l][last + 1] = e
  BY AppendedIs
<1> HIDE DEF new, last
<1>3. ASSUME NEW m \in DOMAIN new, NEW p \in DOMAIN new[m]
      PROVE  \/ p \in DOMAIN ls[m] /\ new[m][p] = ls[m][p]
             \/ m = l /\ p = last + 1 /\ new[m][p] = e
  BY <1>1, <1>2
<1>4. SUFFICES ASSUME NEW m \in DOMAIN new, NEW n \in DOMAIN new,
                      NEW p \in DOMAIN new[m], NEW q \in DOMAIN new[n],
                      new[m][p].id = new[n][q].id
               PROVE  m = n /\ p = q
  BY DEF Unique, new
<1>5. \A i \in DOMAIN ls : \A j \in DOMAIN ls[i] : ls[i][j].id # e.id
  BY DEF Holds
<1>6. m \in DOMAIN ls /\ n \in DOMAIN ls
  BY <1>2
<1> QED
  BY <1>3, <1>4, <1>5, <1>6 DEF Unique

(* The ids after an append. *)
LEMMA AppendedHolds ==
    ASSUME NEW ls, IsLists(ls), NEW l \in DOMAIN ls, NEW e \in Stored, NEW id,
           Holds(Appended(ls, l, e), id)
    PROVE  id = e.id \/ Holds(ls, id)
<1> DEFINE new == Appended(ls, l, e)
           last == Len(ls[l])
<1>1. last \in Nat /\ DOMAIN ls[l] = 1 .. last
  BY ListIsSeq
<1>2. /\ DOMAIN new = DOMAIN ls
      /\ \A m \in DOMAIN ls : m # l => new[m] = ls[m]
      /\ DOMAIN new[l] = 1 .. (last + 1)
      /\ \A p \in DOMAIN ls[l] : new[l][p] = ls[l][p]
      /\ new[l][last + 1] = e
  BY AppendedIs
<1> HIDE DEF new, last
<1>3. PICK m \in DOMAIN new : \E p \in DOMAIN new[m] : new[m][p].id = id
  BY DEF Holds, new
<1>4. PICK p \in DOMAIN new[m] : new[m][p].id = id
  BY <1>3
<1>5. \/ m \in DOMAIN ls /\ p \in DOMAIN ls[m] /\ new[m][p] = ls[m][p]
      \/ new[m][p] = e
  BY <1>1, <1>2, <1>3, <1>4
<1> QED
  BY <1>4, <1>5 DEF Holds

(* Places stay places of their ids. *)
LEMMA AppendedPlace ==
    ASSUME NEW ls, IsLists(ls), NEW l \in DOMAIN ls, NEW e \in Stored, NEW lo, NEW id,
           IsPlaceOf(lo, ls, id)
    PROVE  IsPlaceOf(lo, Appended(ls, l, e), id)
<1> DEFINE new == Appended(ls, l, e)
<1>1. PICK m \in DOMAIN ls : \E p \in DOMAIN ls[m] : lo = lo_build(m, p - 1) /\ ls[m][p].id = id
  BY DEF IsPlaceOf
<1>2. PICK p \in DOMAIN ls[m] : lo = lo_build(m, p - 1) /\ ls[m][p].id = id
  BY <1>1
<1>3. m \in DOMAIN new /\ p \in DOMAIN new[m] /\ new[m][p] = ls[m][p]
  <2>1. Len(ls[l]) \in Nat /\ DOMAIN ls[l] = 1 .. Len(ls[l])
    BY ListIsSeq
  <2>2. /\ DOMAIN new = DOMAIN ls
        /\ \A n \in DOMAIN ls : n # l => new[n] = ls[n]
        /\ DOMAIN new[l] = 1 .. (Len(ls[l]) + 1)
        /\ \A q \in DOMAIN ls[l] : new[l][q] = ls[l][q]
    BY AppendedIs
  <2> HIDE DEF new
  <2> QED
    BY <1>2, <2>1, <2>2
<1> HIDE DEF new
<1> QED
  BY <1>2, <1>3 DEF IsPlaceOf, new

LEMMA AppendedBackward ==
    ASSUME NEW ls, IsLists(ls), NEW l \in DOMAIN ls, NEW e \in Stored, NEW M, Backward(M, ls)
    PROVE  Backward(M, Appended(ls, l, e))
BY AppendedPlace DEF Backward

(* A map that has the place of the new entry finds all again. *)
LEMMA AppendedMap ==
    ASSUME NEW ls, IsLists(ls), NEW l \in DOMAIN ls, NEW e \in Stored, ~Holds(ls, e.id),
           NEW M, NEW N, DOMAIN N = DOMAIN M \cup {e.id},
           N[e.id] = lo_build(l, Len(ls[l])),
           \A id \in DOMAIN M : id # e.id => N[id] = M[id]
    PROVE  /\ Backward(M, ls) => Backward(N, Appended(ls, l, e))
           /\ Forward(M, ls) => Forward(N, Appended(ls, l, e))
<1> DEFINE new == Appended(ls, l, e)
           last == Len(ls[l])
<1>1. last \in Nat /\ DOMAIN ls[l] = 1 .. last
  BY ListIsSeq
<1>2. /\ DOMAIN new = DOMAIN ls
      /\ \A m \in DOMAIN ls : m # l => new[m] = ls[m]
      /\ DOMAIN new[l] = 1 .. (last + 1)
      /\ \A p \in DOMAIN ls[l] : new[l][p] = ls[l][p]
      /\ new[l][last + 1] = e
  BY AppendedIs
<1>3. N[e.id] = lo_build(l, last)
  OBVIOUS
<1> HIDE DEF last
<1>4. ASSUME Backward(M, ls) PROVE Backward(N, new)
  <2>1. IsPlaceOf(N[e.id], new, e.id)
    <3>1. last + 1 \in DOMAIN new[l] /\ (last + 1) - 1 = last
      BY <1>1, <1>2
    <3> HIDE DEF new
    <3> QED
      BY <1>2, <1>3, <3>1 DEF IsPlaceOf
  <2>2. Backward(M, new)
    BY <1>4, AppendedBackward
  <2> HIDE DEF new
  <2> QED
    BY <2>1, <2>2 DEF Backward
<1>5. ASSUME Forward(M, ls) PROVE Forward(N, new)
  <2> HIDE DEF new
  <2>1. SUFFICES ASSUME NEW m \in DOMAIN new, NEW p \in DOMAIN new[m]
                 PROVE  new[m][p].id \in DOMAIN N /\ N[new[m][p].id] = lo_build(m, p - 1)
    BY DEF Forward
  <2>2. CASE m = l /\ p = last + 1
    BY <1>1, <1>2, <1>3, <2>2
  <2>3. CASE ~(m = l /\ p = last + 1)
    <3>1. m \in DOMAIN ls /\ p \in DOMAIN ls[m] /\ new[m][p] = ls[m][p]
      BY <1>1, <1>2, <2>1, <2>3
    <3>2. ls[m][p].id # e.id
      BY <3>1 DEF Holds
    <3> QED
      BY <1>5, <3>1, <3>2 DEF Forward
  <2> QED
    BY <2>2, <2>3
<1> QED
  BY <1>4, <1>5

(* A map that says that a new vector has no place. *)
LEMMA FreshMap ==
    ASSUME NEW ls, NEW M, NEW N, NEW F, DOMAIN N = DOMAIN M \cup F,
           \A id \in F : ~Holds(ls, id) /\ N[id] \in {Unassigned, NoEntry},
           \A id \in DOMAIN M : id \notin F => N[id] = M[id]
    PROVE  /\ Backward(M, ls) => Backward(N, ls)
           /\ Forward(M, ls) => Forward(N, ls)
<1>1. Backward(M, ls) => Backward(N, ls)
  BY DEF Backward
<1>2. ASSUME NEW l \in DOMAIN ls, NEW p \in DOMAIN ls[l] PROVE ls[l][p].id \notin F
  BY DEF Holds
<1> QED
  BY <1>1, <1>2 DEF Forward

-----------------------------------------------------------------------------
(* Ids and the map when an entry is taken out. *)

LEMMA CutUnique ==
    ASSUME NEW ls, IsLists(ls), NEW l \in DOMAIN ls, NEW k \in DOMAIN ls[l], Unique(ls)
    PROVE  /\ Unique(Cut(ls, l, k - 1))
           /\ \A id : Holds(Cut(ls, l, k - 1), id) => Holds(ls, id) /\ id # ls[l][k].id
<1> DEFINE new == Cut(ls, l, k - 1)
           last == Len(ls[l])
           From(m, p) == IF m = l /\ p = k THEN last ELSE p
<1>1. last \in Nat /\ DOMAIN ls[l] = 1 .. last /\ last \in DOMAIN ls[l]
  BY ListIsSeq
<1>2. /\ DOMAIN new = DOMAIN ls
      /\ \A m \in DOMAIN ls : m # l => new[m] = ls[m]
      /\ DOMAIN new[l] = 1 .. (last - 1)
      /\ \A p \in 1 .. (last - 1) : new[l][p] = IF p = k THEN ls[l][last] ELSE ls[l][p]
  BY CutIs
<1> HIDE DEF new, last
<1>3. ASSUME NEW m \in DOMAIN new, NEW p \in DOMAIN new[m]
      PROVE  /\ From(m, p) \in DOMAIN ls[m]
             /\ new[m][p] = ls[m][From(m, p)]
             /\ ~(m = l /\ From(m, p) = k)
             /\ m = l => p # last
  BY <1>1, <1>2
<1>4. ASSUME NEW m \in DOMAIN new, NEW p \in DOMAIN new[m], NEW q \in DOMAIN new[m],
             From(m, p) = From(m, q)
      PROVE  p = q
  BY <1>3, <1>4
<1> HIDE DEF From
<1>5. Unique(new)
  <2>1. SUFFICES ASSUME NEW m \in DOMAIN new, NEW n \in DOMAIN new,
                        NEW p \in DOMAIN new[m], NEW q \in DOMAIN new[n],
                        new[m][p].id = new[n][q].id
                 PROVE  m = n /\ p = q
    BY DEF Unique
  <2>2. /\ From(m, p) \in DOMAIN ls[m] /\ From(n, q) \in DOMAIN ls[n]
        /\ ls[m][From(m, p)].id = ls[n][From(n, q)].id
    BY <1>3, <2>1
  <2>3. m = n /\ From(m, p) = From(n, q)
    BY <1>2, <2>2 DEF Unique
  <2> QED
    BY <1>4, <2>3
<1>6. ASSUME NEW id, Holds(new, id) PROVE Holds(ls, id) /\ id # ls[l][k].id
  <2>1. PICK m \in DOMAIN new : \E p \in DOMAIN new[m] : new[m][p].id = id
    BY <1>6 DEF Holds
  <2>2. PICK p \in DOMAIN new[m] : new[m][p].id = id
    BY <2>1
  <2>3. /\ m \in DOMAIN ls /\ From(m, p) \in DOMAIN ls[m] /\ ls[m][From(m, p)].id = id
        /\ ~(m = l /\ From(m, p) = k)
    BY <1>2, <1>3, <2>2
  <2>4. id # ls[l][k].id
    BY <2>3 DEF Unique
  <2> QED
    BY <2>3, <2>4 DEF Holds
<1> QED
  BY <1>5, <1>6 DEF new

(* A map that forgets the entry and has the new place of the one that moved. *)
LEMMA CutMap ==
    ASSUME NEW ls, IsLists(ls), NEW l \in DOMAIN ls, NEW k \in DOMAIN ls[l], Unique(ls),
           NEW M, NEW N, Forward(M, ls), Backward(M, ls),
           DOMAIN N = DOMAIN M \ {ls[l][k].id},
           \A id \in DOMAIN N :
              N[id] = IF k # Len(ls[l]) /\ id = ls[l][Len(ls[l])].id
                      THEN lo_build(l, k - 1) ELSE M[id]
    PROVE  Backward(N, Cut(ls, l, k - 1)) /\ Forward(N, Cut(ls, l, k - 1))
<1> DEFINE new == Cut(ls, l, k - 1)
           last == Len(ls[l])
           id0 == ls[l][k].id
           moved == ls[l][last].id
<1>1. last \in Nat /\ DOMAIN ls[l] = 1 .. last /\ last \in DOMAIN ls[l]
  BY ListIsSeq
<1>2. /\ DOMAIN new = DOMAIN ls
      /\ \A m \in DOMAIN ls : m # l => new[m] = ls[m]
      /\ DOMAIN new[l] = 1 .. (last - 1)
      /\ \A p \in 1 .. (last - 1) : new[l][p] = IF p = k THEN ls[l][last] ELSE ls[l][p]
  BY CutIs
<1>3. /\ DOMAIN N = DOMAIN M \ {id0}
      /\ \A id \in DOMAIN N : N[id] = IF k # last /\ id = moved THEN lo_build(l, k - 1) ELSE M[id]
  OBVIOUS
<1>4. k # last => moved # id0
  BY <1>1 DEF Unique
<1>5. ASSUME NEW m \in DOMAIN ls, NEW p \in DOMAIN ls[m], ~(m = l /\ p = k)
      PROVE  ls[m][p].id # id0
  BY <1>5 DEF Unique
<1>6. ASSUME NEW m \in DOMAIN ls, NEW p \in DOMAIN ls[m], ~(m = l /\ p = last)
      PROVE  ls[m][p].id # moved
  BY <1>1, <1>6 DEF Unique
<1> HIDE DEF new, last
<1>7. Backward(N, new)
  <2>1. SUFFICES ASSUME NEW id \in DOMAIN N
                 PROVE  N[id] \in {Unassigned, NoEntry} \/ IsPlaceOf(N[id], new, id)
    BY DEF Backward
  <2>2. id \in DOMAIN M /\ id # id0
    BY <1>3
  <2>3. CASE k # last /\ id = moved
    <3>1. k \in 1 .. (last - 1) /\ N[id] = lo_build(l, k - 1)
      BY <1>1, <1>3, <2>3
    <3>2. l \in DOMAIN new /\ k \in DOMAIN new[l] /\ new[l][k].id = id
      BY <1>2, <2>3, <3>1
    <3> HIDE DEF moved
    <3> QED
      BY <3>1, <3>2 DEF IsPlaceOf
  <2>4. CASE ~(k # last /\ id = moved) /\ M[id] \in {Unassigned, NoEntry}
    BY <1>3, <2>4
  <2>5. CASE ~(k # last /\ id = moved) /\ IsPlaceOf(M[id], ls, id)
    <3>1. PICK m \in DOMAIN ls : \E p \in DOMAIN ls[m] :
             M[id] = lo_build(m, p - 1) /\ ls[m][p].id = id
      BY <2>5 DEF IsPlaceOf
    <3>2. PICK p \in DOMAIN ls[m] : M[id] = lo_build(m, p - 1) /\ ls[m][p].id = id
      BY <3>1
    <3>3. ~(m = l /\ p = k)
      BY <2>2, <3>2
    <3>4. ~(m = l /\ p = last)
      BY <2>5, <3>2, <3>3
    <3>5. m \in DOMAIN new /\ p \in DOMAIN new[m] /\ new[m][p] = ls[m][p]
      BY <1>1, <1>2, <3>2, <3>3, <3>4
    <3>6. N[id] = lo_build(m, p - 1)
      BY <1>3, <2>5, <3>2
    <3> QED
      BY <3>2, <3>5, <3>6 DEF IsPlaceOf
  <2> QED
    BY <2>2, <2>3, <2>4, <2>5 DEF Backward
<1>8. Forward(N, new)
  <2>1. SUFFICES ASSUME NEW m \in DOMAIN new, NEW p \in DOMAIN new[m]
                 PROVE  new[m][p].id \in DOMAIN N /\ N[new[m][p].id] = lo_build(m, p - 1)
    BY DEF Forward
  <2>2. CASE m = l /\ p = k
    <3>1. new[m][p] = ls[l][last] /\ k # last
      BY <1>1, <1>2, <2>1, <2>2
    <3>2. moved \in DOMAIN M
      BY <1>1 DEF Forward
    <3>3. moved \in DOMAIN N
      BY <1>3, <1>4, <3>1, <3>2
    <3> QED
      BY <1>3, <2>2, <3>1, <3>3
  <2>3. CASE ~(m = l /\ p = k)
    <3>1. m \in DOMAIN ls /\ p \in DOMAIN ls[m] /\ new[m][p] = ls[m][p] /\ ~(m = l /\ p = last)
      BY <1>1, <1>2, <2>1, <2>3
    <3>2. ls[m][p].id # id0 /\ ls[m][p].id # moved
      BY <1>5, <1>6, <2>3, <3>1
    <3>3. ls[m][p].id \in DOMAIN M /\ M[ls[m][p].id] = lo_build(m, p - 1)
      BY <3>1 DEF Forward
    <3> QED
      BY <1>3, <3>1, <3>2, <3>3
  <2> QED
    BY <2>2, <2>3
<1> QED
  BY <1>7, <1>8 DEF new

-----------------------------------------------------------------------------
(* The order of batches, call by call. *)

(* Scanning and merging keep the codes old. *)
LEMMA ScanOld ==
    ASSUME NEW ls, IsLists(ls), NEW sel, NEW n, Old(ls, n)
    PROVE  Old(ScanOf(ls, sel), n)
<1>1. SUFFICES ASSUME NEW l \in DOMAIN ls, NEW p \in DOMAIN ScanOf(ls, sel)[l]
               PROVE  \/ ScanOf(ls, sel)[l][p].code <= n
                      \/ ScanOf(ls, sel)[l][p].code > MaxAdded
  BY ScanIs DEF Old
<1>2. PICK q \in DOMAIN ls[l] : ScanOf(ls, sel)[l][p] = ls[l][q]
  BY ScanIs
<1> QED
  BY <1>2 DEF Old

LEMMA MergeOld ==
    ASSUME NEW ls, IsLists(ls), NEW ms, IsLists(ms), DOMAIN ms = DOMAIN ls, NEW a \in Nat,
           NEW n \in Nat, Old(ls, n), Old(ms, n)
    PROVE  Old(MergeOf(ls, ms, a), n)
<1> DEFINE new == MergeOf(ls, ms, a)
<1>1. SUFFICES ASSUME NEW l \in DOMAIN ls, NEW p \in DOMAIN new[l]
               PROVE  new[l][p].code <= n \/ new[l][p].code > MaxAdded
  BY MergeIs DEF Old
<1>2. /\ Len(ls[l]) \in Nat /\ DOMAIN ls[l] = 1 .. Len(ls[l])
      /\ Len(ms[l]) \in Nat /\ DOMAIN ms[l] = 1 .. Len(ms[l])
  BY ListIsSeq
<1>3. /\ DOMAIN new[l] = 1 .. (Len(ls[l]) + Len(ms[l]))
      /\ \A q \in DOMAIN ls[l] : new[l][q] = ls[l][q]
      /\ \A q \in DOMAIN ms[l] : new[l][Len(ls[l]) + q].code = ms[l][q].code
  <2>1. IsMerge(new, ls, ms, a)
    BY MergeIs
  <2> HIDE DEF new
  <2> QED
    BY <2>1 DEF IsMerge
<1> HIDE DEF new
<1>4. p \in Nat
  BY <1>1, <1>2, <1>3
<1>5. CASE p \in DOMAIN ls[l]
  BY <1>3, <1>5 DEF Old
<1>6. CASE p \notin DOMAIN ls[l]
  <2> DEFINE q == p - Len(ls[l])
  <2>1. q \in DOMAIN ms[l] /\ Len(ls[l]) + q = p
    BY <1>1, <1>2, <1>3, <1>6
  <2> HIDE DEF q
  <2>2. new[l][p].code = ms[l][q].code
    BY <1>3, <2>1
  <2> QED
    BY <2>1, <2>2 DEF Old
<1> QED
  BY <1>5, <1>6

(* A call that ends with the lists as they are. *)
LEMMA EndOrder ==
    ASSUME IInv, call.op # "add", call' = Idle, UNCHANGED <<lists, other, nadded>>
    PROVE  OrderInv'
<1>1. ShapeInv'
  BY IdleShape DEF IInv, OrderInv, ShapeInv
<1>2. CodeInv'
  BY DEF IInv, OrderInv, CodeInv, Idle, Old
<1> QED
  BY <1>1, <1>2, NoBatch DEF OrderInv, Idle

(* The numbers of what is there when a call begins. *)
LEMMA IdleFacts ==
    ASSUME IInv, call = Idle
    PROVE  /\ call.op = "none"
           /\ Old(lists, nadded) /\ Old(other.lists, 0)
           /\ IsLists(lists) /\ IsLists(other.lists)
           /\ nadded \in 0 .. MaxAdded /\ nadded \in Nat /\ MaxAdded \in Nat
           /\ array \in Seq(LO) /\ Len(array) \in Nat
           /\ ntotal \in Nat /\ nlost \in Nat
           /\ Unique(lists)
           /\ ntotal = SizeOf(lists) + nlost
           /\ type = "Array" => Len(array) = ntotal
<1>1. call.op = "none"
  BY DEF Idle
<1>2. Old(lists, nadded) /\ Old(other.lists, 0)
  BY <1>1 DEF IInv, OrderInv, CodeInv
<1>3. /\ IsLists(lists) /\ IsLists(other.lists) /\ nadded \in 0 .. MaxAdded
      /\ nadded \in Nat /\ MaxAdded \in Nat
  BY BoundsAssumption DEF IInv, OrderInv, ShapeInv
<1>4. array \in Seq(LO) /\ Len(array) \in Nat
  BY DEF IInv, IdInv, MapInv
<1>5. /\ ntotal \in Nat /\ nlost \in Nat
      /\ ntotal + Cardinality(Entering) = SizeOf(lists) + nlost + 0
      /\ type = "Array" => Len(array) = ntotal + 0
  BY <1>1 DEF IInv, IdInv, CountInv
<1>6. Entering = {}
  BY <1>1 DEF Entering
<1>7. Cardinality(Entering) = 0
  BY <1>6, FS_EmptySet
<1>8. SizeOf(lists) \in Nat
  BY <1>3, PlacesFinite
<1>9. ntotal = SizeOf(lists) + nlost
  BY <1>5, <1>7, <1>8
<1>10. type = "Array" => Len(array) = ntotal
  BY <1>5
<1>11. Unique(lists)
  BY DEF IInv, IdInv
<1> QED
  BY <1>1, <1>2, <1>3, <1>4, <1>5, <1>9, <1>10, <1>11

LEMMA AddWithIdsOrder ==
    ASSUME IInv, NEW ids \in SeqsUpTo(Ids, MaxBatch),
           NEW ls \in [DOMAIN ids -> DOMAIN lists \cup {-1}], add_with_ids(ids, ls)
    PROVE  OrderInv'
<1> DEFINE vecs == Batch(ids, ls)
<1>1. /\ call = Idle /\ nadded + Len(ids) <= MaxAdded /\ BeginAdd(vecs)
      /\ nadded' = nadded + Len(ids) /\ UNCHANGED <<lists, other>>
  BY DEF add_with_ids
<1>2. /\ vecs \in Seq(Vec) /\ Len(vecs) = Len(ids) /\ Len(ids) \in Nat
      /\ DOMAIN vecs = 1 .. Len(ids) /\ DOMAIN ids = 1 .. Len(ids)
      /\ \A i \in 1 .. Len(ids) : vecs[i] = [id |-> ids[i], list |-> ls[i], code |-> nadded + i]
  BY BatchIs DEF IInv, OrderInv
<1>3. Old(lists, nadded) /\ nadded \in Nat /\ MaxAdded \in Nat /\ array \in Seq(LO)
  BY <1>1, IdleFacts
<1> HIDE DEF vecs
<1>4. nadded' \in 0 .. MaxAdded /\ nadded' - Len(vecs) = nadded
  BY <1>1, <1>2, <1>3
<1>5. InRange(vecs)
  BY <1>2 DEF InRange
<1>6. \A i \in DOMAIN vecs : vecs[i].code = nadded' - Len(vecs) + i
  BY <1>2, <1>4
<1>7. Old(lists, nadded' - Len(vecs))
  BY <1>3, <1>4
<1> QED
  BY <1>1, <1>2, <1>3, <1>4, <1>5, <1>6, <1>7, BeginAddOrder DEF IInv

LEMMA UpdateVectorsOrder ==
    ASSUME IInv, NEW ids \in SeqsUpTo(Ids, MaxBatch),
           NEW ls \in [DOMAIN ids -> DOMAIN lists \cup {-1}], update_vectors(ids, ls)
    PROVE  OrderInv'
<1> DEFINE vecs == Batch(ids, ls)
<1>1. /\ call = Idle /\ nadded + Len(ids) <= MaxAdded
      /\ call' = IF type = "Array" THEN [op |-> "update", rest |-> vecs]
                 ELSE [op |-> "remove", rest |-> ids, nremove |-> 0, then |-> vecs]
      /\ nadded' = nadded + Len(ids) /\ UNCHANGED <<lists, other>>
  BY DEF update_vectors
<1>2. /\ vecs \in Seq(Vec) /\ Len(vecs) = Len(ids) /\ Len(ids) \in Nat /\ ids \in Seq(Ids)
      /\ DOMAIN vecs = 1 .. Len(ids) /\ DOMAIN ids = 1 .. Len(ids)
      /\ \A i \in 1 .. Len(ids) : vecs[i] = [id |-> ids[i], list |-> ls[i], code |-> nadded + i]
  BY BatchIs DEF IInv, OrderInv
<1>3. /\ Old(lists, nadded) /\ nadded \in Nat /\ MaxAdded \in Nat
      /\ IsLists(lists) /\ Old(other.lists, 0)
  BY <1>1, IdleFacts
<1> HIDE DEF vecs
<1>4. nadded' \in 0 .. MaxAdded /\ nadded' - Len(vecs) = nadded /\ nadded <= nadded'
  BY <1>1, <1>2, <1>3
<1>5. InRange(vecs)
  BY <1>2 DEF InRange
<1>6. \A i \in DOMAIN vecs : vecs[i].code = nadded' - Len(vecs) + i /\ vecs[i].code <= nadded'
  BY <1>1, <1>2, <1>3, <1>4
<1>7. Old(lists, nadded')
  BY <1>3, <1>4, OldGrows
<1>8. CASE type = "Array"
  <2>1. call' = [op |-> "update", rest |-> vecs]
    BY <1>1, <1>8
  <2>2. call' \in UpdateCalls /\ call'.op = "update" /\ call'.rest = vecs
    BY <1>2, <2>1 DEF UpdateCalls
  <2>3. ShapeInv'
    BY <1>1, <1>4, <1>6, <2>2 DEF IInv, OrderInv, ShapeInv, CallInv
  <2>4. CodeInv'
    BY <1>1, <1>3, <1>7, <2>2 DEF CodeInv, Old
  <2> QED
    BY <2>2, <2>3, <2>4, NoBatch DEF OrderInv
<1>9. CASE type # "Array"
  <2>1. call' = [op |-> "remove", rest |-> ids, nremove |-> 0, then |-> vecs]
    BY <1>1, <1>9
  <2>2. call' \in RemoveCalls /\ call'.op = "remove" /\ call'.then = vecs
    BY <1>2, <2>1 DEF RemoveCalls
  <2>3. Numbered(call.then)' /\ InRange(call.then)'
    BY <1>1, <1>5, <1>6, <2>2 DEF Numbered, InRange
  <2>4. ShapeInv'
    BY <1>1, <1>4, <2>2, <2>3 DEF IInv, OrderInv, ShapeInv, CallInv
  <2>5. Old(lists, nadded)'
    BY <1>1, <1>7 DEF Old
  <2>6. Old(lists', nadded' - Len(call'.then))
    BY <1>1, <1>3, <1>4, <2>2
  <2>7. CodeInv'
    BY <1>1, <1>3, <2>2, <2>5, <2>6 DEF CodeInv, Old
  <2> QED
    BY <2>2, <2>4, <2>7, NoBatch DEF OrderInv
<1> QED
  BY <1>8, <1>9

LEMMA RemoveIdsOrder ==
    ASSUME IInv, NEW ids \in SeqsUpTo(Ids, MaxBatch), remove_ids(ids)
    PROVE  OrderInv'
<1>1. /\ call = Idle /\ UNCHANGED <<lists, other, nadded>>
      /\ call' = IF type = "NoMap"
                 THEN [op |-> "scan", sel |-> {ids[i] : i \in DOMAIN ids}]
                 ELSE [op |-> "remove", rest |-> ids, nremove |-> 0, then |-> <<>>]
  BY DEF remove_ids
<1>2. ids \in Seq(Ids)
  <2>1. PICK k \in 1 .. MaxBatch : ids \in [1 .. k -> Ids]
    BY DEF SeqsUpTo
  <2>2. k \in Nat
    BY BoundsAssumption
  <2> QED
    BY <2>1, <2>2, IsASeq
<1>3. Old(lists, nadded) /\ Old(other.lists, 0) /\ nadded \in Nat
  BY <1>1, IdleFacts
<1>4. CASE type = "NoMap"
  <2>1. call' \in ScanCalls /\ call'.op = "scan"
    <3>1. {ids[i] : i \in DOMAIN ids} \in SUBSET Ids
      BY <1>2
    <3> QED
      BY <1>1, <1>4, <3>1 DEF ScanCalls
  <2>2. ShapeInv'
    BY <1>1, <2>1 DEF IInv, OrderInv, ShapeInv, CallInv
  <2>3. CodeInv'
    BY <1>1, <1>3, <2>1 DEF CodeInv, Old
  <2> QED
    BY <2>1, <2>2, <2>3, NoBatch DEF OrderInv
<1>5. CASE type # "NoMap"
  <2>1. call' = [op |-> "remove", rest |-> ids, nremove |-> 0, then |-> <<>>]
    BY <1>1, <1>5
  <2>2. call' \in RemoveCalls /\ call'.op = "remove" /\ call'.then = <<>>
    BY <1>2, <2>1 DEF RemoveCalls
  <2>3. Numbered(call.then)' /\ InRange(call.then)'
    BY <2>2 DEF Numbered, InRange
  <2>4. ShapeInv'
    BY <1>1, <2>2, <2>3 DEF IInv, OrderInv, ShapeInv, CallInv
  <2>5. Old(lists', nadded' - Len(call'.then))
    BY <1>1, <1>3, <2>2
  <2>6. CodeInv'
    BY <1>1, <1>3, <2>2, <2>5 DEF CodeInv, Old
  <2> QED
    BY <2>2, <2>4, <2>6, NoBatch DEF OrderInv
<1> QED
  BY <1>4, <1>5

LEMMA ScanOrder ==
    ASSUME IInv, scan
    PROVE  OrderInv'
<1>1. /\ call.op = "scan" /\ call' = Idle /\ UNCHANGED <<other, nadded>>
      /\ lists' = ScanOf(lists, call.sel)
  BY DEF scan, ScanOf
<1>2. IsLists(lists) /\ Old(lists, nadded) /\ Old(other.lists, 0)
  BY <1>1 DEF IInv, OrderInv, ShapeInv, CodeInv
<1>3. IsLists(lists') /\ Old(lists', nadded)
  BY <1>1, <1>2, ScanIs, ScanOld
<1>4. ShapeInv'
  BY <1>1, <1>3, IdleShape DEF IInv, OrderInv
<1>5. CodeInv'
  BY <1>1, <1>2, <1>3 DEF CodeInv, Idle, Old
<1> QED
  BY <1>1, <1>4, <1>5, NoBatch DEF OrderInv, Idle

LEMMA RemoveNextOrder ==
    ASSUME IInv, remove_next
    PROVE  OrderInv'
<1>1. /\ call.op = "remove" /\ call'.op = "remove" /\ call' \in RemoveCalls
      /\ call'.then = call.then /\ UNCHANGED <<other, nadded>>
      /\ \/ lists' = lists
         \/ \E l \in DOMAIN lists : \E k \in DOMAIN lists[l] : lists' = Cut(lists, l, k - 1)
  BY RemoveNextIs
<1>2. /\ IsLists(lists) /\ Numbered(call.then) /\ InRange(call.then)
      /\ Old(lists, nadded - Len(call.then)) /\ Old(lists, nadded) /\ Old(other.lists, 0)
      /\ call.then \in Seq(Vec) /\ nadded \in Nat
  BY <1>1, CallKinds, BoundsAssumption DEF IInv, OrderInv, ShapeInv, CodeInv, RemoveCalls
<1>3. IsLists(lists') /\ DOMAIN lists' = DOMAIN lists
  BY <1>1, <1>2, CutIs
<1>4. Old(lists', nadded) /\ Old(lists', nadded - Len(call.then))
  <2>1. nadded \in Int /\ nadded - Len(call.then) \in Int
    BY <1>2
  <2> QED
    BY <1>1, <1>2, <2>1, OldCut
<1>5. ShapeInv'
  BY <1>1, <1>2, <1>3 DEF IInv, OrderInv, ShapeInv, CallInv, Numbered, InRange
<1>6. CodeInv'
  BY <1>1, <1>2, <1>4 DEF CodeInv, Old
<1> QED
  BY <1>1, <1>5, <1>6, NoBatch DEF OrderInv

LEMMA RemoveEndOrder ==
    ASSUME IInv, remove_end
    PROVE  OrderInv'
<1>1. /\ call.op = "remove" /\ UNCHANGED <<lists, other, nadded>>
      /\ BeginAdd(call.then) \/ call' = Idle
  BY DEF remove_end
<1>2. /\ Numbered(call.then) /\ InRange(call.then) /\ call.then \in Seq(Vec)
      /\ Old(lists, nadded - Len(call.then)) /\ nadded \in 0 .. MaxAdded /\ array \in Seq(LO)
  BY <1>1, CallKinds DEF IInv, OrderInv, IdInv, MapInv, ShapeInv, CodeInv, RemoveCalls
<1>3. CASE BeginAdd(call.then)
  BY <1>1, <1>2, <1>3, BeginAddOrder DEF IInv, Numbered
<1>4. CASE call' = Idle
  BY <1>1, <1>4, EndOrder
<1> QED
  BY <1>1, <1>3, <1>4

LEMMA UpdateOneOrder ==
    ASSUME IInv, update_one
    PROVE  OrderInv'
<1> DEFINE v == Head(call.rest)
<1>1. /\ call.op = "update" /\ UNCHANGED <<other, nadded>>
      /\ v \in Vec /\ call.rest \in Seq(Vec) /\ call.rest # <<>>
  BY UpdateOneIs
<1>2. CASE call' = Idle /\ UNCHANGED <<lists, array>>
  BY <1>1, <1>2, EndOrder
<1>3. ASSUME call' \in UpdateCalls, call'.op = "update", call'.rest = Tail(call.rest),
             v.list \in DOMAIN lists,
             NEW l \in DOMAIN lists, NEW k \in DOMAIN lists[l],
             lists' = Appended(Cut(lists, l, k - 1), v.list, Entry(v))
      PROVE  OrderInv'
  <2>1. /\ IsLists(lists) /\ Old(lists, nadded) /\ Old(other.lists, 0) /\ nadded \in Nat
        /\ \A i \in DOMAIN call.rest : call.rest[i].code <= nadded
    BY <1>1, CallKinds, BoundsAssumption DEF IInv, OrderInv, ShapeInv, CodeInv
  <2>2. Entry(v) \in Stored /\ Entry(v).code <= nadded
    <3>1. v = call.rest[1] /\ 1 \in DOMAIN call.rest
      BY <1>1
    <3>2. v.code <= nadded
      BY <2>1, <3>1
    <3> HIDE DEF v
    <3> QED
      BY <1>1, <3>2 DEF Vec, Entry, Stored
  <2> HIDE DEF v
  <2> DEFINE out == Cut(lists, l, k - 1)
  <2>3. IsLists(out) /\ DOMAIN out = DOMAIN lists /\ Old(out, nadded)
    BY <2>1, CutIs, OldCut
  <2> HIDE DEF out
  <2>4. /\ IsLists(Appended(out, v.list, Entry(v))) /\ Old(Appended(out, v.list, Entry(v)), nadded)
        /\ DOMAIN Appended(out, v.list, Entry(v)) = DOMAIN lists
    <3>1. v.list \in DOMAIN out /\ Entry(v) \in Stored
      BY <1>3, <2>2, <2>3
    <3>2. IsLists(Appended(out, v.list, Entry(v)))
          /\ DOMAIN Appended(out, v.list, Entry(v)) = DOMAIN out
      BY <2>3, <3>1, AppendedIs
    <3>3. Old(Appended(out, v.list, Entry(v)), nadded)
      BY <2>1, <2>2, <2>3, <3>1, OldAppended
    <3> QED
      BY <2>3, <3>2, <3>3
  <2>5. IsLists(lists') /\ Old(lists', nadded) /\ DOMAIN lists' = DOMAIN lists
    BY <1>3, <2>4 DEF out
  <2>6. \A i \in DOMAIN call'.rest : call'.rest[i].code <= nadded
    <3>1. \A i \in DOMAIN Tail(call.rest) : i + 1 \in DOMAIN call.rest
                                            /\ Tail(call.rest)[i] = call.rest[i + 1]
      BY <1>1
    <3> QED
      BY <1>3, <2>1, <3>1
  <2>7. ShapeInv'
    BY <1>1, <1>3, <2>5, <2>6 DEF IInv, OrderInv, ShapeInv, CallInv
  <2>8. CodeInv'
    BY <1>1, <1>3, <2>1, <2>5 DEF CodeInv, Old
  <2> QED
    BY <1>3, <2>7, <2>8, NoBatch DEF OrderInv
<1> HIDE DEF v
<1> QED
  BY <1>2, <1>3, UpdateOneIs DEF v

LEMMA UpdateEndOrder ==
    ASSUME IInv, update_end
    PROVE  OrderInv'
<1>1. call.op = "update" /\ call' = Idle /\ UNCHANGED <<lists, other, nadded>>
  BY DEF update_end
<1> QED
  BY <1>1, EndOrder

LEMMA SetTypeOrder ==
    ASSUME IInv, NEW new, set_type(new)
    PROVE  OrderInv'
<1>1. call = Idle /\ call' = Idle /\ UNCHANGED <<lists, other, nadded>>
  BY DEF set_type
<1>2. call.op # "add"
  BY <1>1 DEF Idle
<1> QED
  BY <1>1, <1>2, EndOrder

(* Empty lists. *)
LEMMA EmptiedIs ==
    ASSUME NEW ls, IsLists(ls)
    PROVE  /\ IsLists([l \in DOMAIN ls |-> <<>>])
           /\ Places([l \in DOMAIN ls |-> <<>>]) = {}
           /\ SizeOf([l \in DOMAIN ls |-> <<>>]) = 0
           /\ \A n : Old([l \in DOMAIN ls |-> <<>>], n)
<1> DEFINE new == [l \in DOMAIN ls |-> <<>>]
<1>1. <<>> \in Seq(Stored) /\ DOMAIN <<>> = {}
  OBVIOUS
<1>2. IsLists(new)
  BY <1>1 DEF IsLists
<1>3. Places(new) = {}
  BY <1>1, PlacesAre
<1>4. SizeOf(new) = 0
  BY <1>3, FS_EmptySet DEF SizeOf
<1>5. \A n : Old(new, n)
  BY <1>1 DEF Old
<1> QED
  BY <1>2, <1>3, <1>4, <1>5

LEMMA ResetOrder ==
    ASSUME IInv, reset
    PROVE  OrderInv'
<1>1. /\ call = Idle /\ call' = Idle /\ UNCHANGED <<other, nadded>>
      /\ lists' = [l \in DOMAIN lists |-> <<>>]
  BY DEF reset
<1>2. IsLists(lists) /\ Old(other.lists, 0)
  BY <1>1, IdleFacts
<1>3. IsLists(lists') /\ Old(lists', nadded)
  BY <1>1, <1>2, EmptiedIs
<1>4. ShapeInv'
  BY <1>1, <1>3, IdleShape DEF IInv, OrderInv
<1>5. CodeInv'
  BY <1>1, <1>2, <1>3 DEF CodeInv, Idle, Old
<1> QED
  BY <1>1, <1>4, <1>5, NoBatch DEF OrderInv, Idle

LEMMA MergeFromOrder ==
    ASSUME IInv, NEW a \in Shifts, merge_from(a)
    PROVE  OrderInv'
<1>1. /\ call = Idle /\ call' = call /\ UNCHANGED nadded /\ DOMAIN lists = DOMAIN other.lists
      /\ lists' = MergeOf(lists, other.lists, a)
      /\ other' = [lists |-> [l \in DOMAIN other.lists |-> <<>>], ntotal |-> 0]
  BY DEF merge_from, MayMerge, MergeOf, Emptied
<1>2. /\ IsLists(lists) /\ IsLists(other.lists) /\ Old(lists, nadded) /\ Old(other.lists, 0)
      /\ nadded \in Nat /\ nadded \in 0 .. MaxAdded
  BY <1>1, IdleFacts
<1>3. a \in Nat
  BY IdsAssumption
<1>4. Old(other.lists, nadded)
  BY <1>2, OldGrows
<1>5. IsLists(lists') /\ Old(lists', nadded)
  BY <1>1, <1>2, <1>3, <1>4, MergeIs, MergeOld
<1>6. IsLists(other'.lists) /\ Old(other'.lists, 0)
  BY <1>1, <1>2, EmptiedIs
<1>7. ShapeInv'
  BY <1>1, <1>2, <1>5, <1>6 DEF ShapeInv, CallInv
<1>8. CodeInv'
  BY <1>1, <1>5, <1>6 DEF CodeInv, Idle, Old
<1> QED
  BY <1>1, <1>7, <1>8, NoBatch DEF OrderInv, Idle

(* A call that copies lists. *)
LEMMA BeginConcatIs ==
    ASSUME IInv, NEW a \in Shifts, NEW flat \in BOOLEAN, BeginConcat(a, flat)
    PROVE  /\ call'.op = "concat" /\ IsConcat(call')
           /\ call'.new_lists = lists /\ call'.add_id = a
           /\ UNCHANGED <<lists, ntotal, type, array, hashtable, other, nadded, nlost, partial>>
<1>1. call' = [op |-> "concat", add_id |-> a, flat |-> flat, new_lists |-> lists]
  BY DEF BeginConcat
<1>2. IsLists(lists) /\ a \in Nat
  BY IdsAssumption DEF IInv, OrderInv, ShapeInv
<1>3. IsConcat(call')
  BY <1>1, <1>2 DEF IsConcat
<1> QED
  BY <1>1, <1>3 DEF BeginConcat

LEMMA BeginConcatOrder ==
    ASSUME IInv, NEW a \in Shifts, NEW flat \in BOOLEAN, BeginConcat(a, flat)
    PROVE  OrderInv'
<1>1. /\ call'.op = "concat" /\ IsConcat(call') /\ call'.new_lists = lists
      /\ UNCHANGED <<lists, other, nadded>>
  BY BeginConcatIs
<1>2. call = Idle
  BY DEF BeginConcat, MayMerge
<1>3. Old(lists, nadded) /\ Old(other.lists, 0)
  BY <1>2, IdleFacts
<1>4. CallInv'
  BY <1>1 DEF CallInv, IsConcat, IsLists
<1>5. ShapeInv'
  BY <1>1, <1>4 DEF IInv, OrderInv, ShapeInv
<1>6. CodeInv'
  BY <1>1, <1>3 DEF CodeInv, Old
<1> QED
  BY <1>1, <1>5, <1>6, NoBatch DEF OrderInv

(* The lists with one more. *)
With(ls, n, es) == [m \in DOMAIN ls \union {n} |-> IF m = n THEN es ELSE ls[m]]
Without(ls, l) == [ls EXCEPT ![l] = <<>>]

(* The next list of the other index goes behind the lists copied before. *)
LEMMA ConcatListIs ==
    ASSUME IInv, NEW l \in DOMAIN other.lists, concat_list(l)
    PROVE  /\ call.op = "concat" /\ call'.op = "concat" /\ call'.add_id = call.add_id
           /\ call'.new_lists =
                 With(call.new_lists, NewList(l), Shifted(other.lists[l], call.add_id))
           /\ NewList(l) = Cardinality(DOMAIN call.new_lists)
           /\ NewList(l) \notin DOMAIN call.new_lists
           /\ IsLists(call'.new_lists)
           /\ IsConcat(call')
           /\ l \in Pending /\ Pending' = Pending \ {l}
           /\ other'.ntotal = other.ntotal
           /\ other'.lists \in {other.lists, Without(other.lists, l)}
           /\ other' = [lists |-> other'.lists, ntotal |-> other'.ntotal]
           /\ UNCHANGED <<lists, ntotal, type, array, hashtable, nadded, nlost, partial>>
<1> DEFINE c == Cardinality(DOMAIN lists)
           n == Cardinality(DOMAIN call.new_lists)
           es == Shifted(other.lists[l], call.add_id)
           new == With(call.new_lists, NewList(l), es)
<1>1. /\ call.op = "concat" /\ l \in Pending /\ \A k \in Pending : l <= k
      /\ call' = [call EXCEPT !.new_lists = With(@, NewList(l), es)]
      /\ other' = IF call.flat THEN [other EXCEPT !.lists[l] = <<>>] ELSE other
      /\ UNCHANGED <<lists, ntotal, type, array, hashtable, nadded, nlost, partial>>
  BY DEF concat_list, With
<1>2. IsConcat(call) /\ IsLists(lists) /\ IsLists(other.lists)
  BY <1>1, CallKinds DEF IInv, OrderInv, ShapeInv
<1>3. /\ IsLists(call.new_lists) /\ call.add_id \in Nat
      /\ call = [op |-> "concat", add_id |-> call.add_id, flat |-> call.flat,
                 new_lists |-> call.new_lists]
      /\ call.flat \in BOOLEAN
  BY <1>2 DEF IsConcat
<1>4. DOMAIN lists \subseteq DOMAIN call.new_lists
  BY <1>1 DEF IInv, IdInv, MergeInv
<1>5. /\ c \in Nat /\ DOMAIN lists = 0 .. (c - 1)
      /\ n \in Nat /\ DOMAIN call.new_lists = 0 .. (n - 1)
      /\ IsFiniteSet(DOMAIN call.new_lists)
      /\ DOMAIN other.lists \subseteq Nat
  BY <1>2, <1>3, FS_CardinalityType, ListIsSeq DEF IsLists
<1> HIDE DEF c, n
<1>6. c <= n
  <2>1. CASE c = 0
    BY <1>5, <2>1
  <2>2. CASE c # 0
    <3>1. c - 1 \in DOMAIN lists
      BY <1>5, <2>2
    <3>2. c - 1 \in 0 .. (n - 1)
      BY <1>4, <1>5, <3>1
    <3> QED
      BY <1>5, <3>2
  <2> QED
    BY <2>1, <2>2
<1>7. \A k \in DOMAIN other.lists : k \in Pending <=> k + c >= n
  <2>1. Pending = DOMAIN other.lists \ {x - c : x \in DOMAIN call.new_lists}
    BY DEF Pending, c
  <2> SUFFICES ASSUME NEW k \in DOMAIN other.lists PROVE k \in Pending <=> k + c >= n
    OBVIOUS
  <2>2. k \in Pending <=> ~(\E x \in DOMAIN call.new_lists : k = x - c)
    BY <2>1
  <2>3. k \in Nat
    BY <1>5
  <2>4. ASSUME NEW x \in DOMAIN call.new_lists, k = x - c PROVE k + c < n
    BY <1>5, <2>3, <2>4
  <2>5. ASSUME k + c < n PROVE \E x \in DOMAIN call.new_lists : k = x - c
    <3>1. k + c \in DOMAIN call.new_lists /\ k = (k + c) - c
      BY <1>5, <2>3, <2>5
    <3> QED
      BY <3>1
  <2>6. k + c >= n <=> ~(k + c < n)
    BY <1>5, <2>3
  <2> QED
    BY <2>2, <2>4, <2>5, <2>6
<1>8. l + c = n
  <2>1. l \in Nat /\ l + c >= n
    BY <1>1, <1>5, <1>7
  <2>2. ASSUME l + c > n PROVE FALSE
    <3> DEFINE k == n - c
    <3>1. k \in Nat /\ k < l /\ k + c >= n
      BY <1>5, <1>6, <2>1, <2>2
    <3>2. k \in DOMAIN other.lists
      <4>1. Cardinality(DOMAIN other.lists) \in Nat
        BY <1>2, FS_CardinalityType DEF IsLists
      <4>2. l \in 0 .. (Cardinality(DOMAIN other.lists) - 1)
        BY <1>2 DEF IsLists
      <4>3. k \in 0 .. (Cardinality(DOMAIN other.lists) - 1)
        BY <2>1, <3>1, <4>1, <4>2
      <4> QED
        BY <1>2, <4>3 DEF IsLists
    <3> HIDE DEF k
    <3>3. l <= k
      BY <1>1, <1>7, <3>1, <3>2
    <3> QED
      BY <2>1, <3>1, <3>3
  <2> QED
    BY <1>5, <2>1, <2>2
<1>9. NewList(l) = n
  BY <1>5, <1>8 DEF NewList, c
<1>10. n \notin DOMAIN call.new_lists
  BY <1>5
<1>11. es \in Seq(Stored)
  BY <1>2, <1>3, ListIsSeq, ShiftedIs
<1> HIDE DEF es
<1>12. DOMAIN new = DOMAIN call.new_lists \cup {n}
  BY <1>9 DEF With
<1>13. IsLists(new)
  <2>1. IsFiniteSet(DOMAIN new) /\ Cardinality(DOMAIN new) = n + 1
    BY <1>5, <1>10, <1>12, FS_AddElement DEF n
  <2>2. DOMAIN new = 0 .. ((n + 1) - 1)
    BY <1>5, <1>12
  <2>3. \A m \in DOMAIN new : (IF m = NewList(l) THEN es ELSE call.new_lists[m]) \in Seq(Stored)
    BY <1>3, <1>9, <1>11, <1>12 DEF IsLists
  <2>4. new \in [DOMAIN new -> Seq(Stored)]
    BY <2>3 DEF With
  <2> HIDE DEF new
  <2> QED
    BY <2>1, <2>2, <2>4 DEF IsLists
<1> HIDE DEF new
<1>14. call' = [op |-> "concat", add_id |-> call.add_id, flat |-> call.flat, new_lists |-> new]
  <2>1. DOMAIN call = {"op", "add_id", "flat", "new_lists"}
    BY <1>3
  <2>2. call' = [f \in DOMAIN call |-> IF f = "new_lists" THEN new ELSE call[f]]
    BY <1>1, <2>1 DEF new
  <2> QED
    BY <1>1, <2>1, <2>2
<1>15. IsConcat(call')
  BY <1>3, <1>13, <1>14 DEF IsConcat
<1>16. other = [lists |-> other.lists, ntotal |-> other.ntotal]
  BY DEF IInv, OrderInv, ShapeInv
<1>17. /\ other'.lists \in {other.lists, Without(other.lists, l)}
       /\ other'.ntotal = other.ntotal
       /\ other' = [lists |-> other'.lists, ntotal |-> other'.ntotal]
       /\ DOMAIN other'.lists = DOMAIN other.lists
  <2>1. CASE call.flat
    <3>1. DOMAIN other = {"lists", "ntotal"}
      BY <1>16
    <3>2. other' = [f \in DOMAIN other |-> IF f = "lists" THEN Without(other.lists, l) ELSE other[f]]
      BY <1>1, <2>1, <3>1 DEF Without
    <3>3. other' = [lists |-> Without(other.lists, l), ntotal |-> other.ntotal]
      BY <3>1, <3>2
    <3>4. DOMAIN Without(other.lists, l) = DOMAIN other.lists
      BY <1>2 DEF Without, IsLists
    <3> QED
      BY <3>3, <3>4
  <2>2. CASE ~call.flat
    BY <1>1, <1>16, <2>2
  <2> QED
    BY <2>1, <2>2
<1>18. Pending' = Pending \ {l}
  <2>1. Pending' = DOMAIN other.lists \ {x - c : x \in DOMAIN call'.new_lists}
    BY <1>1, <1>17 DEF Pending, c
  <2>2. Pending = DOMAIN other.lists \ {x - c : x \in DOMAIN call.new_lists}
    BY DEF Pending, c
  <2>3. DOMAIN call'.new_lists = DOMAIN call.new_lists \cup {n}
    BY <1>12, <1>14
  <2>4. n - c = l
    BY <1>5, <1>8
  <2> QED
    BY <2>1, <2>2, <2>3, <2>4
<1>19. call'.op = "concat" /\ call'.add_id = call.add_id /\ call'.new_lists = new
  BY <1>14
<1> QED
  BY <1>1, <1>9, <1>10, <1>13, <1>15, <1>17, <1>18, <1>19 DEF n, new, es

LEMMA ConcatListOrder ==
    ASSUME IInv, NEW l \in DOMAIN other.lists, concat_list(l)
    PROVE  OrderInv'
<1> DEFINE es == Shifted(other.lists[l], call.add_id)
           new == With(call.new_lists, NewList(l), es)
<1>1. /\ call.op = "concat" /\ call'.op = "concat" /\ call'.new_lists = new
      /\ IsLists(call'.new_lists) /\ IsConcat(call')
      /\ other'.lists \in {other.lists, Without(other.lists, l)}
      /\ other' = [lists |-> other'.lists, ntotal |-> other'.ntotal]
      /\ UNCHANGED <<lists, nadded>>
  BY ConcatListIs
<1>2. /\ IsConcat(call) /\ IsLists(other.lists) /\ IsLists(lists)
      /\ Old(other.lists, 0) /\ Old(lists, nadded) /\ Old(call.new_lists, nadded)
      /\ nadded \in Nat
  BY <1>1, CallKinds, BoundsAssumption DEF IInv, OrderInv, ShapeInv, CodeInv
<1>3. IsLists(call.new_lists) /\ call.add_id \in Nat
  BY <1>2 DEF IsConcat
<1>4. IsLists(other'.lists) /\ Old(other'.lists, 0)
  <2>1. <<>> \in Seq(Stored) /\ DOMAIN <<>> = {}
    OBVIOUS
  <2>2. IsLists(Without(other.lists, l)) /\ Old(Without(other.lists, l), 0)
    BY <1>2, <2>1 DEF Without, IsLists, Old
  <2> QED
    BY <1>1, <1>2, <2>2
<1>5. \A p \in DOMAIN es : es[p].code <= nadded \/ es[p].code > MaxAdded
  <2>1. Old(other.lists, nadded)
    BY <1>2, OldGrows
  <2>2. other.lists[l] \in Seq(Stored)
    BY <1>2, ListIsSeq
  <2>3. DOMAIN es = DOMAIN other.lists[l]
        /\ \A p \in DOMAIN other.lists[l] : es[p].code = other.lists[l][p].code
    BY <1>3, <2>2, ShiftedIs
  <2> HIDE DEF es
  <2> QED
    BY <2>1, <2>3 DEF Old
<1> HIDE DEF es
<1>6. Old(call'.new_lists, nadded)
  BY <1>1, <1>2, <1>5 DEF Old, With
<1>7. CallInv'
  BY <1>1 DEF CallInv, IsConcat, IsLists
<1>8. ShapeInv'
  BY <1>1, <1>4, <1>7 DEF IInv, OrderInv, ShapeInv
<1>9. CodeInv'
  BY <1>1, <1>2, <1>4, <1>6 DEF CodeInv, Old
<1> QED
  BY <1>1, <1>8, <1>9, NoBatch DEF OrderInv

LEMMA ConcatEndOrder ==
    ASSUME IInv, concat_end
    PROVE  OrderInv'
<1>1. /\ call.op = "concat" /\ call' = Idle /\ lists' = call.new_lists /\ UNCHANGED nadded
      /\ other' = [other EXCEPT !.ntotal = 0]
  BY DEF concat_end
<1>2. /\ IsConcat(call) /\ IsLists(other.lists) /\ Old(other.lists, 0)
      /\ Old(call.new_lists, nadded) /\ nadded \in 0 .. MaxAdded
      /\ other = [lists |-> other.lists, ntotal |-> other.ntotal]
  BY <1>1, CallKinds DEF IInv, OrderInv, ShapeInv, CodeInv
<1>3. IsLists(lists')
  BY <1>1, <1>2 DEF IsConcat
<1>4. other' = [lists |-> other.lists, ntotal |-> 0]
  BY <1>1, <1>2
<1>5. ShapeInv'
  BY <1>1, <1>2, <1>3, <1>4 DEF ShapeInv, CallInv
<1>6. CodeInv'
  BY <1>1, <1>2, <1>4 DEF CodeInv, Idle, Old
<1> QED
  BY <1>1, <1>5, <1>6, NoBatch DEF OrderInv, Idle

-----------------------------------------------------------------------------
(* Ids, map and counts: adding. *)

LEMMA StoredHolds ==
    \A id : id \in StoredIds <=> Holds(lists, id)
<1> SUFFICES ASSUME NEW id PROVE id \in StoredIds <=> Holds(lists, id)
  OBVIOUS
<1>1. ASSUME id \in StoredIds PROVE Holds(lists, id)
  <2>1. PICK x \in Places(lists) : lists[x[1]][x[2]].id = id
    BY <1>1 DEF StoredIds, Entries
  <2>2. PICK l \in DOMAIN lists : \E p \in DOMAIN lists[l] : x = <<l, p>>
    BY PlacesAre
  <2> QED
    BY <2>1, <2>2 DEF Holds
<1>2. ASSUME Holds(lists, id) PROVE id \in StoredIds
  <2>1. PICK l \in DOMAIN lists : \E p \in DOMAIN lists[l] : lists[l][p].id = id
    BY <1>2 DEF Holds
  <2>2. PICK p \in DOMAIN lists[l] : lists[l][p].id = id
    BY <2>1
  <2>3. <<l, p>> \in Places(lists)
    BY PlacesAre
  <2> QED
    BY <2>2, <2>3 DEF StoredIds, Entries
<1> QED
  BY <1>1, <1>2

(* The index to be merged is left alone. *)
LEMMA OtherSame ==
    ASSUME MergeInv, call.op # "concat", call'.op # "concat", other' = other,
           call'.op = "scan" => type' = "NoMap"
    PROVE  MergeInv'
BY DEF MergeInv, Unique, SizeOf, Places

(* The map is left alone. *)
LEMMA MapSame ==
    ASSUME MapInv, UNCHANGED <<lists, type, array, hashtable, partial>>,
           call.op # "add", call'.op # "add"
    PROVE  MapInv'
<1>1. Map' = Map
  BY DEF Map
<1>2. \A M : (Backward(M, lists') <=> Backward(M, lists)) /\ (Forward(M, lists') <=> Forward(M, lists))
  OBVIOUS
<1> HIDE DEF Map
<1> QED
  BY <1>1, <1>2 DEF MapInv, Backward, Forward, IsPlaceOf

(* The table with the batch in it. *)
IdsOf(vecs) == {vecs[i].id : i \in DOMAIN vecs}

Distinct(vecs) == \A i, j \in DOMAIN vecs : vecs[i].id = vecs[j].id => i = j

IsTableWith(N, vecs, ofs) ==
    /\ DOMAIN N = DOMAIN hashtable \cup IdsOf(vecs)
    /\ \A i \in DOMAIN vecs : N[vecs[i].id] = ofs[i]
    /\ \A id \in DOMAIN hashtable : id \notin IdsOf(vecs) => N[id] = hashtable[id]

LEMMA EnteredIs ==
    ASSUME NEW vecs, NEW ofs, Distinct(vecs)
    PROVE  IsTableWith(Entered(vecs, ofs), vecs, ofs)
<1>1. ASSUME NEW i \in DOMAIN vecs PROVE Entered(vecs, ofs)[vecs[i].id] = ofs[i]
  <2>1. (CHOOSE j \in DOMAIN vecs : vecs[j].id = vecs[i].id) = i
    BY DEF Distinct
  <2> QED
    BY <2>1 DEF Entered
<1> QED
  BY <1>1 DEF Entered, IdsOf, IsTableWith

(* A batch begins: its ids are new. *)
LEMMA BeginAddIds ==
    ASSUME IInv, call.op \in {"none", "remove"},
           NEW vecs \in Seq(Vec), BeginAdd(vecs),
           UNCHANGED <<lists, type, hashtable, other, nlost, partial>>,
           ntotal' \in Nat, ntotal' = SizeOf(lists) + nlost,
           type = "Array" => /\ Len(array) = ntotal'
                             /\ \A i \in DOMAIN vecs : vecs[i].id = ntotal' + i - 1,
           \A i \in DOMAIN vecs : ~Holds(lists, vecs[i].id),
           \A i, j \in DOMAIN vecs : vecs[i].id = vecs[j].id => i = j
    PROVE  IdInv'
<1>1. /\ call'.op = "add" /\ call'.vecs = vecs /\ call'.base = Len(array)
      /\ call'.todo = [r \in Ranks |-> {i \in DOMAIN vecs : Owner(i, vecs[i].list) = r}]
      /\ call'.all_ofs = [i \in DOMAIN vecs |-> NoEntry]
      /\ array' = IF type = "Array" THEN array \o [i \in DOMAIN vecs |-> NoEntry] ELSE array
  BY DEF BeginAdd, AddCall
<1>2. Len(vecs) \in Nat /\ DOMAIN vecs = 1 .. Len(vecs) /\ \A i \in DOMAIN vecs : vecs[i] \in Vec
  OBVIOUS
<1>3. /\ array \in Seq(LO) /\ Len(array) \in Nat /\ DOMAIN array = 1 .. Len(array)
      /\ MapInv /\ MergeInv /\ Unique(lists) /\ IsLists(lists)
  BY DEF IInv, IdInv, MapInv, OrderInv, ShapeInv
<1>4. ASSUME type = "Array"
      PROVE  /\ array' \in Seq(LO) /\ Len(array') = Len(array) + Len(vecs)
             /\ DOMAIN array' = 1 .. (Len(array) + Len(vecs))
             /\ \A k \in 1 .. Len(array) : array'[k] = array[k]
             /\ \A k \in Len(array) + 1 .. Len(array) + Len(vecs) : array'[k] = NoEntry
  <2> DEFINE t == [i \in DOMAIN vecs |-> NoEntry]
  <2>1. NoEntry \in LO
    BY DEF NoEntry, lo_build, LO
  <2>2. t \in [1 .. Len(vecs) -> LO]
    BY <1>2, <2>1
  <2>3. t \in Seq(LO)
    BY <1>2, <2>2, IsASeq
  <2>4. Len(t) = Len(vecs) /\ \A k \in 1 .. Len(vecs) : t[k] = NoEntry
    BY <1>2, <2>3
  <2>5. array' = array \o t
    BY <1>1, <1>4
  <2> HIDE DEF t, LO
  <2>6. /\ array \o t \in Seq(LO)
        /\ Len(array \o t) = Len(array) + Len(t)
        /\ \A i \in 1 .. Len(array) + Len(t) :
              (array \o t)[i] = IF i <= Len(array) THEN array[i] ELSE t[i - Len(array)]
    BY <1>3, <2>3, ConcatProperties, ZenonT(30)
  <2>7. array' \in Seq(LO) /\ Len(array') = Len(array) + Len(vecs)
    BY <2>4, <2>5, <2>6
  <2>8. DOMAIN array' = 1 .. (Len(array) + Len(vecs))
    BY <2>7
  <2>9. \A i \in 1 .. Len(array) + Len(vecs) :
           array'[i] = IF i <= Len(array) THEN array[i] ELSE t[i - Len(array)]
    BY <2>4, <2>5, <2>6
  <2>10. \A k \in 1 .. Len(array) : array'[k] = array[k]
    BY <1>2, <1>3, <2>9
  <2>11. \A k \in Len(array) + 1 .. Len(array) + Len(vecs) :
            /\ k - Len(array) \in 1 .. Len(vecs) /\ k \in 1 .. Len(array) + Len(vecs)
            /\ ~(k <= Len(array))
    BY <1>2, <1>3
  <2> QED
    BY <2>4, <2>7, <2>8, <2>9, <2>10, <2>11
<1> DEFINE NewIds == IdsOf(vecs)
<1>5. \A id \in NewIds : ~Holds(lists, id)
  BY DEF IdsOf
<1>6. ASSUME type # "NoMap"
      PROVE  Backward(Map', lists) /\ (~partial => Forward(Map', lists))
  <2>1. CASE type = "Hashtable"
    <3>1. Map = hashtable /\ Map' = Entered(vecs, [i \in DOMAIN vecs |-> NoEntry])'
      BY <1>1, <2>1 DEF Map
    <3>2. Entered(vecs, [i \in DOMAIN vecs |-> NoEntry])' = Entered(vecs, [i \in DOMAIN vecs |-> NoEntry])
      BY DEF Entered, NoEntry, lo_build
    <3> DEFINE ofs == [i \in DOMAIN vecs |-> NoEntry]
               N == Entered(vecs, ofs)
    <3>a. \A i \in DOMAIN vecs : ofs[i] = NoEntry
      OBVIOUS
    <3> HIDE DEF ofs
    <3>3. /\ DOMAIN N = DOMAIN hashtable \cup NewIds
          /\ \A i \in DOMAIN vecs : N[vecs[i].id] = ofs[i]
          /\ \A id \in DOMAIN hashtable : id \notin NewIds => N[id] = hashtable[id]
      <4>1. Distinct(vecs)
        BY DEF Distinct
      <4>2. IsTableWith(N, vecs, ofs)
        BY <4>1, EnteredIs
      <4> HIDE DEF N
      <4> QED
        BY <4>2 DEF IsTableWith
    <3> HIDE DEF N
    <3>4. \A id \in NewIds : N[id] = NoEntry
      BY <3>a, <3>3 DEF IdsOf
    <3>5. Backward(hashtable, lists) /\ Forward(hashtable, lists)
      BY <1>3, <2>1, HashMap
    <3> HIDE DEF NewIds
    <3>6. Backward(N, lists) /\ Forward(N, lists)
      BY <1>5, <3>3, <3>4, <3>5, FreshMap
    <3> QED
      BY <3>1, <3>2, <3>6 DEF N, ofs
  <2>2. CASE type = "Array"
    <3> DEFINE n == Len(array)
               F == n .. (n + Len(vecs) - 1)
               N == [id \in 0 .. (n + Len(vecs) - 1) |-> array'[id + 1]]
    <3>1. Map' = N
      BY <1>4, <2>2 DEF Map
    <3>2. /\ Map = [id \in 0 .. (n - 1) |-> array[id + 1]]
          /\ DOMAIN Map = 0 .. (n - 1)
          /\ Backward(Map, lists) /\ (~partial => Forward(Map, lists))
      BY <2>2, ArrayMap
    <3>3. DOMAIN N = DOMAIN Map \cup F
      BY <1>2, <1>3, <3>2
    <3>4. ASSUME NEW id \in F PROVE ~Holds(lists, id) /\ N[id] = NoEntry
      <4>1. id + 1 \in n + 1 .. n + Len(vecs) /\ id \in 0 .. (n + Len(vecs) - 1)
        BY <1>2, <1>3
      <4>2. N[id] = NoEntry
        BY <1>4, <2>2, <4>1
      <4>3. (id - n) + 1 \in DOMAIN vecs /\ id = n + ((id - n) + 1) - 1
        BY <1>2, <1>3, <4>1
      <4>4. vecs[(id - n) + 1].id = id
        BY <2>2, <4>3
      <4> QED
        BY <4>2, <4>3, <4>4
    <3>5. ASSUME NEW id \in DOMAIN Map PROVE N[id] = Map[id]
      <4>1. id + 1 \in 1 .. n /\ id \in 0 .. (n + Len(vecs) - 1) /\ id \in 0 .. (n - 1)
        BY <1>2, <1>3, <3>2
      <4>2. N[id] = array[id + 1]
        BY <1>4, <2>2, <4>1
      <4> QED
        BY <3>2, <4>1, <4>2
    <3> HIDE DEF N, F
    <3>6. /\ Backward(Map, lists) => Backward(N, lists)
          /\ Forward(Map, lists) => Forward(N, lists)
      BY <3>3, <3>4, <3>5, FreshMap
    <3> QED
      BY <3>1, <3>2, <3>6
  <2> QED
    BY <1>3, <1>6, <2>1, <2>2 DEF MapInv
<1>7. MapInv'
  <2>1. Backward(Map', lists') = Backward(Map', lists) /\ Forward(Map', lists') = Forward(Map', lists)
    OBVIOUS
  <2>2. type = "Hashtable" => Backward(hashtable', lists')
    BY <1>3 DEF MapInv
  <2>3. array' \in Seq(LO) /\ (type # "Array" => array' = <<>>)
    BY <1>1, <1>3, <1>4 DEF MapInv
  <2>4. type # "NoMap" => Backward(Map', lists') /\ (~partial => Forward(Map', lists'))
    BY <1>6, <2>1
  <2> HIDE DEF Map
  <2>5. type' # "NoMap" => Backward(Map, lists)' /\ (~partial' => Forward(Map, lists)')
    BY <2>4 DEF Backward, Forward, IsPlaceOf
  <2>6. type' = "Hashtable" => Backward(hashtable, lists)'
    BY <2>2 DEF Backward, IsPlaceOf
  <2> QED
    BY <1>3, <2>3, <2>5, <2>6 DEF MapInv
<1>8. \A i \in DOMAIN vecs : \E r \in Ranks : Owner(i, vecs[i].list) = r
  <2> SUFFICES ASSUME NEW i \in DOMAIN vecs PROVE Owner(i, vecs[i].list) \in Ranks
    OBVIOUS
  <2> DEFINE c == Cardinality(Ranks)
  <2>1. c \in Nat /\ Ranks = 0 .. (c - 1) /\ c # 0
    BY RanksAssumption, FS_CardinalityType, FS_EmptySet
  <2>2. vecs[i].list \in Nat \cup {-1}
    BY <1>2 DEF Vec
  <2> HIDE DEF c
  <2>3. CASE vecs[i].list = -1
    BY <2>1, <2>3 DEF Owner
  <2>4. CASE vecs[i].list # -1
    <3> DEFINE l == vecs[i].list
    <3>1. l \in Nat
      BY <2>2, <2>4
    <3> HIDE DEF l
    <3>2. l % c \in 0 .. (c - 1)
      BY <2>1, <3>1
    <3> QED
      BY <2>1, <2>4, <3>2 DEF Owner, c, l
  <2> QED
    BY <2>3, <2>4
<1>9. Todo' = DOMAIN vecs
  <2>1. \A r \in Ranks : call'.todo[r] = {i \in DOMAIN vecs : Owner(i, vecs[i].list) = r}
    BY <1>1
  <2>2. Todo' = UNION {call'.todo[r] : r \in Ranks}
    BY DEF Todo
  <2>3. \A i \in DOMAIN vecs : i \in Todo'
    BY <1>8, <2>1, <2>2
  <2>4. \A i \in Todo' : i \in DOMAIN vecs
    BY <2>1, <2>2
  <2> QED
    BY <2>3, <2>4
<1>10. AddIdsInv'
  <2>1. \A i \in Todo' : ~Holds(lists', call'.vecs[i].id)
    BY <1>1, <1>9
  <2> QED
    BY <1>1, <1>9, <2>1 DEF AddIdsInv, Holds
<1>11. RemoveInv' /\ UpdateInv'
  BY <1>1 DEF RemoveInv, UpdateInv
<1>12. MergeInv'
  BY <1>1, <1>3, OtherSame
<1>13. CountInv'
  <2>1. Entering' = {}
    BY <1>1, <1>9 DEF Entering
  <2>2. Cardinality(Entering') = 0
    BY <2>1, FS_EmptySet
  <2>3. SizeOf(lists)' = SizeOf(lists)
    BY DEF SizeOf, Places
  <2>4. type' = "Array" => Len(array') = ntotal' + Len(vecs)
    BY <1>4
  <2>5. nlost \in Nat /\ SizeOf(lists) \in Nat
    BY <1>3, PlacesFinite DEF IInv, IdInv, CountInv
  <2>6. ntotal' + Cardinality(Entering)' = SizeOf(lists)' + nlost' + 0
    BY <2>2, <2>3, <2>5
  <2> QED
    BY <1>1, <2>4, <2>5, <2>6 DEF CountInv
<1>14. Unique(lists)'
  BY <1>3 DEF Unique
<1> QED
  BY <1>7, <1>10, <1>11, <1>12, <1>13, <1>14 DEF IdInv

LEMMA AddWithIdsIds ==
    ASSUME IInv, NEW ids \in SeqsUpTo(Ids, MaxBatch),
           NEW ls \in [DOMAIN ids -> DOMAIN lists \cup {-1}], add_with_ids(ids, ls)
    PROVE  IdInv'
<1> DEFINE vecs == Batch(ids, ls)
<1>1. /\ call = Idle /\ BeginAdd(vecs) /\ Fresh(ids) /\ (type = "Array" => Implicit(ids))
      /\ UNCHANGED <<lists, ntotal, type, hashtable, other, nlost, partial>>
  BY DEF add_with_ids
<1>2. /\ vecs \in Seq(Vec)
      /\ DOMAIN vecs = DOMAIN ids
      /\ \A i \in DOMAIN ids : vecs[i].id = ids[i]
  <2>1. /\ vecs \in Seq(Vec)
        /\ DOMAIN vecs = 1 .. Len(ids) /\ DOMAIN ids = 1 .. Len(ids)
        /\ \A i \in 1 .. Len(ids) : vecs[i] = [id |-> ids[i], list |-> ls[i], code |-> nadded + i]
    BY BatchIs DEF IInv, OrderInv
  <2> HIDE DEF vecs, Vec
  <2> QED
    BY <2>1
<1>3. /\ call.op = "none" /\ ntotal \in Nat /\ ntotal = SizeOf(lists) + nlost
      /\ (type = "Array" => Len(array) = ntotal)
  BY <1>1, IdleFacts
<1> HIDE DEF vecs
<1>4. \A i \in DOMAIN vecs : ~Holds(lists, vecs[i].id)
  BY <1>1, <1>2, StoredHolds DEF Fresh
<1>5. \A i, j \in DOMAIN vecs : vecs[i].id = vecs[j].id => i = j
  BY <1>1, <1>2 DEF Fresh
<1>6. type = "Array" => \A i \in DOMAIN vecs : vecs[i].id = ntotal + i - 1
  BY <1>1, <1>2 DEF Implicit
<1> QED
  BY <1>1, <1>2, <1>3, <1>4, <1>5, <1>6, BeginAddIds

(* A vector is entered: the map has its place and finds the others as before. *)
LEMMA AddOneIds ==
    ASSUME IInv, NEW r \in Ranks, add_one(r)
    PROVE  IdInv'
<1>1. /\ call.op = "add"
      /\ UNCHANGED <<ntotal, type, hashtable, other, nadded, nlost, partial>>
  BY AddOneIs DEF IInv
<1> DEFINE Lo(i) == IF call.vecs[i].list = -1 THEN Unassigned
                    ELSE lo_build(call.vecs[i].list, Len(lists[call.vecs[i].list]))
<1>2. PICK i \in call.todo[r] :
         /\ i \in DOMAIN call.vecs
         /\ call.vecs[i] \in Vec
         /\ Entry(call.vecs[i]) \in Stored
         /\ IF call.vecs[i].list = -1 THEN lists' = lists
            ELSE /\ call.vecs[i].list \in DOMAIN lists
                 /\ lists' = Appended(lists, call.vecs[i].list, Entry(call.vecs[i]))
         /\ array' = IF type = "Array" THEN [array EXCEPT ![call.base + i] = Lo(i)] ELSE array
         /\ call'.op = "add" /\ call'.vecs = call.vecs /\ call'.base = call.base
         /\ call'.todo[r] = call.todo[r] \ {i}
         /\ \A s \in Ranks : s # r => call'.todo[s] = call.todo[s]
         /\ \A j \in DOMAIN call.vecs :
               call'.all_ofs[j] = IF j = i /\ type = "Hashtable" THEN Lo(i) ELSE call.all_ofs[j]
  BY AddOneIs DEF IInv
<1> DEFINE v == call.vecs[i]
           lo == Lo(i)
<1>3. /\ IsLists(lists) /\ call.vecs \in Seq(Vec) /\ Len(call.vecs) \in Nat
      /\ DOMAIN call.vecs = 1 .. Len(call.vecs)
      /\ MapInv /\ AddIdsInv /\ MergeInv /\ CountInv /\ Unique(lists)
  <2>1. IsLists(lists) /\ call.vecs \in Seq(Vec)
    BY <1>1, CallKinds DEF IInv, OrderInv, ShapeInv, AddCalls
  <2> QED
    BY <2>1 DEF IInv, IdInv
<1>4. /\ \A j, k \in DOMAIN call.vecs : call.vecs[j].id = call.vecs[k].id => j = k
      /\ \A j \in Todo : ~Holds(lists, call.vecs[j].id)
      /\ type = "Array" => /\ call.base = ntotal
                           /\ \A j \in DOMAIN call.vecs : call.vecs[j].id = call.base + j - 1
      /\ type = "Hashtable" => \A j \in DOMAIN call.vecs : j \in Todo \/ call.all_ofs[j] # NoEntry
  BY <1>1, <1>3 DEF AddIdsInv
<1>5. i \in Todo /\ Todo' = Todo \ {i} /\ Todo \subseteq DOMAIN call.vecs
  <2>1. \A s \in Ranks : \A j \in call.todo[s] : j \in DOMAIN call.vecs
                                                /\ Owner(j, call.vecs[j].list) = s
    BY <1>1 DEF IInv, OrderInv, TodoInv
  <2>2. \A s \in Ranks : i \notin call'.todo[s]
    BY <1>2, <2>1
  <2>3. Todo = UNION {call.todo[s] : s \in Ranks} /\ Todo' = UNION {call'.todo[s] : s \in Ranks}
    BY DEF Todo
  <2>4. i \in Todo /\ Todo \subseteq DOMAIN call.vecs
    BY <2>1, <2>3
  <2>5. ASSUME NEW j \in Todo \ {i} PROVE j \in Todo'
    BY <1>2, <2>3, <2>5
  <2>6. ASSUME NEW j \in Todo' PROVE j \in Todo \ {i}
    BY <1>2, <2>2, <2>3
  <2> QED
    BY <2>4, <2>5, <2>6
<1>6. ~Holds(lists, v.id) /\ Entry(v).id = v.id
  BY <1>4, <1>5 DEF Entry
<1>7. lo \in LO /\ lo # NoEntry
  <2>1. CASE v.list = -1
    BY <2>1 DEF Unassigned, NoEntry, lo_build, LO
  <2>2. CASE v.list # -1
    <3>1. Len(lists[v.list]) \in Nat /\ v.list \in Int
      BY <1>2, <1>3, <2>2, ListIsSeq
    <3> QED
      BY <2>2, <3>1 DEF NoEntry, lo_build, LO
  <2> QED
    BY <2>1, <2>2
<1>8. /\ v.list = -1 => lists' = lists /\ lo = Unassigned
      /\ v.list # -1 => /\ v.list \in DOMAIN lists
                        /\ lists' = Appended(lists, v.list, Entry(v))
                        /\ lo = lo_build(v.list, Len(lists[v.list]))
  BY <1>2
<1>9. /\ array' = IF type = "Array" THEN [array EXCEPT ![call.base + i] = lo] ELSE array
      /\ \A j \in DOMAIN call.vecs :
            call'.all_ofs[j] = IF j = i /\ type = "Hashtable" THEN lo ELSE call.all_ofs[j]
  BY <1>2
<1> HIDE DEF lo, Lo
<1>10. Unique(lists')
  <2>1. CASE v.list = -1
    BY <1>3, <1>8, <2>1
  <2>2. CASE v.list # -1
    BY <1>2, <1>3, <1>6, <1>8, <2>2, AppendedUnique
  <2> QED
    BY <2>1, <2>2
<1>11. \A id : Holds(lists', id) => Holds(lists, id) \/ (v.list # -1 /\ id = v.id)
  <2>1. CASE v.list = -1
    BY <1>8, <2>1
  <2>2. CASE v.list # -1
    BY <1>2, <1>3, <1>6, <1>8, <2>2, AppendedHolds
  <2> QED
    BY <2>1, <2>2
<1>12. ASSUME type = "Array"
       PROVE  /\ array \in Seq(LO) /\ Len(array) \in Nat /\ DOMAIN array = 1 .. Len(array)
              /\ call.base + i \in DOMAIN array /\ call.base \in Nat /\ i \in Nat
              /\ v.id = call.base + i - 1
              /\ array' \in Seq(LO) /\ Len(array') = Len(array)
              /\ array'[call.base + i] = lo
              /\ \A k \in DOMAIN array : k # call.base + i => array'[k] = array[k]
  <2>1. array \in Seq(LO) /\ Len(array) \in Nat /\ DOMAIN array = 1 .. Len(array)
    BY <1>3 DEF MapInv
  <2>2. ntotal \in Nat /\ Len(array) = ntotal + Len(call.vecs) /\ call.base = ntotal
    BY <1>1, <1>3, <1>4, <1>12 DEF CountInv
  <2>3. call.base + i \in DOMAIN array /\ i \in Nat
    BY <1>2, <1>3, <2>1, <2>2
  <2>4. array' = [array EXCEPT ![call.base + i] = lo]
    BY <1>9, <1>12
  <2> QED
    BY <1>2, <1>4, <1>7, <1>12, <2>1, <2>2, <2>3, <2>4
<1>13. ASSUME type # "NoMap"
       PROVE  /\ v.id \in DOMAIN Map /\ DOMAIN Map' = DOMAIN Map
              /\ Map'[v.id] = lo
              /\ \A id \in DOMAIN Map : id # v.id => Map'[id] = Map[id]
  <2>1. CASE type = "Hashtable"
    <3> DEFINE ids == IdsOf(call.vecs)
               M == Entered(call.vecs, call.all_ofs)
               N == Entered(call.vecs, call'.all_ofs)
    <3>1. Map = M /\ Map' = N
      <4>1. Entered(call.vecs, call.all_ofs)' = Entered(call'.vecs, call'.all_ofs)
        BY <1>1 DEF Entered
      <4> QED
        BY <1>1, <1>2, <2>1, <4>1 DEF Map
    <3>2. Distinct(call.vecs)
      BY <1>4 DEF Distinct
    <3>3. IsTableWith(M, call.vecs, call.all_ofs)
      BY <3>2, EnteredIs
    <3>4. IsTableWith(N, call.vecs, call'.all_ofs)
      BY <3>2, EnteredIs
    <3> HIDE DEF M, N
    <3>5. v.id \in ids
      BY <1>2 DEF IdsOf
    <3>6. N[v.id] = lo
      BY <1>2, <1>9, <2>1, <3>4 DEF IsTableWith
    <3>7. ASSUME NEW id \in DOMAIN M, id # v.id PROVE N[id] = M[id]
      <4>1. CASE id \in ids
        <5>1. PICK j \in DOMAIN call.vecs : id = call.vecs[j].id
          BY <4>1 DEF IdsOf
        <5>2. j # i
          BY <3>7, <5>1
        <5>3. call'.all_ofs[j] = call.all_ofs[j]
          BY <1>9, <5>2
        <5> QED
          BY <3>3, <3>4, <5>1, <5>3 DEF IsTableWith
      <4>2. CASE id \notin ids
        BY <3>3, <3>4, <4>2 DEF IsTableWith
      <4> QED
        BY <4>1, <4>2
    <3> QED
      BY <3>1, <3>3, <3>4, <3>5, <3>6, <3>7 DEF IsTableWith
  <2>2. CASE type = "Array"
    <3> DEFINE n == Len(array)
    <3>1. Map = [id \in 0 .. (n - 1) |-> array[id + 1]]
      BY <2>2 DEF Map
    <3>2. Map' = [id \in 0 .. (n - 1) |-> array'[id + 1]]
      BY <1>1, <1>12, <2>2 DEF Map
    <3> DEFINE vid == v.id
               b == call.base + i
    <3>a. /\ n \in Nat /\ DOMAIN array = 1 .. n /\ b \in 1 .. n /\ vid = b - 1
      BY <1>12, <2>2
    <3> HIDE DEF vid, b, n
    <3>b. vid \in 0 .. (n - 1) /\ vid + 1 = b
      BY <3>a
    <3>c. \A id \in 0 .. (n - 1) : id # vid => id + 1 \in DOMAIN array /\ id + 1 # b
      BY <3>a
    <3>3. v.id \in 0 .. (n - 1) /\ v.id + 1 = call.base + i
      BY <3>b DEF vid, b
    <3>4. \A id \in 0 .. (n - 1) : id # v.id => id + 1 \in DOMAIN array /\ id + 1 # call.base + i
      BY <3>c DEF vid, b
    <3> HIDE DEF v
    <3> QED
      BY <1>12, <2>2, <3>1, <3>2, <3>3, <3>4
  <2> QED
    BY <1>3, <1>13, <2>1, <2>2 DEF MapInv
<1>14. ASSUME type # "NoMap"
       PROVE  Backward(Map', lists') /\ (~partial => Forward(Map', lists'))
  <2>1. Backward(Map, lists) /\ (~partial => Forward(Map, lists))
    BY <1>3, <1>14 DEF MapInv
  <2> DEFINE M == Map
             N == Map'
  <2>2. /\ v.id \in DOMAIN M /\ DOMAIN N = DOMAIN M /\ N[v.id] = lo
        /\ \A id \in DOMAIN M : id # v.id => N[id] = M[id]
    BY <1>13, <1>14
  <2> HIDE DEF M, N
  <2>3. CASE v.list = -1
    <3> DEFINE F == {v.id}
    <3>1. DOMAIN N = DOMAIN M \cup F
      BY <2>2
    <3>2. \A id \in F : ~Holds(lists, id) /\ N[id] \in {Unassigned, NoEntry}
      BY <1>6, <1>8, <2>2, <2>3
    <3>3. \A id \in DOMAIN M : id \notin F => N[id] = M[id]
      BY <2>2
    <3> HIDE DEF F
    <3>4. /\ Backward(M, lists) => Backward(N, lists)
          /\ Forward(M, lists) => Forward(N, lists)
      BY <3>1, <3>2, <3>3, FreshMap
    <3> QED
      BY <1>8, <2>1, <2>3, <3>4 DEF M, N
  <2>4. CASE v.list # -1
    <3> DEFINE e == Entry(v)
    <3>1. /\ e \in Stored /\ e.id = v.id /\ v.list \in DOMAIN lists
          /\ lists' = Appended(lists, v.list, e)
          /\ lo = lo_build(v.list, Len(lists[v.list]))
      BY <1>2, <1>6, <1>8, <2>4
    <3>2. DOMAIN N = DOMAIN M \cup {e.id}
      BY <2>2, <3>1
    <3>3. N[e.id] = lo_build(v.list, Len(lists[v.list]))
      BY <2>2, <3>1
    <3>4. ~Holds(lists, e.id) /\ \A id \in DOMAIN M : id # e.id => N[id] = M[id]
      BY <1>6, <2>2, <3>1
    <3> HIDE DEF e, v
    <3>5. /\ Backward(M, lists) => Backward(N, lists')
          /\ Forward(M, lists) => Forward(N, lists')
      BY <1>3, <3>1, <3>2, <3>3, <3>4, AppendedMap
    <3> QED
      BY <2>1, <3>5 DEF M, N
  <2> QED
    BY <2>3, <2>4
<1>15. type = "Hashtable" => Backward(hashtable, lists')
  <2>1. CASE v.list = -1
    BY <1>3, <1>8, <2>1 DEF MapInv
  <2>2. CASE v.list # -1
    BY <1>2, <1>3, <1>8, <2>2, AppendedBackward DEF MapInv
  <2> QED
    BY <2>1, <2>2
<1>16. MapInv'
  <2>1. array' \in Seq(LO) /\ (type # "Array" => array' = <<>>)
    BY <1>3, <1>9, <1>12 DEF MapInv
  <2> HIDE DEF Map
  <2>2. type' # "NoMap" => Backward(Map, lists)' /\ (~partial' => Forward(Map, lists)')
    BY <1>1, <1>14 DEF Backward, Forward, IsPlaceOf
  <2>3. type' = "Hashtable" => Backward(hashtable, lists)'
    BY <1>1, <1>15 DEF Backward, IsPlaceOf
  <2> QED
    BY <1>1, <1>3, <2>1, <2>2, <2>3 DEF MapInv
<1>17. AddIdsInv'
  <2>1. \A j \in Todo' : ~Holds(lists', call'.vecs[j].id)
    <3> SUFFICES ASSUME NEW j \in Todo' PROVE ~Holds(lists', call.vecs[j].id)
      BY <1>2
    <3>1. j \in Todo /\ j # i /\ j \in DOMAIN call.vecs
      BY <1>5
    <3>2. ~Holds(lists, call.vecs[j].id) /\ call.vecs[j].id # v.id
      BY <1>2, <1>4, <3>1
    <3> QED
      BY <1>11, <3>2
  <2>2. type = "Hashtable" => \A j \in DOMAIN call.vecs : j \in Todo' \/ call'.all_ofs[j] # NoEntry
    BY <1>4, <1>5, <1>7, <1>9
  <2>3. \A j \in Todo' : ~Holds(lists, call.vecs[j].id)'
    BY <2>1 DEF Holds
  <2>4. type' = "Hashtable" => \A j \in DOMAIN call'.vecs : j \in Todo' \/ (call.all_ofs[j] # NoEntry)'
    BY <1>1, <1>2, <2>2 DEF NoEntry
  <2> QED
    BY <1>1, <1>2, <1>4, <2>3, <2>4 DEF AddIdsInv
<1>18. RemoveInv' /\ UpdateInv'
  BY <1>2 DEF RemoveInv, UpdateInv
<1>19. MergeInv'
  BY <1>1, <1>2, <1>3, OtherSame
<1>20. CountInv'
  <2> DEFINE E == {j \in DOMAIN call.vecs \ Todo : call.vecs[j].list # -1}
             D == {j \in DOMAIN call.vecs \ (Todo \ {i}) : call.vecs[j].list # -1}
  <2>1. Entering = E /\ Entering' = D
    BY <1>1, <1>2, <1>5 DEF Entering
  <2>2. IsFiniteSet(E)
    <3>1. IsFiniteSet(DOMAIN call.vecs)
      BY <1>3, FS_Interval
    <3>2. E \in SUBSET (DOMAIN call.vecs)
      OBVIOUS
    <3> HIDE DEF E
    <3> QED
      BY <3>1, <3>2, FS_Subset
  <2>3. /\ ntotal \in Nat /\ nlost \in Nat
        /\ ntotal + Cardinality(E) = SizeOf(lists) + nlost
        /\ type = "Array" => Len(array) = ntotal + Len(call.vecs)
    <3>1. ntotal + Cardinality(Entering) = SizeOf(lists) + nlost + 0
      BY <1>1, <1>3 DEF CountInv
    <3>2. SizeOf(lists) \in Nat
      BY <1>3, PlacesFinite
    <3> HIDE DEF E
    <3> QED
      BY <1>1, <1>3, <2>1, <3>1, <3>2 DEF CountInv
  <2>4. Cardinality(E) \in Nat /\ SizeOf(lists) \in Nat
    BY <1>3, <2>2, PlacesFinite, FS_CardinalityType
  <2>5. Cardinality(D) - Cardinality(E) = SizeOf(lists') - SizeOf(lists)
        /\ Cardinality(D) \in Nat /\ SizeOf(lists') \in Nat
    <3>1. CASE v.list = -1
      <4>1. D = E
        BY <3>1
      <4>2. lists' = lists
        BY <1>8, <3>1
      <4> HIDE DEF D, E
      <4> QED
        BY <2>4, <4>1, <4>2
    <3>2. CASE v.list # -1
      <4>1. D = E \cup {i} /\ i \notin E
        BY <1>2, <1>5, <3>2
      <4>2. SizeOf(lists') = SizeOf(lists) + 1
        BY <1>2, <1>3, <1>8, <3>2, AppendedIs
      <4> HIDE DEF D, E
      <4>3. Cardinality(D) = Cardinality(E) + 1
        BY <2>2, <4>1, FS_AddElement
      <4> QED
        BY <2>4, <4>2, <4>3
    <3> QED
      BY <3>1, <3>2
  <2> HIDE DEF D, E
  <2>6. ntotal + Cardinality(D) = SizeOf(lists') + nlost + 0
    BY <2>3, <2>4, <2>5
  <2>7. type = "Array" => Len(array') = ntotal + Len(call.vecs)
    BY <1>12, <2>3
  <2>8. SizeOf(lists)' = SizeOf(lists')
    BY DEF SizeOf, Places
  <2> QED
    BY <1>1, <1>2, <2>1, <2>3, <2>6, <2>7, <2>8 DEF CountInv
<1>21. Unique(lists)'
  BY <1>10 DEF Unique
<1> QED
  BY <1>16, <1>17, <1>18, <1>19, <1>20, <1>21 DEF IdInv

LEMMA NotAdding ==
    ASSUME call'.op # "add"
    PROVE  AddIdsInv'
BY DEF AddIdsInv

LEMMA CountFrom ==
    ASSUME call'.op # "add", ntotal' \in Nat, nlost' \in Nat, SizeOf(lists') \in Nat,
           ntotal' = SizeOf(lists') + nlost' + (IF call'.op = "remove" THEN call'.nremove ELSE 0),
           type' = "Array" => Len(array') = ntotal'
    PROVE  CountInv'
<1>1. Entering' = {}
  BY DEF Entering
<1>2. Cardinality(Entering)' = 0
  BY <1>1, FS_EmptySet
<1>3. SizeOf(lists)' = SizeOf(lists')
  BY DEF SizeOf, Places
<1>4. ntotal' + Cardinality(Entering)' =
         SizeOf(lists)' + nlost' + (IF call'.op = "remove" THEN call'.nremove ELSE 0)
  BY <1>2, <1>3
<1>5. type' = "Array" => Len(array') = ntotal' + 0
  OBVIOUS
<1> QED
  BY <1>4, <1>5 DEF CountInv

(* No call is left, the lists and the map are as they were. *)
LEMMA EndIds ==
    ASSUME IInv, call.op \notin {"add", "concat"}, call' = Idle,
           UNCHANGED <<lists, type, array, hashtable, other, nlost, partial>>,
           ntotal' = ntotal - (IF call.op = "remove" THEN call.nremove ELSE 0)
    PROVE  IdInv'
<1>1. call'.op = "none" /\ IdInv /\ IsLists(lists)
  BY DEF Idle, IInv, OrderInv, ShapeInv
<1>2. MapInv'
  BY <1>1, MapSame DEF IdInv
<1>3. AddIdsInv' /\ RemoveInv' /\ UpdateInv'
  BY <1>1, NotAdding DEF RemoveInv, UpdateInv
<1>4. MergeInv'
  BY <1>1, OtherSame DEF IdInv
<1>5. CountInv'
  <2>1. /\ ntotal \in Nat /\ nlost \in Nat
        /\ ntotal + Cardinality(Entering) =
              SizeOf(lists) + nlost + (IF call.op = "remove" THEN call.nremove ELSE 0)
        /\ type = "Array" => Len(array) = ntotal + 0
    BY <1>1 DEF IdInv, CountInv
  <2>2. Cardinality(Entering) = 0
    BY FS_EmptySet DEF Entering
  <2>3. SizeOf(lists) \in Nat
    BY <1>1, PlacesFinite
  <2>4. call.op = "remove" => type # "Array" /\ call.nremove \in Nat
    BY CallKinds DEF IInv, OrderInv, IdInv, ShapeInv, RemoveInv, RemoveCalls
  <2>5. ntotal' = SizeOf(lists) + nlost /\ ntotal' \in Nat
    BY <2>1, <2>2, <2>3, <2>4
  <2>6. type' = "Array" => Len(array') = ntotal'
    BY <2>1, <2>4
  <2> QED
    BY <1>1, <2>1, <2>3, <2>5, <2>6, CountFrom
<1>6. Unique(lists)'
  BY <1>1 DEF IdInv, Unique
<1> QED
  BY <1>2, <1>3, <1>4, <1>5, <1>6 DEF IdInv

(* The batch is in: the table takes over what its threads have recorded. *)
LEMMA AddEndIds ==
    ASSUME IInv, add_end
    PROVE  IdInv'
<1>1. /\ call.op = "add" /\ \A r \in Ranks : call.todo[r] = {}
      /\ hashtable' = IF type = "Hashtable" THEN Entered(call.vecs, call.all_ofs) ELSE hashtable
      /\ ntotal' = ntotal + Len(call.vecs)
      /\ nlost' = nlost + Cardinality({i \in DOMAIN call.vecs : call.vecs[i].list = -1})
      /\ call' = Idle
      /\ UNCHANGED <<lists, type, array, other, nadded, partial>>
  BY DEF add_end
<1>2. call'.op = "none" /\ Todo = {}
  BY <1>1 DEF Idle, Todo
<1>3. /\ IsLists(lists) /\ call.vecs \in Seq(Vec) /\ Len(call.vecs) \in Nat
      /\ DOMAIN call.vecs = 1 .. Len(call.vecs)
      /\ call.all_ofs \in Seq(LO) /\ DOMAIN call.all_ofs = DOMAIN call.vecs
      /\ MapInv /\ AddIdsInv /\ MergeInv /\ CountInv /\ Unique(lists)
  <2>1. /\ IsLists(lists) /\ call.vecs \in Seq(Vec) /\ call.all_ofs \in Seq(LO)
        /\ DOMAIN call.all_ofs = DOMAIN call.vecs
    BY <1>1, CallKinds DEF IInv, OrderInv, ShapeInv, AddCalls
  <2> QED
    BY <2>1 DEF IInv, IdInv
<1>4. type # "NoMap" => Map' = Map
  BY <1>1, <1>2, <1>3 DEF Map, MapInv
<1>5. ASSUME type = "Hashtable"
      PROVE  hashtable' \in [DOMAIN hashtable' -> LO] /\ DOMAIN hashtable' \subseteq Nat
             /\ hashtable' = Map
  <2> DEFINE N == Entered(call.vecs, call.all_ofs)
  <2>1. Distinct(call.vecs)
    BY <1>1, <1>3 DEF AddIdsInv, Distinct
  <2>2. IsTableWith(N, call.vecs, call.all_ofs)
    BY <2>1, EnteredIs
  <2>3. N = [id \in DOMAIN N |-> N[id]]
    BY DEF Entered
  <2>4. hashtable \in [DOMAIN hashtable -> LO] /\ DOMAIN hashtable \subseteq Nat
    BY <1>3, <1>5 DEF MapInv
  <2> HIDE DEF N
  <2>5. ASSUME NEW id \in DOMAIN N PROVE N[id] \in LO /\ id \in Nat
    <3>1. CASE id \in IdsOf(call.vecs)
      <4>1. PICK i \in DOMAIN call.vecs : id = call.vecs[i].id
        BY <3>1 DEF IdsOf
      <4>2. call.vecs[i] \in Vec /\ call.all_ofs[i] \in LO
        BY <1>3, <4>1
      <4> QED
        BY <2>2, <4>1, <4>2 DEF IsTableWith, Vec
    <3>2. CASE id \notin IdsOf(call.vecs)
      BY <2>2, <2>4, <3>2 DEF IsTableWith
    <3> QED
      BY <3>1, <3>2
  <2>6. N \in [DOMAIN N -> LO]
    BY <2>3, <2>5
  <2>7. hashtable' = N
    BY <1>1, <1>5 DEF N
  <2>8. Map = N
    BY <1>1, <1>5 DEF Map, N
  <2> QED
    BY <2>5, <2>6, <2>7, <2>8
<1>6. type # "NoMap" => Backward(Map, lists) /\ (~partial => Forward(Map, lists))
  BY <1>3 DEF MapInv
<1>7. MapInv'
  <2> HIDE DEF Map
  <2>1. type' # "NoMap" => Backward(Map, lists)' /\ (~partial' => Forward(Map, lists)')
    BY <1>1, <1>4, <1>6 DEF Backward, Forward, IsPlaceOf
  <2>2. type' = "Hashtable" => Backward(hashtable, lists)'
    BY <1>1, <1>5, <1>6 DEF Backward, IsPlaceOf
  <2>3. type' # "Hashtable" => hashtable' = <<>>
    BY <1>1, <1>3 DEF MapInv
  <2> QED
    BY <1>1, <1>3, <1>5, <2>1, <2>2, <2>3 DEF MapInv
<1>8. AddIdsInv' /\ RemoveInv' /\ UpdateInv'
  BY <1>2, NotAdding DEF RemoveInv, UpdateInv
<1>9. MergeInv'
  BY <1>1, <1>2, <1>3, OtherSame
<1>10. CountInv'
  <2> DEFINE E == {i \in DOMAIN call.vecs : call.vecs[i].list # -1}
             U == {i \in DOMAIN call.vecs : call.vecs[i].list = -1}
  <2>1. Entering = E
    BY <1>1, <1>2 DEF Entering
  <2>2. E \cup U = 1 .. Len(call.vecs) /\ E \cap U = {}
    BY <1>3
  <2>3. IsFiniteSet(1 .. Len(call.vecs)) /\ Cardinality(1 .. Len(call.vecs)) = Len(call.vecs)
    BY <1>3, FS_Interval
  <2>4. nlost' = nlost + Cardinality(U)
    BY <1>1
  <2> HIDE DEF E, U
  <2>5. IsFiniteSet(E) /\ IsFiniteSet(U)
    <3>1. E \in SUBSET (1 .. Len(call.vecs)) /\ U \in SUBSET (1 .. Len(call.vecs))
      BY <2>2
    <3> QED
      BY <2>3, <3>1, FS_Subset
  <2>6. Cardinality(E \cup U) = Cardinality(E) + Cardinality(U) - Cardinality(E \cap U)
    BY <2>5, FS_Union
  <2>7. Cardinality(E) \in Nat /\ Cardinality(U) \in Nat /\ Cardinality(E \cap U) = 0
    BY <2>2, <2>5, FS_CardinalityType, FS_EmptySet
  <2>8. Len(call.vecs) = Cardinality(E) + Cardinality(U)
    <3>1. Cardinality(E \cup U) = Len(call.vecs)
      BY <2>2, <2>3
    <3>2. Cardinality(E \cap U) = 0
      BY <2>7
    <3> QED
      BY <2>6, <2>7, <3>1, <3>2
  <2>9. /\ ntotal \in Nat /\ nlost \in Nat
        /\ ntotal + Cardinality(E) = SizeOf(lists) + nlost + 0
        /\ type = "Array" => Len(array) = ntotal + Len(call.vecs)
    BY <1>1, <1>3, <2>1 DEF CountInv
  <2>10. SizeOf(lists) \in Nat /\ SizeOf(lists') = SizeOf(lists)
    BY <1>1, <1>3, PlacesFinite
  <2>11. /\ ntotal' \in Nat /\ nlost' \in Nat
         /\ ntotal' = SizeOf(lists') + nlost' + 0
         /\ type' = "Array" => Len(array') = ntotal'
    <3> DEFINE m == Len(call.vecs)
               size == SizeOf(lists)
               c == Cardinality(E)
               d == Cardinality(U)
    <3>1. m \in Nat /\ size \in Nat /\ c \in Nat /\ d \in Nat /\ ntotal \in Nat /\ nlost \in Nat
      BY <1>3, <2>7, <2>9, <2>10
    <3>2. m = c + d /\ ntotal + c = size + nlost + 0
      BY <2>8, <2>9
    <3>3. ntotal' = ntotal + m /\ nlost' = nlost + d /\ SizeOf(lists') = size
      BY <1>1, <2>4, <2>10
    <3>4. type' = "Array" => Len(array') = ntotal + m
      BY <1>1, <2>9
    <3> HIDE DEF m, size, c, d
    <3> QED
      BY <3>1, <3>2, <3>3, <3>4
  <2> QED
    BY <1>2, <2>10, <2>11, CountFrom
<1>11. Unique(lists)'
  BY <1>1, <1>3 DEF Unique
<1> QED
  BY <1>7, <1>8, <1>9, <1>10, <1>11 DEF IdInv

-----------------------------------------------------------------------------
(* Ids, map and counts: the map anew, reset. *)

(* An entry that is looked for is found, or is not there. *)
LEMMA EntryForIs ==
    ASSUME IsLists(lists), NEW S \in SUBSET Places(lists), NEW id
    PROVE  /\ EntryFor(id, S) \in LO
           /\ EntryFor(id, S) = NoEntry \/ IsPlaceOf(EntryFor(id, S), lists, id)
<1> DEFINE here == {x \in S : IdAt(x) = id}
           x == CHOOSE y \in here : TRUE
<1>1. CASE here = {}
  <2>1. EntryFor(id, S) = NoEntry
    BY <1>1 DEF EntryFor
  <2> QED
    BY <2>1 DEF NoEntry, lo_build, LO
<1>2. CASE here # {}
  <2>1. x \in here
    BY <1>2
  <2>2. EntryFor(id, S) = lo_build(x[1], x[2] - 1)
    BY <1>2 DEF EntryFor
  <2> HIDE DEF x
  <2>3. x \in Places(lists) /\ lists[x[1]][x[2]].id = id
    BY <2>1 DEF IdAt
  <2>4. PICK l \in DOMAIN lists : \E p \in DOMAIN lists[l] : x = <<l, p>>
    BY <2>3, PlacesAre
  <2>5. PICK p \in DOMAIN lists[l] : x = <<l, p>>
    BY <2>4
  <2>6. EntryFor(id, S) = lo_build(l, p - 1) /\ lists[l][p].id = id
    BY <2>2, <2>3, <2>5
  <2>7. l \in Int /\ p \in Int
    BY ListIsSeq
  <2>8. EntryFor(id, S) \in LO
    BY <2>6, <2>7 DEF lo_build, LO
  <2> QED
    BY <2>6, <2>8 DEF IsPlaceOf
<1> QED
  BY <1>1, <1>2

LEMMA EntryForPlace ==
    ASSUME Unique(lists), NEW S \in SUBSET Places(lists),
           NEW l \in DOMAIN lists, NEW p \in DOMAIN lists[l], <<l, p>> \in S
    PROVE  EntryFor(lists[l][p].id, S) = lo_build(l, p - 1)
<1> DEFINE id == lists[l][p].id
           here == {x \in S : IdAt(x) = id}
           x == CHOOSE y \in here : TRUE
<1>1. <<l, p>> \in here
  BY DEF IdAt
<1>2. x \in here /\ EntryFor(id, S) = lo_build(x[1], x[2] - 1)
  BY <1>1 DEF EntryFor
<1> HIDE DEF x
<1>3. x \in Places(lists) /\ lists[x[1]][x[2]].id = id
  BY <1>2 DEF IdAt
<1>4. PICK m \in DOMAIN lists : \E q \in DOMAIN lists[m] : x = <<m, q>>
  BY <1>3, PlacesAre
<1>5. PICK q \in DOMAIN lists[m] : x = <<m, q>>
  BY <1>4
<1>6. m = l /\ q = p
  BY <1>3, <1>5 DEF Unique
<1> QED
  BY <1>2, <1>5, <1>6

(* Without a throw the array has every id. *)
LEMMA ScannedAll ==
    ASSUME Scanned = Places(lists), NEW l \in DOMAIN lists, NEW p \in DOMAIN lists[l],
           lists[l][p].id \in Nat, ntotal \in Nat, IsLists(lists)
    PROVE  lists[l][p].id < ntotal
<1> DEFINE x == <<l, p>>
<1>1. x \in Scanned /\ x \in Places(lists)
  BY PlacesAre
<1>2. IdAt(x) = lists[l][p].id
  BY DEF IdAt
<1>3. l \in Int /\ p \in Int
  BY ListIsSeq
<1>4. ~Before(x, x)
  BY <1>3 DEF Before
<1>5. ~(IdAt(x) >= ntotal)
  BY <1>1, <1>4 DEF Scanned
<1> QED
  BY <1>2, <1>5

(* set_type fills the map from the lists. *)
LEMMA SetTypeIds ==
    ASSUME IInv, NEW new \in Types, set_type(new)
    PROVE  IdInv'
<1>1. /\ call = Idle /\ call' = Idle /\ type' = new
      /\ array' = IF new = "Array" THEN [k \in 1 .. ntotal |-> EntryFor(k - 1, Scanned)] ELSE <<>>
      /\ hashtable' = IF new = "Hashtable"
                      THEN [id \in StoredIds |-> EntryFor(id, Places(lists))] ELSE <<>>
      /\ partial' = (new = "Array" /\ Scanned # Places(lists))
      /\ UNCHANGED <<lists, ntotal, other, nlost>>
  BY DEF set_type
<1>2. /\ call.op = "none" /\ call'.op = "none"
      /\ IsLists(lists) /\ Unique(lists) /\ ntotal \in Nat /\ nlost \in Nat
      /\ ntotal = SizeOf(lists) + nlost
      /\ new \in {"NoMap", "Array", "Hashtable"}
  BY <1>1, IdleFacts, TypesAssumption
<1>3. Scanned \in SUBSET Places(lists)
  BY DEF Scanned
<1>4. \A l \in DOMAIN lists : \A p \in DOMAIN lists[l] :
         lists[l][p].id \in Nat /\ <<l, p>> \in Places(lists) /\ Holds(lists, lists[l][p].id)
  BY <1>2, ListIsSeq, PlacesAre DEF Stored, Holds
<1>5. MapInv'
  <2>1. CASE new = "NoMap"
    <3>1. type' = "NoMap" /\ array' = <<>> /\ hashtable' = <<>> /\ partial' = FALSE
      BY <1>1, <2>1
    <3>2. array' \in Seq(LO)
      BY <3>1
    <3> QED
      BY <3>1, <3>2 DEF MapInv
  <2>2. CASE new = "Array"
    <3> DEFINE N == [id \in 0 .. (ntotal - 1) |-> EntryFor(id, Scanned)]
    <3>1. array' = [k \in 1 .. ntotal |-> EntryFor(k - 1, Scanned)]
      BY <1>1, <2>2
    <3>2. \A k \in 1 .. ntotal : EntryFor(k - 1, Scanned) \in LO
      BY <1>2, <1>3, EntryForIs
    <3> HIDE DEF LO
    <3>3. array' \in [1 .. ntotal -> LO]
      BY <3>1, <3>2
    <3>4. array' \in Seq(LO)
      BY <1>2, <3>3, IsASeq
    <3>5. Len(array') = ntotal
      BY <1>2, <3>3, <3>4
    <3>6. Map' = N
      <4>1. Map' = [id \in 0 .. (ntotal - 1) |-> array'[id + 1]]
        BY <1>1, <2>2, <3>5 DEF Map
      <4>2. \A id \in 0 .. (ntotal - 1) : id + 1 \in 1 .. ntotal /\ (id + 1) - 1 = id
        BY <1>2
      <4>3. \A id \in 0 .. (ntotal - 1) : array'[id + 1] = EntryFor(id, Scanned)
        BY <3>1, <4>2
      <4> QED
        BY <4>1, <4>3
    <3>7. DOMAIN N = 0 .. (ntotal - 1) /\ \A id \in 0 .. (ntotal - 1) : N[id] = EntryFor(id, Scanned)
      OBVIOUS
    <3> HIDE DEF N
    <3>8. Backward(N, lists)
      BY <1>2, <1>3, <3>7, EntryForIs DEF Backward
    <3>9. ASSUME ~partial' PROVE Forward(N, lists)
      <4>1. Scanned = Places(lists)
        BY <1>1, <2>2, <3>9
      <4>2. SUFFICES ASSUME NEW l \in DOMAIN lists, NEW p \in DOMAIN lists[l]
                     PROVE  /\ lists[l][p].id \in DOMAIN N
                            /\ N[lists[l][p].id] = lo_build(l, p - 1)
        BY DEF Forward
      <4>3. lists[l][p].id \in 0 .. (ntotal - 1)
        <5> DEFINE id == lists[l][p].id
        <5>1. id \in Nat /\ id < ntotal
          BY <1>2, <1>4, <4>1, ScannedAll
        <5> HIDE DEF id
        <5>2. id \in 0 .. (ntotal - 1)
          BY <1>2, <5>1
        <5> QED
          BY <5>2 DEF id
      <4>4. EntryFor(lists[l][p].id, Scanned) = lo_build(l, p - 1)
        BY <1>2, <1>3, <1>4, <4>1, EntryForPlace
      <4> QED
        BY <3>7, <4>3, <4>4
    <3>10. type' = "Array" /\ hashtable' = <<>> /\ partial' \in BOOLEAN
      BY <1>1, <2>2
    <3>11. Backward(Map, lists)' /\ (~partial' => Forward(Map, lists)')
      BY <1>1, <3>6, <3>8, <3>9 DEF Backward, Forward, IsPlaceOf
    <3> QED
      BY <3>4, <3>10, <3>11 DEF MapInv
  <2>3. CASE new = "Hashtable"
    <3> DEFINE N == [id \in StoredIds |-> EntryFor(id, Places(lists))]
    <3>1. /\ type' = "Hashtable" /\ array' = <<>> /\ partial' = FALSE
          /\ hashtable' = N /\ Map' = N
      BY <1>1, <1>2, <2>3 DEF Map
    <3>2. Places(lists) \in SUBSET Places(lists)
      OBVIOUS
    <3>3. \A id \in StoredIds : EntryFor(id, Places(lists)) \in LO
      BY <1>2, <3>2, EntryForIs
    <3>4. N \in [StoredIds -> LO] /\ DOMAIN N = StoredIds
          /\ \A id \in StoredIds : N[id] = EntryFor(id, Places(lists))
      <4> HIDE DEF LO
      <4> QED
        BY <3>3
    <3> HIDE DEF N
    <3>5. Backward(N, lists)
      BY <1>2, <3>2, <3>4, EntryForIs DEF Backward
    <3>6. Forward(N, lists)
      <4> SUFFICES ASSUME NEW l \in DOMAIN lists, NEW p \in DOMAIN lists[l]
                   PROVE  lists[l][p].id \in DOMAIN N /\ N[lists[l][p].id] = lo_build(l, p - 1)
        BY DEF Forward
      <4>1. lists[l][p].id \in StoredIds
        BY <1>4, StoredHolds
      <4>2. EntryFor(lists[l][p].id, Places(lists)) = lo_build(l, p - 1)
        BY <1>2, <1>4, <3>2, EntryForPlace
      <4> QED
        BY <3>4, <4>1, <4>2
    <3>7. StoredIds \subseteq Nat
      <4> SUFFICES ASSUME NEW id \in StoredIds PROVE id \in Nat
        OBVIOUS
      <4>1. Holds(lists, id)
        BY StoredHolds
      <4> QED
        BY <1>4, <4>1 DEF Holds
    <3>8. Backward(Map, lists)' /\ Forward(Map, lists)' /\ Backward(hashtable, lists)'
      BY <1>1, <3>1, <3>5, <3>6 DEF Backward, Forward, IsPlaceOf
    <3>9. array' \in Seq(LO)
      BY <3>1
    <3> QED
      BY <3>1, <3>4, <3>7, <3>8, <3>9 DEF MapInv
  <2> QED
    BY <1>2, <2>1, <2>2, <2>3
<1>6. AddIdsInv' /\ RemoveInv' /\ UpdateInv'
  BY <1>2, NotAdding DEF RemoveInv, UpdateInv
<1>7. MergeInv'
  BY <1>1, <1>2, OtherSame DEF IInv, IdInv
<1>8. CountInv'
  <2>1. SizeOf(lists) \in Nat
    BY <1>2, PlacesFinite
  <2>2. type' = "Array" => Len(array') = ntotal'
    <3>1. ASSUME new = "Array" PROVE Len(array') = ntotal
      <4>1. array' = [k \in 1 .. ntotal |-> EntryFor(k - 1, Scanned)]
        BY <1>1, <3>1
      <4> QED
        BY <1>2, <4>1
    <3> QED
      BY <1>1, <3>1
  <2> QED
    BY <1>1, <1>2, <2>1, <2>2, CountFrom
<1>9. Unique(lists)'
  BY <1>1, <1>2 DEF Unique
<1> QED
  BY <1>5, <1>6, <1>7, <1>8, <1>9 DEF IdInv

LEMMA ResetIds ==
    ASSUME IInv, reset
    PROVE  IdInv'
<1>1. /\ call = Idle /\ call' = Idle /\ array' = <<>> /\ hashtable' = <<>>
      /\ lists' = [l \in DOMAIN lists |-> <<>>]
      /\ ntotal' = 0 /\ nlost' = 0 /\ partial' = FALSE
      /\ UNCHANGED <<type, other>>
  BY DEF reset
<1>2. call.op = "none" /\ call'.op = "none" /\ IsLists(lists)
  BY <1>1, IdleFacts
<1>3. Len(array') = 0 /\ array' \in Seq(LO) /\ DOMAIN hashtable' = {} /\ hashtable' \in [{} -> LO]
  BY <1>1
<1>4. \A l \in DOMAIN lists' : DOMAIN lists'[l] = {}
  BY <1>1
<1>5. DOMAIN Map' = {}
  <2>1. 0 .. (Len(array') - 1) = {}
    BY <1>3
  <2> QED
    BY <1>1, <1>2, <2>1 DEF Map
<1>6. MapInv'
  <2> HIDE DEF Map
  <2>1. Backward(Map, lists)' /\ Forward(Map, lists)' /\ Backward(hashtable, lists)'
    BY <1>3, <1>4, <1>5 DEF Backward, Forward
  <2>2. type \in {"NoMap", "Array", "Hashtable"}
    BY DEF IInv, IdInv, MapInv
  <2> QED
    BY <1>1, <1>3, <2>1, <2>2 DEF MapInv
<1>7. AddIdsInv' /\ RemoveInv' /\ UpdateInv'
  BY <1>2, NotAdding DEF RemoveInv, UpdateInv
<1>8. MergeInv'
  BY <1>1, <1>2, OtherSame DEF IInv, IdInv
<1>9. CountInv'
  <2>1. SizeOf(lists') = 0
    BY <1>1, <1>2, EmptiedIs
  <2> QED
    BY <1>1, <1>2, <1>3, <2>1, CountFrom
<1>10. Unique(lists)'
  BY <1>4 DEF Unique
<1> QED
  BY <1>6, <1>7, <1>8, <1>9, <1>10 DEF IdInv

-----------------------------------------------------------------------------
(* Ids, map and counts: removing. *)

(* Careful callers leave vectors without a list alone. *)
LEMMA RemoveIdsIds ==
    ASSUME IInv, Careful, NEW ids \in SeqsUpTo(Ids, MaxBatch), remove_ids(ids)
    PROVE  IdInv'
<1>1. /\ call = Idle /\ type # "Array"
      /\ \A i \in DOMAIN ids : Assigned(ids[i])
      /\ call' = IF type = "NoMap"
                 THEN [op |-> "scan", sel |-> {ids[i] : i \in DOMAIN ids}]
                 ELSE [op |-> "remove", rest |-> ids, nremove |-> 0, then |-> <<>>]
      /\ UNCHANGED <<lists, ntotal, type, array, hashtable, other, nlost, partial>>
  BY DEF remove_ids
<1>2. /\ call.op = "none" /\ IsLists(lists) /\ Unique(lists)
      /\ ntotal \in Nat /\ nlost \in Nat /\ ntotal = SizeOf(lists) + nlost
      /\ (type = "Array" => Len(array) = ntotal)
  BY <1>1, IdleFacts
<1>3. call'.op = IF type = "NoMap" THEN "scan" ELSE "remove"
  BY <1>1
<1>4. MapInv'
  BY <1>1, <1>2, <1>3, MapSame DEF IInv, IdInv
<1>5. AddIdsInv' /\ UpdateInv'
  BY <1>3, NotAdding DEF UpdateInv
<1>6. RemoveInv'
  <2>1. CASE type = "NoMap"
    BY <1>3, <2>1 DEF RemoveInv
  <2>2. CASE type # "NoMap"
    <3>1. /\ call'.rest = ids /\ call'.then = <<>>
          /\ type' = "Hashtable" /\ type = "Hashtable" /\ hashtable' = hashtable
      BY <1>1, <2>2 DEF IInv, IdInv, MapInv
    <3>2. \A k \in DOMAIN ids : ids[k] \in DOMAIN hashtable => hashtable[ids[k]].list # -1
      BY <1>1, <3>1 DEF Assigned
    <3> QED
      BY <3>1, <3>2 DEF RemoveInv
  <2> QED
    BY <2>1, <2>2
<1>7. MergeInv'
  BY <1>1, <1>2, <1>3, OtherSame DEF IInv, IdInv
<1>8. CountInv'
  <2>1. call'.op = "remove" => call'.nremove = 0
    BY <1>1, <1>3
  <2>2. SizeOf(lists) \in Nat
    BY <1>2, PlacesFinite
  <2>3. ntotal' = SizeOf(lists') + nlost' + (IF call'.op = "remove" THEN call'.nremove ELSE 0)
    BY <1>1, <1>2, <2>1, <2>2
  <2> QED
    BY <1>1, <1>2, <1>3, <2>2, <2>3, CountFrom
<1>9. Unique(lists)'
  BY <1>1, <1>2 DEF Unique
<1> QED
  BY <1>4, <1>5, <1>6, <1>7, <1>8, <1>9 DEF IdInv

LEMMA UpdateVectorsIds ==
    ASSUME IInv, Careful, NEW ids \in SeqsUpTo(Ids, MaxBatch),
           NEW ls \in [DOMAIN ids -> DOMAIN lists \cup {-1}], update_vectors(ids, ls)
    PROVE  IdInv'
<1> DEFINE vecs == Batch(ids, ls)
<1>1. /\ call = Idle /\ type # "NoMap" /\ ~partial
      /\ \A i \in DOMAIN ids : Assigned(ids[i])
      /\ (type = "Array" => \A i \in DOMAIN ls : ls[i] # -1)
      /\ call' = IF type = "Array" THEN [op |-> "update", rest |-> vecs]
                 ELSE [op |-> "remove", rest |-> ids, nremove |-> 0, then |-> vecs]
      /\ UNCHANGED <<lists, ntotal, type, array, hashtable, other, nlost, partial>>
  BY DEF update_vectors
<1>2. /\ call.op = "none" /\ IsLists(lists) /\ Unique(lists)
      /\ ntotal \in Nat /\ nlost \in Nat /\ ntotal = SizeOf(lists) + nlost
      /\ (type = "Array" => Len(array) = ntotal)
  BY <1>1, IdleFacts
<1>3. /\ vecs \in Seq(Vec) /\ Len(vecs) = Len(ids) /\ Len(ids) \in Nat /\ ids \in Seq(Ids)
      /\ DOMAIN vecs = 1 .. Len(ids) /\ DOMAIN ids = 1 .. Len(ids)
      /\ \A i \in 1 .. Len(ids) : vecs[i] = [id |-> ids[i], list |-> ls[i], code |-> nadded + i]
  BY BatchIs DEF IInv, OrderInv
<1> HIDE DEF vecs
<1>4. call'.op = IF type = "Array" THEN "update" ELSE "remove"
  BY <1>1
<1>5. MapInv'
  BY <1>1, <1>2, <1>4, MapSame DEF IInv, IdInv
<1>6. AddIdsInv'
  BY <1>4, NotAdding
<1>7. UpdateInv'
  <2>1. CASE type # "Array"
    BY <1>4, <2>1 DEF UpdateInv
  <2>2. CASE type = "Array"
    <3>1. call'.rest = vecs
      BY <1>1, <2>2
    <3>2. ASSUME NEW k \in DOMAIN vecs
          PROVE  /\ vecs[k].list \in DOMAIN lists
                 /\ vecs[k].id < Len(array) => array[vecs[k].id + 1].list # -1
      <4>1. vecs[k].id = ids[k] /\ vecs[k].list = ls[k] /\ k \in DOMAIN ids
        BY <1>3
      <4>2. ls[k] \in DOMAIN lists
        BY <1>1, <2>2, <4>1
      <4>3. ids[k] < Len(array) => array[ids[k] + 1].list # -1
        BY <1>1, <2>2, <4>1 DEF Assigned
      <4> QED
        BY <4>1, <4>2, <4>3
    <3> QED
      BY <1>1, <2>2, <3>1, <3>2 DEF UpdateInv
  <2> QED
    BY <2>1, <2>2
<1>8. RemoveInv'
  <2>1. CASE type = "Array"
    BY <1>4, <2>1 DEF RemoveInv
  <2>2. CASE type # "Array"
    <3>1. /\ call'.rest = ids /\ call'.then = vecs /\ call'.nremove = 0
          /\ type' = "Hashtable" /\ type = "Hashtable" /\ hashtable' = hashtable
      BY <1>1, <2>2 DEF IInv, IdInv, MapInv
    <3>2. \A k \in DOMAIN ids : ids[k] \in DOMAIN hashtable => hashtable[ids[k]].list # -1
      BY <1>1, <3>1 DEF Assigned
    <3>3. Len(vecs) - Len(ids) = 0
      BY <1>3
    <3>4. \A k \in DOMAIN ids : ids[k] = vecs[0 + k].id
      BY <1>3
    <3>5. \A n : n = 0 => 1 .. n = {}
      OBVIOUS
    <3> QED
      BY <3>1, <3>2, <3>3, <3>4, <3>5 DEF RemoveInv
  <2> QED
    BY <2>1, <2>2
<1>9. MergeInv'
  BY <1>1, <1>2, <1>4, OtherSame DEF IInv, IdInv
<1>10. CountInv'
  <2>1. call'.op = "remove" => call'.nremove = 0
    BY <1>1, <1>4
  <2>2. SizeOf(lists) \in Nat
    BY <1>2, PlacesFinite
  <2>3. ntotal' = SizeOf(lists') + nlost' + (IF call'.op = "remove" THEN call'.nremove ELSE 0)
    BY <1>1, <1>2, <2>1, <2>2
  <2> QED
    BY <1>1, <1>2, <1>4, <2>2, <2>3, CountFrom
<1>11. Unique(lists)'
  BY <1>1, <1>2 DEF Unique
<1> QED
  BY <1>5, <1>6, <1>7, <1>8, <1>9, <1>10, <1>11 DEF IdInv

LEMMA ScanIds ==
    ASSUME IInv, scan
    PROVE  IdInv'
<1>1. /\ call.op = "scan" /\ call' = Idle /\ lists' = ScanOf(lists, call.sel)
      /\ ntotal' = ntotal - (SizeOf(lists) - SizeOf(lists'))
      /\ UNCHANGED <<type, array, hashtable, other, nlost, partial>>
  BY DEF scan, ScanOf
<1>2. /\ type = "NoMap" /\ call'.op = "none" /\ IsLists(lists) /\ Unique(lists)
      /\ MapInv /\ MergeInv /\ CountInv
  BY <1>1 DEF Idle, IInv, IdInv, MergeInv, OrderInv, ShapeInv
<1>3. IsLists(lists') /\ Unique(lists')
  BY <1>1, <1>2, ScanIs
<1>4. MapInv'
  BY <1>1, <1>2 DEF MapInv
<1>5. AddIdsInv' /\ RemoveInv' /\ UpdateInv'
  BY <1>2, NotAdding DEF RemoveInv, UpdateInv
<1>6. MergeInv'
  BY <1>1, <1>2, OtherSame
<1>7. CountInv'
  <2>1. SizeOf(lists) \in Nat /\ SizeOf(lists') \in Nat
    BY <1>2, <1>3, PlacesFinite
  <2>2. Cardinality(Entering) = 0
    BY <1>1, FS_EmptySet DEF Entering
  <2>3. ntotal \in Nat /\ nlost \in Nat /\ ntotal = SizeOf(lists) + nlost
    BY <1>1, <1>2, <2>1, <2>2 DEF CountInv
  <2>4. ntotal' = SizeOf(lists') + nlost' + 0 /\ ntotal' \in Nat
    BY <1>1, <2>1, <2>3
  <2> QED
    BY <1>1, <1>2, <2>1, <2>3, <2>4, CountFrom
<1>8. Unique(lists)'
  BY <1>3 DEF Unique
<1> QED
  BY <1>4, <1>5, <1>6, <1>7, <1>8 DEF IdInv

(* The table without an id: the entry that moved has the place of the one    *)
(* that is gone.                                                             *)
IsMapWithout(N, M, ls, l, k) ==
    /\ DOMAIN N = DOMAIN M \ {ls[l][k].id}
    /\ \A id \in DOMAIN N :
          N[id] = IF k # Len(ls[l]) /\ id = ls[l][Len(ls[l])].id
                  THEN lo_build(l, k - 1) ELSE M[id]

LEMMA TableWithoutIs ==
    ASSUME IsLists(lists), Unique(lists), Forward(hashtable, lists),
           NEW l \in DOMAIN lists, NEW k \in DOMAIN lists[l],
           hashtable[lists[l][k].id] = lo_build(l, k - 1)
    PROVE  /\ IsMapWithout(TableWithout(lists[l][k].id), hashtable, lists, l, k)
           /\ TableWithout(lists[l][k].id) =
                 [id \in DOMAIN TableWithout(lists[l][k].id) |-> TableWithout(lists[l][k].id)[id]]
<1> DEFINE id0 == lists[l][k].id
           n == Len(lists[l])
           lid == lists[l][n].id
           moved == IF k < n THEN {lid} ELSE {}
<1>1. n \in Nat /\ DOMAIN lists[l] = 1 .. n /\ n \in DOMAIN lists[l] /\ k \in 1 .. n
  BY ListIsSeq
<1>2. hashtable[id0].list = l /\ hashtable[id0].ofs = k - 1
  BY DEF lo_build
<1>3. TableWithout(id0) = [i \in (DOMAIN hashtable \ {id0}) \cup moved |->
                              IF i \in moved THEN lo_build(l, k - 1) ELSE hashtable[i]]
  <2>1. (n - 1) + 1 = n /\ (k - 1 < n - 1 <=> k < n)
    BY <1>1
  <2> DEFINE lo == hashtable[id0]
             m == Len(lists[lo.list]) - 1
             mv == IF lo.ofs < m THEN {lists[lo.list][m + 1].id} ELSE {}
  <2>2. TableWithout(id0) = [i \in (DOMAIN hashtable \ {id0}) \cup mv |->
                                IF i \in mv THEN lo ELSE hashtable[i]]
    BY DEF TableWithout
  <2>3. mv = moved
    <3>1. lo.list = l /\ lo.ofs = k - 1 /\ m = n - 1
      BY <1>2
    <3>2. lists[lo.list][m + 1].id = lid
      BY <2>1, <3>1
    <3>3. lo.ofs < m <=> k < n
      BY <2>1, <3>1
    <3> HIDE DEF lo, m, lid, n
    <3> QED
      BY <3>2, <3>3
  <2>4. lo = lo_build(l, k - 1)
    OBVIOUS
  <2> HIDE DEF mv, moved, lo, id0
  <2> QED
    BY <2>2, <2>3, <2>4
<1>4. lid \in DOMAIN hashtable
  BY <1>1 DEF Forward
<1>5. k < n => lid # id0
  BY <1>1 DEF Unique
<1>6. k < n <=> k # n
  BY <1>1
<1> HIDE DEF lid, id0, n
<1>7. (DOMAIN hashtable \ {id0}) \cup moved = DOMAIN hashtable \ {id0}
  BY <1>4, <1>5
<1>8. \A i : i \in moved <=> k # n /\ i = lid
  BY <1>6
<1> HIDE DEF moved
<1> DEFINE N == TableWithout(id0)
<1>9. N = [i \in DOMAIN hashtable \ {id0} |-> IF i \in moved THEN lo_build(l, k - 1) ELSE hashtable[i]]
  BY <1>3, <1>7
<1> HIDE DEF N
<1>10. /\ DOMAIN N = DOMAIN hashtable \ {id0}
       /\ \A id \in DOMAIN N :
             N[id] = IF k # n /\ id = lid THEN lo_build(l, k - 1) ELSE hashtable[id]
       /\ N = [id \in DOMAIN N |-> N[id]]
  BY <1>8, <1>9
<1> QED
  BY <1>10 DEF N, lid, id0, n, IsMapWithout

LEMMA CutMapWithout ==
    ASSUME NEW ls, IsLists(ls), NEW l \in DOMAIN ls, NEW k \in DOMAIN ls[l], Unique(ls),
           NEW M, NEW N, Forward(M, ls), Backward(M, ls), IsMapWithout(N, M, ls, l, k)
    PROVE  Backward(N, Cut(ls, l, k - 1)) /\ Forward(N, Cut(ls, l, k - 1))
BY CutMap DEF IsMapWithout

(* A removal: the entry is gone from its list and from the table. *)
LEMMA RemoveNextIds ==
    ASSUME IInv, remove_next
    PROVE  IdInv'
<1> DEFINE id0 == Head(call.rest)
<1>1. /\ call.op = "remove" /\ call.rest # <<>> /\ type = "Hashtable"
      /\ UNCHANGED <<ntotal, type, array, other, nlost, partial>>
      /\ call'.op = "remove" /\ call' \in RemoveCalls
      /\ call'.rest = Tail(call.rest) /\ call'.then = call.then
  BY RemoveNextIs
<1>2. /\ IsLists(lists) /\ Unique(lists) /\ MapInv /\ RemoveInv /\ MergeInv /\ CountInv
      /\ call.rest \in Seq(Ids) /\ call.nremove \in Nat /\ call.then \in Seq(Vec)
      /\ partial = FALSE /\ array = <<>>
  <2>1. IsLists(lists) /\ call \in RemoveCalls
    BY <1>1, CallKinds DEF IInv, OrderInv, ShapeInv
  <2>2. Unique(lists) /\ MapInv /\ RemoveInv /\ MergeInv /\ CountInv
    BY DEF IInv, IdInv
  <2>3. partial = FALSE /\ array = <<>>
    BY <1>1, <2>2 DEF MapInv
  <2> QED
    BY <2>1, <2>2, <2>3 DEF RemoveCalls
<1>3. /\ Len(call.rest) \in Nat /\ Len(call.rest) >= 1 /\ DOMAIN call.rest = 1 .. Len(call.rest)
      /\ 1 \in DOMAIN call.rest /\ id0 = call.rest[1]
      /\ Len(call'.rest) = Len(call.rest) - 1
      /\ \A j \in DOMAIN call'.rest : j \in Nat /\ j + 1 \in DOMAIN call.rest
                                      /\ call'.rest[j] = call.rest[j + 1]
      /\ Len(call.then) \in Nat
  BY <1>1, <1>2
<1>4. /\ Map = hashtable /\ Map' = hashtable'
      /\ Backward(hashtable, lists) /\ Forward(hashtable, lists)
  BY <1>1, HashMap DEF Map
<1>5. /\ hashtable \in [DOMAIN hashtable -> LO] /\ DOMAIN hashtable \subseteq Nat
      /\ \A j \in DOMAIN call.rest : call.rest[j] \in DOMAIN hashtable =>
            hashtable[call.rest[j]].list # -1
  BY <1>1, <1>2 DEF MapInv, RemoveInv
<1> HIDE DEF Map
<1>6. AddIdsInv' /\ UpdateInv'
  BY <1>1, NotAdding DEF UpdateInv
<1>7. MergeInv'
  BY <1>1, <1>2, OtherSame
<1>8. /\ ntotal \in Nat /\ nlost \in Nat /\ SizeOf(lists) \in Nat
      /\ ntotal = SizeOf(lists) + nlost + call.nremove
  <2>1. Cardinality(Entering) = 0
    BY <1>1, FS_EmptySet DEF Entering
  <2>2. /\ ntotal \in Nat /\ nlost \in Nat
        /\ ntotal + Cardinality(Entering) = SizeOf(lists) + nlost + call.nremove
    BY <1>1, <1>2 DEF CountInv
  <2>3. SizeOf(lists) \in Nat
    BY <1>2, PlacesFinite
  <2> QED
    BY <1>2, <2>1, <2>2, <2>3
<1> DEFINE n == Len(call.then) - Len(call.rest)
           m == Len(call'.then) - Len(call'.rest)
<1>9. ASSUME call.then # <<>>
      PROVE  /\ n \in Nat /\ call.nremove <= n
             /\ \A j \in DOMAIN call.rest : call.rest[j] = call.then[n + j].id
             /\ call.nremove = n => \A i \in 1 .. n :
                   /\ ~Holds(lists, call.then[i].id)
                   /\ \A j \in 1 .. (i - 1) : call.then[i].id # call.then[j].id
  BY <1>1, <1>2, <1>9 DEF RemoveInv
<1>10. m = n + 1 /\ n \in Int
  <2> DEFINE a == Len(call.then)
             b == Len(call.rest)
  <2>1. a \in Nat /\ b \in Nat
    BY <1>3
  <2>2. n = a - b /\ m = a - (b - 1)
    BY <1>1, <1>3
  <2> HIDE DEF a, b, n, m
  <2> QED
    BY <2>1, <2>2
<1>11. ASSUME call.then # <<>>
       PROVE  \A j \in DOMAIN call'.rest : call'.rest[j] = call'.then[m + j].id
  <2>1. SUFFICES ASSUME NEW j \in DOMAIN call'.rest PROVE call'.rest[j] = call.then[m + j].id
    BY <1>1
  <2>2. j \in Nat /\ j + 1 \in DOMAIN call.rest /\ call'.rest[j] = call.rest[j + 1]
    BY <1>3
  <2>3. call.rest[j + 1] = call.then[n + (j + 1)].id /\ n \in Nat
    BY <1>9, <1>11, <2>2
  <2> HIDE DEF n, m
  <2>4. n + (j + 1) = m + j
    BY <1>10, <2>2
  <2> QED
    BY <2>2, <2>3, <2>4
<1> HIDE DEF n, m
<1>12. CASE id0 \notin DOMAIN hashtable
  <2>1. call'.nremove = call.nremove /\ UNCHANGED <<lists, hashtable>>
    BY <1>12, RemoveNextIs
  <2>2. MapInv'
    BY <1>1, <1>2, <2>1, MapSame
  <2>3. RemoveInv'
    <3>1. call'.then # <<>> => m \in Nat /\ call'.nremove <= m /\ call'.nremove # m
      BY <1>1, <1>2, <1>9, <1>10, <2>1
    <3>2. \A j \in DOMAIN call'.rest : call'.rest[j] \in DOMAIN hashtable' =>
             hashtable'[call'.rest[j]].list # -1
      BY <1>3, <1>5, <2>1
    <3> QED
      BY <1>1, <1>11, <3>1, <3>2 DEF RemoveInv, m
  <2>4. CountInv'
    <3>1. ntotal' = SizeOf(lists') + nlost' + call'.nremove /\ SizeOf(lists') \in Nat
      BY <1>1, <1>8, <2>1
    <3> QED
      BY <1>1, <1>8, <3>1, CountFrom
  <2>5. Unique(lists)'
    BY <1>2, <2>1 DEF Unique
  <2> QED
    BY <1>6, <1>7, <2>2, <2>3, <2>4, <2>5 DEF IdInv
<1>13. CASE id0 \in DOMAIN hashtable
  <2>1. /\ hashtable' = TableWithout(id0) /\ call'.nremove = call.nremove + 1
        /\ \E l \in DOMAIN lists : \E k \in DOMAIN lists[l] :
              /\ hashtable[id0] = lo_build(l, k - 1) /\ lists[l][k].id = id0
              /\ lists' = Cut(lists, l, k - 1)
    BY <1>13, RemoveNextIs
  <2>2. PICK l \in DOMAIN lists : \E k \in DOMAIN lists[l] :
              /\ hashtable[id0] = lo_build(l, k - 1) /\ lists[l][k].id = id0
              /\ lists' = Cut(lists, l, k - 1)
    BY <2>1
  <2>3. PICK k \in DOMAIN lists[l] :
              /\ hashtable[id0] = lo_build(l, k - 1) /\ lists[l][k].id = id0
              /\ lists' = Cut(lists, l, k - 1)
    BY <2>2
  <2> HIDE DEF id0
  <2>4. /\ IsMapWithout(hashtable', hashtable, lists, l, k)
        /\ hashtable' = [id \in DOMAIN hashtable' |-> hashtable'[id]]
    BY <1>2, <1>4, <2>1, <2>3, TableWithoutIs
  <2>5. Unique(lists') /\ \A id : Holds(lists', id) => Holds(lists, id) /\ id # id0
    BY <1>2, <2>3, CutUnique
  <2>6. Backward(hashtable', lists') /\ Forward(hashtable', lists')
    BY <1>2, <1>4, <2>3, <2>4, CutMapWithout
  <2>7. l \in Int /\ k \in Int /\ l # -1
    BY <1>2, ListIsSeq
  <2>8. ASSUME NEW id \in DOMAIN hashtable'
        PROVE  /\ id \in DOMAIN hashtable /\ hashtable'[id] \in LO
               /\ hashtable'[id].list = l \/ hashtable'[id] = hashtable[id]
    <3>1. lo_build(l, k - 1) \in LO /\ lo_build(l, k - 1).list = l
      BY <2>7 DEF lo_build, LO
    <3>2. /\ id \in DOMAIN hashtable
          /\ hashtable'[id] = lo_build(l, k - 1) \/ hashtable'[id] = hashtable[id]
      BY <2>4 DEF IsMapWithout
    <3>3. hashtable[id] \in LO
      BY <1>5, <3>2
    <3> HIDE DEF LO
    <3> QED
      BY <3>1, <3>2, <3>3
  <2>9. hashtable' \in [DOMAIN hashtable' -> LO] /\ DOMAIN hashtable' \subseteq Nat
    <3> HIDE DEF LO
    <3> QED
      BY <1>5, <2>4, <2>8
  <2>10. MapInv'
    <3>1. Backward(hashtable, lists)' /\ Forward(hashtable, lists)'
      BY <2>6 DEF Backward, Forward, IsPlaceOf
    <3>2. Backward(Map, lists)' /\ Forward(Map, lists)'
      BY <1>4, <3>1 DEF Backward, Forward, IsPlaceOf
    <3> QED
      BY <1>1, <1>2, <2>9, <3>1, <3>2 DEF MapInv
  <2>11. RemoveInv'
    <3>1. ASSUME NEW j \in DOMAIN call'.rest, call'.rest[j] \in DOMAIN hashtable'
          PROVE  hashtable'[call'.rest[j]].list # -1
      <4>1. /\ j + 1 \in DOMAIN call.rest /\ call'.rest[j] = call.rest[j + 1]
            /\ call'.rest[j] \in DOMAIN hashtable
        BY <1>3, <2>8, <3>1
      <4>2. hashtable[call.rest[j + 1]].list # -1
        BY <1>5, <4>1
      <4> QED
        BY <2>7, <2>8, <3>1, <4>1, <4>2
    <3>2. ASSUME call.then # <<>>
          PROVE  /\ m \in Nat /\ call'.nremove <= m
                 /\ call'.nremove = m => \A i \in 1 .. m :
                       /\ ~Holds(lists', call.then[i].id)
                       /\ \A j \in 1 .. (i - 1) : call.then[i].id # call.then[j].id
      <4>1. n \in Nat /\ m \in Nat /\ call'.nremove <= m /\ (call'.nremove = m => call.nremove = n)
        BY <1>2, <1>9, <1>10, <2>1, <3>2
      <4>2. SUFFICES ASSUME call.nremove = n, NEW i \in 1 .. m
                     PROVE  /\ ~Holds(lists', call.then[i].id)
                            /\ \A j \in 1 .. (i - 1) : call.then[i].id # call.then[j].id
        BY <4>1
      <4>3. \A h \in 1 .. n : /\ ~Holds(lists, call.then[h].id)
                              /\ \A j \in 1 .. (h - 1) : call.then[h].id # call.then[j].id
        BY <1>9, <3>2, <4>2
      <4>4. CASE i \in 1 .. n
        BY <2>5, <4>3, <4>4
      <4>5. CASE i = n + 1
        <5>1. call.then[i].id = id0
          BY <1>3, <1>9, <3>2, <4>5 DEF id0
        <5>2. Holds(lists, id0)
          BY <2>3 DEF Holds
        <5>3. \A j \in 1 .. (i - 1) : j \in 1 .. n
          BY <4>1, <4>5
        <5> QED
          BY <2>5, <4>3, <5>1, <5>2, <5>3
      <4>6. i \in 1 .. n \/ i = n + 1
        BY <1>10, <4>1
      <4> QED
        BY <4>4, <4>5, <4>6
    <3>3. call.then # <<>> => (call'.nremove = m => \A i \in 1 .. m :
                       /\ ~(Holds(lists, call.then[i].id)')
                       /\ \A j \in 1 .. (i - 1) : call'.then[i].id # call'.then[j].id)
      BY <1>1, <3>2 DEF Holds
    <3> QED
      BY <1>1, <1>11, <3>1, <3>2, <3>3 DEF RemoveInv, m
  <2>12. CountInv'
    <3>1. SizeOf(lists') = SizeOf(lists) - 1 /\ IsLists(lists')
      BY <1>2, <2>3, CutIs
    <3>2. SizeOf(lists') \in Nat
      BY <3>1, PlacesFinite
    <3>3. ntotal' = SizeOf(lists') + nlost' + call'.nremove
      BY <1>1, <1>2, <1>8, <2>1, <3>1
    <3> QED
      BY <1>1, <1>8, <3>2, <3>3, CountFrom
  <2>13. Unique(lists)'
    BY <2>5 DEF Unique
  <2> QED
    BY <1>6, <1>7, <2>10, <2>11, <2>12, <2>13 DEF IdInv
<1> QED
  BY <1>12, <1>13

(* The end of a removal, and the adding that update_vectors goes on with. *)
LEMMA RemoveEndIds ==
    ASSUME IInv, remove_end
    PROVE  IdInv'
<1>1. /\ call.op = "remove" /\ call.rest = <<>> /\ ntotal' = ntotal - call.nremove
      /\ UNCHANGED <<lists, type, hashtable, other, nlost, partial>>
      /\ IF call.then # <<>> /\ call.nremove = Len(call.then)
         THEN BeginAdd(call.then) ELSE call' = Idle /\ UNCHANGED array
  BY DEF remove_end, Removed
<1>2. CASE ~(call.then # <<>> /\ call.nremove = Len(call.then))
  BY <1>1, <1>2, EndIds
<1>3. CASE call.then # <<>> /\ call.nremove = Len(call.then)
  <2>1. /\ IsLists(lists) /\ call.nremove \in Nat /\ call.then \in Seq(Vec)
        /\ Len(call.then) \in Nat /\ DOMAIN call.then = 1 .. Len(call.then)
        /\ type = "Hashtable" /\ RemoveInv /\ CountInv
    <3>1. IsLists(lists) /\ call \in RemoveCalls /\ RemoveInv /\ CountInv
      BY <1>1, CallKinds DEF IInv, OrderInv, ShapeInv, IdInv
    <3> QED
      BY <1>1, <3>1 DEF RemoveCalls, RemoveInv
  <2>2. Len(call.rest) = 0 /\ Len(call.then) - Len(call.rest) = Len(call.then)
    BY <1>1, <2>1
  <2>3. \A i \in 1 .. Len(call.then) :
           /\ ~Holds(lists, call.then[i].id)
           /\ \A j \in 1 .. (i - 1) : call.then[i].id # call.then[j].id
    BY <1>1, <1>3, <2>1, <2>2 DEF RemoveInv
  <2>4. ASSUME NEW i \in DOMAIN call.then, NEW j \in DOMAIN call.then,
               call.then[i].id = call.then[j].id
        PROVE  i = j
    <3>1. i \in Nat /\ j \in Nat /\ (i # j => j \in 1 .. (i - 1) \/ i \in 1 .. (j - 1))
      BY <2>1
    <3> QED
      BY <2>1, <2>3, <2>4, <3>1
  <2>5. ntotal' \in Nat /\ ntotal' = SizeOf(lists) + nlost
    <3>1. Cardinality(Entering) = 0
      BY <1>1, FS_EmptySet DEF Entering
    <3>2. /\ ntotal \in Nat /\ nlost \in Nat
          /\ ntotal + Cardinality(Entering) = SizeOf(lists) + nlost + call.nremove
      BY <1>1, <2>1 DEF CountInv
    <3>3. SizeOf(lists) \in Nat
      BY <2>1, PlacesFinite
    <3> QED
      BY <1>1, <2>1, <3>1, <3>2, <3>3
  <2>6. \A i \in DOMAIN call.then : ~Holds(lists, call.then[i].id)
    BY <2>1, <2>3
  <2> QED
    BY <1>1, <1>3, <2>1, <2>4, <2>5, <2>6, BeginAddIds
<1> QED
  BY <1>2, <1>3

-----------------------------------------------------------------------------
(* Ids, map and counts: updating. *)

LEMMA UpdateEndIds ==
    ASSUME IInv, update_end
    PROVE  IdInv'
<1>1. /\ call.op = "update" /\ call' = Idle
      /\ UNCHANGED <<lists, ntotal, type, array, hashtable, other, nlost, partial>>
  BY DEF update_end
<1>2. ntotal \in Nat
  BY DEF IInv, IdInv, CountInv
<1>3. ntotal' = ntotal - (IF call.op = "remove" THEN call.nremove ELSE 0)
  BY <1>1, <1>2
<1> QED
  BY <1>1, <1>3, EndIds

(* update_codes takes the vector to its new list: the map has its new place  *)
(* and that of the entry that filled the old one.                            *)
LEMMA UpdateOneIds ==
    ASSUME IInv, update_one
    PROVE  IdInv'
<1> DEFINE v == Head(call.rest)
<1>1. /\ call.op = "update" /\ call.rest # <<>> /\ type = "Array" /\ ~partial
      /\ v \in Vec /\ call.rest \in Seq(Vec)
      /\ UNCHANGED <<ntotal, type, hashtable, other, nlost, partial>>
  BY UpdateOneIs
<1>2. CASE call' = Idle /\ UNCHANGED <<lists, array>>
  <2>1. ntotal \in Nat
    BY DEF IInv, IdInv, CountInv
  <2>2. ntotal' = ntotal - (IF call.op = "remove" THEN call.nremove ELSE 0)
    BY <1>1, <2>1
  <2> QED
    BY <1>1, <1>2, <2>2, EndIds
<1>3. ASSUME v.id < Len(array), v.list \in DOMAIN lists,
             call' \in UpdateCalls, call'.op = "update", call'.rest = Tail(call.rest),
             NEW l \in DOMAIN lists, NEW k \in DOMAIN lists[l], NEW moved,
             moved = IF k # Len(lists[l])
                     THEN [array EXCEPT ![lists[l][Len(lists[l])].id + 1] = lo_build(l, k - 1)]
                     ELSE array,
             array[v.id + 1] = lo_build(l, k - 1),
             lists[l][k].id = v.id,
             lists' = Appended(Cut(lists, l, k - 1), v.list, Entry(v)),
             array' = [moved EXCEPT ![v.id + 1] =
                          lo_build(v.list, Len(Cut(lists, l, k - 1)[v.list]))]
      PROVE  IdInv'
  <2> DEFINE out == Cut(lists, l, k - 1)
             n == Len(array)
             lid == lists[l][Len(lists[l])].id
             lo == lo_build(l, k - 1)
             nlo == lo_build(v.list, Len(out[v.list]))
             vid == v.id
             e == Entry(v)
  <2>1. /\ IsLists(lists) /\ Unique(lists) /\ UpdateInv /\ MergeInv /\ CountInv /\ MapInv
        /\ call.rest \in Seq(Vec)
    BY <1>1 DEF IInv, OrderInv, ShapeInv, IdInv
  <2>2. /\ array \in Seq(LO) /\ n \in Nat /\ DOMAIN array = 1 .. n
        /\ Map = [id \in 0 .. (n - 1) |-> array[id + 1]] /\ DOMAIN Map = 0 .. (n - 1)
        /\ Backward(Map, lists) /\ Forward(Map, lists)
    BY <1>1, ArrayMap
  <2>3. /\ vid \in Nat /\ vid \in 0 .. (n - 1) /\ e \in Stored /\ e.id = vid
    <3>1. v \in Vec /\ v.id < Len(array)
      BY <1>1, <1>3
    <3> HIDE DEF v
    <3>2. v.id \in Nat /\ Entry(v) \in Stored /\ Entry(v).id = v.id
      BY <3>1 DEF Vec, Entry, Stored
    <3> QED
      BY <2>2, <3>1, <3>2
  <2>4. lid \in 0 .. (n - 1) /\ lid \in Nat
    <3>1. Len(lists[l]) \in DOMAIN lists[l]
      BY <2>1, ListIsSeq
    <3>2. lid \in DOMAIN Map
      BY <2>2, <3>1 DEF Forward
    <3> QED
      BY <2>2, <3>2
  <2>5. IsLists(out) /\ DOMAIN out = DOMAIN lists /\ SizeOf(out) = SizeOf(lists) - 1
    BY <2>1, CutIs
  <2>6. Unique(out) /\ ~Holds(out, vid)
    BY <1>3, <2>1, CutUnique
  <2>7. /\ IsLists(lists') /\ DOMAIN lists' = DOMAIN lists /\ SizeOf(lists') = SizeOf(lists)
    <3>1. SizeOf(lists) \in Nat
      BY <2>1, PlacesFinite
    <3>2. v.list \in DOMAIN out /\ lists' = Appended(out, v.list, e)
      BY <1>3, <2>5
    <3> HIDE DEF out, v, e
    <3>3. /\ IsLists(lists') /\ DOMAIN lists' = DOMAIN out /\ SizeOf(lists') = SizeOf(out) + 1
      BY <2>3, <2>5, <3>2, AppendedIs
    <3> QED
      BY <2>5, <3>1, <3>3
  <2>8. Unique(lists')
    <3>1. v.list \in DOMAIN out /\ lists' = Appended(out, v.list, e)
      BY <1>3, <2>5
    <3> HIDE DEF out, v, e
    <3> QED
      BY <2>3, <2>5, <2>6, <3>1, AppendedUnique
  <2>9. lo \in LO /\ nlo \in LO /\ lo.list # -1 /\ nlo.list # -1
    <3>1. l \in Nat /\ k \in Int /\ v.list \in Nat
      BY <1>3, <2>1, ListIsSeq
    <3>2. Len(out[v.list]) \in Int
      <4>1. v.list \in DOMAIN out
        BY <1>3, <2>5
      <4> HIDE DEF out, v
      <4> QED
        BY <2>5, <4>1, ListIsSeq
    <3> HIDE DEF out, v
    <3> QED
      BY <3>1, <3>2 DEF lo_build, LO
  <2>10. /\ array' \in Seq(LO) /\ Len(array') = n /\ DOMAIN array' = 1 .. n
         /\ array'[vid + 1] = nlo
         /\ \A i \in 1 .. n : i # vid + 1 =>
               array'[i] = IF k # Len(lists[l]) /\ i = lid + 1 THEN lo ELSE array[i]
    <3>1. moved = IF k # Len(lists[l]) THEN [array EXCEPT ![lid + 1] = lo] ELSE array
      BY <1>3
    <3>2. array' = [moved EXCEPT ![vid + 1] = nlo]
      BY <1>3
    <3> HIDE DEF lid, lo, nlo, vid, n, LO
    <3>3. vid + 1 \in 1 .. n /\ lid + 1 \in 1 .. n
      <4>1. n \in Nat /\ vid \in 0 .. (n - 1) /\ lid \in 0 .. (n - 1)
        BY <2>2, <2>3, <2>4
      <4> QED
        BY <4>1
    <3>4. array \in [1 .. n -> LO]
      BY <2>2 DEF n
    <3>5. /\ moved \in [1 .. n -> LO]
          /\ \A i \in 1 .. n :
                moved[i] = IF k # Len(lists[l]) /\ i = lid + 1 THEN lo ELSE array[i]
      <4>1. CASE k # Len(lists[l])
        BY <2>9, <3>1, <3>3, <3>4, <4>1
      <4>2. CASE ~(k # Len(lists[l]))
        BY <3>1, <3>4, <4>2
      <4> QED
        BY <4>1, <4>2
    <3>6. /\ array' \in [1 .. n -> LO]
          /\ array'[vid + 1] = nlo
          /\ \A i \in 1 .. n : i # vid + 1 => array'[i] = moved[i]
      BY <2>9, <3>2, <3>3, <3>5
    <3>7. array' \in Seq(LO)
      BY <2>2, <3>6, IsASeq
    <3>8. Len(array') = n
      BY <2>2, <3>6, <3>7
    <3> QED
      BY <3>5, <3>6, <3>7, <3>8
  <2> DEFINE M == Map
             M1 == [id \in DOMAIN M \ {vid} |->
                       IF k # Len(lists[l]) /\ id = lid THEN lo ELSE M[id]]
             N == [id \in 0 .. (n - 1) |-> array'[id + 1]]
  <2>11. Map' = N
    BY <1>1, <2>10 DEF Map
  <2>12. IsMapWithout(M1, M, lists, l, k)
    <3>1. lists[l][k].id = vid
      BY <1>3
    <3> HIDE DEF M, vid
    <3> QED
      BY <3>1 DEF IsMapWithout
  <2> DEFINE Fw == Forward(M1, out)
             Bw == Backward(M1, out)
  <2>13. Fw /\ Bw
    <3> HIDE DEF M, M1
    <3>1. Forward(M, lists) /\ Backward(M, lists)
      BY <2>2 DEF M
    <3> QED
      BY <2>1, <2>12, <3>1, CutMapWithout
  <2>14. /\ DOMAIN N = DOMAIN M1 \cup {vid} /\ N[vid] = nlo
         /\ \A id \in DOMAIN M1 : id # vid => N[id] = M1[id]
    <3>1. DOMAIN M = 0 .. (n - 1) /\ \A id \in 0 .. (n - 1) : M[id] = array[id + 1]
      BY <2>2
    <3> HIDE DEF M, vid, lid, lo, nlo, n
    <3>2. DOMAIN M1 = (0 .. (n - 1)) \ {vid}
      BY <3>1
    <3>3. N[vid] = nlo
      BY <2>3, <2>10
    <3>4. ASSUME NEW id \in 0 .. (n - 1), id # vid PROVE N[id] = M1[id]
      <4>1. id + 1 \in 1 .. n /\ id + 1 # vid + 1 /\ (id + 1 = lid + 1 <=> id = lid)
        BY <2>2, <2>3, <2>4, <3>4
      <4>2. N[id] = IF k # Len(lists[l]) /\ id + 1 = lid + 1 THEN lo ELSE array[id + 1]
        BY <2>10, <4>1
      <4>3. M1[id] = IF k # Len(lists[l]) /\ id = lid THEN lo ELSE M[id]
        BY <3>1, <3>4
      <4> QED
        BY <3>1, <4>1, <4>2, <4>3
    <3> QED
      BY <2>3, <3>2, <3>3, <3>4
  <2> HIDE DEF M, M1, N
  <2>15. Backward(N, lists') /\ Forward(N, lists')
    <3>1. v.list \in DOMAIN out /\ lists' = Appended(out, v.list, e)
      BY <1>3, <2>5
    <3>2. nlo = lo_build(v.list, Len(out[v.list]))
      OBVIOUS
    <3> HIDE DEF out, v, e, vid, nlo
    <3> QED
      BY <2>3, <2>5, <2>6, <2>13, <2>14, <3>1, <3>2, AppendedMap
  <2>16. MapInv'
    <3>1. Backward(Map, lists)' /\ Forward(Map, lists)'
      <4> HIDE DEF Map
      <4> QED
        BY <2>11, <2>15 DEF Backward, Forward, IsPlaceOf
    <3>2. type' = "Array" /\ hashtable' = <<>> /\ partial' \in BOOLEAN
      BY <1>1, <2>1 DEF MapInv
    <3> HIDE DEF Map
    <3> QED
      BY <2>10, <3>1, <3>2 DEF MapInv
  <2>17. AddIdsInv' /\ RemoveInv'
    BY <1>3, NotAdding DEF RemoveInv
  <2>18. UpdateInv'
    <3>1. SUFFICES ASSUME NEW j \in DOMAIN call'.rest
                   PROVE  /\ call'.rest[j].list \in DOMAIN lists'
                          /\ call'.rest[j].id < Len(array') => array'[call'.rest[j].id + 1].list # -1
      BY <1>1 DEF UpdateInv
    <3>2. j + 1 \in DOMAIN call.rest /\ call'.rest[j] = call.rest[j + 1]
      BY <1>1, <1>3
    <3> DEFINE w == call.rest[j + 1]
    <3>3. w.list \in DOMAIN lists /\ (w.id < n => array[w.id + 1].list # -1)
      BY <1>1, <2>1, <3>2 DEF UpdateInv
    <3>4. w.id \in Nat
      <4>1. w \in Vec
        BY <1>1, <3>2
      <4> QED
        BY <4>1 DEF Vec
    <3>5. call'.rest[j] = w
      BY <3>2
    <3> HIDE DEF w
    <3>6. ASSUME w.id < n PROVE array'[w.id + 1].list # -1
      <4>1. w.id + 1 \in 1 .. n
        BY <2>2, <3>4, <3>6
      <4> HIDE DEF n, lid, lo, nlo, vid
      <4>2. \/ array'[w.id + 1] = nlo \/ array'[w.id + 1] = lo
            \/ array'[w.id + 1] = array[w.id + 1]
        BY <2>10, <4>1
      <4> QED
        BY <2>9, <3>3, <3>6, <4>2
    <3> QED
      BY <2>7, <2>10, <3>3, <3>5, <3>6
  <2>19. MergeInv'
    BY <1>1, <1>3, <2>1, OtherSame
  <2>20. CountInv'
    <3>1. Cardinality(Entering) = 0
      BY <1>1, FS_EmptySet DEF Entering
    <3>2. SizeOf(lists) \in Nat
      BY <2>1, PlacesFinite
    <3>3. /\ ntotal \in Nat /\ nlost \in Nat /\ ntotal = SizeOf(lists) + nlost
          /\ Len(array) = ntotal
      <4>1. /\ ntotal \in Nat /\ nlost \in Nat
            /\ ntotal + Cardinality(Entering) = SizeOf(lists) + nlost + 0
            /\ Len(array) = ntotal + 0
        BY <1>1, <2>1 DEF CountInv
      <4> QED
        BY <3>1, <3>2, <4>1
    <3>4. ntotal' = SizeOf(lists') + nlost' + 0 /\ Len(array') = ntotal'
      BY <1>1, <2>7, <2>10, <3>2, <3>3
    <3> QED
      BY <1>1, <1>3, <2>7, <3>2, <3>3, <3>4, CountFrom
  <2>21. Unique(lists)'
    BY <2>8 DEF Unique
  <2> QED
    BY <2>16, <2>17, <2>18, <2>19, <2>20, <2>21 DEF IdInv
<1> HIDE DEF v
<1>4. CASE ~(call' = Idle /\ UNCHANGED <<lists, array>>)
  <2>1. /\ v.id < Len(array) /\ v.list \in DOMAIN lists
        /\ call' \in UpdateCalls /\ call'.op = "update" /\ call'.rest = Tail(call.rest)
        /\ \E l \in DOMAIN lists : \E k \in DOMAIN lists[l] :
              LET es == lists[l]
                  out == Cut(lists, l, k - 1)
                  moved == IF k # Len(es)
                           THEN [array EXCEPT ![es[Len(es)].id + 1] = lo_build(l, k - 1)]
                           ELSE array
              IN  /\ array[v.id + 1] = lo_build(l, k - 1)
                  /\ lists[l][k].id = v.id
                  /\ lists' = Appended(out, v.list, Entry(v))
                  /\ array' = [moved EXCEPT ![v.id + 1] = lo_build(v.list, Len(out[v.list]))]
    BY <1>4, UpdateOneIs DEF v
  <2> QED
    BY <1>3, <2>1
<1> QED
  BY <1>2, <1>4

-----------------------------------------------------------------------------
(* Ids and counts: merging. *)

(* As many places on both sides of a bijection. *)
LEMMA SameSize ==
    ASSUME NEW S, NEW T, IsFiniteSet(S), NEW F \in [S -> T],
           \A x, y \in S : F[x] = F[y] => x = y, \A y \in T : \E x \in S : F[x] = y
    PROVE  IsFiniteSet(T) /\ Cardinality(T) = Cardinality(S)
<1>1. F \in Surjection(S, T)
  BY Fun_IsSurj
<1>2. F \in Injection(S, T)
  BY Fun_IsInj
<1> QED
  BY <1>1, <1>2, FS_Surjection

(* Two sets without a common place. *)
LEMMA TwoParts ==
    ASSUME NEW S, NEW T, IsFiniteSet(S), IsFiniteSet(T), S \cap T = {}
    PROVE  Cardinality(S \cup T) = Cardinality(S) + Cardinality(T)
<1>1. Cardinality(S \cup T) = Cardinality(S) + Cardinality(T) - Cardinality(S \cap T)
  BY FS_Union
<1>2. Cardinality(S) \in Nat /\ Cardinality(T) \in Nat
  BY FS_CardinalityType
<1>3. Cardinality(S \cap T) = 0
  BY FS_EmptySet
<1> QED
  BY <1>1, <1>2, <1>3

(* Where the places of merged lists come from. *)
LEMMA MergePlace ==
    ASSUME NEW ls, IsLists(ls), NEW ms, IsLists(ms), DOMAIN ms = DOMAIN ls, NEW a \in Nat,
           NEW l \in DOMAIN ls, NEW p \in DOMAIN MergeOf(ls, ms, a)[l]
    PROVE  \/ p \in DOMAIN ls[l] /\ MergeOf(ls, ms, a)[l][p] = ls[l][p]
           \/ \E q \in DOMAIN ms[l] : /\ p = Len(ls[l]) + q
                                      /\ MergeOf(ls, ms, a)[l][p].id = ms[l][q].id + a
<1> DEFINE new == MergeOf(ls, ms, a)
           n == Len(ls[l])
           m == Len(ms[l])
<1>1. n \in Nat /\ DOMAIN ls[l] = 1 .. n /\ m \in Nat /\ DOMAIN ms[l] = 1 .. m
  BY ListIsSeq
<1>2. IsMerge(new, ls, ms, a)
  BY MergeIs
<1> HIDE DEF new
<1>3. /\ DOMAIN new[l] = 1 .. (n + m)
      /\ \A i \in 1 .. n : new[l][i] = ls[l][i]
      /\ \A i \in 1 .. m : new[l][n + i].id = ms[l][i].id + a
  BY <1>1, <1>2 DEF IsMerge
<1> HIDE DEF n, m
<1>4. p \in 1 .. (n + m)
  BY <1>3 DEF new
<1>5. CASE p <= n
  BY <1>1, <1>3, <1>4, <1>5 DEF new
<1>6. CASE ~(p <= n)
  <2> DEFINE q == p - n
  <2>1. q \in 1 .. m /\ p = n + q
    BY <1>1, <1>4, <1>6
  <2> HIDE DEF q
  <2>2. new[l][p].id = ms[l][q].id + a
    BY <1>3, <2>1
  <2> QED
    BY <1>1, <2>1, <2>2 DEF n, new
<1> QED
  BY <1>5, <1>6

(* An id stays in one place when the ids do not collide. *)
LEMMA MergeUnique ==
    ASSUME NEW ls, IsLists(ls), NEW ms, IsLists(ms), DOMAIN ms = DOMAIN ls, NEW a \in Nat,
           Unique(ls), Unique(ms),
           \A l \in DOMAIN ms : \A p \in DOMAIN ms[l] : ~Holds(ls, ms[l][p].id + a)
    PROVE  Unique(MergeOf(ls, ms, a))
<1> DEFINE new == MergeOf(ls, ms, a)
<1>1. DOMAIN new = DOMAIN ls
  BY DEF MergeOf
<1>2. ASSUME NEW l \in DOMAIN ls, NEW p \in DOMAIN new[l]
      PROVE  \/ p \in DOMAIN ls[l] /\ new[l][p] = ls[l][p]
             \/ \E q \in DOMAIN ms[l] : p = Len(ls[l]) + q /\ new[l][p].id = ms[l][q].id + a
  BY MergePlace
<1>3. \A l \in DOMAIN ms : \A p \in DOMAIN ms[l] : ms[l][p].id \in Nat
  BY ListIsSeq DEF Stored
<1> HIDE DEF new
<1>4. SUFFICES ASSUME NEW l \in DOMAIN ls, NEW k \in DOMAIN ls,
                      NEW p \in DOMAIN new[l], NEW q \in DOMAIN new[k],
                      new[l][p].id = new[k][q].id
               PROVE  l = k /\ p = q
  BY <1>1 DEF Unique, new
<1>5. \A i \in DOMAIN ms : \A j \in DOMAIN ms[i] : \A i2 \in DOMAIN ls : \A j2 \in DOMAIN ls[i2] :
         ls[i2][j2].id # ms[i][j].id + a
  BY DEF Holds
<1>6. CASE p \in DOMAIN ls[l] /\ new[l][p] = ls[l][p]
  <2>1. q \in DOMAIN ls[k] /\ new[k][q] = ls[k][q]
    BY <1>2, <1>4, <1>5, <1>6
  <2> QED
    BY <1>4, <1>6, <2>1 DEF Unique
<1>7. ASSUME NEW i \in DOMAIN ms[l], p = Len(ls[l]) + i, new[l][p].id = ms[l][i].id + a
      PROVE  l = k /\ p = q
  <2>1. PICK j \in DOMAIN ms[k] : q = Len(ls[k]) + j /\ new[k][q].id = ms[k][j].id + a
    BY <1>2, <1>4, <1>5, <1>7
  <2>2. ms[l][i].id = ms[k][j].id
    <3>1. ms[l][i].id \in Nat /\ ms[k][j].id \in Nat
      BY <1>3
    <3>2. ms[l][i].id + a = ms[k][j].id + a
      BY <1>4, <1>7, <2>1
    <3> QED
      BY <3>1, <3>2
  <2>3. l = k /\ i = j
    BY <2>2 DEF Unique
  <2> QED
    BY <1>7, <2>1, <2>3
<1> QED
  BY <1>2, <1>6, <1>7

(* The merged lists have the places of both. *)
LEMMA MergeSize ==
    ASSUME NEW ls, IsLists(ls), NEW ms, IsLists(ms), DOMAIN ms = DOMAIN ls, NEW a \in Nat
    PROVE  SizeOf(MergeOf(ls, ms, a)) = SizeOf(ls) + SizeOf(ms)
<1> DEFINE new == MergeOf(ls, ms, a)
           F == [x \in Places(ms) |-> <<x[1], Len(ls[x[1]]) + x[2]>>]
           T == {F[x] : x \in Places(ms)}
<1>1. DOMAIN new = DOMAIN ls
  BY DEF MergeOf
<1>2. ASSUME NEW l \in DOMAIN ls
      PROVE  /\ Len(ls[l]) \in Nat /\ DOMAIN ls[l] = 1 .. Len(ls[l])
             /\ Len(ms[l]) \in Nat /\ DOMAIN ms[l] = 1 .. Len(ms[l])
             /\ DOMAIN new[l] = 1 .. (Len(ls[l]) + Len(ms[l]))
  <2>1. IsMerge(new, ls, ms, a)
    BY MergeIs
  <2> HIDE DEF new
  <2> QED
    BY <2>1, ListIsSeq DEF IsMerge
<1> HIDE DEF new
<1>3. \A l \in DOMAIN ls : \A q \in DOMAIN ms[l] :
         <<l, q>> \in Places(ms) /\ F[<<l, q>>] = <<l, Len(ls[l]) + q>>
  BY PlacesAre
<1>4. F \in [Places(ms) -> T] /\ \A y \in T : \E x \in Places(ms) : F[x] = y
  OBVIOUS
<1>5. ASSUME NEW y \in T PROVE \E l \in DOMAIN ls : \E q \in DOMAIN ms[l] : y = <<l, Len(ls[l]) + q>>
  <2>1. PICK x \in Places(ms) : y = F[x]
    OBVIOUS
  <2>i2. PICK l \in DOMAIN ls : \E q \in DOMAIN ms[l] : x = <<l, q>>
    BY PlacesAre
  <2>2. PICK q \in DOMAIN ms[l] : x = <<l, q>>
    BY <2>i2
  <2> QED
    BY <1>3, <2>1, <2>2
<1> HIDE DEF F, T
<1>6. \A x, y \in Places(ms) : F[x] = F[y] => x = y
  <2> SUFFICES ASSUME NEW x \in Places(ms), NEW y \in Places(ms), F[x] = F[y] PROVE x = y
    OBVIOUS
  <2>i1. PICK l \in DOMAIN ls : \E q \in DOMAIN ms[l] : x = <<l, q>>
    BY PlacesAre
  <2>1. PICK q \in DOMAIN ms[l] : x = <<l, q>>
    BY <2>i1
  <2>i2. PICK k \in DOMAIN ls : \E r \in DOMAIN ms[k] : y = <<k, r>>
    BY PlacesAre
  <2>2. PICK r \in DOMAIN ms[k] : y = <<k, r>>
    BY <2>i2
  <2>3. F[x] = <<l, Len(ls[l]) + q>> /\ F[y] = <<k, Len(ls[k]) + r>>
    BY <1>3, <2>1, <2>2
  <2>4. l = k /\ Len(ls[l]) + q = Len(ls[l]) + r
    <3>1. <<l, Len(ls[l]) + q>> = <<k, Len(ls[k]) + r>>
      BY <2>3
    <3>2. l = k /\ Len(ls[l]) + q = Len(ls[k]) + r
      BY <3>1
    <3> QED
      BY <3>2
  <2>5. q = r
    <3>1. q \in Nat /\ r \in Nat /\ Len(ls[l]) \in Nat
      BY <1>2, <2>4
    <3> QED
      BY <2>4, <3>1
  <2> QED
    BY <2>1, <2>2, <2>4, <2>5
<1>7. IsFiniteSet(Places(ms)) /\ IsFiniteSet(Places(ls))
  BY PlacesFinite
<1>8. IsFiniteSet(T) /\ Cardinality(T) = Cardinality(Places(ms))
  BY <1>4, <1>6, <1>7, SameSize
<1>9. Places(ls) \cap T = {}
  <2> SUFFICES ASSUME NEW y \in Places(ls), y \in T PROVE FALSE
    OBVIOUS
  <2>i1. PICK l \in DOMAIN ls : \E p \in DOMAIN ls[l] : y = <<l, p>>
    BY PlacesAre
  <2>1. PICK p \in DOMAIN ls[l] : y = <<l, p>>
    BY <2>i1
  <2>i2. PICK k \in DOMAIN ls : \E q \in DOMAIN ms[k] : y = <<k, Len(ls[k]) + q>>
    BY <1>5
  <2>2. PICK q \in DOMAIN ms[k] : y = <<k, Len(ls[k]) + q>>
    BY <2>i2
  <2>3. p = Len(ls[l]) + q /\ q \in DOMAIN ms[l]
    BY <2>1, <2>2
  <2> QED
    BY <1>2, <2>3
<1>10. Places(new) = Places(ls) \cup T
  <2>1. ASSUME NEW y \in Places(new) PROVE y \in Places(ls) \cup T
    <3>i1. PICK l \in DOMAIN ls : \E p \in DOMAIN new[l] : y = <<l, p>>
      BY <1>1, PlacesAre
    <3>1. PICK p \in DOMAIN new[l] : y = <<l, p>>
      BY <3>i1
    <3>2. CASE p \in DOMAIN ls[l]
      BY <3>1, <3>2, PlacesAre
    <3>3. CASE p \notin DOMAIN ls[l]
      <4> DEFINE q == p - Len(ls[l])
      <4>1. q \in DOMAIN ms[l] /\ p = Len(ls[l]) + q
        BY <1>2, <3>3
      <4> HIDE DEF q
      <4>2. y = F[<<l, q>>] /\ <<l, q>> \in Places(ms)
        BY <1>3, <3>1, <4>1
      <4> QED
        BY <1>4, <4>2
    <3> QED
      BY <3>2, <3>3
  <2>2. ASSUME NEW y \in Places(ls) PROVE y \in Places(new)
    <3>i1. PICK l \in DOMAIN ls : \E p \in DOMAIN ls[l] : y = <<l, p>>
      BY PlacesAre
    <3>1. PICK p \in DOMAIN ls[l] : y = <<l, p>>
      BY <3>i1
    <3>2. p \in DOMAIN new[l]
      BY <1>2
    <3> QED
      BY <1>1, <3>1, <3>2, PlacesAre
  <2>3. ASSUME NEW y \in T PROVE y \in Places(new)
    <3>i1. PICK l \in DOMAIN ls : \E q \in DOMAIN ms[l] : y = <<l, Len(ls[l]) + q>>
      BY <1>5, <2>3
    <3>1. PICK q \in DOMAIN ms[l] : y = <<l, Len(ls[l]) + q>>
      BY <3>i1
    <3>2. Len(ls[l]) + q \in DOMAIN new[l]
      BY <1>2
    <3> QED
      BY <1>1, <3>1, <3>2, PlacesAre
  <2> QED
    BY <2>1, <2>2, <2>3
<1> QED
  BY <1>7, <1>8, <1>9, <1>10, TwoParts DEF SizeOf, new

(* The other index takes part in the merge with lists whose ids and numbers  *)
(* are known.                                                                *)
LEMMA MergeFacts ==
    ASSUME IInv, NEW a \in Shifts, MayMerge(a)
    PROVE  /\ call = Idle /\ type = "NoMap" /\ a \in Nat
           /\ IsLists(lists) /\ IsLists(other.lists) /\ Unique(lists) /\ Unique(other.lists)
           /\ other.ntotal \in Nat /\ other.ntotal = SizeOf(other.lists)
           /\ ntotal \in Nat /\ nlost \in Nat /\ ntotal = SizeOf(lists) + nlost
           /\ SizeOf(lists) \in Nat /\ SizeOf(other.lists) \in Nat
           /\ \A l \in DOMAIN other.lists : \A p \in DOMAIN other.lists[l] :
                 ~Holds(lists, other.lists[l][p].id + a)
<1>1. /\ call = Idle /\ type = "NoMap" /\ other.ntotal > 0
      /\ \A e \in Entries(other.lists) : e.id + a \notin StoredIds
  BY DEF MayMerge
<1>2. /\ IsLists(lists) /\ IsLists(other.lists) /\ Unique(lists)
      /\ ntotal \in Nat /\ nlost \in Nat /\ ntotal = SizeOf(lists) + nlost
      /\ call.op = "none"
  BY <1>1, IdleFacts
<1>3. other.ntotal \in Nat /\ Unique(other.lists) /\ other.ntotal = SizeOf(other.lists)
  BY <1>1, <1>2 DEF IInv, IdInv, MergeInv
<1>4. ASSUME NEW l \in DOMAIN other.lists, NEW p \in DOMAIN other.lists[l]
      PROVE  ~Holds(lists, other.lists[l][p].id + a)
  <2>1. <<l, p>> \in Places(other.lists)
    BY PlacesAre
  <2>2. other.lists[l][p] \in Entries(other.lists)
    BY <2>1 DEF Entries
  <2> QED
    BY <1>1, <2>2, StoredHolds
<1> QED
  BY <1>1, <1>2, <1>3, <1>4, PlacesFinite, IdsAssumption

LEMMA MergeFromIds ==
    ASSUME IInv, NEW a \in Shifts, merge_from(a)
    PROVE  IdInv'
<1>1. /\ MayMerge(a) /\ DOMAIN lists = DOMAIN other.lists
      /\ lists' = MergeOf(lists, other.lists, a)
      /\ ntotal' = ntotal + other.ntotal
      /\ other' = [lists |-> [l \in DOMAIN other.lists |-> <<>>], ntotal |-> 0]
      /\ UNCHANGED <<type, array, hashtable, call, nlost, partial>>
  BY DEF merge_from, MergeOf, Emptied
<1>2. /\ call = Idle /\ type = "NoMap" /\ a \in Nat
      /\ IsLists(lists) /\ IsLists(other.lists) /\ Unique(lists) /\ Unique(other.lists)
      /\ other.ntotal \in Nat /\ other.ntotal = SizeOf(other.lists)
      /\ ntotal \in Nat /\ nlost \in Nat /\ ntotal = SizeOf(lists) + nlost
      /\ SizeOf(lists) \in Nat /\ SizeOf(other.lists) \in Nat
      /\ \A l \in DOMAIN other.lists : \A p \in DOMAIN other.lists[l] :
            ~Holds(lists, other.lists[l][p].id + a)
  BY <1>1, MergeFacts
<1>3. call'.op = "none"
  BY <1>1, <1>2 DEF Idle
<1>4. Unique(lists')
  BY <1>1, <1>2, MergeUnique
<1>5. SizeOf(lists') = SizeOf(lists) + SizeOf(other.lists)
  BY <1>1, <1>2, MergeSize
<1>6. MapInv'
  BY <1>1, <1>2 DEF IInv, IdInv, MapInv
<1>7. AddIdsInv' /\ RemoveInv' /\ UpdateInv'
  BY <1>3, NotAdding DEF RemoveInv, UpdateInv
<1>8. MergeInv'
  BY <1>1, <1>3 DEF MergeInv
<1>9. CountInv'
  <2>1. ntotal' \in Nat /\ SizeOf(lists') \in Nat /\ ntotal' = SizeOf(lists') + nlost' + 0
    BY <1>1, <1>2, <1>5
  <2> QED
    BY <1>1, <1>2, <1>3, <2>1, CountFrom
<1>10. Unique(lists)'
  BY <1>4 DEF Unique
<1> QED
  BY <1>6, <1>7, <1>8, <1>9, <1>10 DEF IdInv

LEMMA BeginConcatIds ==
    ASSUME IInv, NEW a \in Shifts, NEW flat \in BOOLEAN, BeginConcat(a, flat)
    PROVE  IdInv'
<1>1. /\ call'.op = "concat" /\ call'.new_lists = lists /\ call'.add_id = a
      /\ UNCHANGED <<lists, ntotal, type, array, hashtable, other, nadded, nlost, partial>>
      /\ MayMerge(a)
  BY BeginConcatIs DEF BeginConcat
<1>2. /\ call = Idle /\ type = "NoMap" /\ a \in Nat
      /\ IsLists(lists) /\ IsLists(other.lists) /\ Unique(lists) /\ Unique(other.lists)
      /\ other.ntotal \in Nat /\ other.ntotal = SizeOf(other.lists)
      /\ ntotal \in Nat /\ nlost \in Nat /\ ntotal = SizeOf(lists) + nlost
      /\ SizeOf(lists) \in Nat /\ SizeOf(other.lists) \in Nat
      /\ \A l \in DOMAIN other.lists : \A p \in DOMAIN other.lists[l] :
            ~Holds(lists, other.lists[l][p].id + a)
  BY <1>1, MergeFacts
<1>3. Pending' = DOMAIN other.lists
  <2> DEFINE c == Cardinality(DOMAIN lists)
  <2>1. c \in Nat /\ DOMAIN lists = 0 .. (c - 1) /\ DOMAIN other.lists \subseteq Nat
    BY <1>2, FS_CardinalityType, ListIsSeq DEF IsLists
  <2>2. Pending' = DOMAIN other.lists \ {l - c : l \in DOMAIN lists}
    BY <1>1 DEF Pending
  <2> HIDE DEF c
  <2>3. ASSUME NEW l \in DOMAIN lists PROVE l - c \notin Nat
    BY <2>1
  <2> QED
    BY <2>1, <2>2, <2>3
<1>4. PendingPlaces' = Places(other.lists)
  <2>1. PendingPlaces' = {x \in Places(other.lists) : x[1] \in Pending'}
    BY <1>1 DEF PendingPlaces, Places
  <2> QED
    BY <1>3, <2>1, PlacesAre
<1>5. MapInv'
  BY <1>1, <1>2 DEF IInv, IdInv, MapInv
<1>6. AddIdsInv' /\ RemoveInv' /\ UpdateInv'
  BY <1>1, NotAdding DEF RemoveInv, UpdateInv
<1>7. MergeInv'
  <2>1. ASSUME NEW x \in PendingPlaces' PROVE ~Holds(lists, other.lists[x[1]][x[2]].id + a)
    <3>1. PICK l \in DOMAIN other.lists : \E p \in DOMAIN other.lists[l] : x = <<l, p>>
      BY <1>4, <2>1, PlacesAre
    <3> QED
      BY <1>2, <3>1
  <2>2. SizeOf(lists) + Cardinality(PendingPlaces') = SizeOf(lists) + other.ntotal
    BY <1>2, <1>4 DEF SizeOf
  <2>3. SizeOf(call.new_lists)' = SizeOf(lists) /\ SizeOf(lists)' = SizeOf(lists)
    BY <1>1 DEF SizeOf, Places
  <2>4. Cardinality(PendingPlaces)' = Cardinality(PendingPlaces')
    OBVIOUS
  <2>5. Unique(other.lists)' /\ Unique(call.new_lists)'
    BY <1>1, <1>2 DEF Unique
  <2>6. \A x \in PendingPlaces' :
           ~Holds(call.new_lists, other.lists[x[1]][x[2]].id + call.add_id)'
    BY <1>1, <2>1 DEF Holds
  <2>7. /\ DOMAIN lists' \subseteq DOMAIN call'.new_lists
        /\ \A l \in DOMAIN lists' : call'.new_lists[l] = lists'[l]
    BY <1>1
  <2> HIDE DEF PendingPlaces
  <2> QED
    BY <1>1, <1>2, <2>2, <2>3, <2>4, <2>5, <2>6, <2>7 DEF MergeInv
<1>8. CountInv'
  <2>1. SizeOf(lists') = SizeOf(lists)
    BY <1>1 
  <2>2. ntotal' \in Nat /\ SizeOf(lists') \in Nat /\ ntotal' = SizeOf(lists') + nlost' + 0
    BY <1>1, <1>2, <2>1
  <2> QED
    BY <1>1, <1>2, <2>2, CountFrom
<1>9. Unique(lists)'
  BY <1>1, <1>2 DEF Unique
<1> QED
  BY <1>5, <1>6, <1>7, <1>8, <1>9 DEF IdInv

LEMMA ConcatEndIds ==
    ASSUME IInv, concat_end
    PROVE  IdInv'
<1>1. /\ call.op = "concat" /\ Pending = {} /\ lists' = call.new_lists /\ call' = Idle
      /\ ntotal' = ntotal + other.ntotal /\ other' = [other EXCEPT !.ntotal = 0]
      /\ UNCHANGED <<type, array, hashtable, nlost, partial>>
  BY DEF concat_end
<1>2. call'.op = "none"
  BY <1>1 DEF Idle
<1>3. /\ IsConcat(call) /\ IsLists(lists)
      /\ other = [lists |-> other.lists, ntotal |-> other.ntotal]
  BY <1>1, CallKinds DEF IInv, OrderInv, ShapeInv
<1>4. other'.ntotal = 0
  BY <1>1, <1>3
<1>5. /\ type = "NoMap" /\ other.ntotal \in Nat /\ Unique(call.new_lists)
      /\ SizeOf(call.new_lists) + Cardinality(PendingPlaces) = SizeOf(lists) + other.ntotal
  BY <1>1 DEF IInv, IdInv, MergeInv
<1>6. Cardinality(PendingPlaces) = 0
  BY <1>1, FS_EmptySet DEF PendingPlaces
<1>7. SizeOf(call.new_lists) \in Nat /\ SizeOf(lists) \in Nat
  BY <1>3, PlacesFinite DEF IsConcat
<1>8. MapInv'
  BY <1>1, <1>5 DEF IInv, IdInv, MapInv
<1>9. AddIdsInv' /\ RemoveInv' /\ UpdateInv'
  BY <1>2, NotAdding DEF RemoveInv, UpdateInv
<1>10. MergeInv'
  BY <1>2, <1>4 DEF MergeInv
<1>11. CountInv'
  <2>1. ntotal \in Nat /\ nlost \in Nat /\ ntotal + Cardinality(Entering) = SizeOf(lists) + nlost + 0
    BY <1>1 DEF IInv, IdInv, CountInv
  <2>2. Cardinality(Entering) = 0
    BY <1>1, FS_EmptySet DEF Entering
  <2>3. SizeOf(lists') = SizeOf(lists) + other.ntotal
    BY <1>1, <1>5, <1>6, <1>7
  <2>4. ntotal' \in Nat /\ SizeOf(lists') \in Nat /\ ntotal' = SizeOf(lists') + nlost' + 0
    BY <1>1, <1>5, <1>7, <2>1, <2>2, <2>3
  <2> QED
    BY <1>1, <1>2, <1>5, <2>1, <2>4, CountFrom
<1>12. Unique(lists)'
  BY <1>1, <1>5 DEF Unique
<1> QED
  BY <1>8, <1>9, <1>10, <1>11, <1>12 DEF IdInv

(* The places of one list. *)
LEMMA RowSize ==
    ASSUME NEW n, NEW m \in Nat
    PROVE  IsFiniteSet({n} \X (1 .. m)) /\ Cardinality({n} \X (1 .. m)) = m
<1>1. IsFiniteSet({n}) /\ Cardinality({n}) = 1
  BY FS_Singleton
<1>2. IsFiniteSet(1 .. m) /\ Cardinality(1 .. m) = m
  BY FS_Interval
<1>3. /\ IsFiniteSet({n} \X (1 .. m))
      /\ Cardinality({n} \X (1 .. m)) = Cardinality({n}) * Cardinality(1 .. m)
  BY <1>1, <1>2, FS_Product
<1> QED
  BY <1>1, <1>2, <1>3

(* A list of the other index behind those copied before: its ids are in one  *)
(* place, and its places are added.                                          *)
IsCopied(new, ls, n, es, a) ==
    /\ DOMAIN new = DOMAIN ls \cup {n}
    /\ \A m \in DOMAIN ls : new[m] = ls[m]
    /\ DOMAIN new[n] = DOMAIN es
    /\ \A p \in DOMAIN es : new[n][p].id = es[p].id + a

LEMMA CopiedIs ==
    ASSUME NEW ls, NEW n, n \notin DOMAIN ls, NEW es \in Seq(Stored), NEW a \in Nat
    PROVE  IsCopied(With(ls, n, Shifted(es, a)), ls, n, es, a)
<1> DEFINE t == Shifted(es, a)
<1>1. DOMAIN t = DOMAIN es /\ \A p \in DOMAIN es : t[p].id = es[p].id + a
  BY ShiftedIs
<1> HIDE DEF t
<1>2. /\ DOMAIN With(ls, n, t) = DOMAIN ls \cup {n}
      /\ \A m \in DOMAIN ls : With(ls, n, t)[m] = ls[m]
      /\ With(ls, n, t)[n] = t
  BY DEF With
<1> QED
  BY <1>1, <1>2 DEF IsCopied, t

LEMMA CopiedUnique ==
    ASSUME NEW new, NEW ls, NEW n, NEW es \in Seq(Stored), NEW a \in Nat,
           IsCopied(new, ls, n, es, a), n \notin DOMAIN ls, Unique(ls),
           \A p, q \in DOMAIN es : es[p].id = es[q].id => p = q,
           \A p \in DOMAIN es : ~Holds(ls, es[p].id + a)
    PROVE  Unique(new)
<1>1. SUFFICES ASSUME NEW l \in DOMAIN new, NEW m \in DOMAIN new,
                      NEW p \in DOMAIN new[l], NEW q \in DOMAIN new[m],
                      new[l][p].id = new[m][q].id
               PROVE  l = m /\ p = q
  BY DEF Unique
<1>2. \A i \in DOMAIN es : \A j \in DOMAIN ls : \A k \in DOMAIN ls[j] : ls[j][k].id # es[i].id + a
  BY DEF Holds
<1>3. /\ \A i \in DOMAIN ls : new[i] = ls[i]
      /\ DOMAIN new[n] = DOMAIN es
      /\ \A i \in DOMAIN es : new[n][i].id = es[i].id + a
      /\ l \in DOMAIN ls \/ l = n
      /\ m \in DOMAIN ls \/ m = n
  BY DEF IsCopied
<1>4. CASE l = n /\ m = n
  <2>1. es[p].id \in Nat /\ es[q].id \in Nat /\ p \in DOMAIN es /\ q \in DOMAIN es
    <3>1. p \in DOMAIN es /\ q \in DOMAIN es
      BY <1>3, <1>4
    <3>2. es[p] \in Stored /\ es[q] \in Stored
      BY <3>1
    <3> QED
      BY <3>1, <3>2 DEF Stored
  <2>2. es[p].id + a = es[q].id + a
    BY <1>1, <1>3, <1>4, <2>1
  <2> QED
    BY <1>4, <2>1, <2>2
<1>5. CASE l \in DOMAIN ls /\ m \in DOMAIN ls
  BY <1>1, <1>3, <1>5 DEF Unique
<1>6. CASE l = n /\ m \in DOMAIN ls
  BY <1>1, <1>2, <1>3, <1>6
<1>7. CASE l \in DOMAIN ls /\ m = n
  BY <1>1, <1>2, <1>3, <1>7
<1> QED
  BY <1>3, <1>4, <1>5, <1>6, <1>7

LEMMA CopiedSize ==
    ASSUME NEW new, NEW ls, IsLists(ls), NEW n, NEW es \in Seq(Stored), NEW a,
           IsCopied(new, ls, n, es, a), n \notin DOMAIN ls
    PROVE  SizeOf(new) = SizeOf(ls) + Len(es)
<1> DEFINE row == {n} \X DOMAIN es
<1>1. DOMAIN es = 1 .. Len(es) /\ Len(es) \in Nat
  OBVIOUS
<1>2. IsFiniteSet(row) /\ Cardinality(row) = Len(es)
  BY <1>1, RowSize
<1>3. IsFiniteSet(Places(ls))
  BY PlacesFinite
<1>4. \A y : y \in row <=> \E p \in DOMAIN es : y = <<n, p>>
  OBVIOUS
<1> HIDE DEF row
<1>5. Places(new) = Places(ls) \cup row
  <2>1. ASSUME NEW y PROVE y \in Places(new) <=> y \in Places(ls) \/ y \in row
    <3>1. y \in Places(new) <=> \E l \in DOMAIN new : \E p \in DOMAIN new[l] : y = <<l, p>>
      BY PlacesAre
    <3>2. y \in Places(ls) <=> \E l \in DOMAIN ls : \E p \in DOMAIN ls[l] : y = <<l, p>>
      BY PlacesAre
    <3> QED
      BY <1>4, <3>1, <3>2 DEF IsCopied
  <2> QED
    BY <2>1
<1>6. Places(ls) \cap row = {}
  BY <1>4, PlacesAre
<1> QED
  BY <1>2, <1>3, <1>5, <1>6, TwoParts DEF SizeOf

LEMMA ConcatListIds ==
    ASSUME IInv, NEW l \in DOMAIN other.lists, concat_list(l)
    PROVE  IdInv'
<1> DEFINE a == call.add_id
           es == other.lists[l]
           ls == call.new_lists
           new == call'.new_lists
           n == NewList(l)
           row == {l} \X DOMAIN es
<1>1. /\ call.op = "concat" /\ call'.op = "concat" /\ call'.add_id = a
      /\ new = With(ls, n, Shifted(es, a))
      /\ n \notin DOMAIN ls
      /\ IsLists(new)
      /\ l \in Pending /\ Pending' = Pending \ {l}
      /\ other'.ntotal = other.ntotal
      /\ other'.lists \in {other.lists, Without(other.lists, l)}
      /\ UNCHANGED <<lists, ntotal, type, array, hashtable, nadded, nlost, partial>>
  BY ConcatListIs
<1>2. /\ IsConcat(call) /\ IsLists(other.lists) /\ IsLists(lists)
  BY <1>1, CallKinds DEF IInv, OrderInv, ShapeInv
<1>3. IsLists(ls) /\ a \in Nat /\ es \in Seq(Stored) /\ Len(es) \in Nat /\ DOMAIN es = 1 .. Len(es)
  BY <1>2, ListIsSeq DEF IsConcat
<1>4. /\ type = "NoMap" /\ other.ntotal \in Nat
      /\ DOMAIN lists \subseteq DOMAIN ls
      /\ \A m \in DOMAIN lists : ls[m] = lists[m]
      /\ Unique(other.lists) /\ Unique(ls)
      /\ \A x \in PendingPlaces : ~Holds(ls, other.lists[x[1]][x[2]].id + a)
      /\ SizeOf(ls) + Cardinality(PendingPlaces) = SizeOf(lists) + other.ntotal
  BY <1>1 DEF IInv, IdInv, MergeInv
<1>5. IsCopied(new, ls, n, es, a)
  BY <1>1, <1>3, CopiedIs
<1> HIDE DEF n, new
<1>6. ASSUME NEW k \in Pending, NEW p \in DOMAIN other.lists[k]
      PROVE  <<k, p>> \in PendingPlaces /\ ~Holds(ls, other.lists[k][p].id + a)
  <2>1. k \in DOMAIN other.lists
    BY <1>6 DEF Pending
  <2>2. <<k, p>> \in PendingPlaces
    BY <2>1, PlacesAre DEF PendingPlaces
  <2> QED
    BY <1>4, <2>2
<1>7. Unique(new)
  <2>1. \A p, q \in DOMAIN es : es[p].id = es[q].id => p = q
    BY <1>4 DEF Unique
  <2>2. \A p \in DOMAIN es : ~Holds(ls, es[p].id + a)
    BY <1>1, <1>6
  <2> HIDE DEF es, ls, a
  <2> QED
    BY <1>1, <1>3, <1>4, <1>5, <2>1, <2>2, CopiedUnique
<1>8. SizeOf(new) = SizeOf(ls) + Len(es)
  <2> HIDE DEF es, ls, a
  <2> QED
    BY <1>1, <1>3, <1>5, CopiedSize
<1>9. /\ DOMAIN other'.lists = DOMAIN other.lists
      /\ \A k \in DOMAIN other.lists : k # l => other'.lists[k] = other.lists[k]
      /\ Unique(other'.lists)
  <2>1. CASE other'.lists = other.lists
    BY <1>4, <2>1
  <2>2. CASE other'.lists = Without(other.lists, l)
    <3>1. /\ DOMAIN other'.lists = DOMAIN other.lists
          /\ \A k \in DOMAIN other.lists : k # l => other'.lists[k] = other.lists[k]
          /\ other'.lists[l] = <<>>
      BY <1>2, <2>2 DEF Without, IsLists
    <3>2. DOMAIN <<>> = {}
      OBVIOUS
    <3> QED
      BY <1>4, <3>1, <3>2 DEF Unique
  <2> QED
    BY <1>1, <2>1, <2>2
<1>10. PendingPlaces' = PendingPlaces \ row
  <2>1. ASSUME NEW x PROVE x \in PendingPlaces' <=> x \in PendingPlaces /\ x \notin row
    <3>1. x \in PendingPlaces' <=> x \in Places(other'.lists) /\ x[1] \in Pending'
      BY DEF PendingPlaces, Places
    <3>2. x \in PendingPlaces <=> x \in Places(other.lists) /\ x[1] \in Pending
      BY DEF PendingPlaces
    <3>3. x \in Places(other'.lists) <=>
             \E k \in DOMAIN other.lists : \E p \in DOMAIN other'.lists[k] : x = <<k, p>>
      BY <1>9, PlacesAre
    <3>4. x \in Places(other.lists) <=>
             \E k \in DOMAIN other.lists : \E p \in DOMAIN other.lists[k] : x = <<k, p>>
      BY PlacesAre
    <3>5. x \in row <=> \E p \in DOMAIN es : x = <<l, p>>
      OBVIOUS
    <3> HIDE DEF row
    <3>6. ASSUME x \in PendingPlaces' PROVE x \in PendingPlaces /\ x \notin row
      <4>1. PICK k \in DOMAIN other.lists : \E p \in DOMAIN other'.lists[k] : x = <<k, p>>
        BY <3>1, <3>3, <3>6
      <4>2. PICK p \in DOMAIN other'.lists[k] : x = <<k, p>>
        BY <4>1
      <4>3. k \in Pending /\ k # l
        BY <1>1, <3>1, <3>6, <4>2
      <4>4. p \in DOMAIN other.lists[k]
        BY <1>9, <4>3
      <4> QED
        BY <3>2, <3>4, <3>5, <4>2, <4>3, <4>4
    <3>7. ASSUME x \in PendingPlaces, x \notin row PROVE x \in PendingPlaces'
      <4>1. PICK k \in DOMAIN other.lists : \E p \in DOMAIN other.lists[k] : x = <<k, p>>
        BY <3>2, <3>4, <3>7
      <4>2. PICK p \in DOMAIN other.lists[k] : x = <<k, p>>
        BY <4>1
      <4>3. k \in Pending /\ k # l
        BY <3>2, <3>5, <3>7, <4>2
      <4> QED
        BY <1>1, <1>9, <3>1, <3>3, <4>2, <4>3
    <3> QED
      BY <3>6, <3>7
  <2> HIDE DEF row
  <2> QED
    BY <2>1
<1>11. IsFiniteSet(row) /\ Cardinality(row) = Len(es) /\ row \subseteq PendingPlaces
  <2>1. IsFiniteSet(row) /\ Cardinality(row) = Len(es)
    <3> HIDE DEF es
    <3> QED
      BY <1>3, RowSize
  <2>2. row \subseteq PendingPlaces
    BY <1>1, <1>6
  <2> QED
    BY <2>1, <2>2
<1>12. IsFiniteSet(PendingPlaces)
  <2>1. IsFiniteSet(Places(other.lists))
    BY <1>2, PlacesFinite
  <2>2. PendingPlaces \in SUBSET Places(other.lists)
    BY DEF PendingPlaces
  <2> QED
    BY <2>1, <2>2, FS_Subset
<1>13. Cardinality(PendingPlaces') \in Nat
       /\ Cardinality(PendingPlaces) = Cardinality(PendingPlaces') + Len(es)
  <2> DEFINE rest == PendingPlaces'
  <2>1. /\ rest = PendingPlaces \ row /\ IsFiniteSet(row) /\ Cardinality(row) = Len(es)
        /\ row \subseteq PendingPlaces
    BY <1>10, <1>11
  <2> HIDE DEF rest, row
  <2>2. rest \in SUBSET PendingPlaces /\ rest \cap row = {} /\ rest \cup row = PendingPlaces
    BY <2>1
  <2>3. IsFiniteSet(rest)
    BY <1>12, <2>2, FS_Subset
  <2>4. Cardinality(PendingPlaces) = Cardinality(rest) + Cardinality(row)
    BY <2>1, <2>2, <2>3, TwoParts
  <2> QED
    BY <2>1, <2>3, <2>4, FS_CardinalityType DEF rest
<1>14. ASSUME NEW x \in PendingPlaces'
       PROVE  ~Holds(new, other'.lists[x[1]][x[2]].id + a)
  <2>1. x \in PendingPlaces /\ x \notin row
    BY <1>10, <1>14
  <2>2. PICK k \in DOMAIN other.lists : \E p \in DOMAIN other.lists[k] : x = <<k, p>>
    BY <2>1, PlacesAre DEF PendingPlaces
  <2>3. PICK p \in DOMAIN other.lists[k] : x = <<k, p>>
    BY <2>2
  <2>4. k \in Pending /\ k # l
    <3>1. k \in Pending
      BY <2>1, <2>3 DEF PendingPlaces
    <3>2. <<l, p>> \in row <=> p \in DOMAIN es
      OBVIOUS
    <3> QED
      BY <2>1, <2>3, <3>1, <3>2
  <2>5. other'.lists[x[1]][x[2]] = other.lists[k][p]
    BY <1>9, <2>3, <2>4
  <2>6. ~Holds(ls, other.lists[k][p].id + a)
    BY <1>6, <2>4
  <2>7. \A q \in DOMAIN es : es[q].id + a # other.lists[k][p].id + a
    <3> SUFFICES ASSUME NEW q \in DOMAIN es, es[q].id + a = other.lists[k][p].id + a PROVE FALSE
      OBVIOUS
    <3>1. es[q].id \in Nat /\ other.lists[k][p].id \in Nat
      BY <1>2, ListIsSeq DEF Stored
    <3>2. es[q].id = other.lists[k][p].id
      BY <1>3, <3>1
    <3> QED
      BY <1>4, <2>4, <3>2 DEF Unique
  <2> HIDE DEF es, ls, a
  <2> QED
    BY <1>5, <2>5, <2>6, <2>7 DEF Holds, IsCopied
<1> HIDE DEF row
<1>15. MapInv'
  BY <1>1, <1>4 DEF IInv, IdInv, MapInv
<1>16. AddIdsInv' /\ RemoveInv' /\ UpdateInv'
  BY <1>1, NotAdding DEF RemoveInv, UpdateInv
<1>17. MergeInv'
  <2>1. /\ DOMAIN lists' \subseteq DOMAIN new
        /\ \A m \in DOMAIN lists' : new[m] = lists'[m]
    BY <1>1, <1>4, <1>5 DEF IsCopied
  <2>2. SizeOf(ls) \in Nat
    BY <1>3, PlacesFinite
  <2>3. SizeOf(new) + Cardinality(PendingPlaces') = SizeOf(lists) + other.ntotal
    BY <1>3, <1>4, <1>8, <1>13, <2>2
  <2>4. SizeOf(call.new_lists)' = SizeOf(new) /\ SizeOf(lists)' = SizeOf(lists)
    BY <1>1 DEF SizeOf, Places, new
  <2>5. Unique(other.lists)' /\ Unique(call.new_lists)'
    BY <1>7, <1>9 DEF Unique, new
  <2>6. \A x \in PendingPlaces' :
           ~Holds(call.new_lists, other.lists[x[1]][x[2]].id + call.add_id)'
    BY <1>1, <1>14 DEF Holds, new
  <2>7. Cardinality(PendingPlaces)' = Cardinality(PendingPlaces')
    OBVIOUS
  <2> HIDE DEF PendingPlaces, a, es, ls
  <2> QED
    BY <1>1, <1>4, <2>1, <2>3, <2>4, <2>5, <2>6, <2>7 DEF MergeInv, new
<1>18. CountInv'
  <2>1. ntotal \in Nat /\ nlost \in Nat /\ ntotal + Cardinality(Entering) = SizeOf(lists) + nlost + 0
    BY <1>1 DEF IInv, IdInv, CountInv
  <2>2. Cardinality(Entering) = 0
    BY <1>1, FS_EmptySet DEF Entering
  <2>3. SizeOf(lists) \in Nat /\ SizeOf(lists') = SizeOf(lists)
    BY <1>1, <1>2, PlacesFinite
  <2>4. ntotal' = SizeOf(lists') + nlost' + 0
    BY <1>1, <2>1, <2>2, <2>3
  <2> QED
    BY <1>1, <1>4, <2>1, <2>3, <2>4, CountFrom
<1>19. Unique(lists)'
  BY <1>1 DEF IInv, IdInv, Unique
<1> QED
  BY <1>15, <1>16, <1>17, <1>18, <1>19 DEF IdInv

-----------------------------------------------------------------------------
(* The invariant holds. *)

LEMMA InitIInv ==
    ASSUME Init
    PROVE  IInv
<1>1. /\ lists = [l \in 0 .. (NList - 1) |-> <<>>]
      /\ ntotal = 0 /\ type = "NoMap" /\ array = <<>> /\ hashtable = <<>>
      /\ call = Idle /\ nadded = 0 /\ nlost = 0 /\ partial = FALSE
  BY DEF Init
<1>2. PICK s \in Sources : other = [lists |-> s, ntotal |-> SizeOf(s)]
  BY DEF Init
<1>3. /\ IsFiniteSet(DOMAIN s) /\ DOMAIN s = 0 .. (Cardinality(DOMAIN s) - 1)
      /\ s \in [DOMAIN s -> Seq([id : Nat, code : Nat])]
      /\ \A x, y \in Places(s) : s[x[1]][x[2]].id = s[y[1]][y[2]].id => x = y
      /\ \A e \in Entries(s) : e.code > MaxAdded
  BY SourcesAssumption
<1>4. call.op = "none"
  BY <1>1 DEF Idle
<1>5. DOMAIN lists = 0 .. (NList - 1) /\ \A l \in DOMAIN lists : lists[l] = <<>>
  BY <1>1
<1>6. IsLists(lists)
  <2>1. IsFiniteSet(0 .. (NList - 1)) /\ Cardinality(0 .. (NList - 1)) = NList
    BY NListAssumption, FS_Interval
  <2>2. <<>> \in Seq(Stored)
    OBVIOUS
  <2>3. lists \in [DOMAIN lists -> Seq(Stored)]
    BY <1>1, <2>2
  <2> QED
    BY <1>5, <2>1, <2>3 DEF IsLists
<1>7. IsLists(s)
  BY <1>3 DEF IsLists, Stored
<1>8. DOMAIN <<>> = {}
  OBVIOUS
<1>9. ASSUME NEW l \in DOMAIN s, NEW p \in DOMAIN s[l]
      PROVE  <<l, p>> \in Places(s) /\ s[l][p].code > MaxAdded
  <2>1. <<l, p>> \in Places(s)
    BY PlacesAre
  <2>2. s[l][p] \in Entries(s)
    BY <2>1 DEF Entries
  <2> QED
    BY <1>3, <2>1, <2>2
<1>10. Unique(s)
  <2> SUFFICES ASSUME NEW l \in DOMAIN s, NEW m \in DOMAIN s,
                      NEW p \in DOMAIN s[l], NEW q \in DOMAIN s[m], s[l][p].id = s[m][q].id
               PROVE  l = m /\ p = q
    BY DEF Unique
  <2>1. <<l, p>> \in Places(s) /\ <<m, q>> \in Places(s)
    BY <1>9
  <2>2. <<l, p>> = <<m, q>>
    BY <1>3, <2>1
  <2> QED
    BY <2>2
<1>11. OrderInv
  <2>1. ShapeInv
    <3>1. nadded \in 0 .. MaxAdded
      BY <1>1, BoundsAssumption
    <3> QED
      BY <1>1, <1>2, <1>6, <1>7, <3>1 DEF ShapeInv, CallInv
  <2>2. Old(other.lists, 0) /\ Old(lists, nadded)
    BY <1>2, <1>5, <1>8, <1>9 DEF Old
  <2>3. CodeInv
    BY <1>4, <2>2 DEF CodeInv
  <2> QED
    BY <1>4, <2>1, <2>3 DEF OrderInv, TodoInv, BatchInv
<1>12. IdInv
  <2>1. Unique(lists)
    BY <1>5, <1>8 DEF Unique
  <2>2. MapInv
    <3>1. <<>> \in Seq(LO)
      OBVIOUS
    <3> HIDE DEF LO
    <3> QED
      BY <1>1, <3>1 DEF MapInv
  <2>3. AddIdsInv /\ RemoveInv /\ UpdateInv
    BY <1>4 DEF AddIdsInv, RemoveInv, UpdateInv
  <2>4. MergeInv
    <3>1. SizeOf(s) \in Nat
      BY <1>7, PlacesFinite
    <3> QED
      BY <1>2, <1>4, <1>10, <3>1 DEF MergeInv
  <2>5. CountInv
    <3>1. Places(lists) = {}
      BY <1>5, <1>8, PlacesAre
    <3>2. SizeOf(lists) = 0
      BY <3>1, FS_EmptySet DEF SizeOf
    <3>3. Cardinality(Entering) = 0
      BY <1>4, FS_EmptySet DEF Entering
    <3> QED
      BY <1>1, <1>4, <3>2, <3>3 DEF CountInv
  <2> QED
    BY <2>1, <2>2, <2>3, <2>4, <2>5 DEF IdInv
<1> QED
  BY <1>11, <1>12 DEF IInv

LEMMA NextIInv ==
    ASSUME Careful, IInv, [Next]_vars
    PROVE  IInv'
<1>1. ASSUME NEW ids \in SeqsUpTo(Ids, MaxBatch),
             NEW ls \in [DOMAIN ids -> DOMAIN lists \cup {-1}], add_with_ids(ids, ls)
      PROVE  IInv'
  BY <1>1, AddWithIdsOrder, AddWithIdsIds DEF IInv
<1>2. ASSUME NEW ids \in SeqsUpTo(Ids, MaxBatch),
             NEW ls \in [DOMAIN ids -> DOMAIN lists \cup {-1}], update_vectors(ids, ls)
      PROVE  IInv'
  BY <1>2, UpdateVectorsOrder, UpdateVectorsIds DEF IInv
<1>3. ASSUME NEW ids \in SeqsUpTo(Ids, MaxBatch), remove_ids(ids)
      PROVE  IInv'
  BY <1>3, RemoveIdsOrder, RemoveIdsIds DEF IInv
<1>4. ASSUME NEW r \in Ranks, add_one(r)
      PROVE  IInv'
  <2>1. OrderInv
    BY DEF IInv
  <2> QED
    BY <1>4, <2>1, AddOneOrder, AddOneIds DEF IInv
<1>5. CASE add_end
  <2>1. OrderInv
    BY DEF IInv
  <2> QED
    BY <1>5, <2>1, AddEndOrder, AddEndIds DEF IInv
<1>6. ASSUME NEW t \in Types, set_type(t)
      PROVE  IInv'
  BY <1>6, SetTypeOrder, SetTypeIds DEF IInv
<1>7. CASE reset
  BY <1>7, ResetOrder, ResetIds DEF IInv
<1>8. CASE scan
  BY <1>8, ScanOrder, ScanIds DEF IInv
<1>9. CASE remove_next
  BY <1>9, RemoveNextOrder, RemoveNextIds DEF IInv
<1>10. CASE remove_end
  BY <1>10, RemoveEndOrder, RemoveEndIds DEF IInv
<1>11. CASE update_one
  BY <1>11, UpdateOneOrder, UpdateOneIds DEF IInv
<1>12. CASE update_end
  BY <1>12, UpdateEndOrder, UpdateEndIds DEF IInv
<1>13. ASSUME NEW a \in Shifts, merge_from(a)
       PROVE  IInv'
  BY <1>13, MergeFromOrder, MergeFromIds DEF IInv
<1>14. ASSUME NEW a \in Shifts, ivfflat_concat_merge(a)
       PROVE  IInv'
  <2>1. BeginConcat(a, TRUE)
    BY <1>14 DEF ivfflat_concat_merge
  <2> QED
    BY <2>1, BeginConcatOrder, BeginConcatIds DEF IInv
<1>15. ASSUME NEW a \in Shifts, ivfpq_concat_merge(a)
       PROVE  IInv'
  <2>1. BeginConcat(a, FALSE)
    BY <1>15 DEF ivfpq_concat_merge
  <2> QED
    BY <2>1, BeginConcatOrder, BeginConcatIds DEF IInv
<1>16. ASSUME NEW l \in DOMAIN other.lists, concat_list(l)
       PROVE  IInv'
  BY <1>16, ConcatListOrder, ConcatListIds DEF IInv
<1>17. CASE concat_end
  BY <1>17, ConcatEndOrder, ConcatEndIds DEF IInv
<1>18. CASE UNCHANGED vars
  <2>1. UNCHANGED <<lists, ntotal, type, array, hashtable, call, other, nadded, nlost, partial>>
    BY <1>18 DEF vars
  <2>2. OrderInv'
    BY <2>1 DEF IInv, OrderInv, ShapeInv, CallInv, Numbered, InRange, CodeInv, TodoInv, Old,
                BatchInv, IsInOrder, IsEntered
  <2>3. Unique(lists)' /\ MergeInv' /\ CountInv'
    BY <2>1 DEF IInv, IdInv, Unique, MergeInv, CountInv, SizeOf, Places, Holds, PendingPlaces,
                Pending, Entering, Todo
  <2>4. MapInv'
    <3>1. Map' = Map
      BY <2>1 DEF Map, Entered
    <3>2. MapInv
      BY DEF IInv, IdInv
    <3>3. \A M : (Backward(M, lists') <=> Backward(M, lists)) /\ (Forward(M, lists') <=> Forward(M, lists))
      BY <2>1
    <3> HIDE DEF Map
    <3> QED
      BY <2>1, <3>1, <3>2, <3>3 DEF MapInv, Backward, Forward, IsPlaceOf
  <2>5. AddIdsInv'
    <3>1. Todo' = Todo
      BY <2>1 DEF Todo
    <3>2. AddIdsInv
      BY DEF IInv, IdInv
    <3> QED
      BY <2>1, <3>1, <3>2 DEF AddIdsInv, Holds
  <2>6. RemoveInv'
    <3>1. RemoveInv
      BY DEF IInv, IdInv
    <3>2. type' = type /\ call' = call /\ hashtable' = hashtable /\ lists' = lists
      BY <2>1
    <3> QED
      BY <3>1, <3>2, ZenonT(30) DEF RemoveInv, Holds
  <2>7. UpdateInv'
    <3>1. UpdateInv
      BY DEF IInv, IdInv
    <3> QED
      BY <2>1, <3>1 DEF UpdateInv
  <2> QED
    BY <2>2, <2>3, <2>4, <2>5, <2>6, <2>7 DEF IInv, IdInv
<1> QED
  BY <1>1, <1>2, <1>3, <1>4, <1>5, <1>6, <1>7, <1>8, <1>9, <1>10, <1>11, <1>12, <1>13, <1>14,
     <1>15, <1>16, <1>17, <1>18 DEF Next

-----------------------------------------------------------------------------
(* What the invariant says of the properties. *)

LEMMA PlaceIsLO ==
    ASSUME NEW ls, NEW lo, NEW id, lo \in {Unassigned, NoEntry} \/ IsPlaceOf(lo, ls, id)
    PROVE  lo \in LOs(ls)
<1>1. CASE lo \in {Unassigned, NoEntry}
  BY <1>1 DEF LOs
<1>2. CASE IsPlaceOf(lo, ls, id)
  <2>1. PICK l \in DOMAIN ls : \E p \in DOMAIN ls[l] : lo = lo_build(l, p - 1)
    BY <1>2 DEF IsPlaceOf
  <2>2. PICK p \in DOMAIN ls[l] : lo = lo_build(l, p - 1)
    BY <2>1
  <2>3. <<l, p>> \in Places(ls) /\ lo = lo_build(<<l, p>>[1], <<l, p>>[2] - 1)
    BY <2>2, PlacesAre
  <2> QED
    BY <2>3 DEF LOs
<1> QED
  BY <1>1, <1>2

LEMMA TypeFrom ==
    ASSUME IInv
    PROVE  TypeOK
<1>1. \A e \in Entries(lists) : e.id \in Nat /\ e.code \in Nat
  <2> SUFFICES ASSUME NEW e \in Entries(lists) PROVE e.id \in Nat /\ e.code \in Nat
    OBVIOUS
  <2>1. PICK x \in Places(lists) : e = lists[x[1]][x[2]]
    BY DEF Entries
  <2>2. PICK l \in DOMAIN lists : \E p \in DOMAIN lists[l] : x = <<l, p>>
    BY PlacesAre
  <2>3. IsLists(lists)
    BY DEF IInv, OrderInv, ShapeInv
  <2>4. e \in Stored
    BY <2>1, <2>2, <2>3, ListIsSeq
  <2> QED
    BY <2>4 DEF Stored
<1>2. ntotal \in Nat /\ nlost \in Nat
  BY DEF IInv, IdInv, CountInv
<1>3. type \in {"NoMap", "Array", "Hashtable"}
  BY DEF IInv, IdInv, MapInv
<1>4. \A k \in DOMAIN array : array[k] \in LOs(lists)
  <2> SUFFICES ASSUME NEW k \in DOMAIN array PROVE array[k] \in LOs(lists)
    OBVIOUS
  <2>1. CASE type = "Array"
    <3>1. Map = [id \in 0 .. (Len(array) - 1) |-> array[id + 1]]
      BY <2>1 DEF Map
    <3>2. Backward(Map, lists) /\ array \in Seq(LO)
      BY <2>1 DEF IInv, IdInv, MapInv
    <3>3. Len(array) \in Nat /\ k \in 1 .. Len(array)
      BY <3>2
    <3> DEFINE id == k - 1
    <3>4. id \in 0 .. (Len(array) - 1) /\ id + 1 = k
      BY <3>3
    <3> HIDE DEF id
    <3>5. id \in DOMAIN Map /\ Map[id] = array[k]
      BY <3>1, <3>4
    <3>6. array[k] \in {Unassigned, NoEntry} \/ IsPlaceOf(array[k], lists, id)
      BY <3>2, <3>5 DEF Backward
    <3> QED
      BY <3>6, PlaceIsLO
  <2>2. CASE type # "Array"
    <3>1. array = <<>>
      BY <2>2 DEF IInv, IdInv, MapInv
    <3> QED
      BY <3>1
  <2> QED
    BY <2>1, <2>2
<1>5. \A id \in DOMAIN hashtable : hashtable[id] \in LOs(lists)
  <2> SUFFICES ASSUME NEW id \in DOMAIN hashtable PROVE hashtable[id] \in LOs(lists)
    OBVIOUS
  <2>1. CASE type = "Hashtable"
    <3>1. Backward(hashtable, lists)
      BY <2>1 DEF IInv, IdInv, MapInv
    <3>2. hashtable[id] \in {Unassigned, NoEntry} \/ IsPlaceOf(hashtable[id], lists, id)
      BY <3>1 DEF Backward
    <3> QED
      BY <3>2, PlaceIsLO
  <2>2. CASE type # "Hashtable"
    <3>1. hashtable = <<>>
      BY <2>2 DEF IInv, IdInv, MapInv
    <3> QED
      BY <3>1
  <2> QED
    BY <2>1, <2>2
<1>6. nadded \in 0 .. MaxAdded /\ CallInv
  BY DEF IInv, OrderInv, ShapeInv
<1>7. call.op \in {"none", "add", "scan", "remove", "update", "concat"}
  BY <1>6, CallKinds
<1> QED
  BY <1>1, <1>2, <1>3, <1>4, <1>5, <1>6, <1>7 DEF TypeOK

LEMMA MapFrom ==
    ASSUME IInv
    PROVE  MapAgrees
<1> SUFFICES ASSUME type # "NoMap"
             PROVE  /\ ~partial => \A x \in Places(lists) :
                                      Recorded(IdAt(x)) = lo_build(x[1], x[2] - 1)
                    /\ \A id \in Ids :
                          LET lo == Recorded(id)
                          IN  lo.list # -1 => /\ <<lo.list, lo.ofs + 1>> \in Places(lists)
                                              /\ IdAt(<<lo.list, lo.ofs + 1>>) = id
  BY DEF MapAgrees
<1>1. Backward(Map, lists) /\ (~partial => Forward(Map, lists)) /\ IsLists(lists)
  BY DEF IInv, IdInv, MapInv, OrderInv, ShapeInv
<1> HIDE DEF Map
<1>2. ASSUME ~partial, NEW x \in Places(lists)
      PROVE  Recorded(IdAt(x)) = lo_build(x[1], x[2] - 1)
  <2>1. PICK l \in DOMAIN lists : \E p \in DOMAIN lists[l] : x = <<l, p>>
    BY PlacesAre
  <2>2. PICK p \in DOMAIN lists[l] : x = <<l, p>>
    BY <2>1
  <2>3. lists[l][p].id \in DOMAIN Map /\ Map[lists[l][p].id] = lo_build(l, p - 1)
    BY <1>1, <1>2 DEF Forward
  <2>4. IdAt(x) = lists[l][p].id /\ x[1] = l /\ x[2] = p
    BY <2>2 DEF IdAt
  <2> QED
    BY <2>3, <2>4 DEF Recorded
<1>3. ASSUME NEW id \in Ids, Recorded(id).list # -1
      PROVE  /\ <<Recorded(id).list, Recorded(id).ofs + 1>> \in Places(lists)
             /\ IdAt(<<Recorded(id).list, Recorded(id).ofs + 1>>) = id
  <2> DEFINE lo == Recorded(id)
  <2>1. Unassigned.list = -1 /\ NoEntry.list = -1
    BY DEF Unassigned, NoEntry, lo_build
  <2>2. id \in DOMAIN Map /\ lo = Map[id]
    BY <1>3, <2>1 DEF Recorded
  <2>3. IsPlaceOf(lo, lists, id)
    BY <1>1, <1>3, <2>1, <2>2 DEF Backward
  <2> HIDE DEF lo
  <2>4. PICK l \in DOMAIN lists :
           \E p \in DOMAIN lists[l] : lo = lo_build(l, p - 1) /\ lists[l][p].id = id
    BY <2>3 DEF IsPlaceOf
  <2>5. PICK p \in DOMAIN lists[l] : lo = lo_build(l, p - 1) /\ lists[l][p].id = id
    BY <2>4
  <2>6. p \in Nat
    BY <1>1, ListIsSeq
  <2>7. lo.list = l /\ lo.ofs + 1 = p
    BY <2>5, <2>6 DEF lo_build
  <2>8. <<l, p>> \in Places(lists) /\ IdAt(<<l, p>>) = id
    BY <2>5, PlacesAre DEF IdAt
  <2> QED
    BY <2>7, <2>8 DEF lo
<1> QED
  BY <1>2, <1>3

LEMMA CountFromInv ==
    ASSUME IInv
    PROVE  CountAgrees
BY IdleFacts DEF CountAgrees

LEMMA OrderFrom ==
    ASSUME IInv
    PROVE  BatchOrderKept
<1> DEFINE batch == {call.vecs[i].code : i \in DOMAIN call.vecs}
<1> SUFFICES ASSUME call.op = "add", NEW x \in Places(lists), NEW y \in Places(lists),
                    lists[x[1]][x[2]].code \in batch, lists[y[1]][y[2]].code \in batch,
                    x[1] = y[1], x[2] < y[2]
             PROVE  lists[x[1]][x[2]].code < lists[y[1]][y[2]].code
  BY DEF BatchOrderKept
<1>1. PICK l \in DOMAIN lists : \E p \in DOMAIN lists[l] : x = <<l, p>>
  BY PlacesAre
<1>2. PICK p \in DOMAIN lists[l] : x = <<l, p>>
  BY <1>1
<1>3. PICK m \in DOMAIN lists : \E q \in DOMAIN lists[m] : y = <<m, q>>
  BY PlacesAre
<1>4. PICK q \in DOMAIN lists[m] : y = <<m, q>>
  BY <1>3
<1>5. m = l /\ p < q
  BY <1>2, <1>4
<1>6. lists[l][p].code \in batch /\ lists[l][q].code \in batch
  BY <1>2, <1>4, <1>5
<1>7. /\ IsLists(lists) /\ call \in AddCalls /\ Numbered(call.vecs)
      /\ nadded \in 0 .. MaxAdded /\ nadded \in Nat /\ MaxAdded \in Nat
      /\ IsInOrder(l, p)
  <2>1. ShapeInv /\ BatchInv
    BY DEF IInv, OrderInv
  <2> QED
    BY <2>1, CallKinds, BoundsAssumption DEF ShapeInv, BatchInv
<1>8. call.vecs \in Seq(Vec)
  BY <1>7 DEF AddCalls
<1> DEFINE n == Len(call.vecs)
<1>9. n \in Nat /\ DOMAIN call.vecs = 1 .. n
  <2> HIDE DEF Vec
  <2> QED
    BY <1>8
<1> HIDE DEF n
<1>10. \A c \in batch : c > nadded - n /\ c <= nadded
  <2>1. \A i \in 1 .. n : call.vecs[i].code = nadded - n + i
    BY <1>7, <1>9 DEF Numbered, n
  <2>2. \A i \in 1 .. n : call.vecs[i].code > nadded - n /\ call.vecs[i].code <= nadded
    <3> SUFFICES ASSUME NEW i \in 1 .. n
                 PROVE  call.vecs[i].code > nadded - n /\ call.vecs[i].code <= nadded
      OBVIOUS
    <3> DEFINE k == call.vecs[i].code
    <3>1. k = nadded - n + i /\ i \in Nat /\ 1 <= i /\ i <= n
      BY <1>9, <2>1
    <3> HIDE DEF k
    <3>2. k > nadded - n /\ k <= nadded
      BY <1>7, <1>9, <3>1
    <3> QED
      BY <3>2 DEF k
  <2> QED
    BY <1>9, <2>2
<1> HIDE DEF batch
<1>11. /\ lists[l][p].code > nadded - n /\ lists[l][p].code <= nadded
       /\ lists[l][q].code <= nadded
  BY <1>6, <1>10
<1>12. lists[l][p].code \in Nat /\ lists[l][q].code \in Nat
  <2>1. lists[l][p] \in Stored /\ lists[l][q] \in Stored
    BY <1>5, <1>7, ListIsSeq
  <2> QED
    BY <2>1 DEF Stored
<1>13. q \in p + 1 .. Len(lists[l])
  <2>1. DOMAIN lists[l] = 1 .. Len(lists[l]) /\ Len(lists[l]) \in Nat
    BY <1>7, ListIsSeq
  <2> QED
    BY <1>5, <2>1
<1>14. ~(lists[l][p].code <= nadded - n) /\ ~(lists[l][p].code > MaxAdded)
       /\ lists[l][q].code <= MaxAdded
  BY <1>7, <1>9, <1>11, <1>12
<1>15. lists[l][p].code < lists[l][q].code
  BY <1>7, <1>13, <1>14 DEF IsInOrder, n
<1> QED
  BY <1>2, <1>4, <1>5, <1>15

-----------------------------------------------------------------------------
(* The theorems, for callers that leave vectors without a list alone: others *)
(* take the list number -1 to the inverted lists, see ListNoInRange.         *)

(* The invariant is one of every behaviour. *)
THEOREM Invariance ==
    ASSUME Careful
    PROVE  Spec => []IInv
<1>1. Init => IInv
  BY InitIInv
<1>2. IInv /\ [Next]_vars => IInv'
  BY NextIInv
<1> QED
  BY <1>1, <1>2, PTL DEF Spec

(* Entries of the direct map are places in the lists, and the count of an    *)
(* index does not wrap, whatever is added, removed, updated and merged.      *)
THEOREM TypeCorrect ==
    ASSUME Careful
    PROVE  Spec => []TypeOK
<1>1. IInv => TypeOK
  BY TypeFrom
<1> QED
  BY <1>1, Invariance, PTL

(* DirectMap and inverted lists agree between any two steps of the loops of  *)
(* add_core, remove_ids and update_vectors, for any number of threads.       *)
THEOREM MapCorrect ==
    ASSUME Careful
    PROVE  Spec => []MapAgrees
<1>1. IInv => MapAgrees
  BY MapFrom
<1> QED
  BY <1>1, Invariance, PTL

(* Between calls ntotal counts the vectors, those of failed updates and of   *)
(* merges included.                                                          *)
THEOREM CountCorrect ==
    ASSUME Careful
    PROVE  Spec => []CountAgrees
<1>1. IInv => CountAgrees
  BY CountFromInv
<1> QED
  BY <1>1, Invariance, PTL

(* The threads of add_core keep the order of a batch in every list.          *)
THEOREM OrderCorrect ==
    ASSUME Careful
    PROVE  Spec => []BatchOrderKept
<1>1. IInv => BatchOrderKept
  BY OrderFrom
<1> QED
  BY <1>1, Invariance, PTL

-------------------------------------------------------------------------------
(* The dictionary.  The entries of the lists, as a set, are all that         *)
(* IdStore sees of them: moving an entry changes nothing, and every step of *)
(* a call is an insert, a replacement, an erasure, a merge, or nothing.     *)

(* The entries of lists, by position. *)
LEMMA EntriesAre ==
    ASSUME NEW ls
    PROVE  \A e : e \in Entries(ls) <=> \E l \in DOMAIN ls : \E p \in DOMAIN ls[l] : e = ls[l][p]
<1> SUFFICES ASSUME NEW e
             PROVE  e \in Entries(ls) <=> \E l \in DOMAIN ls : \E p \in DOMAIN ls[l] : e = ls[l][p]
  OBVIOUS
<1>1. ASSUME e \in Entries(ls)
      PROVE  \E l \in DOMAIN ls : \E p \in DOMAIN ls[l] : e = ls[l][p]
  <2>1. PICK x \in Places(ls) : e = ls[x[1]][x[2]]
    BY <1>1 DEF Entries
  <2>2. PICK l \in DOMAIN ls : \E p \in DOMAIN ls[l] : x = <<l, p>>
    BY PlacesAre
  <2> QED
    BY <2>1, <2>2
<1>2. ASSUME NEW l \in DOMAIN ls, NEW p \in DOMAIN ls[l], e = ls[l][p]
      PROVE  e \in Entries(ls)
  <2>1. <<l, p>> \in Places(ls)
    BY PlacesAre
  <2> QED
    BY <1>2, <2>1 DEF Entries
<1> QED
  BY <1>1, <1>2

(* An id names one entry. *)
OneOfEachId(E) == \A e, f \in E : e.id = f.id => e = f

LEMMA EntriesOnce ==
    ASSUME NEW ls, IsLists(ls), Unique(ls)
    PROVE  OneOfEachId(Entries(ls)) /\ \A e \in Entries(ls) : e \in Stored
<1>1. ASSUME NEW e \in Entries(ls), NEW f \in Entries(ls), e.id = f.id PROVE e = f
  <2>1. PICK l \in DOMAIN ls : \E p \in DOMAIN ls[l] : e = ls[l][p]
    BY EntriesAre
  <2>2. PICK m \in DOMAIN ls : \E q \in DOMAIN ls[m] : f = ls[m][q]
    BY EntriesAre
  <2> QED
    BY <1>1, <2>1, <2>2 DEF Unique
<1>2. \A e \in Entries(ls) : e \in Stored
  BY EntriesAre, ListIsSeq
<1> QED
  BY <1>1, <1>2 DEF OneOfEachId

LEMMA EntryHolds ==
    ASSUME NEW ls, NEW id
    PROVE  Holds(ls, id) <=> \E e \in Entries(ls) : e.id = id
<1>1. Holds(ls, id) => \E e \in Entries(ls) : e.id = id
  BY EntriesAre DEF Holds
<1>2. (\E e \in Entries(ls) : e.id = id) => Holds(ls, id)
  BY EntriesAre DEF Holds
<1> QED
  BY <1>1, <1>2

(* Appending adds an entry. *)
LEMMA AppendedEntries ==
    ASSUME NEW ls, IsLists(ls), NEW l \in DOMAIN ls, NEW e \in Stored
    PROVE  Entries(Appended(ls, l, e)) = Entries(ls) \cup {e}
<1> DEFINE new == Appended(ls, l, e)
           last == Len(ls[l])
<1>1. last \in Nat /\ DOMAIN ls[l] = 1 .. last
  BY ListIsSeq
<1>2. /\ DOMAIN new = DOMAIN ls
      /\ \A m \in DOMAIN ls : m # l => new[m] = ls[m]
      /\ DOMAIN new[l] = 1 .. (last + 1)
      /\ \A p \in DOMAIN ls[l] : new[l][p] = ls[l][p]
      /\ new[l][last + 1] = e
  BY AppendedIs
<1> HIDE DEF new, last
<1>3. ASSUME NEW f \in Entries(new) PROVE f \in Entries(ls) \cup {e}
  <2>1. PICK m \in DOMAIN new : \E p \in DOMAIN new[m] : f = new[m][p]
    BY EntriesAre
  <2>2. PICK p \in DOMAIN new[m] : f = new[m][p]
    BY <2>1
  <2>3. CASE m # l
    BY <1>2, <2>2, <2>3, EntriesAre
  <2>4. CASE m = l /\ p \in DOMAIN ls[l]
    BY <1>2, <2>2, <2>4, EntriesAre
  <2>5. CASE m = l /\ p = last + 1
    BY <1>2, <2>2, <2>5
  <2>6. m = l => p \in DOMAIN ls[l] \/ p = last + 1
    BY <1>1, <1>2
  <2> QED
    BY <2>3, <2>4, <2>5, <2>6
<1>4. e \in Entries(new)
  <2>1. last + 1 \in DOMAIN new[l]
    BY <1>1, <1>2
  <2> QED
    BY <1>2, <2>1, EntriesAre
<1>5. ASSUME NEW f \in Entries(ls) PROVE f \in Entries(new)
  <2>1. PICK m \in DOMAIN ls : \E p \in DOMAIN ls[m] : f = ls[m][p]
    BY EntriesAre
  <2>2. PICK p \in DOMAIN ls[m] : f = ls[m][p]
    BY <2>1
  <2>3. p \in DOMAIN new[m] /\ new[m][p] = ls[m][p]
    BY <1>1, <1>2
  <2> QED
    BY <1>2, <2>2, <2>3, EntriesAre
<1> QED
  BY <1>3, <1>4, <1>5 DEF new

(* Taking out an entry and moving the last one takes just that entry. *)
LEMMA CutEntries ==
    ASSUME NEW ls, IsLists(ls), NEW l \in DOMAIN ls, NEW k \in DOMAIN ls[l], Unique(ls)
    PROVE  Entries(Cut(ls, l, k - 1)) = Entries(ls) \ {ls[l][k]}
<1> DEFINE new == Cut(ls, l, k - 1)
           last == Len(ls[l])
<1>1. last \in Nat \ {0} /\ DOMAIN ls[l] = 1 .. last /\ k \in 1 .. last
  BY ListIsSeq
<1>2. /\ DOMAIN new = DOMAIN ls
      /\ \A m \in DOMAIN ls : m # l => new[m] = ls[m]
      /\ DOMAIN new[l] = 1 .. (last - 1)
      /\ \A p \in 1 .. (last - 1) : new[l][p] = IF p = k THEN ls[l][last] ELSE ls[l][p]
      /\ ~Holds(new, ls[l][k].id)
  BY CutIs, CutUnique
<1> HIDE DEF new, last
<1>3. ASSUME NEW f \in Entries(new) PROVE f \in Entries(ls) \ {ls[l][k]}
  <2>1. PICK m \in DOMAIN new : \E p \in DOMAIN new[m] : f = new[m][p]
    BY EntriesAre
  <2>2. PICK p \in DOMAIN new[m] : f = new[m][p]
    BY <2>1
  <2>3. f \in Entries(ls)
    <3>1. CASE m # l
      BY <1>2, <2>2, <3>1, EntriesAre
    <3>2. CASE m = l
      <4>1. p \in 1 .. last /\ last \in 1 .. last
        BY <1>1, <1>2, <3>2
      <4> QED
        BY <1>1, <1>2, <2>2, <3>2, <4>1, EntriesAre
    <3> QED
      BY <3>1, <3>2
  <2>4. f # ls[l][k]
    BY <1>2, <2>2 DEF Holds
  <2> QED
    BY <2>3, <2>4
<1>4. ASSUME NEW f \in Entries(ls), f # ls[l][k] PROVE f \in Entries(new)
  <2>1. PICK m \in DOMAIN ls : \E p \in DOMAIN ls[m] : f = ls[m][p]
    BY EntriesAre
  <2>2. PICK p \in DOMAIN ls[m] : f = ls[m][p]
    BY <2>1
  <2>3. CASE m # l
    BY <1>2, <2>2, <2>3, EntriesAre
  <2>4. CASE m = l /\ p = last
    <3>1. k # last
      BY <1>4, <2>2, <2>4
    <3>2. k \in 1 .. (last - 1)
      BY <1>1, <3>1
    <3>3. new[l][k] = f
      BY <1>2, <2>2, <2>4, <3>2
    <3> QED
      BY <1>2, <3>2, <3>3, EntriesAre
  <2>5. CASE m = l /\ p # last
    <3>1. p # k
      BY <1>4, <2>2, <2>5
    <3>2. p \in 1 .. (last - 1)
      BY <1>1, <2>2, <2>5
    <3>3. new[l][p] = f
      BY <1>2, <2>2, <2>5, <3>1, <3>2
    <3> QED
      BY <1>2, <3>2, <3>3, EntriesAre
  <2> QED
    BY <2>3, <2>4, <2>5
<1> QED
  BY <1>3, <1>4 DEF new

(* The scan of the lists takes out what was selected and nothing else. *)
LEMMA ScanEntries ==
    ASSUME NEW ls, IsLists(ls), NEW sel
    PROVE  Entries(ScanOf(ls, sel)) = {e \in Entries(ls) : e.id \notin sel}
<1> DEFINE new == ScanOf(ls, sel)
<1>1. /\ DOMAIN new = DOMAIN ls
      /\ \A l \in DOMAIN ls : \A p \in DOMAIN new[l] :
            \E q \in DOMAIN ls[l] : new[l][p] = ls[l][q] /\ ls[l][q].id \notin sel
  BY ScanIs
<1>2. ASSUME NEW l \in DOMAIN ls, NEW q \in DOMAIN ls[l], ls[l][q].id \notin sel
      PROVE  \E p \in DOMAIN new[l] : new[l][p] = ls[l][q]
  <2>1. ls[l] \in Seq(Stored)
    BY ListIsSeq
  <2>2. new[l] = Compacted(ls[l], sel)
    BY DEF ScanOf
  <2>3. PICK from \in Bijection(DOMAIN new[l], Kept(ls[l], sel)) :
           \A p \in DOMAIN new[l] : new[l][p] = ls[l][from[p]]
    BY <2>1, <2>2, CompactedIs
  <2>4. q \in Kept(ls[l], sel)
    BY <1>2 DEF Kept
  <2>5. from \in Surjection(DOMAIN new[l], Kept(ls[l], sel))
    BY <2>3 DEF Bijection
  <2>6. PICK p \in DOMAIN new[l] : from[p] = q
    BY <2>4, <2>5 DEF Surjection
  <2> QED
    BY <2>3, <2>6
<1> HIDE DEF new
<1>3. ASSUME NEW f \in Entries(new) PROVE f \in Entries(ls) /\ f.id \notin sel
  <2>1. PICK m \in DOMAIN new : \E p \in DOMAIN new[m] : f = new[m][p]
    BY EntriesAre
  <2> QED
    BY <1>1, <2>1, EntriesAre
<1>4. ASSUME NEW f \in Entries(ls), f.id \notin sel PROVE f \in Entries(new)
  <2>1. PICK m \in DOMAIN ls : \E p \in DOMAIN ls[m] : f = ls[m][p]
    BY EntriesAre
  <2>2. \E p \in DOMAIN new[m] : new[m][p] = f
    BY <1>2, <1>4, <2>1
  <2> QED
    BY <1>1, <2>2, EntriesAre
<1> QED
  BY <1>3, <1>4 DEF new

(* An entry of the other index under its new id. *)
Moved(e, a) == [id |-> e.id + a, code |-> e.code]
MovedAll(E, a) == {Moved(e, a) : e \in E}

(* merge_from adds the entries of the other lists under their new ids. *)
LEMMA MergeEntries ==
    ASSUME NEW ls, IsLists(ls), NEW ms, IsLists(ms), DOMAIN ms = DOMAIN ls, NEW a \in Nat
    PROVE  Entries(MergeOf(ls, ms, a)) = Entries(ls) \cup MovedAll(Entries(ms), a)
<1> DEFINE new == MergeOf(ls, ms, a)
<1>1. DOMAIN new = DOMAIN ls /\ IsLists(new) /\ IsMerge(new, ls, ms, a)
  BY MergeIs
<1> HIDE DEF new
<1>2. ASSUME NEW l \in DOMAIN ls
      PROVE  /\ Len(ls[l]) \in Nat /\ DOMAIN ls[l] = 1 .. Len(ls[l])
             /\ Len(ms[l]) \in Nat /\ DOMAIN ms[l] = 1 .. Len(ms[l])
             /\ DOMAIN new[l] = 1 .. (Len(ls[l]) + Len(ms[l]))
             /\ \A p \in DOMAIN ls[l] : new[l][p] = ls[l][p]
  BY <1>1, ListIsSeq DEF IsMerge
<1>3. ASSUME NEW l \in DOMAIN ls, NEW p \in DOMAIN ms[l]
      PROVE  /\ Len(ls[l]) + p \in DOMAIN new[l]
             /\ new[l][Len(ls[l]) + p] = Moved(ms[l][p], a)
  <2>1. Len(ls[l]) + p \in DOMAIN new[l]
    BY <1>2
  <2>2. new[l][Len(ls[l]) + p] \in Stored
    BY <1>1, <2>1, ListIsSeq
  <2>3. /\ new[l][Len(ls[l]) + p].id = ms[l][p].id + a
        /\ new[l][Len(ls[l]) + p].code = ms[l][p].code
    BY <1>1 DEF IsMerge
  <2> QED
    BY <2>1, <2>2, <2>3 DEF Stored, Moved
<1>4. ASSUME NEW f \in Entries(new) PROVE f \in Entries(ls) \cup MovedAll(Entries(ms), a)
  <2>1. PICK l \in DOMAIN ls : \E p \in DOMAIN new[l] : f = new[l][p]
    BY <1>1, EntriesAre
  <2>2. PICK p \in DOMAIN new[l] : f = new[l][p]
    BY <2>1
  <2>3. CASE p \in DOMAIN ls[l]
    BY <1>2, <2>2, <2>3, EntriesAre
  <2>4. CASE p \notin DOMAIN ls[l]
    <3> DEFINE q == p - Len(ls[l])
    <3>1. q \in DOMAIN ms[l] /\ p = Len(ls[l]) + q
      BY <1>2, <2>4
    <3> HIDE DEF q
    <3>2. f = Moved(ms[l][q], a)
      BY <1>3, <2>2, <3>1
    <3>3. ms[l][q] \in Entries(ms)
      BY <3>1, EntriesAre
    <3> QED
      BY <3>2, <3>3 DEF MovedAll
  <2> QED
    BY <2>3, <2>4
<1>5. ASSUME NEW f \in Entries(ls) PROVE f \in Entries(new)
  <2>1. PICK l \in DOMAIN ls : \E p \in DOMAIN ls[l] : f = ls[l][p]
    BY EntriesAre
  <2>2. PICK p \in DOMAIN ls[l] : f = ls[l][p]
    BY <2>1
  <2>3. p \in DOMAIN new[l]
    BY <1>2
  <2> QED
    BY <1>1, <1>2, <2>2, <2>3, EntriesAre
<1>6. ASSUME NEW e \in Entries(ms) PROVE Moved(e, a) \in Entries(new)
  <2>1. PICK l \in DOMAIN ms : \E p \in DOMAIN ms[l] : e = ms[l][p]
    BY EntriesAre
  <2>2. PICK p \in DOMAIN ms[l] : e = ms[l][p]
    BY <2>1
  <2> QED
    BY <1>1, <1>3, <2>2, EntriesAre
<1> QED
  BY <1>4, <1>5, <1>6 DEF new, MovedAll

-----------------------------------------------------------------------------
(* Entries as a dictionary. *)

DictOf(E) == [id \in {e.id : e \in E} |-> (CHOOSE e \in E : e.id = id).code]

LEMMA DictIs ==
    ASSUME NEW E, OneOfEachId(E)
    PROVE  /\ \A id : id \in DOMAIN DictOf(E) <=> \E e \in E : e.id = id
           /\ \A e \in E : DictOf(E)[e.id] = e.code
<1>1. \A id : id \in DOMAIN DictOf(E) <=> \E e \in E : e.id = id
  BY DEF DictOf
<1>2. ASSUME NEW e \in E PROVE DictOf(E)[e.id] = e.code
  <2>1. DictOf(E)[e.id] = (CHOOSE f \in E : f.id = e.id).code
    BY DEF DictOf
  <2>2. (CHOOSE f \in E : f.id = e.id) = e
    BY DEF OneOfEachId
  <2> QED
    BY <2>1, <2>2
<1> QED
  BY <1>1, <1>2

(* The dictionary is the only one with these ids and codes. *)
LEMMA OnlyDict ==
    ASSUME NEW E, OneOfEachId(E), NEW D, NEW d, d = [id \in D |-> d[id]],
           \A id : id \in D <=> \E e \in E : e.id = id,
           \A e \in E : d[e.id] = e.code
    PROVE  DictOf(E) = d
<1>1. /\ \A id : id \in DOMAIN DictOf(E) <=> \E e \in E : e.id = id
      /\ \A e \in E : DictOf(E)[e.id] = e.code
  BY DictIs
<1>2. DictOf(E) = [id \in DOMAIN DictOf(E) |-> DictOf(E)[id]]
  BY DEF DictOf
<1>3. DOMAIN DictOf(E) = D
  BY <1>1
<1>4. \A id \in D : DictOf(E)[id] = d[id]
  BY <1>1
<1> HIDE DEF DictOf
<1> QED
  BY <1>2, <1>3, <1>4

Put(d, k, v) == [i \in DOMAIN d \union {k} |-> IF i = k THEN v ELSE d[i]]
Less(d, S) == [i \in DOMAIN d \ S |-> d[i]]

LEMMA DictInsert ==
    ASSUME NEW E, NEW F, OneOfEachId(E), OneOfEachId(F), NEW e,
           F = E \cup {e}, \A f \in E : f.id # e.id
    PROVE  e.id \notin DOMAIN DictOf(E) /\ DictOf(F) = Put(DictOf(E), e.id, e.code)
<1>1. /\ \A id : id \in DOMAIN DictOf(E) <=> \E f \in E : f.id = id
      /\ \A f \in E : DictOf(E)[f.id] = f.code
  BY DictIs
<1> DEFINE d == DictOf(E)
           D == DOMAIN d \cup {e.id}
           new == Put(d, e.id, e.code)
<1> HIDE DEF d
<1>2. new = [i \in D |-> new[i]] /\ \A i \in D : new[i] = IF i = e.id THEN e.code ELSE d[i]
  BY DEF Put
<1> HIDE DEF new
<1>3. \A id : id \in D <=> \E f \in F : f.id = id
  BY <1>1 DEF d
<1>4. \A f \in F : new[f.id] = f.code
  BY <1>1, <1>2, <1>3 DEF d
<1>5. DictOf(F) = new
  <2> HIDE DEF D
  <2> QED
    BY <1>2, <1>3, <1>4, OnlyDict
<1> QED
  BY <1>1, <1>5 DEF new, d

LEMMA DictReplace ==
    ASSUME NEW E, NEW F, OneOfEachId(E), OneOfEachId(F), NEW e, NEW o \in E,
           F = (E \ {o}) \cup {e}, o.id = e.id
    PROVE  e.id \in DOMAIN DictOf(E) /\ DictOf(F) = Put(DictOf(E), e.id, e.code)
<1>1. /\ \A id : id \in DOMAIN DictOf(E) <=> \E f \in E : f.id = id
      /\ \A f \in E : DictOf(E)[f.id] = f.code
  BY DictIs
<1> DEFINE d == DictOf(E)
           D == DOMAIN d \cup {e.id}
           new == Put(d, e.id, e.code)
<1> HIDE DEF d
<1>2. new = [i \in D |-> new[i]] /\ \A i \in D : new[i] = IF i = e.id THEN e.code ELSE d[i]
  BY DEF Put
<1> HIDE DEF new
<1>3. \A id : id \in D <=> \E f \in F : f.id = id
  BY <1>1 DEF d
<1>4. ASSUME NEW f \in F PROVE new[f.id] = f.code
  <2>1. CASE f = e
    BY <1>2, <2>1
  <2>2. CASE f # e
    <3>1. f \in E /\ f # o
      BY <2>2
    <3>2. f.id # e.id
      BY <3>1 DEF OneOfEachId
    <3> QED
      BY <1>1, <1>2, <1>3, <3>1, <3>2 DEF d
  <2> QED
    BY <2>1, <2>2
<1>5. DictOf(F) = new
  <2> HIDE DEF D
  <2> QED
    BY <1>2, <1>3, <1>4, OnlyDict
<1>6. e.id \in DOMAIN d
  BY <1>1 DEF d
<1> QED
  BY <1>5, <1>6 DEF new, d

LEMMA DictErase ==
    ASSUME NEW E, NEW F, OneOfEachId(E), OneOfEachId(F), NEW S,
           F = {e \in E : e.id \notin S}
    PROVE  DictOf(F) = Less(DictOf(E), S)
<1>1. /\ \A id : id \in DOMAIN DictOf(E) <=> \E f \in E : f.id = id
      /\ \A f \in E : DictOf(E)[f.id] = f.code
  BY DictIs
<1> DEFINE d == DictOf(E)
           D == DOMAIN d \ S
           new == Less(d, S)
<1> HIDE DEF d
<1>2. new = [i \in D |-> new[i]] /\ \A i \in D : new[i] = d[i]
  BY DEF Less
<1> HIDE DEF new
<1>3. \A id : id \in D <=> \E f \in F : f.id = id
  BY <1>1 DEF d
<1>4. \A f \in F : new[f.id] = f.code
  BY <1>1, <1>2, <1>3 DEF d
<1>5. DictOf(F) = new
  <2> HIDE DEF D
  <2> QED
    BY <1>2, <1>3, <1>4, OnlyDict
<1> QED
  BY <1>5 DEF new, d

MovedIds(P, a) == {p.id + a : p \in P}
Absorbed(d, P, a) ==
    [i \in DOMAIN d \union MovedIds(P, a) |->
        IF i \in MovedIds(P, a) THEN (CHOOSE p \in P : p.id + a = i).code ELSE d[i]]

LEMMA DictAbsorb ==
    ASSUME NEW E, NEW F, OneOfEachId(E), OneOfEachId(F), NEW P, NEW a,
           F = E \cup MovedAll(P, a), \A e \in E : \A p \in P : e.id # p.id + a
    PROVE  /\ MovedIds(P, a) \cap DOMAIN DictOf(E) = {}
           /\ DictOf(F) = Absorbed(DictOf(E), P, a)
<1>1. /\ \A id : id \in DOMAIN DictOf(E) <=> \E f \in E : f.id = id
      /\ \A f \in E : DictOf(E)[f.id] = f.code
  BY DictIs
<1> DEFINE d == DictOf(E)
           D == DOMAIN d \cup MovedIds(P, a)
           new == Absorbed(d, P, a)
<1> HIDE DEF d
<1>2. /\ new = [i \in D |-> new[i]]
      /\ \A i \in D : new[i] = IF i \in MovedIds(P, a) THEN (CHOOSE p \in P : p.id + a = i).code
                               ELSE d[i]
  BY DEF Absorbed
<1> HIDE DEF new
<1>3. \A id : id \in D <=> \E f \in F : f.id = id
  <2> SUFFICES ASSUME NEW id PROVE id \in D <=> \E f \in F : f.id = id
    OBVIOUS
  <2>1. id \in MovedIds(P, a) <=> \E p \in P : p.id + a = id
    BY DEF MovedIds
  <2>2. (\E f \in F : f.id = id) <=> (\E f \in E : f.id = id) \/ (\E p \in P : Moved(p, a).id = id)
    BY DEF MovedAll
  <2>3. \A p \in P : Moved(p, a).id = p.id + a
    BY DEF Moved
  <2> QED
    BY <1>1, <2>1, <2>2, <2>3 DEF d
<1>4. ASSUME NEW f \in F PROVE new[f.id] = f.code
  <2>1. CASE f \in E
    <3>1. f.id \notin MovedIds(P, a)
      BY <2>1 DEF MovedIds
    <3> QED
      BY <1>1, <1>2, <1>3, <2>1, <3>1 DEF d
  <2>2. CASE f \notin E
    <3>1. PICK p \in P : f = Moved(p, a)
      BY <2>2 DEF MovedAll
    <3>2. f.id = p.id + a
      BY <3>1 DEF Moved
    <3> DEFINE q == CHOOSE r \in P : r.id + a = f.id
    <3>3. q \in P /\ q.id + a = f.id
      BY <3>2
    <3>4. new[f.id] = q.code
      <4>1. f.id \in MovedIds(P, a)
        BY <3>2 DEF MovedIds
      <4> QED
        BY <1>2, <4>1
    <3> HIDE DEF q
    <3>5. Moved(q, a) \in F /\ Moved(q, a).id = f.id /\ Moved(q, a).code = q.code
      BY <3>3 DEF MovedAll, Moved
    <3>6. Moved(q, a) = f
      BY <3>5 DEF OneOfEachId
    <3> QED
      BY <3>4, <3>5, <3>6
  <2> QED
    BY <2>1, <2>2
<1>5. DictOf(F) = new
  <2> HIDE DEF D
  <2> QED
    BY <1>2, <1>3, <1>4, OnlyDict
<1>6. MovedIds(P, a) \cap DOMAIN d = {}
  BY <1>1 DEF MovedIds, d
<1> QED
  BY <1>5, <1>6 DEF new, d

-----------------------------------------------------------------------------
(* What IdStore sees, and its steps. *)

Held == [id \in StoredIds |-> (CHOOSE e \in Entries(lists) : e.id = id).code]

Shows == Store!SNext \/ UNCHANGED Store!svars

LEMMA HeldIs ==
    Held = DictOf(Entries(lists)) /\ Held' = DictOf(Entries(lists'))
BY DEF Held, DictOf, StoredIds, Entries, Places

LEMMA ShowsNothing ==
    ASSUME Entries(lists') = Entries(lists), Doomed' = Doomed, Unmerged' = Unmerged
    PROVE  UNCHANGED Store!svars
<1>1. Held' = Held
  BY HeldIs
<1> QED
  BY <1>1 DEF Store!svars, Held

LEMMA ShowsPut ==
    ASSUME NEW k, NEW v, Held' = Put(Held, k, v), Doomed' = Doomed, Unmerged' = Unmerged
    PROVE  Store!SNext
<1>1. k \in DOMAIN Held' /\ Held'[k] = v
  BY DEF Put
<1>2. Store!With(k, v) = Put(Held, k, v)
  BY DEF Store!With, Put, Held
<1>3. Store!SNext
  <2>1. CASE k \notin DOMAIN Held
    <3>1. Store!Insert(k, Held'[k])
      BY <1>1, <1>2, <2>1 DEF Store!Insert, Held
    <3> QED
      BY <1>1, <3>1 DEF Store!SNext, Held
  <2>2. CASE k \in DOMAIN Held
    <3>1. Store!Replace(k, Held'[k])
      BY <1>1, <1>2, <2>2 DEF Store!Replace, Held
    <3> QED
      BY <1>1, <3>1 DEF Store!SNext, Held
  <2> QED
    BY <2>1, <2>2
<1> QED
  BY <1>3

LEMMA ShowsSelect ==
    ASSUME Entries(lists') = Entries(lists), Doomed = {}, Unmerged' = Unmerged
    PROVE  Store!SNext
<1>1. Held' = Held
  BY HeldIs
<1>2. Store!Select(Doomed')
  BY <1>1 DEF Store!Select, Held
<1> QED
  BY <1>2 DEF Store!SNext

LEMMA ShowsErase ==
    ASSUME NEW S, S # {}, S \subseteq Doomed, Held' = Less(Held, S), Doomed' = Doomed \ S,
           Unmerged' = Unmerged
    PROVE  Store!SNext
<1>1. Store!Without(S) = Less(Held, S)
  BY DEF Store!Without, Less, Held
<1>2. Store!Erase(S)
  BY <1>1 DEF Store!Erase, Held
<1>3. Doomed \ Doomed' = S
  OBVIOUS
<1> HIDE DEF Doomed
<1> QED
  BY <1>2, <1>3 DEF Store!SNext

LEMMA ShowsClear ==
    ASSUME Entries(lists') = {}, Doomed' = Doomed, Unmerged' = Unmerged
    PROVE  Store!SNext
<1>1. Held' = <<>>
  <2>1. Held' = [id \in {} |-> (CHOOSE e \in {} : e.id = id).code]
    BY HeldIs DEF DictOf
  <2> QED
    BY <2>1
<1>2. Store!Clear
  BY <1>1 DEF Store!Clear, Held
<1> QED
  BY <1>2 DEF Store!SNext

LEMMA ShowsAbsorb ==
    ASSUME NEW a \in Shifts, MovedIds(Unmerged, a) \cap DOMAIN Held = {},
           Held' = Absorbed(Held, Unmerged, a), Unmerged' = {}, Doomed' = Doomed
    PROVE  Store!SNext
<1>1. Store!Absorb(a)
  BY DEF Store!Absorb, MovedIds, Absorbed, Held
<1> QED
  BY <1>1 DEF Store!SNext

LEMMA DoomedIs ==
    /\ call.op \notin {"remove", "scan"} => Doomed = {}
    /\ call'.op \notin {"remove", "scan"} => Doomed' = {}
BY DEF Doomed

LEMMA UnmergedSame ==
    ASSUME call.op # "concat", call'.op # "concat", other' = other
    PROVE  Unmerged' = Unmerged
BY DEF Unmerged, Entries, Places

(* A step that leaves the lists and the other index alone and selects        *)
(* nothing.                                                                  *)
LEMMA ShowsQuiet ==
    ASSUME UNCHANGED <<lists, other>>, call.op \notin {"remove", "scan", "concat"},
           call'.op \notin {"remove", "scan", "concat"}
    PROVE  Shows
<1>1. Entries(lists') = Entries(lists) /\ Doomed' = Doomed /\ Unmerged' = Unmerged
  BY DoomedIs, UnmergedSame
<1> QED
  BY <1>1, ShowsNothing DEF Shows

(* Ids in one place: before and after a step. *)
LEMMA OnceBefore ==
    ASSUME IInv
    PROVE  /\ IsLists(lists) /\ Unique(lists) /\ OneOfEachId(Entries(lists))
           /\ \A e \in Entries(lists) : e \in Stored
           /\ CallInv
<1>1. IsLists(lists) /\ Unique(lists) /\ CallInv
  BY DEF IInv, OrderInv, ShapeInv, IdInv
<1> QED
  BY <1>1, EntriesOnce

LEMMA OnceAfter ==
    ASSUME IInv'
    PROVE  IsLists(lists') /\ Unique(lists') /\ OneOfEachId(Entries(lists'))
<1>1. IsLists(lists') /\ Unique(lists')
  BY DEF IInv, OrderInv, ShapeInv, IdInv, IsLists, Unique
<1> QED
  BY <1>1, EntriesOnce

-----------------------------------------------------------------------------
(* Steps that add, remove and update. *)

LEMMA AddWithIdsShows ==
    ASSUME NEW ids, NEW ls, add_with_ids(ids, ls)
    PROVE  Shows /\ call'.op # "concat"
<1>1. call.op = "none" /\ call'.op = "add" /\ UNCHANGED <<lists, other>>
  BY DEF add_with_ids, BeginAdd, AddCall, Idle
<1> QED
  BY <1>1, ShowsQuiet

LEMMA AddOneShows ==
    ASSUME IInv, IInv', NEW r \in Ranks, add_one(r)
    PROVE  Shows /\ call'.op # "concat"
<1>1. OrderInv
  BY DEF IInv
<1>2. call.op = "add" /\ call'.op = "add" /\ other' = other
  BY <1>1, AddOneIs
<1>3. PICK i \in call.todo[r] :
         /\ Entry(call.vecs[i]) \in Stored
         /\ IF call.vecs[i].list = -1 THEN lists' = lists
            ELSE /\ call.vecs[i].list \in DOMAIN lists
                 /\ lists' = Appended(lists, call.vecs[i].list, Entry(call.vecs[i]))
  BY <1>1, AddOneIs
<1>4. Doomed' = Doomed /\ Unmerged' = Unmerged
  BY <1>2, DoomedIs, UnmergedSame
<1>5. CASE call.vecs[i].list = -1
  BY <1>2, <1>3, <1>5, ShowsQuiet
<1>6. CASE call.vecs[i].list # -1
  <2> DEFINE e == Entry(call.vecs[i])
             E == Entries(lists)
             F == Entries(lists')
  <2>1. IsLists(lists) /\ OneOfEachId(E) /\ OneOfEachId(F) /\ e \in Stored
    BY <1>3, OnceBefore, OnceAfter
  <2>2. F = E \cup {e}
    BY <1>3, <1>6, <2>1, AppendedEntries
  <2>3. Held = DictOf(E) /\ Held' = DictOf(F)
    BY HeldIs
  <2> HIDE DEF e, E, F
  <2>4. CASE \A f \in E : f.id # e.id
    <3>1. Held' = Put(Held, e.id, e.code)
      BY <2>1, <2>2, <2>3, <2>4, DictInsert
    <3> QED
      BY <1>2, <1>4, <3>1, ShowsPut DEF Shows
  <2>5. CASE \E f \in E : f.id = e.id
    <3>1. PICK f \in E : f.id = e.id
      BY <2>5
    <3>2. f = e
      BY <2>1, <2>2, <3>1 DEF OneOfEachId
    <3>3. F = E
      BY <2>2, <3>1, <3>2
    <3> QED
      BY <1>2, <1>4, <3>3, ShowsNothing DEF Shows, E, F
  <2> QED
    BY <2>4, <2>5
<1> QED
  BY <1>5, <1>6

LEMMA AddEndShows ==
    ASSUME add_end
    PROVE  Shows /\ call'.op # "concat"
<1>1. call.op = "add" /\ call'.op = "none" /\ UNCHANGED <<lists, other>>
  BY DEF add_end, Idle
<1> QED
  BY <1>1, ShowsQuiet

LEMMA SetTypeShows ==
    ASSUME NEW new, set_type(new)
    PROVE  Shows /\ call'.op # "concat"
<1>1. call.op = "none" /\ call'.op = "none" /\ UNCHANGED <<lists, other>>
  BY DEF set_type, Idle
<1> QED
  BY <1>1, ShowsQuiet

LEMMA ResetShows ==
    ASSUME IInv, reset
    PROVE  Shows /\ call'.op # "concat"
<1>1. /\ call.op = "none" /\ call'.op = "none" /\ UNCHANGED other
      /\ lists' = [l \in DOMAIN lists |-> <<>>]
  BY DEF reset, Idle
<1>2. Entries(lists') = {}
  <2>1. Places(lists') = {}
    BY <1>1, OnceBefore, EmptiedIs
  <2> QED
    BY <2>1 DEF Entries
<1>3. Doomed' = Doomed /\ Unmerged' = Unmerged
  BY <1>1, DoomedIs, UnmergedSame
<1> QED
  BY <1>1, <1>2, <1>3, ShowsClear DEF Shows

LEMMA RemoveIdsShows ==
    ASSUME NEW ids, remove_ids(ids)
    PROVE  Shows /\ call'.op # "concat"
<1>1. call.op = "none" /\ call'.op \in {"scan", "remove"} /\ UNCHANGED <<lists, other>>
  BY DEF remove_ids, Idle
<1>2. Doomed = {} /\ Unmerged' = Unmerged /\ Entries(lists') = Entries(lists)
  BY <1>1, DoomedIs, UnmergedSame
<1> QED
  BY <1>1, <1>2, ShowsSelect DEF Shows

LEMMA UpdateVectorsShows ==
    ASSUME NEW ids, NEW ls, update_vectors(ids, ls)
    PROVE  Shows /\ call'.op # "concat"
<1>1. call.op = "none" /\ call'.op \in {"update", "remove"} /\ UNCHANGED <<lists, other>>
  BY DEF update_vectors, Idle
<1>2. Doomed = {} /\ Unmerged' = Unmerged /\ Entries(lists') = Entries(lists)
  BY <1>1, DoomedIs, UnmergedSame
<1> QED
  BY <1>1, <1>2, ShowsSelect DEF Shows

LEMMA UpdateEndShows ==
    ASSUME update_end
    PROVE  Shows /\ call'.op # "concat"
<1>1. call.op = "update" /\ call'.op = "none" /\ UNCHANGED <<lists, other>>
  BY DEF update_end, Idle
<1> QED
  BY <1>1, ShowsQuiet

LEMMA ScanShows ==
    ASSUME IInv, IInv', scan
    PROVE  Shows /\ call'.op # "concat"
<1> DEFINE E == Entries(lists)
           F == Entries(lists')
           S == call.sel \cap StoredIds
<1>1. /\ call.op = "scan" /\ call'.op = "none" /\ UNCHANGED other
      /\ lists' = ScanOf(lists, call.sel)
  BY DEF scan, ScanOf, Idle
<1>2. IsLists(lists) /\ OneOfEachId(E) /\ OneOfEachId(F)
  BY OnceBefore, OnceAfter
<1>3. F = {e \in E : e.id \notin call.sel}
  BY <1>1, <1>2, ScanEntries
<1>4. \A e \in E : e.id \in StoredIds
  BY DEF StoredIds
<1>5. Doomed = S /\ Doomed' = {} /\ Unmerged' = Unmerged
  BY <1>1, DoomedIs, UnmergedSame DEF Doomed
<1>6. Held = DictOf(E) /\ Held' = DictOf(F)
  BY HeldIs
<1>7. F = {e \in E : e.id \notin S}
  BY <1>3, <1>4
<1> HIDE DEF E, F, S
<1>8. CASE S = {}
  <2>1. F = E
    BY <1>7, <1>8
  <2> QED
    BY <1>1, <1>5, <1>8, <2>1, ShowsNothing DEF Shows, E, F
<1>9. CASE S # {}
  <2>1. Held' = Less(Held, S)
    BY <1>2, <1>6, <1>7, DictErase
  <2>2. S \subseteq Doomed /\ Doomed' = Doomed \ S
    BY <1>5
  <2> QED
    BY <1>1, <1>5, <1>9, <2>1, <2>2, ShowsErase DEF Shows
<1> QED
  BY <1>8, <1>9

(* The members of a sequence are its head and those of its tail. *)
LEMMA HeadTail ==
    ASSUME NEW X, NEW s \in Seq(X), s # <<>>
    PROVE  {s[k] : k \in DOMAIN s} = {Head(s)} \cup {Tail(s)[k] : k \in DOMAIN Tail(s)}
<1> DEFINE n == Len(s)
<1>1. /\ n \in Nat /\ n # 0 /\ DOMAIN s = 1 .. n /\ Head(s) = s[1]
      /\ DOMAIN Tail(s) = 1 .. (n - 1)
      /\ \A k \in 1 .. (n - 1) : Tail(s)[k] = s[k + 1]
  OBVIOUS
<1> HIDE DEF n
<1>2. ASSUME NEW k \in 1 .. n, k # 1 PROVE \E j \in 1 .. (n - 1) : s[k] = Tail(s)[j]
  <2> DEFINE j == k - 1
  <2>1. j \in 1 .. (n - 1) /\ j + 1 = k
    BY <1>1, <1>2
  <2> HIDE DEF j
  <2>2. s[k] = Tail(s)[j]
    BY <1>1, <2>1
  <2> QED
    BY <2>1, <2>2
<1>3. ASSUME NEW j \in 1 .. (n - 1) PROVE j + 1 \in 1 .. n /\ Tail(s)[j] = s[j + 1]
  BY <1>1
<1>4. 1 \in 1 .. n
  BY <1>1
<1>5. ASSUME NEW x
      PROVE  (\E k \in 1 .. n : x = s[k]) <=> (x = s[1] \/ \E j \in 1 .. (n - 1) : x = Tail(s)[j])
  <2>1. ASSUME NEW k \in 1 .. n, x = s[k]
        PROVE  x = s[1] \/ \E j \in 1 .. (n - 1) : x = Tail(s)[j]
    BY <1>2, <2>1
  <2>2. ASSUME NEW j \in 1 .. (n - 1), x = Tail(s)[j] PROVE \E k \in 1 .. n : x = s[k]
    BY <1>3, <2>2
  <2> QED
    BY <1>4, <2>1, <2>2
<1>6. {s[k] : k \in 1 .. n} = {s[1]} \cup {Tail(s)[k] : k \in 1 .. (n - 1)}
  BY <1>5, Zenon
<1> QED
  BY <1>1, <1>6, Zenon

LEMMA StoredIdsAre ==
    /\ \A id : id \in StoredIds <=> Holds(lists, id)
    /\ \A id : id \in StoredIds' <=> Holds(lists', id)
<1>1. StoredIds = {e.id : e \in Entries(lists)} /\ StoredIds' = {e.id : e \in Entries(lists')}
  BY DEF StoredIds, Entries, Places
<1> QED
  BY <1>1, EntryHolds

RestIds(c) == {c.rest[k] : k \in DOMAIN c.rest}

LEMMA DoomedRest ==
    /\ call.op = "remove" => Doomed = RestIds(call) \cap StoredIds
    /\ call'.op = "remove" => Doomed' = RestIds(call') \cap StoredIds'
BY DEF Doomed, RestIds

LEMMA RemoveNextShows ==
    ASSUME IInv, IInv', remove_next
    PROVE  Shows /\ call'.op # "concat"
<1> DEFINE id == Head(call.rest)
           E == Entries(lists)
           F == Entries(lists')
<1>1. /\ call.op = "remove" /\ call'.op = "remove" /\ type = "Hashtable"
      /\ UNCHANGED other /\ call.rest # <<>> /\ call'.rest = Tail(call.rest)
  BY RemoveNextIs
<1>2. IsLists(lists) /\ Unique(lists) /\ OneOfEachId(E) /\ OneOfEachId(F)
  BY OnceBefore, OnceAfter
<1>3. call.rest \in Seq(Ids)
  BY <1>1, OnceBefore, CallKinds DEF RemoveCalls
<1>4. RestIds(call) = {id} \cup RestIds(call')
  <2>1. RestIds(call) = {id} \cup {Tail(call.rest)[k] : k \in DOMAIN Tail(call.rest)}
    BY <1>1, <1>3, HeadTail DEF RestIds
  <2>2. RestIds(call') = {Tail(call.rest)[k] : k \in DOMAIN Tail(call.rest)}
    BY <1>1, Zenon DEF RestIds
  <2> QED
    BY <2>1, <2>2
<1>5. Unmerged' = Unmerged
  BY <1>1, UnmergedSame
<1>6. Doomed = RestIds(call) \cap StoredIds /\ Doomed' = RestIds(call') \cap StoredIds'
  BY <1>1, DoomedRest
<1>7. Held = DictOf(E) /\ Held' = DictOf(F)
  BY HeldIs
<1>8. CASE id \in DOMAIN hashtable
  <2>1. PICK l \in DOMAIN lists : \E k \in DOMAIN lists[l] :
           lists[l][k].id = id /\ lists' = Cut(lists, l, k - 1)
    BY <1>8, RemoveNextIs
  <2>2. PICK k \in DOMAIN lists[l] : lists[l][k].id = id /\ lists' = Cut(lists, l, k - 1)
    BY <2>1
  <2>3. F = E \ {lists[l][k]}
    BY <1>2, <2>2, CutEntries
  <2>4. lists[l][k] \in E
    BY <2>2, EntriesAre
  <2>5. F = {e \in E : e.id \notin {id}}
    BY <1>2, <2>2, <2>3, <2>4 DEF OneOfEachId
  <2>6. StoredIds' = StoredIds \ {id} /\ id \in StoredIds
    <3>1. StoredIds = {e.id : e \in E} /\ StoredIds' = {e.id : e \in F}
      BY DEF StoredIds, Entries, Places
    <3> HIDE DEF E, F, id
    <3> QED
      BY <2>2, <2>4, <2>5, <3>1
  <2> HIDE DEF id, E, F
  <2>7. Held' = Less(Held, {id})
    BY <1>2, <1>7, <2>5, DictErase
  <2>8. {id} \subseteq Doomed /\ Doomed' = Doomed \ {id}
    BY <1>4, <1>6, <2>6
  <2> QED
    BY <1>1, <1>5, <2>7, <2>8, ShowsErase DEF Shows
<1>9. CASE id \notin DOMAIN hashtable
  <2>1. UNCHANGED <<lists, hashtable>>
    BY <1>9, RemoveNextIs
  <2>2. Forward(hashtable, lists)
    BY <1>1, HashMap
  <2>3. ~Holds(lists, id)
    BY <1>9, <2>2 DEF Forward, Holds
  <2>4. StoredIds' = StoredIds /\ id \notin StoredIds /\ F = E
    BY <2>1, <2>3, StoredIdsAre DEF StoredIds, Entries, Places
  <2> HIDE DEF id
  <2>5. Doomed' = Doomed
    BY <1>4, <1>6, <2>4
  <2> QED
    BY <1>1, <1>5, <2>4, <2>5, ShowsNothing DEF Shows
<1> QED
  BY <1>8, <1>9

LEMMA RemoveEndShows ==
    ASSUME remove_end
    PROVE  Shows /\ call'.op # "concat"
<1>1. /\ call.op = "remove" /\ call.rest = <<>> /\ UNCHANGED <<lists, other>>
      /\ call'.op \in {"add", "none"}
  BY DEF remove_end, BeginAdd, AddCall, Idle
<1>2. RestIds(call) = {}
  BY <1>1 DEF RestIds
<1>3. Doomed' = Doomed
  BY <1>1, <1>2, DoomedRest, DoomedIs
<1>4. Entries(lists') = Entries(lists) /\ Unmerged' = Unmerged
  BY <1>1, UnmergedSame
<1> QED
  BY <1>1, <1>3, <1>4, ShowsNothing DEF Shows

LEMMA UpdateOneShows ==
    ASSUME IInv, IInv', update_one
    PROVE  Shows /\ call'.op # "concat"
<1> DEFINE v == Head(call.rest)
           e == Entry(v)
           E == Entries(lists)
           F == Entries(lists')
<1>1. /\ call.op = "update" /\ UNCHANGED other /\ v \in Vec
      /\ call'.op \in {"update", "none"}
  BY UpdateOneIs DEF Idle
<1>2. IsLists(lists) /\ Unique(lists) /\ OneOfEachId(E) /\ OneOfEachId(F)
  BY OnceBefore, OnceAfter
<1>3. Doomed' = Doomed /\ Unmerged' = Unmerged
  BY <1>1, DoomedIs, UnmergedSame
<1>4. CASE UNCHANGED lists
  BY <1>1, <1>3, <1>4, ShowsNothing DEF Shows
<1>5. CASE ~UNCHANGED lists
  <2>1. v.list \in DOMAIN lists
    BY <1>5, UpdateOneIs
  <2>2. PICK l \in DOMAIN lists : \E k \in DOMAIN lists[l] :
           /\ lists[l][k].id = v.id
           /\ lists' = Appended(Cut(lists, l, k - 1), v.list, e)
    BY <1>5, UpdateOneIs
  <2>3. PICK k \in DOMAIN lists[l] :
           /\ lists[l][k].id = v.id
           /\ lists' = Appended(Cut(lists, l, k - 1), v.list, e)
    BY <2>2
  <2> DEFINE out == Cut(lists, l, k - 1)
             o == lists[l][k]
  <2>4. IsLists(out) /\ DOMAIN out = DOMAIN lists
    BY <1>2, CutIs
  <2>5. Entries(out) = E \ {o}
    BY <1>2, CutEntries
  <2>6. e \in Stored /\ e.id = v.id
    BY <1>1 DEF Entry, Stored, Vec
  <2>7. o \in E
    BY EntriesAre
  <2> HIDE DEF out
  <2>8. F = Entries(out) \cup {e}
    BY <2>1, <2>3, <2>4, <2>6, AppendedEntries DEF out
  <2>9. F = (E \ {o}) \cup {e} /\ o.id = e.id
    BY <2>3, <2>5, <2>6, <2>8
  <2>10. Held = DictOf(E) /\ Held' = DictOf(F)
    BY HeldIs
  <2> HIDE DEF e, E, F, o, v
  <2>11. Held' = Put(Held, e.id, e.code)
    BY <1>2, <2>7, <2>9, <2>10, DictReplace
  <2> QED
    BY <1>1, <1>3, <2>11, ShowsPut DEF Shows
<1> QED
  BY <1>4, <1>5

-----------------------------------------------------------------------------
(* Steps that merge. *)

(* While lists are copied, an entry that is not merged yet is in the other   *)
(* index, among the copies, or in both.                                      *)
Back(e, a) == [e EXCEPT !.id = @ - a]
Copies(ns, D) == [m \in DOMAIN ns \ D |-> ns[m]]
Pool(os, ns, D, a) == Entries(os) \cup {Back(e, a) : e \in Entries(Copies(ns, D))}

LEMMA UnmergedIs ==
    /\ call.op # "concat" /\ other.ntotal # 0 => Unmerged = Entries(other.lists)
    /\ other'.ntotal = 0 => Unmerged' = {}
    /\ call.op = "concat" /\ other.ntotal # 0 =>
          Unmerged = Pool(other.lists, call.new_lists, DOMAIN lists, call.add_id)
    /\ call'.op = "concat" /\ other'.ntotal # 0 =>
          Unmerged' = Pool(other'.lists, call'.new_lists, DOMAIN lists', call'.add_id)
<1>1. /\ call.op # "concat" /\ other.ntotal # 0 => Unmerged = Entries(other.lists)
      /\ other'.ntotal = 0 => Unmerged' = {}
  BY DEF Unmerged
<1>2. call.op = "concat" /\ other.ntotal # 0 =>
          Unmerged = Pool(other.lists, call.new_lists, DOMAIN lists, call.add_id)
  BY DEF Unmerged, Pool, Back, Copies
<1>3. call'.op = "concat" /\ other'.ntotal # 0 =>
          Unmerged' = Pool(other'.lists, call'.new_lists, DOMAIN lists', call'.add_id)
  BY DEF Unmerged, Pool, Back, Copies, Entries, Places
<1> QED
  BY <1>1, <1>2, <1>3

LEMMA CopyEntries ==
    ASSUME NEW ns, NEW D
    PROVE  \A e : e \in Entries(Copies(ns, D)) <=>
              \E m \in DOMAIN ns \ D : \E p \in DOMAIN ns[m] : e = ns[m][p]
<1>1. DOMAIN Copies(ns, D) = DOMAIN ns \ D /\ \A m \in DOMAIN ns \ D : Copies(ns, D)[m] = ns[m]
  BY DEF Copies
<1> QED
  BY <1>1, EntriesAre

LEMMA WithIs ==
    ASSUME NEW ls, NEW n, NEW es
    PROVE  /\ DOMAIN With(ls, n, es) = DOMAIN ls \cup {n} /\ With(ls, n, es)[n] = es
           /\ \A m \in DOMAIN ls : m # n => With(ls, n, es)[m] = ls[m]
BY DEF With

LEMMA PoolIs ==
    ASSUME NEW os, NEW ns, NEW D, NEW a
    PROVE  \A x : x \in Pool(os, ns, D, a) <=>
              \/ x \in Entries(os)
              \/ \E m \in DOMAIN ns \ D : \E p \in DOMAIN ns[m] : x = Back(ns[m][p], a)
<1> SUFFICES ASSUME NEW x
             PROVE  (\E e \in Entries(Copies(ns, D)) : x = Back(e, a)) <=>
                    \E m \in DOMAIN ns \ D : \E p \in DOMAIN ns[m] : x = Back(ns[m][p], a)
  BY DEF Pool
<1> QED
  BY CopyEntries

LEMMA BackMoved ==
    ASSUME NEW e \in Stored, NEW a \in Nat
    PROVE  /\ Back(Moved(e, a), a) = e
           /\ Back(e, a).id \in Int /\ Back(e, a).code = e.code
           /\ Moved(Back(e, a), a) = e
<1>1. e = [id |-> e.id, code |-> e.code] /\ e.id \in Nat /\ e.code \in Nat
  BY DEF Stored
<1>2. Back(e, a) = [id |-> e.id - a, code |-> e.code]
  BY <1>1 DEF Back
<1>3. Back(Moved(e, a), a) = [id |-> (e.id + a) - a, code |-> e.code]
  BY <1>1 DEF Moved, Back
<1>4. (e.id + a) - a = e.id /\ (e.id - a) + a = e.id /\ e.id - a \in Int
  BY <1>1
<1>5. Moved(Back(e, a), a) = [id |-> (e.id - a) + a, code |-> e.code]
  BY <1>2 DEF Moved
<1> QED
  BY <1>1, <1>2, <1>3, <1>4, <1>5

LEMMA ShiftedMoved ==
    ASSUME NEW es \in Seq(Stored), NEW a \in Nat
    PROVE  /\ DOMAIN Shifted(es, a) = DOMAIN es
           /\ \A p \in DOMAIN es : es[p] \in Stored /\ Shifted(es, a)[p] = Moved(es[p], a)
<1> DEFINE t == Shifted(es, a)
<1>1. /\ t \in Seq(Stored) /\ DOMAIN t = DOMAIN es
      /\ \A p \in DOMAIN es : t[p].id = es[p].id + a /\ t[p].code = es[p].code
  BY ShiftedIs
<1> HIDE DEF t
<1>2. ASSUME NEW p \in DOMAIN es PROVE es[p] \in Stored /\ t[p] = Moved(es[p], a)
  <2>1. es[p] \in Stored /\ t[p] \in Stored
    BY <1>1
  <2> QED
    BY <1>1, <2>1 DEF Stored, Moved
<1> QED
  BY <1>1, <1>2 DEF t

(* Copying a list, and emptying it or not, leaves the entries that are not   *)
(* merged yet.                                                               *)
LEMMA PoolCopied ==
    ASSUME NEW os, IsLists(os), NEW ns, NEW D, NEW a \in Nat, NEW l \in DOMAIN os,
           NEW n, n \notin DOMAIN ns, n \notin D, NEW new, new = os \/ new = Without(os, l)
    PROVE  Pool(new, With(ns, n, Shifted(os[l], a)), D, a) = Pool(os, ns, D, a)
<1> DEFINE es == os[l]
           t == Shifted(es, a)
           ms == With(ns, n, t)
<1>1. /\ DOMAIN t = DOMAIN es
      /\ \A p \in DOMAIN es : t[p] = Moved(es[p], a) /\ Back(t[p], a) = es[p]
  <2>1. es \in Seq(Stored)
    BY ListIsSeq
  <2> HIDE DEF es
  <2> QED
    BY <2>1, ShiftedMoved, BackMoved
<1>2. \A x : x \in Entries(os) <=> x \in Entries(new) \/ \E p \in DOMAIN es : x = es[p]
  <2>1. DOMAIN os = DOMAIN Without(os, l) /\ \A m \in DOMAIN os : m # l => Without(os, l)[m] = os[m]
    BY DEF IsLists, Without
  <2>2. Without(os, l)[l] = <<>>
    BY DEF IsLists, Without
  <2>3. \A x : x \in Entries(os) => x \in Entries(Without(os, l)) \/ \E p \in DOMAIN es : x = es[p]
    BY <2>1, EntriesAre
  <2>4. \A x : x \in Entries(Without(os, l)) => x \in Entries(os)
    BY <2>1, <2>2, EntriesAre
  <2>5. \A x : (\E p \in DOMAIN es : x = es[p]) => x \in Entries(os)
    BY EntriesAre
  <2> QED
    BY <2>3, <2>4, <2>5
<1>3. DOMAIN ms = DOMAIN ns \cup {n} /\ ms[n] = t /\ \A m \in DOMAIN ns : ms[m] = ns[m]
  BY DEF With
<1> HIDE DEF es, t, ms
<1>4. ASSUME NEW x
      PROVE  (\E m \in DOMAIN ms \ D : \E p \in DOMAIN ms[m] : x = Back(ms[m][p], a)) <=>
             \/ \E m \in DOMAIN ns \ D : \E p \in DOMAIN ns[m] : x = Back(ns[m][p], a)
             \/ \E p \in DOMAIN es : x = es[p]
  BY <1>1, <1>3
<1>5. ASSUME NEW x PROVE x \in Pool(new, ms, D, a) <=> x \in Pool(os, ns, D, a)
  <2>1. x \in Pool(new, ms, D, a) <=>
           \/ x \in Entries(new)
           \/ \E m \in DOMAIN ms \ D : \E p \in DOMAIN ms[m] : x = Back(ms[m][p], a)
    BY PoolIs
  <2>2. x \in Pool(os, ns, D, a) <=>
           \/ x \in Entries(os)
           \/ \E m \in DOMAIN ns \ D : \E p \in DOMAIN ns[m] : x = Back(ns[m][p], a)
    BY PoolIs
  <2> QED
    BY <1>2, <1>4, <2>1, <2>2
<1>6. Pool(new, ms, D, a) = Pool(os, ns, D, a)
  BY <1>5
<1> QED
  BY <1>6 DEF ms, t, es

(* Once all lists are copied, the copies are what is not merged yet, under   *)
(* the new ids.                                                              *)
LEMMA PoolMoved ==
    ASSUME NEW os, IsLists(os), NEW ns, IsLists(ns), NEW ls, NEW a \in Nat,
           DOMAIN ls \subseteq DOMAIN ns, \A l \in DOMAIN ls : ns[l] = ls[l],
           \A l \in DOMAIN os : os[l] = <<>> \/
              \E n \in DOMAIN ns \ DOMAIN ls : ns[n] = Shifted(os[l], a)
    PROVE  /\ Entries(ns) = Entries(ls) \cup MovedAll(Pool(os, ns, DOMAIN ls, a), a)
           /\ \A x \in Pool(os, ns, DOMAIN ls, a) :
                 \E m \in DOMAIN ns \ DOMAIN ls : \E p \in DOMAIN ns[m] : ns[m][p] = Moved(x, a)
<1> DEFINE P == Pool(os, ns, DOMAIN ls, a)
<1>1. \A m \in DOMAIN ns : \A p \in DOMAIN ns[m] : ns[m][p] \in Stored
  BY ListIsSeq
<1>2. ASSUME NEW x \in P
      PROVE  \E m \in DOMAIN ns \ DOMAIN ls : \E p \in DOMAIN ns[m] : ns[m][p] = Moved(x, a)
  <2>1. CASE x \in Entries(os)
    <3>1. PICK l \in DOMAIN os : \E p \in DOMAIN os[l] : x = os[l][p]
      BY <2>1, EntriesAre
    <3>2. PICK p \in DOMAIN os[l] : x = os[l][p]
      BY <3>1
    <3>3. PICK n \in DOMAIN ns \ DOMAIN ls : ns[n] = Shifted(os[l], a)
      BY <3>2
    <3>4. os[l] \in Seq(Stored)
      BY ListIsSeq
    <3>5. p \in DOMAIN ns[n] /\ ns[n][p] = Moved(x, a)
      BY <3>2, <3>3, <3>4, ShiftedMoved
    <3> QED
      BY <3>5
  <2>2. CASE x \notin Entries(os)
    <3>1. PICK m \in DOMAIN ns \ DOMAIN ls : \E p \in DOMAIN ns[m] : x = Back(ns[m][p], a)
      BY <2>2, PoolIs
    <3>2. PICK p \in DOMAIN ns[m] : x = Back(ns[m][p], a)
      BY <3>1
    <3>3. Moved(x, a) = ns[m][p]
      BY <1>1, <3>2, BackMoved
    <3> QED
      BY <3>3
  <2> QED
    BY <2>1, <2>2
<1>3. ASSUME NEW m \in DOMAIN ns \ DOMAIN ls, NEW p \in DOMAIN ns[m]
      PROVE  \E x \in P : ns[m][p] = Moved(x, a)
  <2>1. Back(ns[m][p], a) \in P
    BY PoolIs
  <2>2. Moved(Back(ns[m][p], a), a) = ns[m][p]
    BY <1>1, BackMoved
  <2> HIDE DEF P
  <2> QED
    BY <2>1, <2>2
<1> HIDE DEF P
<1>4. ASSUME NEW f PROVE f \in Entries(ns) <=> f \in Entries(ls) \/ \E x \in P : f = Moved(x, a)
  <2>1. f \in Entries(ns) <=> \E m \in DOMAIN ns : \E p \in DOMAIN ns[m] : f = ns[m][p]
    BY EntriesAre
  <2>2. f \in Entries(ls) <=> \E m \in DOMAIN ls : \E p \in DOMAIN ls[m] : f = ls[m][p]
    BY EntriesAre
  <2>3. ASSUME NEW m \in DOMAIN ns, NEW p \in DOMAIN ns[m], f = ns[m][p]
        PROVE  f \in Entries(ls) \/ \E x \in P : f = Moved(x, a)
    <3>1. CASE m \in DOMAIN ls
      BY <2>2, <2>3, <3>1
    <3>2. CASE m \notin DOMAIN ls
      BY <1>3, <2>3, <3>2
    <3> QED
      BY <3>1, <3>2
  <2>4. (\E x \in P : f = Moved(x, a)) => f \in Entries(ns)
    BY <1>2, <2>1
  <2>5. f \in Entries(ls) => f \in Entries(ns)
    BY <2>1, <2>2
  <2> QED
    BY <2>1, <2>3, <2>4, <2>5
<1>5. Entries(ns) = Entries(ls) \cup MovedAll(P, a)
  BY <1>4 DEF MovedAll
<1> QED
  BY <1>2, <1>5 DEF P

(* Each list of the other index is still to be copied, or is among the       *)
(* copies, or was empty, or was emptied.                                     *)
CopyInv ==
    call.op = "concat" =>
        /\ other.ntotal # 0
        /\ call.add_id \in Shifts
        /\ \A l \in DOMAIN other.lists \ Pending :
              \/ other.lists[l] = <<>>
              \/ \E n \in DOMAIN call.new_lists \ DOMAIN lists :
                    call.new_lists[n] = Shifted(other.lists[l], call.add_id)

LEMMA MergeFromShows ==
    ASSUME IInv, IInv', NEW a \in Shifts, merge_from(a)
    PROVE  Shows /\ call'.op # "concat"
<1> DEFINE E == Entries(lists)
           F == Entries(lists')
           P == Entries(other.lists)
<1>1. /\ MayMerge(a) /\ DOMAIN lists = DOMAIN other.lists /\ call' = call
      /\ lists' = MergeOf(lists, other.lists, a) /\ other' = Emptied /\ other.ntotal > 0
  BY DEF merge_from, MergeOf, MayMerge
<1>2. /\ call.op = "none" /\ call'.op = "none" /\ a \in Nat
      /\ IsLists(lists) /\ IsLists(other.lists) /\ other.ntotal \in Nat
      /\ \A l \in DOMAIN other.lists : \A p \in DOMAIN other.lists[l] :
            ~Holds(lists, other.lists[l][p].id + a)
  BY <1>1, MergeFacts DEF Idle
<1>3. OneOfEachId(E) /\ OneOfEachId(F)
  BY OnceBefore, OnceAfter
<1>4. F = E \cup MovedAll(P, a)
  BY <1>1, <1>2, MergeEntries
<1>5. Unmerged = P /\ Unmerged' = {}
  BY <1>1, <1>2, UnmergedIs DEF Emptied
<1>6. \A e \in E : \A p \in P : e.id # p.id + a
  <2> SUFFICES ASSUME NEW e \in E, NEW p \in P PROVE e.id # p.id + a
    OBVIOUS
  <2>1. PICK l \in DOMAIN other.lists : \E k \in DOMAIN other.lists[l] : p = other.lists[l][k]
    BY EntriesAre
  <2>2. ~Holds(lists, p.id + a)
    BY <1>2, <2>1
  <2>3. ~\E f \in E : f.id = p.id + a
    BY <2>2, EntryHolds
  <2> QED
    BY <2>3
<1>7. Held = DictOf(E) /\ Held' = DictOf(F)
  BY HeldIs
<1>8. Doomed' = Doomed
  BY <1>2, DoomedIs
<1> HIDE DEF E, F, P
<1>9. MovedIds(P, a) \cap DOMAIN Held = {} /\ Held' = Absorbed(Held, P, a)
  BY <1>3, <1>4, <1>6, <1>7, DictAbsorb
<1> QED
  BY <1>2, <1>5, <1>8, <1>9, ShowsAbsorb DEF Shows

LEMMA BeginConcatShows ==
    ASSUME IInv, IInv', NEW a \in Shifts, NEW flat \in BOOLEAN, BeginConcat(a, flat)
    PROVE  Shows /\ CopyInv'
<1>1. /\ call'.op = "concat" /\ call'.new_lists = lists /\ call'.add_id = a
      /\ UNCHANGED <<lists, other>> /\ MayMerge(a) /\ other.ntotal > 0
  BY BeginConcatIs DEF BeginConcat, MayMerge
<1>2. /\ call.op = "none" /\ other.ntotal \in Nat
      /\ IsLists(lists) /\ IsLists(other.lists)
  BY <1>1, MergeFacts DEF Idle
<1>3. Pending' = DOMAIN other.lists
  <2> DEFINE c == Cardinality(DOMAIN lists)
  <2>1. c \in Nat /\ DOMAIN lists = 0 .. (c - 1) /\ DOMAIN other.lists \subseteq Nat
    BY <1>2, FS_CardinalityType, ListIsSeq DEF IsLists
  <2>2. Pending' = DOMAIN other.lists \ {l - c : l \in DOMAIN lists}
    BY <1>1 DEF Pending
  <2> HIDE DEF c
  <2>3. ASSUME NEW l \in DOMAIN lists PROVE l - c \notin Nat
    BY <2>1
  <2> QED
    BY <2>1, <2>2, <2>3
<1>4. CopyInv'
  BY <1>1, <1>2, <1>3 DEF CopyInv
<1>5. Unmerged = Entries(other.lists)
      /\ Unmerged' = Pool(other.lists, lists, DOMAIN lists, a)
  BY <1>1, <1>2, UnmergedIs
<1>6. Unmerged' = Unmerged
  <2>1. \A x : x \in Pool(other.lists, lists, DOMAIN lists, a) <=> x \in Entries(other.lists)
    BY PoolIs
  <2> QED
    BY <1>5, <2>1
<1>7. Doomed' = Doomed
  BY <1>1, <1>2, DoomedIs
<1>8. Entries(lists') = Entries(lists)
  BY <1>1
<1> QED
  BY <1>4, <1>6, <1>7, <1>8, ShowsNothing DEF Shows

LEMMA ConcatListShows ==
    ASSUME IInv, CopyInv, NEW l \in DOMAIN other.lists, concat_list(l)
    PROVE  Shows /\ CopyInv'
<1> DEFINE a == call.add_id
           n == NewList(l)
           os == other.lists
           ns == call.new_lists
           t == Shifted(os[l], a)
<1>1. /\ call.op = "concat" /\ call'.op = "concat" /\ call'.add_id = a
      /\ call'.new_lists = With(ns, n, t)
      /\ n \notin DOMAIN ns
      /\ l \in Pending /\ Pending' = Pending \ {l}
      /\ other'.ntotal = other.ntotal
      /\ other'.lists \in {os, Without(os, l)}
      /\ UNCHANGED lists
  BY ConcatListIs
<1>2. IsConcat(call) /\ IsLists(os)
  BY <1>1, CallKinds DEF IInv, OrderInv, ShapeInv
<1>3. a \in Nat
  BY <1>2 DEF IsConcat
<1>4. n \notin DOMAIN lists
  BY <1>1 DEF IInv, IdInv, MergeInv
<1>5. other.ntotal # 0
  BY <1>1 DEF CopyInv
<1>6. Unmerged = Pool(os, ns, DOMAIN lists, a)
      /\ Unmerged' = Pool(other'.lists, With(ns, n, t), DOMAIN lists, a)
  BY <1>1, <1>5, UnmergedIs
<1>7. Unmerged' = Unmerged
  <2> DEFINE new == other'.lists
             D == DOMAIN lists
  <2>1. /\ l \in DOMAIN os /\ IsLists(os) /\ a \in Nat
        /\ n \notin DOMAIN ns /\ n \notin D /\ (new = os \/ new = Without(os, l))
    BY <1>1, <1>2, <1>3, <1>4
  <2>2. Unmerged' = Pool(new, With(ns, n, t), D, a) /\ Unmerged = Pool(os, ns, D, a)
    BY <1>6
  <2> HIDE DEF a, n, os, ns, new, D
  <2>3. Pool(new, With(ns, n, t), D, a) = Pool(os, ns, D, a)
    BY <2>1, PoolCopied
  <2> QED
    BY <2>2, <2>3
<1>8. Doomed' = Doomed /\ Entries(lists') = Entries(lists)
  BY <1>1, DoomedIs
<1>9. Shows
  BY <1>7, <1>8, ShowsNothing DEF Shows
<1>10. /\ DOMAIN With(ns, n, t) = DOMAIN ns \cup {n} /\ With(ns, n, t)[n] = t
       /\ \A m \in DOMAIN ns : With(ns, n, t)[m] = ns[m]
  <2>1. n \notin DOMAIN ns
    BY <1>1
  <2> HIDE DEF n, ns, t
  <2> QED
    BY <2>1, WithIs
<1>11. /\ DOMAIN Without(os, l) = DOMAIN os /\ Without(os, l)[l] = <<>>
       /\ \A k \in DOMAIN os : k # l => Without(os, l)[k] = os[k]
  BY <1>2 DEF Without, IsLists
<1>12. call.add_id \in Shifts /\ \A k \in DOMAIN os \ Pending :
          os[k] = <<>> \/ \E m \in DOMAIN ns \ DOMAIN lists : ns[m] = Shifted(os[k], a)
  BY <1>1 DEF CopyInv
<1>13. ASSUME NEW k \in DOMAIN other'.lists \ Pending'
       PROVE  \/ other'.lists[k] = <<>>
              \/ \E m \in DOMAIN call'.new_lists \ DOMAIN lists :
                    call'.new_lists[m] = Shifted(other'.lists[k], a)
  <2> HIDE DEF a, n, os, ns
  <2>1. k \in DOMAIN os
    BY <1>1, <1>11
  <2>2. CASE k = l
    <3>1. other'.lists[l] = <<>> \/ other'.lists[l] = os[l]
      BY <1>1, <1>11
    <3>2. n \in DOMAIN call'.new_lists \ DOMAIN lists /\ call'.new_lists[n] = t
      BY <1>1, <1>4, <1>10
    <3> QED
      BY <2>2, <3>1, <3>2
  <2>3. CASE k # l
    <3>1. other'.lists[k] = os[k] /\ k \notin Pending
      BY <1>1, <1>11, <2>1, <2>3
    <3>2. CASE os[k] = <<>>
      BY <3>1, <3>2
    <3>3. CASE os[k] # <<>>
      <4>1. PICK m \in DOMAIN ns \ DOMAIN lists : ns[m] = Shifted(os[k], a)
        BY <1>12, <2>1, <3>1, <3>3
      <4>2. m \in DOMAIN call'.new_lists \ DOMAIN lists /\ call'.new_lists[m] = ns[m]
        BY <1>1, <1>10, <4>1
      <4> QED
        BY <3>1, <4>1, <4>2
    <3> QED
      BY <3>2, <3>3
  <2> QED
    BY <2>2, <2>3
<1>14. CopyInv'
  BY <1>1, <1>5, <1>12, <1>13 DEF CopyInv
<1> QED
  BY <1>9, <1>14

LEMMA ConcatEndShows ==
    ASSUME IInv, IInv', CopyInv, concat_end
    PROVE  Shows /\ call'.op # "concat"
<1> DEFINE a == call.add_id
           E == Entries(lists)
           F == Entries(lists')
           P == Unmerged
           ns == call.new_lists
<1>1. /\ call.op = "concat" /\ Pending = {} /\ lists' = ns /\ call' = Idle
      /\ other' = [other EXCEPT !.ntotal = 0]
  BY DEF concat_end
<1>2. /\ IsConcat(call) /\ IsLists(other.lists)
      /\ other = [lists |-> other.lists, ntotal |-> other.ntotal]
  BY <1>1, CallKinds DEF IInv, OrderInv, ShapeInv
<1>3. a \in Nat /\ IsLists(ns)
  BY <1>2 DEF IsConcat
<1>4. /\ DOMAIN lists \subseteq DOMAIN ns /\ \A l \in DOMAIN lists : ns[l] = lists[l]
      /\ Unique(ns)
  BY <1>1 DEF IInv, IdInv, MergeInv
<1>5. /\ other.ntotal # 0 /\ a \in Shifts
      /\ \A l \in DOMAIN other.lists :
            other.lists[l] = <<>> \/
            \E n \in DOMAIN ns \ DOMAIN lists : ns[n] = Shifted(other.lists[l], a)
  BY <1>1 DEF CopyInv
<1>6. P = Pool(other.lists, ns, DOMAIN lists, a)
  BY <1>1, <1>5, UnmergedIs
<1>7. Unmerged' = {}
  <2>1. other'.ntotal = 0
    BY <1>1, <1>2
  <2> QED
    BY <2>1, UnmergedIs
<1>8. call'.op = "none" /\ Doomed' = Doomed
  BY <1>1, DoomedIs DEF Idle
<1>9. OneOfEachId(E) /\ OneOfEachId(F)
  BY OnceBefore, OnceAfter
<1>10. Held = DictOf(E) /\ Held' = DictOf(F)
  BY HeldIs
<1> HIDE DEF P, a, ns
<1>11. /\ F = E \cup MovedAll(P, a)
       /\ \A x \in P : \E m \in DOMAIN ns \ DOMAIN lists : \E p \in DOMAIN ns[m] : ns[m][p] = Moved(x, a)
  BY <1>1, <1>2, <1>3, <1>4, <1>5, <1>6, PoolMoved
<1>12. \A e \in E : \A x \in P : e.id # x.id + a
  <2> SUFFICES ASSUME NEW e \in E, NEW x \in P, e.id = x.id + a PROVE FALSE
    OBVIOUS
  <2>1. PICK m \in DOMAIN ns \ DOMAIN lists : \E p \in DOMAIN ns[m] : ns[m][p] = Moved(x, a)
    BY <1>11
  <2>2. PICK p \in DOMAIN ns[m] : ns[m][p] = Moved(x, a)
    BY <2>1
  <2>3. PICK l \in DOMAIN lists : \E q \in DOMAIN lists[l] : e = lists[l][q]
    BY EntriesAre
  <2>4. PICK q \in DOMAIN lists[l] : e = lists[l][q]
    BY <2>3
  <2>5. l \in DOMAIN ns /\ q \in DOMAIN ns[l] /\ ns[l][q] = e
    BY <1>4, <2>4
  <2>6. ns[m][p].id = ns[l][q].id
    BY <2>2, <2>5 DEF Moved
  <2>7. m = l
    BY <1>4, <2>5, <2>6 DEF Unique
  <2> QED
    BY <2>1, <2>7
<1> HIDE DEF E, F
<1>13. MovedIds(P, a) \cap DOMAIN Held = {} /\ Held' = Absorbed(Held, P, a)
  BY <1>9, <1>10, <1>11, <1>12, DictAbsorb
<1> QED
  BY <1>5, <1>7, <1>8, <1>13, ShowsAbsorb DEF Shows, P

-----------------------------------------------------------------------------
(* The refinement. *)

LEMMA InitShows ==
    ASSUME Init
    PROVE  Store!SInit /\ CopyInv
<1>1. /\ lists = [l \in 0 .. (NList - 1) |-> <<>>] /\ call = Idle
      /\ call.op = "none"
  BY DEF Init, Idle
<1>2. PICK s \in Sources : other = [lists |-> s, ntotal |-> SizeOf(s)]
  BY DEF Init
<1>3. Entries(lists) = {}
  <2>1. \A l \in DOMAIN lists : DOMAIN lists[l] = {}
    BY <1>1
  <2>2. \A e : e \notin Entries(lists)
    BY <2>1, EntriesAre
  <2> QED
    BY <2>2
<1>4. Held = <<>>
  <2>1. Held = [id \in {} |-> (CHOOSE e \in {} : e.id = id).code]
    BY <1>3, HeldIs DEF DictOf
  <2> QED
    BY <2>1
<1>5. Doomed = {}
  BY <1>1, DoomedIs
<1>6. Unmerged \in SUBSET [id : Nat, code : Nat]
  <2>1. Unmerged = {} \/ Unmerged = Entries(s)
    BY <1>1, <1>2 DEF Unmerged
  <2>2. s \in [DOMAIN s -> Seq([id : Nat, code : Nat])]
    BY SourcesAssumption
  <2>3. \A l \in DOMAIN s : \A p \in DOMAIN s[l] : s[l][p] \in [id : Nat, code : Nat]
    <3> SUFFICES ASSUME NEW l \in DOMAIN s, NEW p \in DOMAIN s[l]
                 PROVE  s[l][p] \in [id : Nat, code : Nat]
      OBVIOUS
    <3> DEFINE es == s[l]
               X == [id : Nat, code : Nat]
    <3>1. es \in Seq(X) /\ p \in DOMAIN es
      BY <2>2
    <3> HIDE DEF es, X
    <3>2. es[p] \in X
      BY <3>1
    <3> QED
      BY <3>2 DEF es, X
  <2>4. Entries(s) \subseteq [id : Nat, code : Nat]
    BY <2>3, EntriesAre
  <2> QED
    BY <2>1, <2>4
<1>7. CopyInv
  BY <1>1 DEF CopyInv
<1> QED
  BY <1>4, <1>5, <1>6, <1>7 DEF Store!SInit, Held

LEMMA NextShows ==
    ASSUME IInv, IInv', CopyInv, [Next]_vars
    PROVE  Shows /\ CopyInv'
<1>1. (Shows /\ call'.op # "concat") => (Shows /\ CopyInv')
  BY DEF CopyInv
<1>2. OrderInv
  BY DEF IInv
<1>3. ASSUME NEW ids, NEW ls,
             add_with_ids(ids, ls) \/ update_vectors(ids, ls) \/ remove_ids(ids)
      PROVE  Shows /\ CopyInv'
  BY <1>1, <1>3, AddWithIdsShows, UpdateVectorsShows, RemoveIdsShows
<1>4. ASSUME NEW r \in Ranks, add_one(r)
      PROVE  Shows /\ CopyInv'
  BY <1>1, <1>4, AddOneShows
<1>5. ASSUME add_end \/ reset \/ scan \/ remove_next \/ remove_end \/ update_one \/ update_end
      PROVE  Shows /\ CopyInv'
  BY <1>1, <1>5, AddEndShows, ResetShows, ScanShows, RemoveNextShows, RemoveEndShows,
     UpdateOneShows, UpdateEndShows
<1>6. ASSUME NEW t \in Types, set_type(t)
      PROVE  Shows /\ CopyInv'
  BY <1>1, <1>6, SetTypeShows
<1>7. ASSUME NEW a \in Shifts, merge_from(a)
      PROVE  Shows /\ CopyInv'
  BY <1>1, <1>7, MergeFromShows
<1>8. ASSUME NEW a \in Shifts, ivfflat_concat_merge(a) \/ ivfpq_concat_merge(a)
      PROVE  Shows /\ CopyInv'
  <2>1. \E flat \in BOOLEAN : BeginConcat(a, flat)
    BY <1>8 DEF ivfflat_concat_merge, ivfpq_concat_merge
  <2> QED
    BY <2>1, BeginConcatShows
<1>9. ASSUME NEW l \in DOMAIN other.lists, concat_list(l)
      PROVE  Shows /\ CopyInv'
  BY <1>9, ConcatListShows
<1>10. CASE concat_end
  BY <1>1, <1>10, ConcatEndShows
<1>11. CASE UNCHANGED vars
  <2>1. lists' = lists /\ call' = call /\ other' = other
    BY <1>11 DEF vars
  <2>2. StoredIds' = StoredIds /\ Entries(lists') = Entries(lists) /\ Pending' = Pending
    BY <2>1 DEF StoredIds, Entries, Places, Pending
  <2>3. Doomed' = Doomed
    BY <2>1, <2>2 DEF Doomed
  <2>4. Unmerged' = Unmerged
    BY <2>1 DEF Unmerged, Entries, Places
  <2>5. CopyInv'
    BY <2>1, <2>2 DEF CopyInv
  <2> QED
    BY <2>2, <2>3, <2>4, <2>5, ShowsNothing DEF Shows
<1> QED
  BY <1>3, <1>4, <1>5, <1>6, <1>7, <1>8, <1>9, <1>10, <1>11 DEF Next

(* ImplementsIdStore, if callers leave unassigned vectors alone: seen from   *)
(* outside the index is a dictionary.  Adding enters an id once, removing    *)
(* takes away the ids asked for and no others whatever entries move into     *)
(* their places, updating replaces a code, and a merge, although it copies   *)
(* list by list, takes over every vector of the other index in one step.     *)
THEOREM ImplementsDictionary ==
    ASSUME Careful
    PROVE  Spec => ImplementsIdStore
<1>1. Init => IInv /\ CopyInv /\ Store!SInit
  BY InitIInv, InitShows
<1>2. IInv /\ CopyInv /\ [Next]_vars => IInv' /\ CopyInv' /\ [Store!SNext]_Store!svars
  <2> SUFFICES ASSUME IInv, CopyInv, [Next]_vars
               PROVE  IInv' /\ CopyInv' /\ [Store!SNext]_Store!svars
    OBVIOUS
  <2>1. IInv'
    BY NextIInv
  <2>2. Shows /\ CopyInv'
    BY <2>1, NextShows
  <2> QED
    BY <2>1, <2>2 DEF Shows
<1> QED
  BY <1>1, <1>2, PTL DEF Spec, ImplementsIdStore, Store!SSpec
===============================================================================

--------------------------- MODULE SubIndexes_proofs ---------------------------
(***************************************************************************)
(* Proofs about SubIndexes for any number of indexes, any batches and any  *)
(* sequence of calls, whichever of them throw.                             *)
(*                                                                         *)
(* The inductive invariant has three parts.  Typed: the types.  Counts:    *)
(* what is known of the sizes while a call is in progress, so that ntotal  *)
(* is right when it ends.  Undisturbed: what is known of the vectors, as   *)
(* long as no call threw and no index with vectors came or went; in the    *)
(* middle of an add it says which parts of the batch have arrived.         *)
(***************************************************************************)
EXTENDS SubIndexes, Sums_proofs, SequenceTheorems

Vector == [id : Nat, code : Nat]

(* The types. *)
Typed ==
    /\ kind \in Kinds
    /\ sub \in [Subs -> [vecs : Seq(Vector), trained : BOOLEAN]]
    /\ indices \in Seq(Subs)
    /\ \A j, k \in Positions : indices[j] = indices[k] => j = k
    /\ ntotal \in Nat
    /\ nadded \in Nat
    /\ stale \in BOOLEAN
    /\ past \subseteq {"threw", "filled", "removed", "given"}
    /\ \/ call = Idle
       \/ call = [op |-> "onAfterAddIndex"] /\ indices # <<>>
       \/ call = [op |-> "onAfterRemoveIndex"]
       \/ call \in [op : {"train", "reset", "add"}, batch : Seq(Vector),
                    todo : SUBSET Positions, threw : BOOLEAN]

Running == {"train", "reset", "add"}
Done == Positions \ call.todo
VecsAt(k) == sub[indices[k]].vecs

(* Counting: what a call in progress knows of the sizes. *)
Counts ==
    /\ call = Idle => TotalAgrees
    /\ call.op = "onAfterAddIndex" /\ ~stale /\ kind = "replicas" =>
          \A k \in 1 .. (Len(indices) - 1) : Size(indices[k]) = ntotal
    /\ call.op = "reset" /\ ~call.threw => \A k \in Done : VecsAt(k) = <<>>

(* The sizes by index, so that the sum does not depend on the positions. *)
SizeOf == [s \in Subs |-> Size(s)]
Held == SumFunctionOnSet(SizeOf, Members)

(* With "successive": a shard numbers its vectors from 0, and their codes   *)
(* from first + 1.                                                          *)
Numbered(k, first) ==
    \A i \in 1 .. Size(indices[k]) : VecsAt(k)[i] = [id |-> i - 1, code |-> first + i]

(* the replicas that onAfterAddIndex has accepted *)
Accepted == 1 .. (IF call.op = "onAfterAddIndex" THEN Len(indices) - 1 ELSE Len(indices))

(* The collection between the functions of two calls. *)
Whole ==
    /\ kind # "replicas" => Held = nadded
    /\ kind = "shards" => Labels = 0 .. (nadded - 1)
    /\ kind = "successive" => \A k \in Positions : Numbered(k, translations(k))
    /\ kind = "replicas" =>
          /\ \A j, k \in Accepted : VecsAt(j) = VecsAt(k)
          /\ \A k \in Accepted : Size(indices[k]) = nadded
          /\ Accepted = {} => nadded = 0
    /\ call.op = "onAfterAddIndex" => VecsAt(Len(indices)) = <<>>

InPart(k, i) == SplitAt(k, Len(call.batch)) < i /\ i <= SplitAt(k + 1, Len(call.batch))
PartSizes == [k \in Positions |-> Len(Part(k))]

(* The collection while a batch is added and no shard has thrown. *)
AddingToShards ==
    /\ \A i \in DOMAIN call.batch : call.batch[i].id = nadded + i - 1
    /\ Held = nadded + SumFunctionOnSet(PartSizes, Done)
    /\ Labels = 0 .. (nadded - 1) \union
                   {nadded + i - 1 : i \in {j \in DOMAIN call.batch : \E k \in Done : InPart(k, j)}}

AddingSuccessive ==
    /\ nadded = 0
    /\ \A i \in DOMAIN call.batch : call.batch[i].code = i
    /\ \A k \in call.todo : VecsAt(k) = <<>>
    /\ \A k \in Done : /\ Size(indices[k]) = Len(Part(k))
                       /\ Numbered(k, SplitAt(k, Len(call.batch)))

AddingToReplicas ==
    /\ indices = <<>> => nadded = 0
    /\ \A j, k \in call.todo : VecsAt(j) = VecsAt(k)
    /\ \A k \in call.todo : Size(indices[k]) = nadded
    /\ \A j, k \in Done : VecsAt(j) = VecsAt(k)
    /\ \A k \in Done : Size(indices[k]) = nadded + Len(call.batch)
    /\ \A j \in call.todo, k \in Done : VecsAt(k) = Added(indices[j], call.batch)

Adding ==
    /\ kind = "shards" => AddingToShards
    /\ kind = "successive" => AddingSuccessive
    /\ kind = "replicas" => AddingToReplicas

Undisturbed == past = {} =>
    /\ ~stale
    /\ call.op \notin {"reset", "add"} => Whole
    /\ call.op = "add" /\ ~call.threw => Adding

-----------------------------------------------------------------------------
(* Splitting a batch. *)

(* Division, as multiplication. *)
LEMMA DivideBy ==
    ASSUME NEW a \in Nat, NEW m \in Nat, m > 0
    PROVE  a \div m \in Nat /\ m * (a \div m) <= a /\ a < m * (a \div m) + m
OBVIOUS

(* A quotient is at least q if the dividend is at least q divisors. *)
LEMMA QuotientAtLeast ==
    ASSUME NEW a \in Nat, NEW m \in Nat, m > 0, NEW q \in Nat, m * q <= a
    PROVE  q <= a \div m
<1> DEFINE d == a \div m
<1>1. d \in Nat /\ m * d <= a /\ a < m * d + m
  BY DivideBy
<1> HIDE DEF d
<1>2. CASE d < q
  <2>1. q = d + 1 + (q - d - 1) /\ q - d - 1 \in Nat
    BY <1>1, <1>2
  <2>2. m * q = m * d + m + m * (q - d - 1)
    BY <1>1, <2>1
  <2>3. m * (q - d - 1) \in Nat /\ m * d \in Nat
    BY <1>1, <2>1
  <2> QED
    BY <1>1, <2>2, <2>3
<1> QED
  BY <1>1, <1>2 DEF d

(* The points at which a batch is cut: from 0 to the end, in order. *)
LEMMA Cuts ==
    ASSUME indices \in Seq(Subs), indices # <<>>, NEW n \in Nat
    PROVE  /\ SplitAt(1, n) = 0
           /\ SplitAt(Len(indices) + 1, n) = n
           /\ \A k \in 1 .. (Len(indices) + 1) : SplitAt(k, n) \in 0 .. n
           /\ \A k \in 1 .. Len(indices) : SplitAt(k, n) <= SplitAt(k + 1, n)
<1> DEFINE m == Len(indices)
<1>1. m \in Nat /\ m > 0
  OBVIOUS
<1> HIDE DEF m
<1>2. \A k \in 1 .. (m + 1) : (k - 1) * n \in Nat /\ (k - 1) * n <= m * n
  BY <1>1
<1>3. SplitAt(1, n) = 0
  <2>1. (1 - 1) * n = 0
    OBVIOUS
  <2>2. 0 \div m = 0
    BY <1>1, DivideBy
  <2> QED
    BY <2>1, <2>2 DEF SplitAt, m
<1>4. SplitAt(m + 1, n) = n
  <2>1. ((m + 1) - 1) * n = m * n
    BY <1>1
  <2>2. m * n \in Nat
    BY <1>1
  <2>3. n <= (m * n) \div m
    BY <1>1, <2>2, QuotientAtLeast
  <2>4. (m * n) \div m \in Nat /\ m * ((m * n) \div m) <= m * n
    BY <1>1, <2>2, DivideBy
  <2>5. (m * n) \div m <= n
    BY <1>1, <2>4
  <2> QED
    BY <2>1, <2>3, <2>4, <2>5 DEF SplitAt, m
<1>5. ASSUME NEW k \in 1 .. m PROVE SplitAt(k, n) <= SplitAt(k + 1, n)
  <2> DEFINE q == ((k - 1) * n) \div m
  <2>1. (k - 1) * n \in Nat /\ ((k + 1) - 1) * n \in Nat /\ (k - 1) * n <= ((k + 1) - 1) * n
    BY <1>1
  <2>2. q \in Nat /\ m * q <= (k - 1) * n
    BY <1>1, <2>1, DivideBy
  <2> HIDE DEF q
  <2>3. m * q <= ((k + 1) - 1) * n
    BY <1>1, <2>1, <2>2
  <2>4. q <= (((k + 1) - 1) * n) \div m
    BY <1>1, <2>1, <2>2, <2>3, QuotientAtLeast
  <2> QED
    BY <2>4 DEF SplitAt, m, q
<1>6. ASSUME NEW k \in 1 .. (m + 1) PROVE SplitAt(k, n) \in 0 .. n
  <2> DEFINE q == ((k - 1) * n) \div m
  <2>1. q \in Nat /\ m * q <= (k - 1) * n
    BY <1>1, <1>2, DivideBy
  <2>2. m * q <= m * n
    BY <1>1, <1>2, <2>1
  <2> HIDE DEF q
  <2>3. q <= n
    BY <1>1, <2>1, <2>2
  <2> QED
    BY <2>1, <2>3 DEF SplitAt, m, q
<1> QED
  BY <1>3, <1>4, <1>5, <1>6 DEF m

(* What the k-th shard is given: a run of the batch, as long as its part. *)
LEMMA Parts ==
    ASSUME Typed, call.op \in Running, NEW k \in Positions
    PROVE  /\ Part(k) \in Seq(Vector)
           /\ kind # "replicas" =>
                 LET first == SplitAt(k, Len(call.batch))
                 IN  /\ Len(Part(k)) = SplitAt(k + 1, Len(call.batch)) - first
                     /\ \A i \in 1 .. Len(Part(k)) :
                           /\ first + i \in 1 .. Len(call.batch)
                           /\ Part(k)[i] = call.batch[first + i]
<1> DEFINE n == Len(call.batch)
           b == SplitAt(k, n)
           e == SplitAt(k + 1, n)
<1>1. call.batch \in Seq(Vector) /\ n \in Nat
  BY DEF Typed, Running, Idle
<1>2. indices \in Seq(Subs) /\ indices # <<>> /\ k \in 1 .. Len(indices)
  BY DEF Typed, Positions
<1>3. b \in 0 .. n /\ e \in 0 .. n /\ b <= e
  <2> HIDE DEF n
  <2>1. Len(indices) \in Nat /\ k \in 1 .. (Len(indices) + 1) /\ k + 1 \in 1 .. (Len(indices) + 1)
    BY <1>2
  <2>2. /\ \A j \in 1 .. (Len(indices) + 1) : SplitAt(j, n) \in 0 .. n
        /\ \A j \in 1 .. Len(indices) : SplitAt(j, n) <= SplitAt(j + 1, n)
    BY <1>1, <1>2, Cuts
  <2> QED
    BY <1>2, <2>1, <2>2
<1> HIDE DEF b, e, n
<1>4. \A i \in (b + 1) .. e : call.batch[i] \in Vector
  BY <1>1, <1>3 DEF n
<1>5. /\ SubSeq(call.batch, b + 1, e) \in Seq(Vector)
      /\ Len(SubSeq(call.batch, b + 1, e)) = e - b
      /\ \A i \in 1 .. (e - b) :
            SubSeq(call.batch, b + 1, e)[i] = call.batch[b + i]
  <2>1. b + 1 \in Int /\ e \in Int /\ e - (b + 1) + 1 = e - b
    BY <1>1, <1>3
  <2>2. \A i \in 1 .. (e - b) : (b + 1) + i - 1 = b + i
    BY <1>1, <1>3
  <2> QED
    BY <1>1, <1>3, <1>4, <2>1, <2>2, SubSeqProperties
<1>6. kind # "replicas" => Part(k) = SubSeq(call.batch, b + 1, e)
  BY DEF Part, b, e, n
<1>7. kind = "replicas" => Part(k) = call.batch
  BY DEF Part
<1>8. \A i \in 1 .. (e - b) : b + i \in 1 .. n
  BY <1>1, <1>3
<1> QED
  BY <1>1, <1>5, <1>6, <1>7, <1>8 DEF b, e, n

(* Every vector of the batch is in a part. *)
LEMMA PartsCover ==
    ASSUME Typed, call.op \in Running, indices # <<>>, NEW i \in 1 .. Len(call.batch)
    PROVE  \E k \in Positions : InPart(k, i)
<1> DEFINE n == Len(call.batch)
           Reaching == {k \in Positions : i <= SplitAt(k + 1, n)}
<1>1. n \in Nat /\ indices \in Seq(Subs) /\ Positions = 1 .. Len(indices)
  BY DEF Typed, Running, Idle, Positions
<1> HIDE DEF n
<1>c. /\ SplitAt(1, n) = 0
      /\ SplitAt(Len(indices) + 1, n) = n
      /\ \A j \in 1 .. (Len(indices) + 1) : SplitAt(j, n) \in 0 .. n
  BY <1>1, Cuts
<1>i. i \in 1 .. n
  BY DEF n
<1>2. Reaching \subseteq Nat /\ Len(indices) \in Reaching
  BY <1>1, <1>c, <1>i
<1>3. PICK k \in Reaching : \A j \in Reaching : k <= j
  <2> HIDE DEF Reaching
  <2> QED
    BY <1>2, SmallestOf
<1>4. SplitAt(k, n) < i
  <2>1. CASE k = 1
    BY <1>1, <1>c, <1>i, <2>1
  <2>2. CASE k # 1
    <3>1. k - 1 \in Positions /\ (k - 1) + 1 = k /\ k \in 1 .. (Len(indices) + 1)
      BY <1>1, <2>2
    <3>2. k - 1 \notin Reaching
      <4> HIDE DEF Reaching
      <4>1. k \in Nat
        BY <1>2
      <4> QED
        BY <1>3, <4>1
    <3>3. ~ (i <= SplitAt(k, n))
      BY <3>1, <3>2
    <3>4. SplitAt(k, n) \in 0 .. n
      BY <1>c, <3>1
    <3> QED
      BY <1>1, <1>i, <3>3, <3>4
  <2> QED
    BY <2>1, <2>2
<1> QED
  BY <1>4 DEF InPart, n
-----------------------------------------------------------------------------
(* Types. *)

LEMMA SumsTyped ==
    ASSUME Typed
    PROVE  /\ Positions = 1 .. Len(indices)
           /\ \A S \in SUBSET Positions : IsFiniteSet(S) /\ SumFunctionOnSet(Sizes, S) \in Nat
           /\ \A s \in Subs : Size(s) \in Nat /\ SizeOf[s] = Size(s)
           /\ \A k \in Positions : indices[k] \in Subs /\ Sizes[k] = Size(indices[k])
<1>1. Positions = 1 .. Len(indices) /\ Len(indices) \in Nat
  BY DEF Positions, Typed
<1>2. \A s \in Subs : Size(s) \in Nat /\ SizeOf[s] = Size(s)
  BY DEF Typed, Size, SizeOf
<1>3. \A k \in Positions : indices[k] \in Subs /\ Sizes[k] = Size(indices[k])
  BY DEF Typed, Sizes, Positions
<1>4. \A S \in SUBSET Positions : IsFiniteSet(S)
  <2>1. IsFiniteSet(Positions)
    BY <1>1, FS_Interval
  <2> QED
    BY <2>1, FS_Subset
<1>5. ASSUME NEW S \in SUBSET Positions PROVE SumFunctionOnSet(Sizes, S) \in Nat
  BY <1>2, <1>3, <1>4, SumIsNat
<1> QED
  BY <1>1, <1>2, <1>3, <1>4, <1>5

LEMMA TypedInit == Init => Typed
<1> SUFFICES ASSUME Init PROVE Typed
  OBVIOUS
<1>1. [vecs |-> <<>>, trained |-> FALSE] \in [vecs : Seq(Vector), trained : BOOLEAN]
  OBVIOUS
<1>2. sub \in [Subs -> [vecs : Seq(Vector), trained : BOOLEAN]]
  BY <1>1 DEF Init
<1>3. indices = <<>> /\ indices \in Seq(Subs) /\ Positions = {} /\ call = Idle
  BY DEF Init, Positions
<1>4. kind \in Kinds /\ ntotal \in Nat /\ nadded \in Nat /\ stale \in BOOLEAN /\ past = {}
  BY DEF Init
<1> QED
  BY <1>2, <1>3, <1>4 DEF Typed(* Bringing the count up to date. *)
LEMMA SyncTyped ==
    ASSUME Typed, syncWithSubIndexes
    PROVE  ntotal' \in Nat /\ stale' \in BOOLEAN
           /\ past' \subseteq {"threw", "filled", "removed", "given"}
<1>1. CASE indices = <<>>
  BY <1>1 DEF syncWithSubIndexes, Thrown, Typed
<1>2. CASE indices # <<>>
  <2>1. 1 \in Positions
    BY <1>2, SumsTyped DEF Typed
  <2>2. SyncedTotal \in Nat
    BY <2>1, SumsTyped DEF SyncedTotal, Counted
  <2> QED
    BY <1>2, <2>2 DEF syncWithSubIndexes, Thrown, Typed
<1> QED
  BY <1>1, <1>2

(* A batch is a sequence of vectors. *)
LEMMA BatchTyped ==
    ASSUME Typed, NEW n \in BatchSizes, NEW first \in GivenIds
    PROVE  Batch(n) \in Seq(Vector) /\ GivenBatch(n, first) \in Seq(Vector)
<1>1. n \in Nat /\ first \in Nat /\ ntotal \in Nat
  BY BatchesAssumption DEF Typed
<1>2. \A i \in 1 .. n : /\ [id |-> AutoId(i), code |-> i] \in Vector
                        /\ [id |-> first + i - 1, code |-> i] \in Vector
  BY <1>1 DEF AutoId, Vector
<1>3. Batch(n) \in [1 .. n -> Vector] /\ GivenBatch(n, first) \in [1 .. n -> Vector]
  BY <1>1, <1>2 DEF Batch, GivenBatch
<1> QED
  BY <1>1, <1>3

(* What a sub-index holds after its part was added. *)
LEMMA AddedTyped ==
    ASSUME Typed, NEW s \in Subs, NEW vecs \in Seq(Vector)
    PROVE  /\ Added(s, vecs) \in Seq(Vector)
           /\ Len(Added(s, vecs)) = Size(s) + Len(vecs)
           /\ \A i \in 1 .. Size(s) : Added(s, vecs)[i] = sub[s].vecs[i]
           /\ \A i \in 1 .. Len(vecs) : Added(s, vecs)[Size(s) + i] =
                 IF kind = "shards" THEN vecs[i]
                 ELSE [id |-> Size(s) + i - 1, code |-> vecs[i].code]
<1>1. sub[s].vecs \in Seq(Vector) /\ Size(s) = Len(sub[s].vecs) /\ Size(s) \in Nat
  BY DEF Typed, Size
<1>2. \A i \in DOMAIN vecs : vecs[i] \in Vector
  OBVIOUS
<1>3. OwnIds(s, vecs) \in Seq(Vector) /\ Len(OwnIds(s, vecs)) = Len(vecs)
      /\ \A i \in 1 .. Len(vecs) :
            OwnIds(s, vecs)[i] = [id |-> Size(s) + i - 1, code |-> vecs[i].code]
  <2>1. DOMAIN vecs = 1 .. Len(vecs) /\ Len(vecs) \in Nat
    OBVIOUS
  <2>2. \A i \in 1 .. Len(vecs) : [id |-> Size(s) + i - 1, code |-> vecs[i].code] \in Vector
    <3> TAKE i \in 1 .. Len(vecs)
    <3>1. Size(s) + i - 1 \in Nat
      BY <1>1, <2>1
    <3>2. vecs[i].code \in Nat
      BY <1>2, <2>1 DEF Vector
    <3> QED
      BY <3>1, <3>2 DEF Vector
  <2>3. OwnIds(s, vecs) = [i \in 1 .. Len(vecs) |-> [id |-> Size(s) + i - 1, code |-> vecs[i].code]]
    BY <2>1 DEF OwnIds
  <2>4. OwnIds(s, vecs) \in Seq(Vector)
    BY <2>1, <2>2, <2>3
  <2> QED
    BY <2>1, <2>3, <2>4
<1>4. ASSUME NEW v \in Seq(Vector), Added(s, vecs) = sub[s].vecs \o v, Len(v) = Len(vecs)
      PROVE  /\ Added(s, vecs) \in Seq(Vector)
             /\ Len(Added(s, vecs)) = Size(s) + Len(vecs)
             /\ \A i \in 1 .. Size(s) : Added(s, vecs)[i] = sub[s].vecs[i]
             /\ \A i \in 1 .. Len(vecs) : Added(s, vecs)[Size(s) + i] = v[i]
  <2> DEFINE old == sub[s].vecs
  <2>1. /\ old \o v \in Seq(Vector)
        /\ Len(old \o v) = Len(old) + Len(v)
        /\ \A i \in 1 .. Len(old) + Len(v) :
              (old \o v)[i] = IF i <= Len(old) THEN old[i] ELSE v[i - Len(old)]
    BY <1>1, ConcatProperties
  <2>2. Len(old) \in Nat /\ Len(v) \in Nat /\ Len(old) = Size(s)
    BY <1>1
  <2> HIDE DEF old
  <2>3. \A i \in 1 .. Len(v) : (old \o v)[Len(old) + i] = v[i]
    <3> TAKE i \in 1 .. Len(v)
    <3>1. Len(old) + i \in 1 .. Len(old) + Len(v) /\ ~ (Len(old) + i <= Len(old))
          /\ Len(old) + i - Len(old) = i
      BY <2>2
    <3> QED
      BY <2>1, <3>1
  <2>4. \A i \in 1 .. Len(old) : (old \o v)[i] = old[i]
    BY <2>1, <2>2
  <2> QED
    BY <1>4, <2>1, <2>2, <2>3, <2>4 DEF old
<1>5. CASE kind = "shards"
  BY <1>4, <1>5 DEF Added
<1>6. CASE kind # "shards"
  BY <1>3, <1>4, <1>6 DEF Added
<1> QED
  BY <1>5, <1>6

(* Calls that only touch the call itself and bookkeeping keep the types. *)
LEMMA TypedCall ==
    ASSUME Typed, UNCHANGED <<kind, sub, indices>>,
           ntotal' \in Nat, nadded' \in Nat, stale' \in BOOLEAN,
           past' \subseteq {"threw", "filled", "removed", "given"},
           \/ call' = Idle
           \/ call' \in [op : {"train", "reset", "add"}, batch : Seq(Vector),
                         todo : SUBSET Positions, threw : BOOLEAN]
    PROVE  Typed'
<1>1. Positions' = Positions
  BY DEF Positions
<1> QED
  BY <1>1 DEF Typed, Idle

LEMMA TypedRun ==
    ASSUME Typed, NEW op \in Running, NEW batch \in Seq(Vector), Run(op, batch)
    PROVE  call' \in [op : {"train", "reset", "add"}, batch : Seq(Vector),
                      todo : SUBSET Positions, threw : BOOLEAN]
BY DEF Run, Running

LEMMA TypedStep == Typed /\ [Next]_vars => Typed'
<1> SUFFICES ASSUME Typed, [Next]_vars PROVE Typed'
  OBVIOUS
<1>1. ASSUME NEW s \in Subs, addIndex(s) PROVE Typed'
  <2>1. indices' = Append(indices, s) /\ indices \in Seq(Subs)
    BY <1>1 DEF addIndex, Typed
  <2>2. indices' \in Seq(Subs) /\ indices' # <<>> /\ Positions' = 1 .. (Len(indices) + 1)
    BY <2>1 DEF Positions
  <2>3. \A j, k \in Positions' : indices'[j] = indices'[k] => j = k
    <3>1. Positions = 1 .. Len(indices) /\ \A k \in Positions : indices[k] # s
      BY <1>1 DEF addIndex, IsNew, Members, Positions, Typed
    <3>2. \A k \in Positions : indices'[k] = indices[k]
      BY <2>1, <3>1
    <3>3. indices'[Len(indices) + 1] = s
      BY <2>1
    <3> QED
      BY <2>1, <2>2, <3>1, <3>2, <3>3 DEF Typed
  <2>4. past' \subseteq {"threw", "filled", "removed", "given"}
    BY <1>1 DEF addIndex, Typed
  <2> QED
    BY <1>1, <2>2, <2>3, <2>4 DEF addIndex, Typed
<1>2. ASSUME NEW r \in Positions, removeIndex(r) PROVE Typed'
  <2>1. /\ indices \in Seq(Subs) /\ r \in 1 .. Len(indices) /\ Len(indices) \in Nat
        /\ \A k \in 1 .. Len(indices) : indices[k] \in Subs
    BY DEF Typed, Positions
  <2>2. indices' = [j \in 1 .. (Len(indices) - 1) |-> indices[IF j < r THEN j ELSE j + 1]]
    BY <1>2 DEF removeIndex
  <2>3. \A j \in 1 .. (Len(indices) - 1) : (IF j < r THEN j ELSE j + 1) \in 1 .. Len(indices)
    BY <2>1
  <2>4. Positions' = 1 .. (Len(indices) - 1)
    BY <2>2 DEF Positions
  <2>5. indices' \in Seq(Subs)
    <3>1. Len(indices) - 1 \in Nat
      BY <2>1
    <3>2. indices' \in [1 .. (Len(indices) - 1) -> Subs]
      BY <2>1, <2>2, <2>3
    <3> QED
      BY <3>1, <3>2
  <2>6. ASSUME NEW j \in Positions', NEW k \in Positions', indices'[j] = indices'[k]
        PROVE  j = k
    <3> DEFINE a == IF j < r THEN j ELSE j + 1
               b == IF k < r THEN k ELSE k + 1
    <3>1. a \in Positions /\ b \in Positions
      BY <2>1, <2>3, <2>4 DEF Positions
    <3>2. indices[a] = indices[b]
      BY <2>2, <2>4, <2>6
    <3>3. a = b
      BY <3>1, <3>2 DEF Typed
    <3> QED
      BY <2>1, <2>4, <3>3
  <2>7. past' \subseteq {"threw", "filled", "removed", "given"}
    BY <1>2 DEF removeIndex, Typed
  <2> QED
    BY <1>2, <2>5, <2>6, <2>7 DEF removeIndex, Typed
<1>3. CASE onAfterAddIndex
  <2>1. ntotal' \in Nat /\ stale' \in BOOLEAN
        /\ past' \subseteq {"threw", "filled", "removed", "given"}
    <3>1. CASE kind = "replicas" /\ Len(indices) > 1
      BY <1>3, <3>1 DEF onAfterAddIndex, Thrown, Typed, Agrees
    <3>2. CASE ~(kind = "replicas" /\ Len(indices) > 1)
      BY <1>3, <3>2, SyncTyped DEF onAfterAddIndex
    <3> QED
      BY <3>1, <3>2
  <2> QED
    BY <1>3, <2>1, TypedCall DEF onAfterAddIndex, Typed
<1>4. CASE onAfterRemoveIndex
  BY <1>4, SyncTyped, TypedCall DEF onAfterRemoveIndex, Typed
<1>5. CASE train
  <2>1. <<>> \in Seq(Vector) /\ "train" \in Running
    BY DEF Running
  <2> QED
    BY <1>5, <2>1, TypedRun, TypedCall DEF train, Typed
<1>6. CASE reset
  <2>1. <<>> \in Seq(Vector) /\ "reset" \in Running
    BY DEF Running
  <2> QED
    BY <1>6, <2>1, TypedRun, TypedCall DEF reset, Typed
<1>7. ASSUME NEW n \in BatchSizes, add(n) PROVE Typed'
  <2>1. Batch(n) \in Seq(Vector) /\ "add" \in Running
    <3>1. n \in Nat /\ ntotal \in Nat
      BY BatchesAssumption DEF Typed
    <3>2. \A i \in 1 .. n : [id |-> AutoId(i), code |-> i] \in Vector
      BY <3>1 DEF AutoId, Vector
    <3>3. Batch(n) \in [1 .. n -> Vector]
      BY <3>2 DEF Batch
    <3> QED
      BY <3>1, <3>3 DEF Running
  <2> QED
    BY <1>7, <2>1, TypedRun, TypedCall DEF add, Typed
<1>8. ASSUME NEW n \in BatchSizes, NEW first \in GivenIds, add_with_ids(n, first) PROVE Typed'
  <2>1. GivenBatch(n, first) \in Seq(Vector) /\ "add" \in Running
    BY BatchTyped DEF Running
  <2> QED
    BY <1>8, <2>1, TypedRun, TypedCall DEF add_with_ids, Typed
<1>9. ASSUME NEW k \in Positions, run(k) PROVE Typed'
  <2> DEFINE s == indices[k]
  <2>1. s \in Subs /\ call.op \in Running
    BY <1>9, SumsTyped DEF run, Running
  <2>2. sub' \in [Subs -> [vecs : Seq(Vector), trained : BOOLEAN]]
    <3>1. sub \in [Subs -> [vecs : Seq(Vector), trained : BOOLEAN]]
      BY DEF Typed
    <3>2. CASE UNCHANGED sub
      BY <3>1, <3>2
    <3>3. CASE sub' = [sub EXCEPT ![s].trained = TRUE]
      BY <3>1, <3>3
    <3>4. CASE sub' = [sub EXCEPT ![s].vecs = <<>>]
      <4>1. <<>> \in Seq(Vector) /\ sub[s] \in [vecs : Seq(Vector), trained : BOOLEAN]
        BY <2>1, <3>1
      <4> DEFINE none == <<>>
      <4> HIDE DEF none
      <4>2. none \in Seq(Vector) /\ sub' = [sub EXCEPT ![s].vecs = none]
        BY <3>4, <4>1 DEF none
      <4> QED
        BY <2>1, <3>1, <4>2
    <3>5. CASE sub' = [sub EXCEPT ![s].vecs = Added(s, Part(k))]
      <4>1. Part(k) \in Seq(Vector)
        BY <2>1, Parts
      <4>2. Added(s, Part(k)) \in Seq(Vector)
        BY <2>1, <4>1, AddedTyped
      <4> QED
        BY <3>1, <3>5, <4>2
    <3> QED
      BY <1>9, <3>2, <3>3, <3>4, <3>5 DEF run
  <2>3. call \in [op : {"train", "reset", "add"}, batch : Seq(Vector),
                  todo : SUBSET Positions, threw : BOOLEAN]
    BY <2>1 DEF Typed, Running, Idle
  <2>4. call' \in [op : {"train", "reset", "add"}, batch : Seq(Vector),
                   todo : SUBSET Positions, threw : BOOLEAN]
    BY <1>9, <2>3 DEF run
  <2>5. Positions' = Positions
    BY <1>9 DEF run, Positions
  <2> QED
    BY <1>9, <2>2, <2>4, <2>5 DEF run, Typed
<1>10. CASE end
  <2>1. ntotal' \in Nat /\ stale' \in BOOLEAN
        /\ past' \subseteq {"threw", "filled", "removed", "given"}
    <3>1. CASE call.threw
      BY <1>10, <3>1 DEF end, Thrown, Typed
    <3>2. CASE ~call.threw /\ call.op = "reset"
      <4>1. past' = {} /\ stale' = FALSE /\ ntotal' = 0
        BY <1>10, <3>2 DEF end
      <4> QED
        BY <4>1
    <3>3. CASE ~call.threw /\ call.op # "reset"
      BY <1>10, <3>3, SyncTyped DEF end
    <3> QED
      BY <3>1, <3>2, <3>3
  <2>2. nadded' \in Nat
    <3>1. Len(call.batch) \in Nat
      BY <1>10 DEF end, Typed, Idle
    <3> QED
      BY <1>10, <3>1 DEF end, Typed
  <2> QED
    BY <1>10, <2>1, <2>2, TypedCall DEF end
<1>11. CASE UNCHANGED vars
  <2>1. Positions' = Positions
    BY <1>11 DEF vars, Positions
  <2> QED
    BY <1>11, <2>1 DEF vars, Typed
<1> QED
  BY <1>1, <1>2, <1>3, <1>4, <1>5, <1>6, <1>7, <1>8, <1>9, <1>10, <1>11 DEF Next

-----------------------------------------------------------------------------
(* Totals. *)

(* Between a call and its function the kind of call does not change. *)
LEMMA CallCases ==
    ASSUME Typed
    PROVE  /\ call = Idle <=> call.op = "none"
           /\ call.op \in {"none", "onAfterAddIndex", "onAfterRemoveIndex"} \union Running
           /\ call.op \in Running =>
                 /\ call \in [op : {"train", "reset", "add"}, batch : Seq(Vector),
                              todo : SUBSET Positions, threw : BOOLEAN]
                 /\ call.todo \subseteq Positions
                 /\ call.threw \in BOOLEAN
                 /\ call.batch \in Seq(Vector)
           /\ call.op = "onAfterAddIndex" => indices # <<>>
BY DEF Typed, Idle, Running

(* The sum of the sizes by position is the sum by index. *)
LEMMA HeldByPosition ==
    ASSUME Typed, NEW m \in 0 .. Len(indices)
    PROVE  SumFunctionOnSet(Sizes, 1 .. m) =
              SumFunctionOnSet(SizeOf, {indices[k] : k \in 1 .. m})
<1>1. 1 .. m \subseteq Positions /\ IsFiniteSet(1 .. m)
  <2>1. Len(indices) \in Nat /\ Positions = 1 .. Len(indices)
    BY SumsTyped DEF Typed
  <2>2. 1 .. m \subseteq 1 .. Len(indices)
    BY <2>1
  <2> QED
    BY <2>1, <2>2, SumsTyped
<1>2. \A j, k \in 1 .. m : indices[j] = indices[k] => j = k
  BY <1>1 DEF Typed
<1>3. \A k \in 1 .. m : Sizes[k] = SizeOf[indices[k]] /\ SizeOf[indices[k]] \in Nat
  BY <1>1, SumsTyped
<1> DEFINE S == 1 .. m
<1> HIDE DEF S
<1>4. /\ IsFiniteSet(S)
      /\ \A x, y \in S : indices[x] = indices[y] => x = y
      /\ \A x \in S : SizeOf[indices[x]] \in Nat
      /\ \A x \in S : Sizes[x] = SizeOf[indices[x]]
  BY <1>1, <1>2, <1>3 DEF S
<1>5. SumFunctionOnSet(Sizes, S) = SumFunctionOnSet(SizeOf, {indices[x] : x \in S})
  BY <1>4, SumReindexed
<1> QED
  BY <1>5 DEF S
LEMMA HeldIsTotal ==
    ASSUME Typed
    PROVE  SumFunction(Sizes) = Held /\ Held \in Nat /\ IsFiniteSet(Members)
           /\ Members = {indices[k] : k \in 1 .. Len(indices)} /\ Members \subseteq Subs
<1>1. DOMAIN Sizes = Positions /\ Positions = 1 .. Len(indices) /\ Len(indices) \in 0 .. Len(indices)
  BY SumsTyped DEF Sizes, Typed
<1>2. SumFunction(Sizes) = SumFunctionOnSet(Sizes, 1 .. Len(indices))
  BY <1>1 DEF SumFunction
<1>3. Members = {indices[k] : k \in 1 .. Len(indices)}
  BY <1>1 DEF Members
<1>4. SumFunction(Sizes) = Held
  BY <1>1, <1>2, <1>3, HeldByPosition DEF Held
<1>5. SumFunctionOnSet(Sizes, 1 .. Len(indices)) \in Nat
  BY <1>1, SumsTyped
<1>6. IsFiniteSet(Members)
  <2> DEFINE h == [k \in Positions |-> indices[k]]
  <2>1. h \in Surjection(Positions, Members)
    BY DEF Surjection, Members
  <2> QED
    BY <2>1, SumsTyped, FS_Surjection
<1>7. Members \subseteq Subs
  BY SumsTyped DEF Members
<1> QED
  BY <1>2, <1>3, <1>4, <1>5, <1>6, <1>7

TotalRight ==
    IF kind = "replicas" THEN \A k \in Positions : Size(indices[k]) = ntotal
    ELSE ntotal = SumFunction(Sizes)

(* syncWithSubIndexes sets ntotal right unless it throws. *)
LEMMA SyncRight ==
    ASSUME Typed, syncWithSubIndexes, UNCHANGED <<kind, sub, indices>>, ~stale'
    PROVE  TotalRight'
<1>1. Misfits = {}
  BY DEF syncWithSubIndexes, Thrown
<1>2. Positions' = Positions /\ Sizes' = Sizes /\ \A s : Size(s)' = Size(s)
  BY DEF Positions, Sizes, Size
<1>3. DOMAIN Sizes = Positions
  BY DEF Sizes
<1>4. CASE indices = <<>>
  <2>1. Positions = {} /\ ntotal' = 0
    BY <1>4 DEF Positions, syncWithSubIndexes
  <2>2. SumFunction(Sizes) = 0
    BY <1>3, <2>1, SumOfNone DEF SumFunction
  <2> QED
    BY <1>2, <2>1, <2>2 DEF TotalRight
<1>5. CASE indices # <<>>
  <2>1. ntotal' = SyncedTotal
    BY <1>5 DEF syncWithSubIndexes
  <2>2. CASE kind = "replicas"
    <3>1. \A k \in Positions : Size(indices[k]) = Size(indices[1])
      BY <1>1, <2>2 DEF Misfits, Agrees
    <3>2. ntotal' = Size(indices[1])
      BY <2>1, <2>2 DEF SyncedTotal
    <3> QED
      BY <1>2, <2>2, <3>1, <3>2 DEF TotalRight
  <2>3. CASE kind # "replicas"
    <3>1. Counted = Positions
      BY <1>1 DEF Counted
    <3>2. ntotal' = SumFunction(Sizes)
      BY <1>3, <2>1, <2>3, <3>1 DEF SyncedTotal, SumFunction
    <3> QED
      BY <1>2, <2>3, <3>2 DEF TotalRight
  <2> QED
    BY <2>2, <2>3
<1> QED
  BY <1>4, <1>5

(* A function that ran on the k-th index changes no other. *)
LEMMA RunElsewhere ==
    ASSUME Typed, NEW k \in Positions, run(k)
    PROVE  /\ UNCHANGED <<kind, indices, ntotal, nadded, stale, past>>
           /\ Positions' = Positions
           /\ \A j \in Positions \ {k} : VecsAt(j)' = VecsAt(j) /\ Size(indices[j])' = Size(indices[j])
           /\ call.op \in Running /\ call'.op = call.op /\ call'.batch = call.batch
           /\ k \in call.todo /\ call'.todo = call.todo \ {k} /\ Done' = Done \union {k}
           /\ ~call'.threw =>
                 /\ ~call.threw
                 /\ call.op = "train" => VecsAt(k)' = VecsAt(k)
                 /\ call.op = "reset" => VecsAt(k)' = <<>>
                 /\ call.op = "add" => VecsAt(k)' = Added(indices[k], Part(k))
<1> DEFINE s == indices[k]
<1>1. UNCHANGED <<kind, indices, ntotal, nadded, stale, past>> /\ Positions' = Positions
  BY DEF run, Positions
<1>2. call.op \in Running /\ k \in call.todo
  BY DEF run, Running
<1>3. call \in [op : {"train", "reset", "add"}, batch : Seq(Vector),
                todo : SUBSET Positions, threw : BOOLEAN]
  BY <1>2, CallCases
<1>4. call' = [call EXCEPT !.todo = @ \ {k}] \/ call' = [call EXCEPT !.todo = @ \ {k}, !.threw = TRUE]
  BY DEF run
<1>5. call'.op = call.op /\ call'.batch = call.batch /\ call'.todo = call.todo \ {k}
      /\ (~call'.threw => ~call.threw)
  BY <1>3, <1>4
<1>6. Done' = Done \union {k}
  BY <1>1, <1>2, <1>3, <1>5 DEF Done
<1>7. sub \in [Subs -> [vecs : Seq(Vector), trained : BOOLEAN]] /\ s \in Subs
  BY SumsTyped DEF Typed
<1>8. \A t \in Subs \ {s} : sub'[t] = sub[t]
  BY <1>7 DEF run
<1>9. ASSUME NEW j \in Positions \ {k}
      PROVE  VecsAt(j)' = VecsAt(j) /\ Size(indices[j])' = Size(indices[j])
  <2>1. indices[j] \in Subs \ {s}
    BY SumsTyped DEF Typed
  <2> QED
    BY <1>1, <1>8, <2>1 DEF VecsAt, Size
<1>10. ASSUME ~call'.threw
       PROVE  /\ call.op = "train" => VecsAt(k)' = VecsAt(k)
              /\ call.op = "reset" => VecsAt(k)' = <<>>
              /\ call.op = "add" => VecsAt(k)' = Added(s, Part(k))
  <2>1. call' # [call EXCEPT !.todo = @ \ {k}, !.threw = TRUE]
    BY <1>3, <1>10
  <2>2. sub' = CASE call.op = "train" -> [sub EXCEPT ![s].trained = TRUE]
                 [] call.op = "reset" -> [sub EXCEPT ![s].vecs = <<>>]
                 [] call.op = "add" -> [sub EXCEPT ![s].vecs = Added(s, Part(k))]
    BY <2>1 DEF run
  <2>3. ASSUME call.op = "train" PROVE sub'[s].vecs = sub[s].vecs
    BY <1>7, <2>2, <2>3
  <2>4. ASSUME call.op = "reset" PROVE sub'[s].vecs = <<>>
    <3>1. sub' = [sub EXCEPT ![s].vecs = <<>>]
      BY <2>2, <2>4
    <3> QED
      BY <1>7, <3>1
  <2>5. ASSUME call.op = "add" PROVE sub'[s].vecs = Added(s, Part(k))
    <3>1. sub' = [sub EXCEPT ![s].vecs = Added(s, Part(k))]
      BY <2>2, <2>5
    <3> QED
      BY <1>7, <3>1
  <2> QED
    BY <1>1, <2>3, <2>4, <2>5 DEF VecsAt
<1> QED
  BY <1>1, <1>2, <1>5, <1>6, <1>9, <1>10

LEMMA CountsInit == Init => Counts
<1> SUFFICES ASSUME Init PROVE Counts
  OBVIOUS
<1>1. Positions = {} /\ DOMAIN Sizes = Positions /\ call.op = "none"
  BY DEF Init, Positions, Sizes, Idle
<1>2. SumFunction(Sizes) = 0
  BY <1>1, SumOfNone DEF SumFunction
<1>3. TotalAgrees
  BY <1>1, <1>2 DEF Init, TotalAgrees
<1> QED
  BY <1>1, <1>3 DEF Counts

LEMMA CountsStep == Typed /\ Typed' /\ Counts /\ [Next]_vars => Counts'
<1> SUFFICES ASSUME Typed, Typed', Counts, [Next]_vars PROVE Counts'
  OBVIOUS
<1>0. \A s : Size(s)' = Len(sub'[s].vecs)
  BY DEF Size
<1>1. ASSUME NEW s \in Subs, addIndex(s) PROVE Counts'
  <2>1. call'.op = "onAfterAddIndex" /\ call' # Idle
    BY <1>1 DEF addIndex, Idle
  <2>2. ASSUME ~stale', kind' = "replicas", NEW k \in 1 .. (Len(indices') - 1)
        PROVE  Size(indices[k])' = ntotal'
    <3>1. call = Idle /\ ~stale /\ kind = "replicas" /\ UNCHANGED <<sub, ntotal>>
      BY <1>1, <2>2 DEF addIndex
    <3>2. \A j \in Positions : Size(indices[j]) = ntotal
      BY <3>1 DEF Counts, TotalAgrees
    <3>3. k \in Positions /\ indices'[k] = indices[k]
      BY <1>1, SumsTyped DEF addIndex, Typed
    <3> QED
      BY <1>0, <3>1, <3>2, <3>3 DEF Size
  <2> QED
    BY <2>1, <2>2 DEF Counts
<1>2. ASSUME NEW r \in Positions, removeIndex(r) PROVE Counts'
  BY <1>2 DEF removeIndex, Idle, Counts
<1>3. CASE onAfterAddIndex
  <2>1. call' = Idle /\ call'.op = "none" /\ call.op = "onAfterAddIndex"
        /\ UNCHANGED <<kind, sub, indices>>
    BY <1>3 DEF onAfterAddIndex, Idle
  <2>2. CASE kind = "replicas" /\ Len(indices) > 1
    <3> SUFFICES ASSUME ~stale' PROVE \A k \in Positions : Size(indices[k]) = ntotal
      BY <2>1, <2>2, <1>3 DEF Counts, TotalAgrees, onAfterAddIndex, Positions, Size
    <3>1. ~stale /\ Agrees(Len(indices))
      BY <1>3, <2>2 DEF onAfterAddIndex, Thrown
    <3>2. \A k \in 1 .. (Len(indices) - 1) : Size(indices[k]) = ntotal
      BY <2>1, <2>2, <3>1 DEF Counts
    <3>3. Size(indices[Len(indices)]) = Size(indices[1])
      BY <2>2, <3>1 DEF Agrees
    <3>4. Len(indices) \in Nat /\ Positions = 1 .. Len(indices)
      BY SumsTyped DEF Typed
    <3>5. Size(indices[Len(indices)]) = ntotal
      BY <2>2, <3>2, <3>3, <3>4
    <3> QED
      BY <3>2, <3>4, <3>5
  <2>3. CASE ~(kind = "replicas" /\ Len(indices) > 1)
    <3>1. syncWithSubIndexes
      BY <1>3, <2>3 DEF onAfterAddIndex
    <3>2. ~stale' => TotalRight'
      BY <2>1, <3>1, SyncRight
    <3> QED
      BY <2>1, <3>2 DEF Counts, TotalAgrees, TotalRight
  <2> QED
    BY <2>2, <2>3
<1>4. CASE onAfterRemoveIndex
  <2>1. call' = Idle /\ call'.op = "none" /\ UNCHANGED <<kind, sub, indices>> /\ syncWithSubIndexes
    BY <1>4 DEF onAfterRemoveIndex, Idle
  <2>2. ~stale' => TotalRight'
    BY <2>1, SyncRight
  <2> QED
    BY <2>1, <2>2 DEF Counts, TotalAgrees, TotalRight
<1>5. CASE train
  BY <1>5 DEF train, Run, Counts, Idle
<1>6. CASE reset
  <2>1. call'.op = "reset" /\ call' # Idle /\ call'.todo = Positions /\ UNCHANGED indices
    BY <1>6 DEF reset, Run, Idle
  <2>2. Done' = {}
    BY <2>1 DEF Done, Positions
  <2> QED
    BY <2>1, <2>2 DEF Counts
<1>7. ASSUME NEW n \in BatchSizes, add(n) PROVE Counts'
  BY <1>7 DEF add, Run, Counts, Idle
<1>8. ASSUME NEW n \in BatchSizes, NEW first \in GivenIds, add_with_ids(n, first) PROVE Counts'
  BY <1>8 DEF add_with_ids, Run, Counts, Idle
<1>9. ASSUME NEW k \in Positions, run(k) PROVE Counts'
  <2>1. call'.op \in Running
    BY <1>9, RunElsewhere
  <2>2. call' # Idle
    BY <2>1 DEF Running, Idle
  <2>3. ASSUME call'.op = "reset", ~call'.threw, NEW j \in Done' PROVE VecsAt(j)' = <<>>
    <3>1. call.op = "reset" /\ ~call.threw /\ VecsAt(k)' = <<>>
      BY <1>9, <2>3, RunElsewhere
    <3>2. CASE j = k
      BY <3>1, <3>2
    <3>3. CASE j # k
      <4>1. j \in Done /\ j \in Positions \ {k}
        BY <1>9, <2>3, <3>3, RunElsewhere DEF Done
      <4>2. VecsAt(j) = <<>>
        BY <3>1, <4>1 DEF Counts
      <4> QED
        BY <1>9, <4>1, <4>2, RunElsewhere
    <3> QED
      BY <3>2, <3>3
  <2> QED
    BY <2>1, <2>2, <2>3 DEF Counts, Running
<1>10. CASE end
  <2>1. call' = Idle /\ call'.op = "none" /\ UNCHANGED <<kind, sub, indices>>
        /\ call.todo = {} /\ call.op \in Running
    BY <1>10 DEF end, Idle, Running
  <2>2. CASE call.threw
    <3>1. stale'
      BY <1>10, <2>2 DEF end, Thrown
    <3> QED
      BY <2>1, <3>1 DEF Counts, TotalAgrees
  <2>3. CASE ~call.threw /\ call.op = "reset"
    <3>1. ntotal' = 0
      BY <1>10, <2>3 DEF end
    <3>2. \A k \in Positions : VecsAt(k) = <<>>
      BY <2>1, <2>3 DEF Counts, Done
    <3>3. \A k \in Positions : Size(indices[k]) = 0 /\ Sizes[k] = 0
      BY <3>2, SumsTyped DEF VecsAt, Size
    <3>4. SumFunction(Sizes) = 0
      <4>1. IsFiniteSet(Positions) /\ DOMAIN Sizes = Positions
        BY SumsTyped DEF Sizes
      <4> QED
        BY <3>3, <4>1, SumOfZeros DEF SumFunction
    <3>5. Positions' = Positions /\ Sizes' = Sizes /\ \A k \in Positions : Size(indices[k])' = 0
      BY <2>1, <3>3 DEF Positions, Sizes, Size
    <3> QED
      BY <2>1, <3>1, <3>4, <3>5 DEF Counts, TotalAgrees
  <2>4. CASE ~call.threw /\ call.op # "reset"
    <3>1. syncWithSubIndexes
      BY <1>10, <2>4 DEF end
    <3>2. ~stale' => TotalRight'
      BY <2>1, <3>1, SyncRight
    <3> QED
      BY <2>1, <3>2 DEF Counts, TotalAgrees, TotalRight
  <2> QED
    BY <2>2, <2>3, <2>4
<1>11. CASE UNCHANGED vars
  <2>1. UNCHANGED <<kind, sub, indices, ntotal, call, stale>>
    BY <1>11 DEF vars
  <2> QED
    BY <2>1 DEF Counts, TotalAgrees, Positions, Sizes, Size, Done, VecsAt
<1> QED
  BY <1>1, <1>2, <1>3, <1>4, <1>5, <1>6, <1>7, <1>8, <1>9, <1>10, <1>11 DEF Next

-----------------------------------------------------------------------------
(* IndexShards and IndexReplicas hold no index twice; counts are sizes.     *)
THEOREM TypeCorrect == Spec => []TypeOK
<1>1. Init => Typed
  BY TypedInit
<1>2. Typed /\ [Next]_vars => Typed'
  BY TypedStep
<1>3. Typed => TypeOK
  <2> SUFFICES ASSUME Typed PROVE TypeOK
    OBVIOUS
  <2>1. Members \subseteq Subs
    BY HeldIsTotal
  <2>2. ASSUME NEW s \in Subs, NEW i \in 1 .. Size(s) PROVE sub[s].vecs[i].id \in Nat
    <3>1. sub[s].vecs \in Seq(Vector) /\ Size(s) = Len(sub[s].vecs)
      BY DEF Typed, Size
    <3>2. sub[s].vecs[i] \in Vector
      BY <3>1
    <3> QED
      BY <3>2 DEF Vector
  <2>3. call.op \in {"none", "onAfterAddIndex", "onAfterRemoveIndex", "train", "reset", "add"}
    BY CallCases DEF Running
  <2> QED
    BY <2>1, <2>2, <2>3 DEF TypeOK, Typed
<1> QED
  BY <1>1, <1>2, <1>3, PTL DEF Spec

(* ntotal is the number of vectors that the sub-indexes hold: whatever was  *)
(* called before, after a call that ended well.                             *)
THEOREM TotalsAgree == Spec => []TotalAgrees
<1>1. Init => Typed /\ Counts
  BY TypedInit, CountsInit
<1>2. (Typed /\ Counts) /\ [Next]_vars => (Typed /\ Counts)'
  BY TypedStep, CountsStep
<1>3. Counts => TotalAgrees
  BY DEF Counts, TotalAgrees
<1> QED
  BY <1>1, <1>2, <1>3, PTL DEF Spec

-----------------------------------------------------------------------------
(* The ids that a search over shards can return are those of their vectors. *)
Ids(k) == {VecsAt(k)[i].id : i \in 1 .. Size(indices[k])}

LEMMA LabelsAre == Typed /\ kind = "shards" => Labels = UNION {Ids(q) : q \in Positions}
<1> SUFFICES ASSUME Typed, kind = "shards" PROVE Labels = UNION {Ids(q) : q \in Positions}
  OBVIOUS
<1>1. ASSUME NEW k \in Positions PROVE {a[1] : a \in Answers(k)} = Ids(k)
  <2>1. /\ VecsAt(k) = sub[indices[k]].vecs
        /\ VecsAt(k) \in Seq(Vector)
        /\ Size(indices[k]) = Len(VecsAt(k))
    BY SumsTyped DEF Typed, VecsAt, Size
  <2>2. DOMAIN VecsAt(k) = 1 .. Size(indices[k])
        /\ \A i \in 1 .. Size(indices[k]) : VecsAt(k)[i] \in Vector
    BY <2>1
  <2>3. \A i \in 1 .. Size(indices[k]) : 0 + VecsAt(k)[i].id = VecsAt(k)[i].id
    BY <2>2 DEF Vector
  <2>4. translations(k) = 0
    BY DEF translations
  <2>5. Answers(k) = {<<0 + VecsAt(k)[i].id, VecsAt(k)[i].code>> : i \in 1 .. Size(indices[k])}
    BY <2>1, <2>2, <2>4 DEF Answers, Range
  <2>6. ASSUME NEW i \in 1 .. Size(indices[k])
        PROVE  <<0 + VecsAt(k)[i].id, VecsAt(k)[i].code>>[1] = VecsAt(k)[i].id
    BY <2>3
  <2>7. ASSUME NEW a \in Answers(k) PROVE a[1] \in Ids(k)
    <3>1. PICK i \in 1 .. Size(indices[k]) : a = <<0 + VecsAt(k)[i].id, VecsAt(k)[i].code>>
      BY <2>5
    <3>2. a[1] = VecsAt(k)[i].id
      BY <2>6, <3>1
    <3> QED
      BY <3>2 DEF Ids
  <2>8. ASSUME NEW i \in 1 .. Size(indices[k])
        PROVE  VecsAt(k)[i].id \in {a[1] : a \in Answers(k)}
    <3>1. <<0 + VecsAt(k)[i].id, VecsAt(k)[i].code>> \in Answers(k)
      BY <2>5
    <3> QED
      BY <2>6, <3>1
  <2> QED
    BY <2>7, <2>8 DEF Ids
<1> QED
  BY <1>1 DEF Labels

LEMMA LabelsAreNext ==
    (Typed /\ kind = "shards" => Labels = UNION {Ids(q) : q \in Positions})'
BY LabelsAre, PTL

(* The vectors of every sub-index are a sequence of vectors. *)
LEMMA VecsTyped ==
    Typed => \A k \in Positions : /\ VecsAt(k) \in Seq(Vector)
                                  /\ Size(indices[k]) = Len(VecsAt(k))
                                  /\ Size(indices[k]) \in Nat
                                  /\ Size(indices[k]) = 0 <=> VecsAt(k) = <<>>
<1> SUFFICES ASSUME Typed, NEW k \in Positions
             PROVE  /\ VecsAt(k) \in Seq(Vector)
                    /\ Size(indices[k]) = Len(VecsAt(k))
                    /\ Size(indices[k]) \in Nat
                    /\ Size(indices[k]) = 0 <=> VecsAt(k) = <<>>
  OBVIOUS
<1>1. VecsAt(k) \in Seq(Vector) /\ Size(indices[k]) = Len(VecsAt(k))
  BY SumsTyped DEF Typed, VecsAt, Size
<1> QED
  BY <1>1

(* The offset of a shard, and with it the vectors of the shards before it. *)
LEMMA Offsets ==
    Typed /\ kind = "successive" =>
        /\ \A k \in Positions : translations(k) \in Nat
        /\ \A k \in Positions : SumFunctionOnSet(Sizes, 1 .. k) = translations(k) + Size(indices[k])
        /\ \A k \in Positions : SumFunctionOnSet(Sizes, 1 .. k) <= Held
        /\ indices # <<>> => SumFunctionOnSet(Sizes, 1 .. Len(indices)) = Held
        /\ 1 \in Positions => translations(1) = 0
        /\ \A k \in Positions : k + 1 \in Positions =>
              translations(k + 1) = SumFunctionOnSet(Sizes, 1 .. k)
<1> SUFFICES ASSUME Typed, kind = "successive"
    PROVE
        /\ \A k \in Positions : translations(k) \in Nat
        /\ \A k \in Positions : SumFunctionOnSet(Sizes, 1 .. k) = translations(k) + Size(indices[k])
        /\ \A k \in Positions : SumFunctionOnSet(Sizes, 1 .. k) <= Held
        /\ indices # <<>> => SumFunctionOnSet(Sizes, 1 .. Len(indices)) = Held
        /\ 1 \in Positions => translations(1) = 0
        /\ \A k \in Positions : k + 1 \in Positions =>
              translations(k + 1) = SumFunctionOnSet(Sizes, 1 .. k)
  OBVIOUS
<1>1. Positions = 1 .. Len(indices) /\ Len(indices) \in Nat
  BY SumsTyped DEF Typed
<1>2. \A k : translations(k) = SumFunctionOnSet(Sizes, 1 .. (k - 1))
  BY DEF translations
<1>3. \A k \in Positions : Sizes[k] \in Nat /\ Sizes[k] = Size(indices[k])
  BY SumsTyped
<1>4. \A k \in Positions : 1 .. k \subseteq Positions /\ 1 .. (k - 1) \subseteq Positions
  BY <1>1
<1>5. \A S \in SUBSET Positions : IsFiniteSet(S) /\ SumFunctionOnSet(Sizes, S) \in Nat
  BY SumsTyped
<1>6. ASSUME NEW k \in Positions
      PROVE  SumFunctionOnSet(Sizes, 1 .. k) = translations(k) + Size(indices[k])
  <2>1. k \in 1 .. k /\ (1 .. k) \ {k} = 1 .. (k - 1)
    BY <1>1
  <2>2. SumFunctionOnSet(Sizes, 1 .. k) = Sizes[k] + SumFunctionOnSet(Sizes, (1 .. k) \ {k})
    BY <1>3, <1>4, <1>5, <2>1, SumWithout
  <2>3. SumFunctionOnSet(Sizes, 1 .. (k - 1)) \in Nat
    BY <1>4, <1>5
  <2>4. translations(k) = SumFunctionOnSet(Sizes, 1 .. (k - 1))
    BY DEF translations
  <2>5. SumFunctionOnSet(Sizes, 1 .. k) = Sizes[k] + SumFunctionOnSet(Sizes, 1 .. (k - 1))
    BY <2>1, <2>2
  <2>6. Sizes[k] \in Nat /\ Sizes[k] = Size(indices[k])
    BY <1>3
  <2> QED
    BY <2>3, <2>4, <2>5, <2>6
<1>7. SumFunctionOnSet(Sizes, Positions) = Held
  <2>1. DOMAIN Sizes = Positions
    BY DEF Sizes
  <2> QED
    BY <2>1, HeldIsTotal DEF SumFunction
<1>8. \A k \in Positions : SumFunctionOnSet(Sizes, 1 .. k) <= Held
  <2> TAKE k \in Positions
  <2>1. SumFunctionOnSet(Sizes, 1 .. k) <= SumFunctionOnSet(Sizes, Positions)
    BY <1>3, <1>4, <1>5, SumOfPart
  <2> QED
    BY <1>7, <2>1
<1>9. 1 \in Positions => translations(1) = 0
  <2>1. 1 .. (1 - 1) = {}
    OBVIOUS
  <2> QED
    BY <1>2, <2>1, SumOfNone
<1>10. \A k \in Positions : (k + 1) - 1 = k
  BY <1>1
<1> QED
  BY <1>1, <1>2, <1>4, <1>5, <1>6, <1>7, <1>8, <1>9, <1>10

-----------------------------------------------------------------------------
(* What Undisturbed says of a collection between calls is that it answers   *)
(* as one index would.                                                      *)

LEMMA WholeDistinct ==
    ASSUME Typed, Whole, kind = "shards" PROVE IdsDistinct
<1>1. Labels = 0 .. (nadded - 1) /\ nadded \in Nat
  BY DEF Whole, Typed
<1>2. Cardinality(0 .. (nadded - 1)) = nadded
  BY <1>1, FS_Interval
<1> QED
  BY <1>1, <1>2 DEF IdsDistinct

LEMMA WholeSuccessive ==
    ASSUME Typed, Whole, kind = "successive", indices # <<>> PROVE SuccessiveLabels
<1> DEFINE Upto(k) == SumFunctionOnSet(Sizes, 1 .. k)
<1>1. Positions = 1 .. Len(indices) /\ Len(indices) \in Nat /\ Len(indices) > 0 /\ nadded \in Nat
  BY SumsTyped DEF Typed
<1>2. /\ Held = nadded
      /\ \A k \in Positions : Numbered(k, translations(k))
  BY DEF Whole
<1>3. /\ \A k \in Positions : translations(k) \in Nat /\ Size(indices[k]) \in Nat
      /\ \A k \in Positions : Upto(k) = translations(k) + Size(indices[k])
      /\ \A k \in Positions : Upto(k) <= nadded
      /\ Upto(Len(indices)) = nadded
      /\ 1 \in Positions => translations(1) = 0
      /\ \A k \in Positions : k + 1 \in Positions => translations(k + 1) = Upto(k)
  BY <1>2, Offsets, VecsTyped
<1> HIDE DEF Upto
<1>4. ASSUME NEW k \in Positions
      PROVE  Answers(k) = {<<translations(k) + (i - 1), translations(k) + i>> :
                              i \in 1 .. Size(indices[k])}
  <2>1. DOMAIN VecsAt(k) = 1 .. Size(indices[k]) /\ VecsAt(k) = sub[indices[k]].vecs
    BY VecsTyped DEF VecsAt
  <2>n. Numbered(k, translations(k))
    BY <1>2
  <2>2. \A i \in 1 .. Size(indices[k]) :
           VecsAt(k)[i].id = i - 1 /\ VecsAt(k)[i].code = translations(k) + i
    <3> DEFINE t == translations(k)
               v == VecsAt(k)
    <3>1. \A i \in 1 .. Size(indices[k]) : v[i] = [id |-> i - 1, code |-> t + i]
      BY <2>n DEF Numbered
    <3> HIDE DEF t, v
    <3>2. \A i \in 1 .. Size(indices[k]) : v[i].id = i - 1 /\ v[i].code = t + i
      <4> TAKE i \in 1 .. Size(indices[k])
      <4> DEFINE w == v[i]
      <4>1. w = [id |-> i - 1, code |-> t + i]
        BY <3>1
      <4> HIDE DEF w
      <4>2. w.id = i - 1 /\ w.code = t + i
        BY <4>1
      <4> QED
        BY <4>2 DEF w
    <3> QED
      BY <3>2 DEF t, v
  <2>3. Answers(k) = {<<translations(k) + VecsAt(k)[i].id, VecsAt(k)[i].code>> :
                         i \in 1 .. Size(indices[k])}
    BY <2>1 DEF Answers, Range
  <2> QED
    BY <2>2, <2>3
<1>5. ASSUME NEW k \in Positions, NEW a \in Answers(k)
      PROVE  a \in {<<i - 1, i>> : i \in 1 .. nadded}
  <2>1. PICK i \in 1 .. Size(indices[k]) : a = <<translations(k) + (i - 1), translations(k) + i>>
    BY <1>4, <1>5
  <2>2. translations(k) + i \in 1 .. nadded /\ (translations(k) + i) - 1 = translations(k) + (i - 1)
    BY <1>1, <1>3, <2>1, SMTT(40)
  <2> QED
    BY <2>1, <2>2
<1>6. ASSUME NEW i \in 1 .. nadded
      PROVE  \E k \in Positions : <<i - 1, i>> \in Answers(k)
  <2> DEFINE Reaching == {k \in Positions : i <= Upto(k)}
  <2>1. Reaching \subseteq Nat /\ Len(indices) \in Reaching
    BY <1>1, <1>3
  <2>2. PICK k \in Reaching : \A j \in Reaching : k <= j
    <3> HIDE DEF Reaching
    <3> QED
      BY <2>1, SmallestOf
  <2>3. translations(k) < i
    <3>1. CASE k = 1
      BY <1>3, <3>1
    <3>2. CASE k # 1
      <4>1. k - 1 \in Positions /\ (k - 1) + 1 = k /\ k \in Nat
        BY <1>1, <3>2
      <4>2. k - 1 \notin Reaching
        <5> HIDE DEF Reaching
        <5> QED
          BY <2>2, <4>1
      <4>3. ~(i <= Upto(k - 1)) /\ translations(k) = Upto(k - 1)
        BY <1>3, <4>1, <4>2
      <4> QED
        BY <1>3, <4>3
    <3> QED
      BY <3>1, <3>2
  <2> DEFINE j == i - translations(k)
  <2>4. /\ j \in 1 .. Size(indices[k])
        /\ translations(k) + (j - 1) = i - 1
        /\ translations(k) + j = i
    BY <1>3, <2>2, <2>3
  <2> HIDE DEF j
  <2>5. <<translations(k) + (j - 1), translations(k) + j>> \in Answers(k)
    BY <1>4, <2>4
  <2> QED
    BY <2>4, <2>5
<1>7. UNION {Answers(k) : k \in Positions} = {<<i - 1, i>> : i \in 1 .. nadded}
  <2> DEFINE All == {<<i - 1, i>> : i \in 1 .. nadded}
  <2>1. \A k \in Positions : Answers(k) \subseteq All
    BY <1>5
  <2>2. ASSUME NEW a \in All PROVE \E k \in Positions : a \in Answers(k)
    BY <1>6
  <2> HIDE DEF All
  <2>3. UNION {Answers(k) : k \in Positions} = All
    BY <2>1, <2>2
  <2> QED
    BY <2>3 DEF All
<1> QED
  BY <1>7 DEF SuccessiveLabels

LEMMA WholeAnswers ==
    ASSUME Typed, Undisturbed PROVE AnswersAsOne
<1> SUFFICES ASSUME call = Idle, past = {}, indices # <<>>
             PROVE  CASE kind = "shards" -> IdsDistinct
                      [] kind = "successive" -> SuccessiveLabels
                      [] kind = "replicas" -> ReplicasEqual
  BY DEF AnswersAsOne
<1>1. call.op = "none" /\ Whole
  BY DEF Idle, Undisturbed
<1>2. kind \in {"shards", "successive", "replicas"}
  BY KindsAssumption DEF Typed
<1>3. CASE kind = "shards"
  BY <1>1, <1>3, WholeDistinct
<1>4. CASE kind = "successive"
  BY <1>1, <1>4, WholeSuccessive
<1>5. CASE kind = "replicas"
  <2>1. Accepted = Positions
    BY <1>1, SumsTyped DEF Accepted
  <2>2. ReplicasEqual
    BY <1>1, <1>5, <2>1 DEF Whole, VecsAt, ReplicasEqual
  <2> QED
    BY <1>5, <2>2
<1> QED
  BY <1>2, <1>3, <1>4, <1>5

-----------------------------------------------------------------------------
(* Calls that leave the vectors alone. *)

(* All that is said of the vectors depends on kind, indices and the vectors. *)
LEMMA SameVectors ==
    ASSUME Typed, UNCHANGED <<kind, indices>>, \A s \in Subs : sub'[s].vecs = sub[s].vecs
    PROVE  /\ Positions' = Positions
           /\ \A k \in Positions : VecsAt(k)' = VecsAt(k)
           /\ \A k \in Positions : Size(indices[k])' = Size(indices[k])
           /\ Sizes' = Sizes
           /\ Held' = Held
           /\ Labels' = Labels
           /\ \A k \in Positions : translations(k)' = translations(k)
<1>1. Positions' = Positions /\ Members' = Members /\ \A k \in Positions : indices[k] \in Subs
  BY SumsTyped DEF Positions, Members
<1>2. \A s \in Subs : Size(s)' = Size(s)
  BY DEF Size
<1>3. \A k \in Positions : VecsAt(k)' = VecsAt(k) /\ Size(indices[k])' = Size(indices[k])
  BY <1>1, <1>2 DEF VecsAt, Size
<1>4. Sizes' = Sizes /\ SizeOf' = SizeOf
  BY <1>1, <1>2, <1>3 DEF Sizes, SizeOf
<1>5. Held' = Held
  BY <1>1, <1>4 DEF Held
<1>6. \A k \in Positions : translations(k)' = translations(k)
  BY <1>4 DEF translations
<1>7. \A k \in Positions : Answers(k)' = Answers(k)
  BY <1>3, <1>6 DEF Answers, VecsAt
<1>8. Labels' = Labels
  BY <1>1, <1>7 DEF Labels
<1> QED
  BY <1>1, <1>3, <1>4, <1>5, <1>6, <1>8

LEMMA WholeRemains ==
    ASSUME Typed, Whole, UNCHANGED <<kind, indices, nadded>>,
           \A s \in Subs : sub'[s].vecs = sub[s].vecs,
           Accepted' = Accepted, call'.op # "onAfterAddIndex"
    PROVE  Whole'
<1>1. /\ Positions' = Positions
      /\ \A k \in Positions : VecsAt(k)' = VecsAt(k)
      /\ \A k \in Positions : Size(indices[k])' = Size(indices[k])
      /\ Held' = Held
      /\ Labels' = Labels
      /\ \A k \in Positions : translations(k)' = translations(k)
  BY SameVectors
<1>2. \A k \in Positions : Numbered(k, translations(k)) => Numbered(k, translations(k))'
  BY <1>1 DEF Numbered
<1>3. Accepted \subseteq Positions
  BY SumsTyped DEF Accepted, Typed
<1> QED
  BY <1>1, <1>2, <1>3 DEF Whole

LEMMA UndisturbedInit == Init => Undisturbed
<1> SUFFICES ASSUME Init PROVE Undisturbed
  OBVIOUS
<1>1. Positions = {} /\ Members = {} /\ call.op = "none" /\ nadded = 0 /\ ~stale /\ indices = <<>>
  BY DEF Init, Positions, Members, Idle
<1>2. Held = 0
  BY <1>1, SumOfNone DEF Held
<1>3. Labels = {} /\ 0 .. (nadded - 1) = {} /\ Accepted = {}
  BY <1>1 DEF Labels, Accepted
<1>4. Whole
  BY <1>1, <1>2, <1>3 DEF Whole
<1> QED
  BY <1>1, <1>4 DEF Undisturbed

-----------------------------------------------------------------------------
(* Indexes that come and go. *)

LEMMA UndisturbedAddIndex ==
    ASSUME Typed, Typed', Undisturbed, NEW s \in Subs, addIndex(s)
    PROVE  Undisturbed'
<1>n. Len(indices) \in Nat
  BY DEF Typed
<1>m. PICK m \in Nat : m = Len(indices)
  BY <1>n
<1> SUFFICES ASSUME past' = {} PROVE Whole' /\ ~stale'
  BY DEF addIndex, Undisturbed
<1>1. /\ past = {} /\ Size(s) = 0 /\ call.op = "none"
      /\ UNCHANGED <<kind, sub, nadded, stale>>
      /\ indices' = Append(indices, s) /\ s \notin Members
      /\ call'.op = "onAfterAddIndex"
  <2>1. ~(Size(s) > 0)
    BY DEF addIndex
  <2>2. Size(s) \in Nat
    BY SumsTyped
  <2> QED
    BY <2>1, <2>2 DEF addIndex, Idle, IsNew
<1>2. Whole /\ ~stale
  BY <1>1 DEF Undisturbed
<1>3. /\ m \in Nat /\ Positions = 1 .. m
      /\ Positions' = 1 .. (m + 1) /\ Len(indices') = m + 1
      /\ indices'[m + 1] = s /\ \A k \in Positions : indices'[k] = indices[k]
  BY <1>m, <1>1, SumsTyped DEF Typed, Positions
<1>4. \A k \in Positions : VecsAt(k)' = VecsAt(k) /\ Size(indices[k])' = Size(indices[k])
  BY <1>1, <1>3 DEF VecsAt, Size
<1>5. VecsAt(m + 1)' = <<>> /\ Size(indices[m + 1])' = 0
  <2>1. sub[s].vecs = <<>>
    BY <1>1 DEF Typed, Size
  <2> QED
    BY <1>1, <1>3, <2>1 DEF VecsAt, Size
<1>6. Held' = Held
  <2>1. Members' = Members \union {s}
    BY <1>3 DEF Members
  <2>2. SizeOf' = SizeOf
    BY <1>1 DEF SizeOf, Size
  <2>3. IsFiniteSet(Members) /\ Members \subseteq Subs
    BY HeldIsTotal
  <2>4. \A t \in Members \union {s} : SizeOf[t] \in Nat
    BY <2>3, SumsTyped
  <2>5. SizeOf[s] = 0
    BY <1>1, SumsTyped
  <2>6. SumFunctionOnSet(SizeOf, Members \union {s}) = SizeOf[s] + SumFunctionOnSet(SizeOf, Members)
    BY <1>1, <2>3, <2>4, SumWith
  <2>7. SumFunctionOnSet(SizeOf, Members) \in Nat
    BY HeldIsTotal DEF Held
  <2> QED
    BY <2>1, <2>2, <2>5, <2>6, <2>7 DEF Held
<1>7. kind = "shards" => Labels' = Labels
  <2> SUFFICES ASSUME kind = "shards" PROVE Labels' = Labels
    OBVIOUS
  <2>1. Labels = UNION {Ids(q) : q \in Positions}
    BY LabelsAre
  <2>3. Labels' = UNION {Ids(k)' : k \in Positions'}
    BY <1>1, LabelsAreNext
  <2>4. \A k \in Positions : Ids(k)' = Ids(k)
    BY <1>4 DEF Ids
  <2>5. Ids(m + 1)' = {}
    BY <1>5 DEF Ids
  <2> QED
    BY <1>3, <2>1, <2>3, <2>4, <2>5
<1>8. kind = "successive" => \A k \in Positions' : Numbered(k, translations(k))'
  <2> SUFFICES ASSUME kind = "successive", NEW k \in Positions'
               PROVE  Numbered(k, translations(k))'
    OBVIOUS
  <2>1. CASE k = m + 1
    BY <1>5, <2>1 DEF Numbered
  <2>2. CASE k # m + 1
    <3>1. k \in Positions
      BY <1>3, <2>2
    <3>2. 1 .. (k - 1) \subseteq Positions
      BY <1>3, <3>1
    <3>3. \A j \in Positions : Sizes'[j] = Sizes[j] /\ Sizes[j] \in Nat
      BY <1>3, <1>4, SumsTyped DEF Sizes
    <3>4. SumFunctionOnSet(Sizes', 1 .. (k - 1)) = SumFunctionOnSet(Sizes, 1 .. (k - 1))
      <4> DEFINE S == 1 .. (k - 1)
      <4>1. IsFiniteSet(S) /\ S \subseteq Positions
        BY <3>2, SumsTyped
      <4> HIDE DEF S
      <4>2. SumFunctionOnSet(Sizes', S) = SumFunctionOnSet(Sizes, S)
        BY <3>3, <4>1, SameSum
      <4> QED
        BY <4>2 DEF S
    <3>5. translations(k)' = translations(k)
      BY <1>1, <3>4 DEF translations
    <3>6. Numbered(k, translations(k))
      BY <1>2, <3>1 DEF Whole
    <3> QED
      BY <1>4, <3>1, <3>5, <3>6 DEF Numbered
  <2> QED
    BY <2>1, <2>2
<1>9. Accepted' = Accepted /\ Accepted = Positions
  BY <1>m, <1>1, <1>3 DEF Accepted
<1>10. call'.op = "onAfterAddIndex" => VecsAt(Len(indices))' = <<>>
  BY <1>3, <1>5 DEF VecsAt
<1>11. kind = "replicas" =>
          /\ \A j, k \in Accepted' : VecsAt(j)' = VecsAt(k)'
          /\ \A k \in Accepted' : Size(indices[k])' = nadded'
          /\ Accepted' = {} => nadded' = 0
  <2> SUFFICES ASSUME kind = "replicas"
               PROVE  /\ \A j, k \in Positions : VecsAt(j)' = VecsAt(k)'
                      /\ \A k \in Positions : Size(indices[k])' = nadded
                      /\ Positions = {} => nadded = 0
    BY <1>1, <1>9
  <2>1. /\ \A j, k \in Positions : VecsAt(j) = VecsAt(k)
        /\ \A k \in Positions : Size(indices[k]) = nadded
        /\ Positions = {} => nadded = 0
    BY <1>2, <1>9 DEF Whole
  <2> QED
    BY <1>4, <2>1
<1>12. kind # "replicas" => Held' = nadded'
  BY <1>1, <1>2, <1>6 DEF Whole
<1>13. kind = "shards" => Labels' = 0 .. (nadded' - 1)
  BY <1>1, <1>2, <1>7 DEF Whole
<1>14. kind' = kind /\ ~stale'
  BY <1>1, <1>2
<1>15. call'.op = "onAfterAddIndex" => VecsAt(Len(indices))' = <<>>
  BY <1>10
<1>16. Whole'
  BY <1>8, <1>11, <1>12, <1>13, <1>14, <1>15, ZenonT(30) DEF Whole
<1> QED
  BY <1>14, <1>16

LEMMA UndisturbedAfterAddIndex ==
    ASSUME Typed, Undisturbed, onAfterAddIndex
    PROVE  Undisturbed'
<1> DEFINE m == Len(indices)
<1> SUFFICES ASSUME past' = {} PROVE Whole' /\ ~stale'
  BY DEF onAfterAddIndex, Undisturbed, Idle
<1>1. /\ call.op = "onAfterAddIndex" /\ call'.op = "none"
      /\ UNCHANGED <<kind, sub, indices, nadded>> /\ indices # <<>>
  BY CallCases DEF onAfterAddIndex, Idle
<1>2. /\ ~stale' /\ past = {}
      /\ kind = "replicas" /\ m > 1 => Agrees(m)
  BY DEF onAfterAddIndex, syncWithSubIndexes, Thrown
<1>3. Whole
  BY <1>1, <1>2 DEF Undisturbed
<1>4. m \in Nat /\ m > 0 /\ Positions = 1 .. m
  BY <1>1, SumsTyped DEF Typed
<1>5. Accepted = 1 .. (m - 1) /\ Accepted' = 1 .. m
  BY <1>1 DEF Accepted
<1>6. /\ Positions' = Positions
      /\ \A k \in Positions : VecsAt(k)' = VecsAt(k)
      /\ \A k \in Positions : Size(indices[k])' = Size(indices[k])
      /\ Held' = Held
      /\ Labels' = Labels
      /\ \A k \in Positions : translations(k)' = translations(k)
  BY <1>1, SameVectors
<1>7. \A k \in Positions : Numbered(k, translations(k)) => Numbered(k, translations(k))'
  BY <1>6 DEF Numbered
<1>8. kind = "replicas" => nadded = 0 /\ \A k \in Positions : Size(indices[k]) = 0
  <2> SUFFICES ASSUME kind = "replicas"
               PROVE  nadded = 0 /\ \A k \in Positions : Size(indices[k]) = 0
    OBVIOUS
  <2>1. VecsAt(m) = <<>> /\ m \in Positions
    BY <1>1, <1>3, <1>4 DEF Whole
  <2>2. Size(indices[m]) = 0
    BY <2>1, VecsTyped
  <2>3. CASE m = 1
    <3>1. Accepted = {}
      BY <1>5, <2>3
    <3> QED
      BY <1>3, <1>4, <2>2, <2>3, <3>1 DEF Whole
  <2>4. CASE m # 1
    <3>n. m > 1
      <4> HIDE DEF m
      <4>1. m \in Nat /\ m > 0 /\ m # 1
        BY <1>4, <2>4
      <4> QED
        BY <4>1
    <3>m. m > 1 /\ Agrees(m)
      BY <1>2, <3>n
    <3>1. Size(indices[m]) = Size(indices[1]) /\ 1 \in Accepted
      BY <1>4, <1>5, <3>m DEF Agrees
    <3>2. \A k \in Accepted : Size(indices[k]) = nadded
      BY <1>3 DEF Whole
    <3>3. \A k \in Positions : k = m \/ k \in Accepted
      BY <1>4, <1>5
    <3> QED
      BY <2>2, <3>1, <3>2, <3>3
  <2> QED
    BY <2>3, <2>4
<1>9. kind = "replicas" => \A k \in Positions : VecsAt(k) = <<>>
  BY <1>8, VecsTyped
<1> HIDE DEF m
<1> QED
  BY <1>1, <1>2, <1>3, <1>4, <1>5, <1>6, <1>7, <1>8, <1>9 DEF Whole

LEMMA UndisturbedRemoveIndex ==
    ASSUME Typed, Typed', Undisturbed, NEW r \in Positions, removeIndex(r)
    PROVE  Undisturbed'
<1>n. Len(indices) \in Nat
  BY DEF Typed
<1>m. PICK m \in Nat : m = Len(indices)
  BY <1>n
<1> DEFINE at == [j \in 1 .. (m - 1) |-> IF j < r THEN j ELSE j + 1]
<1> SUFFICES ASSUME past' = {} PROVE Whole' /\ ~stale'
  BY DEF removeIndex, Undisturbed
<1>1. /\ past = {} /\ call.op = "none"
      /\ Size(indices[r]) = 0 \/ (kind = "replicas" /\ m # 1)
      /\ UNCHANGED <<kind, sub, nadded, stale>>
      /\ call'.op = "onAfterRemoveIndex"
  <2>1. Size(indices[r]) \in Nat
    BY VecsTyped
  <2>2. ~(Size(indices[r]) > 0 /\ (kind = "replicas" => Len(indices) = 1)) /\ past = {}
    BY DEF removeIndex
  <2>3. Size(indices[r]) = 0 \/ (kind = "replicas" /\ m # 1)
    BY <1>m, <2>1, <2>2
  <2> QED
    BY <2>2, <2>3 DEF removeIndex, Idle
<1>2. Whole /\ ~stale
  BY <1>1 DEF Undisturbed
<1>3. /\ Positions = 1 .. m /\ r \in 1 .. m
      /\ indices' = [j \in 1 .. (m - 1) |-> indices[at[j]]]
      /\ \A j \in 1 .. (m - 1) : at[j] \in Positions /\ at[j] # r
      /\ \A j, k \in 1 .. (m - 1) : at[j] = at[k] => j = k
  BY <1>m, SumsTyped DEF removeIndex
<1>4. /\ Positions' = 1 .. (m - 1) /\ Len(indices') = m - 1
      /\ \A k \in Positions' : indices'[k] = indices[at[k]]
  <2>1. DOMAIN indices' = 1 .. (m - 1) /\ m - 1 \in Nat
    BY <1>3
  <2>2. indices' \in Seq(Subs)
    BY DEF Typed
  <2>3. Len(indices') = m - 1
    BY <2>1, <2>2
  <2> QED
    BY <1>3, <2>1, <2>3 DEF Positions
<1>5. \A k \in Positions \ {r} : \E j \in 1 .. (m - 1) : at[j] = k
  <2> TAKE k \in Positions \ {r}
  <2>1. CASE k < r
    <3>1. k \in 1 .. (m - 1) /\ at[k] = k
      BY <1>3, <2>1
    <3> QED
      BY <3>1
  <2>2. CASE ~(k < r)
    <3>1. k - 1 \in 1 .. (m - 1) /\ at[k - 1] = k
      BY <1>3, <2>2
    <3> QED
      BY <3>1
  <2> QED
    BY <2>1, <2>2
<1>p. \A k \in 1 .. (m - 1) : {at[j] : j \in 1 .. (k - 1)} =
         IF k <= r THEN 1 .. (k - 1) ELSE (1 .. k) \ {r}
  <2> TAKE k \in 1 .. (m - 1)
  <2>1. ASSUME NEW j \in 1 .. (k - 1)
        PROVE  at[j] = IF j < r THEN j ELSE j + 1
    BY <1>3
  <2>2. CASE k <= r
    <3>1. \A j \in 1 .. (k - 1) : at[j] = j
      BY <1>3, <2>1, <2>2
    <3> HIDE DEF at
    <3> QED
      BY <2>2, <3>1
  <2>3. CASE ~(k <= r)
    <3>1. \A j \in 1 .. (k - 1) : at[j] \in (1 .. k) \ {r}
      BY <1>3, <2>1, <2>3
    <3>2. ASSUME NEW i \in (1 .. k) \ {r} PROVE \E j \in 1 .. (k - 1) : at[j] = i
      <4>1. CASE i < r
        <5>1. i \in 1 .. (k - 1) /\ at[i] = i
          BY <1>3, <2>1, <2>3, <4>1
        <5> QED
          BY <5>1
      <4>2. CASE ~(i < r)
        <5>1. i - 1 \in 1 .. (k - 1) /\ at[i - 1] = i
          BY <1>3, <2>1, <2>3, <4>2
        <5> QED
          BY <5>1
      <4> QED
        BY <4>1, <4>2
    <3> HIDE DEF at
    <3> QED
      BY <2>3, <3>1, <3>2
  <2> QED
    BY <2>2, <2>3
<1> HIDE DEF at
<1>6. \A k \in Positions' : /\ VecsAt(k)' = VecsAt(at[k])
                            /\ Size(indices[k])' = Size(indices[at[k]])
  BY <1>1, <1>4 DEF VecsAt, Size
<1>7. kind # "replicas" => Held' = Held
  <2> SUFFICES ASSUME kind # "replicas" PROVE Held' = Held
    OBVIOUS
  <2>1. Members' = Members \ {indices[r]}
    <3>1. Members' = {indices[at[k]] : k \in 1 .. (m - 1)}
      BY <1>4 DEF Members
    <3>2. \A j, k \in Positions : indices[j] = indices[k] => j = k
      BY DEF Typed
    <3>3. ASSUME NEW k \in 1 .. (m - 1) PROVE indices[at[k]] \in Members \ {indices[r]}
      BY <1>3, <3>2 DEF Members
    <3>4. ASSUME NEW s \in Members \ {indices[r]}
          PROVE  \E k \in 1 .. (m - 1) : s = indices[at[k]]
      <4>1. PICK k \in Positions : s = indices[k]
        BY DEF Members
      <4>2. k \in Positions \ {r}
        BY <4>1
      <4> QED
        BY <1>5, <4>1, <4>2
    <3> QED
      BY <3>1, <3>3, <3>4
  <2>2. SizeOf' = SizeOf
    BY <1>1 DEF SizeOf, Size
  <2>3. IsFiniteSet(Members) /\ Members \subseteq Subs /\ indices[r] \in Members
    BY HeldIsTotal DEF Members
  <2>4. \A t \in Members : SizeOf[t] \in Nat
    BY <2>3, SumsTyped
  <2>5. SizeOf[indices[r]] = 0
    BY <1>1, <2>3, SumsTyped
  <2>6. SumFunctionOnSet(SizeOf, Members) =
           SizeOf[indices[r]] + SumFunctionOnSet(SizeOf, Members \ {indices[r]})
    BY <2>3, <2>4, SumWithout
  <2>7. SumFunctionOnSet(SizeOf, Members \ {indices[r]}) \in Nat
    BY <2>3, <2>4, FS_RemoveElement, SumIsNat
  <2> QED
    BY <2>1, <2>2, <2>5, <2>6, <2>7 DEF Held
<1>8. kind = "shards" => Labels' = Labels
  <2> SUFFICES ASSUME kind = "shards" PROVE Labels' = Labels
    OBVIOUS
  <2>1. Labels = UNION {Ids(q) : q \in Positions}
    BY LabelsAre
  <2>3. Labels' = UNION {Ids(k)' : k \in Positions'}
    BY <1>1, LabelsAreNext
  <2>4. \A k \in Positions' : Ids(k)' = Ids(at[k])
    BY <1>6 DEF Ids
  <2>5. Ids(r) = {}
    <3>1. Size(indices[r]) = 0
      BY <1>1
    <3> QED
      BY <3>1 DEF Ids
  <2>6. ASSUME NEW x \in Labels' PROVE x \in Labels
    <3>1. PICK k \in Positions' : x \in Ids(k)'
      BY <2>3
    <3> QED
      BY <1>3, <1>4, <2>1, <2>4, <3>1
  <2>7. ASSUME NEW x \in Labels PROVE x \in Labels'
    <3>1. PICK k \in Positions : x \in Ids(k)
      BY <2>1
    <3>2. k \in Positions \ {r}
      BY <2>5, <3>1
    <3>3. PICK j \in Positions' : at[j] = k
      BY <1>4, <1>5, <3>2
    <3>4. x \in Ids(j)'
      BY <2>4, <3>1, <3>3
    <3> QED
      BY <2>3, <3>4
  <2> QED
    BY <2>6, <2>7
<1>9. kind = "successive" => \A k \in Positions' : Numbered(k, translations(k))'
  <2> SUFFICES ASSUME kind = "successive", NEW k \in Positions'
               PROVE  Numbered(k, translations(k))'
    OBVIOUS
  <2> DEFINE S == 1 .. (k - 1)
             Image == {at[j] : j \in S}
  <2>1. k \in 1 .. (m - 1) /\ at[k] \in Positions /\ S \subseteq Positions'
    BY <1>3, <1>4
  <2>2. Image = IF k <= r THEN 1 .. (k - 1) ELSE (1 .. k) \ {r}
    BY <1>p, <2>1
  <2>3. IsFiniteSet(S)
    BY <2>1, FS_Interval
  <2>4. \A j \in S : /\ at[j] \in Positions
                     /\ Sizes'[j] = Sizes[at[j]] /\ Sizes[at[j]] \in Nat
    <3> TAKE j \in S
    <3>1. j \in Positions' /\ at[j] \in Positions
      BY <1>3, <1>4, <2>1
    <3>2. Sizes'[j] = Size(indices[j])'
      BY <3>1 DEF Sizes
    <3> QED
      BY <1>6, <3>1, <3>2, SumsTyped
  <2>5. \A i, j \in S : at[i] = at[j] => i = j
    BY <1>3, <1>4, <2>1
  <2>6. SumFunctionOnSet(Sizes', S) = SumFunctionOnSet(Sizes, Image)
    <3> HIDE DEF S
    <3> QED
      BY <2>3, <2>4, <2>5, SumReindexed
  <2>7. SumFunctionOnSet(Sizes, Image) = SumFunctionOnSet(Sizes, 1 .. (at[k] - 1))
    <3>1. CASE k < r
      <4>1. at[k] = k
        BY <2>1, <3>1 DEF at
      <4>2. k <= r
        BY <1>3, <2>1, <3>1
      <4> HIDE DEF Image
      <4> QED
        BY <2>2, <4>1, <4>2
    <3>2. CASE k = r
      <4> DEFINE T == 1 .. r
      <4>1. at[k] = r + 1 /\ T \ {r} = 1 .. (k - 1) /\ r \in T /\ T \subseteq Positions
        BY <1>3, <2>1, <3>2 DEF at
      <4>2. IsFiniteSet(T) /\ \A j \in T : Sizes[j] \in Nat
        BY <4>1, SumsTyped
      <4>3. Sizes[r] = 0
        BY <1>1, SumsTyped
      <4>4. SumFunctionOnSet(Sizes, T \ {r}) \in Nat
        BY <4>1, SumsTyped
      <4> HIDE DEF T
      <4>5. SumFunctionOnSet(Sizes, T) = Sizes[r] + SumFunctionOnSet(Sizes, T \ {r})
        BY <4>1, <4>2, SumWithout
      <4>6. SumFunctionOnSet(Sizes, T) = SumFunctionOnSet(Sizes, T \ {r})
        BY <4>3, <4>4, <4>5
      <4>7. Image = T \ {r} /\ T = 1 .. (at[k] - 1)
        BY <1>3, <2>1, <2>2, <3>2, <4>1 DEF T
      <4> QED
        BY <4>6, <4>7
    <3>3. CASE k > r
      <4> DEFINE T == 1 .. k
      <4>1. at[k] = k + 1 /\ r \in T /\ T \subseteq Positions
        BY <1>3, <2>1, <3>3 DEF at
      <4>2. IsFiniteSet(T) /\ \A j \in T : Sizes[j] \in Nat
        BY <4>1, SumsTyped
      <4>3. Sizes[r] = 0
        BY <1>1, SumsTyped
      <4>4. SumFunctionOnSet(Sizes, T \ {r}) \in Nat
        BY <4>1, SumsTyped
      <4> HIDE DEF T
      <4>5. SumFunctionOnSet(Sizes, T) = Sizes[r] + SumFunctionOnSet(Sizes, T \ {r})
        BY <4>1, <4>2, SumWithout
      <4>6. SumFunctionOnSet(Sizes, T) = SumFunctionOnSet(Sizes, T \ {r})
        BY <4>3, <4>4, <4>5
      <4>7. Image = T \ {r} /\ T = 1 .. (at[k] - 1)
        <5>1. at[k] - 1 = k /\ ~(k <= r)
          BY <1>3, <2>1, <3>3, <4>1
        <5> HIDE DEF Image
        <5> QED
          BY <2>2, <5>1 DEF T
      <4> QED
        BY <4>6, <4>7
    <3> QED
      BY <1>3, <2>1, <3>1, <3>2, <3>3
  <2>8. translations(k)' = translations(at[k])
    BY <1>1, <2>6, <2>7 DEF translations
  <2>9. Numbered(at[k], translations(at[k]))
    BY <1>2, <2>1 DEF Whole
  <2> QED
    BY <1>6, <2>8, <2>9 DEF Numbered
<1>10. Accepted' = Positions' /\ Accepted = Positions
  BY <1>m, <1>1, <1>3, <1>4 DEF Accepted
<1>11. kind = "replicas" =>
          /\ \A j, k \in Accepted' : VecsAt(j)' = VecsAt(k)'
          /\ \A k \in Accepted' : Size(indices[k])' = nadded'
          /\ Accepted' = {} => nadded' = 0
  <2> SUFFICES ASSUME kind = "replicas"
               PROVE  /\ \A j, k \in Accepted' : VecsAt(j)' = VecsAt(k)'
                      /\ \A k \in Accepted' : Size(indices[k])' = nadded'
                      /\ Accepted' = {} => nadded' = 0
    OBVIOUS
  <2>1. /\ \A j, k \in Positions : VecsAt(j) = VecsAt(k)
        /\ \A k \in Positions : Size(indices[k]) = nadded
    BY <1>2, <1>10 DEF Whole
  <2>2. \A k \in Positions' : at[k] \in Positions
    BY <1>3, <1>4
  <2>3. Accepted' = {} => m = 1
    BY <1>3, <1>4, <1>10, SMTT(30)
  <2>4. \A j, k \in Accepted' : VecsAt(j)' = VecsAt(k)'
    BY <1>6, <1>10, <2>1, <2>2
  <2>5. \A k \in Accepted' : Size(indices[k])' = nadded'
    BY <1>1, <1>6, <1>10, <2>1, <2>2
  <2>6. Accepted' = {} => nadded' = 0
    BY <1>1, <1>3, <2>1, <2>3
  <2> QED
    BY <2>4, <2>5, <2>6
<1> QED
  BY <1>1, <1>2, <1>7, <1>8, <1>9, <1>11 DEF Whole

LEMMA UndisturbedAfterRemoveIndex ==
    ASSUME Typed, Undisturbed, onAfterRemoveIndex
    PROVE  Undisturbed'
<1> SUFFICES ASSUME past' = {} PROVE Whole' /\ ~stale'
  BY DEF onAfterRemoveIndex, Undisturbed, Idle
<1>1. /\ call.op = "onAfterRemoveIndex" /\ call'.op = "none"
      /\ UNCHANGED <<kind, sub, indices, nadded>>
      /\ ~stale' /\ past = {}
  BY DEF onAfterRemoveIndex, Idle, syncWithSubIndexes, Thrown
<1>2. Whole /\ Accepted' = Accepted
  BY <1>1 DEF Undisturbed, Accepted
<1> QED
  BY <1>1, <1>2, WholeRemains

-----------------------------------------------------------------------------
(* Calls on every sub-index. *)

LEMMA UndisturbedTrain ==
    ASSUME Typed, Undisturbed, train
    PROVE  Undisturbed'
<1> SUFFICES ASSUME past' = {} PROVE Whole' /\ ~stale'
  BY DEF train, Run, Undisturbed
<1>1. /\ call.op = "none" /\ call'.op = "train"
      /\ UNCHANGED <<kind, sub, indices, nadded, stale, past>>
  BY DEF train, Run, Idle
<1>2. Whole /\ ~stale /\ Accepted' = Accepted
  BY <1>1 DEF Undisturbed, Accepted
<1> QED
  BY <1>1, <1>2, WholeRemains

LEMMA UndisturbedAdd ==
    ASSUME Typed, Undisturbed, Counts, NEW n \in BatchSizes, add(n)
    PROVE  Undisturbed'
<1> SUFFICES ASSUME past' = {} PROVE Adding' /\ ~stale'
  BY DEF add, Run, Undisturbed
<1>1. /\ call = Idle /\ call.op = "none"
      /\ UNCHANGED <<kind, sub, indices, nadded, ntotal, stale, past>>
      /\ call'.todo = Positions /\ call'.batch = Batch(n)
      /\ kind = "successive" => ntotal = 0
      /\ n \in Nat
  BY BatchesAssumption DEF add, Run, Idle
<1>2. Whole /\ ~stale /\ TotalAgrees /\ Accepted = Positions
  BY <1>1, SumsTyped DEF Undisturbed, Counts, Accepted
<1>3. /\ Positions' = Positions
      /\ \A k \in Positions : VecsAt(k)' = VecsAt(k)
      /\ \A k \in Positions : Size(indices[k])' = Size(indices[k])
      /\ Held' = Held
      /\ Labels' = Labels
  BY <1>1, SameVectors
<1>4. Done' = {}
  BY <1>1, <1>3 DEF Done
<1>5. /\ DOMAIN Batch(n) = 1 .. n
      /\ \A i \in 1 .. n : Batch(n)[i].id = ntotal + i - 1 /\ Batch(n)[i].code = i
  BY DEF Batch, AutoId
<1>6. kind # "replicas" => ntotal = Held /\ ntotal = nadded
  BY <1>1, <1>2, HeldIsTotal DEF TotalAgrees, Whole
<1>7. ASSUME kind = "shards" PROVE AddingToShards'
  <2>1. SumFunctionOnSet(PartSizes', Done') = 0
    BY <1>4, SumOfNone
  <2>2. {nadded + i - 1 : i \in {j \in DOMAIN call.batch : \E k \in Done : InPart(k, j)}}' = {}
    BY <1>4
  <2>3. Held = nadded + 0 /\ Labels = 0 .. (nadded - 1) \union {}
    BY <1>2, <1>7 DEF Whole, Typed
  <2>4. \A i \in DOMAIN call'.batch : call'.batch[i].id = nadded' + i - 1
    BY <1>1, <1>5, <1>6, <1>7
  <2>5. Held' = nadded' + SumFunctionOnSet(PartSizes', Done')
    BY <1>1, <1>3, <2>1, <2>3
  <2>6. Labels' = 0 .. (nadded' - 1) \union
                 {nadded + i - 1 : i \in {j \in DOMAIN call.batch : \E k \in Done : InPart(k, j)}}'
    BY <1>1, <1>3, <2>2, <2>3
  <2> QED
    BY <2>4, <2>5, <2>6 DEF AddingToShards
<1>8. ASSUME kind = "successive" PROVE AddingSuccessive'
  <2>1. ntotal = 0 /\ nadded = 0
    BY <1>1, <1>6, <1>8
  <2>2. SumFunctionOnSet(Sizes, Positions) = 0
    BY <1>6, <1>8, <2>1, HeldIsTotal DEF SumFunction, Sizes
  <2>3. \A k \in Positions : Sizes[k] = 0
    BY <2>2, SumsTyped, ZeroSum
  <2>4. \A k \in Positions : VecsAt(k) = <<>>
    BY <2>3, SumsTyped, VecsTyped
  <2> QED
    BY <1>1, <1>3, <1>4, <1>5, <2>1, <2>4 DEF AddingSuccessive
<1>9. ASSUME kind = "replicas" PROVE AddingToReplicas'
  <2>1. /\ \A j, k \in Positions : VecsAt(j) = VecsAt(k)
        /\ \A k \in Positions : Size(indices[k]) = nadded
        /\ Positions = {} => nadded = 0
    BY <1>2, <1>9 DEF Whole
  <2>2. indices = <<>> => nadded = 0
    BY <2>1 DEF Positions
  <2> QED
    BY <1>1, <1>3, <1>4, <2>1, <2>2 DEF AddingToReplicas
<1> QED
  BY <1>1, <1>2, <1>7, <1>8, <1>9 DEF Adding

(* Functions of reset and train. *)
LEMMA UndisturbedRun ==
    ASSUME Typed, Undisturbed, NEW k \in Positions, run(k), call.op # "add"
    PROVE  Undisturbed'
<1>1. /\ UNCHANGED <<kind, indices, ntotal, nadded, stale, past>>
      /\ call.op \in Running /\ call'.op = call.op
  BY RunElsewhere
<1> SUFFICES ASSUME past' = {}, call.op = "train" PROVE Whole'
  BY <1>1 DEF Undisturbed, Running
<1>2. Whole /\ Accepted' = Accepted
  BY <1>1 DEF Undisturbed, Accepted
<1>3. \A s \in Subs : sub'[s].vecs = sub[s].vecs
  <2>1. sub' = [sub EXCEPT ![indices[k]].trained = TRUE] \/ UNCHANGED sub
    BY DEF run
  <2>2. sub \in [Subs -> [vecs : Seq(Vector), trained : BOOLEAN]] /\ indices[k] \in Subs
    BY SumsTyped DEF Typed
  <2> QED
    BY <2>1, <2>2
<1> QED
  BY <1>1, <1>2, <1>3, WholeRemains

(* The k-th shard has taken its part. *)
LEMMA ShardTook ==
    ASSUME Typed, Typed', NEW k \in Positions, run(k), call.op = "add", ~call'.threw,
           kind = "shards", AddingToShards
    PROVE  AddingToShards'
<1> DEFINE s == indices[k]
           Of(i) == nadded + i - 1
           Arrived == {j \in DOMAIN call.batch : \E q \in Done : InPart(q, j)}
           Arriving == {j \in DOMAIN call.batch : InPart(k, j)}
<1>1. /\ UNCHANGED <<kind, indices, nadded>> /\ Positions' = Positions
      /\ \A j \in Positions \ {k} : VecsAt(j)' = VecsAt(j) /\ Size(indices[j])' = Size(indices[j])
      /\ call.op \in Running /\ call'.batch = call.batch
      /\ k \in call.todo /\ Done' = Done \union {k} /\ k \notin Done
      /\ VecsAt(k)' = Added(s, Part(k))
  BY RunElsewhere DEF Done
<1>2. /\ Part(k) \in Seq(Vector)
      /\ \A i \in 1 .. Len(Part(k)) :
            /\ SplitAt(k, Len(call.batch)) + i \in 1 .. Len(call.batch)
            /\ Part(k)[i] = call.batch[SplitAt(k, Len(call.batch)) + i]
      /\ Len(Part(k)) = SplitAt(k + 1, Len(call.batch)) - SplitAt(k, Len(call.batch))
  BY <1>1, Parts
<1>3. /\ call.batch \in Seq(Vector) /\ Len(call.batch) \in Nat
      /\ DOMAIN call.batch = 1 .. Len(call.batch)
  <2>1. call.batch \in Seq(Vector)
    BY <1>1, CallCases
  <2> QED
    BY <2>1
<1>4. /\ s \in Subs /\ Size(s) \in Nat /\ sub[s].vecs = VecsAt(k)
      /\ VecsAt(k) \in Seq(Vector) /\ Size(s) = Len(VecsAt(k))
  BY SumsTyped, VecsTyped DEF VecsAt
<1>5. /\ VecsAt(k)' \in Seq(Vector)
      /\ Len(VecsAt(k)') = Size(s) + Len(Part(k))
      /\ \A i \in 1 .. Size(s) : VecsAt(k)'[i] = VecsAt(k)[i]
      /\ \A i \in 1 .. Len(Part(k)) : VecsAt(k)'[Size(s) + i] = Part(k)[i]
  <2> DEFINE p == Part(k)
  <2>1. p \in Seq(Vector) /\ s \in Subs /\ kind = "shards"
    BY <1>2, <1>4
  <2> HIDE DEF p, s
  <2>2. /\ Added(s, p) \in Seq(Vector)
        /\ Len(Added(s, p)) = Size(s) + Len(p)
        /\ \A i \in 1 .. Size(s) : Added(s, p)[i] = sub[s].vecs[i]
        /\ \A i \in 1 .. Len(p) : Added(s, p)[Size(s) + i] = p[i]
    BY <2>1, AddedTyped
  <2> QED
    BY <1>1, <1>4, <2>2 DEF p
<1>6. Size(indices[k])' = Size(s) + Len(Part(k)) /\ Len(Part(k)) \in Nat
  BY <1>2, <1>5 DEF VecsAt, Size
<1>7. PartSizes' = PartSizes /\ \A q, i : InPart(q, i)' = InPart(q, i)
  BY <1>1 DEF PartSizes, Part, InPart, SplitAt
<1>8. Held' = Held + Len(Part(k))
  <2>1. Members' = Members /\ s \in Members /\ IsFiniteSet(Members) /\ Members \subseteq Subs
    BY <1>1, HeldIsTotal DEF Members
  <2>2. \A t \in Members : SizeOf[t] \in Nat
    BY <2>1, SumsTyped
  <2>3. ASSUME NEW t \in Members \ {s} PROVE SizeOf'[t] = SizeOf[t]
    <3>1. PICK j \in Positions : t = indices[j]
      BY DEF Members
    <3>2. j \in Positions \ {k}
      BY <3>1
    <3> QED
      BY <1>1, <2>1, <3>1, <3>2 DEF SizeOf
  <2>4. SizeOf'[s] = SizeOf[s] + Len(Part(k)) /\ SizeOf[s] = Size(s)
    BY <1>1, <1>4, <1>6 DEF SizeOf
  <2>5. \A t \in Members : SizeOf'[t] \in Nat
    BY <1>6, <2>2, <2>3, <2>4, <1>4
  <2>6. SumFunctionOnSet(SizeOf, Members) = SizeOf[s] + SumFunctionOnSet(SizeOf, Members \ {s})
    BY <2>1, <2>2, SumWithout
  <2>7. SumFunctionOnSet(SizeOf', Members) = SizeOf'[s] + SumFunctionOnSet(SizeOf', Members \ {s})
    BY <2>1, <2>5, SumWithout
  <2>8. /\ SumFunctionOnSet(SizeOf', Members \ {s}) = SumFunctionOnSet(SizeOf, Members \ {s})
        /\ SumFunctionOnSet(SizeOf, Members \ {s}) \in Nat
    <3> DEFINE R == Members \ {s}
    <3>1. IsFiniteSet(R) /\ (\A t \in R : SizeOf[t] \in Nat) /\ (\A t \in R : SizeOf'[t] = SizeOf[t])
      BY <2>1, <2>2, <2>3, FS_RemoveElement
    <3> HIDE DEF R
    <3>2. SumFunctionOnSet(SizeOf', R) = SumFunctionOnSet(SizeOf, R)
      BY <3>1, SameSum
    <3>3. SumFunctionOnSet(SizeOf, R) \in Nat
      BY <3>1, SumIsNat
    <3> QED
      BY <3>2, <3>3 DEF R
  <2> QED
    BY <1>4, <1>6, <2>1, <2>4, <2>6, <2>7, <2>8 DEF Held
<1>9. SumFunctionOnSet(PartSizes, Done \union {k}) = Len(Part(k)) + SumFunctionOnSet(PartSizes, Done)
      /\ SumFunctionOnSet(PartSizes, Done) \in Nat
  <2>1. IsFiniteSet(Done) /\ k \notin Done /\ Done \subseteq Positions
    BY <1>1, SumsTyped DEF Done
  <2>2. ASSUME NEW q \in Positions PROVE PartSizes[q] \in Nat
    <3>1. Part(q) \in Seq(Vector)
      BY <1>1, Parts
    <3> QED
      BY <3>1 DEF PartSizes
  <2>3. PartSizes[k] = Len(Part(k))
    BY DEF PartSizes
  <2>4. \A q \in Done \union {k} : PartSizes[q] \in Nat
    BY <2>1, <2>2
  <2>5. SumFunctionOnSet(PartSizes, Done \union {k}) =
           PartSizes[k] + SumFunctionOnSet(PartSizes, Done)
    BY <2>1, <2>4, SumWith
  <2>6. SumFunctionOnSet(PartSizes, Done) \in Nat
    BY <2>1, <2>4, SumIsNat
  <2> QED
    BY <2>3, <2>5, <2>6
<1>10. Ids(k)' = Ids(k) \union {Of(i) : i \in Arriving}
  <2> DEFINE f == SplitAt(k, Len(call.batch))
             p == Len(Part(k))
             z == Size(s)
             new == VecsAt(k)'
  <2>1. f \in Nat /\ SplitAt(k + 1, Len(call.batch)) = f + p /\ f + p \in Nat
    <3> DEFINE n == Len(call.batch)
    <3>a. k \in 1 .. Len(indices) /\ indices \in Seq(Subs)
      BY SumsTyped DEF Typed
    <3>b. indices # <<>>
      BY <3>a
    <3>1. n \in Nat /\ indices \in Seq(Subs) /\ indices # <<>> /\ k \in 1 .. Len(indices)
      BY <1>3, <3>a, <3>b
    <3> HIDE DEF n
    <3>2. \A q \in 1 .. (Len(indices) + 1) : SplitAt(q, n) \in 0 .. n
      BY <3>1, Cuts
    <3>3. k \in 1 .. (Len(indices) + 1) /\ k + 1 \in 1 .. (Len(indices) + 1)
      BY <3>1
    <3>4. SplitAt(k, n) \in Nat /\ SplitAt(k + 1, n) \in Nat
      BY <3>1, <3>2, <3>3
    <3> QED
      BY <1>2, <1>6, <3>4 DEF n
  <2>2. Arriving = {j \in 1 .. Len(call.batch) : f < j /\ j <= f + p}
    BY <1>3, <2>1 DEF InPart
  <2>3. Ids(k)' = {new[i].id : i \in 1 .. (z + p)}
    BY <1>1, <1>6 DEF Ids
  <2>4. Ids(k) = {VecsAt(k)[i].id : i \in 1 .. z}
    BY DEF Ids
  <2>5. \A i \in 1 .. z : new[i].id = VecsAt(k)[i].id
    BY <1>5
  <2>6. \A i \in 1 .. p : new[z + i].id = Of(f + i) /\ f + i \in 1 .. Len(call.batch)
    BY <1>2, <1>3, <1>5 DEF AddingToShards
  <2>7. z \in Nat /\ p \in Nat
    BY <1>4, <1>6
  <2> HIDE DEF f, p, z, new, Of, Arriving
  <2>8. ASSUME NEW x \in Ids(k)' PROVE x \in Ids(k) \union {Of(i) : i \in Arriving}
    <3>1. PICK i \in 1 .. (z + p) : x = new[i].id
      BY <2>3
    <3>2. CASE i <= z
      <4>1. i \in 1 .. z
        BY <2>7, <3>2
      <4> QED
        BY <2>4, <2>5, <3>1, <4>1
    <3>3. CASE ~(i <= z)
      <4>1. i - z \in 1 .. p /\ z + (i - z) = i
        BY <2>7, <3>3
      <4>2. x = Of(f + (i - z)) /\ f + (i - z) \in 1 .. Len(call.batch)
        BY <2>6, <3>1, <4>1
      <4>3. f + (i - z) \in Arriving
        BY <1>3, <2>1, <2>2, <2>7, <4>1, <4>2
      <4> QED
        BY <4>2, <4>3
    <3> QED
      BY <3>2, <3>3
  <2>9. ASSUME NEW x \in Ids(k) PROVE x \in Ids(k)'
    <3>1. PICK i \in 1 .. z : x = VecsAt(k)[i].id
      BY <2>4
    <3>2. i \in 1 .. (z + p) /\ x = new[i].id
      BY <2>5, <2>7, <3>1
    <3> QED
      BY <2>3, <3>2
  <2>10. ASSUME NEW j \in Arriving PROVE Of(j) \in Ids(k)'
    <3>1. j - f \in 1 .. p /\ f + (j - f) = j
      BY <1>3, <2>1, <2>2, <2>7
    <3>2. z + (j - f) \in 1 .. (z + p)
      BY <2>1, <2>7, <3>1
    <3>3. new[z + (j - f)].id = Of(j)
      BY <2>6, <3>1
    <3> QED
      BY <2>3, <3>2, <3>3
  <2> QED
    BY <2>8, <2>9, <2>10
<1>11. Labels' = Labels \union {Of(i) : i \in Arriving}
  <2>1. Labels = UNION {Ids(q) : q \in Positions}
    BY LabelsAre
  <2>3. Labels' = UNION {Ids(q)' : q \in Positions}
    BY <1>1, LabelsAreNext
  <2>4. \A q \in Positions \ {k} : Ids(q)' = Ids(q)
    BY <1>1 DEF Ids
  <2> DEFINE new == {Of(i) : i \in Arriving}
  <2>5. Ids(k)' = Ids(k) \union new
    BY <1>10
  <2> HIDE DEF new
  <2>6. Labels' = Labels \union new
    BY <2>1, <2>3, <2>4, <2>5
  <2> QED
    BY <2>6 DEF new
<1>12. {Of(i) : i \in Arrived} \union {Of(i) : i \in Arriving} =
          {Of(i) : i \in {j \in DOMAIN call.batch : \E q \in Done \union {k} : InPart(q, j)}}
  <2> HIDE DEF Of
  <2> QED
    OBVIOUS
<1>13. {nadded + i - 1 : i \in {j \in DOMAIN call.batch : \E q \in Done : InPart(q, j)}}' =
          {Of(i) : i \in {j \in DOMAIN call.batch : \E q \in Done \union {k} : InPart(q, j)}}
  BY <1>1, <1>7
<1>14. Held = nadded + SumFunctionOnSet(PartSizes, Done) /\ nadded \in Nat
       /\ Labels = 0 .. (nadded - 1) \union {Of(i) : i \in Arrived}
       /\ \A i \in DOMAIN call.batch : call.batch[i].id = nadded + i - 1
  BY DEF AddingToShards, Typed
<1>15. Held' = nadded' + SumFunctionOnSet(PartSizes', Done')
  BY <1>1, <1>6, <1>7, <1>8, <1>9, <1>14
<1>16. Labels' = 0 .. (nadded' - 1) \union
          {nadded + i - 1 : i \in {j \in DOMAIN call.batch : \E q \in Done : InPart(q, j)}}'
  <2> HIDE DEF Of, Arriving, Arrived
  <2> QED
    BY <1>1, <1>11, <1>12, <1>13, <1>14
<1> QED
  BY <1>1, <1>14, <1>15, <1>16 DEF AddingToShards

(* The k-th shard has taken its part and numbered it from 0. *)
LEMMA SuccessiveTook ==
    ASSUME Typed, NEW k \in Positions, run(k), call.op = "add", ~call'.threw,
           kind = "successive", AddingSuccessive
    PROVE  AddingSuccessive'
<1>1. /\ UNCHANGED <<kind, indices, nadded>> /\ Positions' = Positions
      /\ \A j \in Positions \ {k} : VecsAt(j)' = VecsAt(j) /\ Size(indices[j])' = Size(indices[j])
      /\ call.op \in Running /\ call'.batch = call.batch
      /\ k \in call.todo /\ call'.todo = call.todo \ {k}
      /\ Done' = Done \union {k} /\ k \notin Done
      /\ VecsAt(k)' = Added(indices[k], Part(k))
  BY RunElsewhere DEF Done
<1>2. call.todo \subseteq Positions /\ Done \subseteq Positions
      /\ call.batch \in Seq(Vector)
  BY <1>1, CallCases DEF Done
<1>3. \A j \in Positions : Part(j)' = Part(j)
  BY <1>1 DEF Part, SplitAt
<1> DEFINE n == Len(call.batch)
           first == SplitAt(k, n)
           part == Part(k)
           s == indices[k]
<1>4. /\ part \in Seq(Vector)
      /\ \A i \in 1 .. Len(part) : first + i \in 1 .. n /\ part[i] = call.batch[first + i]
  BY <1>1, Parts
<1>5. s \in Subs /\ VecsAt(k) = <<>> /\ Size(s) = 0
  BY <1>1, <1>2, VecsTyped, SumsTyped DEF AddingSuccessive
<1>6. Len(part) \in Nat /\ DOMAIN call.batch = 1 .. n
      /\ \A i \in 1 .. n : call.batch[i].code = i
  BY <1>2, <1>4 DEF AddingSuccessive
<1>7. /\ Len(Added(s, part)) = Len(part)
      /\ \A i \in 1 .. Len(part) : Added(s, part)[i] = [id |-> i - 1, code |-> first + i]
  <2> HIDE DEF s, part, first, n
  <2>1. /\ Len(Added(s, part)) = Size(s) + Len(part)
        /\ \A i \in 1 .. Len(part) : Added(s, part)[Size(s) + i] =
                                        [id |-> Size(s) + i - 1, code |-> part[i].code]
    <3>1. kind # "shards"
      OBVIOUS
    <3> QED
      BY <1>4, <1>5, <3>1, AddedTyped
  <2>2. \A i \in 1 .. Len(part) : part[i].code = first + i
    BY <1>4, <1>6
  <2>3. \A i \in 1 .. Len(part) : Size(s) + i = i /\ Size(s) + i - 1 = i - 1
    BY <1>5
  <2>4. Size(s) + Len(part) = Len(part)
    BY <1>5, <1>6
  <2> QED
    BY <2>1, <2>2, <2>3, <2>4
<1>8. Size(indices[k])' = Len(part) /\ VecsAt(k)' = Added(s, part)
  BY <1>1, <1>7 DEF VecsAt, Size
<1>9. Numbered(k, first)'
  <2> HIDE DEF part, s
  <2>1. first' = first
    BY <1>1 DEF SplitAt
  <2> QED
    BY <1>7, <1>8, <2>1 DEF Numbered
<1>10. ASSUME NEW j \in Done'
       PROVE  Size(indices[j])' = Len(Part(j)') /\ Numbered(j, SplitAt(j, Len(call.batch)))'
  <2>1. CASE j = k
    BY <1>3, <1>8, <1>9, <2>1
  <2>2. CASE j # k
    <3>1. j \in Done /\ j \in Positions \ {k}
      BY <1>1, <1>2, <2>2
    <3>2. Size(indices[j]) = Len(Part(j)) /\ Numbered(j, SplitAt(j, Len(call.batch)))
      BY <3>1 DEF AddingSuccessive
    <3>3. SplitAt(j, Len(call.batch))' = SplitAt(j, Len(call.batch))
      BY <1>1 DEF SplitAt
    <3> QED
      BY <1>1, <1>3, <3>1, <3>2, <3>3 DEF Numbered
  <2> QED
    BY <2>1, <2>2
<1>11. \A j \in call'.todo : VecsAt(j)' = <<>>
  BY <1>1, <1>2 DEF AddingSuccessive
<1> HIDE DEF n, first, part, s
<1> QED
  BY <1>1, <1>10, <1>11 DEF AddingSuccessive

(* The k-th replica has taken the batch. *)
LEMMA ReplicaTook ==
    ASSUME Typed, NEW k \in Positions, run(k), call.op = "add", ~call'.threw,
           kind = "replicas", AddingToReplicas
    PROVE  AddingToReplicas'
<1>1. /\ UNCHANGED <<kind, indices, nadded>> /\ Positions' = Positions
      /\ \A j \in Positions \ {k} : VecsAt(j)' = VecsAt(j) /\ Size(indices[j])' = Size(indices[j])
      /\ call.op \in Running /\ call'.batch = call.batch
      /\ k \in call.todo /\ call'.todo = call.todo \ {k}
      /\ Done' = Done \union {k} /\ k \notin Done
      /\ VecsAt(k)' = Added(indices[k], Part(k))
  BY RunElsewhere DEF Done
<1>2. call.todo \subseteq Positions /\ Done \subseteq Positions
      /\ call.batch \in Seq(Vector)
  BY <1>1, CallCases DEF Done
<1> DEFINE n == Len(call.batch)
           new == Added(indices[k], call.batch)
<1>3. VecsAt(k)' = new
  BY <1>1 DEF Part
<1>4. Len(new) = nadded + n
  <2>1. Size(indices[k]) = nadded /\ indices[k] \in Subs
    BY <1>1, SumsTyped DEF AddingToReplicas
  <2>2. Len(Added(indices[k], call.batch)) = Size(indices[k]) + Len(call.batch)
    BY <1>2, <2>1, AddedTyped
  <2> QED
    BY <2>1, <2>2
<1>5. \A j \in call.todo : VecsAt(j) = VecsAt(k) /\ Added(indices[j], call.batch) = new
  BY <1>1 DEF AddingToReplicas, Added, OwnIds, VecsAt, Size
<1>6. \A j \in Done : VecsAt(j) = new
  BY <1>1 DEF AddingToReplicas
<1>7. Size(indices[k])' = Len(new)
  BY <1>1, <1>3 DEF VecsAt, Size
<1>8. \A j \in Done' : VecsAt(j)' = new
  BY <1>1, <1>2, <1>3, <1>6
<1>9. \A j \in Done' : Size(indices[j])' = nadded' + Len(call'.batch)
  <2> TAKE j \in Done'
  <2>1. CASE j = k
    BY <1>1, <1>4, <1>7, <2>1
  <2>2. CASE j # k
    <3>1. j \in Done /\ j \in Positions \ {k}
      BY <1>1, <1>2, <2>2
    <3> QED
      BY <1>1, <3>1 DEF AddingToReplicas
  <2> QED
    BY <2>1, <2>2
<1>10. \A j \in call'.todo : /\ VecsAt(j)' = VecsAt(j)
                             /\ Size(indices[j])' = Size(indices[j])
                             /\ Added(indices[j], call.batch)' = Added(indices[j], call.batch)
  BY <1>1, <1>2 DEF Added, OwnIds, VecsAt, Size
<1>11. \A j \in call'.todo, i \in Done' : VecsAt(i)' = Added(indices[j], call.batch)'
  BY <1>1, <1>5, <1>8, <1>10
<1>12. /\ \A j, i \in call'.todo : VecsAt(j)' = VecsAt(i)'
       /\ \A j \in call'.todo : Size(indices[j])' = nadded'
  BY <1>1, <1>10 DEF AddingToReplicas
<1>13. \A j, i \in Done' : VecsAt(j)' = VecsAt(i)'
  BY <1>8
<1>14. indices' = <<>> => nadded' = 0
  BY <1>1 DEF AddingToReplicas
<1> HIDE DEF n, new
<1> QED
  BY <1>9, <1>11, <1>12, <1>13, <1>14 DEF AddingToReplicas

LEMMA UndisturbedTake ==
    ASSUME Typed, Typed', Undisturbed, NEW k \in Positions, run(k), call.op = "add"
    PROVE  Undisturbed'
<1>1. /\ UNCHANGED <<kind, indices, ntotal, nadded, stale, past>>
      /\ call'.op = "add" /\ (~call'.threw => ~call.threw)
  BY RunElsewhere
<1> SUFFICES ASSUME past' = {}, ~call'.threw PROVE Adding'
  BY <1>1 DEF Undisturbed
<1>2. Adding
  BY <1>1 DEF Undisturbed
<1>3. kind = "shards" => AddingToShards'
  BY <1>2, ShardTook DEF Adding
<1>4. kind = "successive" => AddingSuccessive'
  BY <1>2, SuccessiveTook DEF Adding
<1>5. kind = "replicas" => AddingToReplicas'
  BY <1>2, ReplicaTook DEF Adding
<1> QED
  BY <1>1, <1>3, <1>4, <1>5 DEF Adding

(* The first m parts of a batch end where the next begins. *)
LEMMA PartsAddUp ==
    ASSUME Typed, call.op \in Running, kind # "replicas", indices # <<>>,
           NEW m \in 0 .. Len(indices)
    PROVE  SumFunctionOnSet(PartSizes, 1 .. m) = SplitAt(m + 1, Len(call.batch))
<1>n. Len(call.batch) \in Nat
  <2>1. call.batch \in Seq(Vector)
    BY CallCases
  <2> QED
    BY <2>1
<1> DEFINE n == Len(call.batch)
           b == [k \in 1 .. (Len(indices) + 1) |-> SplitAt(k, n)]
<1>1. n \in Nat /\ indices \in Seq(Subs) /\ Len(indices) \in Nat /\ Positions = 1 .. Len(indices)
  BY <1>n, SumsTyped DEF Typed
<1>2. \A k \in Positions : PartSizes[k] = SplitAt(k + 1, n) - SplitAt(k, n)
  BY Parts DEF PartSizes
<1> HIDE DEF n
<1>3. /\ SplitAt(1, n) = 0
      /\ \A k \in 1 .. (Len(indices) + 1) : SplitAt(k, n) \in 0 .. n
      /\ \A k \in 1 .. Len(indices) : SplitAt(k, n) <= SplitAt(k + 1, n)
  BY <1>1, Cuts
<1>4. /\ \A k \in 1 .. (Len(indices) + 1) : b[k] \in Nat
      /\ \A k \in 1 .. Len(indices) : b[k] <= b[k + 1]
      /\ \A k \in 1 .. Len(indices) : PartSizes[k] = b[k + 1] - b[k]
  BY <1>1, <1>2, <1>3
<1>5. b[1] = 0 /\ b[m + 1] = SplitAt(m + 1, n) /\ b[m + 1] \in Nat
  BY <1>1, <1>3
<1> HIDE DEF b
<1>6. SumFunctionOnSet(PartSizes, 1 .. m) = b[m + 1] - b[1]
  BY <1>1, <1>4, SumOfSteps
<1> QED
  BY <1>5, <1>6 DEF n

(* All shards have taken their parts. *)
LEMMA ShardsDone ==
    ASSUME Typed, call.op \in Running, call.todo = {}, kind = "shards", AddingToShards
    PROVE  LET n == IF indices = <<>> THEN 0 ELSE Len(call.batch)
           IN  Held = nadded + n /\ Labels = 0 .. (nadded + n - 1)
<1> DEFINE Of(i) == nadded + i - 1
           Arrived == {j \in DOMAIN call.batch : \E k \in Done : InPart(k, j)}
<1>1. Done = Positions /\ Positions = 1 .. Len(indices) /\ Len(indices) \in Nat /\ nadded \in Nat
  BY SumsTyped DEF Done, Typed
<1>2. /\ Held = nadded + SumFunctionOnSet(PartSizes, Done)
      /\ Labels = 0 .. (nadded - 1) \union {Of(i) : i \in Arrived}
  BY DEF AddingToShards
<1>3. CASE indices = <<>>
  <2>1. Done = {}
    BY <1>1, <1>3
  <2>2. Arrived = {}
    BY <2>1
  <2>3. SumFunctionOnSet(PartSizes, Done) = 0
    BY <2>1, SumOfNone
  <2>4. nadded + 0 = nadded
    BY <1>1
  <2> HIDE DEF Arrived
  <2>5. Labels = 0 .. (nadded - 1) /\ Held = nadded
    BY <1>2, <2>2, <2>3, <2>4
  <2>i. 0 .. (nadded + 0 - 1) = 0 .. (nadded - 1)
    BY <1>1
  <2>6. Held = nadded + 0 /\ Labels = 0 .. (nadded + 0 - 1)
    BY <2>4, <2>5, <2>i
  <2> QED
    BY <1>3, <2>6
<1>4. CASE indices # <<>>
  <2>1. call.batch \in Seq(Vector)
    BY CallCases
  <2>2. Len(call.batch) \in Nat /\ DOMAIN call.batch = 1 .. Len(call.batch)
    BY <2>1
  <2>3. SumFunctionOnSet(PartSizes, 1 .. Len(indices)) = SplitAt(Len(indices) + 1, Len(call.batch))
    BY <1>1, <1>4, PartsAddUp
  <2>4. SplitAt(Len(indices) + 1, Len(call.batch)) = Len(call.batch)
    <3> DEFINE n == Len(call.batch)
    <3>1. n \in Nat /\ indices \in Seq(Subs)
      BY <2>2 DEF Typed
    <3> HIDE DEF n
    <3>2. SplitAt(Len(indices) + 1, n) = n
      BY <1>4, <3>1, Cuts
    <3> QED
      BY <3>2 DEF n
  <2>5. Arrived = 1 .. Len(call.batch)
    BY <1>1, <1>4, <2>2, PartsCover
  <2>6. Held = nadded + Len(call.batch)
    BY <1>1, <1>2, <2>3, <2>4
  <2> DEFINE n == Len(call.batch)
  <2>7. n \in Nat /\ Arrived = 1 .. n /\ Held = nadded + n
    BY <2>2, <2>5, <2>6
  <2> HIDE DEF n, Arrived
  <2>8. 0 .. (nadded - 1) \union {Of(i) : i \in 1 .. n} = 0 .. (nadded + n - 1)
    <3>1. ASSUME NEW x \in 0 .. (nadded + n - 1)
          PROVE  x \in 0 .. (nadded - 1) \/ \E i \in 1 .. n : x = Of(i)
      <4>1. CASE x < nadded
        BY <1>1, <4>1
      <4>2. CASE ~(x < nadded)
        <5>1. x - nadded + 1 \in 1 .. n /\ x = Of(x - nadded + 1)
          BY <1>1, <2>7, <4>2
        <5> QED
          BY <5>1
      <4> QED
        BY <4>1, <4>2
    <3>2. \A i \in 1 .. n : Of(i) \in 0 .. (nadded + n - 1)
      BY <1>1, <2>7
    <3>3. 0 .. (nadded - 1) \subseteq 0 .. (nadded + n - 1)
      BY <1>1, <2>7
    <3> HIDE DEF Of
    <3> QED
      BY <3>1, <3>2, <3>3
  <2>9. Labels = 0 .. (nadded + n - 1)
    BY <1>2, <2>7, <2>8
  <2> QED
    BY <1>4, <2>7, <2>9 DEF n
<1> QED
  BY <1>3, <1>4

(* All shards have numbered their parts. *)
LEMMA SuccessiveDone ==
    ASSUME Typed, call.op \in Running, call.todo = {}, kind = "successive", AddingSuccessive
    PROVE  /\ Held = IF indices = <<>> THEN 0 ELSE Len(call.batch)
           /\ \A k \in Positions : Numbered(k, translations(k))
<1>1. Done = Positions /\ Positions = 1 .. Len(indices) /\ Len(indices) \in Nat
  BY SumsTyped DEF Done, Typed
<1>2. \A k \in Positions : /\ Size(indices[k]) = Len(Part(k))
                           /\ Numbered(k, SplitAt(k, Len(call.batch)))
  BY <1>1 DEF AddingSuccessive
<1>3. \A k \in Positions : PartSizes[k] = Sizes[k] /\ Sizes[k] \in Nat
  BY <1>2, SumsTyped DEF PartSizes
<1>4. ASSUME NEW m \in 0 .. Len(indices)
      PROVE  SumFunctionOnSet(PartSizes, 1 .. m) = SumFunctionOnSet(Sizes, 1 .. m)
  <2> DEFINE S == 1 .. m
  <2>1. S \subseteq Positions /\ IsFiniteSet(S)
    <3>1. S \subseteq Positions
      BY <1>1
    <3> QED
      BY <3>1, SumsTyped
  <2> HIDE DEF S
  <2>2. SumFunctionOnSet(PartSizes, S) = SumFunctionOnSet(Sizes, S)
    BY <1>3, <2>1, SameSum
  <2> QED
    BY <2>2 DEF S
<1>5. SumFunctionOnSet(Sizes, 1 .. Len(indices)) = Held
  <2>1. DOMAIN Sizes = 1 .. Len(indices)
    BY <1>1 DEF Sizes
  <2> QED
    BY <2>1, HeldIsTotal DEF SumFunction
<1>6. CASE indices = <<>>
  <2>1. 1 .. Len(indices) = {} /\ Positions = {}
    BY <1>1, <1>6
  <2> QED
    BY <1>5, <1>6, <2>1, SumOfNone
<1>7. CASE indices # <<>>
  <2>1. SumFunctionOnSet(PartSizes, 1 .. Len(indices)) = SplitAt(Len(indices) + 1, Len(call.batch))
    BY <1>1, <1>7, PartsAddUp
  <2>2. SplitAt(Len(indices) + 1, Len(call.batch)) = Len(call.batch)
    <3> DEFINE n == Len(call.batch)
    <3>0. call.batch \in Seq(Vector)
      BY CallCases
    <3>1. n \in Nat /\ indices \in Seq(Subs)
      BY <3>0 DEF Typed
    <3> HIDE DEF n
    <3>2. SplitAt(Len(indices) + 1, n) = n
      BY <1>7, <3>1, Cuts
    <3> QED
      BY <3>2 DEF n
  <2>3. Held = Len(call.batch)
    BY <1>1, <1>4, <1>5, <2>1, <2>2
  <2>4. ASSUME NEW k \in Positions PROVE Numbered(k, translations(k))
    <3>1. k - 1 \in 0 .. Len(indices) /\ (k - 1) + 1 = k
      BY <1>1
    <3>2. SumFunctionOnSet(PartSizes, 1 .. (k - 1)) = SplitAt((k - 1) + 1, Len(call.batch))
      BY <1>7, <3>1, PartsAddUp
    <3>3. translations(k) = SumFunctionOnSet(Sizes, 1 .. (k - 1))
      BY DEF translations
    <3>4. translations(k) = SplitAt(k, Len(call.batch))
      BY <1>4, <3>1, <3>2, <3>3
    <3> QED
      BY <1>2, <3>4
  <2> QED
    BY <1>7, <2>3, <2>4
<1> QED
  BY <1>6, <1>7

LEMMA UndisturbedEnd ==
    ASSUME Typed, Undisturbed, Counts, end
    PROVE  Undisturbed'
<1>1. /\ call.op \in Running /\ call.todo = {}
      /\ call' = Idle /\ call'.op = "none"
      /\ UNCHANGED <<kind, sub, indices>>
  BY DEF end, Running, Idle
<1> SUFFICES ASSUME past' = {} PROVE Whole' /\ ~stale'
  BY <1>1 DEF Undisturbed
<1>2. ~call.threw
  BY DEF end, Thrown
<1>3. /\ Positions' = Positions
      /\ \A k \in Positions : VecsAt(k)' = VecsAt(k)
      /\ \A k \in Positions : Size(indices[k])' = Size(indices[k])
      /\ Held' = Held
      /\ Labels' = Labels
      /\ \A k \in Positions : translations(k)' = translations(k)
  BY <1>1, SameVectors
<1>4. Accepted' = Positions /\ Positions = 1 .. Len(indices)
  BY <1>1, SumsTyped DEF Accepted
<1>5. Positions = {} <=> indices = <<>>
  <2>1. indices \in Seq(Subs)
    BY DEF Typed
  <2> QED
    BY <2>1 DEF Positions
<1>6. CASE call.op = "reset"
  <2>1. nadded' = 0 /\ ~stale'
    BY <1>2, <1>6 DEF end
  <2>2. \A k \in Positions : VecsAt(k) = <<>>
    BY <1>1, <1>2, <1>6 DEF Counts, Done
  <2>3. \A k \in Positions : Size(indices[k]) = 0 /\ Sizes[k] = 0
    BY <2>2, SumsTyped, VecsTyped
  <2>4. Held = 0
    <3>1. IsFiniteSet(Positions) /\ DOMAIN Sizes = Positions
      BY SumsTyped DEF Sizes
    <3>2. SumFunction(Sizes) = 0
      BY <2>3, <3>1, SumOfZeros DEF SumFunction
    <3> QED
      BY <3>2, HeldIsTotal
  <2>5. kind = "shards" => Labels = {}
    <3>1. \A k \in Positions : Ids(k) = {}
      BY <2>3 DEF Ids
    <3> QED
      BY <3>1, LabelsAre
  <2>6. 0 .. (nadded' - 1) = {}
    BY <2>1
  <2>7. \A k \in Positions : Numbered(k, translations(k))'
    BY <1>3, <2>3 DEF Numbered
  <2> QED
    BY <1>1, <1>3, <1>4, <2>1, <2>2, <2>3, <2>4, <2>5, <2>6, <2>7 DEF Whole
<1>7. CASE call.op = "train"
  <2>1. nadded' = nadded /\ ~stale' /\ past = {}
    BY <1>2, <1>7 DEF end, syncWithSubIndexes, Thrown
  <2>2. Whole /\ Accepted' = Accepted
    BY <1>1, <1>7, <2>1 DEF Undisturbed, Accepted
  <2> QED
    BY <1>1, <2>1, <2>2, WholeRemains
<1>8. CASE call.op = "add"
  <2>1. ~stale' /\ past = {}
    BY <1>2, <1>8 DEF end, syncWithSubIndexes, Thrown
  <2>2. nadded' = IF indices = <<>> THEN nadded ELSE nadded + Len(call.batch)
    BY <1>2, <1>8 DEF end
  <2>3. Adding
    BY <1>2, <1>8, <2>1 DEF Undisturbed
  <2>n. nadded \in Nat /\ kind \in {"shards", "successive", "replicas"}
    BY KindsAssumption DEF Typed
  <2>4. ASSUME kind = "shards" PROVE Held' = nadded' /\ Labels' = 0 .. (nadded' - 1)
    <3> DEFINE n == IF indices = <<>> THEN 0 ELSE Len(call.batch)
    <3>1. Held = nadded + n /\ Labels = 0 .. (nadded + n - 1)
      BY <1>1, <2>3, <2>4, ShardsDone DEF Adding
    <3>2. nadded' = nadded + n
      BY <2>2, <2>n
    <3>3. Held' = Held /\ Labels' = Labels
      BY <1>3
    <3>b. call.batch \in Seq(Vector)
      BY <1>1, CallCases
    <3>n. n \in Nat
      BY <3>b
    <3> HIDE DEF n
    <3>4. nadded' - 1 = nadded + n - 1
      BY <2>n, <3>2, <3>n
    <3> QED
      BY <3>1, <3>2, <3>3, <3>4
  <2>5. ASSUME kind = "successive"
        PROVE  Held' = nadded' /\ \A k \in Positions : Numbered(k, translations(k))'
    <3>1. /\ Held = IF indices = <<>> THEN 0 ELSE Len(call.batch)
          /\ \A k \in Positions : Numbered(k, translations(k))
      BY <1>1, <2>3, <2>5, SuccessiveDone DEF Adding
    <3>2. nadded = 0
      BY <2>3, <2>5 DEF Adding, AddingSuccessive
    <3>3. call.batch \in Seq(Vector)
      BY <1>1, CallCases
    <3>4. nadded' = IF indices = <<>> THEN 0 ELSE Len(call.batch)
      BY <2>2, <3>2, <3>3
    <3>5. \A k \in Positions : Numbered(k, translations(k))'
      BY <1>3, <3>1 DEF Numbered
    <3> QED
      BY <1>3, <3>1, <3>4, <3>5
  <2>6. ASSUME kind = "replicas"
        PROVE  /\ \A j, k \in Accepted' : VecsAt(j)' = VecsAt(k)'
               /\ \A k \in Accepted' : Size(indices[k])' = nadded'
               /\ Accepted' = {} => nadded' = 0
    <3>1. AddingToReplicas /\ Done = Positions
      BY <1>1, <2>3, <2>6 DEF Adding, Done
    <3>2. \A j, k \in Positions : VecsAt(j) = VecsAt(k)
      BY <3>1 DEF AddingToReplicas
    <3>3. \A k \in Positions : Size(indices[k]) = nadded + Len(call.batch)
      BY <3>1 DEF AddingToReplicas
    <3>4. indices = <<>> => nadded = 0
      BY <3>1 DEF AddingToReplicas
    <3> QED
      BY <1>3, <1>4, <1>5, <2>2, <3>2, <3>3, <3>4
  <2> QED
    BY <1>1, <1>3, <2>1, <2>4, <2>5, <2>6, <2>n DEF Whole
<1> QED
  BY <1>1, <1>6, <1>7, <1>8 DEF Running

LEMMA UndisturbedStep ==
    Typed /\ Typed' /\ Counts /\ Undisturbed /\ [Next]_vars => Undisturbed'
<1> SUFFICES ASSUME Typed, Typed', Counts, Undisturbed, [Next]_vars PROVE Undisturbed'
  OBVIOUS
<1>1. ASSUME NEW s \in Subs, addIndex(s) PROVE Undisturbed'
  BY <1>1, UndisturbedAddIndex
<1>2. ASSUME NEW k \in Positions, removeIndex(k) PROVE Undisturbed'
  BY <1>2, UndisturbedRemoveIndex
<1>3. CASE onAfterAddIndex
  BY <1>3, UndisturbedAfterAddIndex
<1>4. CASE onAfterRemoveIndex
  BY <1>4, UndisturbedAfterRemoveIndex
<1>5. CASE train
  BY <1>5, UndisturbedTrain
<1>6. CASE reset
  BY <1>6 DEF reset, Run, Undisturbed
<1>7. ASSUME NEW n \in BatchSizes, add(n) PROVE Undisturbed'
  BY <1>7, UndisturbedAdd
<1>8. ASSUME NEW n \in BatchSizes, NEW first \in GivenIds, add_with_ids(n, first)
      PROVE  Undisturbed'
  BY <1>8 DEF add_with_ids, Undisturbed
<1>9. ASSUME NEW k \in Positions, run(k) PROVE Undisturbed'
  BY <1>9, UndisturbedRun, UndisturbedTake
<1>10. CASE end
  BY <1>10, UndisturbedEnd
<1>11. CASE UNCHANGED vars
  <2>1. UNCHANGED <<kind, sub, indices, ntotal, call, nadded, stale, past>>
    BY <1>11 DEF vars
  <2>2. /\ Held' = Held /\ Labels' = Labels /\ Positions' = Positions
        /\ \A k \in Positions : VecsAt(k)' = VecsAt(k)
    BY <2>1, SameVectors
  <2>3. Accepted' = Accepted /\ Sizes' = Sizes /\ Done' = Done
    BY <2>1, <2>2 DEF Accepted, Sizes, Size, Done
  <2>4. PartSizes' = PartSizes
    BY <2>1, <2>2 DEF PartSizes, Part, SplitAt
  <2>5. Whole' = Whole
    BY <2>1, <2>2, <2>3 DEF Whole, Numbered, VecsAt, Size, translations
  <2>6. AddingToShards' = AddingToShards
    BY <2>1, <2>2, <2>3, <2>4 DEF AddingToShards, InPart, SplitAt
  <2>7. AddingSuccessive' = AddingSuccessive
    BY <2>1, <2>2, <2>3, <2>4
       DEF AddingSuccessive, Numbered, VecsAt, Size, Part, SplitAt
  <2>8. AddingToReplicas' = AddingToReplicas
    BY <2>1, <2>2, <2>3 DEF AddingToReplicas, VecsAt, Size, Added, OwnIds
  <2> QED
    BY <2>1, <2>5, <2>6, <2>7, <2>8 DEF Undisturbed, Adding
<1> QED
  BY <1>1, <1>2, <1>3, <1>4, <1>5, <1>6, <1>7, <1>8, <1>9, <1>10, <1>11 DEF Next

(* Between calls a search over the collection answers as one index would:   *)
(* shards give unique ids, successive ids are the positions in the batch,   *)
(* and replicas hold the same; for any number of sub-indexes, until a call  *)
(* throws or an index that is not empty joins or leaves, and after reset.   *)
THEOREM AnswersAreOne == Spec => []AnswersAsOne
<1> DEFINE IInv == Typed /\ Counts /\ Undisturbed
<1>1. Init => IInv
  BY TypedInit, CountsInit, UndisturbedInit
<1>2. IInv /\ [Next]_vars => IInv'
  BY TypedStep, CountsStep, UndisturbedStep
<1>3. IInv => AnswersAsOne
  BY WholeAnswers
<1> QED
  BY <1>1, <1>2, <1>3, PTL DEF Spec
===============================================================================

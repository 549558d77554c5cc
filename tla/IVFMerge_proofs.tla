---------------------------- MODULE IVFMerge_proofs ----------------------------
(***************************************************************************)
(* Proofs about the merges of IVF indexes, for any shards, options and     *)
(* answers of k-means and any interleaving of the threads that encode:     *)
(* every vector stays in exactly one list, the threads, which write to     *)
(* shared buffers without locks, never write to the same place, and the    *)
(* quota passes leave no list empty.                                       *)
(* The lemmas about the lists come first, then those about the codes, then *)
(* those about the lists' sizes.                                           *)
(***************************************************************************)
EXTENDS IVFMerge, Sums_proofs, FiniteSetTheorems, TLAPS

(* Every id is in one list of the table, and in one only. *)
OnceEach(table, ids) ==
    \A id \in ids : \E c \in DOMAIN table :
        id \in table[c] /\ \A d \in DOMAIN table : id \in table[d] => d = c

IsTable(table, ids) == table \in Seq(SUBSET ids)

(* The inductive invariant: the types, when the variables of stage 2 are in *)
(* use, and the partition.                                                  *)
IInv ==
    /\ TypeOK
    /\ target \in Nat
    /\ pc \in {"concat", "compress"} => assign = <<>> /\ todo = {}
    /\ pc = "reassign" => assign \in [Ids -> 0 .. target]
    /\ pc # "reassign" => todo = {}
    /\ Partition

-----------------------------------------------------------------------------
(* Sequences that are appended to each other. *)

(* f[i] is made of the first i of the sequences, as FlattenSeq computes it. *)
Flattens(f, s, m) ==
    f = [i \in 1 .. m |-> IF i = 1 THEN s[i] ELSE f[i - 1] \o s[i]]

(* The equation has a solution, or else it has none for a least m. *)
LEMMA Flattenable ==
    ASSUME NEW s, NEW n \in Nat PROVE \E f : Flattens(f, s, n)
<1> DEFINE Bad == {m \in 0 .. n : ~ \E f : Flattens(f, s, m)}
<1> SUFFICES ASSUME Bad # {} PROVE FALSE
  OBVIOUS
<1>1. PICK m \in Bad : \A k \in Bad : m <= k
  <2>1. Bad \subseteq Nat
    OBVIOUS
  <2> HIDE DEF Bad
  <2> QED
    BY <2>1, SmallestOf
<1>2. m \in 0 .. n /\ ~ \E f : Flattens(f, s, m)
  OBVIOUS
<1>3. m # 0
  <2> SUFFICES ASSUME m = 0 PROVE FALSE
    OBVIOUS
  <2> DEFINE f == [i \in 1 .. 0 |-> 0]
  <2>1. f = [i \in 1 .. 0 |-> IF i = 1 THEN s[i] ELSE f[i - 1] \o s[i]]
    OBVIOUS
  <2>2. Flattens(f, s, 0)
    BY <2>1 DEF Flattens
  <2> QED
    BY <1>2, <2>2
<1>4. m - 1 \in 0 .. n /\ m - 1 \notin Bad
  BY <1>1, <1>2, <1>3
<1>5. PICK g : Flattens(g, s, m - 1)
  BY <1>4
<1> DEFINE f == [i \in 1 .. m |->
                   IF i < m THEN g[i]
                   ELSE IF i = 1 THEN s[i] ELSE g[i - 1] \o s[i]]
<1>6. ASSUME NEW i \in 1 .. m
      PROVE  f[i] = IF i = 1 THEN s[i] ELSE f[i - 1] \o s[i]
  <2>1. CASE i < m
    <3>1. i \in 1 .. (m - 1)
      BY <1>2, <2>1
    <3>2. g[i] = IF i = 1 THEN s[i] ELSE g[i - 1] \o s[i]
      BY <1>5, <3>1 DEF Flattens
    <3>3. i # 1 => f[i - 1] = g[i - 1]
      BY <1>2, <2>1
    <3> QED
      BY <2>1, <3>2, <3>3
  <2>2. CASE ~(i < m)
    <3>1. f[i] = IF i = 1 THEN s[i] ELSE g[i - 1] \o s[i]
      BY <2>2
    <3>2. i # 1 => f[i - 1] = g[i - 1]
      BY <1>2, <2>2
    <3> QED
      BY <3>1, <3>2
  <2> QED
    BY <2>1, <2>2
<1>7. f = [i \in 1 .. m |-> f[i]]
  OBVIOUS
<1> HIDE DEF f
<1>8. Flattens(f, s, m)
  BY <1>6, <1>7 DEF Flattens
<1> QED
  BY <1>2, <1>8

(* FlattenSeq is the last value of one. *)
LEMMA FlattenIs ==
    ASSUME NEW s, Len(s) \in Nat, Len(s) # 0
    PROVE  \E f : Flattens(f, s, Len(s)) /\ FlattenSeq(s) = f[Len(s)]
<1> DEFINE f == CHOOSE g : Flattens(g, s, Len(s))
<1>1. Flattens(f, s, Len(s))
  BY Flattenable
<1>2. FlattenSeq(s) = f[Len(s)]
  BY DEF FlattenSeq, Flattens
<1> QED
  BY <1>1, <1>2

(* Where each element of a flattened sequence comes from: element t is the  *)
(* one at col[t] of sequence row[t], one of the first m.                    *)
Places(F, row, col, s, m) ==
    /\ \A t \in DOMAIN F : /\ row[t] \in 1 .. m
                           /\ col[t] \in DOMAIN s[row[t]]
                           /\ F[t] = s[row[t]][col[t]]
    /\ \A c \in 1 .. m : \A i \in DOMAIN s[c] :
          \E t \in DOMAIN F : row[t] = c /\ col[t] = i
    /\ \A t, u \in DOMAIN F : row[t] = row[u] /\ col[t] = col[u] => t = u

(* One sequence more. *)
LEMMA AppendPlaces ==
    ASSUME NEW S, NEW s, NEW m \in Nat, NEW F \in Seq(S), NEW row, NEW col,
           Places(F, row, col, s, m), s[m + 1] \in Seq(S)
    PROVE  /\ F \o s[m + 1] \in Seq(S)
           /\ \E r, q : Places(F \o s[m + 1], r, q, s, m + 1)
<1> DEFINE e == s[m + 1]
           n == Len(F)
           G == F \o e
           r == [t \in DOMAIN G |-> IF t <= n THEN row[t] ELSE m + 1]
           q == [t \in DOMAIN G |-> IF t <= n THEN col[t] ELSE t - n]
<1>1. /\ n \in Nat /\ DOMAIN F = 1 .. n /\ Len(e) \in Nat /\ DOMAIN e = 1 .. Len(e)
      /\ G \in Seq(S) /\ DOMAIN G = 1 .. (n + Len(e))
  OBVIOUS
<1>2. /\ \A t \in 1 .. n : G[t] = F[t]
      /\ \A t \in 1 .. (n + Len(e)) : t > n => G[t] = e[t - n]
  OBVIOUS
<1>3. \A t \in DOMAIN G : t <= n => r[t] = row[t] /\ q[t] = col[t] /\ t \in DOMAIN F
  BY <1>1
<1>4. \A t \in DOMAIN G : ~(t <= n) => r[t] = m + 1 /\ q[t] = t - n /\ t - n \in 1 .. Len(e)
  BY <1>1
<1> HIDE DEF r, q, G, n
<1>5. ASSUME NEW t \in DOMAIN G
      PROVE  r[t] \in 1 .. (m + 1) /\ q[t] \in DOMAIN s[r[t]] /\ G[t] = s[r[t]][q[t]]
  <2>1. CASE t <= n
    <3>1. row[t] \in 1 .. m /\ col[t] \in DOMAIN s[row[t]] /\ F[t] = s[row[t]][col[t]]
      BY <1>3, <2>1 DEF Places
    <3> QED
      BY <1>1, <1>2, <1>3, <2>1, <3>1
  <2>2. CASE ~(t <= n)
    <3>1. r[t] = m + 1 /\ q[t] = t - n /\ t - n \in 1 .. Len(e)
      BY <1>4, <2>2
    <3>2. G[t] = e[t - n]
      BY <1>1, <1>2, <2>2
    <3>3. m + 1 \in 1 .. (m + 1)
      OBVIOUS
    <3> QED
      BY <1>1, <3>1, <3>2, <3>3
  <2> QED
    BY <2>1, <2>2
<1>6. ASSUME NEW c \in 1 .. (m + 1), NEW i \in DOMAIN s[c]
      PROVE  \E t \in DOMAIN G : r[t] = c /\ q[t] = i
  <2>1. CASE c \in 1 .. m
    <3>1. PICK t \in DOMAIN F : row[t] = c /\ col[t] = i
      BY <2>1 DEF Places
    <3>2. t \in DOMAIN G /\ t <= n
      BY <1>1
    <3> QED
      BY <1>3, <3>1, <3>2
  <2>2. CASE c = m + 1
    <3>1. n + i \in DOMAIN G /\ ~(n + i <= n) /\ (n + i) - n = i
      BY <1>1, <2>2
    <3> QED
      BY <1>4, <2>2, <3>1
  <2> QED
    BY <2>1, <2>2
<1>7. ASSUME NEW t \in DOMAIN G, NEW u \in DOMAIN G, r[t] = r[u], q[t] = q[u]
      PROVE  t = u
  <2>1. \A v \in DOMAIN G : v <= n => r[v] # m + 1
    BY <1>3 DEF Places
  <2>2. CASE t <= n
    <3>1. u <= n
      BY <1>4, <1>7, <2>1, <2>2
    <3> QED
      BY <1>3, <1>7, <2>2, <3>1 DEF Places
  <2>3. CASE ~(t <= n)
    <3>1. ~(u <= n)
      BY <1>4, <1>7, <2>1, <2>3
    <3> QED
      BY <1>1, <1>4, <1>7, <2>3, <3>1
  <2> QED
    BY <2>2, <2>3
<1>8. Places(G, r, q, s, m + 1)
  BY <1>5, <1>6, <1>7 DEF Places
<1> QED
  BY <1>1, <1>8 DEF G

(* All of them: an element of the flattened sequence for each place. *)
LEMMA FlattenPlaces ==
    ASSUME NEW S, NEW s \in Seq(Seq(S))
    PROVE  /\ FlattenSeq(s) \in Seq(S)
           /\ \E row, col : Places(FlattenSeq(s), row, col, s, Len(s))
<1> DEFINE n == Len(s)
<1>1. n \in Nat /\ DOMAIN s = 1 .. n /\ \A c \in 1 .. n : s[c] \in Seq(S)
  OBVIOUS
<1>2. CASE n = 0
  <2>1. s = <<>> /\ FlattenSeq(s) = <<>>
    BY <1>2 DEF FlattenSeq
  <2>2. Places(<<>>, <<>>, <<>>, s, 0)
    BY DEF Places
  <2>3. Places(FlattenSeq(s), <<>>, <<>>, s, Len(s))
    BY <1>2, <2>1, <2>2
  <2>4. <<>> \in Seq(S)
    OBVIOUS
  <2>5. FlattenSeq(s) \in Seq(S)
    BY <2>1, <2>4, Zenon
  <2> HIDE DEF n
  <2> QED
    BY <2>3, <2>5
<1>3. CASE n # 0
  <2>1. PICK f : Flattens(f, s, n) /\ FlattenSeq(s) = f[n]
    BY <1>1, <1>3, FlattenIs
  <2>2. /\ f[1] = s[1]
        /\ \A m \in 1 .. n : m # 1 => f[m] = f[m - 1] \o s[m]
    <3>1. \A m \in 1 .. n : f[m] = IF m = 1 THEN s[m] ELSE f[m - 1] \o s[m]
      <4> HIDE DEF n
      <4> QED
        BY <2>1 DEF Flattens
    <3>2. 1 \in 1 .. n
      BY <1>1, <1>3
    <3> HIDE DEF n
    <3> QED
      BY <3>1, <3>2
  <2> DEFINE Good(m) == f[m] \in Seq(S) /\ \E row, col : Places(f[m], row, col, s, m)
             Bad == {m \in 1 .. n : ~Good(m)}
  <2>3. Good(1)
    <3>1. Places(<<>>, <<>>, <<>>, s, 0)
      BY DEF Places
    <3>2. <<>> \in Seq(S) /\ s[0 + 1] \in Seq(S) /\ <<>> \o s[0 + 1] = f[1]
      BY <1>1, <1>3, <2>2
    <3>3. f[1] \in Seq(S) /\ \E row, col : Places(f[1], row, col, s, 0 + 1)
      BY <3>1, <3>2, AppendPlaces
    <3> QED
      BY <3>3
  <2>4. ASSUME NEW m \in 1 .. n, m # 1, Good(m - 1) PROVE Good(m)
    <3>1. PICK k \in Nat : k = m - 1
      BY <1>1
    <3>2. m = k + 1 /\ s[m] \in Seq(S)
      BY <1>1, <3>1
    <3>3. f[m] = f[k] \o s[m]
      BY <2>2, <2>4, <3>1
    <3>4. f[m] = f[k] \o s[k + 1] /\ s[k + 1] \in Seq(S)
      BY <3>2, <3>3
    <3>5. PICK F, row, col : F = f[k] /\ F \in Seq(S) /\ Places(F, row, col, s, k)
      BY <2>4, <3>1
    <3>6. F \o s[k + 1] \in Seq(S) /\ \E r, q : Places(F \o s[k + 1], r, q, s, k + 1)
      BY <3>4, <3>5, AppendPlaces
    <3> QED
      BY <3>2, <3>4, <3>5, <3>6
  <2> HIDE DEF Good
  <2>5. Bad = {}
    <3> SUFFICES ASSUME Bad # {} PROVE FALSE
      OBVIOUS
    <3>1. PICK m \in Bad : \A k \in Bad : m <= k
      <4>1. Bad \subseteq Nat
        OBVIOUS
      <4> HIDE DEF Bad
      <4> QED
        BY <4>1, SmallestOf
    <3>2. m \in 1 .. n /\ m # 1 /\ ~Good(m)
      BY <2>3
    <3>3. m - 1 \in 1 .. n /\ m - 1 \notin Bad
      BY <3>1, <3>2
    <3> QED
      BY <2>4, <3>2, <3>3
  <2>6. Good(n)
    BY <1>1, <1>3, <2>5
  <2> QED
    BY <2>1, <2>6 DEF Good
<1> QED
  BY <1>2, <1>3

-----------------------------------------------------------------------------
(* The stacked shards. *)

Entries == [id : Int, vec : Nat \X Nat \X Nat]

(* One step of the fold in Stacked. *)
AddShard(shards, acc, k) ==
    [offset |-> acc.offset + ShardSize(shards[k]),
     lists  |-> acc.lists \o
        [l \in DOMAIN shards[k] |->
           [i \in DOMAIN shards[k][l] |->
              [id |-> shards[k][l][i] + acc.offset, vec |-> <<k, l, i>>]]]]

(* The sums of Stacked, for the numbers of any of the shards. *)
StacksUp(iter, shards, S) ==
    iter = [s \in SUBSET S |->
              IF s = {} THEN [offset |-> 0, lists |-> <<>>]
              ELSE AddShard(shards, iter[s \ {Max(s)}], [k \in DOMAIN shards |-> k][Max(s)])]

(* Of a set of numbers that are not larger than one of them, that is the largest. *)
LEMMA MaxIs ==
    ASSUME NEW s, s \subseteq Int, NEW m \in s, \A x \in s : x <= m PROVE Max(s) = m
<1>1. \A y \in s : m >= y
  OBVIOUS
<1>2. Max(s) \in s /\ \A y \in s : Max(s) >= y
  BY <1>1 DEF Max
<1>3. Max(s) \in Int /\ m \in Int /\ Max(s) >= m /\ Max(s) <= m
  BY <1>2
<1> QED
  BY <1>3

(* There are such sums, or else there are none up to a least shard. *)
LEMMA Stackable == ASSUME NEW shards, NEW n \in Nat PROVE \E iter : StacksUp(iter, shards, 1 .. n)
<1> DEFINE Bad == {m \in 0 .. n : ~ \E iter : StacksUp(iter, shards, 1 .. m)}
<1> SUFFICES ASSUME Bad # {} PROVE FALSE
  OBVIOUS
<1>1. PICK m \in Bad : \A k \in Bad : m <= k
  <2>1. Bad \subseteq Nat
    OBVIOUS
  <2> HIDE DEF Bad
  <2> QED
    BY <2>1, SmallestOf
<1>2. m \in 0 .. n /\ ~ \E iter : StacksUp(iter, shards, 1 .. m)
  OBVIOUS
<1>3. m # 0
  <2> SUFFICES ASSUME m = 0 PROVE FALSE
    OBVIOUS
  <2> DEFINE iter == [s \in SUBSET {} |-> [offset |-> 0, lists |-> <<>>]]
  <2>1. 1 .. 0 = {} /\ \A s \in SUBSET {} : s = {}
    OBVIOUS
  <2>2. StacksUp(iter, shards, {})
    BY <2>1 DEF StacksUp
  <2> QED
    BY <1>2, <2>1, <2>2
<1>4. m - 1 \in 0 .. n /\ m - 1 \notin Bad
  BY <1>1, <1>2, <1>3
<1>5. PICK g : StacksUp(g, shards, 1 .. (m - 1))
  BY <1>4
<1> DEFINE Base == [offset |-> 0, lists |-> <<>>]
           Ks == [k \in DOMAIN shards |-> k]
           iter == [s \in SUBSET (1 .. m) |->
                      IF m \in s THEN AddShard(shards, g[s \ {m}], Ks[m]) ELSE g[s]]
<1>6. \A s \in SUBSET (1 .. (m - 1)) :
         g[s] = IF s = {} THEN Base ELSE AddShard(shards, g[s \ {Max(s)}], Ks[Max(s)])
  BY <1>5 DEF StacksUp
<1>7. ASSUME NEW s \in SUBSET (1 .. m), m \in s
      PROVE  s # {} /\ Max(s) = m /\ iter[s \ {m}] = g[s \ {m}]
  <2>1. s \subseteq Int /\ \A x \in s : x <= m
    BY <1>2
  <2>2. Max(s) = m
    BY <1>7, <2>1, MaxIs
  <2> QED
    BY <1>7, <2>2
<1>8. ASSUME NEW s \in SUBSET (1 .. m), m \notin s
      PROVE  s \in SUBSET (1 .. (m - 1)) /\ iter[s] = g[s] /\ iter[s \ {Max(s)}] = g[s \ {Max(s)}]
  <2>1. s \in SUBSET (1 .. (m - 1))
    BY <1>2, <1>8
  <2>2. \A t \in SUBSET s : t \in SUBSET (1 .. m) /\ m \notin t
    BY <1>8
  <2>3. \A t \in SUBSET s : iter[t] = g[t]
    BY <2>2
  <2>4. s \in SUBSET s /\ s \ {Max(s)} \in SUBSET s
    OBVIOUS
  <2> HIDE DEF iter
  <2> QED
    BY <2>1, <2>3, <2>4
<1>9. ASSUME NEW s \in SUBSET (1 .. m)
      PROVE  iter[s] = IF s = {} THEN Base ELSE AddShard(shards, iter[s \ {Max(s)}], Ks[Max(s)])
  <2>1. CASE m \in s
    <3>1. iter[s] = AddShard(shards, g[s \ {m}], Ks[m])
      BY <2>1
    <3> HIDE DEF iter, Ks
    <3> QED
      BY <1>7, <2>1, <3>1
  <2>2. CASE m \notin s
    <3> HIDE DEF iter, Ks, Base
    <3> QED
      BY <1>6, <1>8, <2>2
  <2> QED
    BY <2>1, <2>2
<1>10. iter = [s \in SUBSET (1 .. m) |-> iter[s]]
  OBVIOUS
<1> HIDE DEF iter
<1>11. StacksUp(iter, shards, 1 .. m)
  BY <1>9, <1>10 DEF StacksUp
<1> QED
  BY <1>2, <1>11

(* Stacked is the one for all shards. *)
LEMMA StackedIs ==
    ASSUME NEW shards, NEW n \in Nat, DOMAIN shards = 1 .. n
    PROVE  \E iter : StacksUp(iter, shards, 1 .. n) /\ Stacked(shards) = iter[1 .. n].lists
<1> DEFINE iter == CHOOSE g : StacksUp(g, shards, DOMAIN [k \in DOMAIN shards |-> k])
<1>1. DOMAIN [k \in DOMAIN shards |-> k] = 1 .. n
  OBVIOUS
<1>2. StacksUp(iter, shards, 1 .. n)
  BY <1>1, Stackable
<1>3. Stacked(shards) = iter[1 .. n].lists
  BY <1>1 DEF Stacked, FoldLeft, MapThenFoldSet, StacksUp, AddShard
<1> QED
  BY <1>2, <1>3

(* A shard adds lists of entries, whose ids are shifted. *)
LEMMA AddShardTypes ==
    ASSUME NEW shards \in Seq(Seq(Seq(Int))), NEW k \in DOMAIN shards, NEW acc,
           acc.offset \in Int, acc.lists \in Seq(Seq(Entries))
    PROVE  /\ AddShard(shards, acc, k).offset \in Int
           /\ AddShard(shards, acc, k).lists \in Seq(Seq(Entries))
<1>1. shards[k] \in Seq(Seq(Int)) /\ k \in Nat
  OBVIOUS
<1>2. ShardSize(shards[k]) \in Nat
  BY <1>1, FlattenPlaces DEF ShardSize
<1>3. PICK shard : shard = shards[k] /\ shard \in Seq(Seq(Int))
  BY <1>1
<1> DEFINE Line(l) == [i \in DOMAIN shard[l] |->
                         [id |-> shard[l][i] + acc.offset, vec |-> <<k, l, i>>]]
           new == [l \in DOMAIN shard |-> Line(l)]
<1>4. ASSUME NEW l \in DOMAIN shard PROVE Line(l) \in Seq(Entries)
  <2>1. shard[l] \in Seq(Int) /\ l \in Nat
    BY <1>3
  <2>2. PICK n \in Nat : DOMAIN shard[l] = 1 .. n
    BY <2>1
  <2>3. ASSUME NEW i \in 1 .. n
        PROVE  [id |-> shard[l][i] + acc.offset, vec |-> <<k, l, i>>] \in Entries
    <3>1. shard[l][i] + acc.offset \in Int
      BY <2>1, <2>2
    <3>2. <<k, l, i>> \in Nat \X Nat \X Nat
      BY <1>1, <2>1
    <3> QED
      BY <3>1, <3>2 DEF Entries
  <2> QED
    BY <2>2, <2>3
<1>5. new \in Seq(Seq(Entries))
  <2>1. PICK n \in Nat : DOMAIN shard = 1 .. n
    BY <1>3
  <2> HIDE DEF Line
  <2> QED
    BY <1>4, <2>1
<1>6. AddShard(shards, acc, k).lists = acc.lists \o new
  BY <1>3 DEF AddShard
<1>7. AddShard(shards, acc, k).offset = acc.offset + ShardSize(shards[k])
  BY DEF AddShard
<1> HIDE DEF new
<1> QED
  BY <1>2, <1>5, <1>6, <1>7

(* Stacked shards are lists of entries. *)
LEMMA StackedTypes ==
    ASSUME NEW shards \in Seq(Seq(Seq(Int))) PROVE Stacked(shards) \in Seq(Seq(Entries))
<1>1. PICK n \in Nat : DOMAIN shards = 1 .. n
  OBVIOUS
<1>2. PICK iter : StacksUp(iter, shards, 1 .. n) /\ Stacked(shards) = iter[1 .. n].lists
  BY <1>1, StackedIs
<1> DEFINE Good(m) == iter[1 .. m].offset \in Int /\ iter[1 .. m].lists \in Seq(Seq(Entries))
           Bad == {m \in 0 .. n : ~Good(m)}
<1>3. Good(0)
  <2>1. 1 .. 0 = {} /\ iter[{}] = [offset |-> 0, lists |-> <<>>]
    BY <1>2 DEF StacksUp
  <2>2. <<>> \in Seq(Seq(Entries))
    OBVIOUS
  <2>3. iter[1 .. 0].offset = 0 /\ iter[1 .. 0].lists = <<>>
    BY <2>1
  <2> QED
    BY <2>2, <2>3
<1>4. ASSUME NEW m \in 1 .. n, Good(m - 1) PROVE Good(m)
  <2>1. Max(1 .. m) = m
    <3>1. 1 .. m \subseteq Int /\ m \in 1 .. m /\ \A x \in 1 .. m : x <= m
      OBVIOUS
    <3> QED
      BY <3>1, MaxIs
  <2>2. (1 .. m) \ {m} = 1 .. (m - 1) /\ 1 .. m # {} /\ 1 .. m \in SUBSET (1 .. n)
    <3>1. \A x \in 1 .. m : x # m => x \in 1 .. (m - 1)
      OBVIOUS
    <3>2. \A x \in 1 .. (m - 1) : x \in 1 .. m /\ x # m
      OBVIOUS
    <3>3. m \in 1 .. m /\ \A x \in 1 .. m : x \in 1 .. n
      OBVIOUS
    <3> QED
      BY <3>1, <3>2, <3>3
  <2>3. [k \in DOMAIN shards |-> k][m] = m
    BY <1>1
  <2>4. iter[1 .. m] = AddShard(shards, iter[(1 .. m) \ {Max(1 .. m)}],
                                [k \in DOMAIN shards |-> k][Max(1 .. m)])
    BY <1>2, <2>2 DEF StacksUp
  <2>5. iter[1 .. m] = AddShard(shards, iter[1 .. (m - 1)], m)
    BY <2>1, <2>2, <2>3, <2>4
  <2> QED
    BY <1>1, <1>4, <2>5, AddShardTypes
<1> HIDE DEF Good
<1>5. Bad = {}
  <2> SUFFICES ASSUME Bad # {} PROVE FALSE
    OBVIOUS
  <2>1. PICK m \in Bad : \A k \in Bad : m <= k
    <3>1. Bad \subseteq Nat
      OBVIOUS
    <3> HIDE DEF Bad
    <3> QED
      BY <3>1, SmallestOf
  <2>2. m \in 0 .. n /\ m # 0 /\ ~Good(m)
    BY <1>3
  <2>3. m \in 1 .. n /\ m - 1 \in 0 .. n /\ m - 1 \notin Bad
    BY <2>1, <2>2
  <2> QED
    BY <1>4, <2>2, <2>3
<1>6. Good(n)
  BY <1>5
<1> QED
  BY <1>2, <1>6 DEF Good

-----------------------------------------------------------------------------
(* The ways in which the code rearranges the lists. *)

(* rebuild_lists_from_assign, and the parts of a quota split: a list for     *)
(* each label holds every id once if every id has one label.                 *)
LEMMA Labelled ==
    ASSUME NEW ids, NEW n \in Nat, NEW label \in [ids -> 1 .. n]
    PROVE  LET table == [t \in 1 .. n |-> {id \in ids : label[id] = t}]
           IN  IsTable(table, ids) /\ OnceEach(table, ids)
<1> DEFINE table == [t \in 1 .. n |-> {id \in ids : label[id] = t}]
<1>1. DOMAIN table = 1 .. n
  OBVIOUS
<1>2. IsTable(table, ids)
  BY DEF IsTable
<1>3. ASSUME NEW id \in ids
      PROVE  \E c \in DOMAIN table :
                id \in table[c] /\ \A d \in DOMAIN table : id \in table[d] => d = c
  <2>1. label[id] \in 1 .. n /\ id \in table[label[id]]
    OBVIOUS
  <2>2. \A d \in DOMAIN table : id \in table[d] => d = label[id]
    OBVIOUS
  <2> QED
    BY <1>1, <2>1, <2>2
<1> QED
  BY <1>2, <1>3 DEF OnceEach

(* Stage 1 grouping: lists joined along a map keep every id once. *)
LEMMA Joined ==
    ASSUME NEW ids, NEW table, IsTable(table, ids), OnceEach(table, ids),
           NEW n \in Nat, NEW map \in [DOMAIN table -> 1 .. n]
    PROVE  LET joined == [t \in 1 .. n |->
                 UNION {table[old] : old \in {c \in DOMAIN table : map[c] = t}}]
           IN  IsTable(joined, ids) /\ OnceEach(joined, ids)
<1> DEFINE joined == [t \in 1 .. n |->
                 UNION {table[old] : old \in {c \in DOMAIN table : map[c] = t}}]
<1>1. \A c \in DOMAIN table : table[c] \subseteq ids
  BY DEF IsTable
<1>2. IsTable(joined, ids)
  BY <1>1 DEF IsTable
<1>3. \A t \in 1 .. n, id \in ids :
         id \in joined[t] <=> \E c \in DOMAIN table : map[c] = t /\ id \in table[c]
  OBVIOUS
<1>4. ASSUME NEW id \in ids
      PROVE  \E t \in DOMAIN joined :
                id \in joined[t] /\ \A u \in DOMAIN joined : id \in joined[u] => u = t
  <2>1. PICK c \in DOMAIN table :
            id \in table[c] /\ \A d \in DOMAIN table : id \in table[d] => d = c
    BY DEF OnceEach
  <2>2. map[c] \in 1 .. n /\ DOMAIN joined = 1 .. n
    OBVIOUS
  <2>3. id \in joined[map[c]]
    BY <1>3, <2>1, <2>2
  <2>4. \A u \in 1 .. n : id \in joined[u] => u = map[c]
    BY <1>3, <2>1
  <2> HIDE DEF joined
  <2> QED
    BY <2>2, <2>3, <2>4
<1> QED
  BY <1>2, <1>4 DEF OnceEach

(* The repair of a quota pass: one id moves into an empty list. *)
LEMMA Moved ==
    ASSUME NEW ids, NEW table, IsTable(table, ids), OnceEach(table, ids),
           NEW src \in DOMAIN table, NEW t \in DOMAIN table, table[t] = {},
           NEW moved \in table[src]
    PROVE  LET after == [table EXCEPT ![src] = @ \ {moved}, ![t] = {moved}]
           IN  IsTable(after, ids) /\ OnceEach(after, ids)
<1> DEFINE after == [table EXCEPT ![src] = @ \ {moved}, ![t] = {moved}]
<1>1. src # t
  OBVIOUS
<1>2. \A c \in DOMAIN table : table[c] \subseteq ids
  BY DEF IsTable
<1>3. /\ DOMAIN after = DOMAIN table
      /\ after[src] = table[src] \ {moved}
      /\ after[t] = {moved}
      /\ \A c \in DOMAIN table : c # src /\ c # t => after[c] = table[c]
  BY <1>1 DEF IsTable
<1>4. IsTable(after, ids)
  <2>1. table[src] \ {moved} \in SUBSET ids /\ {moved} \in SUBSET ids
    BY <1>2
  <2> QED
    BY <2>1 DEF IsTable
<1> HIDE DEF after
<1>5. ASSUME NEW id \in ids
      PROVE  \E c \in DOMAIN after :
                id \in after[c] /\ \A d \in DOMAIN after : id \in after[d] => d = c
  <2>1. PICK c \in DOMAIN table :
            id \in table[c] /\ \A d \in DOMAIN table : id \in table[d] => d = c
    BY DEF OnceEach
  <2>2. CASE id = moved
    <3>1. c = src
      BY <2>1, <2>2
    <3>2. \A d \in DOMAIN after : id \in after[d] => d = t
      BY <1>3, <2>1, <2>2, <3>1
    <3> QED
      BY <1>3, <2>2, <3>2
  <2>3. CASE id # moved
    <3>1. id \in after[c]
      BY <1>3, <2>1, <2>3
    <3>2. \A d \in DOMAIN after : id \in after[d] => d = c
      BY <1>3, <2>1, <2>3
    <3> QED
      BY <1>3, <3>1, <3>2
  <2> QED
    BY <2>2, <2>3
<1> QED
  BY <1>4, <1>5 DEF OnceEach, after

(* The fallback split: list c is replaced by two lists with the same ids. *)
LEMMA Halved ==
    ASSUME IsTable(lists, Ids), OnceEach(lists, Ids),
           NEW c \in DOMAIN lists, NEW half \in SUBSET lists[c]
    PROVE  IsTable(SplitAt(c, half), Ids) /\ OnceEach(SplitAt(c, half), Ids)
<1> DEFINE n == Len(lists)
           after == SplitAt(c, half)
<1>1. n \in Nat /\ DOMAIN lists = 1 .. n /\ c \in 1 .. n
  BY DEF IsTable
<1>2. \A d \in 1 .. n : lists[d] \in SUBSET Ids
  BY <1>1 DEF IsTable
<1>3. \A d \in 1 .. (n + 1) : after[d] \in SUBSET Ids
  <2> TAKE d \in 1 .. (n + 1)
  <2>1. CASE d < c
    BY <1>1, <1>2, <2>1 DEF SplitAt
  <2>2. CASE d = c
    BY <1>1, <1>2, <2>2 DEF SplitAt
  <2>3. CASE d = c + 1
    BY <1>1, <1>2, <2>3 DEF SplitAt
  <2>4. CASE d > c + 1
    <3>1. d - 1 \in 1 .. n /\ ~(d < c) /\ d # c /\ d # c + 1
      BY <1>1, <2>4
    <3> QED
      BY <1>1, <1>2, <2>4, <3>1 DEF SplitAt
  <2> QED
    BY <1>1, <2>1, <2>2, <2>3, <2>4
<1>4. IsTable(after, Ids)
  <2>1. after = [d \in 1 .. (n + 1) |-> after[d]]
    BY DEF SplitAt
  <2> QED
    BY <1>1, <1>3, <2>1 DEF IsTable
<1>5. /\ DOMAIN after = 1 .. (n + 1)
      /\ after[c] = half
      /\ after[c + 1] = lists[c] \ half
      /\ \A d \in 1 .. (n + 1) : d < c => after[d] = lists[d]
      /\ \A d \in 1 .. (n + 1) : d > c + 1 => after[d] = lists[d - 1]
  BY <1>1 DEF SplitAt
<1> HIDE DEF after, n
<1>6. ASSUME NEW id \in Ids
      PROVE  \E d \in DOMAIN after :
                id \in after[d] /\ \A e \in DOMAIN after : id \in after[e] => e = d
  <2>1. PICK b \in 1 .. n :
            id \in lists[b] /\ \A e \in 1 .. n : id \in lists[e] => e = b
    BY <1>1 DEF OnceEach
  <2>2. \A e \in 1 .. (n + 1) : e > c + 1 => e - 1 \in 1 .. n
    BY <1>1
  <2>3. CASE b < c
    <3>1. b \in 1 .. (n + 1) /\ id \in after[b]
      BY <1>1, <1>5, <2>1, <2>3
    <3>2. \A e \in 1 .. (n + 1) : id \in after[e] => e = b
      BY <1>1, <1>5, <2>1, <2>2, <2>3
    <3> QED
      BY <1>5, <3>1, <3>2
  <2>4. CASE b = c
    <3>1. \A e \in 1 .. (n + 1) : id \in after[e] => e = c \/ e = c + 1
      BY <1>1, <1>5, <2>1, <2>2, <2>4
    <3>2. CASE id \in half
      BY <1>1, <1>5, <3>1, <3>2
    <3>3. CASE id \notin half
      <4>1. c + 1 \in 1 .. (n + 1) /\ id \in after[c + 1]
        BY <1>1, <1>5, <2>1, <2>4, <3>3
      <4> QED
        BY <1>5, <3>1, <3>3, <4>1
    <3> QED
      BY <3>2, <3>3
  <2>5. CASE b > c
    <3>1. b + 1 \in 1 .. (n + 1) /\ b + 1 > c + 1 /\ b + 1 - 1 = b
      BY <1>1, <2>5
    <3>2. id \in after[b + 1]
      BY <1>5, <2>1, <3>1
    <3>3. \A e \in 1 .. (n + 1) : id \in after[e] => e = b + 1
      BY <1>1, <1>5, <2>1, <2>2, <2>5
    <3> QED
      BY <1>5, <3>1, <3>2, <3>3
  <2> QED
    BY <1>1, <2>3, <2>4, <2>5
<1> QED
  BY <1>4, <1>6 DEF OnceEach, after

(* The first compression: an id keeps its owner, under the owner's new       *)
(* number, and every number that is used belongs to a list that is kept.     *)
LEMMA NewNumbers ==
    ASSUME lists \in Seq(SUBSET Ids)
    PROVE  /\ NewNumber(Len(lists)) \in Nat
           /\ \A c \in DOMAIN lists :
                 lists[c] # {} => NewNumber(c) \in 1 .. NewNumber(Len(lists))
<1> DEFINE n == Len(lists)
           Kept(c) == {d \in 1 .. c : lists[d] # {}}
<1>1. n \in Nat /\ DOMAIN lists = 1 .. n
  OBVIOUS
<1>2. \A c \in Nat : IsFiniteSet(Kept(c)) /\ Cardinality(Kept(c)) \in Nat
  <2> TAKE c \in Nat
  <2>1. IsFiniteSet(1 .. c)
    BY FS_Interval
  <2>2. Kept(c) \in SUBSET (1 .. c)
    OBVIOUS
  <2>3. IsFiniteSet(Kept(c))
    BY <2>1, <2>2, FS_Subset
  <2> QED
    BY <2>3, FS_CardinalityType
<1>3. ASSUME NEW c \in 1 .. n, lists[c] # {}
      PROVE  Cardinality(Kept(c)) \in 1 .. Cardinality(Kept(n))
  <2>1. {c} \in SUBSET Kept(c) /\ Kept(c) \in SUBSET Kept(n)
    BY <1>1, <1>3
  <2>2. Cardinality(Kept(c)) <= Cardinality(Kept(n))
    <3> HIDE DEF Kept
    <3> QED
      BY <1>1, <1>2, <2>1, FS_Subset
  <2>3. Cardinality({c}) = 1
    BY FS_Singleton
  <2>4. Cardinality({c}) <= Cardinality(Kept(c))
    <3>1. c \in Nat
      BY <1>1
    <3> HIDE DEF Kept
    <3> QED
      BY <1>2, <2>1, <3>1, FS_Subset
  <2>5. Cardinality(Kept(c)) \in Nat /\ Cardinality(Kept(n)) \in Nat
    <3>1. c \in Nat
      BY <1>1
    <3> QED
      BY <1>1, <1>2, <3>1
  <2> HIDE DEF Kept
  <2> QED
    BY <2>2, <2>3, <2>4, <2>5
<1> QED
  BY <1>1, <1>2, <1>3 DEF NewNumber
-----------------------------------------------------------------------------
(* The steps of merge_ivfflat. *)

LEMMA InitEstablishes == Init => IInv
<1> SUFFICES ASSUME Init PROVE IInv
  OBVIOUS
<1>1. TypeOK
  BY PassesAssumption DEF Init, TypeOK
<1>2. Partition
  BY DEF Init, Partition, Working
<1> QED
  BY <1>1, <1>2 DEF Init, IInv

LEMMA ConcatPreserves ==
    ASSUME IInv, concat_indices_into_ivfdata PROVE IInv'
<1> DEFINE stacked == Stacked(indices)
           table == [c \in DOMAIN stacked |-> IdsOf(stacked[c])]
<1>1. \E call \in Calls : indices = call.indices /\ options = call.options
  BY DEF IInv, TypeOK
<1>2. stacked \in Seq(Seq(Entries))
  BY <1>1, CallsAssumption, StackedTypes
<1>3. UNCHANGED <<arguments, passes, group, stage2, target>>
  BY DEF concat_indices_into_ivfdata
<1>4. assign' = <<>> /\ todo' = {}
  BY <1>3 DEF IInv, concat_indices_into_ivfdata, stage2
<1>5. CASE AcceptsCall /\ InRange(table, ntotal')
  <2>1. /\ lists' = table
        /\ pc' = IF KeepsLists THEN AfterLists ELSE "compress"
        /\ answer' = answer
    BY <1>5 DEF concat_indices_into_ivfdata
  <2>2. \A c \in DOMAIN stacked : table[c] \subseteq Ids'
    BY <1>5 DEF InRange, Ids
  <2>3. table \in Seq(SUBSET Ids')
    <3> HIDE DEF stacked
    <3>1. Len(stacked) \in Nat /\ DOMAIN stacked = 1 .. Len(stacked)
      BY <1>2
    <3> QED
      BY <2>2, <3>1
  <2>4. pc' \in {"materialize", "encode", "compress"}
    BY <2>1 DEF AfterLists
  <2>5. TypeOK'
    BY <1>3, <1>4, <2>1, <2>3, <2>4 DEF IInv, TypeOK, arguments, stage2
  <2>6. ~Working'
    <3>1. CASE pc' = "materialize"
      <4>1. KeepsLists'
        BY <1>3, <2>1, <3>1 DEF KeepsLists, Compressed, arguments
      <4> QED
        BY <3>1, <4>1 DEF Working
    <3>2. CASE pc' = "encode"
      <4>1. options.method # "ivfpq"
        <5>1. options.target_nlist \in Nat
          BY <1>1, CallsAssumption
        <5>2. KeepsLists
          BY <2>1, <3>2
        <5> QED
          BY <1>5, <5>1, <5>2 DEF AcceptsCall, KeepsLists
      <4> QED
        BY <1>3, <3>2, <4>1 DEF Working, arguments
    <3>3. CASE pc' = "compress"
      BY <3>3 DEF Working
    <3> QED
      BY <2>4, <3>1, <3>2, <3>3
  <2>7. Partition'
    BY <2>6 DEF Partition
  <2> QED
    BY <1>3, <1>4, <2>1, <2>4, <2>5, <2>7 DEF IInv
<1>6. CASE ~(AcceptsCall /\ InRange(table, ntotal'))
  <2>1. lists' = <<>> /\ pc' = "end" /\ answer' = Thrown
    BY <1>6 DEF concat_indices_into_ivfdata
  <2>2. TypeOK'
    BY <1>3, <1>4, <2>1 DEF IInv, TypeOK, arguments, stage2, Thrown
  <2>3. Partition'
    BY <2>1 DEF Partition, Working
  <2> QED
    BY <1>3, <1>4, <2>1, <2>2, <2>3 DEF IInv
<1> QED
  BY <1>5, <1>6

LEMMA CompressPreserves ==
    ASSUME IInv, compress_empty_clusters PROVE IInv'
<1>1. /\ pc = "compress"
      /\ UNCHANGED <<arguments, ntotal, passes, group, stage2>>
      /\ target' = TargetNlist
  BY DEF compress_empty_clusters
<1>2. lists \in Seq(SUBSET Ids) /\ Len(lists) \in Nat /\ DOMAIN lists = 1 .. Len(lists)
  BY DEF IInv, TypeOK
<1>3. target' \in Nat
  <2>1. options.target_nlist \in Nat
    BY CallsAssumption DEF IInv, TypeOK
  <2> QED
    BY <1>1, <1>2, <2>1 DEF TargetNlist
<1>4. assign' = <<>> /\ todo' = {} /\ Ids' = Ids
  BY <1>1 DEF IInv, stage2, Ids
<1>5. ASSUME NEW owner \in [Ids -> DOMAIN lists],
             \A id \in Ids : IsOwner(owner[id], id),
             lists' = [i \in 1 .. NewNumber(Len(lists)) |->
                         {id \in Ids : NewNumber(owner[id]) = i}],
             pc' = "stage1",
             answer' = answer
      PROVE  IInv'
  <2> DEFINE n == NewNumber(Len(lists))
             label == [id \in Ids |-> NewNumber(owner[id])]
  <2>1. n \in Nat
    BY <1>2, NewNumbers
  <2>2. label \in [Ids -> 1 .. n]
    <3> SUFFICES ASSUME NEW id \in Ids PROVE NewNumber(owner[id]) \in 1 .. n
      OBVIOUS
    <3>1. owner[id] \in DOMAIN lists /\ lists[owner[id]] # {}
      BY <1>5 DEF IsOwner
    <3> QED
      BY <1>2, <3>1, NewNumbers
  <2>3. lists' = [i \in 1 .. n |-> {id \in Ids : label[id] = i}]
    BY <1>5
  <2>4. IsTable(lists', Ids) /\ OnceEach(lists', Ids)
    <3> HIDE DEF n, label
    <3> QED
      BY <2>1, <2>2, <2>3, Labelled
  <2>5. TypeOK'
    BY <1>1, <1>4, <1>5, <2>4 DEF IInv, TypeOK, IsTable, arguments, stage2
  <2>6. Partition'
    BY <1>4, <2>4 DEF Partition, OnceEach
  <2> QED
    BY <1>3, <1>4, <1>5, <2>5, <2>6 DEF IInv
<1>6. ASSUME pc' = "end", answer' = Thrown, lists' = lists
      PROVE  IInv'
  <2>1. TypeOK'
    BY <1>1, <1>4, <1>6 DEF IInv, TypeOK, arguments, stage2, Thrown
  <2>2. Partition'
    BY <1>6 DEF Partition, Working
  <2> QED
    BY <1>3, <1>4, <1>6, <2>1, <2>2 DEF IInv
<1> QED
  BY <1>5, <1>6 DEF compress_empty_clusters

(* an exception leaves the lists as they are and ends the call *)
LEMMA ThrowPreserves ==
    ASSUME IInv, Throw, pc \notin {"reassign"} \/ todo = {} PROVE IInv'
<1>1. /\ pc' = "end"
      /\ answer' = Thrown
      /\ UNCHANGED <<indices, options, ntotal, target, lists, passes, group,
                     assign, todo>>
  BY DEF Throw, arguments, sizes, stage2
<1>2. TypeOK'
  BY <1>1 DEF IInv, TypeOK, Thrown, Ids
<1>3. Partition'
  BY <1>1 DEF Partition, Working
<1> QED
  BY <1>1, <1>2, <1>3 DEF IInv

(* a step that only replaces the lists keeps the invariant if the new lists  *)
(* hold every id once                                                        *)
LEMMA RelistPreserves ==
    ASSUME IInv, NEW table, NEW next, Relist(table, next),
           next \in {"stage1", "repair", "fallback", "stage2", "materialize", "encode"},
           todo = {}, IsTable(table, Ids), OnceEach(table, Ids)
    PROVE  IInv'
<1>1. /\ lists' = table
      /\ pc' = next
      /\ UNCHANGED <<indices, options, ntotal, target, passes, group, assign,
                     todo, answer>>
  BY DEF Relist, arguments, sizes, stage2
<1>2. TypeOK'
  BY <1>1 DEF IInv, TypeOK, Ids, IsTable
<1>3. Partition'
  BY <1>1 DEF Partition, OnceEach, Ids
<1> QED
  BY <1>1, <1>2, <1>3 DEF IInv
(* what the invariant says while stage 1 and stage 2 run *)
LEMMA WhileWorking ==
    ASSUME IInv, Working
    PROVE  /\ IsTable(lists, Ids) /\ OnceEach(lists, Ids)
           /\ Len(lists) \in Nat /\ DOMAIN lists = 1 .. Len(lists)
           /\ target \in Nat
BY DEF IInv, TypeOK, Partition, IsTable, OnceEach

LEMMA Stage1Preserves ==
    ASSUME IInv,
           \/ reduce_centroids_to_target_kmeans
           \/ repair_empty_parts
           \/ end_of_quota_pass
           \/ passes_exhausted
           \/ split_largest_nonempty_cluster
           \/ end_of_stage1
    PROVE  IInv'
<1>1. pc \in {"stage1", "repair", "fallback"}
  BY DEF reduce_centroids_to_target_kmeans, repair_empty_parts, end_of_quota_pass,
         passes_exhausted, split_largest_nonempty_cluster, end_of_stage1
<1>2. todo = {}
  BY <1>1 DEF IInv
<1>3. /\ IsTable(lists, Ids) /\ OnceEach(lists, Ids)
      /\ Len(lists) \in Nat /\ DOMAIN lists = 1 .. Len(lists)
      /\ target \in Nat
  BY <1>1, WhileWorking DEF Working
<1>4. ASSUME NEW next \in {"stage1", "fallback", "stage2"}, Goto(next)
      PROVE  IInv'
  BY <1>2, <1>3, <1>4, RelistPreserves DEF Goto
<1>5. CASE reduce_centroids_to_target_kmeans
  <2>1. PICK map \in [DOMAIN lists -> 1 .. target] : Relist(Grouped(map), "stage1")
    BY <1>5 DEF reduce_centroids_to_target_kmeans
  <2>2. IsTable(Grouped(map), Ids) /\ OnceEach(Grouped(map), Ids)
    BY <1>3, Joined, SMTT(30) DEF Grouped
  <2> QED
    BY <1>2, <2>1, <2>2, RelistPreserves
<1>6. CASE repair_empty_parts
  <2>1. PICK t \in Hollow, src \in DOMAIN lists :
          \E moved \in lists[src] :
            Relist([lists EXCEPT ![src] = @ \ {moved}, ![t] = {moved}], "repair")
    BY <1>6 DEF repair_empty_parts
  <2>2. PICK moved \in lists[src] :
            Relist([lists EXCEPT ![src] = @ \ {moved}, ![t] = {moved}], "repair")
    BY <2>1
  <2>3. t \in DOMAIN lists /\ lists[t] = {}
    BY DEF Hollow
  <2> DEFINE after == [lists EXCEPT ![src] = @ \ {moved}, ![t] = {moved}]
  <2>4. IsTable(after, Ids) /\ OnceEach(after, Ids)
    BY <1>3, <2>3, Moved
  <2> HIDE DEF after
  <2>5. Relist(after, "repair")
    BY <2>2 DEF after
  <2> QED
    BY <1>2, <2>4, <2>5, RelistPreserves
<1>7. CASE split_largest_nonempty_cluster
  <2>1. CASE Throw
    BY <1>2, <2>1, ThrowPreserves
  <2>2. ASSUME NEW c \in DOMAIN lists, NEW half \in SUBSET lists[c],
               Relist(SplitAt(c, half), "fallback")
        PROVE  IInv'
    <3>1. IsTable(SplitAt(c, half), Ids) /\ OnceEach(SplitAt(c, half), Ids)
      BY <1>3, Halved
    <3> QED
      BY <1>2, <2>2, <3>1, RelistPreserves
  <2> QED
    BY <1>7, <2>1, <2>2 DEF split_largest_nonempty_cluster
<1> QED
  BY <1>4, <1>5, <1>6, <1>7 DEF end_of_quota_pass, passes_exhausted, end_of_stage1

LEMMA QuotaPassPreserves ==
    ASSUME IInv, quota_split_clusters_kmeans PROVE IInv'
<1>1. pc = "stage1" /\ passes < MaxPasses
  BY DEF quota_split_clusters_kmeans
<1>2. todo = {}
  BY <1>1 DEF IInv
<1>3. DOMAIN lists \subseteq Nat
  BY <1>1, WhileWorking DEF Working
<1>4. CASE Throw
  BY <1>2, <1>4, ThrowPreserves
<1>5. ASSUME NEW parts \in Seq(DOMAIN lists), NEW label \in [Ids -> DOMAIN parts],
             passes' = passes + 1,
             group' = parts,
             pc' = IF Len(parts) = Len(lists) THEN "fallback" ELSE "repair",
             lists' = [t \in DOMAIN parts |-> {id \in Ids : label[id] = t}],
             UNCHANGED <<arguments, sizes, stage2, answer>>
      PROVE  IInv'
  <2> DEFINE n == Len(parts)
  <2>1. n \in Nat /\ DOMAIN parts = 1 .. n
    OBVIOUS
  <2>2. /\ label \in [Ids -> 1 .. n]
        /\ lists' = [t \in 1 .. n |-> {id \in Ids : label[id] = t}]
    BY <1>5, <2>1
  <2>3. IsTable(lists', Ids) /\ OnceEach(lists', Ids)
    <3> HIDE DEF n
    <3> QED
      BY <2>1, <2>2, Labelled
  <2>4. UNCHANGED <<indices, options, ntotal, target, assign, todo, answer>>
    BY <1>5 DEF arguments, sizes, stage2
  <2>5. Ids' = Ids
    BY <2>4 DEF Ids
  <2>6. passes' \in 0 .. MaxPasses
    BY <1>1, <1>5, PassesAssumption DEF IInv, TypeOK
  <2>7. \A t \in DOMAIN group' : group'[t] \in Nat
    <3>1. \A t \in DOMAIN parts : parts[t] \in DOMAIN lists
      OBVIOUS
    <3> QED
      BY <1>3, <1>5, <3>1
  <2>8. pc' \in {"fallback", "repair"}
    BY <1>5
  <2>9. TypeOK'
    BY <1>2, <2>3, <2>4, <2>5, <2>6, <2>7, <2>8 DEF IInv, TypeOK, IsTable
  <2>10. Partition'
    BY <2>3, <2>5 DEF Partition, OnceEach
  <2> QED
    BY <1>2, <2>4, <2>8, <2>9, <2>10 DEF IInv
<1> QED
  BY <1>4, <1>5 DEF quota_split_clusters_kmeans
LEMMA TrainingPreserves ==
    ASSUME IInv, train_kmeans_centroids_with_init PROVE IInv'
<1>1. pc = "stage2"
  BY DEF train_kmeans_centroids_with_init
<1>2. /\ OnceEach(lists, Ids)
      /\ Len(lists) \in Nat /\ DOMAIN lists = 1 .. Len(lists)
      /\ target \in Nat
  BY <1>1, WhileWorking DEF Working
<1>3. CASE Throw
  BY <1>1, <1>3, ThrowPreserves
<1>4. ASSUME Len(lists) = target,
             todo' = DOMAIN lists,
             assign' = [id \in Ids |-> IF Serial THEN 0
                            ELSE CHOOSE c \in DOMAIN lists : id \in lists[c]],
             pc' = "reassign",
             UNCHANGED <<arguments, sizes, lists, passes, group, answer>>
      PROVE  IInv'
  <2>1. UNCHANGED <<indices, options, ntotal, target, lists, passes, group, answer>>
    BY <1>4 DEF arguments, sizes
  <2>2. Ids' = Ids
    BY <2>1 DEF Ids
  <2>3. \A id \in Ids : (CHOOSE c \in DOMAIN lists : id \in lists[c]) \in DOMAIN lists
    BY <1>2 DEF OnceEach
  <2>4. \A id \in Ids : (CHOOSE c \in DOMAIN lists : id \in lists[c]) \in 0 .. target
    <3>1. \A c \in DOMAIN lists : c \in 0 .. target
      BY <1>2, <1>4
    <3> QED
      BY <2>3, <3>1, Zenon
  <2>5. assign' \in [Ids -> 0 .. target]
    <3>1. CASE Serial
      BY <1>2, <1>4, <3>1
    <3>2. CASE ~Serial
      BY <1>4, <2>4, <3>2
    <3> QED
      BY <3>1, <3>2
  <2>7. TypeOK'
    BY <1>4, <2>1, <2>2, <2>5 DEF IInv, TypeOK
  <2>8. Partition'
    BY <1>2, <2>1, <2>2 DEF Partition, OnceEach
  <2> QED
    BY <1>4, <2>1, <2>2, <2>5, <2>7, <2>8 DEF IInv
<1> QED
  BY <1>3, <1>4 DEF train_kmeans_centroids_with_init

LEMMA ReassignPreserves ==
    ASSUME IInv, NEW c \in todo, reassign_one_cluster(c) PROVE IInv'
<1>1. /\ pc = "reassign"
      /\ todo' = todo \ {c}
      /\ UNCHANGED <<indices, options, ntotal, target, pc, lists, passes, group,
                     answer>>
  BY DEF reassign_one_cluster, Remaining, arguments, sizes
<1>2. /\ OnceEach(lists, Ids)
      /\ target \in Nat
  BY <1>1, WhileWorking DEF Working
<1>3. Ids' = Ids
  BY <1>1 DEF Ids
<1>4. assign' \in [Ids -> 0 .. target]
  <2>1. PICK near \in SUBSET (1 .. target) : \E best_tgt \in [lists[c] -> near] :
          assign' = [id \in Ids |-> IF id \in lists[c] THEN best_tgt[id] ELSE assign[id]]
    BY DEF reassign_one_cluster, kSubset
  <2>2. PICK best_tgt \in [lists[c] -> near] :
          assign' = [id \in Ids |-> IF id \in lists[c] THEN best_tgt[id] ELSE assign[id]]
    BY <2>1
  <2>3. assign \in [Ids -> 0 .. target]
    BY <1>1 DEF IInv
  <2>4. \A t \in near : t \in 0 .. target
    <3>1. \A t \in 1 .. target : t \in 0 .. target
      BY <1>2
    <3> QED
      BY <3>1, Zenon
  <2>5. \A id \in lists[c] : best_tgt[id] \in 0 .. target
    BY <2>4
  <2> QED
    BY <2>2, <2>3, <2>5
<1>5. TypeOK'
  BY <1>1, <1>3, <1>4 DEF IInv, TypeOK
<1>6. Partition'
  BY <1>1, <1>2, <1>3 DEF Partition, OnceEach
<1> QED
  BY <1>1, <1>3, <1>4, <1>5, <1>6 DEF IInv

LEMMA RebuildPreserves ==
    ASSUME IInv, rebuild_lists_from_assign PROVE IInv'
<1>1. pc = "reassign" /\ todo = {}
  BY DEF rebuild_lists_from_assign
<1>2. CASE Throw
  BY <1>1, <1>2, ThrowPreserves
<1>3. ASSUME \A id \in Ids : assign[id] # 0,
             Relist([t \in 1 .. target |-> {id \in Ids : assign[id] = t}], AfterLists)
      PROVE  IInv'
  <2> DEFINE table == [t \in 1 .. target |-> {id \in Ids : assign[id] = t}]
  <2>1. target \in Nat
    BY DEF IInv
  <2>2. assign \in [Ids -> 1 .. target]
    <3>1. assign \in [Ids -> 0 .. target]
      BY <1>1 DEF IInv
    <3> QED
      BY <1>3, <2>1, <3>1
  <2>3. IsTable(table, Ids) /\ OnceEach(table, Ids)
    BY <2>1, <2>2, Labelled
  <2> HIDE DEF table
  <2>4. Relist(table, AfterLists) /\ AfterLists \in {"materialize", "encode"}
    BY <1>3 DEF table, AfterLists
  <2> QED
    BY <1>1, <2>3, <2>4, RelistPreserves
<1>4. ASSUME options.method = "rabitq_1bit", Relist(<<>>, AfterLists)
      PROVE  IInv'
  <2>1. /\ lists' = <<>>
        /\ pc' = "encode"
        /\ UNCHANGED <<indices, options, ntotal, target, passes, group, assign,
                       todo, answer>>
    BY <1>4 DEF Relist, AfterLists, arguments, sizes, stage2
  <2>2. TypeOK'
    BY <1>1, <2>1 DEF IInv, TypeOK, Ids
  <2>3. Partition'
    BY <1>4, <2>1 DEF Partition, Working
  <2> QED
    BY <1>1, <2>1, <2>2, <2>3 DEF IInv
<1> QED
  BY <1>2, <1>3, <1>4 DEF rebuild_lists_from_assign

(* an index ends the call, too *)
LEMMA ReturnPreserves ==
    ASSUME IInv, NEW new, Return(new), todo = {} PROVE IInv'
<1>1. /\ pc' = "end"
      /\ answer'.state = "index"
      /\ UNCHANGED <<indices, options, ntotal, target, lists, passes, group,
                     assign, todo>>
  BY DEF Return, arguments, sizes, stage2
<1>2. TypeOK'
  BY <1>1 DEF IInv, TypeOK, Ids
<1>3. Partition'
  BY <1>1 DEF Partition, Working
<1> QED
  BY <1>1, <1>2, <1>3 DEF IInv

LEMMA SyncPreserves ==
    ASSUME IInv, sync_ivfdata_to_index PROVE IInv'
<1>1. pc = "materialize" /\ (Throw \/ \E new : Return(new))
  BY DEF sync_ivfdata_to_index
<1>2. todo = {}
  BY <1>1 DEF IInv
<1> QED
  BY <1>1, <1>2, ThrowPreserves, ReturnPreserves

LEMMA StutterPreserves == ASSUME IInv, UNCHANGED vars PROVE IInv'
<1>1. UNCHANGED <<indices, options, pc, ntotal, target, lists, passes, group,
                 assign, todo, answer>>
  BY DEF vars
<1> QED
  BY <1>1 DEF IInv, TypeOK, Partition, Working, KeepsLists, Compressed, Ids

LEMMA ListStepPreserves == ASSUME IInv, ListStep PROVE IInv'
BY ConcatPreserves, CompressPreserves, Stage1Preserves, QuotaPassPreserves,
   TrainingPreserves, RebuildPreserves, SyncPreserves DEF ListStep

-------------------------------------------------------------------------------
(* The codes. *)

(* What makes places private: a counter is at least the number of every     *)
(* place of its list that is held by a thread or written.                   *)
CountersLead ==
    encoder # <<>> =>
        /\ pc \in {"encode", "end"}
        /\ out_pos \in [DOMAIN lists -> Nat]
        /\ encoder \in [DOMAIN encoder -> [read : Nat, list : Nat, pos : Nat]]
        /\ DOMAIN buffers = DOMAIN lists
        /\ \A k \in DOMAIN encoder : encoder[k].pos > 0 =>
              /\ encoder[k].list \in DOMAIN lists
              /\ encoder[k].pos <= out_pos[encoder[k].list]
        /\ \A x \in DOMAIN lists : \A pos : Written(x, pos) =>
              /\ pos \in Nat \ {0}
              /\ pos <= out_pos[x]

EInv == IInv /\ CountersLead /\ EncodersApart

-----------------------------------------------------------------------------
(* The lists: encoding reads them and ends the call. *)

LEMMA EncodingEndsOrStutters ==
    ASSUME Step
    PROVE  \/ ListStep
           \/ \E c \in todo : reassign_one_cluster(c)
           \/ pc = "encode" /\ (Throw \/ \E new : Return(new))
           \/ pc = "encode" /\ UNCHANGED vars
BY DEF Step, MergeLists, Reassign, build_from_in_remap_buffers, allocate_output,
       take_position, write_entry, add_entries

LEMMA ListsPreserved ==
    ASSUME IInv, [Next]_<<vars, encoding>> PROVE IInv'
<1>1. CASE Step
  <2>1. CASE pc = "encode" /\ (Throw \/ \E new : Return(new))
    <3>1. todo = {}
      BY <2>1 DEF IInv
    <3> QED
      BY <2>1, <3>1, ThrowPreserves, ReturnPreserves
  <2> QED
    BY <1>1, <2>1, EncodingEndsOrStutters, ListStepPreserves, ReassignPreserves,
       StutterPreserves
<1>2. CASE UNCHANGED vars
  BY <1>2, StutterPreserves
<1> QED
  BY <1>1, <1>2 DEF Next, Finished

-----------------------------------------------------------------------------
(* The places. *)

LEMMA EncodersInit == ASSUME MergeInit PROVE CountersLead /\ EncodersApart
BY DEF MergeInit, CountersLead, EncodersApart

(* before the buffers are there, and after the threads have joined *)
LEMMA NoEncoders == ASSUME encoder' = <<>> PROVE (CountersLead /\ EncodersApart)'
BY DEF CountersLead, EncodersApart

LEMMA ListStepsComeFirst ==
    ASSUME EInv, ListStep \/ \E c \in todo : reassign_one_cluster(c)
    PROVE  encoder = <<>>
<1>1. pc \notin {"encode", "end"}
  BY DEF ListStep, concat_indices_into_ivfdata, compress_empty_clusters,
         reduce_centroids_to_target_kmeans, quota_split_clusters_kmeans,
         repair_empty_parts, end_of_quota_pass, passes_exhausted,
         split_largest_nonempty_cluster, end_of_stage1,
         train_kmeans_centroids_with_init, rebuild_lists_from_assign,
         sync_ivfdata_to_index, reassign_one_cluster
<1> QED
  BY <1>1 DEF EInv, CountersLead

LEMMA SameEncodersPreserve ==
    ASSUME EInv, UNCHANGED <<lists, encoding>>, pc' \in {pc, "end"}
    PROVE  (CountersLead /\ EncodersApart)'
<1>1. UNCHANGED <<lists, buffers, out_pos, encoder>>
  BY DEF encoding
<1> QED
  BY <1>1 DEF EInv, CountersLead, EncodersApart, Written

LEMMA AllocatePreserves ==
    ASSUME EInv, allocate_output PROVE (CountersLead /\ EncodersApart)'
<1>1. CASE Throw /\ UNCHANGED encoding
  BY <1>1, SameEncodersPreserve DEF Throw
<1>2. ASSUME buffers' = [x \in DOMAIN lists |-> [pos \in 1 .. SizeOf(x) |-> NoEntry]],
             out_pos' = [x \in DOMAIN lists |-> 0],
             encoder' = [k \in DOMAIN indices |-> [read |-> 0, list |-> 0, pos |-> 0]],
             UNCHANGED vars
      PROVE  (CountersLead /\ EncodersApart)'
  <2>1. lists' = lists /\ pc' = "encode"
    BY <1>2 DEF allocate_output, vars
  <2>2. \A k \in DOMAIN encoder' : encoder'[k].pos = 0
    BY <1>2
  <2>3. \A x \in DOMAIN lists : \A pos : ~Written(x, pos)'
    BY <1>2 DEF Written
  <2>4. encoder' \in [DOMAIN encoder' -> [read : Nat, list : Nat, pos : Nat]]
    BY <1>2
  <2>5. out_pos' \in [DOMAIN lists -> Nat] /\ DOMAIN buffers' = DOMAIN lists
    BY <1>2
  <2>6. CountersLead'
    BY <2>1, <2>2, <2>3, <2>4, <2>5 DEF CountersLead
  <2>7. EncodersApart'
    BY <2>2 DEF EncodersApart
  <2> QED
    BY <2>6, <2>7
<1> QED
  BY <1>1, <1>2 DEF allocate_output

(* fetch_add hands out a place beyond all that are held or written *)
LEMMA TakePreserves ==
    ASSUME EInv, NEW k \in DOMAIN encoder, take_position(k)
    PROVE  (CountersLead /\ EncodersApart)'
<1>1. /\ encoder # <<>>
      /\ UNCHANGED <<lists, pc, buffers>>
  BY DEF take_position, vars
<1>2. /\ pc \in {"encode", "end"}
      /\ out_pos \in [DOMAIN lists -> Nat]
      /\ encoder \in [DOMAIN encoder -> [read : Nat, list : Nat, pos : Nat]]
      /\ DOMAIN buffers = DOMAIN lists
      /\ \A j \in DOMAIN encoder : encoder[j].pos > 0 =>
            encoder[j].list \in DOMAIN lists /\ encoder[j].pos <= out_pos[encoder[j].list]
      /\ \A y \in DOMAIN lists : \A pos : Written(y, pos) =>
            pos \in Nat \ {0} /\ pos <= out_pos[y]
  BY <1>1 DEF EInv, CountersLead
<1>3. EncodersApart
  BY DEF EInv
<1>4. PICK x \in DOMAIN lists :
         /\ out_pos' = [out_pos EXCEPT ![x] = out_pos[x] + 1]
         /\ encoder' = [encoder EXCEPT ![k] =
               [read |-> @.read + 1, list |-> x, pos |-> out_pos[x] + 1]]
  BY DEF take_position, NextPosition
<1>5. \A y \in DOMAIN lists : out_pos'[y] \in Nat /\ out_pos[y] <= out_pos'[y]
  BY <1>2, <1>4
<1>6. out_pos'[x] = out_pos[x] + 1 /\ out_pos' \in [DOMAIN lists -> Nat]
  BY <1>2, <1>4
<1>7. DOMAIN lists \subseteq Nat
  <2>1. lists \in Seq(SUBSET Ids)
    BY DEF EInv, IInv, TypeOK
  <2> QED
    BY <2>1
<1>8. encoder[k] \in [read : Nat, list : Nat, pos : Nat]
  BY <1>2
<1>9. /\ DOMAIN encoder' = DOMAIN encoder
      /\ encoder'[k] = [read |-> encoder[k].read + 1, list |-> x, pos |-> out_pos[x] + 1]
      /\ \A j \in DOMAIN encoder : j # k => encoder'[j] = encoder[j]
  BY <1>2, <1>4
<1>10. encoder'[k].list = x /\ encoder'[k].pos = out_pos[x] + 1
  BY <1>9
<1>11. \A y, pos : Written(y, pos)' <=> Written(y, pos)
  BY <1>1 DEF Written
<1>12. encoder' \in [DOMAIN encoder' -> [read : Nat, list : Nat, pos : Nat]]
  <2>1. [read |-> encoder[k].read + 1, list |-> x, pos |-> out_pos[x] + 1]
           \in [read : Nat, list : Nat, pos : Nat]
    BY <1>2, <1>7, <1>8
  <2> QED
    BY <1>2, <1>4, <1>9, <2>1
<1>13. \A j \in DOMAIN encoder' : encoder'[j].pos > 0 =>
          encoder'[j].list \in DOMAIN lists /\ encoder'[j].pos <= out_pos'[encoder'[j].list]
  <2> TAKE j \in DOMAIN encoder'
  <2>1. CASE j = k
    BY <1>2, <1>6, <1>10, <2>1
  <2>2. CASE j # k
    <3>1. j \in DOMAIN encoder /\ encoder'[j] = encoder[j]
      BY <1>9, <2>2
    <3>2. encoder[j].pos \in Nat
      BY <1>2, <3>1
    <3> QED
      BY <1>2, <1>5, <3>1, <3>2
  <2> QED
    BY <2>1, <2>2
<1>14. \A y \in DOMAIN lists : \A pos : Written(y, pos)' =>
          pos \in Nat \ {0} /\ pos <= out_pos'[y]
  BY <1>2, <1>5, <1>11
<1>15. CountersLead'
  BY <1>1, <1>2, <1>6, <1>12, <1>13, <1>14 DEF CountersLead
<1>16. EncodersApart'
  <2> SUFFICES ASSUME NEW i \in DOMAIN encoder, encoder'[i].pos > 0
               PROVE  /\ ~Written(encoder'[i].list, encoder'[i].pos)
                      /\ \A j \in DOMAIN encoder \ {i} :
                            <<encoder'[j].list, encoder'[j].pos>>
                               # <<encoder'[i].list, encoder'[i].pos>>
    BY <1>9, <1>11 DEF EncodersApart
  <2>1. CASE i = k
    <3>1. ~Written(x, out_pos[x] + 1)
      BY <1>2
    <3>2. ASSUME NEW j \in DOMAIN encoder \ {k}
          PROVE  <<encoder'[j].list, encoder'[j].pos>> # <<x, out_pos[x] + 1>>
      <4>1. encoder'[j] = encoder[j] /\ encoder[j].pos \in Nat /\ out_pos[x] \in Nat
        BY <1>2, <1>9
      <4>2. encoder[j].pos > 0 => encoder[j].pos <= out_pos[encoder[j].list]
        BY <1>2
      <4> QED
        BY <4>1, <4>2
    <3> QED
      BY <1>10, <2>1, <3>1, <3>2
  <2>2. CASE i # k
    <3>1. encoder'[i] = encoder[i] /\ encoder[i].pos > 0 /\ encoder[i].pos \in Nat
      BY <1>2, <1>9, <2>2
    <3>2. encoder[i].pos <= out_pos[encoder[i].list]
      BY <1>2, <3>1
    <3>3. ASSUME NEW j \in DOMAIN encoder \ {i}
          PROVE  <<encoder'[j].list, encoder'[j].pos>> # <<encoder[i].list, encoder[i].pos>>
      <4>1. CASE j = k
        <5>1. out_pos[x] \in Nat
          BY <1>2
        <5> QED
          BY <1>10, <3>1, <3>2, <4>1, <5>1
      <4>2. CASE j # k
        BY <1>3, <1>9, <3>1, <4>2 DEF EncodersApart
      <4> QED
        BY <4>1, <4>2
    <3>4. ~Written(encoder[i].list, encoder[i].pos)
      BY <1>3, <3>1 DEF EncodersApart
    <3> QED
      BY <3>1, <3>3, <3>4
  <2> QED
    BY <2>1, <2>2
<1> QED
  BY <1>15, <1>16

(* a thread writes to the place that it holds, and gives it up *)
LEMMA WritePreserves ==
    ASSUME EInv, NEW k \in DOMAIN encoder, write_entry(k)
    PROVE  (CountersLead /\ EncodersApart)'
<1> DEFINE x == encoder[k].list
           p == encoder[k].pos
<1>1. /\ encoder # <<>>
      /\ UNCHANGED <<lists, pc, out_pos>>
  BY DEF write_entry, vars
<1>2. /\ pc \in {"encode", "end"}
      /\ out_pos \in [DOMAIN lists -> Nat]
      /\ encoder \in [DOMAIN encoder -> [read : Nat, list : Nat, pos : Nat]]
      /\ DOMAIN buffers = DOMAIN lists
      /\ \A j \in DOMAIN encoder : encoder[j].pos > 0 =>
            encoder[j].list \in DOMAIN lists /\ encoder[j].pos <= out_pos[encoder[j].list]
      /\ \A y \in DOMAIN lists : \A pos : Written(y, pos) =>
            pos \in Nat \ {0} /\ pos <= out_pos[y]
  BY <1>1 DEF EInv, CountersLead
<1>3. EncodersApart
  BY DEF EInv
<1>4. /\ encoder[k].pos > 0
      /\ buffers' = [buffers EXCEPT ![x][p] = ShardEntries(k)[encoder[k].read]]
      /\ encoder' = [encoder EXCEPT ![k].pos = 0]
  BY DEF write_entry
<1>5. /\ DOMAIN encoder' = DOMAIN encoder
      /\ encoder'[k].pos = 0
      /\ \A j \in DOMAIN encoder : j # k => encoder'[j] = encoder[j]
  BY <1>2, <1>4
<1>6. encoder' \in [DOMAIN encoder' -> [read : Nat, list : Nat, pos : Nat]]
  BY <1>2, <1>4, <1>5
<1>7. DOMAIN buffers' = DOMAIN lists
  BY <1>2, <1>4
<1>8. x \in DOMAIN lists /\ p \in Nat /\ p > 0 /\ p <= out_pos[x]
  BY <1>2, <1>4
<1>9. ASSUME NEW y \in DOMAIN lists, NEW pos, Written(y, pos)'
      PROVE  Written(y, pos) \/ (y = x /\ pos = p)
  <2>1. CASE y # x
    <3>1. buffers'[y] = buffers[y]
      BY <1>2, <1>4, <2>1
    <3> QED
      BY <1>9, <3>1 DEF Written
  <2>2. CASE y = x
    <3>1. buffers'[x] = [buffers[x] EXCEPT ![p] = ShardEntries(k)[encoder[k].read]]
      BY <1>2, <1>4, <1>8
    <3> QED
      BY <1>9, <2>2, <3>1 DEF Written
  <2> QED
    BY <2>1, <2>2
<1> HIDE DEF x, p
<1>10. \A y \in DOMAIN lists : \A pos : Written(y, pos)' =>
          pos \in Nat \ {0} /\ pos <= out_pos[y]
  BY <1>2, <1>8, <1>9
<1>11. \A j \in DOMAIN encoder' : encoder'[j].pos > 0 =>
          encoder'[j].list \in DOMAIN lists /\ encoder'[j].pos <= out_pos[encoder'[j].list]
  BY <1>2, <1>5
<1>12. CountersLead'
  BY <1>1, <1>2, <1>6, <1>7, <1>10, <1>11 DEF CountersLead
<1>13. \A y \in DOMAIN lists : \A pos :
          pos \in DOMAIN buffers'[y] /\ buffers'[y][pos] # NoEntry =>
             Written(y, pos) \/ (y = x /\ pos = p)
  BY <1>9 DEF Written
<1>14. EncodersApart'
  <2> SUFFICES ASSUME NEW i \in DOMAIN encoder, encoder'[i].pos > 0
               PROVE  /\ ~(/\ encoder'[i].pos \in DOMAIN buffers'[encoder'[i].list]
                           /\ buffers'[encoder'[i].list][encoder'[i].pos] # NoEntry)
                      /\ \A j \in DOMAIN encoder \ {i} :
                            <<encoder'[j].list, encoder'[j].pos>>
                               # <<encoder'[i].list, encoder'[i].pos>>
    BY <1>5 DEF EncodersApart, Written
  <2>1. i # k /\ encoder'[i] = encoder[i] /\ encoder[i].pos > 0
    BY <1>5
  <2>2. encoder[i].list \in DOMAIN lists
    BY <1>2, <2>1
  <2>3. <<encoder[i].list, encoder[i].pos>> # <<x, p>>
    BY <1>3, <1>8, <2>1 DEF EncodersApart, x, p
  <2>4. ~Written(encoder[i].list, encoder[i].pos)
    BY <1>3, <2>1 DEF EncodersApart
  <2>5. ~(/\ encoder'[i].pos \in DOMAIN buffers'[encoder'[i].list]
          /\ buffers'[encoder'[i].list][encoder'[i].pos] # NoEntry)
    BY <1>13, <2>1, <2>2, <2>3, <2>4
  <2>6. ASSUME NEW j \in DOMAIN encoder \ {i}
        PROVE  <<encoder'[j].list, encoder'[j].pos>> # <<encoder'[i].list, encoder'[i].pos>>
    <3>1. CASE j = k
      BY <1>5, <2>1, <3>1
    <3>2. CASE j # k
      BY <1>3, <1>5, <2>1, <3>2 DEF EncodersApart
    <3> QED
      BY <3>1, <3>2
  <2> QED
    BY <2>5, <2>6
<1> QED
  BY <1>12, <1>14

LEMMA PlacesPreserved ==
    ASSUME EInv, [Next]_<<vars, encoding>> PROVE (CountersLead /\ EncodersApart)'
<1>1. CASE MergeLists \/ \E c \in todo : Reassign(c)
  <2>1. encoder = <<>>
    BY <1>1, ListStepsComeFirst DEF MergeLists, Reassign
  <2>2. encoder' = encoder
    BY <1>1 DEF MergeLists, Reassign, encode_in_remap, encoding
  <2> QED
    BY <2>1, <2>2, NoEncoders
<1>2. CASE build_from_in_remap_buffers
  BY <1>2, SameEncodersPreserve DEF build_from_in_remap_buffers, Return, Throw
<1>3. CASE allocate_output
  BY <1>3, AllocatePreserves
<1>4. CASE \E k \in DOMAIN encoder : take_position(k)
  BY <1>4, TakePreserves
<1>5. CASE \E k \in DOMAIN encoder : write_entry(k)
  BY <1>5, WritePreserves
<1>6. CASE add_entries
  BY <1>6, SameEncodersPreserve DEF add_entries, Return
<1>7. CASE UNCHANGED <<vars, encoding>>
  BY <1>7, SameEncodersPreserve DEF vars
<1> QED
  BY <1>1, <1>2, <1>3, <1>4, <1>5, <1>6, <1>7 DEF Next, Step, Finished

-----------------------------------------------------------------------------
(* No list is left empty. *)

(* No list is empty. *)
NoneEmpty == \A c \in DOMAIN lists : lists[c] # {}

(* There is a vector for each part of the list that t is a part of. *)
EnoughFor(t) == Cardinality(Siblings(t)) <= Cardinality(UNION {lists[s] : s \in Siblings(t)})

(* No id is in two lists. *)
ListsApart == \A c, d \in DOMAIN lists : c # d => lists[c] \cap lists[d] = {}

(* Why the parts of a quota pass can be filled: between two passes no list  *)
(* is empty, and during the repair each list that was split has a vector    *)
(* for each of its parts. Compression makes the first lists nonempty when   *)
(* no id is in two of them; then the passes begin, which stop at target.    *)
Filled ==
    /\ ntotal \in Nat
    /\ pc \in {"concat", "compress"} => passes = 0
    /\ pc = "compress" /\ (\A id \in Ids : \E c \in DOMAIN lists : id \in lists[c]) => ListsApart
    /\ pc \in {"stage1", "repair"} => passes = 0 \/ Len(lists) <= target
    /\ pc = "stage1" => NoneEmpty \/ (passes = 0 /\ Len(lists) = target)
    /\ pc = "repair" => \A t \in DOMAIN lists : EnoughFor(t)

(* What Min and Max return for numbers. *)
LEMMA MinOfThree ==
    ASSUME NEW a \in Int, NEW b \in Int, NEW c \in Int
    PROVE  /\ Min({a, b, c}) \in Int /\ Min({a, b, c}) \in {a, b, c}
           /\ Min({a, b, c}) <= a /\ Min({a, b, c}) <= b /\ Min({a, b, c}) <= c
<1>1. \E x \in {a, b, c} : \A y \in {a, b, c} : x =< y
  <2>1. CASE a <= b /\ a <= c
    BY <2>1
  <2>2. CASE b <= a /\ b <= c
    BY <2>2
  <2>3. CASE c <= a /\ c <= b
    BY <2>3
  <2> QED
    BY <2>1, <2>2, <2>3
<1>2. Min({a, b, c}) \in {a, b, c} /\ \A y \in {a, b, c} : Min({a, b, c}) =< y
  BY <1>1 DEF Min
<1> QED
  BY <1>2

LEMMA MaxOfTwo ==
    ASSUME NEW a \in Int, NEW b \in Int
    PROVE  /\ Max({a, b}) \in Int /\ Max({a, b}) \in {a, b}
           /\ Max({a, b}) >= a /\ Max({a, b}) >= b
<1>1. \E x \in {a, b} : \A y \in {a, b} : x >= y
  <2>1. CASE a >= b
    BY <2>1
  <2>2. CASE b >= a
    BY <2>2
  <2> QED
    BY <2>1, <2>2
<1>2. Max({a, b}) \in {a, b} /\ \A y \in {a, b} : Max({a, b}) >= y
  BY <1>1 DEF Max
<1> QED
  BY <1>2

(* Lists are finite, as there are finitely many ids. *)
LEMMA ListSizes ==
    ASSUME ntotal \in Nat, IsTable(lists, Ids)
    PROVE  /\ IsFiniteSet(Ids) /\ Cardinality(Ids) = ntotal
           /\ \A c \in DOMAIN lists :
                 /\ IsFiniteSet(lists[c]) /\ SizeOf(c) \in Nat
                 /\ lists[c] # {} => SizeOf(c) >= 1 /\ ntotal > 0
<1>1. IsFiniteSet(Ids) /\ Cardinality(Ids) = ntotal
  <2>1. 0 \in Int /\ ntotal - 1 \in Int
    OBVIOUS
  <2>2. IsFiniteSet(0 .. (ntotal - 1)) /\
        Cardinality(0 .. (ntotal - 1)) = IF 0 > ntotal - 1 THEN 0 ELSE (ntotal - 1) - 0 + 1
    BY <2>1, FS_Interval
  <2> QED
    BY <2>2 DEF Ids
<1>2. ASSUME NEW c \in DOMAIN lists
      PROVE  /\ IsFiniteSet(lists[c]) /\ SizeOf(c) \in Nat
             /\ lists[c] # {} => SizeOf(c) >= 1 /\ ntotal > 0
  <2>1. lists[c] \in SUBSET Ids
    BY DEF IsTable
  <2>2. IsFiniteSet(lists[c])
    BY <1>1, <2>1, FS_Subset
  <2>3. SizeOf(c) \in Nat /\ (SizeOf(c) = 0 <=> lists[c] = {})
    BY <2>2, FS_CardinalityType, FS_EmptySet DEF SizeOf
  <2>4. lists[c] # {} => ntotal > 0
    BY <2>1 DEF Ids
  <2> QED
    BY <2>2, <2>3, <2>4
<1> QED
  BY <1>1, <1>2

(* The first quota of a list never exceeds its size. *)
LEMMA FirstQuotaFits ==
    ASSUME IInv, ntotal \in Nat, IsTable(lists, Ids), NEW c \in DOMAIN lists, lists[c] # {}
    PROVE  MaxK \in Int /\ FirstQuota(c) \in Int /\ 1 <= FirstQuota(c) /\ FirstQuota(c) <= SizeOf(c)
<1>1. SizeOf(c) \in Nat /\ SizeOf(c) >= 1 /\ ntotal > 0 /\ target \in Nat
  BY ListSizes DEF IInv
<1>2. MaxK \in Int /\ MaxK >= 1
  <2>1. options.split_max_k_per_cluster \in Int
    BY CallsAssumption DEF IInv, TypeOK
  <2>2. PICK k \in Int : k = options.split_max_k_per_cluster
    BY <2>1
  <2>3. Max({1, k}) \in Int /\ Max({1, k}) >= 1
    BY MaxOfTwo
  <2> QED
    BY <2>2, <2>3, CapAssumption DEF MaxK
<1>3. PICK n, m : n = SizeOf(c) /\ m = MaxK
  OBVIOUS
<1>4. CASE n < 2
  BY <1>1, <1>2, <1>3, <1>4 DEF FirstQuota
<1>5. CASE ~(n < 2)
  <2>1. Share(n) \in Int
    <3>1. 2 * n * target + ntotal \in Int /\ 2 * ntotal \in Int /\ 2 * ntotal > 0
      BY <1>1, <1>3
    <3> QED
      BY <3>1 DEF Share
  <2>2. PICK s \in Int : s = Max({1, Share(n)}) /\ s >= 1
    <3>1. PICK k \in Int : k = Share(n)
      BY <2>1
    <3>2. Max({1, k}) \in Int /\ Max({1, k}) >= 1
      BY MaxOfTwo
    <3> QED
      BY <3>1, <3>2
  <2>3. FirstQuota(c) = Min({n, m, s})
    BY <1>3, <1>5, <2>2 DEF FirstQuota
  <2>4. Min({n, m, s}) \in {n, m, s} /\ Min({n, m, s}) <= n
    <3>1. n \in Int /\ m \in Int /\ s \in Int
      BY <1>1, <1>2, <1>3
    <3> QED
      BY <3>1, MinOfThree
  <2> QED
    BY <1>1, <1>2, <1>3, <1>5, <2>2, <2>3, <2>4
<1> QED
  BY <1>2, <1>4, <1>5

(* Neither do the rounds that raise or lower it. *)
LEMMA RoundsFit ==
    ASSUME IInv, ntotal \in Nat, IsTable(lists, Ids), NEW c \in DOMAIN lists, lists[c] # {},
           NEW r \in Int
    PROVE  AfterRounds(r)[c] \in Nat /\ AfterRounds(r)[c] <= SizeOf(c)
<1>1. SizeOf(c) \in Nat /\ SizeOf(c) >= 1
  BY ListSizes
<1>2. PICK q, n, m : /\ q = FirstQuota(c) /\ n = SizeOf(c) /\ m = MaxK
                     /\ q \in Int /\ m \in Int /\ 1 <= q /\ q <= n
  BY FirstQuotaFits
<1>3. CASE r >= 0
  <2>1. PICK a \in Int : a = Min({q + r, m, n}) /\ a <= n
    <3>1. q + r \in Int /\ m \in Int /\ n \in Int
      BY <1>1, <1>2
    <3> QED
      BY <3>1, MinOfThree
  <2>2. AfterRounds(r)[c] = Max({q, a})
    BY <1>2, <1>3, <2>1 DEF AfterRounds
  <2>3. Max({q, a}) \in {q, a} /\ Max({q, a}) >= q
    BY <1>2, MaxOfTwo
  <2> QED
    BY <1>1, <1>2, <2>1, <2>2, <2>3
<1>4. CASE ~(r >= 0)
  <2>1. AfterRounds(r)[c] = Max({q + r, 1})
    BY <1>2, <1>4 DEF AfterRounds
  <2>2. Max({q + r, 1}) \in {q + r, 1} /\ Max({q + r, 1}) >= 1
    <3>1. q + r \in Int
      BY <1>2
    <3> QED
      BY <3>1, MaxOfTwo
  <2> QED
    BY <1>1, <1>2, <1>4, <2>1, <2>2
<1> QED
  BY <1>3, <1>4

(* Neither do the quotas that add up to target. *)
LEMMA QuotasFit ==
    ASSUME IInv, ntotal \in Nat, IsTable(lists, Ids), NoneEmpty, NEW quota \in Quotas
    PROVE  \A c \in DOMAIN lists : quota[c] \in Nat /\ quota[c] <= SizeOf(c)
<1>1. target \in Nat
  BY DEF IInv
<1>2. PICK p \in Rising \union Falling :
               \E left, order : quota \in Begun(p[1], p[2], left, order)
  <2>1. CASE \E p \in Rising : quota \in Begun(p[1], p[2], target - Total(p[1]), Larger)
    BY <2>1
  <2>2. CASE \E p \in Falling : quota \in Begun(p[1], p[2], Total(p[1]) - target, Smaller)
    BY <2>2
  <2>3. \/ quota \in UNION {Begun(p[1], p[2], target - Total(p[1]), Larger) : p \in Rising}
        \/ quota \in UNION {Begun(p[1], p[2], Total(p[1]) - target, Smaller) : p \in Falling}
    BY DEF Quotas
  <2> QED
    BY <2>1, <2>2, <2>3
<1>3. PICK r \in Int, q \in Int : p[1] = AfterRounds(r) /\ p[2] = AfterRounds(q)
  <2>1. CASE p \in Rising
    <3>1. PICK r \in 0 .. target : p = <<AfterRounds(r), AfterRounds(r + 1)>>
      BY <2>1 DEF Rising
    <3>2. r \in Int /\ r + 1 \in Int
      BY <1>1
    <3> QED
      BY <3>1, <3>2
  <2>2. CASE p \in Falling
    <3>1. PICK r \in 0 .. target : p = <<AfterRounds(-r), AfterRounds(-r - 1)>>
      BY <2>2 DEF Falling
    <3>2. -r \in Int /\ -r - 1 \in Int
      BY <1>1
    <3> QED
      BY <3>1, <3>2
  <2> QED
    BY <2>1, <2>2
<1>4. PICK served : quota = [c \in DOMAIN lists |-> IF c \in served THEN p[2][c] ELSE p[1][c]]
  BY <1>2 DEF Begun
<1>5. ASSUME NEW c \in DOMAIN lists PROVE quota[c] \in Nat /\ quota[c] <= SizeOf(c)
  <2>1. lists[c] # {}
    BY DEF NoneEmpty
  <2>2. AfterRounds(r)[c] \in Nat /\ AfterRounds(r)[c] <= SizeOf(c)
    BY <2>1, RoundsFit
  <2>3. AfterRounds(q)[c] \in Nat /\ AfterRounds(q)[c] <= SizeOf(c)
    BY <2>1, RoundsFit
  <2> QED
    BY <1>3, <1>4, <2>2, <2>3
<1> QED
  BY <1>5

(* A list has no more parts than its quota. *)
LEMMA PartsAreCounted ==
    ASSUME NEW n \in Nat, DOMAIN lists = 1 .. n, Len(lists) = n,
           NEW quota, \A c \in DOMAIN lists : quota[c] \in Nat,
           NEW parts, parts = PartsOf(quota), NEW c \in DOMAIN lists
    PROVE  /\ IsFiniteSet({t \in DOMAIN parts : parts[t] = c})
           /\ Cardinality({t \in DOMAIN parts : parts[t] = c}) <= quota[c]
<1> DEFINE s == [d \in DOMAIN lists |-> [t \in 1 .. quota[d] |-> d]]
           S == {t \in DOMAIN parts : parts[t] = c}
<1>1. DOMAIN s = 1 .. n /\ \A d \in 1 .. n : s[d] \in Seq(Nat)
  OBVIOUS
<1>2. s \in Seq(Seq(Nat)) /\ Len(s) = n
  BY <1>1
<1>3. parts = FlattenSeq(s)
  BY DEF PartsOf
<1>4. \A d \in 1 .. n : DOMAIN s[d] = 1 .. quota[d] /\ \A i \in DOMAIN s[d] : s[d][i] = d
  OBVIOUS
<1> HIDE DEF s
<1>5. PICK row, col : Places(parts, row, col, s, n)
  BY <1>2, <1>3, FlattenPlaces
<1> DEFINE f == [t \in S |-> col[t]]
<1>6. ASSUME NEW t \in S PROVE row[t] = c /\ col[t] \in 1 .. quota[c]
  BY <1>4, <1>5, <1>6 DEF Places
<1>7. f \in Injection(S, 1 .. quota[c])
  <2>1. f \in [S -> 1 .. quota[c]]
    BY <1>6
  <2>2. \A t, u \in S : f[t] = f[u] => t = u
    BY <1>5, <1>6 DEF Places
  <2> QED
    BY <2>1, <2>2 DEF Injection, IsInjective
<1>8. IsFiniteSet(1 .. quota[c]) /\ Cardinality(1 .. quota[c]) = quota[c]
  <2>1. 1 \in Int /\ quota[c] \in Nat
    OBVIOUS
  <2>2. PICK k \in Int : k = quota[c] /\ k >= 0
    BY <2>1
  <2>3. IsFiniteSet(1 .. k) /\ Cardinality(1 .. k) = IF 1 > k THEN 0 ELSE k - 1 + 1
    BY <2>1, FS_Interval
  <2> QED
    BY <2>2, <2>3
<1> HIDE DEF f, S
<1>9. IsFiniteSet(S) /\ Cardinality(S) <= quota[c]
  BY <1>7, <1>8, FS_Injection
<1> QED
  BY <1>9 DEF S

(* The same, of the parts that the code builds. *)
LEMMA FewParts ==
    ASSUME NEW n \in Nat, DOMAIN lists = 1 .. n, Len(lists) = n,
           NEW quota, \A d \in DOMAIN lists : quota[d] \in Nat,
           NEW c \in DOMAIN lists
    PROVE  LET Same == {t \in DOMAIN PartsOf(quota) : PartsOf(quota)[t] = c}
           IN  IsFiniteSet(Same) /\ Cardinality(Same) <= quota[c]
<1>1. PICK parts : parts = PartsOf(quota)
  OBVIOUS
<1>2. /\ IsFiniteSet({t \in DOMAIN parts : parts[t] = c})
      /\ Cardinality({t \in DOMAIN parts : parts[t] = c}) <= quota[c]
  BY <1>1, PartsAreCounted
<1> QED
  BY <1>1, <1>2


(* Concatenation: if all ids are there, then each is there once, as there    *)
(* are no more entries than ids.                                             *)
LEMMA ConcatFills ==
    ASSUME IInv, Filled, concat_indices_into_ivfdata PROVE Filled'
<1> DEFINE stacked == Stacked(indices)
           F == FlattenSeq(stacked)
           table == [c \in DOMAIN stacked |-> IdsOf(stacked[c])]
<1>1. passes' = passes /\ pc = "concat" /\ ntotal' = Len(F) /\ indices' = indices
  BY DEF concat_indices_into_ivfdata, arguments
<1>2. stacked \in Seq(Seq(Entries))
  <2>1. indices \in Seq(Seq(Seq(Int)))
    BY CallsAssumption DEF IInv, TypeOK
  <2> QED
    BY <2>1, StackedTypes
<1>3. pc' \in {"materialize", "encode", "compress", "end"}
  BY DEF concat_indices_into_ivfdata, AfterLists
<1> HIDE DEF stacked, F
<1>4. PICK row, col : F \in Seq(Entries) /\ Places(F, row, col, stacked, Len(stacked))
  BY <1>2, FlattenPlaces DEF F
<1>5. ntotal' \in Nat /\ DOMAIN F = 1 .. ntotal'
  BY <1>1, <1>4
<1>6. Len(stacked) \in Nat /\ DOMAIN stacked = 1 .. Len(stacked)
  BY <1>2
<1>7. ASSUME pc' = "compress", \A id \in Ids' : \E c \in DOMAIN lists' : id \in lists'[c]
      PROVE  ListsApart'
  <2>1. lists' = table /\ InRange(table, ntotal')
    BY <1>7 DEF concat_indices_into_ivfdata, stacked
  <2>2. DOMAIN table = DOMAIN stacked
    OBVIOUS
  <2>3. \A c \in DOMAIN stacked : table[c] = {stacked[c][i].id : i \in DOMAIN stacked[c]}
    BY DEF IdsOf
  <2>4. \A c \in DOMAIN stacked : table[c] \subseteq Ids'
    BY <2>1, <2>2 DEF InRange, Ids
  <2> HIDE DEF table
  <2> DEFINE g == [t \in 1 .. ntotal' |-> stacked[row[t]][col[t]].id]
  <2>5. g \in [1 .. ntotal' -> Ids']
    <3>1. ASSUME NEW t \in 1 .. ntotal' PROVE stacked[row[t]][col[t]].id \in Ids'
      <4>1. row[t] \in DOMAIN stacked /\ col[t] \in DOMAIN stacked[row[t]]
        BY <1>4, <1>5, <1>6 DEF Places
      <4> QED
        BY <2>3, <2>4, <4>1
    <3> QED
      BY <3>1
  <2>6. ASSUME NEW c \in DOMAIN stacked, NEW id \in table[c]
        PROVE  \E t \in 1 .. ntotal' : row[t] = c /\ g[t] = id
    <3>1. PICK i \in DOMAIN stacked[c] : id = stacked[c][i].id
      BY <2>3, <2>6
    <3>2. PICK t \in 1 .. ntotal' : row[t] = c /\ col[t] = i
      BY <1>4, <1>5, <1>6 DEF Places
    <3> QED
      BY <3>1, <3>2
  <2>7. \A id \in Ids' : \E t \in 1 .. ntotal' : g[t] = id
    BY <1>7, <2>1, <2>2, <2>6
  <2>8. g \in Surjection(1 .. ntotal', Ids')
    <3> HIDE DEF g
    <3> QED
      BY <2>5, <2>7 DEF Surjection
  <2>9. IsFiniteSet(1 .. ntotal') /\ Cardinality(1 .. ntotal') = Cardinality(Ids')
    <3>1. PICK n \in Nat : n = ntotal'
      BY <1>5
    <3>2. 0 \in Int /\ 1 \in Int /\ n \in Int /\ n - 1 \in Int
      OBVIOUS
    <3>3. IsFiniteSet(1 .. n) /\ Cardinality(1 .. n) = IF 1 > n THEN 0 ELSE n - 1 + 1
      BY <3>2, FS_Interval
    <3>4. PICK m \in Int : m = n - 1
      BY <3>2
    <3>5. Cardinality(0 .. m) = IF 0 > m THEN 0 ELSE m - 0 + 1
      BY <3>2, FS_Interval
    <3>6. Ids' = 0 .. m
      BY <3>1, <3>4 DEF Ids
    <3>7. Cardinality(1 .. n) = n
      BY <3>1, <3>3
    <3>8. Cardinality(0 .. m) = n
      BY <3>5, <3>4
    <3> QED
      BY <3>1, <3>3, <3>6, <3>7, <3>8
  <2>10. g \in Injection(1 .. ntotal', Ids')
    <3> HIDE DEF g
    <3> QED
      BY <2>8, <2>9, FS_SurjSameCardinalityImpliesInj
  <2> HIDE DEF g
  <2>11. \A t, u \in 1 .. ntotal' : g[t] = g[u] => t = u
    BY <2>5, <2>10 DEF Injection, IsInjective
  <2>12. ASSUME NEW c \in DOMAIN stacked, NEW d \in DOMAIN stacked, NEW id,
                id \in table[c], id \in table[d]
         PROVE  c = d
    <3>1. PICK t \in 1 .. ntotal' : row[t] = c /\ g[t] = id
      BY <2>6, <2>12
    <3>2. PICK u \in 1 .. ntotal' : row[u] = d /\ g[u] = id
      BY <2>6, <2>12
    <3> QED
      BY <2>11, <3>1, <3>2
  <2> QED
    BY <2>1, <2>2, <2>12 DEF ListsApart
<1>8. passes' = 0
  BY <1>1 DEF Filled
<1> QED
  BY <1>3, <1>5, <1>7, <1>8 DEF Filled

(* Every number of a kept list is the number of a list with ids: the first   *)
(* at which the count reaches that number.                                   *)
LEMMA NumbersUsed ==
    ASSUME lists \in Seq(SUBSET Ids), NEW i \in 1 .. NewNumber(Len(lists))
    PROVE  \E c \in DOMAIN lists : lists[c] # {} /\ NewNumber(c) = i
<1> DEFINE n == Len(lists)
           Kept(c) == {d \in 1 .. c : lists[d] # {}}
<1>1. n \in Nat /\ DOMAIN lists = 1 .. n
  OBVIOUS
<1>2. \A c \in Nat : IsFiniteSet(Kept(c)) /\ NewNumber(c) \in Nat
  <2> TAKE c \in Nat
  <2>1. IsFiniteSet(1 .. c)
    BY FS_Interval
  <2>2. Kept(c) \in SUBSET (1 .. c)
    OBVIOUS
  <2>3. IsFiniteSet(Kept(c))
    BY <2>1, <2>2, FS_Subset
  <2> QED
    BY <2>3, FS_CardinalityType DEF NewNumber
<1>3. NewNumber(n) \in Nat /\ i \in Nat /\ 1 <= i /\ i <= NewNumber(n)
  <2>1. PICK m \in Nat : m = NewNumber(n)
    BY <1>1, <1>2
  <2>2. i \in 1 .. m
    BY <2>1
  <2> HIDE DEF n
  <2> QED
    BY <2>1, <2>2
<1>4. NewNumber(0) = 0
  <2>1. Kept(0) = {}
    OBVIOUS
  <2> QED
    BY <2>1, FS_EmptySet DEF NewNumber
<1> DEFINE T == {c \in 1 .. n : i <= NewNumber(c)}
<1>5. n # 0
  BY <1>3, <1>4
<1>6. n \in T
  BY <1>1, <1>3, <1>5
<1>7. PICK c \in T : \A d \in T : c <= d
  <2>1. T \subseteq Nat /\ T # {}
    BY <1>6
  <2> HIDE DEF T
  <2> QED
    BY <2>1, SmallestOf
<1>8. c \in 1 .. n /\ i <= NewNumber(c) /\ c \in Nat /\ c - 1 \in Nat
  BY <1>1
<1>9. PICK before \in Nat, at \in Nat : before = NewNumber(c - 1) /\ at = NewNumber(c)
  BY <1>2, <1>8
<1>10. before < i
  <2>1. CASE c = 1
    BY <1>3, <1>4, <1>9, <2>1
  <2>2. CASE c # 1
    <3>1. c - 1 \in 1 .. n /\ c - 1 \notin T
      BY <1>1, <1>7, <1>8, <2>2
    <3>2. ~(i <= before)
      BY <1>9, <3>1
    <3> QED
      BY <1>3, <3>2
  <2> QED
    BY <2>1, <2>2
<1>11. i <= at
  BY <1>8, <1>9
<1>12. CASE lists[c] = {}
  <2>1. Kept(c) = Kept(c - 1)
    BY <1>1, <1>8, <1>12
  <2>2. NewNumber(c) = NewNumber(c - 1)
    BY <2>1 DEF NewNumber
  <2>3. at = before
    BY <1>9, <2>2
  <2> QED
    BY <1>3, <1>10, <1>11, <2>3
<1>13. CASE lists[c] # {}
  <2>1. Kept(c) = Kept(c - 1) \union {c} /\ c \notin Kept(c - 1)
    BY <1>1, <1>8, <1>13
  <2>2. IsFiniteSet(Kept(c - 1))
    BY <1>2, <1>8
  <2> HIDE DEF Kept
  <2>3. Cardinality(Kept(c)) = Cardinality(Kept(c - 1)) + 1
    BY <2>1, <2>2, FS_AddElement
  <2>4. NewNumber(c) = NewNumber(c - 1) + 1
    BY <2>3 DEF NewNumber, Kept
  <2>5. at = before + 1
    BY <1>9, <2>4
  <2>6. NewNumber(c) = i
    BY <1>3, <1>10, <1>9, <1>11, <2>5
  <2> QED
    BY <1>1, <1>8, <1>13, <2>6
<1> QED
  BY <1>12, <1>13

(* Compression keeps the lists that have ids, and each id its only list. *)
LEMMA CompressFills ==
    ASSUME IInv, Filled, compress_empty_clusters PROVE Filled'
<1>1. pc = "compress" /\ passes' = passes /\ ntotal' = ntotal
  BY DEF compress_empty_clusters
<1>2. passes' = 0 /\ ntotal' \in Nat
  BY <1>1 DEF Filled
<1>3. CASE pc' = "end"
  BY <1>2, <1>3 DEF Filled
<1>4. ASSUME NEW owner \in [Ids -> DOMAIN lists],
             \A id \in Ids : IsOwner(owner[id], id),
             lists' = [i \in 1 .. NewNumber(Len(lists)) |->
                         {id \in Ids : NewNumber(owner[id]) = i}],
             pc' = "stage1"
      PROVE  Filled'
  <2>1. lists \in Seq(SUBSET Ids)
    BY DEF IInv, TypeOK
  <2>2. \A id \in Ids : owner[id] \in DOMAIN lists /\ id \in lists[owner[id]]
    BY <1>4 DEF IsOwner
  <2>3. ListsApart
    BY <1>1, <2>2 DEF Filled
  <2>4. ASSUME NEW i \in 1 .. NewNumber(Len(lists))
        PROVE  {id \in Ids : NewNumber(owner[id]) = i} # {}
    <3>1. PICK c \in DOMAIN lists : lists[c] # {} /\ NewNumber(c) = i
      BY <2>1, NumbersUsed
    <3>2. PICK id : id \in lists[c]
      BY <3>1
    <3>3. id \in Ids
      BY <2>1, <3>2
    <3>4. owner[id] = c
      BY <2>2, <2>3, <3>2, <3>3 DEF ListsApart
    <3> QED
      BY <3>1, <3>3, <3>4
  <2>5. NoneEmpty'
    BY <1>4, <2>4 DEF NoneEmpty
  <2> QED
    BY <1>2, <1>4, <2>5 DEF Filled
<1> QED
  BY <1>3, <1>4 DEF compress_empty_clusters

(* Grouping may leave a list empty, but no quota pass follows it. *)
LEMMA ReduceFills ==
    ASSUME IInv, Filled, reduce_centroids_to_target_kmeans PROVE Filled'
<1>1. PICK map : Relist(Grouped(map), "stage1")
  BY DEF reduce_centroids_to_target_kmeans
<1>2. pc = "stage1" /\ Len(lists) > target
  BY DEF reduce_centroids_to_target_kmeans
<1>3. /\ lists' = Grouped(map) /\ pc' = "stage1"
      /\ passes' = passes /\ target' = target /\ ntotal' = ntotal
  BY <1>1 DEF Relist, sizes
<1>4. target \in Nat /\ Len(lists) \in Nat
  BY DEF IInv, TypeOK
<1>5. passes = 0
  BY <1>2, <1>4 DEF Filled
<1>6. Len(Grouped(map)) = target
  BY <1>4 DEF Grouped
<1> QED
  BY <1>3, <1>5, <1>6 DEF Filled

(* The parts of a list have its ids between them: one for each part at least. *)
LEMMA QuotaPassFills ==
    ASSUME IInv, Filled, quota_split_clusters_kmeans PROVE Filled'
<1>1. pc = "stage1" /\ Len(lists) \in 1 .. (target - 1)
  BY DEF quota_split_clusters_kmeans
<1>2. /\ IsTable(lists, Ids) /\ OnceEach(lists, Ids)
      /\ Len(lists) \in Nat /\ DOMAIN lists = 1 .. Len(lists) /\ target \in Nat
  BY <1>1, WhileWorking DEF Working
<1>3. ntotal \in Nat /\ NoneEmpty
  <2>1. Len(lists) # target
    <3>1. PICK n \in Nat, m \in Nat : n = Len(lists) /\ m = target
      BY <1>2
    <3> QED
      BY <1>1, <3>1
  <2> QED
    BY <1>1, <2>1 DEF Filled
<1>4. CASE Throw
  <2>1. pc' = "end" /\ ntotal' = ntotal
    BY <1>4 DEF Throw, sizes
  <2> QED
    BY <1>3, <2>1 DEF Filled
<1>5. ASSUME NEW parts \in Seq(DOMAIN lists), NEW quota \in Quotas, parts = PartsOf(quota),
             ~(Len(parts) > target),
             NEW label \in [Ids -> DOMAIN parts],
             \A id \in Ids : id \in lists[parts[label[id]]],
             group' = parts,
             pc' = IF Len(parts) = Len(lists) THEN "fallback" ELSE "repair",
             lists' = [t \in DOMAIN parts |-> {id \in Ids : label[id] = t}],
             UNCHANGED <<arguments, sizes, stage2, answer>>
      PROVE  Filled'
  <2>1. ntotal' = ntotal /\ target' = target
    BY <1>5 DEF sizes
  <2>2. pc' \in {"fallback", "repair"}
    BY <1>5
  <2>3. Len(lists') = Len(parts) /\ Len(parts) \in Nat /\ DOMAIN lists' = DOMAIN parts
    BY <1>5
  <2>4. Len(lists') <= target'
    <3>1. PICK n \in Nat, m \in Nat : n = Len(parts) /\ m = target
      BY <1>2, <2>3
    <3>2. ~(n > m)
      BY <1>5, <3>1
    <3>3. n <= m
      BY <3>1, <3>2
    <3> QED
      BY <2>1, <2>3, <3>1, <3>3
  <2>5. ASSUME NEW t \in DOMAIN lists' PROVE EnoughFor(t)'
    <3>1. PICK c \in DOMAIN lists : c = parts[t]
      BY <2>3
    <3> DEFINE Same == {s \in DOMAIN parts : parts[s] = c}
               All == UNION {lists'[s] : s \in Same}
    <3>2. Siblings(t)' = Same
      BY <1>5, <2>3, <3>1 DEF Siblings
    <3>3. \A d \in DOMAIN lists : quota[d] \in Nat /\ quota[d] <= SizeOf(d)
      BY <1>2, <1>3, QuotasFit
    <3>4. Cardinality(Same) <= quota[c] /\ IsFiniteSet(Same)
      <4>1. PICK n \in Nat : n = Len(lists)
        BY <1>2
      <4>2. DOMAIN lists = 1 .. n /\ Len(lists) = n
        BY <1>2, <4>1
      <4>3. \A d \in DOMAIN lists : quota[d] \in Nat
        BY <3>3
      <4>4. parts = PartsOf(quota)
        BY <1>5
      <4> HIDE DEF Same
      <4>5. /\ IsFiniteSet({s \in DOMAIN parts : parts[s] = c})
            /\ Cardinality({s \in DOMAIN parts : parts[s] = c}) <= quota[c]
        BY <4>2, <4>3, <4>4, FewParts
      <4> QED
        BY <4>5 DEF Same
    <3>5. lists[c] \subseteq All
      <4> SUFFICES ASSUME NEW id \in lists[c] PROVE id \in All
        OBVIOUS
      <4>1. id \in Ids
        BY <1>2 DEF IsTable
      <4>2. label[id] \in DOMAIN parts /\ id \in lists[parts[label[id]]]
        BY <1>5, <4>1
      <4>3. parts[label[id]] = c
        BY <1>2, <4>1, <4>2 DEF OnceEach
      <4>4. id \in lists'[label[id]] /\ label[id] \in Same
        BY <1>5, <4>1, <4>2, <4>3
      <4> QED
        BY <4>4
    <3>6. IsFiniteSet(All)
      <4>1. All \in SUBSET Ids
        BY <1>5
      <4>2. IsFiniteSet(Ids)
        BY <1>2, <1>3, ListSizes
      <4> QED
        BY <4>1, <4>2, FS_Subset
    <3> HIDE DEF Same, All
    <3>7. SizeOf(c) <= Cardinality(All)
      BY <3>5, <3>6, FS_Subset DEF SizeOf
    <3>8. /\ Cardinality(Same) \in Nat /\ Cardinality(All) \in Nat
          /\ SizeOf(c) \in Nat /\ quota[c] \in Nat /\ quota[c] <= SizeOf(c)
      BY <1>2, <1>3, <3>3, <3>4, <3>6, FS_CardinalityType, ListSizes
    <3>9. Cardinality(Same) <= Cardinality(All)
      BY <3>4, <3>7, <3>8
    <3> QED
      BY <3>2, <3>9 DEF EnoughFor, All
  <2> QED
    BY <1>3, <2>1, <2>2, <2>4, <2>5 DEF Filled
<1> QED
  BY <1>4, <1>5 DEF quota_split_clusters_kmeans

(* The repair moves an id from one part of a list to another. *)
LEMMA RepairFills ==
    ASSUME IInv, Filled, repair_empty_parts PROVE Filled'
<1>1. pc = "repair"
  BY DEF repair_empty_parts
<1>2. IsTable(lists, Ids)
  BY <1>1, WhileWorking DEF Working
<1>3. PICK t \in Hollow, src \in DOMAIN lists :
         /\ IsLargestSibling(src, t)
         /\ \E moved \in lists[src] :
               Relist([lists EXCEPT ![src] = @ \ {moved}, ![t] = {moved}], "repair")
  BY DEF repair_empty_parts
<1>4. PICK moved \in lists[src] :
         Relist([lists EXCEPT ![src] = @ \ {moved}, ![t] = {moved}], "repair")
  BY <1>3
<1>5. /\ t \in DOMAIN lists /\ lists[t] = {} /\ src # t
      /\ group[src] = group[t]
  BY <1>3, <1>4 DEF Hollow, IsLargestSibling, Siblings
<1>6. /\ lists' = [lists EXCEPT ![src] = @ \ {moved}, ![t] = {moved}]
      /\ pc' = "repair" /\ group' = group /\ passes' = passes
      /\ target' = target /\ ntotal' = ntotal
  BY <1>4 DEF Relist, sizes
<1>7. /\ DOMAIN lists' = DOMAIN lists /\ Len(lists') = Len(lists)
      /\ lists'[src] = lists[src] \ {moved} /\ lists'[t] = {moved}
      /\ \A s \in DOMAIN lists : s # src /\ s # t => lists'[s] = lists[s]
  BY <1>2, <1>5, <1>6 DEF IsTable
<1>8. ASSUME NEW u \in DOMAIN lists' PROVE EnoughFor(u)'
  <2>1. Siblings(u)' = Siblings(u)
    BY <1>6, <1>7 DEF Siblings
  <2>2. src \in Siblings(u) <=> t \in Siblings(u)
    BY <1>5 DEF Siblings
  <2>3. \A s \in Siblings(u) : s \in DOMAIN lists
    BY DEF Siblings
  <2>4. UNION {lists'[s] : s \in Siblings(u)} = UNION {lists[s] : s \in Siblings(u)}
    <3>1. ASSUME NEW s \in Siblings(u), NEW id \in lists[s]
          PROVE  \E r \in Siblings(u) : id \in lists'[r]
      <4>1. CASE s = src /\ id = moved
        BY <1>7, <2>2, <4>1
      <4>2. CASE s = src /\ id # moved
        BY <1>7, <4>2
      <4>3. CASE s # src
        BY <1>5, <1>7, <2>3, <4>3
      <4> QED
        BY <4>1, <4>2, <4>3
    <3>2. ASSUME NEW s \in Siblings(u), NEW id \in lists'[s]
          PROVE  \E r \in Siblings(u) : id \in lists[r]
      <4>1. CASE s = src
        BY <1>7, <3>2, <4>1
      <4>2. CASE s = t
        BY <1>7, <2>2, <3>2, <4>2
      <4>3. CASE s # src /\ s # t
        BY <1>7, <2>3, <3>2, <4>3
      <4> QED
        BY <4>1, <4>2, <4>3
    <3> QED
      BY <3>1, <3>2
  <2>5. EnoughFor(u)
    BY <1>1, <1>7 DEF Filled
  <2> QED
    BY <2>1, <2>4, <2>5 DEF EnoughFor
<1> QED
  BY <1>1, <1>6, <1>7, <1>8 DEF Filled

(* If no empty part can get a vector, then there is no empty part: each of   *)
(* its siblings has at most one, which is too few for all of them.           *)
LEMMA RepairedMeansFilled ==
    ASSUME IInv, Filled, pc = "repair", Hollow = {} PROVE NoneEmpty
<1> SUFFICES ASSUME NEW t \in DOMAIN lists, lists[t] = {} PROVE FALSE
  BY DEF NoneEmpty
<1>1. IsTable(lists, Ids)
  BY WhileWorking DEF Working
<1>2. ntotal \in Nat /\ EnoughFor(t)
  BY DEF Filled
<1> DEFINE Sib == Siblings(t)
           All == UNION {lists[s] : s \in Sib}
<1>3. t \in Sib /\ Sib \subseteq DOMAIN lists
  BY DEF Siblings
<1>4. \A s \in Sib : SizeOf(s) \in Nat /\ SizeOf(s) <= 1 /\ IsFiniteSet(lists[s])
  <2>1. \A s \in Sib : ~(SizeOf(s) > 1)
    BY DEF Hollow
  <2> QED
    BY <1>1, <1>2, <1>3, <2>1, ListSizes
<1>5. ASSUME NEW s \in Sib, NEW x \in lists[s], NEW y \in lists[s] PROVE x = y
  <2>1. SizeOf(s) = 0 \/ SizeOf(s) = 1
    BY <1>4
  <2>2. SizeOf(s) # 0
    BY <1>4, <1>5, FS_EmptySet DEF SizeOf
  <2>3. \E z : lists[s] = {z}
    BY <1>4, <2>1, <2>2, FS_Singleton DEF SizeOf
  <2> QED
    BY <1>5, <2>3
<1>6. IsFiniteSet(Sib)
  <2>1. PICK n \in Nat : DOMAIN lists = 1 .. n
    BY <1>1 DEF IsTable
  <2>2. IsFiniteSet(1 .. n)
    BY FS_Interval
  <2> QED
    BY <1>3, <2>1, <2>2, FS_Subset
<1> DEFINE at == [id \in All |-> CHOOSE s \in Sib : id \in lists[s]]
           Rest == Sib \ {t}
<1>7. ASSUME NEW id \in All PROVE at[id] \in Rest /\ id \in lists[at[id]]
  <2>1. \E s \in Sib : id \in lists[s]
    BY <1>7
  <2>2. at[id] \in Sib /\ id \in lists[at[id]]
    BY <2>1
  <2> QED
    BY <2>2
<1>8. at \in [All -> Rest]
  BY <1>7
<1>9. \A x, y \in All : at[x] = at[y] => x = y
  BY <1>5, <1>7
<1>10. at \in Injection(All, Rest)
  <2> HIDE DEF at
  <2> QED
    BY <1>8, <1>9 DEF Injection, IsInjective
<1>11. IsFiniteSet(Rest) /\ Cardinality(Rest) = Cardinality(Sib) - 1
  BY <1>3, <1>6, FS_RemoveElement
<1>12. Cardinality(Sib) <= Cardinality(All)
  BY <1>2 DEF EnoughFor
<1> HIDE DEF at, Rest, All, Sib
<1>13. IsFiniteSet(All) /\ Cardinality(All) <= Cardinality(Rest)
  BY <1>10, <1>11, FS_Injection
<1>14. Cardinality(Sib) \in Nat /\ Cardinality(All) \in Nat /\ Cardinality(Rest) \in Nat
  BY <1>6, <1>11, <1>13, FS_CardinalityType
<1> QED
  BY <1>11, <1>12, <1>13, <1>14

(* The pass ends when the repair has nothing left to do. *)
LEMMA EndOfPassFills ==
    ASSUME IInv, Filled, end_of_quota_pass PROVE Filled'
<1>1. pc = "repair" /\ Hollow = {}
  BY DEF end_of_quota_pass
<1>2. lists' = lists /\ pc' = "stage1" /\ passes' = passes /\ target' = target /\ ntotal' = ntotal
  BY DEF end_of_quota_pass, Goto, Relist, sizes
<1>3. NoneEmpty
  BY <1>1, RepairedMeansFilled
<1>4. NoneEmpty'
  BY <1>2, <1>3 DEF NoneEmpty
<1> QED
  BY <1>1, <1>2, <1>4 DEF Filled

(* The other steps leave stage 1, or come after it. *)
LEMMA OthersFill ==
    ASSUME Filled, ntotal' = ntotal, pc' \notin {"concat", "compress", "stage1", "repair"}
    PROVE  Filled'
BY DEF Filled

LEMMA ListStepFills == ASSUME IInv, Filled, ListStep PROVE Filled'
<1>1. CASE passes_exhausted
  BY <1>1, OthersFill DEF passes_exhausted, Goto, Relist, sizes
<1>2. CASE split_largest_nonempty_cluster
  BY <1>2, OthersFill DEF split_largest_nonempty_cluster, Relist, Throw, sizes
<1>3. CASE end_of_stage1
  BY <1>3, OthersFill DEF end_of_stage1, Goto, Relist, sizes
<1>4. CASE train_kmeans_centroids_with_init
  BY <1>4, OthersFill DEF train_kmeans_centroids_with_init, Throw, sizes
<1>5. CASE rebuild_lists_from_assign
  BY <1>5, OthersFill DEF rebuild_lists_from_assign, Relist, AfterLists, Throw, sizes
<1>6. CASE sync_ivfdata_to_index
  BY <1>6, OthersFill DEF sync_ivfdata_to_index, Return, Throw, sizes
<1> QED
  BY <1>1, <1>2, <1>3, <1>4, <1>5, <1>6, ConcatFills, CompressFills, ReduceFills,
     QuotaPassFills, RepairFills, EndOfPassFills DEF ListStep

LEMMA FillStays == ASSUME Filled, UNCHANGED vars PROVE Filled'
<1>1. UNCHANGED <<pc, ntotal, target, lists, passes, group>>
  BY DEF vars
<1> QED
  BY <1>1 DEF Filled, NoneEmpty, ListsApart, EnoughFor, Siblings, Ids

(* Encoding and stage 2 come after stage 1. *)
LEMMA FillKept ==
    ASSUME IInv, Filled, [Next]_<<vars, encoding>> PROVE Filled'
<1>1. CASE Step
  <2>1. CASE pc = "encode" /\ (Throw \/ \E new : Return(new))
    BY <2>1, OthersFill DEF Throw, Return, sizes
  <2>2. CASE \E c \in todo : reassign_one_cluster(c)
    BY <2>2, OthersFill DEF reassign_one_cluster, sizes
  <2> QED
    BY <1>1, <2>1, <2>2, EncodingEndsOrStutters, ListStepFills, FillStays
<1>2. CASE UNCHANGED vars
  BY <1>2, FillStays
<1> QED
  BY <1>1, <1>2 DEF Next, Finished

LEMMA FilledAtFirst == Init => Filled
BY DEF Init, Filled

-----------------------------------------------------------------------------
(* The results. *)

LEMMA Invariance == Spec => []EInv
<1>1. MergeInit => EInv
  BY InitEstablishes, EncodersInit DEF EInv, MergeInit
<1>2. EInv /\ [Next]_<<vars, encoding>> => EInv'
  BY ListsPreserved, PlacesPreserved DEF EInv
<1> QED
  BY <1>1, <1>2, PTL DEF Spec

(* For all shards, options and bounds the variables keep their types: the    *)
(* lists always hold ids of the stacked shards, and the labels that the      *)
(* threads write name lists that exist.                                      *)
THEOREM TypeCorrect == Spec => []TypeOK
<1>1. EInv => TypeOK
  BY DEF EInv, IInv
<1> QED
  BY <1>1, Invariance, PTL

(* For all shards, options and bounds, and whatever k-means and the threads  *)
(* do, no step of the merge loses a vector or puts it into two lists.        *)
THEOREM MergePartitions == Spec => []Partition
<1>1. EInv => Partition
  BY DEF EInv, IInv
<1> QED
  BY <1>1, Invariance, PTL

(* For any number of shards, encoded by as many threads that write to shared *)
(* buffers without locks, no two threads fill the same place, and none fills *)
(* a place again.                                                            *)
THEOREM EncodersStayApart == Spec => []EncodersApart
<1>1. EInv => EncodersApart
  BY DEF EInv
<1> QED
  BY <1>1, Invariance, PTL

(* For all shards, options and bounds, no list is empty between two quota     *)
(* passes: a list gets no more parts than it has vectors, and the repair of   *)
(* empty parts ends when each has one.                                        *)
THEOREM SplitsFill == Spec => []SplitsLeaveNoListEmpty
<1>1. MergeInit => EInv /\ Filled
  BY InitEstablishes, EncodersInit, FilledAtFirst DEF EInv, MergeInit
<1>2. (EInv /\ Filled) /\ [Next]_<<vars, encoding>> => (EInv /\ Filled)'
  BY ListsPreserved, PlacesPreserved, FillKept DEF EInv
<1>3. EInv /\ Filled => SplitsLeaveNoListEmpty
  BY DEF EInv, Filled, NoneEmpty, SplitsLeaveNoListEmpty
<1> QED
  BY <1>1, <1>2, <1>3, PTL DEF Spec

===============================================================================

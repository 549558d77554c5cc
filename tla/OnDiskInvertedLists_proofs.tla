----------------------- MODULE OnDiskInvertedLists_proofs -----------------------
(***************************************************************************)
(* Proofs about the space of an OnDiskInvertedLists: about the table of    *)
(* free slots, about its client SlotAllocator, which gives back what it    *)
(* took, and about the inverted lists, which give back less.               *)
(*                                                                         *)
(* Space is reasoned about as sets of bytes.  A table that is in order,    *)
(* with a gap between any two slots, stays so, and each of its operations  *)
(* adds or removes exactly the bytes that it should.                       *)
(***************************************************************************)
EXTENDS OnDiskInvertedLists, SlotAllocator, Sums_proofs, SequenceTheorems

-----------------------------------------------------------------------------
(* Powers of two. *)

(* g has the powers up to the n-th. *)
PowersUpto(n, g) == g = [k \in 0 .. n |-> IF k = 0 THEN 1 ELSE 2 * g[k - 1]]

LEMMA PowersUptoExist == \A n \in Nat : \E g : PowersUpto(n, g)
<1> DEFINE Bad == {n \in Nat : ~ \E g : PowersUpto(n, g)}
<1> SUFFICES ASSUME Bad # {} PROVE FALSE
  OBVIOUS
<1>1. PICK n \in Bad : \A m \in Bad : n <= m
  <2>1. Bad \subseteq Nat
    OBVIOUS
  <2> HIDE DEF Bad
  <2> QED
    BY <2>1, SmallestOf
<1>2. CASE n = 0
  <2> DEFINE g == [k \in 0 .. 0 |-> 1]
  <2>1. PowersUpto(0, g)
    BY DEF PowersUpto
  <2> QED
    BY <1>2, <2>1
<1>3. CASE n # 0
  <2>1. n - 1 \in Nat /\ n - 1 \notin Bad
    BY <1>1, <1>3
  <2>2. PICK g : PowersUpto(n - 1, g)
    BY <2>1
  <2> DEFINE h == [k \in 0 .. n |-> IF k = n THEN 2 * g[n - 1] ELSE g[k]]
  <2>3. ASSUME NEW k \in 0 .. n PROVE h[k] = IF k = 0 THEN 1 ELSE 2 * h[k - 1]
    <3>1. CASE k = n
      BY <1>1, <1>3, <2>1, <3>1
    <3>2. CASE k # n
      <4>1. k \in 0 .. (n - 1)
        BY <2>1, <3>2
      <4>2. g[k] = IF k = 0 THEN 1 ELSE 2 * g[k - 1]
        BY <2>2, <4>1 DEF PowersUpto
      <4>3. k # 0 => k - 1 \in 0 .. n /\ k - 1 # n
        BY <2>1, <4>1
      <4> QED
        BY <3>2, <4>2, <4>3
    <3> QED
      BY <3>1, <3>2
  <2>4. h = [k \in 0 .. n |-> h[k]]
    OBVIOUS
  <2> HIDE DEF h
  <2>5. h = [k \in 0 .. n |-> IF k = 0 THEN 1 ELSE 2 * h[k - 1]]
    BY <2>3, <2>4
  <2> QED
    BY <2>5 DEF PowersUpto
<1> QED
  BY <1>2, <1>3

LEMMA PowersUptoAgree ==
    ASSUME NEW n \in Nat, NEW g, PowersUpto(n, g), NEW m \in Nat, NEW h, PowersUpto(m, h)
    PROVE  \A k \in Nat : k <= n /\ k <= m => g[k] = h[k]
<1> DEFINE Bad == {k \in Nat : k <= n /\ k <= m /\ g[k] # h[k]}
<1> SUFFICES ASSUME Bad # {} PROVE FALSE
  OBVIOUS
<1>1. PICK k \in Bad : \A j \in Bad : k <= j
  <2>1. Bad \subseteq Nat
    OBVIOUS
  <2> HIDE DEF Bad
  <2> QED
    BY <2>1, SmallestOf
<1>2. k \in 0 .. n /\ k \in 0 .. m
  OBVIOUS
<1>3. /\ g[k] = IF k = 0 THEN 1 ELSE 2 * g[k - 1]
      /\ h[k] = IF k = 0 THEN 1 ELSE 2 * h[k - 1]
  BY <1>2 DEF PowersUpto
<1>4. k # 0 => g[k - 1] = h[k - 1]
  <2> SUFFICES ASSUME k # 0 PROVE g[k - 1] = h[k - 1]
    OBVIOUS
  <2>1. k - 1 \in Nat /\ k - 1 \notin Bad
    BY <1>1
  <2> QED
    BY <2>1
<1> QED
  BY <1>3, <1>4

LEMMA PowersAre ==
    /\ Powers[0] = 1
    /\ \A k \in Nat : Powers[k + 1] = 2 * Powers[k]
<1> DEFINE Is(p) == p = [k \in Nat |-> IF k = 0 THEN 1 ELSE 2 * p[k - 1]]
           upto == [k \in Nat |-> CHOOSE g : PowersUpto(k, g)]
           f == [k \in Nat |-> upto[k][k]]
<1>1. \A k \in Nat : PowersUpto(k, upto[k])
  <2> TAKE k \in Nat
  <2>1. \E g : PowersUpto(k, g)
    BY PowersUptoExist
  <2>2. PowersUpto(k, CHOOSE g : PowersUpto(k, g))
    BY <2>1
  <2> QED
    BY <2>2
<1> HIDE DEF upto
<1>2. ASSUME NEW k \in Nat PROVE f[k] = IF k = 0 THEN 1 ELSE 2 * f[k - 1]
  <2>1. upto[k][k] = IF k = 0 THEN 1 ELSE 2 * upto[k][k - 1]
    <3> DEFINE g == upto[k]
    <3>1. PowersUpto(k, g)
      BY <1>1
    <3> HIDE DEF g
    <3>2. k \in 0 .. k
      OBVIOUS
    <3>3. g[k] = IF k = 0 THEN 1 ELSE 2 * g[k - 1]
      BY <3>1, <3>2 DEF PowersUpto
    <3> QED
      BY <3>3 DEF g
  <2>2. CASE k = 0
    BY <2>1, <2>2
  <2>3. CASE k # 0
    <3>1. k - 1 \in Nat /\ k - 1 <= k /\ k - 1 <= k - 1
      BY <2>3
    <3>2. upto[k][k - 1] = upto[k - 1][k - 1]
      BY <1>1, <3>1, PowersUptoAgree
    <3> QED
      BY <2>1, <2>3, <3>1, <3>2
  <2> QED
    BY <2>2, <2>3
<1>3. Is(f)
  <2>1. f = [k \in Nat |-> f[k]]
    OBVIOUS
  <2> HIDE DEF f
  <2> QED
    BY <1>2, <2>1
<1>4. Is(Powers)
  <2>1. \E p : Is(p)
    BY <1>3
  <2>2. Is(CHOOSE p : Is(p))
    BY <2>1
  <2> QED
    BY <2>2 DEF Powers
<1>5. \A k \in Nat : Powers[k] = IF k = 0 THEN 1 ELSE 2 * Powers[k - 1]
  BY <1>4
<1>6. ASSUME NEW k \in Nat PROVE Powers[k + 1] = 2 * Powers[k]
  <2>1. k + 1 \in Nat /\ k + 1 # 0 /\ (k + 1) - 1 = k
    OBVIOUS
  <2> QED
    BY <1>5, <2>1
<1> QED
  BY <1>5, <1>6

(* The k-th power of two is larger than k. *)
LEMMA PowersGrow == \A k \in Nat : Powers[k] \in Nat /\ Powers[k] > k
<1> DEFINE Bad == {k \in Nat : ~(Powers[k] \in Nat /\ Powers[k] > k)}
<1> SUFFICES ASSUME Bad # {} PROVE FALSE
  OBVIOUS
<1>1. PICK k \in Bad : \A j \in Bad : k <= j
  <2>1. Bad \subseteq Nat
    OBVIOUS
  <2> HIDE DEF Bad
  <2> QED
    BY <2>1, SmallestOf
<1>2. CASE k = 0
  BY <1>2, PowersAre
<1>3. CASE k # 0
  <2>1. k - 1 \in Nat /\ k - 1 \notin Bad /\ (k - 1) + 1 = k
    BY <1>1, <1>3
  <2>2. Powers[k - 1] \in Nat /\ Powers[k - 1] > k - 1
    BY <2>1
  <2>3. Powers[k] = 2 * Powers[k - 1]
    BY <2>1, PowersAre
  <2> QED
    BY <2>1, <2>2, <2>3
<1> QED
  BY <1>2, <1>3

(* The first number up to n with a property that n has. *)
LEMMA FirstOf ==
    ASSUME NEW T, T \subseteq Nat, NEW n \in Nat, n \in T
    PROVE  LET k == CHOOSE k \in 0 .. n : k \in T /\ \A j \in 0 .. (k - 1) : ~(j \in T)
           IN  k \in 0 .. n /\ k \in T
<1>1. PICK m \in T : \A j \in T : m <= j
  BY SmallestOf
<1>2. m \in 0 .. n /\ m \in T /\ \A j \in 0 .. (m - 1) : ~(j \in T)
  BY <1>1
<1> QED
  BY <1>2

(* However much is asked for, enough doublings make room for it. *)
LEMMA NewTotsizeFits ==
    ASSUME NEW z \in Nat, NEW n \in Nat \ {0}
    PROVE  NewTotsize(z, n) \in Nat /\ NewTotsize(z, n) - z >= n
<1> DEFINE first == IF z = 0 THEN 32 ELSE z * 2
           T == {k \in Nat : first * Powers[k] - z >= n}
           c == CHOOSE k \in 0 .. n : k \in T /\ \A j \in 0 .. (k - 1) : ~(j \in T)
<1>1. first \in Nat /\ first >= z + 1
  BY DEF first
<1>2. \A k \in Nat : Powers[k] \in Nat /\ first * Powers[k] \in Nat
  BY <1>1, PowersGrow
<1>3. n \in T
  <2>1. Powers[n] \in Nat /\ Powers[n] >= n + 1
    BY PowersGrow
  <2> DEFINE p == Powers[n]
  <2> HIDE DEF first, p
  <2>2. p \in Nat /\ p >= n + 1
    BY <2>1 DEF p
  <2>3. first * p = (z + 1) * (n + 1) + (first - (z + 1)) * (n + 1) + first * (p - (n + 1))
    BY <1>1, <2>2
  <2>4. (first - (z + 1)) * (n + 1) \in Nat /\ first * (p - (n + 1)) \in Nat
    BY <1>1, <2>2
  <2>5. (z + 1) * (n + 1) = z * n + z + n + 1 /\ z * n \in Nat
    OBVIOUS
  <2>6. first * p - z >= n /\ first * p \in Nat
    BY <2>2, <2>3, <2>4, <2>5, <1>1
  <2> QED
    BY <2>6 DEF p
<1>4. T \subseteq Nat
  OBVIOUS
<1>5. c \in 0 .. n /\ c \in T
  <2> HIDE DEF T
  <2> QED
    BY <1>3, <1>4, FirstOf
<1>6. c = CHOOSE k \in 0 .. n : /\ first * Powers[k] - z >= n
                                /\ \A j \in 0 .. (k - 1) : ~(first * Powers[j] - z >= n)
  OBVIOUS
<1>7. NewTotsize(z, n) = first * Powers[c]
  BY <1>6 DEF NewTotsize
<1> HIDE DEF c, first
<1> QED
  BY <1>2, <1>5, <1>7

(* A capacity holds what it was rounded from. *)
LEMMA RoundedCapacityHolds ==
    ASSUME NEW n \in Nat
    PROVE  RoundedCapacity(n) \in Nat /\ RoundedCapacity(n) >= n /\ RoundedCapacity(n) > 0
<1> DEFINE T == {k \in Nat : Powers[k] >= n}
           c == CHOOSE k \in 0 .. n : k \in T /\ \A j \in 0 .. (k - 1) : ~(j \in T)
<1>1. n \in T /\ T \subseteq Nat
  BY PowersGrow
<1>2. c \in 0 .. n /\ c \in T
  <2> HIDE DEF T
  <2> QED
    BY <1>1, FirstOf
<1>3. \A k \in 0 .. n : /\ k \in T <=> Powers[k] >= n
                        /\ \A j \in 0 .. (k - 1) : ~(j \in T) <=> Powers[j] < n
  BY PowersGrow
<1>4. c = CHOOSE k \in 0 .. n : Powers[k] >= n /\ \A j \in 0 .. (k - 1) : Powers[j] < n
  <2> HIDE DEF T
  <2>1. \A k : k \in 0 .. n /\ (k \in T /\ \A j \in 0 .. (k - 1) : ~(j \in T))
           <=> k \in 0 .. n /\ (Powers[k] >= n /\ \A j \in 0 .. (k - 1) : Powers[j] < n)
    BY <1>3
  <2> QED
    BY <2>1
<1>5. RoundedCapacity(n) = Powers[c]
  BY <1>4 DEF RoundedCapacity
<1> HIDE DEF c
<1> QED
  BY <1>2, <1>5, PowersGrow

-----------------------------------------------------------------------------
(* Sequences with an element more or less. *)

LEMMA Removed ==
    ASSUME NEW S, NEW t \in Seq(S), NEW i \in 1 .. Len(t)
    PROVE  /\ RemoveAt(t, i) \in Seq(S)
           /\ Len(RemoveAt(t, i)) = Len(t) - 1
           /\ \A j \in 1 .. (Len(t) - 1) : RemoveAt(t, i)[j] = IF j < i THEN t[j] ELSE t[j + 1]
<1> DEFINE a == SubSeq(t, 1, i - 1)
           b == SubSeq(t, i + 1, Len(t))
           n == Len(t)
<1>1. n \in Nat /\ i \in 1 .. n /\ \A j \in 1 .. n : t[j] \in S
  OBVIOUS
<1>2. a \in Seq(S) /\ Len(a) = i - 1 /\ \A j \in 1 .. (i - 1) : a[j] = t[j]
  <2>1. 1 \in Int /\ i - 1 \in Int /\ \A j \in 1 .. (i - 1) : t[j] \in S
    BY <1>1
  <2>2. (i - 1) - 1 + 1 = i - 1 /\ \A j \in 1 .. (i - 1) : 1 + j - 1 = j
    BY <1>1
  <2> QED
    BY <1>1, <2>1, <2>2, SubSeqProperties
<1>3. b \in Seq(S) /\ Len(b) = n - i /\ \A j \in 1 .. (n - i) : b[j] = t[i + j]
  <2>1. i + 1 \in Int /\ n \in Int /\ \A j \in (i + 1) .. n : t[j] \in S
    BY <1>1
  <2>2. n - (i + 1) + 1 = n - i /\ \A j \in 1 .. (n - i) : (i + 1) + j - 1 = i + j
    BY <1>1
  <2>3. IF i + 1 <= n THEN n - (i + 1) + 1 = n - i ELSE n - i = 0
    BY <1>1
  <2>4. /\ b \in Seq(S)
        /\ Len(b) = IF i + 1 <= n THEN n - (i + 1) + 1 ELSE 0
        /\ \A j \in 1 .. (n - (i + 1) + 1) : b[j] = t[(i + 1) + j - 1]
    BY <2>1, SubSeqProperties
  <2>5. Len(b) = n - i
    BY <2>3, <2>4
  <2>6. \A j \in 1 .. (n - i) : b[j] = t[i + j]
    BY <2>2, <2>4
  <2> QED
    BY <2>4, <2>5, <2>6
<1>4. RemoveAt(t, i) = a \o b
  BY DEF RemoveAt
<1> HIDE DEF a, b, n
<1>5. /\ a \o b \in Seq(S) /\ Len(a \o b) = Len(a) + Len(b)
      /\ \A j \in 1 .. (Len(a) + Len(b)) :
            (a \o b)[j] = IF j <= Len(a) THEN a[j] ELSE b[j - Len(a)]
  BY <1>2, <1>3, ConcatProperties
<1>6. ASSUME NEW j \in 1 .. (n - 1) PROVE (a \o b)[j] = IF j < i THEN t[j] ELSE t[j + 1]
  <2>1. j \in 1 .. (Len(a) + Len(b))
    BY <1>1, <1>2, <1>3
  <2>2. CASE j < i
    BY <1>1, <1>2, <1>5, <2>1, <2>2
  <2>3. CASE ~(j < i)
    <3>1. j - (i - 1) \in 1 .. (n - i) /\ i + (j - (i - 1)) = j + 1 /\ ~(j <= i - 1)
      BY <1>1, <2>3
    <3> QED
      BY <1>2, <1>3, <1>5, <2>1, <2>3, <3>1
  <2> QED
    BY <2>2, <2>3
<1>7. Len(a \o b) = n - 1
  BY <1>1, <1>2, <1>3, <1>5
<1> QED
  BY <1>4, <1>5, <1>6, <1>7 DEF n

LEMMA Inserted ==
    ASSUME NEW S, NEW t \in Seq(S), NEW i \in 1 .. (Len(t) + 1), NEW e \in S
    PROVE  /\ InsertAt(t, i, e) \in Seq(S)
           /\ Len(InsertAt(t, i, e)) = Len(t) + 1
           /\ \A j \in 1 .. (Len(t) + 1) :
                 InsertAt(t, i, e)[j] = IF j < i THEN t[j] ELSE IF j = i THEN e ELSE t[j - 1]
<1> DEFINE a == SubSeq(t, 1, i - 1)
           b == SubSeq(t, i, Len(t))
           c == <<e>>
           n == Len(t)
<1>1. n \in Nat /\ i \in 1 .. (n + 1) /\ \A j \in 1 .. n : t[j] \in S
  OBVIOUS
<1>2. a \in Seq(S) /\ Len(a) = i - 1 /\ \A j \in 1 .. (i - 1) : a[j] = t[j]
  <2>1. 1 \in Int /\ i - 1 \in Int /\ \A j \in 1 .. (i - 1) : t[j] \in S
    BY <1>1
  <2>2. (i - 1) - 1 + 1 = i - 1 /\ \A j \in 1 .. (i - 1) : 1 + j - 1 = j
    BY <1>1
  <2>3. 1 <= (i - 1) + 1
    BY <1>1
  <2> QED
    BY <1>1, <2>1, <2>2, <2>3, SubSeqProperties
<1>3. b \in Seq(S) /\ Len(b) = n - i + 1 /\ \A j \in 1 .. (n - i + 1) : b[j] = t[i + j - 1]
  <2>1. i \in Int /\ n \in Int /\ \A j \in i .. n : t[j] \in S
    BY <1>1
  <2>2. i <= n + 1
    BY <1>1
  <2> QED
    BY <1>1, <2>1, <2>2, SubSeqProperties
<1>4. InsertAt(t, i, e) = (a \o c) \o b
  BY DEF InsertAt
<1>5. c \in Seq(S) /\ Len(c) = 1 /\ c[1] = e
  OBVIOUS
<1> HIDE DEF a, b, c, n
<1>6. /\ a \o c \in Seq(S) /\ Len(a \o c) = Len(a) + Len(c)
      /\ \A j \in 1 .. (Len(a) + Len(c)) :
            (a \o c)[j] = IF j <= Len(a) THEN a[j] ELSE c[j - Len(a)]
  BY <1>2, <1>5, ConcatProperties
<1> DEFINE d == a \o c
<1>7. d \in Seq(S) /\ Len(d) = i
  BY <1>1, <1>2, <1>5, <1>6
<1>8. \A j \in 1 .. i : d[j] = IF j < i THEN t[j] ELSE e
  <2> TAKE j \in 1 .. i
  <2>1. j \in 1 .. (Len(a) + Len(c))
    BY <1>1, <1>2, <1>5
  <2>2. CASE j < i
    BY <1>1, <1>2, <1>6, <2>1, <2>2
  <2>3. CASE ~(j < i)
    <3>1. j = i /\ j - Len(a) = 1 /\ ~(j <= Len(a))
      BY <1>1, <1>2, <2>3
    <3> QED
      BY <1>5, <1>6, <2>1, <2>3, <3>1
  <2> QED
    BY <2>2, <2>3
<1> HIDE DEF d
<1>9. /\ d \o b \in Seq(S) /\ Len(d \o b) = Len(d) + Len(b)
      /\ \A j \in 1 .. (Len(d) + Len(b)) :
            (d \o b)[j] = IF j <= Len(d) THEN d[j] ELSE b[j - Len(d)]
  BY <1>3, <1>7, ConcatProperties
<1>10. ASSUME NEW j \in 1 .. (n + 1)
       PROVE  (d \o b)[j] = IF j < i THEN t[j] ELSE IF j = i THEN e ELSE t[j - 1]
  <2>1. j \in 1 .. (Len(d) + Len(b))
    BY <1>1, <1>3, <1>7
  <2>2. CASE j <= i
    <3>1. j \in 1 .. i
      BY <1>1, <2>2
    <3> QED
      BY <1>1, <1>7, <1>8, <1>9, <2>1, <2>2, <3>1
  <2>3. CASE ~(j <= i)
    <3>1. j - i \in 1 .. (n - i + 1) /\ i + (j - i) - 1 = j - 1 /\ ~(j < i) /\ j # i
      BY <1>1, <2>3
    <3> QED
      BY <1>3, <1>7, <1>9, <2>1, <2>3, <3>1
  <2> QED
    BY <2>2, <2>3
<1>11. Len(d \o b) = n + 1
  BY <1>1, <1>3, <1>7, <1>9
<1>12. InsertAt(t, i, e) = d \o b
  BY <1>4 DEF d
<1> QED
  BY <1>9, <1>10, <1>11, <1>12 DEF n

-----------------------------------------------------------------------------
(* Tables of free slots. *)

FreeSlots == [offset : Nat, capacity : Nat \ {0}]

InOrder(t) == \A i, j \in DOMAIN t : i < j => SlotEnd(t[i]) < t[j].offset

FreeBytes(t) == {b \in Nat : \E i \in DOMAIN t : t[i].offset <= b /\ b < SlotEnd(t[i])}

Stretch(from, n) == from .. (from + n - 1)

LEMMA SlotNumbers ==
    ASSUME NEW t \in Seq(FreeSlots)
    PROVE  /\ Len(t) \in Nat /\ DOMAIN t = 1 .. Len(t)
           /\ \A i \in 1 .. Len(t) :
                 /\ t[i] \in FreeSlots
                 /\ t[i].offset \in Nat /\ t[i].capacity \in Nat /\ t[i].capacity > 0
                 /\ SlotEnd(t[i]) = t[i].offset + t[i].capacity
                 /\ SlotEnd(t[i]) \in Nat
<1>1. Len(t) \in Nat /\ DOMAIN t = 1 .. Len(t) /\ \A i \in 1 .. Len(t) : t[i] \in FreeSlots
  OBVIOUS
<1>2. ASSUME NEW s \in FreeSlots
      PROVE  /\ s.offset \in Nat /\ s.capacity \in Nat /\ s.capacity > 0
             /\ SlotEnd(s) = s.offset + s.capacity /\ SlotEnd(s) \in Nat
  BY DEF FreeSlots, SlotEnd
<1> QED
  BY <1>1, <1>2

LEMMA SlotMade ==
    ASSUME NEW o \in Nat, NEW c \in Nat, c > 0
    PROVE  /\ Slot(o, c) \in FreeSlots /\ SlotEnd(Slot(o, c)) = o + c
           /\ Slot(o, c).offset = o /\ Slot(o, c).capacity = c
BY DEF Slot, FreeSlots, SlotEnd

(* A table with one slot replaced. *)
LEMMA SlotReplaced ==
    ASSUME NEW t \in Seq(FreeSlots), NEW i \in 1 .. Len(t), NEW e \in FreeSlots,
           NEW u, u = [t EXCEPT ![i] = e]
    PROVE  /\ u \in Seq(FreeSlots) /\ Len(u) = Len(t)
           /\ \A j \in 1 .. Len(t) : u[j] = IF j = i THEN e ELSE t[j]
<1>1. t \in [1 .. Len(t) -> FreeSlots] /\ Len(t) \in Nat
  OBVIOUS
<1>2. u \in [1 .. Len(t) -> FreeSlots]
  BY <1>1
<1> QED
  BY <1>1, <1>2

(* What slot i of a table becomes when n bytes are taken from it. *)
LEMMA TakeCases ==
    ASSUME NEW t \in Seq(FreeSlots), NEW i \in 1 .. Len(t), NEW n \in Nat \ {0},
           t[i].capacity >= n, NEW u, u = TakeFrom(t, i, n)
    PROVE  /\ u \in Seq(FreeSlots)
           /\ \/ /\ t[i].capacity = n /\ Len(u) = Len(t) - 1
                 /\ \A j \in 1 .. (Len(t) - 1) : u[j] = IF j < i THEN t[j] ELSE t[j + 1]
              \/ /\ t[i].capacity > n /\ Len(u) = Len(t)
                 /\ u[i].offset = t[i].offset + n /\ SlotEnd(u[i]) = SlotEnd(t[i])
                 /\ \A j \in 1 .. Len(t) : j # i => u[j] = t[j]
<1>1. t[i] \in FreeSlots /\ t[i].offset \in Nat /\ t[i].capacity \in Nat
      /\ SlotEnd(t[i]) = t[i].offset + t[i].capacity
  BY SlotNumbers
<1>2. CASE t[i].capacity = n
  <2>1. u = RemoveAt(t, i)
    BY <1>2 DEF TakeFrom
  <2> QED
    BY <1>2, <2>1, Removed
<1>3. CASE t[i].capacity # n
  <2> DEFINE e == Slot(t[i].offset + n, t[i].capacity - n)
  <2>1. t[i].offset + n \in Nat /\ t[i].capacity - n \in Nat /\ t[i].capacity - n > 0
    BY <1>1, <1>3
  <2>2. e \in FreeSlots /\ e.offset = t[i].offset + n
        /\ SlotEnd(e) = (t[i].offset + n) + (t[i].capacity - n)
    BY <2>1, SlotMade
  <2>3. u = [t EXCEPT ![i] = e]
    BY <1>3 DEF TakeFrom
  <2> HIDE DEF e
  <2>4. /\ u \in Seq(FreeSlots) /\ Len(u) = Len(t)
        /\ \A j \in 1 .. Len(t) : u[j] = IF j = i THEN e ELSE t[j]
    BY <2>2, <2>3, SlotReplaced
  <2>5. t[i].capacity > n
    BY <1>1, <1>3
  <2>6. u[i].offset = t[i].offset + n
    BY <2>2, <2>4
  <2>7. SlotEnd(u[i]) = SlotEnd(t[i])
    <3>1. (t[i].offset + n) + (t[i].capacity - n) = t[i].offset + t[i].capacity
      BY <1>1
    <3>2. u[i] = e
      BY <2>4
    <3> QED
      BY <1>1, <2>2, <3>1, <3>2
  <2> QED
    BY <2>4, <2>5, <2>6, <2>7
<1> QED
  BY <1>2, <1>3

(* Taking from the beginning of a slot takes those bytes and no others. *)
LEMMA TakeRight ==
    ASSUME NEW t \in Seq(FreeSlots), InOrder(t), NEW i \in 1 .. Len(t), NEW n \in Nat \ {0},
           t[i].capacity >= n, NEW u, u = TakeFrom(t, i, n)
    PROVE  /\ InOrder(u)
           /\ Stretch(t[i].offset, n) \subseteq FreeBytes(t)
           /\ FreeBytes(u) = FreeBytes(t) \ Stretch(t[i].offset, n)
<1>1. /\ Len(t) \in Nat /\ DOMAIN t = 1 .. Len(t)
      /\ \A j \in 1 .. Len(t) : /\ t[j].offset \in Nat /\ SlotEnd(t[j]) \in Nat
                                /\ t[j].capacity \in Nat
                                /\ t[j].offset < SlotEnd(t[j])
                                /\ SlotEnd(t[j]) = t[j].offset + t[j].capacity
  BY SlotNumbers
<1>2. \A j, k \in 1 .. Len(t) : j < k => SlotEnd(t[j]) < t[k].offset
  BY <1>1 DEF InOrder
<1>3. u \in Seq(FreeSlots)
  BY TakeCases
<1>4. DOMAIN u = 1 .. Len(u)
      /\ \A j \in 1 .. Len(u) : u[j].offset \in Nat /\ SlotEnd(u[j]) \in Nat
  BY <1>3, SlotNumbers
<1>5. Stretch(t[i].offset, n) \subseteq FreeBytes(t)
  <2>1. ASSUME NEW b \in Stretch(t[i].offset, n)
        PROVE  b \in Nat /\ t[i].offset <= b /\ b < SlotEnd(t[i])
    BY <1>1 DEF Stretch
  <2> QED
    BY <1>1, <2>1 DEF FreeBytes
<1>6. CASE /\ t[i].capacity = n /\ Len(u) = Len(t) - 1
           /\ \A j \in 1 .. (Len(t) - 1) : u[j] = IF j < i THEN t[j] ELSE t[j + 1]
  <2>1. InOrder(u)
    <3> SUFFICES ASSUME NEW j \in 1 .. (Len(t) - 1), NEW k \in 1 .. (Len(t) - 1), j < k
                 PROVE  SlotEnd(u[j]) < u[k].offset
      BY <1>4, <1>6 DEF InOrder
    <3>1. PICK x \in 1 .. Len(t) : u[j] = t[x] /\ x = IF j < i THEN j ELSE j + 1
      BY <1>1, <1>6
    <3>2. PICK y \in 1 .. Len(t) : u[k] = t[y] /\ y = IF k < i THEN k ELSE k + 1
      <4>1. (IF k < i THEN k ELSE k + 1) \in 1 .. Len(t)
        BY <1>1
      <4> QED
        BY <1>6, <4>1
    <3>3. x < y
      BY <3>1, <3>2
    <3> QED
      BY <1>2, <3>1, <3>2, <3>3
  <2>2. ASSUME NEW b \in FreeBytes(u) PROVE b \in FreeBytes(t) \ Stretch(t[i].offset, n)
    <3>1. PICK j \in 1 .. (Len(t) - 1) : b \in Nat /\ u[j].offset <= b /\ b < SlotEnd(u[j])
      BY <1>4, <1>6 DEF FreeBytes
    <3>2. PICK x \in 1 .. Len(t) : u[j] = t[x] /\ x = IF j < i THEN j ELSE j + 1
      BY <1>1, <1>6
    <3>3. x < i \/ i < x
      BY <3>2
    <3>4. ~(t[i].offset <= b /\ b <= t[i].offset + n - 1)
      <4>1. SlotEnd(t[i]) = t[i].offset + n
        BY <1>1, <1>6
      <4>2. CASE x < i
        BY <1>1, <1>2, <3>1, <3>2, <4>1, <4>2
      <4>3. CASE i < x
        BY <1>1, <1>2, <3>1, <3>2, <4>1, <4>3, SMTT(40)
      <4> QED
        BY <3>3, <4>2, <4>3
    <3>5. b \in FreeBytes(t)
      BY <1>1, <3>1, <3>2 DEF FreeBytes
    <3> QED
      BY <3>1, <3>4, <3>5 DEF Stretch
  <2>3. ASSUME NEW b \in FreeBytes(t) \ Stretch(t[i].offset, n) PROVE b \in FreeBytes(u)
    <3>1. PICK x \in 1 .. Len(t) : b \in Nat /\ t[x].offset <= b /\ b < SlotEnd(t[x])
      BY <1>1 DEF FreeBytes
    <3>2. x # i
      BY <1>1, <1>6, <2>3, <3>1 DEF Stretch
    <3>3. PICK j \in 1 .. (Len(t) - 1) : u[j] = t[x]
      <4>1. CASE x < i
        BY <1>1, <1>6, <4>1, SMTT(40)
      <4>2. CASE i < x
        <5>1. x - 1 \in 1 .. (Len(t) - 1) /\ ~(x - 1 < i) /\ (x - 1) + 1 = x
          BY <1>1, <4>2
        <5> QED
          BY <1>6, <5>1
      <4> QED
        BY <3>2, <4>1, <4>2
    <3> QED
      BY <1>4, <1>6, <3>1, <3>3 DEF FreeBytes
  <2> QED
    BY <1>5, <2>1, <2>2, <2>3
<1>7. CASE /\ t[i].capacity > n /\ Len(u) = Len(t)
           /\ u[i].offset = t[i].offset + n /\ SlotEnd(u[i]) = SlotEnd(t[i])
           /\ \A j \in 1 .. Len(t) : j # i => u[j] = t[j]
  <2>0. \A j \in 1 .. Len(t) : /\ SlotEnd(u[j]) = SlotEnd(t[j])
                               /\ u[j].offset = IF j = i THEN t[i].offset + n ELSE t[j].offset
    BY <1>7
  <2>1. InOrder(u)
    <3> SUFFICES ASSUME NEW j \in 1 .. Len(t), NEW k \in 1 .. Len(t), j < k
                 PROVE  SlotEnd(u[j]) < u[k].offset
      BY <1>4, <1>7 DEF InOrder
    <3>1. SlotEnd(t[j]) < t[k].offset
      BY <1>2
    <3> QED
      BY <1>1, <2>0, <3>1
  <2>2. ASSUME NEW b \in FreeBytes(u) PROVE b \in FreeBytes(t) \ Stretch(t[i].offset, n)
    <3>1. PICK j \in 1 .. Len(t) : b \in Nat /\ u[j].offset <= b /\ b < SlotEnd(u[j])
      BY <1>4, <1>7 DEF FreeBytes
    <3>2. t[j].offset <= b /\ b < SlotEnd(t[j])
      BY <1>1, <2>0, <3>1, SMTT(40)
    <3>3. ~(t[i].offset <= b /\ b <= t[i].offset + n - 1)
      <4>1. CASE j = i
        BY <1>1, <2>0, <3>1, <4>1
      <4>2. CASE j < i
        BY <1>1, <1>2, <3>1, <3>2, <4>2
      <4>3. CASE i < j
        BY <1>1, <1>2, <1>7, <3>1, <3>2, <4>3, SMTT(40)
      <4> QED
        BY <4>1, <4>2, <4>3
    <3> QED
      BY <1>1, <3>1, <3>2, <3>3, SMTT(40) DEF FreeBytes, Stretch
  <2>3. ASSUME NEW b \in FreeBytes(t) \ Stretch(t[i].offset, n) PROVE b \in FreeBytes(u)
    <3>1. PICK j \in 1 .. Len(t) : b \in Nat /\ t[j].offset <= b /\ b < SlotEnd(t[j])
      BY <1>1 DEF FreeBytes
    <3>2. j = i => t[i].offset + n <= b
      BY <1>1, <2>3, <3>1 DEF Stretch
    <3> QED
      BY <1>4, <1>7, <2>0, <3>1, <3>2 DEF FreeBytes
  <2> QED
    BY <1>5, <2>1, <2>2, <2>3
<1> QED
  BY <1>6, <1>7, TakeCases

(* New bytes at the end of the file go to the last slot or to a new one. *)
LEMMA SpaceAdded ==
    ASSUME NEW t \in Seq(FreeSlots), NEW z \in Nat, NEW y \in Nat, z < y,
           NEW u, u = AddSpace(t, z, y)
    PROVE  /\ u \in Seq(FreeSlots)
           /\ \E i \in 1 .. Len(u) : u[i].capacity >= y - z
           /\ InOrder(t) /\ FreeBytes(t) \subseteq 0 .. (z - 1) =>
                 InOrder(u) /\ FreeBytes(u) = FreeBytes(t) \union (z .. (y - 1))
<1> DEFINE m == Len(t)
<1>1. /\ m \in Nat /\ DOMAIN t = 1 .. m
      /\ \A j \in 1 .. m : /\ t[j] \in FreeSlots
                           /\ t[j].offset \in Nat /\ SlotEnd(t[j]) \in Nat
                           /\ t[j].capacity \in Nat
                           /\ t[j].offset < SlotEnd(t[j])
                           /\ SlotEnd(t[j]) = t[j].offset + t[j].capacity
  BY SlotNumbers
<1> HIDE DEF m
<1>b. FreeBytes(t) \subseteq 0 .. (z - 1) => \A j \in 1 .. m : SlotEnd(t[j]) <= z
  <2> SUFFICES ASSUME FreeBytes(t) \subseteq 0 .. (z - 1), NEW j \in 1 .. m
               PROVE  SlotEnd(t[j]) <= z
    OBVIOUS
  <2> DEFINE b == SlotEnd(t[j]) - 1
  <2>1. b \in Nat /\ t[j].offset <= b /\ b < SlotEnd(t[j])
    BY <1>1
  <2>2. b \in FreeBytes(t)
    BY <1>1, <2>1 DEF FreeBytes
  <2>3. b \in 0 .. (z - 1)
    BY <2>2
  <2> QED
    BY <1>1, <2>3
<1>o. InOrder(t) <=> \A j, k \in 1 .. m : j < k => SlotEnd(t[j]) < t[k].offset
  BY <1>1 DEF InOrder
<1>2. CASE t # <<>> /\ SlotEnd(Last(t)) = z
  <2> DEFINE e == Slot(t[m].offset, t[m].capacity + (y - z))
  <2>1. m \in 1 .. m /\ SlotEnd(t[m]) = z
    BY <1>2 DEF m, Last
  <2>2. t[m].capacity + (y - z) \in Nat /\ t[m].capacity + (y - z) > 0
    BY <1>1, <2>1
  <2>3. e \in FreeSlots /\ e.offset = t[m].offset /\ e.capacity = t[m].capacity + (y - z)
        /\ SlotEnd(e) = t[m].offset + (t[m].capacity + (y - z))
    BY <1>1, <2>1, <2>2, SlotMade
  <2>4. SlotEnd(e) = y
    BY <1>1, <2>1, <2>3, SMTT(40)
  <2>5. u = [t EXCEPT ![m] = e]
    <3>1. [t[m] EXCEPT !.capacity = @ + (y - z)] = e
      BY <1>1, <2>1 DEF Slot, FreeSlots
    <3>2. u = [t EXCEPT ![m].capacity = @ + (y - z)]
      BY <1>2 DEF AddSpace, m
    <3> QED
      BY <3>1, <3>2
  <2> HIDE DEF e
  <2>6. /\ u \in Seq(FreeSlots) /\ Len(u) = m
        /\ \A j \in 1 .. m : u[j] = IF j = m THEN e ELSE t[j]
    BY <2>1, <2>3, <2>5, SlotReplaced DEF m
  <2>7. DOMAIN u = 1 .. m
    BY <2>6
  <2>8. u[m].capacity >= y - z
    BY <1>1, <2>1, <2>3, <2>6
  <2>9. ASSUME InOrder(t) PROVE InOrder(u)
    <3> SUFFICES ASSUME NEW j \in 1 .. m, NEW k \in 1 .. m, j < k
                 PROVE  SlotEnd(u[j]) < u[k].offset
      BY <2>7 DEF InOrder
    <3>1. SlotEnd(t[j]) < t[k].offset
      BY <1>o, <2>9
    <3>2. u[j] = t[j] /\ u[k].offset = t[k].offset
      BY <1>1, <2>3, <2>6, SMTT(40)
    <3> QED
      BY <3>1, <3>2
  <2>10. ASSUME FreeBytes(t) \subseteq 0 .. (z - 1), NEW b \in FreeBytes(u)
         PROVE  b \in FreeBytes(t) \union (z .. (y - 1))
    <3>1. PICK j \in 1 .. m : b \in Nat /\ u[j].offset <= b /\ b < SlotEnd(u[j])
      BY <2>7 DEF FreeBytes
    <3>2. CASE j = m
      <4>1. b < y /\ t[m].offset <= b
        BY <2>1, <2>3, <2>4, <2>6, <3>1, <3>2
      <4>2. CASE b < z
        <5>1. b \in FreeBytes(t)
          BY <1>1, <2>1, <3>1, <4>1, <4>2 DEF FreeBytes
        <5> QED
          BY <5>1
      <4>3. CASE ~(b < z)
        BY <3>1, <4>1, <4>3
      <4> QED
        BY <4>2, <4>3
    <3>3. CASE j # m
      <4>1. b \in FreeBytes(t)
        BY <1>1, <2>6, <3>1, <3>3 DEF FreeBytes
      <4> QED
        BY <4>1
    <3> QED
      BY <3>2, <3>3
  <2>11. ASSUME NEW b \in FreeBytes(t) PROVE b \in FreeBytes(u)
    <3>1. PICK j \in 1 .. m : b \in Nat /\ t[j].offset <= b /\ b < SlotEnd(t[j])
      BY <1>1 DEF FreeBytes
    <3>2. u[j].offset <= b /\ b < SlotEnd(u[j])
      BY <1>1, <2>1, <2>3, <2>4, <2>6, <3>1, SMTT(40)
    <3> QED
      BY <2>7, <3>1, <3>2 DEF FreeBytes
  <2>12. ASSUME NEW b \in z .. (y - 1) PROVE b \in FreeBytes(u)
    <3>1. u[m].offset <= b /\ b < SlotEnd(u[m]) /\ b \in Nat
      BY <1>1, <2>1, <2>3, <2>4, <2>6
    <3> QED
      BY <2>1, <2>7, <3>1 DEF FreeBytes
  <2> QED
    BY <2>1, <2>6, <2>8, <2>9, <2>10, <2>11, <2>12
<1>3. CASE ~(t # <<>> /\ SlotEnd(Last(t)) = z)
  <2> DEFINE e == Slot(z, y - z)
  <2>1. y - z \in Nat /\ y - z > 0
    OBVIOUS
  <2>2. e \in FreeSlots /\ e.offset = z /\ e.capacity = y - z /\ SlotEnd(e) = z + (y - z)
    BY <2>1, SlotMade
  <2>3. SlotEnd(e) = y
    BY <2>2
  <2>4. u = Append(t, e)
    BY <1>3 DEF AddSpace
  <2> HIDE DEF e
  <2>5. /\ u \in Seq(FreeSlots) /\ Len(u) = m + 1 /\ DOMAIN u = 1 .. (m + 1)
        /\ u[m + 1] = e /\ \A j \in 1 .. m : u[j] = t[j]
    BY <2>2, <2>4 DEF m
  <2>6. m + 1 \in 1 .. Len(u) /\ u[m + 1].capacity >= y - z
    BY <1>1, <2>1, <2>2, <2>5
  <2>7. ASSUME InOrder(t), FreeBytes(t) \subseteq 0 .. (z - 1) PROVE InOrder(u)
    <3> SUFFICES ASSUME NEW j \in 1 .. (m + 1), NEW k \in 1 .. (m + 1), j < k
                 PROVE  SlotEnd(u[j]) < u[k].offset
      BY <2>5 DEF InOrder
    <3>1. j \in 1 .. m /\ u[j] = t[j]
      BY <1>1, <2>5
    <3>2. CASE k \in 1 .. m
      BY <1>o, <2>5, <2>7, <3>1, <3>2
    <3>3. CASE k = m + 1
      <4>1. SlotEnd(t[j]) <= z
        BY <1>b, <2>7, <3>1
      <4>2. SlotEnd(t[j]) # z
        <5>1. CASE j = m
          <6>1. t # <<>> /\ Last(t) = t[m]
            BY <3>1 DEF m, Last
          <6> QED
            BY <1>3, <5>1, <6>1
        <5>2. CASE j # m
          <6>1. m \in 1 .. m /\ j < m
            BY <1>1, <3>1, <5>2
          <6>2. SlotEnd(t[j]) < t[m].offset /\ SlotEnd(t[m]) <= z
            BY <1>b, <1>o, <2>7, <3>1, <6>1
          <6> QED
            BY <1>1, <3>1, <6>1, <6>2
        <5> QED
          BY <5>1, <5>2
      <4> QED
        BY <1>1, <2>2, <2>5, <3>1, <3>3, <4>1, <4>2
    <3> QED
      BY <1>1, <3>2, <3>3
  <2>8. ASSUME NEW b \in FreeBytes(u) PROVE b \in FreeBytes(t) \union (z .. (y - 1))
    <3>1. PICK j \in 1 .. (m + 1) : b \in Nat /\ u[j].offset <= b /\ b < SlotEnd(u[j])
      BY <2>5 DEF FreeBytes
    <3>2. CASE j = m + 1
      BY <2>2, <2>3, <2>5, <3>1, <3>2
    <3>3. CASE j # m + 1
      <4>1. j \in 1 .. m
        BY <1>1, <3>1, <3>3
      <4>2. b \in FreeBytes(t)
        BY <1>1, <2>5, <3>1, <4>1 DEF FreeBytes
      <4> QED
        BY <4>2
    <3> QED
      BY <3>2, <3>3
  <2>9. ASSUME NEW b \in FreeBytes(t) PROVE b \in FreeBytes(u)
    <3>1. PICK j \in 1 .. m : b \in Nat /\ t[j].offset <= b /\ b < SlotEnd(t[j])
      BY <1>1 DEF FreeBytes
    <3>2. j \in 1 .. (m + 1) /\ u[j] = t[j]
      BY <1>1, <2>5
    <3> QED
      BY <2>5, <3>1, <3>2 DEF FreeBytes
  <2>10. ASSUME NEW b \in z .. (y - 1) PROVE b \in FreeBytes(u)
    <3>1. u[m + 1].offset <= b /\ b < SlotEnd(u[m + 1]) /\ b \in Nat /\ m + 1 \in 1 .. (m + 1)
      BY <1>1, <2>2, <2>3, <2>5
    <3> QED
      BY <2>5, <3>1 DEF FreeBytes
  <2> QED
    BY <2>5, <2>6, <2>7, <2>8, <2>9, <2>10
<1> QED
  BY <1>2, <1>3

(* The smallest number of a set. *)
LEMMA MinOf ==
    ASSUME NEW T, T \subseteq Nat, T # {}
    PROVE  Min(T) \in T /\ \A n \in T : Min(T) <= n
<1>1. \E n \in T : \A m \in T : n <= m
  BY SmallestOf
<1> QED
  BY <1>1 DEF Min

(* Of the numbers 1 .. n, a set that has all smaller ones is a beginning. *)
LEMMA Beginning ==
    ASSUME NEW n \in Nat, NEW A, A \subseteq 1 .. n,
           \A i \in A : \A j \in 1 .. n : j <= i => j \in A
    PROVE  Cardinality(A) \in 0 .. n /\ A = 1 .. Cardinality(A)
<1>1. \A m \in 0 .. n : Cardinality(1 .. m) = m
  <2> TAKE m \in 0 .. n
  <2>1. m \in Int /\ 1 \in Int
    OBVIOUS
  <2>2. Cardinality(1 .. m) = IF 1 > m THEN 0 ELSE m - 1 + 1
    BY <2>1, FS_Interval
  <2> QED
    BY <2>2
<1>2. CASE A = 1 .. n
  BY <1>1, <1>2
<1>3. CASE A # 1 .. n
  <2> DEFINE rest == (1 .. n) \ A
  <2>1. rest \subseteq Nat /\ rest # {}
    <3>1. PICK i \in 1 .. n : i \notin A
      BY <1>3
    <3>2. i \in rest
      BY <3>1
    <3> QED
      BY <3>2
  <2>2. PICK m \in rest : \A k \in rest : m <= k
    <3> HIDE DEF rest
    <3> QED
      BY <2>1, SmallestOf
  <2>3. A \subseteq 1 .. (m - 1)
    <3> SUFFICES ASSUME NEW i \in A PROVE i \in 1 .. (m - 1)
      OBVIOUS
    <3>1. ~(m <= i)
      BY <2>2
    <3> QED
      BY <2>2, <3>1
  <2>4. 1 .. (m - 1) \subseteq A
    <3> SUFFICES ASSUME NEW i \in 1 .. (m - 1) PROVE i \in A
      OBVIOUS
    <3>1. i \in 1 .. n /\ ~(m <= i)
      BY <2>2
    <3> QED
      BY <2>2, <3>1
  <2>5. A = 1 .. (m - 1) /\ m - 1 \in 0 .. n
    <3>1. m \in 1 .. n
      OBVIOUS
    <3>2. A = 1 .. (m - 1)
      <4> HIDE DEF rest
      <4> QED
        BY <2>3, <2>4
    <3>3. m - 1 \in 0 .. n
      BY <3>1
    <3> QED
      BY <3>2, <3>3
  <2> QED
    BY <1>1, <2>5
<1> QED
  BY <1>2, <1>3

(* How many slots begin at o or before. *)
SlotsUpTo(t, o) == Cardinality({i \in DOMAIN t : t[i].offset <= o})

LEMMA SlotsUpToIs ==
    ASSUME NEW t \in Seq(FreeSlots), NEW o \in Nat
    PROVE  /\ SlotsUpTo(t, o) \in 0 .. Len(t)
           /\ InOrder(t) => \A i \in 1 .. Len(t) : t[i].offset <= o <=> i <= SlotsUpTo(t, o)
<1> DEFINE n == Len(t)
           A == {i \in DOMAIN t : t[i].offset <= o}
<1>1. /\ n \in Nat /\ DOMAIN t = 1 .. n
      /\ \A i \in 1 .. n : t[i].offset \in Nat /\ SlotEnd(t[i]) \in Nat
                           /\ t[i].offset < SlotEnd(t[i])
  BY SlotNumbers
<1>2. SlotsUpTo(t, o) = Cardinality(A)
  BY DEF SlotsUpTo
<1>3. Cardinality(A) \in 0 .. n
  <2>1. A \subseteq 1 .. n
    BY <1>1
  <2>2. IsFiniteSet(1 .. n) /\ Cardinality(1 .. n) = n
    <3>1. 1 \in Int /\ n \in Int
      BY <1>1
    <3>2. Cardinality(1 .. n) = IF 1 > n THEN 0 ELSE n - 1 + 1
      BY <3>1, FS_Interval
    <3> HIDE DEF n
    <3> QED
      BY <1>1, <3>1, <3>2, FS_Interval
  <2> HIDE DEF n, A
  <2>3. IsFiniteSet(A) /\ Cardinality(A) <= Cardinality(1 .. n)
    BY <2>1, <2>2, FS_Subset
  <2>4. Cardinality(A) \in Nat
    BY <2>3, FS_CardinalityType
  <2> QED
    BY <1>1, <2>2, <2>3, <2>4
<1>4. ASSUME InOrder(t), NEW i \in 1 .. n PROVE t[i].offset <= o <=> i <= Cardinality(A)
  <2>1. A \subseteq 1 .. n
    BY <1>1
  <2>2. \A k \in A : \A j \in 1 .. n : j <= k => j \in A
    <3> SUFFICES ASSUME NEW k \in A, NEW j \in 1 .. n, j <= k PROVE j \in A
      OBVIOUS
    <3>1. k \in 1 .. n /\ t[k].offset <= o
      BY <1>1
    <3>2. CASE j < k
      <4>1. SlotEnd(t[j]) < t[k].offset
        BY <1>1, <1>4, <3>1, <3>2 DEF InOrder
      <4> QED
        BY <1>1, <3>1, <4>1
    <3>3. CASE ~(j < k)
      BY <3>1, <3>3
    <3> QED
      BY <3>2, <3>3
  <2>3. i \in A <=> t[i].offset <= o
    BY <1>1
  <2> HIDE DEF n, A
  <2>4. A = 1 .. Cardinality(A)
    BY <1>1, <2>1, <2>2, Beginning
  <2>5. i \in A <=> i \in 1 .. Cardinality(A)
    BY <2>4
  <2> QED
    BY <1>1, <1>3, <2>3, <2>5
<1> QED
  BY <1>2, <1>3, <1>4

(* What giving back c bytes from o on makes of a table. *)
LEMMA FreeCases ==
    ASSUME NEW t \in Seq(FreeSlots), NEW o \in Nat, NEW c \in Nat \ {0},
           NEW u, u = FreeSlot(t, o, c), NEW p, p = SlotsUpTo(t, o)
    PROVE  /\ u \in Seq(FreeSlots)
           /\ \/ /\ p > 0 /\ p + 1 <= Len(t) /\ Len(u) = Len(t) - 1
                 /\ SlotEnd(t[p]) = o /\ o + c = t[p + 1].offset
                 /\ u[p].offset = t[p].offset /\ SlotEnd(u[p]) = SlotEnd(t[p + 1])
                 /\ \A j \in 1 .. (Len(t) - 1) :
                       j # p => u[j] = IF j < p THEN t[j] ELSE t[j + 1]
              \/ /\ p > 0 /\ Len(u) = Len(t)
                 /\ SlotEnd(t[p]) = o /\ ~(p + 1 <= Len(t) /\ o + c = t[p + 1].offset)
                 /\ u[p].offset = t[p].offset /\ SlotEnd(u[p]) = o + c
                 /\ \A j \in 1 .. Len(t) : j # p => u[j] = t[j]
              \/ /\ p + 1 <= Len(t) /\ Len(u) = Len(t)
                 /\ ~(p > 0 /\ SlotEnd(t[p]) = o) /\ o + c = t[p + 1].offset
                 /\ u[p + 1].offset = o /\ SlotEnd(u[p + 1]) = SlotEnd(t[p + 1])
                 /\ \A j \in 1 .. Len(t) : j # p + 1 => u[j] = t[j]
              \/ /\ Len(u) = Len(t) + 1
                 /\ ~(p > 0 /\ SlotEnd(t[p]) = o)
                 /\ ~(p + 1 <= Len(t) /\ o + c = t[p + 1].offset)
                 /\ u[p + 1].offset = o /\ SlotEnd(u[p + 1]) = o + c
                 /\ \A j \in 1 .. (Len(t) + 1) :
                       j # p + 1 => u[j] = IF j < p + 1 THEN t[j] ELSE t[j - 1]
<1> DEFINE n == Len(t)
<1>1. /\ n \in Nat /\ DOMAIN t = 1 .. n
      /\ \A i \in 1 .. n : /\ t[i] \in FreeSlots /\ t[i].offset \in Nat
                           /\ SlotEnd(t[i]) \in Nat /\ t[i].capacity \in Nat
                           /\ t[i].capacity > 0
                           /\ SlotEnd(t[i]) = t[i].offset + t[i].capacity
  BY SlotNumbers
<1>2. p \in 0 .. n
  BY SlotsUpToIs
<1>c. c \in Nat /\ c > 0 /\ c # 0
  OBVIOUS
<1> DEFINE prev == p > 0 /\ SlotEnd(t[p]) = o
           next == p + 1 <= n /\ o + c = t[p + 1].offset
<1>3. u = CASE c = 0 -> t
            [] c > 0 /\ prev /\ next ->
                  RemoveAt([t EXCEPT ![p].capacity = @ + c + t[p + 1].capacity], p + 1)
            [] c > 0 /\ prev /\ ~next -> [t EXCEPT ![p].capacity = @ + c]
            [] c > 0 /\ ~prev /\ next -> [t EXCEPT ![p + 1] = Slot(o, @.capacity + c)]
            [] c > 0 /\ ~prev /\ ~next -> InsertAt(t, p + 1, Slot(o, c))
  BY DEF FreeSlot, SlotsUpTo
<1>w. ASSUME prev, NEW k \in Nat
      PROVE  [t[p] EXCEPT !.capacity = @ + k] = Slot(t[p].offset, t[p].capacity + k)
  <2>1. p \in 1 .. n
    BY <1>1, <1>2, <1>w
  <2> QED
    BY <1>1, <2>1 DEF Slot, FreeSlots
<1> HIDE DEF n, prev, next
<1>4. CASE prev /\ next
  <2>0. p > 0 /\ SlotEnd(t[p]) = o /\ p + 1 <= n /\ o + c = t[p + 1].offset
    BY <1>4 DEF prev, next
  <2>1. p \in 1 .. n /\ p + 1 \in 1 .. n
    BY <1>1, <1>2, <2>0
  <2> DEFINE k == c + t[p + 1].capacity
             e == Slot(t[p].offset, t[p].capacity + k)
             w == [t EXCEPT ![p] = e]
  <2>2. k \in Nat /\ k > 0 /\ t[p].capacity + k \in Nat /\ t[p].capacity + k > 0
    <3>1. t[p].capacity \in Nat /\ t[p + 1].capacity \in Nat
      BY <1>1, <2>1
    <3>2. \A x, y \in Nat : /\ c + y \in Nat /\ c + y > 0
                            /\ x + (c + y) \in Nat /\ x + (c + y) > 0
      BY <1>c
    <3> QED
      BY <3>1, <3>2
  <2>3. [t EXCEPT ![p].capacity = @ + c + t[p + 1].capacity] = w
    <3>1. (t[p].capacity + c) + t[p + 1].capacity = t[p].capacity + k
      BY <1>1, <2>1
    <3>2. [t[p] EXCEPT !.capacity = @ + c + t[p + 1].capacity]
              = [t[p] EXCEPT !.capacity = @ + k]
      BY <3>1
    <3>3. [t[p] EXCEPT !.capacity = @ + k] = e
      <4> HIDE DEF k
      <4> QED
        BY <1>4, <1>w, <2>2
    <3> QED
      BY <3>2, <3>3
  <2>4. u = RemoveAt(w, p + 1)
    BY <1>3, <1>4, <1>c, <2>3
  <2>5. e \in FreeSlots /\ e.offset = t[p].offset
        /\ SlotEnd(e) = t[p].offset + (t[p].capacity + k)
    <3> HIDE DEF k
    <3> QED
      BY <1>1, <2>1, <2>2, SlotMade
  <2>6. SlotEnd(e) = SlotEnd(t[p + 1])
    <3>1. t[p].offset + t[p].capacity = o
      BY <1>1, <2>0, <2>1
    <3>2. t[p + 1].offset + t[p + 1].capacity = SlotEnd(t[p + 1])
      BY <1>1, <2>1
    <3>3. /\ t[p].offset \in Nat /\ t[p].capacity \in Nat
          /\ t[p + 1].offset \in Nat /\ t[p + 1].capacity \in Nat
      BY <1>1, <2>1
    <3>4. ASSUME NEW a, NEW b, NEW x, NEW y, a \in Nat, b \in Nat, x \in Nat, y \in Nat,
                 a + b = o, o + c = x
          PROVE  a + (b + (c + y)) = x + y
      BY <1>c, <3>4
    <3> DEFINE a == t[p].offset
               b == t[p].capacity
               x == t[p + 1].offset
               y == t[p + 1].capacity
    <3>6. a \in Nat /\ b \in Nat /\ x \in Nat /\ y \in Nat /\ a + b = o /\ o + c = x
      BY <2>0, <3>1, <3>3
    <3>7. k = c + y
      OBVIOUS
    <3> HIDE DEF a, b, x, y, k
    <3>8. a + (b + k) = x + y
      BY <3>4, <3>6, <3>7
    <3>5. t[p].offset + (t[p].capacity + k) = t[p + 1].offset + t[p + 1].capacity
      BY <3>8 DEF a, b, x, y
    <3> QED
      BY <2>5, <3>2, <3>5
  <2> HIDE DEF k, e, w
  <2>7. /\ w \in Seq(FreeSlots) /\ Len(w) = n
        /\ \A j \in 1 .. n : w[j] = IF j = p THEN e ELSE t[j]
    BY <2>1, <2>5, SlotReplaced DEF w, n
  <2>8. /\ u \in Seq(FreeSlots) /\ Len(u) = n - 1
        /\ \A j \in 1 .. (n - 1) : u[j] = IF j < p + 1 THEN w[j] ELSE w[j + 1]
    <3>1. w \in Seq(FreeSlots) /\ p + 1 \in 1 .. Len(w)
      BY <2>1, <2>7
    <3> DEFINE q == p + 1
    <3>2. q \in 1 .. Len(w)
      BY <3>1
    <3> HIDE DEF q
    <3>3. /\ RemoveAt(w, q) \in Seq(FreeSlots) /\ Len(RemoveAt(w, q)) = Len(w) - 1
          /\ \A j \in 1 .. (Len(w) - 1) :
                RemoveAt(w, q)[j] = IF j < q THEN w[j] ELSE w[j + 1]
      BY <3>1, <3>2, Removed
    <3> QED
      BY <2>4, <2>7, <3>3 DEF q
  <2>9. \A j \in 1 .. (n - 1) : j # p => u[j] = IF j < p THEN t[j] ELSE t[j + 1]
    <3> SUFFICES ASSUME NEW j \in 1 .. (n - 1), j # p
                 PROVE  u[j] = IF j < p THEN t[j] ELSE t[j + 1]
      OBVIOUS
    <3>1. CASE j < p
      BY <1>1, <2>1, <2>7, <2>8, <3>1
    <3>2. CASE ~(j < p)
      <4>1. ~(j < p + 1) /\ j + 1 \in 1 .. n /\ j + 1 # p
        BY <1>1, <2>1, <3>2
      <4> QED
        BY <2>7, <2>8, <3>2, <4>1
    <3> QED
      BY <3>1, <3>2
  <2>10. u[p] = e
    <3>1. p \in 1 .. (n - 1) /\ p < p + 1
      BY <1>1, <2>1
    <3> QED
      BY <2>1, <2>7, <2>8, <3>1
  <2> QED
    BY <2>0, <2>5, <2>6, <2>8, <2>9, <2>10 DEF n
<1>5. CASE prev /\ ~next
  <2>0. p > 0 /\ SlotEnd(t[p]) = o /\ ~(p + 1 <= n /\ o + c = t[p + 1].offset)
    BY <1>5 DEF prev, next
  <2>1. p \in 1 .. n
    BY <1>1, <1>2, <2>0
  <2> DEFINE e == Slot(t[p].offset, t[p].capacity + c)
  <2>2. u = [t EXCEPT ![p] = e]
    <3>1. [t[p] EXCEPT !.capacity = @ + c] = e
      BY <1>5, <1>c, <1>w
    <3>2. u = [t EXCEPT ![p].capacity = @ + c]
      BY <1>3, <1>5, <1>c
    <3> QED
      BY <3>1, <3>2
  <2>3. e \in FreeSlots /\ e.offset = t[p].offset
        /\ SlotEnd(e) = t[p].offset + (t[p].capacity + c)
    <3>1. t[p].capacity + c \in Nat /\ t[p].capacity + c > 0
      BY <1>1, <1>c, <2>1
    <3> QED
      BY <1>1, <2>1, <3>1, SlotMade
  <2>4. SlotEnd(e) = o + c
    BY <1>1, <1>c, <2>0, <2>1, <2>3, SMTT(40)
  <2> HIDE DEF e
  <2>5. /\ u \in Seq(FreeSlots) /\ Len(u) = n
        /\ \A j \in 1 .. n : u[j] = IF j = p THEN e ELSE t[j]
    BY <2>1, <2>2, <2>3, SlotReplaced DEF n
  <2> QED
    BY <2>0, <2>1, <2>3, <2>4, <2>5 DEF n
<1>6. CASE ~prev /\ next
  <2>0. p + 1 <= n /\ ~(p > 0 /\ SlotEnd(t[p]) = o) /\ o + c = t[p + 1].offset
    BY <1>6 DEF prev, next
  <2>1. p + 1 \in 1 .. n
    BY <1>1, <1>2, <2>0
  <2> DEFINE e == Slot(o, t[p + 1].capacity + c)
  <2>2. u = [t EXCEPT ![p + 1] = e]
    BY <1>3, <1>6, <1>c
  <2>3. e \in FreeSlots /\ e.offset = o /\ SlotEnd(e) = o + (t[p + 1].capacity + c)
    <3>1. t[p + 1].capacity + c \in Nat /\ t[p + 1].capacity + c > 0
      BY <1>1, <1>c, <2>1
    <3> QED
      BY <3>1, SlotMade
  <2>4. SlotEnd(e) = SlotEnd(t[p + 1])
    BY <1>1, <1>c, <2>0, <2>1, <2>3
  <2> HIDE DEF e
  <2>5. /\ u \in Seq(FreeSlots) /\ Len(u) = n
        /\ \A j \in 1 .. n : u[j] = IF j = p + 1 THEN e ELSE t[j]
    BY <2>1, <2>2, <2>3, SlotReplaced DEF n
  <2> QED
    BY <2>0, <2>1, <2>3, <2>4, <2>5 DEF n
<1>7. CASE ~prev /\ ~next
  <2>0. /\ ~(p > 0 /\ SlotEnd(t[p]) = o)
        /\ ~(p + 1 <= n /\ o + c = t[p + 1].offset)
    BY <1>7 DEF prev, next
  <2> DEFINE e == Slot(o, c)
  <2>1. u = InsertAt(t, p + 1, e)
    BY <1>3, <1>7, <1>c
  <2>2. e \in FreeSlots /\ e.offset = o /\ SlotEnd(e) = o + c
    BY <1>c, SlotMade
  <2> HIDE DEF e
  <2>3. p + 1 \in 1 .. (n + 1)
    BY <1>1, <1>2
  <2>4. /\ u \in Seq(FreeSlots) /\ Len(u) = n + 1
        /\ \A j \in 1 .. (n + 1) :
              u[j] = IF j < p + 1 THEN t[j] ELSE IF j = p + 1 THEN e ELSE t[j - 1]
    <3> DEFINE q == p + 1
    <3>1. q \in 1 .. (Len(t) + 1)
      BY <2>3 DEF n
    <3> HIDE DEF q
    <3>2. /\ InsertAt(t, q, e) \in Seq(FreeSlots)
          /\ Len(InsertAt(t, q, e)) = Len(t) + 1
          /\ \A j \in 1 .. (Len(t) + 1) : InsertAt(t, q, e)[j] =
                 IF j < q THEN t[j] ELSE IF j = q THEN e ELSE t[j - 1]
      BY <2>2, <3>1, Inserted
    <3> QED
      BY <2>1, <3>2 DEF n, q
  <2>5. u[p + 1] = e
    BY <1>2, <2>3, <2>4
  <2>6. \A j \in 1 .. (n + 1) : j # p + 1 => u[j] = IF j < p + 1 THEN t[j] ELSE t[j - 1]
    BY <2>4
  <2> QED
    BY <2>0, <2>2, <2>4, <2>5, <2>6 DEF n
<1> QED
  BY <1>4, <1>5, <1>6, <1>7

(* Giving back no bytes changes nothing. *)
LEMMA FreeNothing ==
    ASSUME NEW t, NEW o, NEW c, c = 0
    PROVE  FreeSlot(t, o, c) = t
<1> DEFINE p == Cardinality({i \in DOMAIN t : t[i].offset <= o})
           one == p > 0 /\ SlotEnd(t[p]) = o
           two == p + 1 <= Len(t) /\ o + c = t[p + 1].offset
<1>1. FreeSlot(t, o, c) = CASE c = 0 -> t
        [] c > 0 /\ one /\ two ->
              RemoveAt([t EXCEPT ![p].capacity = @ + c + t[p + 1].capacity], p + 1)
        [] c > 0 /\ one /\ ~two -> [t EXCEPT ![p].capacity = @ + c]
        [] c > 0 /\ ~one /\ two -> [t EXCEPT ![p + 1] = Slot(o, @.capacity + c)]
        [] c > 0 /\ ~one /\ ~two -> InsertAt(t, p + 1, Slot(o, c))
  BY DEF FreeSlot
<1> HIDE DEF p, one, two
<1>2. ~(c > 0)
  OBVIOUS
<1> QED
  BY <1>1, <1>2

LEMMA FreeTyped ==
    ASSUME NEW t \in Seq(FreeSlots), NEW o \in Nat, NEW c \in Nat
    PROVE  FreeSlot(t, o, c) \in Seq(FreeSlots)
<1>1. CASE c = 0
  BY <1>1, FreeNothing
<1>2. CASE c # 0
  <2>1. c \in Nat \ {0}
    BY <1>2
  <2> QED
    BY <2>1, FreeCases
<1> QED
  BY <1>1, <1>2

(* Giving back bytes that are not free adds those bytes and no others. *)
LEMMA FreeRight ==
    ASSUME NEW t \in Seq(FreeSlots), InOrder(t), NEW o \in Nat, NEW c \in Nat \ {0},
           \A b \in Stretch(o, c) : b \notin FreeBytes(t),
           NEW u, u = FreeSlot(t, o, c)
    PROVE  InOrder(u) /\ FreeBytes(u) = FreeBytes(t) \union Stretch(o, c)
<1>p. PICK p : p = SlotsUpTo(t, o)
  OBVIOUS
<1>n. PICK n : n = Len(t)
  OBVIOUS
<1>1. /\ n \in Nat /\ DOMAIN t = 1 .. n
      /\ \A j \in 1 .. n : /\ t[j].offset \in Nat /\ SlotEnd(t[j]) \in Nat
                           /\ t[j].offset < SlotEnd(t[j])
  BY <1>n, SlotNumbers
<1>2. \A j, k \in 1 .. n : j < k => SlotEnd(t[j]) < t[k].offset
  BY <1>1 DEF InOrder
<1>3. u \in Seq(FreeSlots)
  BY <1>p, FreeCases
<1>4. DOMAIN u = 1 .. Len(u) /\ Len(u) \in Nat
      /\ \A j \in 1 .. Len(u) : u[j].offset \in Nat /\ SlotEnd(u[j]) \in Nat
  BY <1>3, SlotNumbers
<1>5. p \in 0 .. n /\ \A j \in 1 .. n : t[j].offset <= o <=> j <= p
  BY <1>n, <1>p, SlotsUpToIs
<1>c. c \in Nat /\ c > 0 /\ o \in Nat /\ o + c \in Nat
  OBVIOUS
<1>s. \A b : b \in Stretch(o, c) <=> b \in Nat /\ o <= b /\ b < o + c
  BY <1>c DEF Stretch
<1>f. \A b : b \in FreeBytes(t) <=>
                b \in Nat /\ \E j \in 1 .. n : t[j].offset <= b /\ b < SlotEnd(t[j])
  BY <1>1 DEF FreeBytes
<1>6. \A j \in 1 .. n : j <= p => SlotEnd(t[j]) <= o
  <2> SUFFICES ASSUME NEW j \in 1 .. n, j <= p, o < SlotEnd(t[j]) PROVE FALSE
    BY <1>1, <1>c
  <2>1. o \in FreeBytes(t)
    BY <1>5, <1>f
  <2>2. o \in Stretch(o, c)
    BY <1>c, <1>s
  <2> QED
    BY <2>1, <2>2
<1>7. \A j \in 1 .. n : ~(j <= p) => o + c <= t[j].offset
  <2> SUFFICES ASSUME NEW j \in 1 .. n, ~(j <= p), t[j].offset < o + c PROVE FALSE
    BY <1>1, <1>c
  <2>1. t[j].offset \in FreeBytes(t)
    BY <1>1, <1>f, SMTT(40)
  <2>2. o < t[j].offset
    BY <1>1, <1>5, <1>c
  <2>3. t[j].offset \in Stretch(o, c)
    BY <1>1, <1>s, <2>2
  <2> QED
    BY <2>1, <2>3
<1>8. CASE /\ p > 0 /\ p + 1 <= n /\ Len(u) = n - 1
           /\ SlotEnd(t[p]) = o /\ o + c = t[p + 1].offset
           /\ u[p].offset = t[p].offset /\ SlotEnd(u[p]) = SlotEnd(t[p + 1])
           /\ \A j \in 1 .. (n - 1) : j # p => u[j] = IF j < p THEN t[j] ELSE t[j + 1]
  <2>0. p \in 1 .. n /\ p + 1 \in 1 .. n /\ p \in 1 .. (n - 1)
    BY <1>1, <1>5, <1>8
  <2>1. ASSUME NEW j \in 1 .. (n - 1)
        PROVE  /\ \E x \in 1 .. n : u[j].offset = t[x].offset
                                    /\ x = IF j <= p THEN j ELSE j + 1
               /\ \E y \in 1 .. n : SlotEnd(u[j]) = SlotEnd(t[y])
                                    /\ y = IF j < p THEN j ELSE j + 1
    <3>1. j \in 1 .. n /\ j + 1 \in 1 .. n
      BY <1>1
    <3>2. CASE j < p
      <4>1. u[j] = t[j] /\ j <= p
        BY <1>8, <2>0, <3>2
      <4> QED
        BY <3>1, <3>2, <4>1
    <3>3. CASE j = p
      BY <1>8, <3>1, <3>3
    <3>4. CASE p < j
      <4>1. ~(j < p) /\ ~(j <= p) /\ j # p
        BY <2>0, <3>4
      <4>2. u[j] = t[j + 1]
        BY <1>8, <4>1
      <4> QED
        BY <3>1, <4>1, <4>2
    <3> QED
      BY <2>0, <3>2, <3>3, <3>4
  <2>2. InOrder(u)
    <3> SUFFICES ASSUME NEW j \in 1 .. (n - 1), NEW k \in 1 .. (n - 1), j < k
                 PROVE  SlotEnd(u[j]) < u[k].offset
      BY <1>4, <1>8 DEF InOrder
    <3>1. PICK y \in 1 .. n : SlotEnd(u[j]) = SlotEnd(t[y]) /\ y = IF j < p THEN j ELSE j + 1
      BY <2>1
    <3>2. PICK x \in 1 .. n : u[k].offset = t[x].offset /\ x = IF k <= p THEN k ELSE k + 1
      BY <2>1
    <3>3. y < x
      BY <2>0, <3>1, <3>2
    <3> QED
      BY <1>2, <3>1, <3>2, <3>3
  <2>3. ASSUME NEW b \in FreeBytes(u) PROVE b \in FreeBytes(t) \union Stretch(o, c)
    <3>1. PICK j \in 1 .. (n - 1) : b \in Nat /\ u[j].offset <= b /\ b < SlotEnd(u[j])
      BY <1>4, <1>8 DEF FreeBytes
    <3>2. CASE j # p
      <4>1. PICK x \in 1 .. n : u[j] = t[x]
        <5>1. j \in 1 .. n /\ j + 1 \in 1 .. n
          BY <1>1
        <5> QED
          BY <1>8, <3>2, <5>1
      <4>2. b \in FreeBytes(t)
        BY <1>f, <3>1, <4>1
      <4> QED
        BY <4>2
    <3>3. CASE j = p
      <4>1. t[p].offset <= b /\ b < SlotEnd(t[p + 1])
        BY <1>8, <3>1, <3>3
      <4>2. CASE b < o
        <5>1. b \in FreeBytes(t)
          BY <1>8, <1>f, <2>0, <3>1, <4>1, <4>2
        <5> QED
          BY <5>1
      <4>3. CASE o <= b /\ b < o + c
        BY <1>s, <3>1, <4>3
      <4>4. CASE o + c <= b
        <5>1. b \in FreeBytes(t)
          BY <1>8, <1>f, <2>0, <3>1, <4>1, <4>4
        <5> QED
          BY <5>1
      <4> QED
        BY <1>c, <3>1, <4>2, <4>3, <4>4
    <3> QED
      BY <3>2, <3>3
  <2>4. ASSUME NEW b \in FreeBytes(t) PROVE b \in FreeBytes(u)
    <3>1. PICK x \in 1 .. n : b \in Nat /\ t[x].offset <= b /\ b < SlotEnd(t[x])
      BY <1>f
    <3>2. \E j \in 1 .. (n - 1) : u[j].offset <= b /\ b < SlotEnd(u[j])
      <4>1. CASE x < p
        <5>1. x \in 1 .. (n - 1) /\ u[x] = t[x]
          BY <1>1, <1>8, <2>0, <4>1
        <5> QED
          BY <3>1, <5>1
      <4>2. CASE x = p
        <5>1. b < SlotEnd(u[p])
          BY <1>1, <1>8, <1>c, <2>0, <3>1, <4>2
        <5> QED
          BY <1>8, <2>0, <3>1, <4>2, <5>1
      <4>3. CASE x = p + 1
        <5>1. u[p].offset <= b
          BY <1>1, <1>2, <1>8, <2>0, <3>1, <4>3
        <5> QED
          BY <1>8, <2>0, <3>1, <4>3, <5>1
      <4>4. CASE p + 1 < x
        <5>1. x - 1 \in 1 .. (n - 1) /\ ~(x - 1 < p) /\ x - 1 # p /\ (x - 1) + 1 = x
          BY <1>1, <2>0, <4>4
        <5>2. u[x - 1] = t[x]
          BY <1>8, <5>1
        <5> QED
          BY <3>1, <5>1, <5>2
      <4> QED
        BY <2>0, <4>1, <4>2, <4>3, <4>4
    <3> QED
      BY <1>4, <1>8, <3>1, <3>2 DEF FreeBytes
  <2>5. ASSUME NEW b \in Stretch(o, c) PROVE b \in FreeBytes(u)
    <3>1. b \in Nat /\ u[p].offset <= b /\ b < SlotEnd(u[p])
      <4>1. b \in Nat /\ o <= b /\ b < o + c
        BY <1>s
      <4> QED
        BY <1>1, <1>8, <1>c, <2>0, <4>1, SMTT(40)
    <3> QED
      BY <1>4, <1>8, <2>0, <3>1 DEF FreeBytes
  <2> QED
    BY <2>2, <2>3, <2>4, <2>5
<1>9. CASE /\ p > 0 /\ Len(u) = n
           /\ SlotEnd(t[p]) = o /\ ~(p + 1 <= n /\ o + c = t[p + 1].offset)
           /\ u[p].offset = t[p].offset /\ SlotEnd(u[p]) = o + c
           /\ \A j \in 1 .. n : j # p => u[j] = t[j]
  <2>0. p \in 1 .. n
    BY <1>1, <1>5, <1>9
  <2>1. \A k \in 1 .. n : p < k => o + c < t[k].offset
    <3> SUFFICES ASSUME NEW k \in 1 .. n, p < k PROVE o + c < t[k].offset
      OBVIOUS
    <3>1. p + 1 \in 1 .. n /\ ~(p + 1 <= p)
      BY <1>1, <2>0
    <3>2. o + c <= t[p + 1].offset /\ o + c # t[p + 1].offset
      BY <1>7, <1>9, <3>1
    <3>3. o + c < t[p + 1].offset
      BY <1>1, <1>c, <3>1, <3>2
    <3>4. CASE k = p + 1
      BY <3>3, <3>4
    <3>5. CASE p + 1 < k
      <4>1. t[p + 1].offset < SlotEnd(t[p + 1]) /\ SlotEnd(t[p + 1]) < t[k].offset
        BY <1>1, <1>2, <3>1, <3>5
      <4> QED
        BY <1>1, <1>c, <3>1, <3>3, <4>1
    <3> QED
      BY <2>0, <3>4, <3>5
  <2>2. InOrder(u)
    <3> SUFFICES ASSUME NEW j \in 1 .. n, NEW k \in 1 .. n, j < k
                 PROVE  SlotEnd(u[j]) < u[k].offset
      BY <1>4, <1>9 DEF InOrder
    <3>1. u[k].offset = t[k].offset
      BY <1>9
    <3>2. CASE j = p
      BY <1>9, <2>1, <3>1, <3>2
    <3>3. CASE j # p
      BY <1>2, <1>9, <3>1, <3>3
    <3> QED
      BY <3>2, <3>3
  <2>3. ASSUME NEW b \in FreeBytes(u) PROVE b \in FreeBytes(t) \union Stretch(o, c)
    <3>1. PICK j \in 1 .. n : b \in Nat /\ u[j].offset <= b /\ b < SlotEnd(u[j])
      BY <1>4, <1>9 DEF FreeBytes
    <3>2. CASE j # p \/ b < o
      <4>1. t[j].offset <= b /\ b < SlotEnd(t[j])
        BY <1>9, <2>0, <3>1, <3>2
      <4>2. b \in FreeBytes(t)
        BY <1>f, <3>1, <4>1
      <4> QED
        BY <4>2
    <3>3. CASE j = p /\ o <= b
      BY <1>9, <1>s, <3>1, <3>3
    <3> QED
      BY <1>c, <3>1, <3>2, <3>3
  <2>4. ASSUME NEW b \in FreeBytes(t) PROVE b \in FreeBytes(u)
    <3>1. PICK x \in 1 .. n : b \in Nat /\ t[x].offset <= b /\ b < SlotEnd(t[x])
      BY <1>f
    <3>2. u[x].offset <= b /\ b < SlotEnd(u[x])
      BY <1>1, <1>9, <1>c, <2>0, <3>1
    <3> QED
      BY <1>4, <1>9, <3>1, <3>2 DEF FreeBytes
  <2>5. ASSUME NEW b \in Stretch(o, c) PROVE b \in FreeBytes(u)
    <3>1. b \in Nat /\ u[p].offset <= b /\ b < SlotEnd(u[p])
      <4>1. b \in Nat /\ o <= b /\ b < o + c
        BY <1>s
      <4>2. t[p].offset < SlotEnd(t[p]) /\ t[p].offset \in Nat
        BY <1>1, <2>0
      <4> QED
        BY <1>9, <1>c, <4>1, <4>2
    <3> QED
      BY <1>4, <1>9, <2>0, <3>1 DEF FreeBytes
  <2> QED
    BY <2>2, <2>3, <2>4, <2>5
<1> DEFINE Cases(m) ==
       \/ /\ p > 0 /\ p + 1 <= m /\ Len(u) = m - 1
          /\ SlotEnd(t[p]) = o /\ o + c = t[p + 1].offset
          /\ u[p].offset = t[p].offset /\ SlotEnd(u[p]) = SlotEnd(t[p + 1])
          /\ \A j \in 1 .. (m - 1) : j # p => u[j] = IF j < p THEN t[j] ELSE t[j + 1]
       \/ /\ p > 0 /\ Len(u) = m
          /\ SlotEnd(t[p]) = o /\ ~(p + 1 <= m /\ o + c = t[p + 1].offset)
          /\ u[p].offset = t[p].offset /\ SlotEnd(u[p]) = o + c
          /\ \A j \in 1 .. m : j # p => u[j] = t[j]
       \/ /\ p + 1 <= m /\ Len(u) = m
          /\ ~(p > 0 /\ SlotEnd(t[p]) = o) /\ o + c = t[p + 1].offset
          /\ u[p + 1].offset = o /\ SlotEnd(u[p + 1]) = SlotEnd(t[p + 1])
          /\ \A j \in 1 .. m : j # p + 1 => u[j] = t[j]
       \/ /\ Len(u) = m + 1
          /\ ~(p > 0 /\ SlotEnd(t[p]) = o)
          /\ ~(p + 1 <= m /\ o + c = t[p + 1].offset)
          /\ u[p + 1].offset = o /\ SlotEnd(u[p + 1]) = o + c
          /\ \A j \in 1 .. (m + 1) :
                j # p + 1 => u[j] = IF j < p + 1 THEN t[j] ELSE t[j - 1]
<1>12. Cases(Len(t))
  BY <1>p, FreeCases, SMTT(40)
<1>11. Cases(n)
  <2> HIDE DEF Cases
  <2> QED
    BY <1>n, <1>12
<1>10. CASE ~(p > 0 /\ SlotEnd(t[p]) = o)
    <3>1. \A j \in 1 .. n : j <= p => SlotEnd(t[j]) < o
      <4> SUFFICES ASSUME NEW j \in 1 .. n, j <= p PROVE SlotEnd(t[j]) < o
        OBVIOUS
      <4>1. p \in 1 .. n
        BY <1>1, <1>5
      <4>2. SlotEnd(t[p]) < o
        BY <1>1, <1>6, <1>c, <1>10, <4>1
      <4>3. CASE j = p
        BY <4>2, <4>3
      <4>4. CASE j < p
        <5>1. SlotEnd(t[j]) < t[p].offset /\ t[p].offset < SlotEnd(t[p])
          BY <1>1, <1>2, <4>1, <4>4
        <5> QED
          BY <1>1, <1>c, <4>1, <4>2, <5>1
      <4> QED
        BY <4>1, <4>3, <4>4
    <3>2. CASE /\ p + 1 <= n /\ Len(u) = n /\ o + c = t[p + 1].offset
               /\ u[p + 1].offset = o /\ SlotEnd(u[p + 1]) = SlotEnd(t[p + 1])
               /\ \A j \in 1 .. n : j # p + 1 => u[j] = t[j]
      <4>0. PICK q \in 1 .. n : q = p + 1
        BY <1>1, <1>5, <3>2
      <4>1. /\ Len(u) = n /\ o + c = t[q].offset /\ u[q].offset = o
            /\ SlotEnd(u[q]) = SlotEnd(t[q])
            /\ \A j \in 1 .. n : j # q => u[j] = t[j]
        BY <3>2, <4>0
      <4>2. InOrder(u)
        <5> SUFFICES ASSUME NEW j \in 1 .. n, NEW k \in 1 .. n, j < k
                     PROVE  SlotEnd(u[j]) < u[k].offset
          BY <1>4, <4>1 DEF InOrder
        <5>1. SlotEnd(u[j]) = SlotEnd(t[j])
          BY <4>1
        <5>2. CASE k = q
          <6>1. j <= p
            BY <1>5, <4>0, <5>2
          <6> QED
            BY <3>1, <4>1, <5>1, <5>2, <6>1
        <5>3. CASE k # q
          BY <1>2, <4>1, <5>1, <5>3
        <5> QED
          BY <5>2, <5>3
      <4>3. ASSUME NEW b \in FreeBytes(u) PROVE b \in FreeBytes(t) \union Stretch(o, c)
        <5>1. PICK j \in 1 .. n : b \in Nat /\ u[j].offset <= b /\ b < SlotEnd(u[j])
          BY <1>4, <4>1 DEF FreeBytes
        <5>2. CASE j # q \/ o + c <= b
          <6>1. t[j].offset <= b /\ b < SlotEnd(t[j])
            BY <4>1, <5>1, <5>2
          <6>2. b \in FreeBytes(t)
            BY <1>f, <5>1, <6>1
          <6> QED
            BY <6>2
        <5>3. CASE j = q /\ b < o + c
          BY <1>s, <4>1, <5>1, <5>3
        <5> QED
          BY <1>c, <5>1, <5>2, <5>3
      <4>4. ASSUME NEW b \in FreeBytes(t) PROVE b \in FreeBytes(u)
        <5>1. PICK x \in 1 .. n : b \in Nat /\ t[x].offset <= b /\ b < SlotEnd(t[x])
          BY <1>f
        <5>2. u[x].offset <= b /\ b < SlotEnd(u[x])
          BY <1>1, <1>c, <4>1, <5>1, SMTT(40)
        <5> QED
          BY <1>4, <4>1, <5>1, <5>2 DEF FreeBytes
      <4>5. ASSUME NEW b \in Stretch(o, c) PROVE b \in FreeBytes(u)
        <5>1. b \in Nat /\ u[q].offset <= b /\ b < SlotEnd(u[q])
          <6>1. b \in Nat /\ o <= b /\ b < o + c
            BY <1>s
          <6>2. t[q].offset < SlotEnd(t[q]) /\ SlotEnd(t[q]) \in Nat
            BY <1>1
          <6> QED
            BY <1>c, <4>1, <6>1, <6>2
        <5> QED
          BY <1>4, <4>1, <5>1 DEF FreeBytes
      <4> QED
        BY <4>2, <4>3, <4>4, <4>5
    <3>3. CASE /\ Len(u) = n + 1 /\ ~(p + 1 <= n /\ o + c = t[p + 1].offset)
               /\ u[p + 1].offset = o /\ SlotEnd(u[p + 1]) = o + c
               /\ \A j \in 1 .. (n + 1) :
                     j # p + 1 => u[j] = IF j < p + 1 THEN t[j] ELSE t[j - 1]
      <4>0. PICK q \in 1 .. (n + 1) : q = p + 1
        BY <1>1, <1>5
      <4>1. /\ Len(u) = n + 1 /\ ~(q <= n /\ o + c = t[q].offset) /\ u[q].offset = o
            /\ SlotEnd(u[q]) = o + c
            /\ \A j \in 1 .. (n + 1) : j # q => u[j] = IF j < q THEN t[j] ELSE t[j - 1]
        BY <3>3, <4>0
      <4>a. \A j \in 1 .. (n + 1) : j < q => j \in 1 .. n /\ u[j] = t[j] /\ j <= p
        BY <1>1, <1>5, <4>0, <4>1
      <4>b. \A j \in 1 .. (n + 1) : q < j =>
                j - 1 \in 1 .. n /\ u[j] = t[j - 1] /\ q <= j - 1 /\ ~(j - 1 <= p)
        <5> SUFFICES ASSUME NEW j \in 1 .. (n + 1), q < j
                     PROVE  j - 1 \in 1 .. n /\ u[j] = t[j - 1] /\ q <= j - 1
                            /\ ~(j - 1 <= p)
          OBVIOUS
        <5>1. j # q /\ ~(j < q)
          OBVIOUS
        <5> QED
          BY <1>1, <1>5, <4>0, <4>1, <5>1
      <4>c. \A k \in 1 .. n : q <= k => o + c < t[k].offset
        <5> SUFFICES ASSUME NEW k \in 1 .. n, q <= k PROVE o + c < t[k].offset
          OBVIOUS
        <5>1. q \in 1 .. n /\ ~(q <= p)
          BY <1>1, <1>5, <4>0
        <5>2. o + c < t[q].offset
          BY <1>1, <1>7, <1>c, <4>1, <5>1
        <5>3. CASE k = q
          BY <5>2, <5>3
        <5>4. CASE q < k
          <6>1. t[q].offset < SlotEnd(t[q]) /\ SlotEnd(t[q]) < t[k].offset
            BY <1>1, <1>2, <5>1, <5>4
          <6> QED
            BY <1>1, <1>c, <5>1, <5>2, <6>1
        <5> QED
          BY <5>3, <5>4
      <4>2. InOrder(u)
        <5> SUFFICES ASSUME NEW j \in 1 .. (n + 1), NEW k \in 1 .. (n + 1), j < k
                     PROVE  SlotEnd(u[j]) < u[k].offset
          BY <1>4, <4>1 DEF InOrder
        <5>1. CASE k < q
          <6>1. j < q
            BY <5>1
          <6>2. j \in 1 .. n /\ u[j] = t[j] /\ k \in 1 .. n /\ u[k] = t[k]
            BY <4>a, <5>1, <6>1
          <6> QED
            BY <1>2, <6>2
        <5>2. CASE k = q
          <6>1. j \in 1 .. n /\ u[j] = t[j] /\ j <= p
            BY <4>a, <5>2
          <6> QED
            BY <3>1, <4>1, <5>2, <6>1
        <5>3. CASE q < k /\ j < q
          <6>1. j \in 1 .. n /\ u[j] = t[j] /\ j <= p
            BY <4>a, <5>3
          <6>2. k - 1 \in 1 .. n /\ u[k] = t[k - 1] /\ q <= k - 1
            BY <4>b, <5>3
          <6>3. SlotEnd(t[j]) < o /\ o + c < t[k - 1].offset
            BY <3>1, <4>c, <6>1, <6>2
          <6>4. SlotEnd(t[j]) \in Nat /\ t[k - 1].offset \in Nat
            BY <1>1, <6>1, <6>2
          <6>5. SlotEnd(t[j]) < t[k - 1].offset
            BY <1>c, <6>3, <6>4
          <6> QED
            BY <6>1, <6>2, <6>5
        <5>4. CASE q < k /\ j = q
          <6>1. k - 1 \in 1 .. n /\ u[k] = t[k - 1] /\ q <= k - 1
            BY <4>b, <5>4
          <6> QED
            BY <4>1, <4>c, <5>4, <6>1
        <5>5. CASE q < k /\ q < j
          <6>1. k - 1 \in 1 .. n /\ u[k] = t[k - 1]
            BY <4>b, <5>5
          <6>2. j - 1 \in 1 .. n /\ u[j] = t[j - 1] /\ j - 1 < k - 1
            BY <4>b, <5>5
          <6> QED
            BY <1>2, <6>1, <6>2
        <5> QED
          BY <4>0, <5>1, <5>2, <5>3, <5>4, <5>5
      <4>3. ASSUME NEW b \in FreeBytes(u) PROVE b \in FreeBytes(t) \union Stretch(o, c)
        <5>1. PICK j \in 1 .. (n + 1) : b \in Nat /\ u[j].offset <= b /\ b < SlotEnd(u[j])
          BY <1>4, <4>1 DEF FreeBytes
        <5>2. CASE j = q
          BY <1>s, <4>1, <5>1, <5>2
        <5>3. CASE j # q
          <6>1. PICK x \in 1 .. n : u[j] = t[x]
            BY <4>0, <4>a, <4>b, <5>3
          <6>2. b \in FreeBytes(t)
            BY <1>f, <5>1, <6>1
          <6> QED
            BY <6>2
        <5> QED
          BY <5>2, <5>3
      <4>4. ASSUME NEW b \in FreeBytes(t) PROVE b \in FreeBytes(u)
        <5>1. PICK x \in 1 .. n : b \in Nat /\ t[x].offset <= b /\ b < SlotEnd(t[x])
          BY <1>f
        <5>2. PICK j \in 1 .. (n + 1) : u[j] = t[x]
          <6>1. CASE x < q
            <7>1. x \in 1 .. (n + 1)
              BY <1>1
            <7> QED
              BY <4>a, <6>1, <7>1
          <6>2. CASE q <= x
            <7>1. x + 1 \in 1 .. (n + 1) /\ q < x + 1 /\ (x + 1) - 1 = x
              BY <1>1, <4>0, <6>2
            <7> QED
              BY <4>b, <7>1
          <6> QED
            BY <4>0, <6>1, <6>2
        <5> QED
          BY <1>4, <4>1, <5>1, <5>2 DEF FreeBytes
      <4>5. ASSUME NEW b \in Stretch(o, c) PROVE b \in FreeBytes(u)
        <5>1. b \in Nat /\ u[q].offset <= b /\ b < SlotEnd(u[q])
          BY <1>s, <4>1
        <5> QED
          BY <1>4, <4>1, <5>1 DEF FreeBytes
      <4> QED
        BY <4>2, <4>3, <4>4, <4>5
    <3> QED
      BY <1>8, <1>9, <1>11, <3>2, <3>3
<1> QED
  BY <1>8, <1>9, <1>10, <1>11

(* The file and the table that n bytes are taken from, the slot, and what is *)
(* left of the table.                                                        *)
SizeFor(t, z, n) == IF Fitting(t, n) = {} THEN NewTotsize(z, n) ELSE z
TableFor(t, z, n) == IF Fitting(t, n) = {} THEN AddSpace(t, z, SizeFor(t, z, n)) ELSE t
SlotFor(t, z, n) == Min(Fitting(TableFor(t, z, n), n))
PlaceFor(t, z, n) == TableFor(t, z, n)[SlotFor(t, z, n)].offset
TableLeft(t, z, n) == TakeFrom(TableFor(t, z, n), SlotFor(t, z, n), n)

(* The table that a slot is taken from has one that is large enough, and all *)
(* it adds to the free bytes is what the file grows by.                      *)
LEMMA TableForIs ==
    ASSUME NEW t \in Seq(FreeSlots), NEW z \in Nat, NEW n \in Nat \ {0},
           NEW y, y = SizeFor(t, z, n), NEW w, w = TableFor(t, z, n),
           NEW i, i = SlotFor(t, z, n)
    PROVE  /\ y \in Nat /\ z <= y /\ w \in Seq(FreeSlots)
           /\ i \in 1 .. Len(w) /\ w[i].capacity >= n
           /\ InOrder(t) /\ FreeBytes(t) \subseteq 0 .. (z - 1) =>
                 InOrder(w) /\ FreeBytes(w) = FreeBytes(t) \union (z .. (y - 1))
<1>0. /\ y = IF Fitting(t, n) = {} THEN NewTotsize(z, n) ELSE z
      /\ w = IF Fitting(t, n) = {} THEN AddSpace(t, z, y) ELSE t
      /\ i = Min(Fitting(w, n))
  BY DEF SizeFor, TableFor, SlotFor
<1>1. n \in Nat /\ n > 0
  OBVIOUS
<1>2. /\ y \in Nat /\ z <= y /\ w \in Seq(FreeSlots) /\ Fitting(w, n) # {}
      /\ InOrder(t) /\ FreeBytes(t) \subseteq 0 .. (z - 1) =>
            InOrder(w) /\ FreeBytes(w) = FreeBytes(t) \union (z .. (y - 1))
  <2>1. CASE Fitting(t, n) = {}
    <3>1. y = NewTotsize(z, n) /\ w = AddSpace(t, z, y)
      BY <1>0, <2>1
    <3>2. y \in Nat /\ y - z >= n
      BY <3>1, NewTotsizeFits
    <3>3. z < y
      BY <1>1, <3>2
    <3>4. /\ w \in Seq(FreeSlots)
          /\ \E j \in 1 .. Len(w) : w[j].capacity >= y - z
          /\ InOrder(t) /\ FreeBytes(t) \subseteq 0 .. (z - 1) =>
                InOrder(w) /\ FreeBytes(w) = FreeBytes(t) \union (z .. (y - 1))
      <4>1. PICK v : v = AddSpace(t, z, y)
        OBVIOUS
      <4>2. v \in Seq(FreeSlots) /\ \E j \in 1 .. Len(v) : v[j].capacity >= y - z
        BY <3>2, <3>3, <4>1, SpaceAdded
      <4>3. InOrder(t) /\ FreeBytes(t) \subseteq 0 .. (z - 1) =>
                InOrder(v) /\ FreeBytes(v) = FreeBytes(t) \union (z .. (y - 1))
        BY <3>2, <3>3, <4>1, SpaceAdded
      <4>4. w = v
        BY <3>1, <4>1
      <4> QED
        BY <4>2, <4>3, <4>4
    <3>5. PICK j \in 1 .. Len(w) : w[j].capacity >= y - z
      BY <3>4
    <3>6. j \in DOMAIN w /\ w[j].capacity \in Nat
      BY <3>4, SlotNumbers
    <3>7. w[j].capacity >= n
      BY <1>1, <3>2, <3>5, <3>6
    <3>8. j \in Fitting(w, n)
      BY <3>6, <3>7 DEF Fitting
    <3>9. z <= y /\ Fitting(w, n) # {}
      BY <3>2, <3>3, <3>8
    <3> QED
      BY <3>2, <3>4, <3>9
  <2>2. CASE Fitting(t, n) # {}
    <3>1. y = z /\ w = t
      BY <1>0, <2>2
    <3>2. z .. (y - 1) = {}
      BY <3>1
    <3> QED
      BY <2>2, <3>1, <3>2
  <2> QED
    BY <2>1, <2>2
<1>3. i \in 1 .. Len(w) /\ w[i].capacity >= n
  <2>1. DOMAIN w = 1 .. Len(w) /\ Len(w) \in Nat
    BY <1>2, SlotNumbers
  <2>2. Fitting(w, n) \subseteq 1 .. Len(w)
    BY <2>1 DEF Fitting
  <2>3. Fitting(w, n) \subseteq Nat
    BY <2>1, <2>2
  <2>4. i \in Fitting(w, n)
    BY <1>0, <1>2, <2>3, MinOf
  <2> QED
    BY <2>1, <2>4 DEF Fitting
<1> QED
  BY <1>2, <1>3

(* What is allocated fits, and is taken from the free bytes or, when none of *)
(* the slots is large enough, from the bytes that the file grows by.         *)
LEMMA Allotted ==
    ASSUME NEW t \in Seq(FreeSlots), NEW z \in Nat, NEW n \in Nat \ {0}
    PROVE  /\ SizeFor(t, z, n) \in Nat /\ z <= SizeFor(t, z, n)
           /\ PlaceFor(t, z, n) \in Nat
           /\ TableLeft(t, z, n) \in Seq(FreeSlots)
           /\ InOrder(t) /\ FreeBytes(t) \subseteq 0 .. (z - 1) =>
                 /\ InOrder(TableLeft(t, z, n))
                 /\ Stretch(PlaceFor(t, z, n), n)
                       \subseteq FreeBytes(t) \union (z .. (SizeFor(t, z, n) - 1))
                 /\ FreeBytes(TableLeft(t, z, n)) =
                       (FreeBytes(t) \union (z .. (SizeFor(t, z, n) - 1)))
                          \ Stretch(PlaceFor(t, z, n), n)
<1>y. PICK y : y = SizeFor(t, z, n)
  OBVIOUS
<1>w. PICK w : w = TableFor(t, z, n)
  OBVIOUS
<1>i. PICK i : i = SlotFor(t, z, n)
  OBVIOUS
<1>u. PICK u : u = TableLeft(t, z, n)
  OBVIOUS
<1>0. u = TakeFrom(w, i, n) /\ PlaceFor(t, z, n) = w[i].offset
  BY <1>w, <1>i, <1>u DEF TableLeft, PlaceFor
<1>2. /\ y \in Nat /\ z <= y /\ w \in Seq(FreeSlots)
      /\ i \in 1 .. Len(w) /\ w[i].capacity >= n
      /\ InOrder(t) /\ FreeBytes(t) \subseteq 0 .. (z - 1) =>
            InOrder(w) /\ FreeBytes(w) = FreeBytes(t) \union (z .. (y - 1))
  BY <1>y, <1>w, <1>i, TableForIs
<1>3. i \in 1 .. Len(w) /\ w[i].capacity >= n
  BY <1>2
<1>4. w[i].offset \in Nat
  BY <1>2, <1>3, SlotNumbers
<1>5. u \in Seq(FreeSlots)
  BY <1>0, <1>2, <1>3, TakeCases
<1>6. ASSUME InOrder(t), FreeBytes(t) \subseteq 0 .. (z - 1)
      PROVE  /\ InOrder(u)
             /\ Stretch(w[i].offset, n) \subseteq FreeBytes(t) \union (z .. (y - 1))
             /\ FreeBytes(u) = (FreeBytes(t) \union (z .. (y - 1)))
                                  \ Stretch(w[i].offset, n)
  <2>1. InOrder(w) /\ FreeBytes(w) = FreeBytes(t) \union (z .. (y - 1))
    BY <1>2, <1>6
  <2>2. /\ InOrder(u) /\ Stretch(w[i].offset, n) \subseteq FreeBytes(w)
        /\ FreeBytes(u) = FreeBytes(w) \ Stretch(w[i].offset, n)
    BY <1>0, <1>2, <1>3, <2>1, TakeRight
  <2> QED
    BY <2>1, <2>2
<1> QED
  BY <1>0, <1>y, <1>u, <1>2, <1>4, <1>5, <1>6

(* The byte before an allocated stretch was not free: it is taken from the    *)
(* beginning of a slot, and slots do not touch.                              *)
LEMMA PlaceIsWalled ==
    ASSUME NEW t \in Seq(FreeSlots), NEW z \in Nat, NEW n \in Nat \ {0},
           InOrder(t), FreeBytes(t) \subseteq 0 .. (z - 1)
    PROVE  PlaceFor(t, z, n) - 1 \notin FreeBytes(t) \union (z .. (SizeFor(t, z, n) - 1))
<1>1. PICK y, w, i : /\ y = SizeFor(t, z, n) /\ w = TableFor(t, z, n)
                     /\ i = SlotFor(t, z, n)
  OBVIOUS
<1>2. /\ w \in Seq(FreeSlots) /\ i \in 1 .. Len(w) /\ InOrder(w)
      /\ FreeBytes(w) = FreeBytes(t) \union (z .. (y - 1))
  BY <1>1, TableForIs
<1>3. PlaceFor(t, z, n) = w[i].offset
  BY <1>1 DEF PlaceFor
<1>4. /\ DOMAIN w = 1 .. Len(w) /\ Len(w) \in Nat
      /\ \A j \in 1 .. Len(w) : w[j].offset \in Nat /\ SlotEnd(w[j]) \in Nat
                              /\ w[j].offset < SlotEnd(w[j])
  BY <1>2, SlotNumbers, SMTT(40)
<1>5. w[i].offset - 1 \notin FreeBytes(w)
  <2> SUFFICES ASSUME NEW j \in 1 .. Len(w),
                      w[j].offset <= w[i].offset - 1, w[i].offset - 1 < SlotEnd(w[j])
               PROVE  FALSE
    BY <1>4 DEF FreeBytes
  <2>1. CASE j < i
    <3>1. SlotEnd(w[j]) < w[i].offset
      BY <1>2, <1>4, <2>1 DEF InOrder
    <3> QED
      BY <1>2, <1>4, <3>1
  <2>2. CASE j = i
    BY <1>2, <1>4, <2>2
  <2>3. CASE i < j
    <3>1. SlotEnd(w[i]) < w[j].offset
      BY <1>2, <1>4, <2>3 DEF InOrder
    <3> QED
      BY <1>2, <1>4, <3>1
  <2> QED
    BY <1>2, <1>4, <2>1, <2>2, <2>3
<1> QED
  BY <1>1, <1>2, <1>3, <1>5

-----------------------------------------------------------------------------
(* The client that gives back what it took. *)

Taken(U) == UNION {BytesOf(s) : s \in U}

(* The inductive invariant: the table is in order, and the bytes of the file *)
(* are those of the slots in it and of the slots handed out, each once.      *)
Accounted ==
    /\ slots \in Seq(FreeSlots) /\ InOrder(slots)
    /\ totsize \in Nat
    /\ used \subseteq FreeSlots
    /\ \A r, s \in used : r # s => BytesOf(r) \cap BytesOf(s) = {}
    /\ Taken(used) \cap FreeBytes(slots) = {}
    /\ Taken(used) \union FreeBytes(slots) = 0 .. (totsize - 1)

LEMMA AccountedAtFirst == AllocatorInit => Accounted
<1> SUFFICES ASSUME AllocatorInit PROVE Accounted
  OBVIOUS
<1>1. slots = <<>> /\ totsize = 0 /\ used = {}
  BY DEF AllocatorInit
<1>2. slots \in Seq(FreeSlots) /\ DOMAIN slots = {}
  BY <1>1
<1>3. InOrder(slots) /\ FreeBytes(slots) = {}
  BY <1>2 DEF InOrder, FreeBytes
<1>4. Taken(used) = {} /\ 0 .. (totsize - 1) = {}
  BY <1>1 DEF Taken
<1> QED
  BY <1>1, <1>2, <1>3, <1>4 DEF Accounted

LEMMA AllocateKeepsAccounts ==
    ASSUME Accounted, NEW n \in Requests, Allocate(n)
    PROVE  Accounted'
<1>1. n \in Nat \ {0}
  BY RequestsAssumption
<1>2. PICK y, o, u : /\ y = SizeFor(slots, totsize, n) /\ o = PlaceFor(slots, totsize, n)
                     /\ u = TableLeft(slots, totsize, n)
  OBVIOUS
<1>3. used' = used \union {Slot(o, n)} /\ totsize' = y /\ slots' = u
  BY <1>2 DEF Allocate, SizeFor, TableFor, SlotFor, PlaceFor, TableLeft
<1>7. slots \in Seq(FreeSlots) /\ InOrder(slots) /\ totsize \in Nat
  BY DEF Accounted
<1>8. FreeBytes(slots) \subseteq 0 .. (totsize - 1) /\ Taken(used) \subseteq 0 .. (totsize - 1)
  BY DEF Accounted
<1> DEFINE s == Slot(o, n)
           taken == Stretch(o, n)
           new == totsize .. (y - 1)
<1>9. /\ y \in Nat /\ totsize <= y /\ o \in Nat /\ u \in Seq(FreeSlots)
      /\ InOrder(u) /\ taken \subseteq FreeBytes(slots) \union new
      /\ FreeBytes(u) = (FreeBytes(slots) \union new) \ taken
  BY <1>1, <1>2, <1>7, <1>8, Allotted
<1>10. s \in FreeSlots /\ BytesOf(s) = taken
  <2>1. s \in FreeSlots /\ SlotEnd(s) = o + n /\ s.offset = o
    <3>1. n \in Nat /\ n > 0 /\ o \in Nat
      BY <1>1, <1>9
    <3> QED
      BY <3>1, SlotMade
  <2>2. BytesOf(s) = s.offset .. (SlotEnd(s) - 1)
    BY DEF BytesOf
  <2> HIDE DEF s
  <2> QED
    BY <1>1, <1>9, <2>1, <2>2 DEF Stretch
<1>11. used' = used \union {s} /\ totsize' = y /\ slots' = u
  BY <1>3
<1>12. Taken(used') = Taken(used) \union taken
  <2> HIDE DEF s, taken
  <2> QED
    BY <1>10, <1>11 DEF Taken
<1>13. taken \cap Taken(used) = {}
  <2>1. ASSUME NEW b \in taken, b \in Taken(used) PROVE FALSE
    <3>1. b \in FreeBytes(slots) \/ b \in new
      BY <1>9, <2>1
    <3>2. b \in 0 .. (totsize - 1) /\ b \notin FreeBytes(slots)
      BY <1>8, <2>1 DEF Accounted
    <3> QED
      BY <1>7, <1>9, <3>1, <3>2
  <2> QED
    BY <2>1
<1>14. new \union (0 .. (totsize - 1)) = 0 .. (y - 1) /\ new \cap (0 .. (totsize - 1)) = {}
  BY <1>7, <1>9
<1> HIDE DEF s, taken, new
<1>15. \A q, r \in used \union {s} : q # r => BytesOf(q) \cap BytesOf(r) = {}
  <2> SUFFICES ASSUME NEW q \in used \union {s}, NEW r \in used \union {s}, q # r
               PROVE  BytesOf(q) \cap BytesOf(r) = {}
    OBVIOUS
  <2>1. \A x \in used : BytesOf(x) \subseteq Taken(used)
    BY DEF Taken
  <2>2. CASE q \in used /\ r \in used
    BY <2>2 DEF Accounted
  <2>3. CASE q = s \/ r = s
    BY <1>10, <1>13, <2>1, <2>3
  <2> QED
    BY <2>2, <2>3
<1>16. (Taken(used) \union taken) \cap FreeBytes(u) = {}
  <2>1. Taken(used) \cap FreeBytes(slots) = {} /\ Taken(used) \cap new = {}
    BY <1>8, <1>14 DEF Accounted
  <2> QED
    BY <1>9, <2>1
<1>17. (Taken(used) \union taken) \union FreeBytes(u) = 0 .. (y - 1)
  <2>1. (Taken(used) \union FreeBytes(slots)) \union new = 0 .. (y - 1)
    BY <1>14 DEF Accounted
  <2> QED
    BY <1>9, <2>1
<1>18. used \union {s} \subseteq FreeSlots
  BY <1>10 DEF Accounted
<1> QED
  BY <1>9, <1>11, <1>12, <1>15, <1>16, <1>17, <1>18 DEF Accounted

LEMMA FreeKeepsAccounts ==
    ASSUME Accounted, NEW s \in used, Free(s)
    PROVE  Accounted'
<1>1. slots \in Seq(FreeSlots) /\ InOrder(slots) /\ totsize \in Nat /\ s \in FreeSlots
  BY DEF Accounted
<1>2. PICK o, c : o = s.offset /\ c = s.capacity
  OBVIOUS
<1>3. o \in Nat /\ c \in Nat \ {0} /\ BytesOf(s) = Stretch(o, c)
  BY <1>1, <1>2 DEF FreeSlots, BytesOf, SlotEnd, Stretch
<1>4. PICK u : u = FreeSlot(slots, o, c)
  OBVIOUS
<1>5. slots' = u /\ used' = used \ {s} /\ totsize' = totsize
  BY <1>2, <1>4 DEF Free
<1>6. BytesOf(s) \subseteq Taken(used)
  BY DEF Taken
<1>7. \A b \in Stretch(o, c) : b \notin FreeBytes(slots)
  BY <1>3, <1>6 DEF Accounted
<1>8. InOrder(u) /\ FreeBytes(u) = FreeBytes(slots) \union Stretch(o, c)
  BY <1>1, <1>3, <1>4, <1>7, FreeRight
<1>9. u \in Seq(FreeSlots)
  BY <1>1, <1>3, <1>4, FreeTyped
<1>10. Taken(used \ {s}) = Taken(used) \ BytesOf(s)
  <2>1. ASSUME NEW r \in used \ {s} PROVE BytesOf(r) \cap BytesOf(s) = {}
    BY DEF Accounted
  <2>2. ASSUME NEW b \in Taken(used \ {s}) PROVE b \in Taken(used) \ BytesOf(s)
    BY <2>1 DEF Taken
  <2>3. ASSUME NEW b \in Taken(used) \ BytesOf(s) PROVE b \in Taken(used \ {s})
    BY DEF Taken
  <2> QED
    BY <2>2, <2>3
<1>11. Taken(used \ {s}) \cap FreeBytes(u) = {}
  BY <1>3, <1>8, <1>10 DEF Accounted
<1>12. Taken(used \ {s}) \union FreeBytes(u) = 0 .. (totsize - 1)
  <2>1. Taken(used) \union FreeBytes(slots) = 0 .. (totsize - 1)
    BY DEF Accounted
  <2> QED
    BY <1>3, <1>6, <1>8, <1>10, <2>1
<1> QED
  BY <1>1, <1>5, <1>8, <1>9, <1>11, <1>12 DEF Accounted

(* An ordered table that holds every byte of the file is one slot. *)
LEMMA OneSlot ==
    ASSUME NEW t \in Seq(FreeSlots), InOrder(t), NEW z \in Nat, z > 0,
           FreeBytes(t) = 0 .. (z - 1)
    PROVE  t = <<Slot(0, z)>>
<1>n. PICK n : n = Len(t)
  OBVIOUS
<1>1. /\ n \in Nat /\ DOMAIN t = 1 .. n
      /\ \A j \in 1 .. n : /\ t[j] \in FreeSlots /\ t[j].offset \in Nat /\ t[j].capacity \in Nat
                           /\ SlotEnd(t[j]) \in Nat /\ t[j].offset < SlotEnd(t[j])
                           /\ SlotEnd(t[j]) = t[j].offset + t[j].capacity
  BY <1>n, SlotNumbers
<1>2. \A j, k \in 1 .. n : j < k => SlotEnd(t[j]) < t[k].offset
  BY <1>1 DEF InOrder
<1>f. \A b : b \in 0 .. (z - 1) <=>
                b \in Nat /\ \E j \in 1 .. n : t[j].offset <= b /\ b < SlotEnd(t[j])
  BY <1>1 DEF FreeBytes
<1>3. PICK i \in 1 .. n : t[i].offset = 0
  <2>1. 0 \in 0 .. (z - 1)
    OBVIOUS
  <2>2. PICK i \in 1 .. n : t[i].offset <= 0
    BY <1>f, <2>1
  <2>3. t[i].offset = 0
    BY <1>1, <2>2
  <2> QED
    BY <2>3
<1>4. \A j \in 1 .. n : SlotEnd(t[j]) <= z
  <2> TAKE j \in 1 .. n
  <2>1. SlotEnd(t[j]) - 1 \in Nat /\ t[j].offset <= SlotEnd(t[j]) - 1
        /\ SlotEnd(t[j]) - 1 < SlotEnd(t[j])
    BY <1>1
  <2>2. SlotEnd(t[j]) - 1 \in 0 .. (z - 1)
    BY <1>f, <2>1
  <2> QED
    BY <1>1, <2>2
<1>5. SlotEnd(t[i]) = z
  <2> SUFFICES ASSUME SlotEnd(t[i]) # z PROVE FALSE
    OBVIOUS
  <2>1. SlotEnd(t[i]) \in 0 .. (z - 1)
    BY <1>1, <1>4
  <2>2. PICK j \in 1 .. n : t[j].offset <= SlotEnd(t[i]) /\ SlotEnd(t[i]) < SlotEnd(t[j])
    BY <1>f, <2>1
  <2>3. CASE i < j
    BY <1>1, <1>2, <2>2, <2>3
  <2>4. CASE j <= i
    <3>1. j < i => SlotEnd(t[j]) < t[i].offset
      BY <1>2
    <3> QED
      BY <1>1, <1>3, <2>2, <2>4, <3>1
  <2> QED
    BY <2>3, <2>4
<1>6. \A j \in 1 .. n : j = i
  <2> SUFFICES ASSUME NEW j \in 1 .. n, j # i PROVE FALSE
    OBVIOUS
  <2>1. CASE j < i
    <3>1. SlotEnd(t[j]) < 0
      BY <1>2, <1>3, <2>1
    <3> QED
      BY <1>1, <3>1
  <2>2. CASE i < j
    <3>1. z < t[j].offset /\ SlotEnd(t[j]) <= z
      BY <1>2, <1>4, <1>5, <2>2
    <3> QED
      BY <1>1, <3>1
  <2> QED
    BY <2>1, <2>2
<1>7. n = 1 /\ i = 1
  <2>1. 1 \in 1 .. n /\ n \in 1 .. n
    BY <1>1
  <2> QED
    BY <1>6, <2>1
<1>8. t[1] = Slot(0, z)
  <2>1. t[1] \in FreeSlots /\ t[1].offset = 0 /\ t[1].capacity = z
    BY <1>1, <1>3, <1>5, <1>7
  <2> QED
    BY <2>1 DEF Slot, FreeSlots
<1> QED
  BY <1>7, <1>8, <1>n

LEMMA AccountedMeans == Accounted => FileAccountedFor
<1> SUFFICES ASSUME Accounted PROVE FileAccountedFor
  OBVIOUS
<1>1. /\ DOMAIN slots = 1 .. Len(slots) /\ slots \in Seq(FreeSlots) /\ Len(slots) \in Nat
      /\ InOrder(slots) /\ totsize \in Nat
      /\ \A j \in 1 .. Len(slots) :
            slots[j].offset \in Nat /\ SlotEnd(slots[j]) \in Nat
  BY SlotNumbers DEF Accounted
<1>2. \A i, j \in DOMAIN slots : i < j => SlotEnd(slots[i]) < slots[j].offset
  BY <1>1 DEF InOrder
<1>3. \A i, j \in DOMAIN slots : i # j => BytesOf(slots[i]) \cap BytesOf(slots[j]) = {}
  <2> SUFFICES ASSUME NEW i \in 1 .. Len(slots), NEW j \in 1 .. Len(slots), i # j,
                      NEW b \in BytesOf(slots[i]), b \in BytesOf(slots[j])
               PROVE  FALSE
    BY <1>1
  <2>1. /\ b \in Int /\ slots[i].offset <= b /\ b < SlotEnd(slots[i])
        /\ slots[j].offset <= b /\ b < SlotEnd(slots[j])
    BY <1>1 DEF BytesOf
  <2>2. i < j \/ j < i
    BY <1>1
  <2> QED
    BY <1>1, <1>2, <2>1, <2>2, SMTT(40)
<1>4. UNION {BytesOf(slots[i]) : i \in DOMAIN slots} = FreeBytes(slots)
  <2>1. ASSUME NEW b
        PROVE  (\E i \in DOMAIN slots : b \in BytesOf(slots[i])) <=> b \in FreeBytes(slots)
    <3>1. \A i \in DOMAIN slots :
              b \in BytesOf(slots[i])
                <=> b \in Nat /\ slots[i].offset <= b /\ b < SlotEnd(slots[i])
      BY <1>1 DEF BytesOf
    <3> QED
      BY <3>1 DEF FreeBytes
  <2> QED
    BY <2>1
<1>5. BytesPartitioned
  <2>1. \A r, s \in used : r # s => BytesOf(r) \cap BytesOf(s) = {}
    BY DEF Accounted
  <2>2. /\ Taken(used) \cap FreeBytes(slots) = {}
        /\ Taken(used) \union FreeBytes(slots) = 0 .. (totsize - 1)
    BY DEF Accounted
  <2> QED
    BY <1>3, <1>4, <2>1, <2>2 DEF BytesPartitioned, Taken
<1>6. ASSUME used = {}, totsize > 0 PROVE slots = <<Slot(0, totsize)>>
  <2>1. Taken(used) = {}
    BY <1>6 DEF Taken
  <2>2. FreeBytes(slots) = 0 .. (totsize - 1)
    BY <2>1 DEF Accounted
  <2> QED
    BY <1>1, <1>6, <2>2, OneSlot
<1> QED
  BY <1>2, <1>5, <1>6 DEF FileAccountedFor, FreeSpaceJoined

(* Given back what was taken from it, in whatever order, the table of free   *)
(* slots accounts for every byte of the file once, and joins all free bytes  *)
(* that touch: for every set of requests, however large the file becomes.    *)
THEOREM FileIsAccountedFor == AllocatorSpec => []FileAccountedFor
<1>1. Accounted /\ [AllocatorNext]_allocatorVars => Accounted'
  <2> SUFFICES ASSUME Accounted, [AllocatorNext]_allocatorVars PROVE Accounted'
    OBVIOUS
  <2>1. CASE \E n \in Requests : Allocate(n)
    BY <2>1, AllocateKeepsAccounts
  <2>2. CASE \E s \in used : Free(s)
    BY <2>2, FreeKeepsAccounts
  <2>3. CASE UNCHANGED allocatorVars
    BY <2>3 DEF allocatorVars, Accounted
  <2> QED
    BY <2>1, <2>2, <2>3 DEF AllocatorNext
<1> QED
  BY <1>1, AccountedAtFirst, AccountedMeans, PTL DEF AllocatorSpec

-----------------------------------------------------------------------------
(* The storage of the inverted lists. *)

StorageOf(L, t, z, m) == [lists |-> L, slots |-> t, totsize |-> z, mem |-> m]

(* A list changed from d to e. *)
WithList(L, l, e) == [L EXCEPT ![l] = e]

(* A list that only changes its size. *)
WithSize(L, l, n) == [L EXCEPT ![l].size = n]

(* An entry has at least two bytes, so a region is longer than its capacity. *)
LEMMA RegionsAreLonger ==
    /\ EntryBytes \in Nat /\ EntryBytes > 0
    /\ \A c \in Nat : /\ c * EntryBytes \in Nat /\ c <= c * EntryBytes
                      /\ c > 0 => c * EntryBytes > 0
<1>1. PICK e : e = EntryBytes
  OBVIOUS
<1>2. e \in Nat /\ e >= 1
  BY <1>1, SizesAssumption DEF EntryBytes
<1>3. ASSUME NEW c \in Nat PROVE c * e \in Nat /\ c <= c * e /\ (c > 0 => c * e > 0)
  <2>1. c * e = c + c * (e - 1) /\ c * (e - 1) \in Nat
    BY <1>2
  <2> QED
    BY <1>2, <2>1
<1> QED
  BY <1>1, <1>2, <1>3

LEMMA AllocateIs ==
    ASSUME NEW L, NEW t, NEW z, NEW m, NEW n
    PROVE  /\ allocate_slot(StorageOf(L, t, z, m), n).offset = PlaceFor(t, z, n)
           /\ allocate_slot(StorageOf(L, t, z, m), n).st =
                 StorageOf(L, TableLeft(t, z, n), SizeFor(t, z, n), m)
<1> DEFINE st == StorageOf(L, t, z, m)
           new == NewTotsize(z, n)
           grown == IF Fitting(t, n) # {} THEN st
                    ELSE [st EXCEPT !.slots = AddSpace(@, z, new), !.totsize = new]
           i == Min(Fitting(grown.slots, n))
<1>1. st.slots = t /\ st.totsize = z
  BY DEF StorageOf
<1>2. allocate_slot(st, n) = [offset |-> grown.slots[i].offset,
                              st |-> [grown EXCEPT !.slots = TakeFrom(@, i, n)]]
  BY <1>1 DEF allocate_slot
<1>3. grown = StorageOf(L, TableFor(t, z, n), SizeFor(t, z, n), m)
  BY DEF StorageOf, TableFor, SizeFor
<1>4. grown.slots = TableFor(t, z, n) /\ i = SlotFor(t, z, n)
  BY <1>3 DEF StorageOf, SlotFor
<1>5. [grown EXCEPT !.slots = TakeFrom(@, i, n)]
         = StorageOf(L, TableLeft(t, z, n), SizeFor(t, z, n), m)
  <2> HIDE DEF grown, i
  <2> QED
    BY <1>3, <1>4 DEF StorageOf, TableLeft
<1>6. grown.slots[i].offset = PlaceFor(t, z, n)
  <2> HIDE DEF grown, i
  <2> QED
    BY <1>4 DEF PlaceFor
<1> HIDE DEF grown, i
<1> QED
  BY <1>2, <1>5, <1>6

LEMMA MoveIs ==
    ASSUME NEW L, NEW t, NEW z, NEW m, NEW l, NEW e
    PROVE  \E k : MoveList(StorageOf(L, t, z, m), l, e) = StorageOf(WithList(L, l, e), t, z, k)
<1> DEFINE st == StorageOf(L, t, z, m)
<1>1. PICK k : MoveList(st, l, e) = [st EXCEPT !.lists[l] = e, !.mem = k]
  BY DEF MoveList
<1>2. [st EXCEPT !.lists[l] = e, !.mem = k] = StorageOf(WithList(L, l, e), t, z, k)
  <2>1. [st EXCEPT !.lists[l] = e] = StorageOf(WithList(L, l, e), t, z, m)
    BY DEF StorageOf, WithList
  <2>2. [StorageOf(WithList(L, l, e), t, z, m) EXCEPT !.mem = k]
           = StorageOf(WithList(L, l, e), t, z, k)
    BY DEF StorageOf
  <2>3. [st EXCEPT !.lists[l] = e, !.mem = k] = [[st EXCEPT !.lists[l] = e] EXCEPT !.mem = k]
    <3> HIDE DEF st
    <3> QED
      OBVIOUS
  <2> QED
    BY <2>1, <2>2, <2>3
<1> QED
  BY <1>1, <1>2

LEMMA FreedIs ==
    ASSUME NEW L, NEW t, NEW z, NEW m, NEW l
    PROVE  Freed(StorageOf(L, t, z, m), l) =
              StorageOf(L, FreeSlot(t, L[l].offset, L[l].capacity), z, m)
BY DEF Freed, StorageOf

(* The three outcomes of resize_locked. *)
ResizedTo(L, t, l, n, free, place, c, K, u, y, z) ==
    \/ K = WithSize(L, l, n) /\ u = t /\ y = z /\ n <= L[l].capacity
    \/ n = 0 /\ K = WithList(L, l, NoSpace) /\ u = free /\ y = z
    \/ /\ n > 0 /\ K = WithList(L, l, [size |-> n, capacity |-> c, offset |-> place])
       /\ u = TableLeft(free, z, c * EntryBytes)
       /\ y = SizeFor(free, z, c * EntryBytes)

LEMMA ResizeIs ==
    ASSUME NEW L, NEW t, NEW z, NEW m, NEW l, NEW n \in Nat
    PROVE  \E K, u, y, k :
              /\ resize_locked(StorageOf(L, t, z, m), l, n) = StorageOf(K, u, y, k)
              /\ LET free == FreeSlot(t, L[l].offset, L[l].capacity)
                     c == RoundedCapacity(n)
                 IN  ResizedTo(L, t, l, n, free, PlaceFor(free, z, c * EntryBytes), c, K, u, y, z)
<1> DEFINE st == StorageOf(L, t, z, m)
           free == FreeSlot(t, L[l].offset, L[l].capacity)
           c == RoundedCapacity(n)
           bytes == c * EntryBytes
           a == allocate_slot(Freed(st, l), bytes)
           e == [size |-> n, capacity |-> c, offset |-> PlaceFor(free, z, bytes)]
           Outcome(K, u, y) ==
               ResizedTo(L, t, l, n, free, PlaceFor(free, z, bytes), c, K, u, y, z)
<1>1. Freed(st, l) = StorageOf(L, free, z, m)
  BY FreedIs
<1>2. /\ a.offset = PlaceFor(free, z, bytes)
      /\ a.st = StorageOf(L, TableLeft(free, z, bytes), SizeFor(free, z, bytes), m)
  <2> HIDE DEF free, bytes
  <2> QED
    BY <1>1, AllocateIs
<1>3. st.lists = L
  BY DEF StorageOf
<1>4. resize_locked(st, l, n) =
        CASE FitsSlot(st, l, n) -> [st EXCEPT !.lists[l].size = n]
          [] ~FitsSlot(st, l, n) /\ n = 0 -> MoveList(Freed(st, l), l, NoSpace)
          [] ~FitsSlot(st, l, n) /\ n > 0 ->
                MoveList(a.st, l, [size |-> n, capacity |-> c, offset |-> a.offset])
  BY DEF resize_locked
<1> SUFFICES \E K, u, y, k : resize_locked(st, l, n) = StorageOf(K, u, y, k) /\ Outcome(K, u, y)
  OBVIOUS
<1>5. CASE FitsSlot(st, l, n)
  <2>1. resize_locked(st, l, n) = [st EXCEPT !.lists[l].size = n]
    BY <1>4, <1>5
  <2>2. [st EXCEPT !.lists[l].size = n] = StorageOf(WithSize(L, l, n), t, z, m)
    BY DEF StorageOf, WithSize
  <2>3. n <= L[l].capacity
    BY <1>3, <1>5 DEF FitsSlot
  <2>4. Outcome(WithSize(L, l, n), t, z)
    BY <2>3 DEF ResizedTo
  <2> HIDE DEF Outcome
  <2> QED
    BY <2>1, <2>2, <2>4
<1>6. CASE ~FitsSlot(st, l, n) /\ n = 0
  <2>1. resize_locked(st, l, n) = MoveList(StorageOf(L, free, z, m), l, NoSpace)
    <3>1. ~(n > 0)
      BY <1>6
    <3> HIDE DEF free, a, st, c
    <3> QED
      BY <1>1, <1>4, <1>6, <3>1
  <2>2. PICK k : MoveList(StorageOf(L, free, z, m), l, NoSpace)
                   = StorageOf(WithList(L, l, NoSpace), free, z, k)
    <3> HIDE DEF free
    <3> QED
      BY MoveIs
  <2>3. Outcome(WithList(L, l, NoSpace), free, z)
    BY <1>6 DEF ResizedTo
  <2> HIDE DEF Outcome, free, st
  <2> QED
    BY <2>1, <2>2, <2>3
<1>7. CASE ~FitsSlot(st, l, n) /\ n > 0
  <2>1. resize_locked(st, l, n) = MoveList(a.st, l, e)
    <3>1. resize_locked(st, l, n) =
             MoveList(a.st, l, [size |-> n, capacity |-> c, offset |-> a.offset])
      <4>1. ~(n = 0)
        BY <1>7
      <4> HIDE DEF a, c, st
      <4> QED
        BY <1>4, <1>7, <4>1
    <3> HIDE DEF a, c, st, free, bytes
    <3> QED
      BY <1>2, <3>1
  <2> DEFINE u == TableLeft(free, z, bytes)
             y == SizeFor(free, z, bytes)
  <2>2. resize_locked(st, l, n) = MoveList(StorageOf(L, u, y, m), l, e)
    <3> HIDE DEF a, e, st
    <3> QED
      BY <1>2, <2>1
  <2>3. PICK k : MoveList(StorageOf(L, u, y, m), l, e) = StorageOf(WithList(L, l, e), u, y, k)
    <3> HIDE DEF u, y, e
    <3> QED
      BY MoveIs
  <2>4. Outcome(WithList(L, l, e), u, y)
    BY <1>7 DEF ResizedTo
  <2> HIDE DEF Outcome, free, st, u, y, e
  <2> QED
    BY <2>2, <2>3, <2>4
<1>8. n = 0 \/ n > 0
  OBVIOUS
<1> QED
  BY <1>5, <1>6, <1>7, <1>8

LEMMA UpdateIs ==
    ASSUME NEW L, NEW t, NEW z, NEW m, NEW l, NEW first, NEW entries
    PROVE  \E k : update_entries(StorageOf(L, t, z, m), l, first, entries)
                     = StorageOf(L, t, z, k)
<1> DEFINE st == StorageOf(L, t, z, m)
<1>1. PICK k : update_entries(st, l, first, entries) = [st EXCEPT !.mem = k]
  BY DEF update_entries
<1>2. [st EXCEPT !.mem = k] = StorageOf(L, t, z, k)
  BY DEF StorageOf
<1> QED
  BY <1>1, <1>2

(* A list's descriptor is sound: a list that has space knows where. *)
Sound(d) ==
    /\ d \in [size : Nat, capacity : Nat, offset : Nat \union {INVALID_OFFSET}]
    /\ d.size <= d.capacity
    /\ d.capacity > 0 => d.offset \in Nat

(* The bytes that a list owns. *)
Region(d) == {b \in Nat : d.offset <= b /\ b < d.offset + d.capacity * EntryBytes}

(* Storage of the right types. *)
WellTyped(L, t, z) ==
    /\ \E n \in Nat : DOMAIN L = 0 .. (n - 1)
    /\ \A l \in DOMAIN L : Sound(L[l])
    /\ t \in Seq(FreeSlots)
    /\ z \in Nat

(* Storage in which no byte has two owners. *)
Apart(L, t, z) ==
    /\ InOrder(t)
    /\ FreeBytes(t) \subseteq 0 .. (z - 1)
    /\ \A l \in DOMAIN L : /\ Region(L[l]) \subseteq 0 .. (z - 1)
                           /\ Region(L[l]) \cap FreeBytes(t) = {}
    /\ \A k, l \in DOMAIN L : k # l => Region(L[k]) \cap Region(L[l]) = {}

LEMMA SoundTypes ==
    ASSUME NEW d, Sound(d)
    PROVE  /\ d.size \in Nat /\ d.capacity \in Nat /\ d.offset \in Int
           /\ d.size <= d.capacity
           /\ d.capacity > 0 => d.offset \in Nat
BY DEF Sound, INVALID_OFFSET

LEMMA NoSpaceIsSound == Sound(NoSpace) /\ Region(NoSpace) = {}
<1>1. Sound(NoSpace)
  BY DEF Sound, NoSpace, INVALID_OFFSET
<1>2. NoSpace.offset = -1 /\ NoSpace.capacity = 0
  BY DEF NoSpace, INVALID_OFFSET
<1>3. NoSpace.offset + NoSpace.capacity * EntryBytes = -1
  BY <1>2, RegionsAreLonger
<1>4. \A b \in Nat : ~(b < -1)
  OBVIOUS
<1> QED
  BY <1>1, <1>3, <1>4 DEF Region

(* resize_locked gives back the first bytes of a region, and nothing else. *)
LEMMA GivenBack ==
    ASSUME NEW t \in Seq(FreeSlots), NEW d, Sound(d),
           NEW free, free = FreeSlot(t, d.offset, d.capacity)
    PROVE  /\ free \in Seq(FreeSlots)
           /\ InOrder(t) /\ Region(d) \cap FreeBytes(t) = {} =>
                 /\ InOrder(free)
                 /\ FreeBytes(free) = FreeBytes(t) \union Stretch(d.offset, d.capacity)
                 /\ FreeBytes(t) \subseteq FreeBytes(free)
                 /\ FreeBytes(free) \subseteq FreeBytes(t) \union Region(d)
<1>1. PICK o, c : o = d.offset /\ c = d.capacity
  OBVIOUS
<1>2. o \in Int /\ c \in Nat /\ (c > 0 => o \in Nat) /\ free = FreeSlot(t, o, c)
  BY <1>1, SoundTypes
<1>3. CASE c = 0
  <2>1. free = t
    BY <1>2, <1>3, FreeNothing
  <2>2. Stretch(d.offset, d.capacity) = {}
    BY <1>1, <1>2, <1>3 DEF Stretch
  <2> QED
    BY <2>1, <2>2
<1>4. CASE c # 0
  <2>1. c \in Nat \ {0} /\ o \in Nat
    BY <1>2, <1>4
  <2>2. free \in Seq(FreeSlots)
    BY <1>2, <2>1, FreeTyped
  <2>3. Stretch(o, c) \subseteq Region(d)
    <3> SUFFICES ASSUME NEW b \in Stretch(o, c) PROVE b \in Region(d)
      OBVIOUS
    <3>1. b \in Nat /\ o <= b /\ b < o + c
      BY <1>2, <2>1 DEF Stretch
    <3>2. c <= c * EntryBytes /\ c * EntryBytes \in Nat
      BY <1>2, RegionsAreLonger
    <3>3. b < o + c * EntryBytes
      BY <1>2, <2>1, <3>1, <3>2
    <3> QED
      BY <1>1, <3>1, <3>3 DEF Region
  <2>4. ASSUME InOrder(t), Region(d) \cap FreeBytes(t) = {}
        PROVE  /\ InOrder(free)
               /\ FreeBytes(free) = FreeBytes(t) \union Stretch(o, c)
               /\ FreeBytes(t) \subseteq FreeBytes(free)
               /\ FreeBytes(free) \subseteq FreeBytes(t) \union Region(d)
    <3>1. \A b \in Stretch(o, c) : b \notin FreeBytes(t)
      BY <2>3, <2>4
    <3>2. InOrder(free) /\ FreeBytes(free) = FreeBytes(t) \union Stretch(o, c)
      BY <1>2, <2>1, <2>4, <3>1, FreeRight
    <3> QED
      BY <2>3, <3>2
  <2> QED
    BY <1>1, <2>2, <2>4
<1> QED
  BY <1>3, <1>4

(* A changed list leaves the others alone. *)
LEMMA WithListIs ==
    ASSUME NEW L, NEW l \in DOMAIN L, NEW e
    PROVE  /\ DOMAIN WithList(L, l, e) = DOMAIN L
           /\ WithList(L, l, e)[l] = e
           /\ \A k \in DOMAIN L : k # l => WithList(L, l, e)[k] = L[k]
BY DEF WithList

LEMMA ResizeSizeOnly ==
    ASSUME NEW L, NEW t, NEW z, WellTyped(L, t, z), NEW l \in DOMAIN L, NEW n \in Nat,
           n <= L[l].capacity, NEW K, K = WithSize(L, l, n)
    PROVE  WellTyped(K, t, z) /\ (Apart(L, t, z) => Apart(K, t, z))
<1>1. Sound(L[l])
  BY DEF WellTyped
<1>2. PICK e : e = [L[l] EXCEPT !.size = n]
  OBVIOUS
<1>3. K = WithList(L, l, e)
  BY <1>2 DEF WithList, WithSize
<1>4. e.size = n /\ e.capacity = L[l].capacity /\ e.offset = L[l].offset
  BY <1>1, <1>2 DEF Sound
<1>5. e \in [size : Nat, capacity : Nat, offset : Nat \union {INVALID_OFFSET}]
  BY <1>1, <1>2 DEF Sound
<1>6. Sound(e)
  BY <1>1, <1>4, <1>5 DEF Sound
<1>7. Region(e) = Region(L[l])
  BY <1>4 DEF Region
<1>8. /\ DOMAIN K = DOMAIN L /\ K[l] = e
      /\ \A k \in DOMAIN L : k # l => K[k] = L[k]
  BY <1>3, WithListIs
<1>9. \A k \in DOMAIN L : Region(K[k]) = Region(L[k])
  BY <1>7, <1>8
<1>10. \A k \in DOMAIN L : Sound(K[k])
  BY <1>6, <1>8 DEF WellTyped
<1>11. WellTyped(K, t, z)
  BY <1>8, <1>10 DEF WellTyped
<1>12. ASSUME Apart(L, t, z) PROVE Apart(K, t, z)
  BY <1>8, <1>9, <1>12 DEF Apart
<1> QED
  BY <1>11, <1>12

LEMMA ResizeToNothing ==
    ASSUME NEW L, NEW t, NEW z, WellTyped(L, t, z), NEW l \in DOMAIN L,
           NEW u, u = FreeSlot(t, L[l].offset, L[l].capacity),
           NEW K, K = WithList(L, l, NoSpace)
    PROVE  WellTyped(K, u, z) /\ (Apart(L, t, z) => Apart(K, u, z))
<1>1. t \in Seq(FreeSlots) /\ Sound(L[l])
  BY DEF WellTyped
<1>2. PICK d : d = L[l]
  OBVIOUS
<1>3. /\ u \in Seq(FreeSlots)
      /\ InOrder(t) /\ Region(d) \cap FreeBytes(t) = {} =>
            /\ InOrder(u)
            /\ FreeBytes(t) \subseteq FreeBytes(u)
            /\ FreeBytes(u) \subseteq FreeBytes(t) \union Region(d)
  BY <1>1, <1>2, GivenBack
<1>4. /\ DOMAIN K = DOMAIN L /\ K[l] = NoSpace
      /\ \A k \in DOMAIN L : k # l => K[k] = L[k]
  BY WithListIs
<1>5. WellTyped(K, u, z)
  <2>1. \A k \in DOMAIN L : Sound(K[k])
    BY <1>4, NoSpaceIsSound DEF WellTyped
  <2> QED
    BY <1>3, <1>4, <2>1 DEF WellTyped
<1>6. ASSUME Apart(L, t, z) PROVE Apart(K, u, z)
  <2>1. InOrder(t) /\ Region(d) \cap FreeBytes(t) = {} /\ Region(d) \subseteq 0 .. (z - 1)
    BY <1>2, <1>6 DEF Apart
  <2>2. InOrder(u) /\ FreeBytes(u) \subseteq FreeBytes(t) \union Region(d)
    BY <1>3, <2>1
  <2>3. FreeBytes(u) \subseteq 0 .. (z - 1)
    BY <1>6, <2>1, <2>2 DEF Apart
  <2>4. Region(K[l]) = {}
    BY <1>4, NoSpaceIsSound
  <2>5. ASSUME NEW k \in DOMAIN L, k # l
        PROVE  /\ Region(K[k]) \subseteq 0 .. (z - 1)
               /\ Region(K[k]) \cap FreeBytes(u) = {}
    <3>1. /\ Region(L[k]) \cap FreeBytes(t) = {} /\ Region(L[k]) \cap Region(d) = {}
          /\ Region(L[k]) \subseteq 0 .. (z - 1)
      BY <1>2, <1>6, <2>5 DEF Apart
    <3>2. K[k] = L[k]
      BY <1>4, <2>5
    <3> QED
      BY <2>2, <3>1, <3>2
  <2>6. ASSUME NEW j \in DOMAIN L, NEW k \in DOMAIN L, j # k
        PROVE  Region(K[j]) \cap Region(K[k]) = {}
    <3>1. CASE j = l \/ k = l
      BY <2>4, <3>1
    <3>2. CASE j # l /\ k # l
      BY <1>4, <1>6, <2>6, <3>2 DEF Apart
    <3> QED
      BY <3>1, <3>2
  <2>7. \A k \in DOMAIN L : /\ Region(K[k]) \subseteq 0 .. (z - 1)
                            /\ Region(K[k]) \cap FreeBytes(u) = {}
    BY <2>4, <2>5
  <2> QED
    BY <1>4, <2>2, <2>3, <2>6, <2>7 DEF Apart
<1> QED
  BY <1>5, <1>6

LEMMA ResizeToOther ==
    ASSUME NEW L, NEW t, NEW z, WellTyped(L, t, z), NEW l \in DOMAIN L,
           NEW n \in Nat, n > 0, NEW c, c = RoundedCapacity(n),
           NEW free, free = FreeSlot(t, L[l].offset, L[l].capacity),
           NEW o, o = PlaceFor(free, z, c * EntryBytes),
           NEW K, K = WithList(L, l, [size |-> n, capacity |-> c, offset |-> o]),
           NEW u, u = TableLeft(free, z, c * EntryBytes),
           NEW y, y = SizeFor(free, z, c * EntryBytes)
    PROVE  WellTyped(K, u, y) /\ (Apart(L, t, z) => Apart(K, u, y))
<1>1. t \in Seq(FreeSlots) /\ Sound(L[l]) /\ z \in Nat
  BY DEF WellTyped
<1>2. PICK d : d = L[l]
  OBVIOUS
<1>3. PICK e : e = [size |-> n, capacity |-> c, offset |-> o]
  OBVIOUS
<1>4. PICK bytes : bytes = c * EntryBytes
  OBVIOUS
<1>5. c \in Nat /\ c >= n /\ c > 0
  BY RoundedCapacityHolds
<1>6. bytes \in Nat \ {0}
  <2>1. c * EntryBytes \in Nat /\ c * EntryBytes > 0
    BY <1>5, RegionsAreLonger
  <2> QED
    BY <1>4, <2>1
<1>7. /\ free \in Seq(FreeSlots)
      /\ InOrder(t) /\ Region(d) \cap FreeBytes(t) = {} =>
            /\ InOrder(free)
            /\ FreeBytes(t) \subseteq FreeBytes(free)
            /\ FreeBytes(free) \subseteq FreeBytes(t) \union Region(d)
  BY <1>1, <1>2, GivenBack
<1>8. o = PlaceFor(free, z, bytes) /\ u = TableLeft(free, z, bytes)
      /\ y = SizeFor(free, z, bytes)
  BY <1>4
<1>9. /\ y \in Nat /\ z <= y /\ o \in Nat /\ u \in Seq(FreeSlots)
      /\ InOrder(free) /\ FreeBytes(free) \subseteq 0 .. (z - 1) =>
            /\ InOrder(u)
            /\ Stretch(o, bytes) \subseteq FreeBytes(free) \union (z .. (y - 1))
            /\ FreeBytes(u) = (FreeBytes(free) \union (z .. (y - 1))) \ Stretch(o, bytes)
  <2>1. z \in Nat /\ bytes \in Nat \ {0} /\ free \in Seq(FreeSlots)
    BY <1>1, <1>6, <1>7
  <2>2. /\ SizeFor(free, z, bytes) \in Nat /\ z <= SizeFor(free, z, bytes)
        /\ PlaceFor(free, z, bytes) \in Nat
        /\ TableLeft(free, z, bytes) \in Seq(FreeSlots)
        /\ InOrder(free) /\ FreeBytes(free) \subseteq 0 .. (z - 1) =>
              /\ InOrder(TableLeft(free, z, bytes))
              /\ Stretch(PlaceFor(free, z, bytes), bytes)
                    \subseteq FreeBytes(free) \union (z .. (SizeFor(free, z, bytes) - 1))
              /\ FreeBytes(TableLeft(free, z, bytes)) =
                    (FreeBytes(free) \union (z .. (SizeFor(free, z, bytes) - 1)))
                       \ Stretch(PlaceFor(free, z, bytes), bytes)
    BY <2>1, Allotted
  <2> QED
    BY <1>8, <2>2
<1>10. /\ DOMAIN K = DOMAIN L /\ K[l] = e
       /\ \A k \in DOMAIN L : k # l => K[k] = L[k]
  BY <1>3, WithListIs
<1>11. Sound(e)
  <2>1. e.size = n /\ e.capacity = c /\ e.offset = o
    BY <1>3
  <2>2. e \in [size : Nat, capacity : Nat, offset : Nat \union {INVALID_OFFSET}]
    BY <1>3, <1>5, <1>9
  <2> QED
    BY <1>5, <1>9, <2>1, <2>2 DEF Sound
<1>12. Region(e) = Stretch(o, bytes)
  <2>1. e.offset = o /\ e.capacity * EntryBytes = bytes
    BY <1>3, <1>4
  <2>2. bytes \in Nat /\ o \in Nat
    BY <1>6, <1>9
  <2>3. \A b : b \in Stretch(o, bytes) <=> b \in Nat /\ o <= b /\ b < o + bytes
    BY <2>2 DEF Stretch
  <2>4. \A b : b \in Region(e) <=> b \in Nat /\ o <= b /\ b < o + bytes
    BY <2>1 DEF Region
  <2> QED
    BY <2>3, <2>4
<1>13. WellTyped(K, u, y)
  <2>1. \A k \in DOMAIN L : Sound(K[k])
    BY <1>10, <1>11 DEF WellTyped
  <2> QED
    BY <1>9, <1>10, <2>1 DEF WellTyped
<1>14. ASSUME Apart(L, t, z) PROVE Apart(K, u, y)
  <2>0. PICK r : r = Stretch(o, bytes)
    OBVIOUS
  <2>1. InOrder(t) /\ Region(d) \cap FreeBytes(t) = {} /\ Region(d) \subseteq 0 .. (z - 1)
    BY <1>2, <1>14 DEF Apart
  <2>2. InOrder(free) /\ FreeBytes(free) \subseteq FreeBytes(t) \union Region(d)
    BY <1>7, <2>1
  <2>3. FreeBytes(free) \subseteq 0 .. (z - 1)
    BY <1>14, <2>1, <2>2 DEF Apart
  <2>4. /\ InOrder(u) /\ r \subseteq FreeBytes(free) \union (z .. (y - 1))
        /\ FreeBytes(u) = (FreeBytes(free) \union (z .. (y - 1))) \ r
    BY <1>9, <2>0, <2>2, <2>3
  <2>5. \A b : /\ b \in 0 .. (z - 1) => b \in 0 .. (y - 1) /\ b \notin z .. (y - 1)
               /\ b \in z .. (y - 1) => b \in 0 .. (y - 1)
    BY <1>1, <1>9
  <2>6. FreeBytes(u) \subseteq 0 .. (y - 1) /\ r \subseteq 0 .. (y - 1)
        /\ r \cap FreeBytes(u) = {}
    BY <2>3, <2>4, <2>5
  <2>7. Region(K[l]) = r
    BY <1>10, <1>12, <2>0
  <2>8. ASSUME NEW k \in DOMAIN L, k # l
        PROVE  /\ Region(K[k]) \subseteq 0 .. (y - 1)
               /\ Region(K[k]) \cap FreeBytes(u) = {}
               /\ Region(K[k]) \cap r = {}
    <3>1. /\ Region(L[k]) \cap FreeBytes(t) = {} /\ Region(L[k]) \cap Region(d) = {}
          /\ Region(L[k]) \subseteq 0 .. (z - 1)
      BY <1>2, <1>14, <2>8 DEF Apart
    <3>2. Region(L[k]) \cap (FreeBytes(free) \union (z .. (y - 1))) = {}
      BY <2>2, <2>5, <3>1
    <3>3. K[k] = L[k]
      BY <1>10, <2>8
    <3> QED
      BY <2>4, <2>5, <3>1, <3>2, <3>3
  <2>9. ASSUME NEW j \in DOMAIN L, NEW k \in DOMAIN L, j # k
        PROVE  Region(K[j]) \cap Region(K[k]) = {}
    <3>1. CASE j = l
      BY <2>7, <2>8, <2>9, <3>1
    <3>2. CASE k = l
      BY <2>7, <2>8, <2>9, <3>2
    <3>3. CASE j # l /\ k # l
      BY <1>10, <1>14, <2>9, <3>3 DEF Apart
    <3> QED
      BY <3>1, <3>2, <3>3
  <2>10. \A k \in DOMAIN L : /\ Region(K[k]) \subseteq 0 .. (y - 1)
                             /\ Region(K[k]) \cap FreeBytes(u) = {}
    BY <2>6, <2>7, <2>8
  <2> QED
    BY <1>10, <2>4, <2>6, <2>9, <2>10 DEF Apart
<1> QED
  BY <1>13, <1>14

(* resize_locked keeps the types, and no byte gets a second owner. *)
LEMMA ResizeKeeps ==
    ASSUME NEW L, NEW t, NEW z, NEW m, WellTyped(L, t, z), NEW l \in DOMAIN L, NEW n \in Nat
    PROVE  \E K, u, y, k :
              /\ resize_locked(StorageOf(L, t, z, m), l, n) = StorageOf(K, u, y, k)
              /\ DOMAIN K = DOMAIN L
              /\ WellTyped(K, u, y)
              /\ Apart(L, t, z) => Apart(K, u, y)
<1>1. PICK free, c : /\ free = FreeSlot(t, L[l].offset, L[l].capacity)
                     /\ c = RoundedCapacity(n)
  OBVIOUS
<1>2. PICK o : o = PlaceFor(free, z, c * EntryBytes)
  OBVIOUS
<1>3. PICK K, u, y, k :
              /\ resize_locked(StorageOf(L, t, z, m), l, n) = StorageOf(K, u, y, k)
              /\ ResizedTo(L, t, l, n, free, o, c, K, u, y, z)
  BY <1>1, <1>2, ResizeIs
<1>4. CASE K = WithSize(L, l, n) /\ u = t /\ y = z /\ n <= L[l].capacity
  <2>1. DOMAIN K = DOMAIN L
    BY <1>4 DEF WithSize
  <2>2. WellTyped(K, u, y) /\ (Apart(L, t, z) => Apart(K, u, y))
    <3>1. WellTyped(K, t, z) /\ (Apart(L, t, z) => Apart(K, t, z))
      BY <1>4, ResizeSizeOnly
    <3> QED
      BY <1>4, <3>1
  <2> QED
    BY <1>3, <2>1, <2>2
<1>5. CASE n = 0 /\ K = WithList(L, l, NoSpace) /\ u = free /\ y = z
  <2>1. DOMAIN K = DOMAIN L
    BY <1>5 DEF WithList
  <2>2. WellTyped(K, u, y) /\ (Apart(L, t, z) => Apart(K, u, y))
    BY <1>1, <1>5, ResizeToNothing
  <2> QED
    BY <1>3, <2>1, <2>2
<1>6. CASE /\ n > 0 /\ K = WithList(L, l, [size |-> n, capacity |-> c, offset |-> o])
           /\ u = TableLeft(free, z, c * EntryBytes)
           /\ y = SizeFor(free, z, c * EntryBytes)
  <2>1. DOMAIN K = DOMAIN L
    BY <1>6 DEF WithList
  <2>2. WellTyped(K, u, y) /\ (Apart(L, t, z) => Apart(K, u, y))
    BY <1>1, <1>2, <1>6, ResizeToOther
  <2> QED
    BY <1>3, <2>1, <2>2
<1> QED
  BY <1>3, <1>4, <1>5, <1>6 DEF ResizedTo

-----------------------------------------------------------------------------
(* Where a list may be copied to. *)

(* No list has a free byte just before its region. *)
Walled(L, t) == \A l \in DOMAIN L : L[l].capacity > 0 => L[l].offset - 1 \notin FreeBytes(t)

(* A list that got another place got one that its old region is not part of. *)
Clear(d, e) ==
    d.capacity > 0 /\ e.capacity > 0 /\ d.offset # e.offset => Region(d) \cap Region(e) = {}

(* A region ends after the bytes that are given back of it. *)
LEMMA RegionIsLonger ==
    ASSUME NEW d, Sound(d), d.capacity > 0
    PROVE  \A x \in Nat : d.offset <= x /\ x <= d.offset + d.capacity => x \in Region(d)
<1>1. PICK o, c, e : o = d.offset /\ c = d.capacity /\ e = EntryBytes
  OBVIOUS
<1>2. o \in Nat /\ c \in Nat /\ c > 0
  BY <1>1, SoundTypes
<1>3. e \in Nat /\ e >= 2
  BY <1>1, SizesAssumption DEF EntryBytes
<1>4. c + 1 <= c * e /\ c * e \in Nat
  <2>1. c * e = c + c * (e - 1) /\ c * (e - 1) = c + c * (e - 2) /\ c * (e - 2) \in Nat
    BY <1>2, <1>3
  <2>2. c * (e - 1) \in Nat
    BY <1>2, <1>3
  <2> QED
    BY <1>2, <2>1, <2>2
<1>5. ASSUME NEW x \in Nat, o <= x, x <= o + c PROVE x < o + c * e
  BY <1>2, <1>4, <1>5
<1> QED
  BY <1>1, <1>5 DEF Region

(* Giving back a region puts no free byte before another list. *)
LEMMA GivenBackKeepsWalls ==
    ASSUME NEW L, NEW t, NEW z, WellTyped(L, t, z), Apart(L, t, z), Walled(L, t),
           NEW l \in DOMAIN L, NEW k \in DOMAIN L, k # l, L[k].capacity > 0,
           NEW free, free = FreeSlot(t, L[l].offset, L[l].capacity)
    PROVE  L[k].offset - 1 \notin FreeBytes(free)
<1>1. PICK o, c, p : o = L[l].offset /\ c = L[l].capacity /\ p = L[k].offset
  OBVIOUS
<1>2. Sound(L[l]) /\ Sound(L[k]) /\ t \in Seq(FreeSlots)
  BY DEF WellTyped
<1>3. o \in Int /\ c \in Nat /\ (c > 0 => o \in Nat) /\ p \in Nat
  BY <1>1, <1>2, SoundTypes
<1>4. FreeBytes(free) = FreeBytes(t) \union Stretch(o, c)
  <2>1. InOrder(t) /\ Region(L[l]) \cap FreeBytes(t) = {}
    BY DEF Apart
  <2>2. PICK d : d = L[l]
    OBVIOUS
  <2>3. Sound(d) /\ free = FreeSlot(t, d.offset, d.capacity)
    BY <1>2, <2>2
  <2>4. /\ free \in Seq(FreeSlots)
        /\ InOrder(t) /\ Region(d) \cap FreeBytes(t) = {} =>
              /\ InOrder(free)
              /\ FreeBytes(free) = FreeBytes(t) \union Stretch(d.offset, d.capacity)
              /\ FreeBytes(t) \subseteq FreeBytes(free)
              /\ FreeBytes(free) \subseteq FreeBytes(t) \union Region(d)
    BY <1>2, <2>3, GivenBack
  <2> QED
    BY <1>1, <2>1, <2>2, <2>4
<1>5. p - 1 \notin FreeBytes(t)
  BY <1>1 DEF Walled
<1>6. p \in Region(L[k])
  BY <1>1, <1>2, <1>3, RegionIsLonger, SoundTypes
<1>7. p - 1 \notin Stretch(o, c)
  <2> SUFFICES ASSUME p - 1 \in Stretch(o, c) PROVE FALSE
    OBVIOUS
  <2>1. o <= p - 1 /\ p - 1 < o + c
    BY <1>3 DEF Stretch
  <2>2. c > 0
    BY <1>3, <2>1
  <2>3. o <= p /\ p <= o + c
    BY <1>3, <2>1
  <2>4. p \in Region(L[l])
    BY <1>1, <1>2, <1>3, <2>2, <2>3, RegionIsLonger
  <2> QED
    BY <1>6, <2>4 DEF Apart
<1> QED
  BY <1>1, <1>4, <1>5, <1>7

LEMMA WallsOfSizeOnly ==
    ASSUME NEW L, NEW t, NEW z, WellTyped(L, t, z), Walled(L, t), NEW l \in DOMAIN L,
           NEW n \in Nat, NEW K, K = WithSize(L, l, n)
    PROVE  /\ \A k \in DOMAIN L : k # l => K[k] = L[k]
           /\ Walled(K, t) /\ Clear(L[l], K[l])
<1>1. Sound(L[l])
  BY DEF WellTyped
<1>2. PICK e : e = [L[l] EXCEPT !.size = n]
  OBVIOUS
<1>3. K = WithList(L, l, e)
  BY <1>2 DEF WithList, WithSize
<1>4. e.capacity = L[l].capacity /\ e.offset = L[l].offset
  BY <1>1, <1>2 DEF Sound
<1>5. /\ DOMAIN K = DOMAIN L /\ K[l] = e
      /\ \A k \in DOMAIN L : k # l => K[k] = L[k]
  BY <1>3, WithListIs
<1>6. \A k \in DOMAIN L : K[k].capacity = L[k].capacity /\ K[k].offset = L[k].offset
  BY <1>4, <1>5
<1> QED
  BY <1>5, <1>6 DEF Walled, Clear

LEMMA WallsOfNothing ==
    ASSUME NEW L, NEW t, NEW z, WellTyped(L, t, z), Apart(L, t, z), Walled(L, t),
           NEW l \in DOMAIN L,
           NEW u, u = FreeSlot(t, L[l].offset, L[l].capacity),
           NEW K, K = WithList(L, l, NoSpace)
    PROVE  /\ \A k \in DOMAIN L : k # l => K[k] = L[k]
           /\ Walled(K, u) /\ Clear(L[l], K[l])
<1>1. /\ DOMAIN K = DOMAIN L /\ K[l] = NoSpace
      /\ \A k \in DOMAIN L : k # l => K[k] = L[k]
  BY WithListIs
<1>2. K[l].capacity = 0
  BY <1>1 DEF NoSpace
<1>3. ASSUME NEW k \in DOMAIN L, k # l, L[k].capacity > 0
      PROVE  L[k].offset - 1 \notin FreeBytes(u)
  BY <1>3, GivenBackKeepsWalls
<1>4. Walled(K, u)
  BY <1>1, <1>2, <1>3 DEF Walled
<1> QED
  BY <1>1, <1>2, <1>4 DEF Clear

LEMMA WallsOfOther ==
    ASSUME NEW L, NEW t, NEW z, WellTyped(L, t, z), Apart(L, t, z), Walled(L, t),
           NEW l \in DOMAIN L, NEW n \in Nat, n > 0, NEW c, c = RoundedCapacity(n),
           NEW free, free = FreeSlot(t, L[l].offset, L[l].capacity),
           NEW p, p = PlaceFor(free, z, c * EntryBytes),
           NEW K, K = WithList(L, l, [size |-> n, capacity |-> c, offset |-> p]),
           NEW u, u = TableLeft(free, z, c * EntryBytes)
    PROVE  /\ \A k \in DOMAIN L : k # l => K[k] = L[k]
           /\ Walled(K, u) /\ Clear(L[l], K[l])
<1>1. t \in Seq(FreeSlots) /\ Sound(L[l]) /\ z \in Nat
  BY DEF WellTyped
<1>2. PICK d, e, bytes, y : /\ d = L[l] /\ e = [size |-> n, capacity |-> c, offset |-> p]
                            /\ bytes = c * EntryBytes /\ y = SizeFor(free, z, bytes)
  OBVIOUS
<1>3. c \in Nat /\ c > 0
  BY RoundedCapacityHolds
<1>4. bytes \in Nat \ {0}
  <2>1. c * EntryBytes \in Nat /\ c * EntryBytes > 0
    BY <1>3, RegionsAreLonger
  <2> QED
    BY <1>2, <2>1
<1>5. Sound(d) /\ free = FreeSlot(t, d.offset, d.capacity)
  BY <1>1, <1>2
<1>6. InOrder(t) /\ FreeBytes(t) \subseteq 0 .. (z - 1)
      /\ Region(d) \cap FreeBytes(t) = {} /\ Region(d) \subseteq 0 .. (z - 1)
  BY <1>2 DEF Apart
<1>7. /\ free \in Seq(FreeSlots)
      /\ InOrder(t) /\ Region(d) \cap FreeBytes(t) = {} =>
            /\ InOrder(free)
            /\ FreeBytes(free) = FreeBytes(t) \union Stretch(d.offset, d.capacity)
            /\ FreeBytes(t) \subseteq FreeBytes(free)
            /\ FreeBytes(free) \subseteq FreeBytes(t) \union Region(d)
  BY <1>1, <1>5, GivenBack
<1>8. InOrder(free) /\ FreeBytes(free) \subseteq 0 .. (z - 1)
      /\ FreeBytes(free) = FreeBytes(t) \union Stretch(d.offset, d.capacity)
  BY <1>6, <1>7
<1> DEFINE grown == FreeBytes(free) \union (z .. (y - 1))
<1>9. /\ y \in Nat /\ z <= y /\ p \in Nat
      /\ Stretch(p, bytes) \subseteq grown
      /\ FreeBytes(u) = grown \ Stretch(p, bytes)
  <2>1. /\ p = PlaceFor(free, z, bytes) /\ u = TableLeft(free, z, bytes)
        /\ y = SizeFor(free, z, bytes)
    BY <1>2
  <2>2. z \in Nat /\ bytes \in Nat \ {0} /\ free \in Seq(FreeSlots)
    BY <1>1, <1>4, <1>7
  <2>3. /\ SizeFor(free, z, bytes) \in Nat /\ z <= SizeFor(free, z, bytes)
        /\ PlaceFor(free, z, bytes) \in Nat
        /\ TableLeft(free, z, bytes) \in Seq(FreeSlots)
        /\ InOrder(free) /\ FreeBytes(free) \subseteq 0 .. (z - 1) =>
              /\ InOrder(TableLeft(free, z, bytes))
              /\ Stretch(PlaceFor(free, z, bytes), bytes)
                    \subseteq FreeBytes(free) \union (z .. (SizeFor(free, z, bytes) - 1))
              /\ FreeBytes(TableLeft(free, z, bytes)) =
                    (FreeBytes(free) \union (z .. (SizeFor(free, z, bytes) - 1)))
                       \ Stretch(PlaceFor(free, z, bytes), bytes)
    BY <2>2, Allotted
  <2> QED
    BY <1>8, <2>1, <2>3
<1>10. p - 1 \notin grown
  <2>1. PlaceFor(free, z, bytes) - 1
           \notin FreeBytes(free) \union (z .. (SizeFor(free, z, bytes) - 1))
    BY <1>1, <1>4, <1>7, <1>8, PlaceIsWalled
  <2> QED
    BY <1>2, <2>1
<1>11. /\ DOMAIN K = DOMAIN L /\ K[l] = e
       /\ \A k \in DOMAIN L : k # l => K[k] = L[k]
  BY <1>2, WithListIs
<1>12. e.offset = p /\ e.capacity = c /\ Region(e) = Stretch(p, bytes)
  <2>1. e.offset = p /\ e.capacity = c /\ e.capacity * EntryBytes = bytes
    BY <1>2
  <2>2. bytes \in Nat /\ p \in Nat
    BY <1>4, <1>9
  <2>3. \A b : b \in Stretch(p, bytes) <=> b \in Nat /\ p <= b /\ b < p + bytes
    BY <2>2 DEF Stretch
  <2>4. \A b : b \in Region(e) <=> b \in Nat /\ p <= b /\ b < p + bytes
    BY <2>1 DEF Region
  <2> QED
    BY <2>1, <2>3, <2>4
<1>13. Walled(K, u)
  <2> SUFFICES ASSUME NEW k \in DOMAIN L, K[k].capacity > 0
               PROVE  K[k].offset - 1 \notin FreeBytes(u)
    BY <1>11 DEF Walled
  <2>1. CASE k = l
    BY <1>9, <1>10, <1>11, <1>12, <2>1
  <2>2. CASE k # l
    <3>1. L[k].capacity > 0 /\ K[k] = L[k]
      BY <1>11, <2>2
    <3>2. L[k].offset - 1 \notin FreeBytes(free)
      BY <2>2, <3>1, GivenBackKeepsWalls
    <3>3. Sound(L[k])
      BY DEF WellTyped
    <3>4. L[k].offset \in Nat /\ L[k].offset \in Region(L[k])
      BY <3>1, <3>3, RegionIsLonger, SoundTypes
    <3>5. L[k].offset \in 0 .. (z - 1)
      BY <3>4 DEF Apart
    <3>6. L[k].offset - 1 \notin z .. (y - 1)
      BY <1>1, <1>9, <3>4, <3>5
    <3> QED
      BY <1>9, <3>1, <3>2, <3>6
  <2> QED
    BY <2>1, <2>2
<1>14. ASSUME d.capacity > 0, d.offset # p, NEW x \in Region(d), x \in Stretch(p, bytes)
       PROVE  FALSE
  <2>1. PICK o, a : o = d.offset /\ a = d.capacity
    OBVIOUS
  <2>2. o \in Nat /\ a \in Nat /\ a > 0 /\ o # p
    BY <1>5, <1>14, <2>1, SoundTypes
  <2>3. x \in Nat /\ p <= x /\ x < p + bytes /\ x < z /\ o <= x
    <3>1. x \in Nat /\ o <= x
      BY <1>14, <2>1 DEF Region
    <3>2. x \in 0 .. (z - 1)
      BY <1>6, <1>14
    <3>3. p <= x /\ x < p + bytes
      BY <1>4, <1>9, <1>14 DEF Stretch
    <3> QED
      BY <1>1, <3>1, <3>2, <3>3
  <2>4. x \in Stretch(o, a)
    <3>1. x \notin z .. (y - 1) /\ x \notin FreeBytes(t)
      BY <1>1, <1>6, <1>9, <1>14, <2>3
    <3>2. x \in grown
      BY <1>9, <1>14
    <3> QED
      BY <1>8, <2>1, <3>1, <3>2
  <2>5. x < o + a
    BY <2>2, <2>3, <2>4 DEF Stretch
  <2>6. CASE p < o
    <3>1. o - 1 \in Stretch(p, bytes)
      BY <1>4, <1>9, <2>2, <2>3, <2>6 DEF Stretch
    <3>2. o - 1 \in grown
      BY <1>9, <3>1
    <3>3. o - 1 \notin z .. (y - 1) /\ o - 1 \notin Stretch(o, a)
      BY <1>1, <1>9, <2>2, <2>3 DEF Stretch
    <3>4. o - 1 \in FreeBytes(t)
      BY <1>8, <2>1, <3>2, <3>3
    <3> QED
      BY <1>2, <1>14, <2>1, <3>4 DEF Walled
  <2>7. CASE o < p
    <3>1. p - 1 \in Stretch(o, a)
      BY <1>9, <2>2, <2>3, <2>5, <2>7 DEF Stretch
    <3> QED
      BY <1>8, <1>10, <2>1, <3>1
  <2> QED
    BY <1>9, <2>2, <2>6, <2>7
<1>15. Clear(d, e)
  BY <1>12, <1>14 DEF Clear
<1> QED
  BY <1>2, <1>11, <1>13, <1>15

(* Whatever resize_locked does to a list, no list has a free byte before it, *)
(* and the list keeps its place or leaves it altogether.                     *)
LEMMA ResizeKeepsWalls ==
    ASSUME NEW L, NEW t, NEW z, NEW m, WellTyped(L, t, z), Apart(L, t, z), Walled(L, t),
           NEW l \in DOMAIN L, NEW n \in Nat, NEW K, NEW u, NEW y, NEW k,
           resize_locked(StorageOf(L, t, z, m), l, n) = StorageOf(K, u, y, k)
    PROVE  /\ \A j \in DOMAIN L : j # l => K[j] = L[j]
           /\ Walled(K, u) /\ Clear(L[l], K[l])
<1>1. PICK free, c : /\ free = FreeSlot(t, L[l].offset, L[l].capacity)
                     /\ c = RoundedCapacity(n)
  OBVIOUS
<1>2. PICK p : p = PlaceFor(free, z, c * EntryBytes)
  OBVIOUS
<1>3. ResizedTo(L, t, l, n, free, p, c, K, u, y, z)
  <2>1. PICK G, v, x, h :
                /\ resize_locked(StorageOf(L, t, z, m), l, n) = StorageOf(G, v, x, h)
                /\ ResizedTo(L, t, l, n, free, p, c, G, v, x, z)
    BY <1>1, <1>2, ResizeIs
  <2>2. StorageOf(G, v, x, h) = StorageOf(K, u, y, k)
    BY <2>1
  <2>3. G = K /\ v = u /\ x = y
    BY <2>2 DEF StorageOf
  <2> QED
    BY <2>1, <2>3
<1>4. CASE K = WithSize(L, l, n) /\ u = t /\ y = z /\ n <= L[l].capacity
  <2>1. /\ \A j \in DOMAIN L : j # l => K[j] = L[j]
        /\ Walled(K, t) /\ Clear(L[l], K[l])
    BY <1>4, WallsOfSizeOnly
  <2> QED
    BY <1>4, <2>1
<1>5. CASE n = 0 /\ K = WithList(L, l, NoSpace) /\ u = free /\ y = z
  BY <1>1, <1>5, WallsOfNothing
<1>6. CASE /\ n > 0 /\ K = WithList(L, l, [size |-> n, capacity |-> c, offset |-> p])
           /\ u = TableLeft(free, z, c * EntryBytes)
           /\ y = SizeFor(free, z, c * EntryBytes)
  BY <1>1, <1>2, <1>6, WallsOfOther
<1> QED
  BY <1>3, <1>4, <1>5, <1>6 DEF ResizedTo

(* What a merge makes: lists of known sizes in a file that is not empty. *)
LEMMA PackedIs ==
    ASSUME NEW n \in Nat, ListNos = 0 .. (n - 1), NEW s \in Sources, DOMAIN s.ils[1] = ListNos,
           NEW P, P = PackedLists(s.ils)
    PROVE  /\ DOMAIN P = ListNos
           /\ \A l \in ListNos :
                 /\ Sound(P[l])
                 /\ P[l].size \in Nat
                 /\ \A i \in DOMAIN s.ils : Len(s.ils[i][l]) <= P[l].size
<1> DEFINE ils == s.ils
           sizes(l) == [i \in DOMAIN ils |-> Len(ils[i][l])]
           size == [l \in ListNos |-> SumFunction(sizes(l))]
           before(l) == SumFunctionOnSet(size, {m \in ListNos : m < l})
           offset == [l \in ListNos |-> EntryBytes * before(l)]
<1>1. IsFiniteSet(DOMAIN ils)
  <2>1. Len(ils) \in Nat /\ DOMAIN ils = 1 .. Len(ils)
    BY SourcesAssumption
  <2>2. IsFiniteSet(1 .. Len(ils))
    BY <2>1, FS_Interval
  <2> QED
    BY <2>1, <2>2
<1>2. IsFiniteSet(ListNos)
  <2>1. 0 \in Int /\ n - 1 \in Int
    OBVIOUS
  <2>2. IsFiniteSet(0 .. (n - 1))
    BY <2>1, FS_Interval
  <2> QED
    BY <2>2
<1>3. \A i \in DOMAIN ils : \A l \in ListNos : Len(ils[i][l]) \in Nat
  BY SourcesAssumption
<1>4. ASSUME NEW l \in ListNos
      PROVE  /\ size[l] \in Nat
             /\ \A i \in DOMAIN ils : Len(ils[i][l]) <= size[l]
  <2> DEFINE D == DOMAIN ils
             f == sizes(l)
  <2>1. \A i \in D : f[i] \in Nat /\ f[i] = Len(ils[i][l])
    BY <1>3
  <2>2. size[l] = SumFunctionOnSet(f, D)
    <3>1. DOMAIN f = D
      OBVIOUS
    <3> HIDE DEF f
    <3> QED
      BY <3>1 DEF SumFunction, f
  <2>3. IsFiniteSet(D)
    BY <1>1
  <2> HIDE DEF f, D, size
  <2>4. SumFunctionOnSet(f, D) \in Nat
    BY <2>1, <2>3, SumIsNat
  <2>5. ASSUME NEW i \in D PROVE f[i] <= SumFunctionOnSet(f, D)
    <3>1. SumFunctionOnSet(f, D) = f[i] + SumFunctionOnSet(f, D \ {i})
      BY <2>1, <2>3, SumWithout
    <3>2. IsFiniteSet(D \ {i}) /\ \A j \in D \ {i} : f[j] \in Nat
      BY <2>1, <2>3, FS_RemoveElement
    <3>3. SumFunctionOnSet(f, D \ {i}) \in Nat
      BY <3>2, SumIsNat
    <3> QED
      BY <2>1, <3>1, <3>3
  <2> QED
    BY <2>1, <2>2, <2>4, <2>5 DEF D
<1>5. ASSUME NEW l \in ListNos PROVE offset[l] \in Nat
  <2> DEFINE R == {m \in ListNos : m < l}
  <2>1. R \subseteq ListNos
    OBVIOUS
  <2>2. IsFiniteSet(R) /\ \A m \in R : size[m] \in Nat
    <3> HIDE DEF size
    <3>1. \A m \in R : size[m] \in Nat
      BY <1>4, <2>1
    <3> HIDE DEF R
    <3> QED
      BY <1>2, <2>1, <3>1, FS_Subset
  <2>3. before(l) \in Nat
    <3> HIDE DEF R, size
    <3>1. SumFunctionOnSet(size, R) \in Nat
      BY <2>2, SumIsNat
    <3> QED
      BY <3>1 DEF R
  <2> HIDE DEF before
  <2>4. EntryBytes * before(l) \in Nat
    BY <2>3, RegionsAreLonger
  <2> QED
    BY <2>4
<1>6. P = [l \in ListNos |-> [size |-> size[l], capacity |-> size[l], offset |-> offset[l]]]
  BY DEF PackedLists
<1> HIDE DEF ils, sizes, size, before, offset
<1>7. DOMAIN P = ListNos
  BY <1>6
<1>8. ASSUME NEW l \in ListNos PROVE Sound(P[l]) /\ P[l].size = size[l]
  <2>1. P[l] = [size |-> size[l], capacity |-> size[l], offset |-> offset[l]]
    BY <1>6
  <2>2. P[l].size = size[l] /\ P[l].capacity = size[l] /\ P[l].offset = offset[l]
    BY <2>1
  <2>3. P[l] \in [size : Nat, capacity : Nat, offset : Nat \union {INVALID_OFFSET}]
    BY <1>4, <1>5, <2>1
  <2> QED
    BY <1>4, <1>5, <2>2, <2>3 DEF Sound
<1> QED
  BY <1>4, <1>7, <1>8 DEF ils

LEMMA MergedIs ==
    ASSUME NEW s \in Sources, DOMAIN s.ils[1] = ListNos, NEW shift,
           WellTyped(lists, slots, totsize),
           ~\A i \in DOMAIN s.ils : Ntotal(s.ils[i]) = 0
    PROVE  \E K, u, y, k : /\ Merged(s.ils, shift) = StorageOf(K, u, y, k)
                           /\ WellTyped(K, u, y)
<1>1. PICK n \in Nat : ListNos = 0 .. (n - 1)
  BY DEF WellTyped, ListNos
<1>2. PICK P : P = PackedLists(s.ils)
  OBVIOUS
<1>3. /\ DOMAIN P = ListNos
      /\ \A l \in ListNos :
            /\ Sound(P[l])
            /\ P[l].size \in Nat
            /\ \A i \in DOMAIN s.ils : Len(s.ils[i][l]) <= P[l].size
  BY <1>1, <1>2, PackedIs
<1> DEFINE size == [l \in ListNos |-> P[l].size]
           total == SumFunction(size)
           bytes == EntryBytes * total
           u == AddSpace(slots, 0, bytes)
<1>4. PICK k : Merged(s.ils, shift) = StorageOf(P, u, bytes, k)
  <2> DEFINE empty == [lists |-> P, slots |-> u, totsize |-> bytes, mem |-> {}]
  <2>1. PICK k : Merged(s.ils, shift) = [empty EXCEPT !.mem = k]
    BY <1>2 DEF Merged
  <2>2. [empty EXCEPT !.mem = k] = StorageOf(P, u, bytes, k)
    <3> HIDE DEF u, bytes
    <3> QED
      BY DEF StorageOf
  <2> QED
    BY <2>1, <2>2
<1>5. IsFiniteSet(ListNos)
  <2>1. 0 \in Int /\ n - 1 \in Int
    OBVIOUS
  <2>2. IsFiniteSet(0 .. (n - 1))
    BY <2>1, FS_Interval
  <2> QED
    BY <1>1, <2>2
<1>6. \A l \in ListNos : size[l] = P[l].size /\ size[l] \in Nat
  BY <1>3
<1>7. total = SumFunctionOnSet(size, ListNos)
  <2>1. DOMAIN size = ListNos
    OBVIOUS
  <2> HIDE DEF size
  <2> QED
    BY <2>1 DEF SumFunction
<1> HIDE DEF size, total
<1>8. total \in Nat
  BY <1>5, <1>6, <1>7, SumIsNat
<1>9. total # 0
  <2> SUFFICES ASSUME total = 0 PROVE FALSE
    OBVIOUS
  <2>1. \A l \in ListNos : size[l] = 0
    BY <1>5, <1>6, <1>7, ZeroSum
  <2>2. \A i \in DOMAIN s.ils : DOMAIN s.ils[i] = ListNos
    BY SourcesAssumption
  <2>3. ASSUME NEW i \in DOMAIN s.ils PROVE Ntotal(s.ils[i]) = 0
    <3> DEFINE f == [l \in DOMAIN s.ils[i] |-> Len(s.ils[i][l])]
    <3>1. DOMAIN f = ListNos
      BY <2>2
    <3>2. \A l \in ListNos : f[l] = 0
      <4> TAKE l \in ListNos
      <4>1. Len(s.ils[i][l]) \in Nat /\ Len(s.ils[i][l]) <= P[l].size
        BY <1>3, <2>2, SourcesAssumption
      <4>2. P[l].size = 0
        BY <1>6, <2>1
      <4>3. Len(s.ils[i][l]) = 0
        BY <4>1, <4>2
      <4> QED
        BY <2>2, <4>3
    <3>3. Ntotal(s.ils[i]) = SumFunctionOnSet(f, ListNos)
      <4>1. Ntotal(s.ils[i]) = SumFunction(f)
        BY DEF Ntotal
      <4> HIDE DEF f
      <4> QED
        BY <3>1, <4>1 DEF SumFunction
    <3> HIDE DEF f
    <3> QED
      BY <1>5, <3>2, <3>3, SumOfZeros
  <2> QED
    BY <2>3
<1>10. bytes \in Nat /\ bytes > 0
  <2>1. total * EntryBytes \in Nat /\ total * EntryBytes > 0
    BY <1>8, <1>9, RegionsAreLonger
  <2>2. bytes = total * EntryBytes
    BY <1>8, RegionsAreLonger
  <2> QED
    BY <2>1, <2>2
<1>11. slots \in Seq(FreeSlots)
  BY DEF WellTyped
<1>12. u \in Seq(FreeSlots)
  <2>1. 0 \in Nat /\ 0 < bytes
    BY <1>10
  <2> HIDE DEF bytes
  <2> QED
    BY <1>10, <1>11, <2>1, SpaceAdded
<1> HIDE DEF u, bytes
<1>13. WellTyped(P, u, bytes)
  BY <1>1, <1>3, <1>10, <1>12 DEF WellTyped
<1> QED
  BY <1>4, <1>13

(* The lists of a merge lie one behind the other: the region of a list begins *)
(* where the sizes of the lists before it end.                               *)
SizesIn(P) == [l \in ListNos |-> P[l].size]
Before(P, l) == SumFunctionOnSet(SizesIn(P), {m \in ListNos : m < l})

LEMMA PackedPlaces ==
    ASSUME NEW ils, NEW P, P = PackedLists(ils), NEW l \in ListNos
    PROVE  /\ P[l].size = SumFunction([i \in DOMAIN ils |-> Len(ils[i][l])])
           /\ P[l].capacity = P[l].size
           /\ P[l].offset = EntryBytes * Before(P, l)
<1> DEFINE sum(k) == SumFunction([i \in DOMAIN ils |-> Len(ils[i][k])])
           size == [k \in ListNos |-> sum(k)]
           offset == [k \in ListNos |->
                          EntryBytes * SumFunctionOnSet(size, {m \in ListNos : m < k})]
<1>1. P = [k \in ListNos |-> [size |-> size[k], capacity |-> size[k], offset |-> offset[k]]]
  BY DEF PackedLists
<1>2. size[l] = sum(l)
  OBVIOUS
<1>3. offset[l] = EntryBytes * SumFunctionOnSet(size, {m \in ListNos : m < l})
  OBVIOUS
<1>4. DOMAIN size = ListNos /\ size = [k \in ListNos |-> size[k]]
  OBVIOUS
<1> HIDE DEF sum, size, offset
<1>5. \A k \in ListNos : P[k].size = size[k] /\ P[k].capacity = size[k] /\ P[k].offset = offset[k]
  BY <1>1
<1>6. SizesIn(P) = size
  BY <1>4, <1>5 DEF SizesIn
<1>7. P[l].offset = EntryBytes * Before(P, l)
  BY <1>3, <1>5, <1>6 DEF Before
<1> QED
  BY <1>2, <1>5, <1>7 DEF sum

(* A product grows with its second factor. *)
LEMMA ProductsGrow ==
    ASSUME NEW e \in Nat, NEW a \in Nat, NEW b \in Nat, a <= b
    PROVE  e * a \in Nat /\ e * b \in Nat /\ e * a <= e * b
<1>1. PICK q \in Nat : q = b - a
  OBVIOUS
<1>2. b = a + q /\ e * q \in Nat /\ e * a \in Nat
  BY <1>1
<1>3. e * b = e * a + e * q
  BY <1>2
<1> QED
  BY <1>2, <1>3

LEMMA PackedApart ==
    ASSUME NEW n \in Nat, ListNos = 0 .. (n - 1), NEW s \in Sources, DOMAIN s.ils[1] = ListNos,
           NEW P, P = PackedLists(s.ils),
           NEW z, z = EntryBytes * SumFunction(SizesIn(P))
    PROVE  /\ \A l \in ListNos : Region(P[l]) \subseteq 0 .. (z - 1)
           /\ \A k, l \in ListNos : k # l => Region(P[k]) \cap Region(P[l]) = {}
<1>1. PICK e : e = EntryBytes
  OBVIOUS
<1>2. e \in Nat
  BY <1>1, RegionsAreLonger
<1>3. IsFiniteSet(ListNos)
  <2>1. 0 \in Int /\ n - 1 \in Int
    OBVIOUS
  <2>2. IsFiniteSet(0 .. (n - 1))
    BY <2>1, FS_Interval
  <2> QED
    BY <2>2
<1>4. \A l \in ListNos : P[l].size \in Nat
  BY PackedIs
<1> DEFINE f == SizesIn(P)
           Up(l) == {m \in ListNos : m < l}
           Sum(S) == SumFunctionOnSet(f, S)
<1>5. \A l \in ListNos : f[l] = P[l].size /\ f[l] \in Nat
  BY <1>4 DEF SizesIn
<1>6. DOMAIN f = ListNos
  BY DEF SizesIn
<1> HIDE DEF f
<1>7. ASSUME NEW S, S \subseteq ListNos PROVE IsFiniteSet(S) /\ Sum(S) \in Nat
  <2>1. IsFiniteSet(S)
    BY <1>3, <1>7, FS_Subset
  <2>2. \A x \in S : f[x] \in Nat
    BY <1>5, <1>7
  <2> QED
    BY <2>1, <2>2, SumIsNat
<1>8. ASSUME NEW l \in ListNos, NEW S, S \subseteq ListNos, Up(l) \union {l} \subseteq S
      PROVE  Sum(Up(l)) \in Nat /\ Sum(S) \in Nat /\ Sum(Up(l)) + f[l] <= Sum(S)
  <2> DEFINE R == Up(l)
  <2>1. R \subseteq ListNos /\ l \notin R /\ R \union {l} \subseteq S
    BY <1>8
  <2> HIDE DEF R
  <2>2. IsFiniteSet(R) /\ \A x \in R \union {l} : f[x] \in Nat
    BY <1>5, <1>7, <2>1
  <2>3. Sum(R \union {l}) = f[l] + Sum(R)
    BY <2>1, <2>2, SumWith
  <2>4. IsFiniteSet(S) /\ \A x \in S : f[x] \in Nat
    BY <1>5, <1>7, <1>8
  <2>5. Sum(R \union {l}) <= Sum(S)
    BY <2>1, <2>4, SumOfPart
  <2>6. Sum(R) \in Nat /\ Sum(S) \in Nat
    BY <1>7, <1>8, <2>1
  <2>7. f[l] \in Nat
    BY <1>5
  <2>8. Sum(R) + f[l] <= Sum(S)
    <3> HIDE DEF Sum
    <3> QED
      BY <2>3, <2>5, <2>6, <2>7
  <2> QED
    BY <2>6, <2>8 DEF R
<1>9. z = e * Sum(ListNos)
  <2>1. SumFunction(f) = Sum(ListNos)
    BY <1>6 DEF SumFunction
  <2> QED
    BY <1>1, <2>1 DEF f
<1>10. ASSUME NEW l \in ListNos
       PROVE  \A x \in Region(P[l]) : /\ x \in Nat /\ e * Sum(Up(l)) <= x
                                      /\ x < e * (Sum(Up(l)) + f[l])
  <2>1. PICK a, b : a = Sum(Up(l)) /\ b = f[l]
    OBVIOUS
  <2>2. a \in Nat /\ b \in Nat
    <3>1. Up(l) \subseteq ListNos
      OBVIOUS
    <3>2. Sum(Up(l)) \in Nat
      BY <1>7, <3>1
    <3> QED
      BY <1>5, <2>1, <3>2
  <2>3. P[l].capacity = b /\ P[l].offset = e * a
    <3>1. P[l].capacity = P[l].size /\ P[l].offset = EntryBytes * Before(P, l)
      BY PackedPlaces
    <3>2. Before(P, l) = Sum(Up(l))
      BY DEF Before, f
    <3> HIDE DEF Sum, Up
    <3> QED
      BY <1>1, <1>5, <2>1, <3>1, <3>2
  <2>4. e * (a + b) = e * a + b * e
    BY <1>2, <2>2
  <2>5. \A x \in Region(P[l]) : x \in Nat /\ e * a <= x /\ x < e * a + b * e
    BY <1>1, <2>3 DEF Region
  <2> QED
    BY <2>1, <2>4, <2>5
<1> HIDE DEF Sum, Up
<1>11. ASSUME NEW l \in ListNos PROVE Region(P[l]) \subseteq 0 .. (z - 1)
  <2>1. /\ Sum(Up(l)) \in Nat /\ Sum(ListNos) \in Nat
        /\ Sum(Up(l)) + f[l] <= Sum(ListNos)
    BY <1>8 DEF Up
  <2>2. PICK a, b, c : a = Sum(Up(l)) /\ b = f[l] /\ c = Sum(ListNos)
    OBVIOUS
  <2>3. a \in Nat /\ b \in Nat /\ c \in Nat /\ a + b \in Nat /\ a + b <= c
    BY <1>5, <2>1, <2>2
  <2>4. e * (a + b) \in Nat /\ e * c \in Nat /\ e * (a + b) <= e * c
    BY <1>2, <2>3, ProductsGrow
  <2>5. \A x \in Region(P[l]) : x \in Nat /\ x < e * (a + b)
    BY <1>10, <2>2
  <2>6. z = e * c
    BY <1>9, <2>2
  <2> QED
    BY <2>4, <2>5, <2>6
<1>12. ASSUME NEW k \in ListNos, NEW l \in ListNos, k < l
       PROVE  Region(P[k]) \cap Region(P[l]) = {}
  <2>0. Up(l) \subseteq ListNos /\ Up(k) \union {k} \subseteq Up(l)
    BY <1>12 DEF Up
  <2>1. /\ Sum(Up(k)) \in Nat /\ Sum(Up(l)) \in Nat
        /\ Sum(Up(k)) + f[k] <= Sum(Up(l))
    BY <1>8, <2>0
  <2>2. PICK a, b, c : a = Sum(Up(k)) /\ b = f[k] /\ c = Sum(Up(l))
    OBVIOUS
  <2>3. a \in Nat /\ b \in Nat /\ c \in Nat /\ a + b \in Nat /\ a + b <= c
    BY <1>5, <2>1, <2>2
  <2>4. e * (a + b) \in Nat /\ e * c \in Nat /\ e * (a + b) <= e * c
    BY <1>2, <2>3, ProductsGrow
  <2>5. \A x \in Region(P[k]) : x \in Nat /\ x < e * (a + b)
    BY <1>10, <2>2
  <2>6. \A x \in Region(P[l]) : x \in Nat /\ e * c <= x
    BY <1>10, <2>2
  <2> QED
    BY <2>4, <2>5, <2>6
<1>13. ASSUME NEW k \in ListNos, NEW l \in ListNos, k # l
       PROVE  Region(P[k]) \cap Region(P[l]) = {}
  <2>1. k < l \/ l < k
    BY <1>13
  <2> QED
    BY <1>12, <2>1
<1> QED
  BY <1>11, <1>13

(* The inductive invariant: the storage is typed and, unless a merge filled  *)
(* the file, no byte has two owners; and so is what was saved of it.         *)
SavedWell ==
    saved # NotSaved =>
        /\ nopened = 0
        /\ saved.merged \in BOOLEAN
        /\ WellTyped(saved.lists, saved.slots, saved.totsize)
        /\ ~saved.merged => Apart(saved.lists, saved.slots, saved.totsize)

Counters ==
    /\ totsize <= MaxBytes
    /\ nadded \in 0 .. MaxAdded
    /\ merged \in BOOLEAN
    /\ DOMAIN kept \subseteq DOMAIN saved.lists
    /\ nopened \in 0 .. 1

Stored ==
    /\ WellTyped(lists, slots, totsize)
    /\ ~merged => Apart(lists, slots, totsize)
    /\ SavedWell
    /\ Counters

LEMMA StoredAtFirst == Init => Stored
<1> SUFFICES ASSUME Init PROVE Stored
  OBVIOUS
<1>1. /\ lists = [l \in 0 .. (NList - 1) |-> NoSpace] /\ slots = <<>> /\ totsize = 0
      /\ nadded = 0 /\ merged = FALSE /\ saved = NotSaved /\ kept = <<>> /\ nopened = 0
  BY DEF Init
<1>2. DOMAIN lists = 0 .. (NList - 1) /\ \A l \in DOMAIN lists : lists[l] = NoSpace
  BY <1>1
<1>3. slots \in Seq(FreeSlots) /\ DOMAIN slots = {}
  BY <1>1
<1>4. WellTyped(lists, slots, totsize)
  BY <1>1, <1>2, <1>3, NoSpaceIsSound, BoundsAssumption DEF WellTyped
<1>5. InOrder(slots) /\ FreeBytes(slots) = {}
  BY <1>3 DEF InOrder, FreeBytes
<1>6. Apart(lists, slots, totsize)
  BY <1>2, <1>5, NoSpaceIsSound DEF Apart
<1>7. Counters
  <2>1. DOMAIN kept = {}
    BY <1>1
  <2>2. totsize <= MaxBytes /\ nadded \in 0 .. MaxAdded /\ nopened \in 0 .. 1
    BY <1>1, BoundsAssumption
  <2>3. merged \in BOOLEAN /\ DOMAIN kept \subseteq DOMAIN saved.lists
    BY <1>1, <2>1
  <2> QED
    BY <2>2, <2>3 DEF Counters
<1> QED
  BY <1>1, <1>4, <1>6, <1>7 DEF Stored, SavedWell

(* A call that replaces the storage and says nothing about what was saved. *)
LEMMA BecomeKeeps ==
    ASSUME Stored, NEW K, NEW u, NEW y, NEW k, Become(StorageOf(K, u, y, k)),
           WellTyped(K, u, y), ~merged' => Apart(K, u, y), merged' \in BOOLEAN,
           nadded' \in 0 .. MaxAdded, saved' = saved, nopened' = nopened,
           DOMAIN kept' \subseteq DOMAIN kept
    PROVE  Stored'
<1>1. lists' = K /\ slots' = u /\ totsize' = y /\ y <= MaxBytes
  BY DEF Become, StorageOf
<1>2. SavedWell'
  BY DEF Stored, SavedWell, NotSaved
<1>3. Counters'
  BY <1>1 DEF Stored, Counters
<1> QED
  BY <1>1, <1>2, <1>3 DEF Stored

LEMMA TouchIs ==
    ASSUME NEW l, Touch(l)
    PROVE  saved' = saved /\ nopened' = nopened /\ DOMAIN kept' \subseteq DOMAIN kept
BY DEF Touch, Restrict

LEMMA StorageIs == Storage = StorageOf(lists, slots, totsize, mem)
BY DEF Storage, StorageOf

LEMMA AddKeepsStored ==
    ASSUME Stored, NEW l \in ListNos, NEW n \in 0 .. MaxChunk, add_entries(l, n)
    PROVE  Stored'
<1>1. /\ nadded + n <= MaxAdded
      /\ Become(update_entries(resize_locked(Storage, l, lists[l].size + n), l,
                               lists[l].size, Fresh(n)))
      /\ nadded' = nadded + n /\ Touch(l) /\ merged' = merged
  BY DEF add_entries
<1>2. n \in Nat /\ WellTyped(lists, slots, totsize) /\ l \in DOMAIN lists
  BY BoundsAssumption DEF Stored, ListNos
<1>3. PICK r : r = lists[l].size + n
  OBVIOUS
<1>4. r \in Nat
  <2>1. lists[l].size \in Nat
    BY <1>2, SoundTypes DEF WellTyped
  <2> QED
    BY <1>2, <1>3, <2>1
<1>5. PICK K, u, y, k :
              /\ resize_locked(Storage, l, r) = StorageOf(K, u, y, k)
              /\ WellTyped(K, u, y)
              /\ Apart(lists, slots, totsize) => Apart(K, u, y)
  BY <1>2, <1>4, ResizeKeeps, StorageIs
<1>6. PICK j : update_entries(StorageOf(K, u, y, k), l, lists[l].size, Fresh(n))
                 = StorageOf(K, u, y, j)
  BY UpdateIs
<1>7. Become(StorageOf(K, u, y, j))
  BY <1>1, <1>3, <1>5, <1>6
<1>8. nadded' \in 0 .. MaxAdded /\ merged' \in BOOLEAN /\ (~merged' => Apart(K, u, y))
  BY <1>1, <1>2, <1>5, BoundsAssumption DEF Stored, Counters
<1> QED
  BY <1>1, <1>5, <1>7, <1>8, BecomeKeeps, TouchIs

LEMMA ResizeKeepsStored ==
    ASSUME Stored, NEW l \in ListNos, NEW n \in NewSizes, resize(l, n)
    PROVE  Stored'
<1>1. /\ Become(resize_locked(Storage, l, n)) /\ Touch(l)
      /\ nadded' = nadded /\ merged' = merged
  BY DEF resize
<1>2. n \in Nat /\ WellTyped(lists, slots, totsize) /\ l \in DOMAIN lists
  BY BoundsAssumption DEF Stored, ListNos
<1>3. PICK K, u, y, k :
              /\ resize_locked(Storage, l, n) = StorageOf(K, u, y, k)
              /\ WellTyped(K, u, y)
              /\ Apart(lists, slots, totsize) => Apart(K, u, y)
  BY <1>2, ResizeKeeps, StorageIs
<1>4. Become(StorageOf(K, u, y, k))
  BY <1>1, <1>3
<1>5. nadded' \in 0 .. MaxAdded /\ merged' \in BOOLEAN /\ (~merged' => Apart(K, u, y))
  BY <1>1, <1>3 DEF Stored, Counters
<1> QED
  BY <1>1, <1>3, <1>4, <1>5, BecomeKeeps, TouchIs

LEMMA UpdateKeepsStored ==
    ASSUME Stored, NEW l, NEW first, NEW n \in 1 .. MaxChunk, update(l, first, n)
    PROVE  Stored'
<1>1. /\ nadded + n <= MaxAdded
      /\ Become(update_entries(Storage, l, first, Fresh(n))) /\ Touch(l)
      /\ nadded' = nadded + n /\ merged' = merged
  BY DEF update
<1>2. PICK k : update_entries(Storage, l, first, Fresh(n))
                 = StorageOf(lists, slots, totsize, k)
  BY StorageIs, UpdateIs
<1>3. Become(StorageOf(lists, slots, totsize, k))
  BY <1>1, <1>2
<1>4. n \in Nat
  BY BoundsAssumption
<1>5. /\ nadded' \in 0 .. MaxAdded /\ merged' \in BOOLEAN
      /\ WellTyped(lists, slots, totsize)
      /\ ~merged' => Apart(lists, slots, totsize)
  BY <1>1, <1>4, BoundsAssumption DEF Stored, Counters
<1> QED
  BY <1>1, <1>3, <1>5, BecomeKeeps, TouchIs

LEMMA MergeKeepsStored ==
    ASSUME Stored, NEW s \in Sources, merge_from_multiple(s.ils, s.shift)
    PROVE  Stored'
<1>1. /\ DOMAIN s.ils[1] = ListNos
      /\ IF \A i \in DOMAIN s.ils : Ntotal(s.ils[i]) = 0
         THEN Become([Storage EXCEPT !.lists = PackedLists(s.ils)])
         ELSE Become(Merged(s.ils, s.shift))
      /\ merged' = TRUE /\ kept' = <<>>
      /\ nadded' = nadded /\ saved' = saved /\ nopened' = nopened
  BY DEF merge_from_multiple
<1>2. WellTyped(lists, slots, totsize) /\ nadded' \in 0 .. MaxAdded
  BY <1>1 DEF Stored, Counters
<1>3. PICK n \in Nat : ListNos = 0 .. (n - 1)
  BY <1>2 DEF WellTyped, ListNos
<1>4. PICK K, u, y, k : Become(StorageOf(K, u, y, k)) /\ WellTyped(K, u, y)
  <2>1. CASE \A i \in DOMAIN s.ils : Ntotal(s.ils[i]) = 0
    <3>1. PICK P : P = PackedLists(s.ils)
      OBVIOUS
    <3>2. DOMAIN P = ListNos /\ \A l \in ListNos : Sound(P[l])
      BY <1>1, <1>3, <3>1, PackedIs
    <3>3. WellTyped(P, slots, totsize)
      BY <1>2, <1>3, <3>2 DEF WellTyped
    <3>4. [Storage EXCEPT !.lists = P] = StorageOf(P, slots, totsize, mem)
      BY DEF Storage, StorageOf
    <3>5. Become(StorageOf(P, slots, totsize, mem))
      BY <1>1, <2>1, <3>1, <3>4
    <3> QED
      BY <3>3, <3>5
  <2>2. CASE ~\A i \in DOMAIN s.ils : Ntotal(s.ils[i]) = 0
    <3>1. Become(Merged(s.ils, s.shift))
      BY <1>1, <2>2
    <3>2. PICK K, u, y, k : /\ Merged(s.ils, s.shift) = StorageOf(K, u, y, k)
                            /\ WellTyped(K, u, y)
      BY <1>1, <1>2, <2>2, MergedIs
    <3> QED
      BY <3>1, <3>2
  <2> QED
    BY <2>1, <2>2
<1>5. DOMAIN kept' \subseteq DOMAIN kept
  <2>1. DOMAIN kept' = {}
    BY <1>1
  <2> QED
    BY <2>1
<1> QED
  BY <1>1, <1>2, <1>4, <1>5, BecomeKeeps

LEMMA CropKeepsStored ==
    ASSUME Stored, NEW l0 \in 0 .. NList, NEW l1 \in 0 .. NList, crop_invlists(l0, l1)
    PROVE  Stored'
<1>1. /\ l0 <= l1 /\ l1 <= Cardinality(ListNos)
      /\ lists' = [l \in 0 .. (l1 - l0 - 1) |-> lists[l0 + l]]
      /\ kept' = <<>>
      /\ slots' = slots /\ totsize' = totsize /\ nadded' = nadded /\ merged' = merged
      /\ saved' = saved /\ nopened' = nopened
  BY DEF crop_invlists
<1>2. PICK n \in Nat : DOMAIN lists = 0 .. (n - 1)
  BY DEF Stored, WellTyped
<1>3. Cardinality(ListNos) = n
  <2>1. 0 \in Int /\ n - 1 \in Int
    OBVIOUS
  <2>2. Cardinality(0 .. (n - 1)) = IF 0 > n - 1 THEN 0 ELSE (n - 1) - 0 + 1
    BY <2>1, FS_Interval
  <2> QED
    BY <1>2, <2>2 DEF ListNos
<1>4. l0 \in Nat /\ l1 \in Nat /\ l1 - l0 \in Nat /\ l1 <= n
  BY <1>1, <1>3, BoundsAssumption
<1>5. DOMAIN lists' = 0 .. ((l1 - l0) - 1)
  BY <1>1, <1>4
<1>6. \A l \in DOMAIN lists' : l0 + l \in DOMAIN lists /\ lists'[l] = lists[l0 + l]
  BY <1>1, <1>2, <1>4, <1>5
<1>7. WellTyped(lists', slots, totsize)
  <2>1. WellTyped(lists, slots, totsize)
    BY DEF Stored
  <2>2. \A l \in DOMAIN lists' : Sound(lists'[l])
    BY <1>6, <2>1 DEF WellTyped
  <2>3. \E m \in Nat : DOMAIN lists' = 0 .. (m - 1)
    BY <1>4, <1>5
  <2> QED
    BY <2>1, <2>2, <2>3 DEF WellTyped
<1>8. ASSUME Apart(lists, slots, totsize) PROVE Apart(lists', slots, totsize)
  <2>1. \A k, l \in DOMAIN lists' : k # l => l0 + k # l0 + l
    BY <1>4, <1>5
  <2>2. \A k, l \in DOMAIN lists' : k # l => Region(lists'[k]) \cap Region(lists'[l]) = {}
    BY <1>6, <1>8, <2>1 DEF Apart
  <2>3. \A l \in DOMAIN lists' : /\ Region(lists'[l]) \subseteq 0 .. (totsize - 1)
                                 /\ Region(lists'[l]) \cap FreeBytes(slots) = {}
    BY <1>6, <1>8 DEF Apart
  <2> QED
    BY <1>8, <2>2, <2>3 DEF Apart
<1>9. SavedWell'
  BY <1>1 DEF Stored, SavedWell, NotSaved
<1>10. Counters'
  <2>1. DOMAIN kept' = {}
    BY <1>1
  <2> QED
    BY <1>1, <2>1 DEF Stored, Counters
<1>11. ~merged' => Apart(lists', slots', totsize')
  BY <1>1, <1>8 DEF Stored
<1> QED
  BY <1>1, <1>7, <1>9, <1>10, <1>11 DEF Stored

LEMMA WriteKeepsStored == Stored /\ write => Stored'
<1> SUFFICES ASSUME Stored, write PROVE Stored'
  OBVIOUS
<1>1. /\ Unsaved
      /\ saved' = [lists |-> lists, slots |-> slots, totsize |-> totsize, merged |-> merged]
      /\ kept' = Content
      /\ lists' = lists /\ slots' = slots /\ totsize' = totsize
      /\ nadded' = nadded /\ merged' = merged /\ nopened' = nopened
  BY DEF write
<1>2. saved'.lists = lists /\ saved'.slots = slots /\ saved'.totsize = totsize
      /\ saved'.merged = merged
  BY <1>1
<1>3. SavedWell'
  <2>1. nopened' = 0
    BY <1>1 DEF Unsaved
  <2> QED
    BY <1>2, <2>1 DEF Stored, Counters, SavedWell
<1>4. DOMAIN kept' \subseteq DOMAIN saved'.lists
  <2>1. DOMAIN kept' = DOMAIN lists
    BY <1>1 DEF Content, ListNos
  <2> QED
    BY <1>2, <2>1
<1>5. Counters'
  BY <1>1, <1>4 DEF Stored, Counters
<1> QED
  BY <1>1, <1>3, <1>5 DEF Stored

LEMMA ReadKeepsStored == Stored /\ read => Stored'
<1> SUFFICES ASSUME Stored, read PROVE Stored'
  OBVIOUS
<1>1. /\ saved # NotSaved /\ Become(Reopened) /\ merged' = saved.merged
      /\ saved' = NotSaved /\ kept' = <<>> /\ nopened' = nopened + 1
      /\ nadded' = nadded
  BY DEF read
<1>2. /\ lists' = saved.lists /\ slots' = saved.slots /\ totsize' = saved.totsize
      /\ totsize' <= MaxBytes
  BY <1>1 DEF Become, Reopened
<1>3. /\ nopened = 0 /\ saved.merged \in BOOLEAN
      /\ WellTyped(saved.lists, saved.slots, saved.totsize)
      /\ ~saved.merged => Apart(saved.lists, saved.slots, saved.totsize)
  BY <1>1 DEF Stored, SavedWell
<1>4. SavedWell'
  BY <1>1 DEF SavedWell, NotSaved
<1>5. Counters'
  <2>1. DOMAIN kept' = {}
    BY <1>1
  <2> QED
    BY <1>1, <1>2, <1>3, <2>1 DEF Stored, Counters
<1> QED
  BY <1>1, <1>2, <1>3, <1>4, <1>5 DEF Stored

LEMMA StoredKept == Stored /\ [Next]_vars => Stored'
<1> SUFFICES ASSUME Stored, [Next]_vars PROVE Stored'
  OBVIOUS
<1>1. CASE \E l \in ListNos : \E n \in 0 .. MaxChunk : add_entries(l, n)
  BY <1>1, AddKeepsStored
<1>2. CASE \E l \in ListNos : \E n \in NewSizes : resize(l, n)
  BY <1>2, ResizeKeepsStored
<1>3. CASE \E l \in ListNos : \E n \in 1 .. MaxChunk, first \in 0 .. MaxSize :
               update(l, first, n)
  BY <1>3, UpdateKeepsStored
<1>4. CASE \E s \in Sources : merge_from_multiple(s.ils, s.shift)
  BY <1>4, MergeKeepsStored
<1>5. CASE \E l0, l1 \in 0 .. NList : crop_invlists(l0, l1)
  BY <1>5, CropKeepsStored
<1>6. CASE write
  BY <1>6, WriteKeepsStored
<1>7. CASE read
  BY <1>7, ReadKeepsStored
<1>8. CASE UNCHANGED vars
  BY <1>8 DEF vars, Stored, SavedWell, Counters, NotSaved
<1> QED
  BY <1>1, <1>2, <1>3, <1>4, <1>5, <1>6, <1>7, <1>8 DEF Next

LEMMA StoredMeansTypes == Stored => TypeOK
<1> SUFFICES ASSUME Stored PROVE TypeOK
  OBVIOUS
<1>1. WellTyped(lists, slots, totsize) /\ Counters
  BY DEF Stored
<1>2. \A l \in ListNos :
          /\ lists[l] \in [size : Nat, capacity : Nat, offset : Nat \union {INVALID_OFFSET}]
          /\ lists[l].size <= lists[l].capacity
  BY <1>1 DEF WellTyped, Sound, ListNos
<1>3. slots \in Seq([offset : Nat, capacity : Nat \ {0}]) /\ totsize \in 0 .. MaxBytes
  BY <1>1, BoundsAssumption DEF WellTyped, FreeSlots, Counters
<1> QED
  BY <1>1, <1>2, <1>3 DEF TypeOK, Counters

(* Regions with no byte in common do not overlap. *)
LEMMA NoByteNoOverlap ==
    ASSUME NEW a \in Nat, NEW m \in Nat, m > 0, NEW b \in Nat, NEW n \in Nat, n > 0,
           \A x \in Nat : ~(a <= x /\ x < a + m /\ b <= x /\ x < b + n)
    PROVE  ~Overlap(a, m, b, n)
<1>1. CASE a <= b
  <2>1. ~(a <= b /\ b < a + m /\ b <= b /\ b < b + n)
    OBVIOUS
  <2> QED
    BY <1>1, <2>1 DEF Overlap
<1>2. CASE b < a
  <2>1. ~(a <= a /\ a < a + m /\ b <= a /\ a < b + n)
    OBVIOUS
  <2> QED
    BY <1>2, <2>1 DEF Overlap
<1> QED
  BY <1>1, <1>2

LEMMA StoredMeansDisjoint == Stored => SpaceDisjoint
<1> SUFFICES ASSUME Stored, ~merged
             PROVE  LET regions == {<<l, lists[l].offset, RegionBytes(l)>> :
                                       l \in {m \in ListNos : lists[m].capacity > 0}}
                                   \union {<<-i, slots[i].offset, slots[i].capacity>> :
                                              i \in DOMAIN slots}
                    IN  /\ \A r, q \in regions :
                              r[1] # q[1] => ~Overlap(r[2], r[3], q[2], q[3])
                        /\ \A r \in regions : r[2] >= 0 /\ r[2] + r[3] <= totsize
  BY DEF SpaceDisjoint
<1> DEFINE owned == {<<l, lists[l].offset, RegionBytes(l)>> :
                        l \in {m \in ListNos : lists[m].capacity > 0}}
           open == {<<-i, slots[i].offset, slots[i].capacity>> : i \in DOMAIN slots}
           Has(r, x) == r[2] <= x /\ x < r[2] + r[3]
           Plain(r) == r[2] \in Nat /\ r[3] \in Nat /\ r[3] > 0
<1>1. WellTyped(lists, slots, totsize) /\ Apart(lists, slots, totsize)
  BY DEF Stored
<1>2. totsize \in Nat /\ slots \in Seq(FreeSlots) /\ InOrder(slots)
  BY <1>1 DEF WellTyped, Apart
<1>3. /\ DOMAIN slots = 1 .. Len(slots) /\ Len(slots) \in Nat
      /\ \A i \in 1 .. Len(slots) :
            /\ slots[i].offset \in Nat /\ slots[i].capacity \in Nat /\ slots[i].capacity > 0
            /\ SlotEnd(slots[i]) = slots[i].offset + slots[i].capacity
            /\ SlotEnd(slots[i]) \in Nat
  BY <1>2, SlotNumbers
<1>4. ASSUME NEW r \in owned
      PROVE  /\ Plain(r)
             /\ \E l \in ListNos : r[1] = l /\ \A x \in Nat : Has(r, x) <=> x \in Region(lists[l])
  <2>1. PICK l \in ListNos : /\ lists[l].capacity > 0
                             /\ r = <<l, lists[l].offset, RegionBytes(l)>>
    OBVIOUS
  <2>2. Sound(lists[l])
    BY <1>1 DEF WellTyped, ListNos
  <2>3. lists[l].capacity \in Nat /\ lists[l].offset \in Nat
    BY <2>1, <2>2, SoundTypes
  <2>4. r[1] = l /\ r[2] = lists[l].offset /\ r[3] = lists[l].capacity * EntryBytes
    BY <2>1 DEF RegionBytes
  <2>5. r[3] \in Nat /\ r[3] > 0
    BY <2>1, <2>3, <2>4, RegionsAreLonger
  <2>6. \A x \in Nat : Has(r, x) <=> x \in Region(lists[l])
    BY <2>4 DEF Region
  <2> QED
    BY <2>3, <2>4, <2>5, <2>6
<1>5. ASSUME NEW r \in open
      PROVE  /\ Plain(r)
             /\ \E i \in DOMAIN slots :
                   /\ r[1] = -i
                   /\ \A x \in Nat : Has(r, x) <=> slots[i].offset <= x /\ x < SlotEnd(slots[i])
  <2>1. PICK i \in DOMAIN slots : r = <<-i, slots[i].offset, slots[i].capacity>>
    OBVIOUS
  <2>2. r[1] = -i /\ r[2] = slots[i].offset /\ r[3] = slots[i].capacity
    BY <2>1
  <2> QED
    BY <1>3, <2>2
<1> DEFINE regions == owned \union open
<1> HIDE DEF owned, open
<1>6. \A r \in regions : Plain(r)
  BY <1>4, <1>5
<1>7. ASSUME NEW r \in regions, NEW q \in regions, r[1] # q[1], NEW x \in Nat,
             Has(r, x), Has(q, x)
      PROVE  FALSE
  <2>1. CASE r \in owned /\ q \in owned
    <3>1. PICK k \in ListNos : r[1] = k /\ x \in Region(lists[k])
      BY <1>4, <1>7, <2>1
    <3>2. PICK l \in ListNos : q[1] = l /\ x \in Region(lists[l])
      BY <1>4, <1>7, <2>1
    <3>3. k # l
      BY <1>7, <3>1, <3>2
    <3> QED
      BY <1>1, <3>1, <3>2, <3>3 DEF Apart, ListNos
  <2>2. CASE r \in open /\ q \in open
    <3>1. PICK i \in DOMAIN slots : /\ r[1] = -i
                                    /\ slots[i].offset <= x /\ x < SlotEnd(slots[i])
      BY <1>5, <1>7, <2>2
    <3>2. PICK j \in DOMAIN slots : /\ q[1] = -j
                                    /\ slots[j].offset <= x /\ x < SlotEnd(slots[j])
      BY <1>5, <1>7, <2>2
    <3>3. i < j \/ j < i
      BY <1>3, <1>7, <3>1, <3>2
    <3>4. \A m, n \in DOMAIN slots : m < n => SlotEnd(slots[m]) < slots[n].offset
      BY <1>2 DEF InOrder
    <3> QED
      BY <1>3, <3>1, <3>2, <3>3, <3>4
  <2>3. CASE r \in owned /\ q \in open
    <3>1. PICK k \in ListNos : x \in Region(lists[k])
      BY <1>4, <1>7, <2>3
    <3>2. x \in FreeBytes(slots)
      BY <1>5, <1>7, <2>3 DEF FreeBytes
    <3> QED
      BY <1>1, <3>1, <3>2 DEF Apart, ListNos
  <2>4. CASE r \in open /\ q \in owned
    <3>1. PICK k \in ListNos : x \in Region(lists[k])
      BY <1>4, <1>7, <2>4
    <3>2. x \in FreeBytes(slots)
      BY <1>5, <1>7, <2>4 DEF FreeBytes
    <3> QED
      BY <1>1, <3>1, <3>2 DEF Apart, ListNos
  <2> QED
    BY <2>1, <2>2, <2>3, <2>4
<1>8. ASSUME NEW r \in regions, NEW q \in regions, r[1] # q[1]
      PROVE  ~Overlap(r[2], r[3], q[2], q[3])
  <2>1. Plain(r) /\ Plain(q)
    BY <1>6
  <2>2. \A x \in Nat : ~(r[2] <= x /\ x < r[2] + r[3] /\ q[2] <= x /\ x < q[2] + q[3])
    BY <1>7, <1>8
  <2> QED
    BY <2>1, <2>2, NoByteNoOverlap
<1>9. ASSUME NEW r \in regions PROVE r[2] >= 0 /\ r[2] + r[3] <= totsize
  <2>1. r[2] \in Nat /\ r[3] \in Nat /\ r[3] > 0
    BY <1>6
  <2>2. PICK x \in Nat : x = r[2] + r[3] - 1
    BY <2>1
  <2>3. Has(r, x)
    BY <2>1, <2>2
  <2>4. x \in 0 .. (totsize - 1)
    <3>1. CASE r \in owned
      <4>1. PICK k \in ListNos : x \in Region(lists[k])
        BY <1>4, <2>3, <3>1
      <4> QED
        BY <1>1, <4>1 DEF Apart, ListNos
    <3>2. CASE r \in open
      <4>1. x \in FreeBytes(slots)
        BY <1>5, <2>3, <3>2 DEF FreeBytes
      <4> QED
        BY <1>1, <4>1 DEF Apart
    <3> QED
      BY <3>1, <3>2
  <2> QED
    BY <1>2, <2>1, <2>2, <2>4
<1> QED
  BY <1>8, <1>9 DEF owned, open

(* Descriptors, free slots and counters keep their types through every call, *)
(* every merge and every saving and opening, and no list holds more entries  *)
(* than its capacity.                                                        *)
THEOREM TypesKept == Spec => []TypeOK
BY StoredAtFirst, StoredKept, StoredMeansTypes, PTL DEF Spec

(* Whatever is added, resized, cropped, saved and opened, in any order, the  *)
(* regions of the lists and the free slots have no byte in common and lie    *)
(* inside the file, until merge_from_multiple fills it.                      *)
THEOREM SpaceIsDisjoint == Spec => []SpaceDisjoint
BY StoredAtFirst, StoredKept, StoredMeansDisjoint, PTL DEF Spec

-----------------------------------------------------------------------------
(* resize_locked copies a list to bytes that it is not in. *)

(* Regions that have no byte in common and lie inside the file, after a      *)
(* merge too, and no free byte before a list while resizes may come.         *)
Placed(L, t, z, m) ==
    /\ \A l \in DOMAIN L : Region(L[l]) \subseteq 0 .. (z - 1)
    /\ \A k, l \in DOMAIN L : k # l => Region(L[k]) \cap Region(L[l]) = {}
    /\ ~m => Walled(L, t)

SavedPlaced ==
    saved # NotSaved => Placed(saved.lists, saved.slots, saved.totsize, saved.merged)

Orderly == Placed(lists, slots, totsize, merged) /\ SavedPlaced

(* What a step does to the places of the lists, unless it opens the file. *)
MovesClear ==
    nopened' = nopened =>
        \A l \in DOMAIN lists \cap DOMAIN lists' : Clear(lists[l], lists'[l])

LEMMA ApartIsPlaced ==
    ASSUME NEW L, NEW t, NEW z, NEW m, Apart(L, t, z), Walled(L, t)
    PROVE  Placed(L, t, z, m)
BY DEF Apart, Placed

LEMMA SameIsClear == \A d : Clear(d, d)
BY DEF Clear

LEMMA OrderlyAtFirst == Init => Orderly
<1> SUFFICES ASSUME Init PROVE Orderly
  OBVIOUS
<1>1. /\ lists = [l \in 0 .. (NList - 1) |-> NoSpace] /\ totsize = 0 /\ saved = NotSaved
  BY DEF Init
<1>2. \A l \in DOMAIN lists : lists[l] = NoSpace
  BY <1>1
<1>3. \A l \in DOMAIN lists : ~(lists[l].capacity > 0) /\ Region(lists[l]) = {}
  BY <1>2, NoSpaceIsSound DEF NoSpace
<1>4. Walled(lists, slots)
  BY <1>3 DEF Walled
<1>5. Placed(lists, slots, totsize, merged)
  BY <1>3, <1>4 DEF Placed
<1> QED
  BY <1>1, <1>5 DEF Orderly, SavedPlaced

(* Ranges of different regions do not overlap. *)
LEMMA RangesApart ==
    ASSUME NEW R, NEW S, R \cap S = {},
           NEW a \in Int, NEW b \in Int, NEW m \in Int, NEW k \in Int, m > 0, k > 0,
           \A x \in Int : a <= x /\ x < a + m => x \in R,
           \A x \in Int : b <= x /\ x < b + k => x \in S
    PROVE  ~Overlap(a, m, b, k)
<1> SUFFICES ASSUME a < b + k, b < a + m PROVE FALSE
  BY DEF Overlap
<1>1. CASE a <= b
  <2>1. b \in R
    BY <1>1
  <2>2. b \in S
    OBVIOUS
  <2> QED
    BY <2>1, <2>2
<1>2. CASE ~(a <= b)
  <2>1. a \in S
    BY <1>2
  <2>2. a \in R
    OBVIOUS
  <2> QED
    BY <2>1, <2>2
<1> QED
  BY <1>1, <1>2

(* The first n codes and ids of a list are in its region. *)
LEMMA EntriesInRegion ==
    ASSUME NEW d, Sound(d), NEW n \in Nat, n > 0, n <= d.capacity
    PROVE  /\ get_codes(d) \in Int /\ get_ids(d) \in Int
           /\ n * CodeSize \in Int /\ n * CodeSize > 0
           /\ n * IdBytes \in Int /\ n * IdBytes > 0
           /\ \A x \in Int : get_codes(d) <= x /\ x < get_codes(d) + n * CodeSize
                               => x \in Region(d)
           /\ \A x \in Int : get_ids(d) <= x /\ x < get_ids(d) + n * IdBytes
                               => x \in Region(d)
<1>1. PICK o, c, s, i : o = d.offset /\ c = d.capacity /\ s = CodeSize /\ i = IdBytes
  OBVIOUS
<1>2. o \in Nat /\ c \in Nat /\ n <= c
  BY <1>1, SoundTypes
<1>3. s \in Nat /\ s > 0 /\ i \in Nat /\ i > 0
  BY <1>1, SizesAssumption
<1>4. PICK q \in Nat : c = n + q
  <2>1. c - n \in Nat /\ c = n + (c - n)
    BY <1>2
  <2> QED
    BY <2>1
<1>5. /\ n * s \in Nat /\ n * i \in Nat /\ q * s \in Nat /\ q * i \in Nat
      /\ c * s = n * s + q * s /\ c * i = n * i + q * i
      /\ c * (i + s) = c * s + c * i /\ s * c = c * s
  BY <1>3, <1>4
<1>6. n * s > 0 /\ n * i > 0
  <2>1. n * s = s + (n - 1) * s /\ n * i = i + (n - 1) * i
    BY <1>3
  <2>2. (n - 1) * s \in Nat /\ (n - 1) * i \in Nat
    BY <1>3
  <2> QED
    BY <1>3, <1>5, <2>1, <2>2
<1>7. Region(d) = {b \in Nat : o <= b /\ b < o + c * (i + s)}
  BY <1>1 DEF Region, EntryBytes
<1>8. get_codes(d) = o /\ get_ids(d) = o + s * c
  BY <1>1 DEF get_codes, get_ids
<1>9. o + s * c \in Int
  BY <1>2, <1>5, <1>3, <1>4
<1>10. PICK ns, ni, qs, qi : ns = n * s /\ ni = n * i /\ qs = q * s /\ qi = q * i
  OBVIOUS
<1>11. /\ ns \in Nat /\ ni \in Nat /\ qs \in Nat /\ qi \in Nat
       /\ s * c = ns + qs /\ c * (i + s) = ns + qs + (ni + qi)
  BY <1>5, <1>10
<1>12. ASSUME NEW x \in Int, o <= x, x < o + ns PROVE x \in Region(d)
  BY <1>2, <1>7, <1>11, <1>12
<1>13. ASSUME NEW x \in Int, o + s * c <= x, x < o + s * c + ni PROVE x \in Region(d)
  BY <1>2, <1>7, <1>11, <1>13
<1> QED
  BY <1>1, <1>2, <1>5, <1>6, <1>8, <1>9, <1>10, <1>12, <1>13

LEMMA CopyBetweenRegions ==
    ASSUME NEW d, NEW e, Sound(d), Sound(e), Clear(d, e), d.offset # e.offset,
           NEW n, n = Min({d.size, e.size}), n > 0
    PROVE  /\ ~Overlap(get_codes(d), n * CodeSize, get_codes(e), n * CodeSize)
           /\ ~Overlap(get_ids(d), n * IdBytes, get_ids(e), n * IdBytes)
<1>1. /\ d.size \in Nat /\ d.capacity \in Nat /\ d.size <= d.capacity
      /\ e.size \in Nat /\ e.capacity \in Nat /\ e.size <= e.capacity
  BY SoundTypes
<1>2. n \in {d.size, e.size} /\ n <= d.size /\ n <= e.size
  BY <1>1, MinOf
<1>3. n \in Nat /\ n <= d.capacity /\ n <= e.capacity /\ d.capacity > 0 /\ e.capacity > 0
  BY <1>1, <1>2
<1>4. Region(d) \cap Region(e) = {}
  BY <1>3 DEF Clear
<1>5. PICK R, S, p, q, a, b, s, i :
          /\ R = Region(d) /\ S = Region(e)
          /\ p = get_codes(d) /\ q = get_codes(e) /\ a = get_ids(d) /\ b = get_ids(e)
          /\ s = n * CodeSize /\ i = n * IdBytes
  OBVIOUS
<1>6. /\ p \in Int /\ a \in Int /\ s \in Int /\ s > 0 /\ i \in Int /\ i > 0
      /\ \A x \in Int : p <= x /\ x < p + s => x \in R
      /\ \A x \in Int : a <= x /\ x < a + i => x \in R
  BY <1>3, <1>5, EntriesInRegion
<1>7. /\ q \in Int /\ b \in Int
      /\ \A x \in Int : q <= x /\ x < q + s => x \in S
      /\ \A x \in Int : b <= x /\ x < b + i => x \in S
  BY <1>3, <1>5, EntriesInRegion
<1>8. R \cap S = {}
  BY <1>4, <1>5
<1>9. ~Overlap(p, s, q, s)
  BY <1>6, <1>7, <1>8, RangesApart
<1>10. ~Overlap(a, i, b, i)
  BY <1>6, <1>7, <1>8, RangesApart
<1> QED
  BY <1>5, <1>9, <1>10

(* A call that gives list l another size, in the order of add and resize: *)
(* it changes l alone, and only before a merge.                            *)
LEMMA ResizedStaysOrderly ==
    ASSUME Stored, Orderly, ~merged, NEW l \in ListNos, NEW n \in Nat,
           NEW K, NEW u, NEW y, NEW k, NEW j,
           resize_locked(Storage, l, n) = StorageOf(K, u, y, k),
           Become(StorageOf(K, u, y, j)), Touch(l), merged' = merged
    PROVE  Orderly' /\ MovesClear
<1>1. /\ WellTyped(lists, slots, totsize) /\ Apart(lists, slots, totsize)
      /\ Walled(lists, slots) /\ l \in DOMAIN lists
  BY DEF Stored, Orderly, Placed, ListNos
<1>2. resize_locked(StorageOf(lists, slots, totsize, mem), l, n) = StorageOf(K, u, y, k)
  BY StorageIs
<1>3. /\ \A i \in DOMAIN lists : i # l => K[i] = lists[i]
      /\ Walled(K, u) /\ Clear(lists[l], K[l])
  BY <1>1, <1>2, ResizeKeepsWalls
<1>4. Apart(K, u, y)
  <2>1. PICK G, v, x, h :
                /\ resize_locked(StorageOf(lists, slots, totsize, mem), l, n) = StorageOf(G, v, x, h)
                /\ Apart(lists, slots, totsize) => Apart(G, v, x)
    BY <1>1, ResizeKeeps
  <2>2. StorageOf(G, v, x, h) = StorageOf(K, u, y, k)
    BY <1>2, <2>1
  <2>3. G = K /\ v = u /\ x = y
    BY <2>2 DEF StorageOf
  <2> QED
    BY <1>1, <2>1, <2>3
<1>5. lists' = K /\ slots' = u /\ totsize' = y
  BY DEF Become, StorageOf
<1>6. Placed(lists', slots', totsize', merged')
  BY <1>3, <1>4, <1>5, ApartIsPlaced
<1>7. saved' = saved
  BY DEF Touch
<1>8. Orderly'
  BY <1>6, <1>7 DEF Orderly, SavedPlaced, NotSaved
<1>9. MovesClear
  <2> SUFFICES ASSUME NEW i \in DOMAIN lists \cap DOMAIN lists'
               PROVE  Clear(lists[i], lists'[i])
    BY DEF MovesClear
  <2>1. CASE i = l
    BY <1>3, <1>5, <2>1
  <2>2. CASE i # l
    BY <1>3, <1>5, <2>2, SameIsClear
  <2> QED
    BY <2>1, <2>2
<1> QED
  BY <1>8, <1>9

LEMMA AddStaysOrderly ==
    ASSUME ~GrowAfterMerge, Stored, Orderly, NEW l \in ListNos, NEW n \in 0 .. MaxChunk,
           add_entries(l, n)
    PROVE  Orderly' /\ MovesClear
<1>1. /\ ~merged
      /\ Become(update_entries(resize_locked(Storage, l, lists[l].size + n), l,
                               lists[l].size, Fresh(n)))
      /\ Touch(l) /\ merged' = merged
  BY DEF add_entries, MayResize
<1>2. n \in Nat /\ WellTyped(lists, slots, totsize) /\ l \in DOMAIN lists
  BY BoundsAssumption DEF Stored, ListNos
<1>3. PICK r : r = lists[l].size + n
  OBVIOUS
<1>4. r \in Nat
  <2>1. lists[l].size \in Nat
    BY <1>2, SoundTypes DEF WellTyped
  <2> QED
    BY <1>2, <1>3, <2>1
<1>5. PICK K, u, y, k : resize_locked(Storage, l, r) = StorageOf(K, u, y, k)
  BY <1>2, <1>4, ResizeKeeps, StorageIs
<1>6. PICK j : update_entries(StorageOf(K, u, y, k), l, lists[l].size, Fresh(n))
                 = StorageOf(K, u, y, j)
  BY UpdateIs
<1>7. Become(StorageOf(K, u, y, j))
  BY <1>1, <1>3, <1>5, <1>6
<1> QED
  BY <1>1, <1>4, <1>5, <1>7, ResizedStaysOrderly

LEMMA ResizeStaysOrderly ==
    ASSUME ~GrowAfterMerge, Stored, Orderly, NEW l \in ListNos, NEW n \in NewSizes,
           resize(l, n)
    PROVE  Orderly' /\ MovesClear
<1>1. /\ ~merged /\ Become(resize_locked(Storage, l, n)) /\ Touch(l) /\ merged' = merged
  BY DEF resize, MayResize
<1>2. n \in Nat /\ WellTyped(lists, slots, totsize) /\ l \in DOMAIN lists
  BY BoundsAssumption DEF Stored, ListNos
<1>3. PICK K, u, y, k : resize_locked(Storage, l, n) = StorageOf(K, u, y, k)
  BY <1>2, ResizeKeeps, StorageIs
<1>4. Become(StorageOf(K, u, y, k))
  BY <1>1, <1>3
<1> QED
  BY <1>1, <1>2, <1>3, <1>4, ResizedStaysOrderly

LEMMA UpdateStaysOrderly ==
    ASSUME Orderly, NEW l, NEW first, NEW n, update(l, first, n)
    PROVE  Orderly' /\ MovesClear
<1>1. /\ Become(update_entries(Storage, l, first, Fresh(n))) /\ Touch(l) /\ merged' = merged
  BY DEF update
<1>2. PICK k : update_entries(Storage, l, first, Fresh(n))
                 = StorageOf(lists, slots, totsize, k)
  BY StorageIs, UpdateIs
<1>3. lists' = lists /\ slots' = slots /\ totsize' = totsize /\ saved' = saved
  BY <1>1, <1>2 DEF Become, StorageOf, Touch
<1>4. Orderly'
  BY <1>1, <1>3 DEF Orderly, SavedPlaced, NotSaved
<1>5. MovesClear
  BY <1>3, SameIsClear DEF MovesClear
<1> QED
  BY <1>4, <1>5

(* A list of an empty file has no entries. *)
LEMMA NoFileNoEntries ==
    ASSUME Stored, Orderly, totsize = 0, NEW l \in ListNos
    PROVE  ~(lists[l].capacity > 0)
<1> SUFFICES ASSUME lists[l].capacity > 0 PROVE FALSE
  OBVIOUS
<1>1. Sound(lists[l]) /\ l \in DOMAIN lists
  BY DEF Stored, WellTyped, ListNos
<1>2. lists[l].offset \in Nat /\ lists[l].offset \in Region(lists[l])
  BY <1>1, RegionIsLonger, SoundTypes
<1>3. lists[l].offset \in 0 .. (0 - 1)
  BY <1>1, <1>2 DEF Orderly, Placed
<1> QED
  BY <1>2, <1>3

LEMMA MergeStaysOrderly ==
    ASSUME Stored, Orderly, NEW s \in Sources, merge_from_multiple(s.ils, s.shift)
    PROVE  Orderly' /\ MovesClear
<1>1. /\ totsize = 0 /\ DOMAIN s.ils[1] = ListNos
      /\ IF \A i \in DOMAIN s.ils : Ntotal(s.ils[i]) = 0
         THEN Become([Storage EXCEPT !.lists = PackedLists(s.ils)])
         ELSE Become(Merged(s.ils, s.shift))
      /\ merged' = TRUE /\ saved' = saved
  BY DEF merge_from_multiple
<1>2. PICK n \in Nat : ListNos = 0 .. (n - 1)
  BY DEF Stored, WellTyped, ListNos
<1>3. PICK P : P = PackedLists(s.ils)
  OBVIOUS
<1>4. DOMAIN P = ListNos /\ \A l \in ListNos : P[l].size \in Nat /\ Sound(P[l])
  BY <1>1, <1>2, <1>3, PackedIs
<1>5. PICK z : z = EntryBytes * SumFunction(SizesIn(P))
  OBVIOUS
<1>6. /\ \A l \in ListNos : Region(P[l]) \subseteq 0 .. (z - 1)
      /\ \A k, l \in ListNos : k # l => Region(P[k]) \cap Region(P[l]) = {}
  BY <1>1, <1>2, <1>3, <1>5, PackedApart
<1>7. lists' = P /\ \A l \in ListNos : Region(P[l]) \subseteq 0 .. (totsize' - 1)
  <2>1. CASE ~\A i \in DOMAIN s.ils : Ntotal(s.ils[i]) = 0
    <3>1. Become(Merged(s.ils, s.shift))
      BY <1>1, <2>1
    <3>2. /\ Merged(s.ils, s.shift).lists = P
          /\ Merged(s.ils, s.shift).totsize = z
      BY <1>3, <1>5 DEF Merged, SizesIn
    <3>3. lists' = P /\ totsize' = z
      BY <3>1, <3>2 DEF Become
    <3> QED
      BY <1>6, <3>3
  <2>2. CASE \A i \in DOMAIN s.ils : Ntotal(s.ils[i]) = 0
    <3>1. [Storage EXCEPT !.lists = P] = StorageOf(P, slots, totsize, mem)
      BY DEF Storage, StorageOf
    <3>2. Become(StorageOf(P, slots, totsize, mem))
      BY <1>1, <1>3, <2>2, <3>1
    <3>3. lists' = P
      BY <3>2 DEF Become, StorageOf
    <3>4. ASSUME NEW l \in ListNos PROVE Region(P[l]) = {}
      <4>1. P[l].capacity = 0
        <5> DEFINE f == [i \in DOMAIN s.ils |-> Len(s.ils[i][l])]
                   D == DOMAIN s.ils
        <5>1. P[l].capacity = SumFunction(f)
          BY <1>3, PackedPlaces
        <5>2. ASSUME NEW i \in D PROVE f[i] = 0
          <6> DEFINE g == [m \in DOMAIN s.ils[i] |-> Len(s.ils[i][m])]
          <6>1. DOMAIN s.ils[i] = ListNos
            BY <1>1, SourcesAssumption
          <6>2. DOMAIN g = ListNos /\ \A m \in ListNos : g[m] = Len(s.ils[i][m]) /\ g[m] \in Nat
            BY <6>1, SourcesAssumption
          <6>3. SumFunction(g) = 0
            BY <2>2 DEF Ntotal
          <6> HIDE DEF g
          <6>4. SumFunctionOnSet(g, ListNos) = 0
            BY <6>2, <6>3 DEF SumFunction
          <6>5. IsFiniteSet(ListNos)
            <7>1. 0 \in Int /\ n - 1 \in Int
              OBVIOUS
            <7>2. IsFiniteSet(0 .. (n - 1))
              BY <7>1, FS_Interval
            <7> QED
              BY <1>2, <7>2
          <6>6. g[l] = 0
            BY <6>2, <6>4, <6>5, ZeroSum
          <6> QED
            BY <6>2, <6>6
        <5>3. DOMAIN f = D
          OBVIOUS
        <5>4. IsFiniteSet(D)
          <6>1. Len(s.ils) \in Nat /\ DOMAIN s.ils = 1 .. Len(s.ils)
            BY SourcesAssumption
          <6>2. IsFiniteSet(1 .. Len(s.ils))
            BY <6>1, FS_Interval
          <6> QED
            BY <6>1, <6>2
        <5> HIDE DEF f, D
        <5>5. SumFunctionOnSet(f, D) = 0
          BY <5>2, <5>4, SumOfZeros
        <5> QED
          BY <5>1, <5>3, <5>5 DEF SumFunction
      <4>2. 0 * EntryBytes = 0
        BY RegionsAreLonger
      <4>3. P[l].offset \in Int
        BY <1>4, SoundTypes
      <4> QED
        BY <4>1, <4>2, <4>3 DEF Region
    <3> QED
      BY <3>3, <3>4
  <2> QED
    BY <2>1, <2>2
<1>8. Placed(lists', slots', totsize', merged')
  BY <1>1, <1>4, <1>6, <1>7 DEF Placed
<1>9. Orderly'
  BY <1>1, <1>8 DEF Orderly, SavedPlaced, NotSaved
<1>10. MovesClear
  BY <1>1, NoFileNoEntries DEF MovesClear, Clear, ListNos
<1> QED
  BY <1>9, <1>10

LEMMA CropStaysOrderly ==
    ASSUME Stored, Orderly, NEW l0 \in 0 .. NList, NEW l1 \in 0 .. NList,
           crop_invlists(l0, l1)
    PROVE  Orderly' /\ MovesClear
<1>1. /\ l0 <= l1 /\ l1 <= Cardinality(ListNos)
      /\ lists' = [l \in 0 .. (l1 - l0 - 1) |-> lists[l0 + l]]
      /\ slots' = slots /\ totsize' = totsize /\ merged' = merged
      /\ saved' = saved /\ nopened' = nopened
  BY DEF crop_invlists
<1>2. PICK n \in Nat : DOMAIN lists = 0 .. (n - 1)
  BY DEF Stored, WellTyped
<1>3. Cardinality(ListNos) = n
  <2>1. 0 \in Int /\ n - 1 \in Int
    OBVIOUS
  <2>2. Cardinality(0 .. (n - 1)) = IF 0 > n - 1 THEN 0 ELSE (n - 1) - 0 + 1
    BY <2>1, FS_Interval
  <2> QED
    BY <1>2, <2>2 DEF ListNos
<1>4. l0 \in Nat /\ l1 \in Nat /\ l1 - l0 \in Nat /\ l1 <= n
  BY <1>1, <1>3, BoundsAssumption
<1>5. DOMAIN lists' = 0 .. ((l1 - l0) - 1)
  BY <1>1, <1>4
<1>6. \A l \in DOMAIN lists' : l \in Nat /\ l0 + l \in DOMAIN lists /\ lists'[l] = lists[l0 + l]
  BY <1>1, <1>2, <1>4, <1>5
<1>7. /\ \A l \in DOMAIN lists : Region(lists[l]) \subseteq 0 .. (totsize - 1)
      /\ \A k, l \in DOMAIN lists : k # l => Region(lists[k]) \cap Region(lists[l]) = {}
      /\ ~merged => Walled(lists, slots)
  BY DEF Orderly, Placed
<1>8. Placed(lists', slots', totsize', merged')
  <2>1. \A l \in DOMAIN lists' : Region(lists'[l]) \subseteq 0 .. (totsize - 1)
    BY <1>6, <1>7
  <2>2. \A k, l \in DOMAIN lists' : k # l => l0 + k # l0 + l
    BY <1>4, <1>6
  <2>3. \A k, l \in DOMAIN lists' : k # l => Region(lists'[k]) \cap Region(lists'[l]) = {}
    BY <1>6, <1>7, <2>2
  <2>4. ~merged => Walled(lists', slots)
    BY <1>6, <1>7 DEF Walled
  <2> QED
    BY <1>1, <2>1, <2>3, <2>4 DEF Placed
<1>9. Orderly'
  BY <1>1, <1>8 DEF Orderly, SavedPlaced, NotSaved
<1>10. MovesClear
  <2> SUFFICES ASSUME NEW l \in DOMAIN lists \cap DOMAIN lists'
               PROVE  Clear(lists[l], lists'[l])
    BY DEF MovesClear
  <2>1. CASE l0 = 0
    BY <1>6, <2>1, SameIsClear
  <2>2. CASE l0 # 0
    <3>1. l0 + l # l
      BY <1>4, <1>6, <2>2
    <3> QED
      BY <1>6, <1>7, <3>1 DEF Clear
  <2> QED
    BY <2>1, <2>2
<1> QED
  BY <1>9, <1>10

LEMMA WriteStaysOrderly ==
    ASSUME Orderly, write PROVE Orderly' /\ MovesClear
<1>1. /\ saved' = [lists |-> lists, slots |-> slots, totsize |-> totsize, merged |-> merged]
      /\ lists' = lists /\ slots' = slots /\ totsize' = totsize /\ merged' = merged
  BY DEF write
<1>2. saved'.lists = lists /\ saved'.slots = slots /\ saved'.totsize = totsize
      /\ saved'.merged = merged
  BY <1>1
<1>3. Orderly'
  BY <1>1, <1>2 DEF Orderly, SavedPlaced
<1>4. MovesClear
  BY <1>1, SameIsClear DEF MovesClear
<1> QED
  BY <1>3, <1>4

LEMMA ReadStaysOrderly ==
    ASSUME Stored, Orderly, read PROVE Orderly' /\ MovesClear
<1>1. /\ saved # NotSaved /\ Become(Reopened) /\ merged' = saved.merged
      /\ saved' = NotSaved /\ nopened' = nopened + 1
  BY DEF read
<1>2. lists' = saved.lists /\ slots' = saved.slots /\ totsize' = saved.totsize
  BY <1>1 DEF Become, Reopened
<1>3. Orderly'
  BY <1>1, <1>2 DEF Orderly, SavedPlaced, NotSaved
<1>4. nopened' # nopened
  BY <1>1 DEF Stored, Counters
<1> QED
  BY <1>3, <1>4 DEF MovesClear

LEMMA OrderlyKept ==
    ASSUME ~GrowAfterMerge, Stored, Orderly, [Next]_vars
    PROVE  Orderly' /\ MovesClear
<1>1. CASE \E l \in ListNos : \E n \in 0 .. MaxChunk : add_entries(l, n)
  BY <1>1, AddStaysOrderly
<1>2. CASE \E l \in ListNos : \E n \in NewSizes : resize(l, n)
  BY <1>2, ResizeStaysOrderly
<1>3. CASE \E l \in ListNos : \E n \in 1 .. MaxChunk, first \in 0 .. MaxSize :
               update(l, first, n)
  BY <1>3, UpdateStaysOrderly
<1>4. CASE \E s \in Sources : merge_from_multiple(s.ils, s.shift)
  BY <1>4, MergeStaysOrderly
<1>5. CASE \E l0, l1 \in 0 .. NList : crop_invlists(l0, l1)
  BY <1>5, CropStaysOrderly
<1>6. CASE write
  BY <1>6, WriteStaysOrderly
<1>7. CASE read
  BY <1>7, ReadStaysOrderly
<1>8. CASE UNCHANGED vars
  <2>1. lists' = lists /\ slots' = slots /\ totsize' = totsize /\ merged' = merged
        /\ saved' = saved
    BY <1>8 DEF vars
  <2>2. Orderly'
    BY <2>1 DEF Orderly, SavedPlaced, NotSaved
  <2> QED
    BY <2>1, <2>2, SameIsClear DEF MovesClear
<1> QED
  BY <1>1, <1>2, <1>3, <1>4, <1>5, <1>6, <1>7, <1>8 DEF Next

LEMMA MovesAreCopiesApart ==
    ASSUME Stored, Stored', MovesClear PROVE CopiesApart
<1> SUFFICES ASSUME NEW l \in ListNos \cap DOMAIN lists',
                    NEW n, n = Min({lists[l].size, lists'[l].size}),
                    n > 0, lists'[l].offset # lists[l].offset, nopened' = nopened
             PROVE  /\ ~Overlap(get_codes(lists[l]), n * CodeSize,
                                get_codes(lists'[l]), n * CodeSize)
                    /\ ~Overlap(get_ids(lists[l]), n * IdBytes,
                                get_ids(lists'[l]), n * IdBytes)
  BY DEF CopiesApart
<1>1. PICK d, e : d = lists[l] /\ e = lists'[l]
  OBVIOUS
<1>2. Sound(d) /\ Sound(e)
  BY <1>1 DEF Stored, WellTyped, ListNos
<1>3. Clear(d, e) /\ d.offset # e.offset /\ n = Min({d.size, e.size})
  BY <1>1 DEF MovesClear, ListNos
<1> QED
  BY <1>1, <1>2, <1>3, CopyBetweenRegions

(* For any sizes and numbers of lists, and whatever happened before, a list   *)
(* that resize_locked moves is copied to bytes that none of its codes or ids  *)
(* is in, although its region was given back first: what is given back ends   *)
(* inside the region, and the byte before it is never free.  (Adding after a  *)
(* merge is left out, as resizes then get space that lists own.)              *)
THEOREM CopiesStayApart == ASSUME ~GrowAfterMerge PROVE Spec => NeverCopiesOntoItself
<1>1. Init => Stored /\ Orderly
  BY StoredAtFirst, OrderlyAtFirst
<1>2. (Stored /\ Orderly) /\ [Next]_vars => (Stored /\ Orderly)' /\ [CopiesApart]_lists
  BY StoredKept, OrderlyKept, MovesAreCopiesApart
<1> QED
  BY <1>1, <1>2, PTL DEF Spec, NeverCopiesOntoItself
===============================================================================

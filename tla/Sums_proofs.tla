------------------------------ MODULE Sums_proofs ------------------------------
(***************************************************************************)
(* What SumFunctionOnSet adds up.  The library defines it by recursion on  *)
(* the subsets of a set, taking out an element that CHOOSE names; these    *)
(* lemmas say that the sum exists, and that any element may be taken out.  *)
(* Each induction is a choice of a smallest set for which a claim fails.   *)
(***************************************************************************)
EXTENDS Integers, Functions, FiniteSetTheorems, TLAPS

Some(s) == CHOOSE x \in s : TRUE

(* iter computes the sums of f over the subsets of S. *)
Computes(iter, f, S) ==
    iter = [s \in SUBSET S |->
               IF s = {} THEN 0 ELSE f[Some(s)] + iter[s \ {Some(s)}]]

(* A set of subsets of a finite set has a member that contains no other. *)
LEMMA SmallestSubset ==
    ASSUME NEW S, IsFiniteSet(S), NEW T, T \subseteq SUBSET S, T # {}
    PROVE  \E s \in T : \A t \in T : t \subseteq s => t = s
<1>1. T \subseteq FiniteSubsetsOf(S)
  BY FS_Subset DEF FiniteSubsetsOf
<1>2. PICK s \in T : \A t \in T : ~ (<<t, s>> \in StrictSubsetOrdering(S))
  BY <1>1, FS_StrictSubsetOrderingWellFounded, WFMin, Zenon
<1>3. ASSUME NEW t \in T, t \subseteq s PROVE t = s
  <2>1. t \subseteq S /\ s \subseteq S
    OBVIOUS
  <2>2. t # s => <<t, s>> \in StrictSubsetOrdering(S)
    BY <1>3, <2>1 DEF StrictSubsetOrdering
  <2> QED
    BY <1>2, <2>2
<1> QED
  BY <1>3

(* Two computations agree wherever both are defined. *)
LEMMA ComputedOnce ==
    ASSUME NEW f, NEW S, IsFiniteSet(S), NEW g, Computes(g, f, S),
           NEW R, NEW h, Computes(h, f, R), NEW s, s \subseteq S, s \subseteq R
    PROVE  g[s] = h[s]
<1> DEFINE Bad == {t \in SUBSET S : t \subseteq R /\ g[t] # h[t]}
<1> SUFFICES ASSUME Bad # {} PROVE FALSE
  OBVIOUS
<1>1. PICK t \in Bad : \A u \in Bad : u \subseteq t => u = t
  <2>1. Bad \subseteq SUBSET S
    OBVIOUS
  <2> HIDE DEF Bad
  <2> QED
    BY <2>1, SmallestSubset
<1>2. g[t] = IF t = {} THEN 0 ELSE f[Some(t)] + g[t \ {Some(t)}]
  BY DEF Computes
<1>3. h[t] = IF t = {} THEN 0 ELSE f[Some(t)] + h[t \ {Some(t)}]
  BY DEF Computes
<1>4. CASE t = {}
  BY <1>2, <1>3, <1>4
<1>5. CASE t # {}
  <2>1. Some(t) \in t
    BY <1>5 DEF Some
  <2>2. t \ {Some(t)} \notin Bad
    BY <1>1, <2>1
  <2>3. g[t \ {Some(t)}] = h[t \ {Some(t)}]
    BY <2>2
  <2> QED
    BY <1>2, <1>3, <1>5, <2>3
<1> QED
  BY <1>4, <1>5

(* There is a computation over every finite set. *)
LEMMA Computable ==
    ASSUME NEW f, NEW S, IsFiniteSet(S)
    PROVE  \E iter : Computes(iter, f, S)
<1> DEFINE Good(s) == \E iter : Computes(iter, f, s)
           Bad == {s \in SUBSET S : ~Good(s)}
<1> SUFFICES ASSUME Bad # {} PROVE FALSE
  OBVIOUS
<1>1. PICK s \in Bad : \A t \in Bad : t \subseteq s => t = s
  <2>1. Bad \subseteq SUBSET S
    OBVIOUS
  <2> HIDE DEF Bad
  <2> QED
    BY <2>1, SmallestSubset
<1> DEFINE G(t) == CHOOSE iter : Computes(iter, f, t)
           h == [t \in SUBSET s |->
                   IF t = {} THEN 0 ELSE f[Some(t)] + G(t \ {Some(t)})[t \ {Some(t)}]]
<1>2. \A t \in SUBSET s : t # s => Computes(G(t), f, t)
  <2> SUFFICES ASSUME NEW t \in SUBSET s, t # s PROVE Computes(G(t), f, t)
    OBVIOUS
  <2>1. Good(t)
    BY <1>1
  <2> QED
    BY <2>1
<1> HIDE DEF G
<1>3. ASSUME NEW t \in SUBSET s, t # {}
      PROVE  h[t] = f[Some(t)] + h[t \ {Some(t)}]
  <2> DEFINE u == t \ {Some(t)}
             v == u \ {Some(u)}
  <2>1. Some(t) \in t /\ u \subseteq s /\ u # s
    BY <1>3 DEF Some
  <2>2. h[t] = f[Some(t)] + G(u)[u]
    BY <1>3
  <2>3. Computes(G(u), f, u)
    BY <1>2, <2>1
  <2>4. G(u)[u] = IF u = {} THEN 0 ELSE f[Some(u)] + G(u)[v]
    BY <2>3 DEF Computes
  <2>5. CASE u = {}
    BY <2>2, <2>4, <2>5
  <2>6. CASE u # {}
    <3>1. Some(u) \in u
      BY <2>6 DEF Some
    <3>2. v \subseteq u /\ v \in SUBSET s /\ v # s
      BY <2>1
    <3>3. Computes(G(v), f, v)
      BY <1>2, <3>2
    <3>4. IsFiniteSet(u)
      BY <2>1, FS_Subset
    <3>5. G(u)[v] = G(v)[v]
      <4> HIDE DEF u, v
      <4> QED
        BY <2>3, <3>2, <3>3, <3>4, ComputedOnce
    <3>6. h[u] = f[Some(u)] + G(v)[v]
      BY <2>1, <2>6
    <3> QED
      BY <2>2, <2>4, <2>6, <3>5, <3>6
  <2> QED
    BY <2>5, <2>6
<1>4. h[{}] = 0
  OBVIOUS
<1>5. h = [t \in SUBSET s |-> h[t]]
  OBVIOUS
<1>6. \A t \in SUBSET s :
         h[t] = IF t = {} THEN 0 ELSE f[Some(t)] + h[t \ {Some(t)}]
  BY <1>3, <1>4
<1> HIDE DEF h
<1>7. Computes(h, f, s)
  BY <1>5, <1>6 DEF Computes
<1> QED
  BY <1>1, <1>7

(* The sum of SumFunctionOnSet is the one that is computed. *)
LEMMA SumComputed ==
    ASSUME NEW f, NEW S, IsFiniteSet(S)
    PROVE  \E iter : Computes(iter, f, S) /\ SumFunctionOnSet(f, S) = iter[S]
<1> DEFINE iter == CHOOSE g : Computes(g, f, S)
<1>1. Computes(iter, f, S)
  BY Computable
<1>2. SumFunctionOnSet(f, S) = iter[S]
  BY DEF SumFunctionOnSet, FoldFunctionOnSet, MapThenFoldSet, Computes, Some
<1> QED
  BY <1>1, <1>2

(* The sum over nothing is 0. *)
LEMMA SumOfNone == ASSUME NEW f PROVE SumFunctionOnSet(f, {}) = 0
<1>1. PICK iter : Computes(iter, f, {}) /\ SumFunctionOnSet(f, {}) = iter[{}]
  BY SumComputed, FS_EmptySet
<1> QED
  BY <1>1 DEF Computes

(* The element that CHOOSE names may be taken out. *)
LEMMA SumWithoutSome ==
    ASSUME NEW f, NEW S, IsFiniteSet(S), S # {}
    PROVE  SumFunctionOnSet(f, S) =
              f[Some(S)] + SumFunctionOnSet(f, S \ {Some(S)})
<1> DEFINE R == S \ {Some(S)}
<1>1. IsFiniteSet(R)
  BY FS_RemoveElement
<1>2. PICK g : Computes(g, f, S) /\ SumFunctionOnSet(f, S) = g[S]
  BY SumComputed
<1>3. PICK h : Computes(h, f, R) /\ SumFunctionOnSet(f, R) = h[R]
  BY <1>1, SumComputed
<1>4. g[S] = f[Some(S)] + g[R]
  BY <1>2 DEF Computes
<1>5. g[R] = h[R]
  BY <1>2, <1>3, ComputedOnce
<1> QED
  BY <1>2, <1>3, <1>4, <1>5

(* The sum of numbers is a number. *)
LEMMA SumIsNat ==
    ASSUME NEW S, IsFiniteSet(S), NEW f, \A x \in S : f[x] \in Nat
    PROVE  SumFunctionOnSet(f, S) \in Nat
<1> DEFINE Bad == {s \in SUBSET S : SumFunctionOnSet(f, s) \notin Nat}
<1> SUFFICES ASSUME Bad # {} PROVE FALSE
  OBVIOUS
<1>1. PICK s \in Bad : \A t \in Bad : t \subseteq s => t = s
  <2>1. Bad \subseteq SUBSET S
    OBVIOUS
  <2> HIDE DEF Bad
  <2> QED
    BY <2>1, SmallestSubset
<1>2. s # {}
  BY SumOfNone
<1>3. Some(s) \in s
  BY <1>2 DEF Some
<1>4. SumFunctionOnSet(f, s \ {Some(s)}) \in Nat
  BY <1>1, <1>3
<1>5. IsFiniteSet(s)
  BY FS_Subset
<1>6. SumFunctionOnSet(f, s) = f[Some(s)] + SumFunctionOnSet(f, s \ {Some(s)})
  BY <1>2, <1>5, SumWithoutSome
<1> QED
  BY <1>3, <1>4, <1>6

(* Any element may be taken out. *)
LEMMA SumWithout ==
    ASSUME NEW S, IsFiniteSet(S), NEW f, \A x \in S : f[x] \in Nat, NEW x \in S
    PROVE  SumFunctionOnSet(f, S) = f[x] + SumFunctionOnSet(f, S \ {x})
<1> DEFINE Sum(s) == SumFunctionOnSet(f, s)
           Bad == {s \in SUBSET S : \E y \in s : Sum(s) # f[y] + Sum(s \ {y})}
<1> SUFFICES ASSUME Bad # {} PROVE FALSE
  OBVIOUS
<1>1. PICK s \in Bad : \A t \in Bad : t \subseteq s => t = s
  <2>1. Bad \subseteq SUBSET S
    OBVIOUS
  <2> HIDE DEF Bad
  <2> QED
    BY <2>1, SmallestSubset
<1>2. PICK y \in s : Sum(s) # f[y] + Sum(s \ {y})
  OBVIOUS
<1> DEFINE c == Some(s)
           rest == (s \ {c}) \ {y}
<1>3. c \in s
  BY DEF Some
<1>4. IsFiniteSet(s) /\ \A t \in SUBSET s : IsFiniteSet(t)
  BY FS_Subset
<1> HIDE DEF Sum
<1>5. Sum(s) = f[c] + Sum(s \ {c})
  BY <1>3, <1>4, SumWithoutSome DEF Sum
<1>6. y # c
  BY <1>2, <1>5
<1>7. Sum(s \ {c}) = f[y] + Sum(rest)
  <2>1. s \ {c} \notin Bad
    BY <1>1, <1>3
  <2> QED
    BY <1>6, <2>1
<1>8. Sum(s \ {y}) = f[c] + Sum(rest)
  <2>1. s \ {y} \notin Bad
    BY <1>1
  <2>2. (s \ {y}) \ {c} = rest
    OBVIOUS
  <2> QED
    BY <1>3, <1>6, <2>1, <2>2
<1>9. Sum(rest) \in Nat /\ f[c] \in Nat /\ f[y] \in Nat
  BY <1>3, <1>4, SumIsNat DEF Sum
<1> HIDE DEF rest, c
<1> QED
  BY <1>2, <1>5, <1>7, <1>8, <1>9

(* Only the summands matter. *)
LEMMA SameSum ==
    ASSUME NEW S, IsFiniteSet(S), NEW f, \A x \in S : f[x] \in Nat,
           NEW g, \A x \in S : g[x] = f[x]
    PROVE  SumFunctionOnSet(g, S) = SumFunctionOnSet(f, S)
<1> DEFINE Bad == {s \in SUBSET S : SumFunctionOnSet(g, s) # SumFunctionOnSet(f, s)}
<1> SUFFICES ASSUME Bad # {} PROVE FALSE
  OBVIOUS
<1>1. PICK s \in Bad : \A t \in Bad : t \subseteq s => t = s
  <2>1. Bad \subseteq SUBSET S
    OBVIOUS
  <2> HIDE DEF Bad
  <2> QED
    BY <2>1, SmallestSubset
<1>2. s # {}
  BY SumOfNone
<1>3. PICK x \in s : TRUE
  BY <1>2
<1>4. SumFunctionOnSet(g, s \ {x}) = SumFunctionOnSet(f, s \ {x})
  BY <1>1
<1>5. IsFiniteSet(s)
  BY FS_Subset
<1>6. SumFunctionOnSet(f, s) = f[x] + SumFunctionOnSet(f, s \ {x})
  BY <1>5, SumWithout
<1>7. SumFunctionOnSet(g, s) = g[x] + SumFunctionOnSet(g, s \ {x})
  BY <1>5, SumWithout
<1> QED
  BY <1>4, <1>6, <1>7

(* A sum of zeros is 0. *)
LEMMA SumOfZeros ==
    ASSUME NEW S, IsFiniteSet(S), NEW f, \A x \in S : f[x] = 0
    PROVE  SumFunctionOnSet(f, S) = 0
<1> DEFINE Bad == {s \in SUBSET S : SumFunctionOnSet(f, s) # 0}
<1> SUFFICES ASSUME Bad # {} PROVE FALSE
  OBVIOUS
<1>1. PICK s \in Bad : \A t \in Bad : t \subseteq s => t = s
  <2>1. Bad \subseteq SUBSET S
    OBVIOUS
  <2> HIDE DEF Bad
  <2> QED
    BY <2>1, SmallestSubset
<1>2. s # {}
  BY SumOfNone
<1>3. PICK x \in s : TRUE
  BY <1>2
<1>4. SumFunctionOnSet(f, s \ {x}) = 0
  BY <1>1
<1>5. IsFiniteSet(s)
  BY FS_Subset
<1>6. SumFunctionOnSet(f, s) = f[x] + SumFunctionOnSet(f, s \ {x})
  BY <1>5, SumWithout
<1> QED
  BY <1>4, <1>6

(* What one element more adds. *)
LEMMA SumWith ==
    ASSUME NEW S, IsFiniteSet(S), NEW x, x \notin S,
           NEW f, \A y \in S \union {x} : f[y] \in Nat
    PROVE  SumFunctionOnSet(f, S \union {x}) = f[x] + SumFunctionOnSet(f, S)
<1>1. IsFiniteSet(S \union {x})
  BY FS_AddElement
<1>2. (S \union {x}) \ {x} = S
  OBVIOUS
<1> QED
  BY <1>1, <1>2, SumWithout

(* Summing over a set or over the places its members stand at is the same. *)
LEMMA SumReindexed ==
    ASSUME NEW S, IsFiniteSet(S), NEW at, \A x, y \in S : at[x] = at[y] => x = y,
           NEW f, \A x \in S : f[at[x]] \in Nat,
           NEW g, \A x \in S : g[x] = f[at[x]]
    PROVE  SumFunctionOnSet(g, S) = SumFunctionOnSet(f, {at[x] : x \in S})
<1> DEFINE Image(s) == {at[x] : x \in s}
           Bad == {s \in SUBSET S : SumFunctionOnSet(g, s) # SumFunctionOnSet(f, Image(s))}
<1> SUFFICES ASSUME Bad # {} PROVE FALSE
  OBVIOUS
<1>1. PICK s \in Bad : \A t \in Bad : t \subseteq s => t = s
  <2>1. Bad \subseteq SUBSET S
    OBVIOUS
  <2> HIDE DEF Bad
  <2> QED
    BY <2>1, SmallestSubset
<1>2. s # {}
  <2>1. Image({}) = {}
    OBVIOUS
  <2> QED
    BY <2>1, SumOfNone
<1>3. PICK x \in s : TRUE
  BY <1>2
<1>4. SumFunctionOnSet(g, s \ {x}) = SumFunctionOnSet(f, Image(s \ {x}))
  BY <1>1
<1>5. IsFiniteSet(s) /\ IsFiniteSet(Image(s))
  <2>1. IsFiniteSet(s)
    BY FS_Subset
  <2>2. IsFiniteSet(Image(s))
    <3> DEFINE h == [y \in s |-> at[y]]
    <3>1. h \in Surjection(s, Image(s))
      BY DEF Surjection
    <3> QED
      BY <2>1, <3>1, FS_Surjection
  <2> QED
    BY <2>1, <2>2
<1>6. Image(s) \ {at[x]} = Image(s \ {x}) /\ at[x] \in Image(s)
  OBVIOUS
<1>7. \A y \in Image(s) : f[y] \in Nat
  OBVIOUS
<1>8. SumFunctionOnSet(f, Image(s)) = f[at[x]] + SumFunctionOnSet(f, Image(s \ {x}))
  <2> HIDE DEF Image
  <2>1. SumFunctionOnSet(f, Image(s)) =
           f[at[x]] + SumFunctionOnSet(f, Image(s) \ {at[x]})
    BY <1>5, <1>6, <1>7, SumWithout
  <2> QED
    BY <1>6, <2>1
<1>9. SumFunctionOnSet(g, s) = g[x] + SumFunctionOnSet(g, s \ {x})
  BY <1>5, SumWithout
<1> QED
  BY <1>4, <1>8, <1>9

(* If numbers add up to 0 each of them is 0. *)
LEMMA ZeroSum ==
    ASSUME NEW S, IsFiniteSet(S), NEW f, \A x \in S : f[x] \in Nat,
           SumFunctionOnSet(f, S) = 0
    PROVE  \A x \in S : f[x] = 0
<1> SUFFICES ASSUME NEW x \in S PROVE f[x] = 0
  OBVIOUS
<1>1. SumFunctionOnSet(f, S) = f[x] + SumFunctionOnSet(f, S \ {x})
  BY SumWithout
<1>2. SumFunctionOnSet(f, S \ {x}) \in Nat
  BY FS_RemoveElement, SumIsNat
<1> QED
  BY <1>1, <1>2

(* A set of naturals has a smallest member. *)
LEMMA SmallestOf ==
    ASSUME NEW T, T \subseteq Nat, T # {}
    PROVE  \E n \in T : \A m \in T : n <= m
<1>1. PICK n \in T : \A m \in T : ~ (<<m, n>> \in OpToRel(<, Nat))
  BY NatLessThanWellFounded, WFMin, Zenon
<1>2. ASSUME NEW m \in T PROVE n <= m
  <2>1. ~ (m < n)
    BY <1>1 DEF OpToRel
  <2> QED
    BY <2>1
<1> QED
  BY <1>2

(* The steps between numbers add up to their distance. *)
LEMMA SumOfSteps ==
    ASSUME NEW n \in Nat, NEW b, \A k \in 1 .. (n + 1) : b[k] \in Nat,
           \A k \in 1 .. n : b[k] <= b[k + 1],
           NEW f, \A k \in 1 .. n : f[k] = b[k + 1] - b[k]
    PROVE  \A m \in 0 .. n : SumFunctionOnSet(f, 1 .. m) = b[m + 1] - b[1]
<1> DEFINE Bad == {m \in 0 .. n : SumFunctionOnSet(f, 1 .. m) # b[m + 1] - b[1]}
<1> SUFFICES ASSUME Bad # {} PROVE FALSE
  OBVIOUS
<1>1. PICK m \in Bad : \A k \in Bad : m <= k
  <2>1. Bad \subseteq Nat
    OBVIOUS
  <2> HIDE DEF Bad
  <2> QED
    BY <2>1, SmallestOf
<1>2. m # 0
  <2>1. SumFunctionOnSet(f, 1 .. 0) = 0
    <3>1. 1 .. 0 = {}
      OBVIOUS
    <3> QED
      BY <3>1, SumOfNone
  <2> QED
    BY <2>1
<1>3. m \in 1 .. n /\ m - 1 \in 0 .. n
  BY <1>2
<1>4. SumFunctionOnSet(f, 1 .. (m - 1)) = b[m] - b[1]
  <2>1. m - 1 \notin Bad
    BY <1>1, <1>3
  <2> QED
    BY <1>3, <2>1
<1>5. SumFunctionOnSet(f, 1 .. m) = f[m] + SumFunctionOnSet(f, 1 .. (m - 1))
  <2>1. IsFiniteSet(1 .. (m - 1)) /\ m \notin 1 .. (m - 1)
    BY <1>3, FS_Interval
  <2>2. (1 .. (m - 1)) \union {m} = 1 .. m
    BY <1>3
  <2>3. ASSUME NEW k \in (1 .. (m - 1)) \union {m} PROVE f[k] \in Nat
    <3>1. k \in 1 .. n /\ k \in 1 .. (n + 1) /\ k + 1 \in 1 .. (n + 1)
      BY <1>3, <2>2
    <3>2. b[k] \in Nat /\ b[k + 1] \in Nat /\ b[k] <= b[k + 1] /\ f[k] = b[k + 1] - b[k]
      BY <3>1
    <3> QED
      BY <3>2, SMTT(30)
  <2>4. SumFunctionOnSet(f, (1 .. (m - 1)) \union {m}) = f[m] + SumFunctionOnSet(f, 1 .. (m - 1))
    <3> HIDE DEF Bad
    <3> QED
      BY <2>1, <2>3, SumWith
  <2> QED
    BY <2>2, <2>4
<1> QED
  BY <1>3, <1>4, <1>5

(* A part of the numbers adds up to no more than all of them. *)
LEMMA SumOfPart ==
    ASSUME NEW S, IsFiniteSet(S), NEW f, \A x \in S : f[x] \in Nat, NEW R, R \subseteq S
    PROVE  SumFunctionOnSet(f, R) <= SumFunctionOnSet(f, S)
<1> DEFINE Sum(s) == SumFunctionOnSet(f, s)
           Bad == {s \in SUBSET S : R \subseteq s /\ ~(Sum(R) <= Sum(s))}
<1> SUFFICES ASSUME Bad # {} PROVE FALSE
  OBVIOUS
<1>1. PICK s \in Bad : \A t \in Bad : t \subseteq s => t = s
  <2>1. Bad \subseteq SUBSET S
    OBVIOUS
  <2> HIDE DEF Bad
  <2> QED
    BY <2>1, SmallestSubset
<1>2. IsFiniteSet(s) /\ \A x \in s : f[x] \in Nat
  BY FS_Subset
<1>3. Sum(R) \in Nat
  BY FS_Subset, SumIsNat
<1>4. CASE s = R
  BY <1>3, <1>4
<1>5. CASE s # R
  <2>1. PICK x \in s : x \notin R
    BY <1>5
  <2>2. s \ {x} \notin Bad
    BY <1>1, <2>1
  <2>3. Sum(R) <= Sum(s \ {x})
    BY <2>1, <2>2
  <2>4. Sum(s) = f[x] + Sum(s \ {x})
    BY <1>2, <2>1, SumWithout
  <2>5. f[x] \in Nat /\ Sum(s \ {x}) \in Nat
    BY <1>2, FS_RemoveElement, SumIsNat
  <2> QED
    BY <1>3, <2>3, <2>4, <2>5
<1> QED
  BY <1>4, <1>5
===============================================================================

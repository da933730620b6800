------------------------------ MODULE PinningProofs ------------------------------
(***************************************************************************)
(* The proof that the hash of a tool definition tells any two definitions  *)
(* apart that differ as JSON, and no others, for every depth limit, every  *)
(* set of values and strings of every length; and with it the proof that a *)
(* pin matches exactly the definition it was taken from.                   *)
(***************************************************************************)
EXTENDS Pinning, SequenceTheorems, FiniteSetTheorems, WellFoundedInduction, TLAPS

(* A set of numbers has a least one. *)
LEMMA Least ==
    ASSUME NEW S, S \subseteq Nat, S # {}
    PROVE  \E x \in S : \A y \in S : x <= y
<1>1. PICK x \in S : \A y \in S : ~(<<y, x>> \in OpToRel(<, Nat))
  BY NatLessThanWellFounded, WFMin
<1>2. \A y \in S : ~(y < x)
  BY <1>1 DEF OpToRel
<1> QED
  BY <1>2

(* Induction, on a set of numbers. *)
LEMMA Induction ==
    ASSUME NEW T, 0 \in T, \A n \in Nat : n \in T => n + 1 \in T
    PROVE  Nat \subseteq T
<1> SUFFICES ASSUME Nat \ T # {} PROVE FALSE
  OBVIOUS
<1>1. PICK m \in Nat \ T : \A k \in Nat \ T : m <= k
  BY Least
<1>2. m # 0 /\ m - 1 \in Nat /\ m - 1 \notin Nat \ T
  BY <1>1
<1> QED
  BY <1>1, <1>2

(* A recursion over the numbers up to some bound, one step from each to the  *)
(* next, has a solution.                                                     *)
Iterates(f, n, S, base, step) ==
    /\ f \in [0..n -> S] /\ f[0] = base
    /\ \A i \in 0..(n - 1) : f[i + 1] = step[i][f[i]]

LEMMA Iterate ==
    ASSUME NEW n \in Nat, NEW S, NEW base \in S, NEW step \in [Nat -> [S -> S]]
    PROVE  \E f : Iterates(f, n, S, base, step)
<1> DEFINE Sol(k, f) == f[0] = base /\ \A i \in 0..(k - 1) : f[i + 1] = step[i][f[i]]
           T == {k \in Nat : \E f \in [0..k -> S] : Sol(k, f)}
<1>1. 0 \in T
  <2>1. [i \in 0..0 |-> base] \in [0..0 -> S] /\ Sol(0, [i \in 0..0 |-> base])
    OBVIOUS
  <2> QED
    BY <2>1
<1>2. ASSUME NEW k \in Nat, k \in T PROVE k + 1 \in T
  <2>1. PICK f \in [0..k -> S] : Sol(k, f)
    BY <1>2
  <2> DEFINE g == [i \in 0..(k + 1) |-> IF i <= k THEN f[i] ELSE step[k][f[k]]]
  <2>2. step[k][f[k]] \in S
    OBVIOUS
  <2>3. g \in [0..(k + 1) -> S]
    BY <2>2
  <2>4. \A i \in 0..k : g[i] = f[i]
    OBVIOUS
  <2>5. g[k + 1] = step[k][f[k]]
    OBVIOUS
  <2> HIDE DEF g
  <2>6. ASSUME NEW i \in 0..k PROVE g[i + 1] = step[i][g[i]]
    <3>1. CASE i = k
      BY <2>4, <2>5, <3>1
    <3>2. CASE i # k
      <4>1. i \in 0..(k - 1) /\ i + 1 \in 0..k
        BY <3>2
      <4> QED
        BY <2>1, <2>4, <4>1
    <3> QED
      BY <3>1, <3>2
  <2>7. g[0] = base
    BY <2>1, <2>4
  <2>8. (k + 1) - 1 = k
    OBVIOUS
  <2>9. Sol(k + 1, g)
    BY <2>6, <2>7, <2>8
  <2> QED
    BY <2>3, <2>9
<1> HIDE DEF T
<1>3. n \in T
  BY <1>1, <1>2, Induction
<1> QED
  BY <1>3 DEF T, Iterates

(* Keys and strings: sequences of bytes.                                     *)
Text == Seq(Nat)

(* The order of keys is a strict one, and total.                             *)
LEMMA KeyOrder ==
    ASSUME NEW a \in Text, NEW b \in Text, NEW c \in Text
    PROVE  /\ ~KeyBefore(a, a)
           /\ KeyBefore(a, b) /\ KeyBefore(b, c) => KeyBefore(a, c)
           /\ a # b => KeyBefore(a, b) \/ KeyBefore(b, a)
<1> USE DEF Text
<1>1. /\ Len(a) \in Nat /\ DOMAIN a = 1..Len(a) /\ \A i \in 1..Len(a) : a[i] \in Nat
      /\ Len(b) \in Nat /\ DOMAIN b = 1..Len(b) /\ \A i \in 1..Len(b) : b[i] \in Nat
      /\ Len(c) \in Nat /\ DOMAIN c = 1..Len(c) /\ \A i \in 1..Len(c) : c[i] \in Nat
  BY LenProperties, ElementOfSeq
<1>d. DOMAIN a = 1..Len(a) /\ DOMAIN b = 1..Len(b) /\ DOMAIN c = 1..Len(c)
  BY <1>1
<1>n. Len(a) \in Nat /\ Len(b) \in Nat /\ Len(c) \in Nat
  BY <1>1
<1>2. ~KeyBefore(a, a)
  BY <1>1 DEF KeyBefore
<1>3. ASSUME KeyBefore(a, b), KeyBefore(b, c) PROVE KeyBefore(a, c)
  <2>1. PICK i \in 1..Len(b) : /\ i <= Len(a) + 1 /\ \A k \in 1..(i - 1) : a[k] = b[k]
                               /\ i \in 1..Len(a) => a[i] < b[i]
    BY <1>1, <1>3 DEF KeyBefore
  <2>2. PICK j \in 1..Len(c) : /\ j <= Len(b) + 1 /\ \A k \in 1..(j - 1) : b[k] = c[k]
                               /\ j \in 1..Len(b) => b[j] < c[j]
    BY <1>1, <1>3 DEF KeyBefore
  <2>3. CASE i <= j
    <3>1. i \in 1..Len(c) /\ i <= Len(a) + 1
      BY <1>1, <2>1, <2>2, <2>3
    <3>2. \A k \in 1..(i - 1) : a[k] = c[k]
      <4>1. \A k \in 1..(i - 1) : k \in 1..(j - 1)
        BY <1>1, <2>3
      <4> QED
        BY <2>1, <2>2, <4>1
    <3>3. i \in 1..Len(a) => a[i] < c[i]
      <4>1. CASE i = j
        BY <1>1, <2>1, <2>2, <4>1
      <4>2. CASE i # j
        <5>1. i \in 1..(j - 1)
          BY <1>1, <2>3, <4>2
        <5> QED
          BY <1>1, <2>1, <2>2, <5>1
      <4> QED
        BY <4>1, <4>2
    <3> QED
      BY <1>d, <3>1, <3>2, <3>3 DEF KeyBefore
  <2>4. CASE j < i
    <3>1. j \in 1..Len(c) /\ j <= Len(a) /\ j \in 1..(i - 1) /\ j \in 1..Len(b)
      BY <1>1, <2>1, <2>2, <2>4
    <3>2. \A k \in 1..(j - 1) : a[k] = c[k]
      <4>1. \A k \in 1..(j - 1) : k \in 1..(i - 1)
        BY <1>1, <2>4
      <4> QED
        BY <2>1, <2>2, <4>1
    <3>3. a[j] = b[j] /\ b[j] < c[j]
      BY <2>1, <2>2, <3>1
    <3>4. j \in DOMAIN c /\ j <= Len(a) + 1 /\ a[j] < c[j]
      BY <1>1, <3>1, <3>3
    <3> QED
      BY <3>2, <3>4 DEF KeyBefore
  <2> QED
    BY <1>1, <2>3, <2>4
<1>4. ASSUME a # b PROVE KeyBefore(a, b) \/ KeyBefore(b, a)
  <2> DEFINE D == {i \in Nat \ {0} : i > Len(a) \/ i > Len(b) \/ a[i] # b[i]}
  <2>1. Len(a) + 1 \in D /\ D \subseteq Nat
    BY <1>1
  <2>2. PICK i \in D : \A j \in D : i <= j
    BY <2>1, Least
  <2>3. \A k \in 1..(i - 1) : k <= Len(a) /\ k <= Len(b) /\ a[k] = b[k]
    <3> SUFFICES ASSUME NEW k \in 1..(i - 1)
                 PROVE  k <= Len(a) /\ k <= Len(b) /\ a[k] = b[k]
      OBVIOUS
    <3>1. k \in Nat \ {0} /\ k \notin D
      BY <2>2
    <3> QED
      BY <1>1, <3>1
  <2>4. i \in Nat \ {0} /\ i <= Len(a) + 1 /\ i <= Len(b) + 1
    <3>1. i = 1 \/ i - 1 \in 1..(i - 1)
      BY <2>2
    <3> QED
      BY <1>1, <2>2, <2>3, <3>1
  <2>5. CASE i <= Len(a) /\ i <= Len(b)
    <3>1. a[i] # b[i] /\ a[i] \in Nat /\ b[i] \in Nat
      BY <1>1, <2>2, <2>5
    <3>2. a[i] < b[i] \/ b[i] < a[i]
      BY <3>1
    <3>3. i \in DOMAIN a /\ i \in DOMAIN b /\ i <= Len(a) + 1 /\ i <= Len(b) + 1
      BY <1>d, <1>n, <2>4, <2>5
    <3>4. \A j \in 1..(i - 1) : a[j] = b[j] /\ b[j] = a[j]
      BY <2>3
    <3> QED
      BY <3>2, <3>3, <3>4 DEF KeyBefore
  <2>6. CASE i > Len(a) /\ i <= Len(b)
    <3>1. i \in DOMAIN b /\ i <= Len(a) + 1 /\ i \notin DOMAIN a
      BY <1>d, <1>n, <2>4, <2>6
    <3>2. \A j \in 1..(i - 1) : a[j] = b[j]
      BY <2>3
    <3> QED
      BY <3>1, <3>2 DEF KeyBefore
  <2>7. CASE i > Len(b) /\ i <= Len(a)
    <3>1. i \in DOMAIN a /\ i <= Len(b) + 1 /\ i \notin DOMAIN b
      BY <1>d, <1>n, <2>4, <2>7
    <3>2. \A j \in 1..(i - 1) : b[j] = a[j]
      BY <2>3
    <3> QED
      BY <3>1, <3>2 DEF KeyBefore
  <2>8. CASE i > Len(a) /\ i > Len(b)
    <3>1. Len(a) = Len(b) /\ i = Len(a) + 1
      BY <1>n, <2>4, <2>8
    <3>2. \A k \in 1..Len(a) : a[k] = b[k]
      BY <2>3, <3>1, <1>1
    <3>3. a = b
      BY <3>1, <3>2, SeqEqual
    <3> QED
      BY <3>3, <1>4
  <2> QED
    BY <1>1, <2>4, <2>5, <2>6, <2>7, <2>8
<1> QED
  BY <1>2, <1>3, <1>4

(* Of n keys each has a place of its own among the numbers 1 to n.           *)
LEMMA Places ==
    ASSUME NEW K, K \subseteq Text, IsFiniteSet(K)
    PROVE  /\ Cardinality(K) \in Nat
           /\ \A i \in 1..Cardinality(K) : \E k \in K : Place(k, K) = i
           /\ \A k, l \in K : Place(k, K) = Place(l, K) => k = l
           /\ \A k \in K : Place(k, K) \in 1..Cardinality(K)
<1> DEFINE B(k) == {l \in K : KeyBefore(l, k)}
           n == Cardinality(K)
<1>1. \A k \in K : IsFiniteSet(B(k)) /\ Cardinality(B(k)) \in Nat
  BY FS_Subset, FS_CardinalityType
<1>2. n \in Nat
  BY FS_CardinalityType
<1>3. ASSUME NEW k \in K PROVE Cardinality(B(k)) < n
  <2>1. k \notin B(k) /\ B(k) \subseteq K
    BY KeyOrder
  <2>2. IsFiniteSet(K \ {k}) /\ Cardinality(K \ {k}) = n - 1
    BY FS_RemoveElement
  <2>3. B(k) \in SUBSET (K \ {k})
    BY <2>1
  <2> HIDE DEF B, n
  <2>4. Cardinality(B(k)) <= Cardinality(K \ {k})
    BY <2>2, <2>3, FS_Subset
  <2> QED
    BY <1>1, <1>2, <2>2, <2>4
<1>4. ASSUME NEW k \in K, NEW l \in K, KeyBefore(k, l)
      PROVE  Cardinality(B(k)) < Cardinality(B(l))
  <2>1. k \in B(l) /\ k \notin B(k)
    BY <1>4, KeyOrder
  <2>2. B(k) \subseteq B(l)
    <3> SUFFICES ASSUME NEW m \in K, KeyBefore(m, k) PROVE KeyBefore(m, l)
      OBVIOUS
    <3>1. m \in Text /\ k \in Text /\ l \in Text
      OBVIOUS
    <3> QED
      BY <1>4, <3>1, KeyOrder
  <2>3. B(k) \in SUBSET (B(l) \ {k})
    BY <2>1, <2>2
  <2> HIDE DEF B
  <2>4. IsFiniteSet(B(l) \ {k}) /\ Cardinality(B(l) \ {k}) = Cardinality(B(l)) - 1
    BY <1>1, <2>1, FS_RemoveElement
  <2>5. Cardinality(B(k)) <= Cardinality(B(l) \ {k})
    BY <2>3, <2>4, FS_Subset
  <2> QED
    BY <1>1, <2>4, <2>5
<1> DEFINE rank == [k \in K |-> Cardinality(B(k)) + 1]
<1>5. \A k, l \in K : rank[k] = rank[l] => k = l
  <2> SUFFICES ASSUME NEW k \in K, NEW l \in K, k # l PROVE rank[k] # rank[l]
    OBVIOUS
  <2>1. KeyBefore(k, l) \/ KeyBefore(l, k)
    BY KeyOrder
  <2>2. rank[k] = Cardinality(B(k)) + 1 /\ rank[l] = Cardinality(B(l)) + 1
    OBVIOUS
  <2> HIDE DEF rank, B
  <2> QED
    BY <1>1, <1>4, <2>1, <2>2
<1>6. rank \in [K -> 1..n]
  <2>1. \A k \in K : Cardinality(B(k)) + 1 \in 1..n
    <3> HIDE DEF B, n
    <3> QED
      BY <1>1, <1>2, <1>3
  <2> QED
    BY <2>1
<1>7. \A k \in K : Place(k, K) = rank[k]
  BY DEF Place
<1> HIDE DEF rank, n
<1>8. rank \in Injection(K, 1..n)
  BY <1>5, <1>6 DEF Injection, IsInjective
<1>9. IsFiniteSet(1..n) /\ Cardinality(1..n) = n
  BY <1>2, FS_Interval
<1>10. rank \in Surjection(K, 1..n)
  BY <1>8, <1>9, FS_Injection DEF n
<1>11. \A i \in 1..n : \E k \in K : rank[k] = i
  BY <1>10 DEF Surjection
<1> QED
  BY <1>2, <1>5, <1>6, <1>7, <1>11 DEF n

(* The entries of an object, and its keys.                                   *)
Entries == Seq(Text \X Values)
DistinctKeys(entries) ==
    \A i, j \in DOMAIN entries : entries[i][1] = entries[j][1] => i = j

LEMMA KeysOfEntries ==
    ASSUME NEW es \in Entries, DistinctKeys(es)
    PROVE  /\ Keys(es) \subseteq Text /\ IsFiniteSet(Keys(es))
           /\ Cardinality(Keys(es)) = Len(es)
           /\ Len(es) \in Nat /\ DOMAIN es = 1..Len(es)
           /\ \A i \in 1..Len(es) : es[i] \in Text \X Values /\ es[i][1] \in Keys(es)
           /\ \A k \in Keys(es) : \E i \in 1..Len(es) : es[i][1] = k
<1>1. /\ Len(es) \in Nat /\ DOMAIN es = 1..Len(es)
      /\ \A i \in 1..Len(es) : es[i] \in Text \X Values
  BY LenProperties, ElementOfSeq DEF Entries
<1>2. /\ \A i \in 1..Len(es) : es[i][1] \in Keys(es)
      /\ \A k \in Keys(es) : \E i \in 1..Len(es) : es[i][1] = k
  BY <1>1 DEF Keys, Range
<1>3. Keys(es) \subseteq Text
  BY <1>1, <1>2
<1> DEFINE f == [i \in 1..Len(es) |-> es[i][1]]
<1>4. f \in Surjection(1..Len(es), Keys(es))
  BY <1>2 DEF Surjection
<1>5. f \in Injection(1..Len(es), Keys(es))
  BY <1>1, <1>2 DEF Injection, IsInjective, DistinctKeys
<1>6. IsFiniteSet(1..Len(es)) /\ Cardinality(1..Len(es)) = Len(es)
  <2>1. \A n \in Nat : IsFiniteSet(1..n) /\ Cardinality(1..n) = n
    BY FS_Interval
  <2> QED
    BY <1>1, <2>1
<1> HIDE DEF f
<1>7. IsFiniteSet(Keys(es)) /\ Cardinality(Keys(es)) = Cardinality(1..Len(es))
  BY <1>4, <1>5, <1>6, FS_Surjection
<1> QED
  BY <1>1, <1>2, <1>3, <1>6, <1>7

(* Sorting puts each entry in the place of its key, and loses none.          *)
LEMMA SortedEntries ==
    ASSUME NEW es \in Entries, DistinctKeys(es)
    PROVE  /\ Sorted(es) \in Entries /\ Len(Sorted(es)) = Len(es)
           /\ \A i \in 1..Len(es) : /\ \E j \in 1..Len(es) : Sorted(es)[i] = es[j]
                                    /\ Place(Sorted(es)[i][1], Keys(es)) = i
           /\ \A j \in 1..Len(es) : \E i \in 1..Len(es) : Sorted(es)[i] = es[j]
<1> DEFINE n == Len(es)
           At(i) == CHOOSE e \in Range(es) : Place(e[1], Keys(es)) = i
<1>1. /\ Keys(es) \subseteq Text /\ IsFiniteSet(Keys(es)) /\ Cardinality(Keys(es)) = n
      /\ n \in Nat /\ DOMAIN es = 1..n
      /\ \A i \in 1..n : es[i] \in Text \X Values /\ es[i][1] \in Keys(es)
      /\ \A k \in Keys(es) : \E i \in 1..n : es[i][1] = k
  BY KeysOfEntries
<1>2. /\ \A i \in 1..n : \E k \in Keys(es) : Place(k, Keys(es)) = i
      /\ \A k, l \in Keys(es) : Place(k, Keys(es)) = Place(l, Keys(es)) => k = l
      /\ \A k \in Keys(es) : Place(k, Keys(es)) \in 1..n
  BY <1>1, Places
<1>3. Sorted(es) = [i \in 1..n |-> At(i)]
  BY <1>1 DEF Sorted
<1>4. ASSUME NEW i \in 1..n PROVE At(i) \in Range(es) /\ Place(At(i)[1], Keys(es)) = i
  <2>1. PICK k \in Keys(es) : Place(k, Keys(es)) = i
    BY <1>2
  <2>2. PICK j \in 1..n : es[j][1] = k
    BY <1>1
  <2>3. es[j] \in Range(es) /\ Place(es[j][1], Keys(es)) = i
    BY <1>1, <2>1, <2>2 DEF Range
  <2> QED
    BY <2>3
<1>5. \A e \in Range(es) : \E j \in 1..n : e = es[j]
  BY <1>1 DEF Range
<1> HIDE DEF At
<1>6. ASSUME NEW i \in 1..n
      PROVE  /\ \E j \in 1..n : Sorted(es)[i] = es[j]
             /\ Place(Sorted(es)[i][1], Keys(es)) = i
  BY <1>3, <1>4, <1>5
<1>7. Sorted(es) \in [1..n -> Text \X Values]
  BY <1>1, <1>3, <1>4, <1>5
<1>8. Sorted(es) \in Entries /\ Len(Sorted(es)) = n
  BY <1>1, <1>7, IsASeq, LenProperties DEF Entries
<1>9. ASSUME NEW j \in 1..n PROVE \E i \in 1..n : Sorted(es)[i] = es[j]
  <2> DEFINE i == Place(es[j][1], Keys(es))
  <2>1. es[j][1] \in Keys(es) /\ i \in 1..n
    BY <1>1, <1>2
  <2>2. PICK l \in 1..n : Sorted(es)[i] = es[l]
    BY <1>6, <2>1
  <2>3. Place(es[l][1], Keys(es)) = Place(es[j][1], Keys(es)) /\ es[l][1] \in Keys(es)
    BY <1>1, <1>6, <2>1, <2>2
  <2>4. es[l][1] = es[j][1]
    BY <1>2, <2>1, <2>3
  <2>5. l = j
    BY <1>1, <2>4 DEF DistinctKeys
  <2> QED
    BY <2>1, <2>2, <2>5
<1> QED
  BY <1>6, <1>8, <1>9

(* FlattenSeq joins from the front, one sequence at a time.                  *)
LEMMA Joined ==
    ASSUME NEW ss \in Seq(Text)
    PROVE  \E f \in [0..Len(ss) -> Text] :
              /\ f[0] = <<>> /\ FlattenSeq(ss) = f[Len(ss)]
              /\ \A i \in 1..Len(ss) : ss[i] \in Text /\ f[i] = f[i - 1] \o ss[i]
<1> USE DEF Text
<1> DEFINE n == Len(ss)
           flatten[i \in 1..Len(ss)] == IF i = 1 THEN ss[i] ELSE flatten[i - 1] \o ss[i]
<1>1. n \in Nat /\ DOMAIN ss = 1..n /\ \A i \in 1..n : ss[i] \in Text
  BY LenProperties, ElementOfSeq
<1>2. FlattenSeq(ss) = IF Len(ss) = 0 THEN ss ELSE flatten[Len(ss)]
  BY DEF FlattenSeq
<1> DEFINE step == [i \in Nat |-> [s \in Text |-> IF i + 1 \in 1..n THEN s \o ss[i + 1] ELSE s]]
<1>3. \A s \in Text : \A i \in 1..n : s \o ss[i] \in Text
  BY <1>1, ConcatProperties
<1>4. step \in [Nat -> [Text -> Text]] /\ <<>> \in Text
  BY <1>3
<1> DEFINE IsJoin(f) == f[0] = <<>> /\ \A i \in 0..(n - 1) : f[i + 1] = step[i][f[i]]
<1> HIDE DEF step, n
<1>5. PICK f \in [0..n -> Text] : IsJoin(f)
  <2>1. n \in Nat
    BY <1>1
  <2>2. PICK f : Iterates(f, n, Text, <<>>, step)
    BY <2>1, <1>4, Iterate
  <2> QED
    BY <2>2 DEF Iterates
<1>6. \A i \in 1..n : f[i] = f[i - 1] \o ss[i]
  <2> SUFFICES ASSUME NEW i \in 1..n PROVE f[i] = f[i - 1] \o ss[i]
    OBVIOUS
  <2>1. i - 1 \in 0..(n - 1) /\ (i - 1) + 1 = i /\ i - 1 \in Nat /\ i - 1 \in 0..n
    BY <1>1
  <2>2. f[i] = step[i - 1][f[i - 1]] /\ f[i - 1] \in Text
    BY <1>5, <2>1
  <2> QED
    BY <2>1, <2>2 DEF step
<1> DEFINE Eq(h) == h = [i \in 1..Len(ss) |-> IF i = 1 THEN ss[i] ELSE h[i - 1] \o ss[i]]
           g == [i \in 1..Len(ss) |-> f[i]]
<1>7. Eq(g)
  <2>1. ASSUME NEW i \in 1..n PROVE f[i] = IF i = 1 THEN ss[i] ELSE g[i - 1] \o ss[i]
    <3>1. CASE i = 1
      <4>1. f[i] = <<>> \o ss[i]
        <5>1. f[i] = f[i - 1] \o ss[i]
          BY <1>6
        <5>3. i - 1 = 0
          BY <3>1
        <5>2. f[0] = <<>>
          BY <1>5
        <5> QED
          BY <5>1, <5>2, <5>3
      <4>2. <<>> \o ss[i] = ss[i]
        BY <1>1, ConcatEmptySeq
      <4> QED
        BY <3>1, <4>1, <4>2
    <3>2. CASE i # 1
      <4>1. i - 1 \in 1..n
        BY <1>1, <3>2
      <4> QED
        BY <1>6, <3>2, <4>1 DEF n
    <3> QED
      BY <3>1, <3>2
  <2> QED
    BY <2>1 DEF n
<1>8. Eq(flatten)
  <2>1. flatten = CHOOSE h : Eq(h)
    OBVIOUS
  <2> HIDE DEF Eq, g, flatten
  <2> QED
    BY <1>7, <2>1
<1> HIDE DEF flatten, g
<1>9. \A i \in 1..n : flatten[i] = f[i]
  <2> DEFINE T == {k \in Nat : k + 1 \in 1..n => flatten[k + 1] = f[k + 1]}
  <2>1. \A i \in 1..n : flatten[i] = IF i = 1 THEN ss[i] ELSE flatten[i - 1] \o ss[i]
    BY <1>8 DEF n
  <2>2. \A i \in 1..n : g[i] = f[i] /\ g[i] = IF i = 1 THEN ss[i] ELSE g[i - 1] \o ss[i]
    BY <1>7 DEF g, n
  <2> HIDE DEF Eq
  <2>3. 0 \in T
    BY <2>1, <2>2
  <2>4. ASSUME NEW k \in Nat, k \in T PROVE k + 1 \in T
    <3> SUFFICES ASSUME k + 2 \in 1..n PROVE flatten[k + 2] = f[k + 2]
      OBVIOUS
    <3>1. k + 1 \in 1..n /\ k + 2 # 1 /\ (k + 2) - 1 = k + 1
      BY <1>1
    <3>2. flatten[k + 1] = f[k + 1]
      BY <2>4, <3>1
    <3>3. f[k + 2] = f[k + 1] \o ss[k + 2]
      BY <1>6, <3>1
    <3>4. flatten[k + 2] = flatten[k + 1] \o ss[k + 2]
      BY <2>1, <3>1
    <3> QED
      BY <3>2, <3>3, <3>4
  <2> HIDE DEF T
  <2>5. Nat \subseteq T
    BY <2>3, <2>4, Induction
  <2>6. ASSUME NEW i \in 1..n PROVE flatten[i] = f[i]
    <3>1. i - 1 \in Nat /\ (i - 1) + 1 = i
      BY <1>1
    <3>2. i - 1 \in T
      BY <2>5, <3>1
    <3> QED
      BY <3>1, <3>2 DEF T
  <2> QED
    BY <2>6
<1>10. FlattenSeq(ss) = f[n]
  <2>1. CASE n = 0
    <3>1. ss = <<>>
      BY <2>1, EmptySeq DEF n
    <3> QED
      BY <1>2, <1>5, <2>1, <3>1 DEF n
  <2>2. CASE n # 0
    <3>1. n \in 1..n
      BY <1>1, <2>2
    <3> QED
      BY <1>2, <1>9, <2>2, <3>1 DEF n
  <2> QED
    BY <2>1, <2>2
<1> QED
  BY <1>1, <1>5, <1>6, <1>10 DEF n

(* Whatever follows them, one of a and b is not taken for the other.         *)
Delimited(a, b) == \A x, y \in Text : a \o x = b \o y => a = b

(* Two texts of the same length.                                             *)
LEMMA SameLength ==
    ASSUME NEW a \in Text, NEW b \in Text, Len(a) = Len(b)
    PROVE  Delimited(a, b)
<1> SUFFICES ASSUME NEW x \in Text, NEW y \in Text, a \o x = b \o y PROVE a = b
  BY DEF Delimited
<1> USE DEF Text
<1>1. Len(a) \in Nat /\ Len(b) \in Nat /\ Len(x) \in Nat /\ Len(y) \in Nat
  BY LenProperties
<1>2. ASSUME NEW i \in 1..Len(a) PROVE a[i] = b[i]
  <2>1. i \in 1..(Len(a) + Len(x)) /\ i \in 1..(Len(b) + Len(y)) /\ i <= Len(a) /\ i <= Len(b)
    BY <1>1
  <2>2. (a \o x)[i] = a[i]
    BY <2>1, ConcatProperties
  <2>3. (b \o y)[i] = b[i]
    BY <2>1, ConcatProperties
  <2> QED
    BY <2>2, <2>3
<1> QED
  BY <1>2, SeqEqual

Regroups(a, b, c) == (a \o b) \o c = a \o (b \o c)

LEMMA ThreeInARow == \A a, b, c \in Text : Regroups(a, b, c)
  BY ConcatAssociative DEF Text, Regroups

(* One text after another: where the first are told apart, what comes second *)
(* matters only if they are the same.                                        *)
LEMMA OneAfterAnother ==
    ASSUME NEW a \in Text, NEW b \in Text, NEW c \in Text, NEW d \in Text, Delimited(a, b)
    PROVE  /\ a \o c \in Text /\ b \o d \in Text
           /\ a \o c = b \o d => a = b /\ c = d
           /\ (a = b => Delimited(c, d)) => Delimited(a \o c, b \o d)
<1>1. a \o c \in Text /\ b \o d \in Text
  BY ConcatProperties DEF Text
<1>2. ASSUME a \o c = b \o d PROVE a = b /\ c = d
  <2>1. a = b
    BY <1>2 DEF Delimited
  <2>2. a \o c = a \o d
    BY <1>2, <2>1
  <2> QED
    BY <2>1, <2>2, ConcatSimplifications DEF Text
<1>3. ASSUME a = b => Delimited(c, d), NEW x \in Text, NEW y \in Text,
             (a \o c) \o x = (b \o d) \o y
      PROVE  a \o c = b \o d
  <2>1. c \o x \in Text /\ d \o y \in Text
    BY ConcatProperties DEF Text
  <2>2. Regroups(a, c, x) /\ Regroups(b, d, y)
    BY ThreeInARow
  <2>3. a \o (c \o x) = b \o (d \o y)
    BY <1>3, <2>2 DEF Regroups
  <2>4. a = b
    BY <2>1, <2>3 DEF Delimited
  <2>5. a \o (c \o x) = a \o (d \o y)
    BY <2>3, <2>4
  <2>6. c \o x = d \o y
    BY <2>1, <2>5, ConcatSimplifications DEF Text
  <2>7. c = d
    BY <1>3, <2>4, <2>6 DEF Delimited
  <2> QED
    BY <2>4, <2>7
<1>4. ASSUME a = b => Delimited(c, d) PROVE Delimited(a \o c, b \o d)
  BY <1>3, <1>4 DEF Delimited
<1> QED
  BY <1>1, <1>2, <1>4

(* A single byte, or the length that stands for one.                         *)
LEMMA OneByte ==
    ASSUME NEW m \in Nat, NEW n \in Nat
    PROVE  /\ <<m>> \in Text /\ Delimited(<<m>>, <<n>>)
           /\ <<m>> = <<n>> => m = n
<1>1. <<m>> \in Text /\ <<n>> \in Text /\ Len(<<m>>) = Len(<<n>>)
  BY DEF Text
<1> QED
  BY <1>1, SameLength

(* A length before a string says where it ends.                              *)
LEMMA PrefixedDelimits ==
    ASSUME NEW s \in Text, NEW t \in Text
    PROVE  /\ Prefixed(s) \in Text /\ Delimited(Prefixed(s), Prefixed(t))
           /\ Prefixed(s) = Prefixed(t) => s = t
<1>1. Len(s) \in Nat /\ Len(t) \in Nat
  BY LenProperties DEF Text
<1>2. /\ <<Len(s)>> \in Text /\ <<Len(t)>> \in Text
      /\ Delimited(<<Len(s)>>, <<Len(t)>>)
      /\ <<Len(s)>> = <<Len(t)>> => Len(s) = Len(t)
  BY <1>1, OneByte
<1>3. <<Len(s)>> = <<Len(t)>> => Delimited(s, t)
  BY <1>2, SameLength
<1> DEFINE a == <<Len(s)>>
           b == <<Len(t)>>
<1>4. a \in Text /\ b \in Text /\ Delimited(a, b) /\ (a = b => Delimited(s, t))
  BY <1>2, <1>3
<1>5. Prefixed(s) = a \o s /\ Prefixed(t) = b \o t
  BY DEF Prefixed
<1> HIDE DEF a, b
<1>6. /\ a \o s \in Text /\ Delimited(a \o s, b \o t)
      /\ a \o s = b \o t => s = t
  <2>1. /\ a \o s \in Text
        /\ a \o s = b \o t => a = b /\ s = t
        /\ (a = b => Delimited(s, t)) => Delimited(a \o s, b \o t)
    BY <1>4, OneAfterAnother, Zenon
  <2> QED
    BY <1>4, <2>1
<1> QED
  BY <1>5, <1>6

(* As many texts in a row, each told apart from the other's in its place.    *)
LEMMA JoinedDelimits ==
    ASSUME NEW ss \in Seq(Text), NEW tt \in Seq(Text), Len(ss) = Len(tt),
           \A i \in 1..Len(ss) : Delimited(ss[i], tt[i])
    PROVE  /\ FlattenSeq(ss) \in Text /\ Delimited(FlattenSeq(ss), FlattenSeq(tt))
           /\ FlattenSeq(ss) = FlattenSeq(tt) => ss = tt
<1> DEFINE n == Len(ss)
<1>1. n \in Nat /\ Len(tt) = n
  BY LenProperties
<1>2. PICK f \in [0..n -> Text] :
         /\ f[0] = <<>> /\ FlattenSeq(ss) = f[n]
         /\ \A i \in 1..n : ss[i] \in Text /\ f[i] = f[i - 1] \o ss[i]
  BY Joined, Zenon
<1>3. PICK g \in [0..n -> Text] :
         /\ g[0] = <<>> /\ FlattenSeq(tt) = g[n]
         /\ \A i \in 1..n : tt[i] \in Text /\ g[i] = g[i - 1] \o tt[i]
  BY <1>1, Joined
<1>4. \A i \in 1..n : Delimited(ss[i], tt[i])
  OBVIOUS
<1> HIDE DEF n
<1> DEFINE Same(k) == /\ Delimited(f[k], g[k])
                      /\ f[k] = g[k] => \A i \in 1..k : ss[i] = tt[i]
           T == {k \in Nat : k <= n => Same(k)}
<1>5. 0 \in T
  <2>1. f[0] = g[0]
    BY <1>2, <1>3
  <2>2. Delimited(f[0], g[0])
    BY <2>1 DEF Delimited
  <2> QED
    BY <2>2
<1>6. ASSUME NEW k \in Nat, k \in T PROVE k + 1 \in T
  <2> SUFFICES ASSUME k + 1 <= n PROVE Same(k + 1)
    OBVIOUS
  <2>1. k \in 0..n /\ k + 1 \in 1..n /\ (k + 1) - 1 = k
    BY <1>1
  <2>2. Delimited(f[k], g[k]) /\ (f[k] = g[k] => \A i \in 1..k : ss[i] = tt[i])
    BY <1>1, <1>6, <2>1
  <2>3. f[k] \in Text /\ g[k] \in Text /\ ss[k + 1] \in Text /\ tt[k + 1] \in Text
    BY <1>2, <1>3, <2>1
  <2>4. f[k + 1] = f[k] \o ss[k + 1] /\ g[k + 1] = g[k] \o tt[k + 1]
    BY <1>2, <1>3, <2>1
  <2>5. Delimited(ss[k + 1], tt[k + 1])
    BY <1>4, <2>1
  <2>6. /\ f[k] \o ss[k + 1] = g[k] \o tt[k + 1] => f[k] = g[k] /\ ss[k + 1] = tt[k + 1]
        /\ Delimited(f[k] \o ss[k + 1], g[k] \o tt[k + 1])
    <3> DEFINE a == f[k]
               b == g[k]
               c == ss[k + 1]
               d == tt[k + 1]
    <3>1. /\ a \in Text /\ b \in Text /\ c \in Text /\ d \in Text
          /\ Delimited(a, b) /\ Delimited(c, d)
      BY <2>2, <2>3, <2>5
    <3> HIDE DEF a, b, c, d
    <3>2. (a \o c = b \o d => a = b /\ c = d) /\ Delimited(a \o c, b \o d)
      BY <3>1, OneAfterAnother
    <3> QED
      BY <3>2 DEF a, b, c, d
  <2>7. Delimited(f[k + 1], g[k + 1])
    BY <2>4, <2>6
  <2>8. ASSUME f[k + 1] = g[k + 1] PROVE \A i \in 1..(k + 1) : ss[i] = tt[i]
    <3>1. ss[k + 1] = tt[k + 1] /\ \A i \in 1..k : ss[i] = tt[i]
      BY <2>2, <2>4, <2>6, <2>8
    <3> QED
      BY <3>1
  <2> QED
    BY <2>7, <2>8
<1> HIDE DEF T
<1>7. n \in T
  BY <1>1, <1>5, <1>6, Induction
<1>8. Delimited(f[n], g[n]) /\ (f[n] = g[n] => \A i \in 1..n : ss[i] = tt[i])
  BY <1>1, <1>7 DEF T
<1>9. (\A i \in 1..n : ss[i] = tt[i]) => ss = tt
  BY <1>1, SeqEqual DEF n
<1>10. f[n] \in Text
  BY <1>1, <1>2
<1> QED
  BY <1>2, <1>3, <1>8, <1>9, <1>10

(* What a value of each kind is made of.                                     *)
LEMMA Shapes ==
    ASSUME NEW v \in Values
    PROVE  /\ v.kind \in {"null", "boolean", "number", "string", "array", "object"}
           /\ v.kind = "null" => v = Null
           /\ v.kind = "boolean" => v = Bool(FALSE) \/ v = Bool(TRUE)
           /\ v.kind = "number" => v = Num(v.str) /\ v.str \in Text
           /\ v.kind = "string" => v = Str(v.str) /\ v.str \in Text
           /\ v.kind = "array" => v = Arr(v.items) /\ v.items \in Seq(Values)
           /\ v.kind = "object" => /\ v = Obj(v.entries) /\ v.entries \in Entries
                                   /\ DistinctKeys(v.entries)
<1>1. IsValue(v)
  BY HashAssumption
<1>2. Null.kind = "null" /\ \A b : Bool(b).kind = "boolean"
  BY DEF Null, Bool
<1> HIDE DEF Null
<1>3. \/ v.kind = "null" /\ v = Null
      \/ v.kind = "boolean" /\ (v = Bool(FALSE) \/ v = Bool(TRUE))
      \/ v.kind = "number" /\ v = Num(v.str) /\ v.str \in Text
      \/ v.kind = "string" /\ v = Str(v.str) /\ v.str \in Text
      \/ v.kind = "array" /\ v = Arr(v.items) /\ v.items \in Seq(Values)
      \/ /\ v.kind = "object" /\ v = Obj(v.entries) /\ v.entries \in Entries
         /\ DistinctKeys(v.entries)
  <2>1. CASE v = Null
    BY <1>2, <2>1
  <2>2. CASE v \in {Bool(FALSE), Bool(TRUE)}
    BY <1>2, <2>2
  <2>3. CASE v.kind = "number" /\ v = Num(v.str) /\ v.str \in Seq(Nat)
    BY <2>3 DEF Text
  <2>4. CASE v.kind = "string" /\ v = Str(v.str) /\ v.str \in Seq(Nat)
    BY <2>4 DEF Text
  <2>5. CASE v.kind = "array" /\ v = Arr(v.items) /\ v.items \in Seq(Values)
    BY <2>5
  <2>6. CASE /\ v.kind = "object" /\ v = Obj(v.entries)
             /\ v.entries \in Seq(Seq(Nat) \X Values)
             /\ \A i, j \in DOMAIN v.entries : v.entries[i][1] = v.entries[j][1] => i = j
    BY <2>6 DEF Text, Entries, DistinctKeys
  <2> QED
    BY <1>1, <2>1, <2>2, <2>3, <2>4, <2>5, <2>6, Zenon DEF IsValue
<1> QED
  BY <1>3

(* The texts of the items of an array, and of the entries of an object.      *)
ItemTexts(items, below) == [i \in DOMAIN items |-> below[items[i]]]
EntryTexts(sorted, below) ==
    [i \in DOMAIN sorted |-> Prefixed(sorted[i][1]) \o below[sorted[i][2]]]

LEMMA CanonicalByKind ==
    ASSUME NEW v, NEW below
    PROVE  /\ v.kind = "null" => Canonical(v, below) = <<0>>
           /\ v.kind = "boolean" => Canonical(v, below) = <<1, IF v.bool THEN 1 ELSE 0>>
           /\ v.kind = "number" => Canonical(v, below) = <<2>> \o Prefixed(v.str)
           /\ v.kind = "string" => Canonical(v, below) = <<3>> \o Prefixed(v.str)
           /\ v.kind = "array" => Canonical(v, below) =
                <<4, Len(v.items)>> \o FlattenSeq(ItemTexts(v.items, below))
           /\ v.kind = "object" => Canonical(v, below) =
                <<5, Len(Sorted(v.entries))>> \o FlattenSeq(EntryTexts(Sorted(v.entries), below))
<1>1. ASSUME v.kind = "null" PROVE Canonical(v, below) = <<0>>
  BY <1>1, Zenon DEF Canonical
<1>2. ASSUME v.kind = "boolean" PROVE Canonical(v, below) = <<1, IF v.bool THEN 1 ELSE 0>>
  BY <1>2, Zenon DEF Canonical
<1>3. ASSUME v.kind = "number" PROVE Canonical(v, below) = <<2>> \o Prefixed(v.str)
  BY <1>3, Zenon DEF Canonical
<1>4. ASSUME v.kind = "string" PROVE Canonical(v, below) = <<3>> \o Prefixed(v.str)
  BY <1>4, Zenon DEF Canonical
<1>5. ASSUME v.kind = "array"
      PROVE  Canonical(v, below) =
                <<4, Len(v.items)>> \o FlattenSeq(ItemTexts(v.items, below))
  BY <1>5, Zenon DEF Canonical, ItemTexts
<1>6. ASSUME v.kind = "object"
      PROVE  Canonical(v, below) =
                <<5, Len(Sorted(v.entries))>> \o FlattenSeq(EntryTexts(Sorted(v.entries), below))
  BY <1>6, Zenon DEF Canonical, EntryTexts
<1> QED
  BY <1>1, <1>2, <1>3, <1>4, <1>5, <1>6

(* A text that begins with a given byte.                                     *)
Begins(text, byte) == text \in Text /\ text # <<>> /\ text[1] = byte

LEMMA StartsWith ==
    ASSUME NEW a, NEW b \in Text, NEW byte, Begins(a, byte)
    PROVE  Begins(a \o b, byte)
<1>0. a \in Seq(Nat) /\ a # <<>> /\ a[1] = byte /\ b \in Seq(Nat)
  BY DEF Text, Begins
<1>1. Len(a) \in Nat \ {0} /\ Len(b) \in Nat
  BY <1>0, EmptySeq, LenProperties
<1>2. a \o b \in Seq(Nat) /\ Len(a \o b) = Len(a) + Len(b)
  BY <1>0, ConcatProperties
<1>3. 1 \in 1..(Len(a) + Len(b))
  BY <1>1
<1>4. (a \o b)[1] = a[1]
  BY <1>0, <1>1, <1>3, ConcatProperties
<1> QED
  BY <1>0, <1>1, <1>2, <1>4, EmptySeq DEF Begins, Text

(* Texts that begin with different bytes.                                    *)
LEMMA FirstByte ==
    ASSUME NEW a, NEW b, NEW m, NEW n, Begins(a, m), Begins(b, n), m # n
    PROVE  Delimited(a, b)
<1>0. a \in Text /\ b \in Text /\ a # <<>> /\ b # <<>> /\ a[1] # b[1]
  BY DEF Begins
<1> USE DEF Text
<1>1. Len(a) \in Nat \ {0} /\ Len(b) \in Nat \ {0}
  BY <1>0, EmptySeq, LenProperties
<1>2. ASSUME NEW x \in Text, NEW y \in Text, a \o x = b \o y PROVE FALSE
  <2>1. Len(x) \in Nat /\ Len(y) \in Nat
    BY LenProperties
  <2>2. 1 \in 1..(Len(a) + Len(x)) /\ 1 \in 1..(Len(b) + Len(y))
    BY <1>1, <2>1
  <2>3. (a \o x)[1] = a[1]
    BY <1>0, <1>1, <2>2, ConcatProperties
  <2>4. (b \o y)[1] = b[1]
    BY <1>0, <1>1, <2>2, ConcatProperties
  <2> QED
    BY <1>0, <1>2, <2>3, <2>4
<1> QED
  BY <1>2 DEF Delimited

LEMMA FunctionIsSeq ==
    ASSUME NEW n \in Nat, NEW S, NEW s \in [1..n -> S]
    PROVE  s \in Seq(S) /\ Len(s) = n
<1>1. s \in Seq(S)
  BY IsASeq
<1> QED
  BY <1>1, LenProperties

(* A tag, how many texts follow, and the texts.                              *)
Counted(tag, ss) == <<tag, Len(ss)>> \o FlattenSeq(ss)

LEMMA CountedDelimits ==
    ASSUME NEW tag \in Nat, NEW ss \in Seq(Text), NEW tt \in Seq(Text),
           Len(ss) = Len(tt) => \A i \in 1..Len(ss) : Delimited(ss[i], tt[i])
    PROVE  /\ Begins(Counted(tag, ss), tag) /\ Delimited(Counted(tag, ss), Counted(tag, tt))
           /\ Counted(tag, ss) = Counted(tag, tt) => ss = tt
<1> DEFINE a == <<tag, Len(ss)>>
           b == <<tag, Len(tt)>>
           c == FlattenSeq(ss)
           d == FlattenSeq(tt)
<1>1. Len(ss) \in Nat /\ Len(tt) \in Nat
  BY LenProperties
<1>2. /\ a \in Text /\ b \in Text /\ Len(a) = Len(b) /\ (a = b => Len(ss) = Len(tt))
      /\ Begins(a, tag)
  BY <1>1 DEF Text, Begins
<1>3. c \in Text
  <2>1. PICK f \in [0..Len(ss) -> Text] : FlattenSeq(ss) = f[Len(ss)]
    BY Joined
  <2> QED
    BY <1>1, <2>1
<1>4. d \in Text
  <2>1. PICK f \in [0..Len(tt) -> Text] : FlattenSeq(tt) = f[Len(tt)]
    BY Joined
  <2> QED
    BY <1>1, <2>1
<1>5. Len(ss) = Len(tt) => Delimited(c, d) /\ (c = d => ss = tt)
  BY JoinedDelimits
<1>6. Counted(tag, ss) = a \o c /\ Counted(tag, tt) = b \o d
  BY DEF Counted
<1> HIDE DEF a, b, c, d
<1>7. Delimited(a, b)
  BY <1>2, SameLength
<1>8. /\ a \o c = b \o d => a = b /\ c = d
      /\ Delimited(a \o c, b \o d)
  BY <1>2, <1>3, <1>4, <1>5, <1>7, OneAfterAnother
<1>9. Begins(a \o c, tag)
  BY <1>2, <1>3, StartsWith
<1> QED
  BY <1>2, <1>5, <1>6, <1>8, <1>9

(* The texts of the values one level down are told apart.                    *)
Unambiguous(g) ==
    /\ g \in [Values -> Text]
    /\ \A v, w \in Values : Delimited(g[v], g[w])

(* So are the texts of two arrays, and they are equal item by item.          *)
ArrayText(items, g) == Counted(4, ItemTexts(items, g))

LEMMA ArrayTexts ==
    ASSUME NEW g, Unambiguous(g), NEW p \in Seq(Values), NEW q \in Seq(Values)
    PROVE  /\ Begins(ArrayText(p, g), 4) /\ Delimited(ArrayText(p, g), ArrayText(q, g))
           /\ ArrayText(p, g) = ArrayText(q, g) <=>
                Len(p) = Len(q) /\ \A i \in DOMAIN p : g[p[i]] = g[q[i]]
<1> DEFINE ss == ItemTexts(p, g)
           tt == ItemTexts(q, g)
<1>1. /\ Len(p) \in Nat /\ DOMAIN p = 1..Len(p) /\ \A i \in 1..Len(p) : p[i] \in Values
      /\ Len(q) \in Nat /\ DOMAIN q = 1..Len(q) /\ \A i \in 1..Len(q) : q[i] \in Values
  BY LenProperties, ElementOfSeq
<1>2. /\ g \in [Values -> Text]
      /\ \A v, w \in Values : Delimited(g[v], g[w])
  BY DEF Unambiguous
<1>3. ss = [i \in 1..Len(p) |-> g[p[i]]] /\ tt = [i \in 1..Len(q) |-> g[q[i]]]
  BY <1>1 DEF ItemTexts
<1> HIDE DEF ss, tt
<1>4. ss \in [1..Len(p) -> Text] /\ tt \in [1..Len(q) -> Text]
  BY <1>1, <1>2, <1>3
<1>5. ss \in Seq(Text) /\ Len(ss) = Len(p) /\ tt \in Seq(Text) /\ Len(tt) = Len(q)
  BY <1>1, <1>4, FunctionIsSeq
<1>6. Len(ss) = Len(tt) => \A i \in 1..Len(ss) : Delimited(ss[i], tt[i])
  BY <1>1, <1>2, <1>3, <1>5
<1>7. /\ Begins(Counted(4, ss), 4) /\ Delimited(Counted(4, ss), Counted(4, tt))
      /\ Counted(4, ss) = Counted(4, tt) <=> ss = tt
  BY <1>5, <1>6, CountedDelimits
<1>8. ss = tt <=> Len(p) = Len(q) /\ \A i \in 1..Len(p) : g[p[i]] = g[q[i]]
  <2>1. ASSUME ss = tt PROVE Len(p) = Len(q) /\ \A i \in 1..Len(p) : g[p[i]] = g[q[i]]
    BY <1>3, <1>5, <2>1
  <2>2. ASSUME Len(p) = Len(q), \A i \in 1..Len(p) : g[p[i]] = g[q[i]] PROVE ss = tt
    BY <1>3, <2>2
  <2> QED
    BY <2>1, <2>2
<1> QED
  BY <1>1, <1>7, <1>8 DEF ArrayText, ss, tt

(* Two objects with equally many keys have the same keys if one has none     *)
(* that the other has not, and then each key has the same place in both.     *)
LEMMA SameKeys ==
    ASSUME NEW es \in Entries, NEW fs \in Entries, DistinctKeys(es), DistinctKeys(fs),
           Len(es) = Len(fs),
           \A i \in 1..Len(es) : \E j \in 1..Len(fs) : es[i][1] = fs[j][1]
    PROVE  Keys(es) = Keys(fs)
<1>1. /\ IsFiniteSet(Keys(es)) /\ Cardinality(Keys(es)) = Len(es)
      /\ \A k \in Keys(es) : \E i \in 1..Len(es) : es[i][1] = k
  BY KeysOfEntries
<1>2. /\ IsFiniteSet(Keys(fs)) /\ Cardinality(Keys(fs)) = Len(fs)
      /\ \A i \in 1..Len(fs) : fs[i][1] \in Keys(fs)
  BY KeysOfEntries
<1>3. Keys(es) \in SUBSET Keys(fs)
  BY <1>1, <1>2
<1> QED
  BY <1>1, <1>2, <1>3, FS_Subset

(* One entry: the key as a string, the value as it is one level down.        *)
LEMMA OneEntry ==
    ASSUME NEW g, Unambiguous(g), NEW d \in Text \X Values, NEW e \in Text \X Values
    PROVE  LET s == Prefixed(d[1]) \o g[d[2]]
               t == Prefixed(e[1]) \o g[e[2]]
           IN  /\ s \in Text /\ t \in Text /\ Delimited(s, t)
               /\ s = t <=> d[1] = e[1] /\ g[d[2]] = g[e[2]]
<1> DEFINE a == Prefixed(d[1])
           b == Prefixed(e[1])
           m == g[d[2]]
           n == g[e[2]]
<1>1. d[1] \in Text /\ e[1] \in Text /\ d[2] \in Values /\ e[2] \in Values
  OBVIOUS
<1>2. /\ a \in Text /\ b \in Text /\ Delimited(a, b)
      /\ a = b => d[1] = e[1]
  BY <1>1, PrefixedDelimits
<1>3. m \in Text /\ n \in Text /\ Delimited(m, n)
  BY <1>1 DEF Unambiguous
<1>4. d[1] = e[1] => a = b
  OBVIOUS
<1> HIDE DEF a, b, m, n
<1>5. /\ a \o m \in Text /\ b \o n \in Text /\ Delimited(a \o m, b \o n)
      /\ a \o m = b \o n => a = b /\ m = n
  BY <1>2, <1>3, OneAfterAnother
<1>6. a \o m = b \o n <=> d[1] = e[1] /\ m = n
  BY <1>2, <1>4, <1>5
<1> QED
  BY <1>5, <1>6 DEF a, b, m, n

(* The texts of two objects are told apart, and they are equal exactly when  *)
(* the objects have the same keys, in whatever order, with values of equal   *)
(* texts.                                                                    *)
ObjectText(es, g) == Counted(5, EntryTexts(Sorted(es), g))

EqualEntries(es, fs, g) ==
    /\ Len(es) = Len(fs)
    /\ \A i \in 1..Len(es) : \E j \in 1..Len(fs) :
          es[i][1] = fs[j][1] /\ g[es[i][2]] = g[fs[j][2]]

LEMMA ObjectTexts ==
    ASSUME NEW g, Unambiguous(g), NEW es \in Entries, NEW fs \in Entries,
           DistinctKeys(es), DistinctKeys(fs)
    PROVE  /\ Begins(ObjectText(es, g), 5) /\ Delimited(ObjectText(es, g), ObjectText(fs, g))
           /\ ObjectText(es, g) = ObjectText(fs, g) <=> EqualEntries(es, fs, g)
<1> DEFINE d == Sorted(es)
           e == Sorted(fs)
           ss == EntryTexts(d, g)
           tt == EntryTexts(e, g)
<1>1. /\ d \in Entries /\ Len(d) = Len(es)
      /\ \A i \in 1..Len(es) : /\ \E j \in 1..Len(es) : d[i] = es[j]
                               /\ Place(d[i][1], Keys(es)) = i
      /\ \A j \in 1..Len(es) : \E i \in 1..Len(es) : d[i] = es[j]
  BY SortedEntries
<1>2. /\ e \in Entries /\ Len(e) = Len(fs)
      /\ \A i \in 1..Len(fs) : /\ \E j \in 1..Len(fs) : e[i] = fs[j]
                               /\ Place(e[i][1], Keys(fs)) = i
      /\ \A j \in 1..Len(fs) : \E i \in 1..Len(fs) : e[i] = fs[j]
  BY SortedEntries
<1> HIDE DEF d, e
<1>3. /\ Len(es) \in Nat /\ DOMAIN d = 1..Len(es) /\ \A i \in 1..Len(es) : d[i] \in Text \X Values
      /\ Len(fs) \in Nat /\ DOMAIN e = 1..Len(fs) /\ \A i \in 1..Len(fs) : e[i] \in Text \X Values
  BY <1>1, <1>2, LenProperties, ElementOfSeq DEF Entries
<1> DEFINE At(x) == Prefixed(x[1]) \o g[x[2]]
<1>4. ss = [i \in 1..Len(es) |-> At(d[i])] /\ tt = [i \in 1..Len(fs) |-> At(e[i])]
  BY <1>3 DEF EntryTexts
<1>5. \A x, y \in Text \X Values :
         /\ At(x) \in Text /\ At(y) \in Text /\ Delimited(At(x), At(y))
         /\ At(x) = At(y) <=> x[1] = y[1] /\ g[x[2]] = g[y[2]]
  BY OneEntry
<1> HIDE DEF ss, tt, At
<1>6. ss \in [1..Len(es) -> Text] /\ tt \in [1..Len(fs) -> Text]
  BY <1>3, <1>4, <1>5
<1>7. ss \in Seq(Text) /\ Len(ss) = Len(es) /\ tt \in Seq(Text) /\ Len(tt) = Len(fs)
  BY <1>3, <1>6, FunctionIsSeq
<1>8. Len(ss) = Len(tt) => \A i \in 1..Len(ss) : Delimited(ss[i], tt[i])
  BY <1>3, <1>4, <1>5, <1>7
<1>9. /\ Begins(Counted(5, ss), 5) /\ Delimited(Counted(5, ss), Counted(5, tt))
      /\ Counted(5, ss) = Counted(5, tt) <=> ss = tt
  BY <1>7, <1>8, CountedDelimits
<1>10. ASSUME ss = tt PROVE EqualEntries(es, fs, g)
  <2>1. Len(es) = Len(fs)
    BY <1>7, <1>10
  <2>2. ASSUME NEW i \in 1..Len(es)
        PROVE  \E j \in 1..Len(fs) : es[i][1] = fs[j][1] /\ g[es[i][2]] = g[fs[j][2]]
    <3>1. PICK k \in 1..Len(es) : d[k] = es[i]
      BY <1>1
    <3>2. PICK j \in 1..Len(fs) : e[k] = fs[j]
      BY <1>2, <2>1
    <3>3. At(d[k]) = At(e[k])
      BY <1>4, <1>10, <2>1
    <3>4. d[k][1] = e[k][1] /\ g[d[k][2]] = g[e[k][2]]
      BY <1>3, <1>5, <2>1, <3>3
    <3> QED
      BY <3>1, <3>2, <3>4
  <2> QED
    BY <2>1, <2>2 DEF EqualEntries
<1>11. ASSUME EqualEntries(es, fs, g) PROVE ss = tt
  <2>1. /\ Len(es) = Len(fs)
        /\ \A i \in 1..Len(es) : \E j \in 1..Len(fs) :
              es[i][1] = fs[j][1] /\ g[es[i][2]] = g[fs[j][2]]
    BY <1>11 DEF EqualEntries
  <2>2. Keys(es) = Keys(fs)
    BY <2>1, SameKeys
  <2>3. /\ Keys(es) \subseteq Text /\ IsFiniteSet(Keys(es))
        /\ \A i \in 1..Len(es) : es[i][1] \in Keys(es)
    BY KeysOfEntries
  <2>4. DOMAIN fs = 1..Len(fs) /\ \A i \in 1..Len(fs) : fs[i][1] \in Keys(fs)
    BY KeysOfEntries
  <2>5. \A k, l \in Keys(es) : Place(k, Keys(es)) = Place(l, Keys(es)) => k = l
    BY <2>3, Places
  <2>6. ASSUME NEW k \in 1..Len(es) PROVE At(d[k]) = At(e[k])
    <3>1. PICK i \in 1..Len(es) : d[k] = es[i]
      BY <1>1
    <3>2. PICK l \in 1..Len(fs) : e[k] = fs[l]
      BY <1>2, <2>1
    <3>3. PICK j \in 1..Len(fs) : es[i][1] = fs[j][1] /\ g[es[i][2]] = g[fs[j][2]]
      BY <2>1
    <3>4. Place(d[k][1], Keys(es)) = k /\ Place(e[k][1], Keys(es)) = k
      BY <1>1, <1>2, <2>1, <2>2
    <3>5. d[k][1] \in Keys(es) /\ e[k][1] \in Keys(es)
      BY <2>2, <2>3, <2>4, <3>1, <3>2
    <3>6. d[k][1] = e[k][1]
      BY <2>5, <3>4, <3>5
    <3>7. fs[l][1] = fs[j][1]
      BY <3>1, <3>2, <3>3, <3>6
    <3>8. l = j
      BY <2>4, <3>7 DEF DistinctKeys
    <3>9. g[d[k][2]] = g[e[k][2]]
      BY <3>1, <3>2, <3>3, <3>8
    <3> QED
      BY <1>3, <1>5, <2>1, <3>6, <3>9
  <2> QED
    BY <1>4, <2>1, <2>6
<1> QED
  BY <1>9, <1>10, <1>11 DEF ObjectText, ss, tt, d, e

(* Arrays and objects are written as such texts.                             *)
LEMMA CanonicalArray ==
    ASSUME NEW g, Unambiguous(g), NEW v \in Values, v.kind = "array"
    PROVE  Canonical(v, g) = ArrayText(v.items, g)
<1> DEFINE p == v.items
           ss == ItemTexts(p, g)
<1>1. p \in Seq(Values)
  BY Shapes
<1>2. Len(p) \in Nat /\ DOMAIN p = 1..Len(p) /\ \A i \in 1..Len(p) : p[i] \in Values
  BY <1>1, LenProperties, ElementOfSeq
<1>3. ss \in [1..Len(p) -> Text]
  BY <1>2 DEF ItemTexts, Unambiguous
<1>4. Len(ss) = Len(p)
  BY <1>2, <1>3, FunctionIsSeq
<1>5. Canonical(v, g) = <<4, Len(p)>> \o FlattenSeq(ss)
  BY CanonicalByKind
<1> QED
  BY <1>4, <1>5 DEF ArrayText, Counted

LEMMA CanonicalObject ==
    ASSUME NEW g, Unambiguous(g), NEW v \in Values, v.kind = "object"
    PROVE  Canonical(v, g) = ObjectText(v.entries, g)
<1> DEFINE d == Sorted(v.entries)
           ss == EntryTexts(d, g)
           At(x) == Prefixed(x[1]) \o g[x[2]]
<1>1. v.entries \in Entries /\ DistinctKeys(v.entries)
  BY Shapes
<1>2. d \in Entries
  BY <1>1, SortedEntries
<1>3. Canonical(v, g) = <<5, Len(d)>> \o FlattenSeq(ss)
  BY CanonicalByKind
<1> HIDE DEF d
<1>4. Len(d) \in Nat /\ DOMAIN d = 1..Len(d) /\ \A i \in 1..Len(d) : d[i] \in Text \X Values
  BY <1>2, LenProperties, ElementOfSeq DEF Entries
<1>5. ss = [i \in 1..Len(d) |-> At(d[i])]
  BY <1>4 DEF EntryTexts
<1>6. \A x \in Text \X Values : At(x) \in Text
  BY OneEntry
<1> HIDE DEF At, ss
<1>7. ss \in [1..Len(d) -> Text]
  BY <1>4, <1>5, <1>6
<1>8. Len(ss) = Len(d)
  BY <1>4, <1>7, FunctionIsSeq
<1> QED
  BY <1>3, <1>8 DEF ObjectText, Counted, d, ss

(* The text of each kind of value, one level above texts that are told apart, *)
(* begins with a byte of its own.                                            *)
LEMMA Tags ==
    ASSUME NEW g, Unambiguous(g), NEW v \in Values
    PROVE  /\ v.kind = "null" => Begins(Canonical(v, g), 0)
           /\ v.kind = "boolean" => Begins(Canonical(v, g), 1)
           /\ v.kind = "number" => Begins(Canonical(v, g), 2)
           /\ v.kind = "string" => Begins(Canonical(v, g), 3)
           /\ v.kind = "array" => Begins(Canonical(v, g), 4)
           /\ v.kind = "object" => Begins(Canonical(v, g), 5)
<1> DEFINE c == Canonical(v, g)
<1>1. CASE v.kind = "null"
  <2>1. c = <<0>>
    BY <1>1, CanonicalByKind
  <2>2. Begins(c, 0)
    BY <2>1 DEF Text, Begins
  <2> QED
    BY <1>1, <2>2
<1>2. CASE v.kind = "boolean"
  <2>1. c = <<1, IF v.bool THEN 1 ELSE 0>>
    BY <1>2, CanonicalByKind
  <2>2. (IF v.bool THEN 1 ELSE 0) \in Nat
    OBVIOUS
  <2>3. Begins(c, 1)
    BY <2>1, <2>2 DEF Text, Begins
  <2> QED
    BY <1>2, <2>3
<1>3. CASE v.kind = "number"
  <2>1. c = <<2>> \o Prefixed(v.str) /\ Prefixed(v.str) \in Text
    BY <1>3, CanonicalByKind, Shapes, PrefixedDelimits
  <2>2. Begins(<<2>>, 2)
    BY DEF Text, Begins
  <2>3. Begins(c, 2)
    BY <2>1, <2>2, StartsWith
  <2> QED
    BY <1>3, <2>3
<1>4. CASE v.kind = "string"
  <2>1. c = <<3>> \o Prefixed(v.str) /\ Prefixed(v.str) \in Text
    BY <1>4, CanonicalByKind, Shapes, PrefixedDelimits
  <2>2. Begins(<<3>>, 3)
    BY DEF Text, Begins
  <2>3. Begins(c, 3)
    BY <2>1, <2>2, StartsWith
  <2> QED
    BY <1>4, <2>3
<1>5. CASE v.kind = "array"
  <2>1. v.items \in Seq(Values)
    BY <1>5, Shapes
  <2>2. c = ArrayText(v.items, g)
    BY <1>5, CanonicalArray
  <2>3. Begins(c, 4)
    BY <2>1, <2>2, ArrayTexts
  <2> QED
    BY <1>5, <2>3
<1>6. CASE v.kind = "object"
  <2>1. v.entries \in Entries /\ DistinctKeys(v.entries)
    BY <1>6, Shapes
  <2>2. c = ObjectText(v.entries, g)
    BY <1>6, CanonicalObject
  <2>3. Begins(c, 5)
    BY <2>1, <2>2, ObjectTexts
  <2> QED
    BY <1>6, <2>3
<1> HIDE DEF c
<1> QED
  BY <1>1, <1>2, <1>3, <1>4, <1>5, <1>6 DEF c

(* One level: where the texts of the values below are told apart, and equal  *)
(* for values that are equal as JSON, so are the texts of the values they    *)
(* are parts of.                                                             *)
Agrees(g, h) == \A v, w \in Values : g[v] = g[w] <=> h[v][w]

LEMMA ArraysEqual ==
    ASSUME NEW g, NEW h, Agrees(g, h), NEW v \in Values, NEW w \in Values,
           v.kind = "array", w.kind = "array"
    PROVE  EqualAsJson(v, w, h) <=>
              /\ Len(v.items) = Len(w.items)
              /\ \A i \in DOMAIN v.items : g[v.items[i]] = g[w.items[i]]
<1>1. EqualAsJson(v, w, h) <=>
         /\ Len(v.items) = Len(w.items)
         /\ \A i \in DOMAIN v.items : h[v.items[i]][w.items[i]]
  BY Zenon DEF EqualAsJson
<1>2. v.items \in Seq(Values) /\ w.items \in Seq(Values)
  BY Shapes
<1>3. /\ DOMAIN v.items = 1..Len(v.items) /\ \A i \in 1..Len(v.items) : v.items[i] \in Values
      /\ DOMAIN w.items = 1..Len(w.items) /\ \A i \in 1..Len(w.items) : w.items[i] \in Values
  BY <1>2, LenProperties, ElementOfSeq
<1>4. ASSUME Len(v.items) = Len(w.items), NEW i \in DOMAIN v.items
      PROVE  h[v.items[i]][w.items[i]] <=> g[v.items[i]] = g[w.items[i]]
  <2>1. v.items[i] \in Values /\ w.items[i] \in Values
    BY <1>3, <1>4
  <2> QED
    BY <2>1, Zenon DEF Agrees
<1> QED
  BY <1>1, <1>4, Zenon

LEMMA ObjectsEqual ==
    ASSUME NEW g, NEW h, Agrees(g, h), NEW v \in Values, NEW w \in Values,
           v.kind = "object", w.kind = "object"
    PROVE  EqualAsJson(v, w, h) <=> EqualEntries(v.entries, w.entries, g)
<1>1. EqualAsJson(v, w, h) <=>
         /\ Len(v.entries) = Len(w.entries)
         /\ \A i \in DOMAIN v.entries : \E j \in DOMAIN w.entries :
               /\ v.entries[i][1] = w.entries[j][1]
               /\ h[v.entries[i][2]][w.entries[j][2]]
  BY Zenon DEF EqualAsJson
<1>2. v.entries \in Entries /\ w.entries \in Entries
  BY Shapes
<1>3. /\ DOMAIN v.entries = 1..Len(v.entries)
      /\ \A i \in DOMAIN v.entries : v.entries[i] \in Text \X Values
      /\ DOMAIN w.entries = 1..Len(w.entries)
      /\ \A i \in DOMAIN w.entries : w.entries[i] \in Text \X Values
  BY <1>2, LenProperties, ElementOfSeq DEF Entries
<1>4. ASSUME NEW i \in DOMAIN v.entries, NEW j \in DOMAIN w.entries
      PROVE  h[v.entries[i][2]][w.entries[j][2]] <=> g[v.entries[i][2]] = g[w.entries[j][2]]
  <2> DEFINE x == v.entries[i][2]
             y == w.entries[j][2]
  <2>1. x \in Values /\ y \in Values
    BY <1>3
  <2> HIDE DEF x, y
  <2>2. h[x][y] <=> g[x] = g[y]
    BY <2>1, Zenon DEF Agrees
  <2> QED
    BY <2>2 DEF x, y
<1>5. EqualAsJson(v, w, h) <=>
         /\ Len(v.entries) = Len(w.entries)
         /\ \A i \in DOMAIN v.entries : \E j \in DOMAIN w.entries :
               /\ v.entries[i][1] = w.entries[j][1]
               /\ g[v.entries[i][2]] = g[w.entries[j][2]]
  BY <1>1, <1>4, Zenon
<1> QED
  BY <1>3, <1>5, Zenon DEF EqualEntries

LEMMA OneLevel ==
    ASSUME NEW g, Unambiguous(g), NEW h, Agrees(g, h), NEW v \in Values, NEW w \in Values
    PROVE  /\ Canonical(v, g) \in Text /\ Delimited(Canonical(v, g), Canonical(w, g))
           /\ Canonical(v, g) = Canonical(w, g) <=> EqualAsJson(v, w, h)
<1> DEFINE c == Canonical(v, g)
           d == Canonical(w, g)
           Goal == Delimited(c, d) /\ (c = d <=> EqualAsJson(v, w, h))
<1>k. /\ v.kind \in {"null", "boolean", "number", "string", "array", "object"}
      /\ w.kind \in {"null", "boolean", "number", "string", "array", "object"}
  BY Shapes
<1>t. PICK m : /\ v.kind = "null" => m = 0
               /\ v.kind = "boolean" => m = 1
               /\ v.kind = "number" => m = 2
               /\ v.kind = "string" => m = 3
               /\ v.kind = "array" => m = 4
               /\ v.kind = "object" => m = 5
  BY Z3
<1>u. PICK n : /\ w.kind = "null" => n = 0
               /\ w.kind = "boolean" => n = 1
               /\ w.kind = "number" => n = 2
               /\ w.kind = "string" => n = 3
               /\ w.kind = "array" => n = 4
               /\ w.kind = "object" => n = 5
  BY Z3
<1>b. Begins(c, m)
  BY <1>k, <1>t, Tags
<1>e. Begins(d, n)
  BY <1>k, <1>u, Tags
<1>f. v.kind # w.kind => m # n
  BY <1>k, <1>t, <1>u
<1>0. c \in Text /\ d \in Text
  BY <1>b, <1>e DEF Begins
<1>1. ASSUME v.kind # w.kind PROVE Goal
  <2>1. ~EqualAsJson(v, w, h)
    BY <1>1 DEF EqualAsJson
  <2> HIDE DEF c, d
  <2>2. c # d
    BY <1>1, <1>b, <1>e, <1>f DEF Begins
  <2>3. Delimited(c, d)
    BY <1>1, <1>b, <1>e, <1>f, FirstByte
  <2> QED
    BY <2>1, <2>2, <2>3
<1>2. ASSUME v.kind = "null" /\ w.kind = "null" PROVE Goal
  <2>1. v = w
    BY <1>2, Shapes
  <2> QED
    BY <1>0, <1>2, <2>1, SameLength, Zenon DEF EqualAsJson
<1>3. ASSUME v.kind = "boolean" /\ w.kind = "boolean" PROVE Goal
  <2>1. (v = Bool(FALSE) \/ v = Bool(TRUE)) /\ (w = Bool(FALSE) \/ w = Bool(TRUE))
    BY <1>3, Shapes
  <2>2. c = <<1, IF v.bool THEN 1 ELSE 0>> /\ d = <<1, IF w.bool THEN 1 ELSE 0>>
    BY <1>3, CanonicalByKind
  <2>3. Bool(TRUE).bool = TRUE /\ Bool(FALSE).bool = FALSE
    BY DEF Bool
  <2>4. Len(c) = Len(d)
    BY <2>2
  <2>5. c = d <=> v = w
    <3>1. (v = Bool(TRUE) => c = <<1, 1>>) /\ (v = Bool(FALSE) => c = <<1, 0>>)
      BY <2>2, <2>3
    <3>2. (w = Bool(TRUE) => d = <<1, 1>>) /\ (w = Bool(FALSE) => d = <<1, 0>>)
      BY <2>2, <2>3
    <3> DEFINE yes == <<1, 1>>
               no  == <<1, 0>>
    <3>3. yes # no
      OBVIOUS
    <3> HIDE DEF c, d, yes, no
    <3>4. CASE v = Bool(TRUE) /\ w = Bool(TRUE)
      BY <3>1, <3>2, <3>4
    <3>5. CASE v = Bool(TRUE) /\ w = Bool(FALSE)
      <4>1. c = yes /\ d = no
        BY <3>1, <3>2, <3>5 DEF yes, no
      <4>2. v # w
        BY <3>1, <3>3, <3>5, <4>1 DEF yes, no
      <4> QED
        BY <3>3, <4>1, <4>2
    <3>6. CASE v = Bool(FALSE) /\ w = Bool(TRUE)
      <4>1. c = no /\ d = yes
        BY <3>1, <3>2, <3>6 DEF yes, no
      <4>2. v # w
        BY <3>1, <3>3, <3>6, <4>1 DEF yes, no
      <4> QED
        BY <3>3, <4>1, <4>2
    <3>7. CASE v = Bool(FALSE) /\ w = Bool(FALSE)
      BY <3>1, <3>2, <3>7
    <3> QED
      BY <2>1, <3>4, <3>5, <3>6, <3>7
  <2>6. EqualAsJson(v, w, h) <=> v = w
    BY <1>3, Zenon DEF EqualAsJson
  <2> HIDE DEF c, d
  <2> QED
    BY <1>0, <2>4, <2>5, <2>6, SameLength
<1>4. ASSUME v.kind \in {"number", "string"} /\ v.kind = w.kind PROVE Goal
  <2> DEFINE a == <<m>>
             p == Prefixed(v.str)
             q == Prefixed(w.str)
  <2>1. /\ v.str \in Text /\ w.str \in Text
        /\ v = (IF v.kind = "number" THEN Num(v.str) ELSE Str(v.str))
        /\ w = (IF w.kind = "number" THEN Num(w.str) ELSE Str(w.str))
    BY <1>4, Shapes
  <2>2. c = a \o p /\ d = a \o q /\ m \in Nat
    <3>1. CASE v.kind = "number"
      <4>1. m = 2
        BY <1>t, <3>1
      <4>2. Canonical(v, g) = <<2>> \o Prefixed(v.str)
        BY <3>1, CanonicalByKind
      <4>3. Canonical(w, g) = <<2>> \o Prefixed(w.str)
        BY <1>4, <3>1, CanonicalByKind
      <4> QED
        BY <4>1, <4>2, <4>3
    <3>2. CASE v.kind = "string"
      <4>1. m = 3
        BY <1>t, <3>2
      <4>2. Canonical(v, g) = <<3>> \o Prefixed(v.str)
        BY <3>2, CanonicalByKind
      <4>3. Canonical(w, g) = <<3>> \o Prefixed(w.str)
        BY <1>4, <3>2, CanonicalByKind
      <4> QED
        BY <4>1, <4>2, <4>3
    <3> QED
      BY <1>4, <3>1, <3>2
  <2>3. v = w <=> v.str = w.str
    BY <1>4, <2>1
  <2>4. p \in Text /\ q \in Text /\ Delimited(p, q) /\ (p = q => v.str = w.str)
    BY <2>1, PrefixedDelimits
  <2>5. a \in Text /\ Delimited(a, a)
    BY <2>2, OneByte
  <2>6. v.str = w.str => p = q
    OBVIOUS
  <2>7. EqualAsJson(v, w, h) <=> v = w
    BY <1>4, Zenon DEF EqualAsJson
  <2> HIDE DEF a, p, q, c, d
  <2>8. (a \o p = a \o q => p = q) /\ Delimited(a \o p, a \o q)
    BY <2>4, <2>5, OneAfterAnother
  <2> QED
    BY <2>2, <2>3, <2>4, <2>6, <2>7, <2>8
<1>5. ASSUME v.kind = "array" /\ w.kind = "array" PROVE Goal
  <2>1. v.items \in Seq(Values) /\ w.items \in Seq(Values)
    BY <1>5, Shapes
  <2>2. c = ArrayText(v.items, g) /\ d = ArrayText(w.items, g)
    BY <1>5, CanonicalArray
  <2>3. /\ Delimited(ArrayText(v.items, g), ArrayText(w.items, g))
        /\ ArrayText(v.items, g) = ArrayText(w.items, g) <=>
             /\ Len(v.items) = Len(w.items)
             /\ \A i \in DOMAIN v.items : g[v.items[i]] = g[w.items[i]]
    BY <2>1, ArrayTexts
  <2>4. EqualAsJson(v, w, h) <=>
           /\ Len(v.items) = Len(w.items)
           /\ \A i \in DOMAIN v.items : g[v.items[i]] = g[w.items[i]]
    BY <1>5, ArraysEqual
  <2> HIDE DEF c, d
  <2> QED
    BY <2>2, <2>3, <2>4, Zenon
<1>6. ASSUME v.kind = "object" /\ w.kind = "object" PROVE Goal
  <2>1. /\ v.entries \in Entries /\ DistinctKeys(v.entries)
        /\ w.entries \in Entries /\ DistinctKeys(w.entries)
    BY <1>6, Shapes
  <2>2. c = ObjectText(v.entries, g) /\ d = ObjectText(w.entries, g)
    BY <1>6, CanonicalObject
  <2>3. /\ Delimited(ObjectText(v.entries, g), ObjectText(w.entries, g))
        /\ ObjectText(v.entries, g) = ObjectText(w.entries, g) <=>
             EqualEntries(v.entries, w.entries, g)
    BY <2>1, ObjectTexts
  <2>4. EqualAsJson(v, w, h) <=> EqualEntries(v.entries, w.entries, g)
    BY <1>6, ObjectsEqual
  <2> HIDE DEF c, d
  <2> QED
    BY <2>2, <2>3, <2>4, Zenon
<1> HIDE DEF c, d, Goal
<1>7. Goal
  BY <1>k, <1>1, <1>2, <1>3, <1>4, <1>5, <1>6
<1> QED
  BY <1>0, <1>7 DEF Goal, c, d

(* The recursions over depth have solutions: at each depth the texts of all  *)
(* values, and which values are alike, come from those one level down.       *)
Descends(f, N, S, base, step) ==
    f \in [Nat -> S] /\ \A d \in Nat : f[d] = IF d > N THEN base ELSE step[f[d + 1]]

LEMMA Downward ==
    ASSUME NEW N \in Nat, NEW S, NEW base \in S, NEW step \in [S -> S]
    PROVE  \E f : Descends(f, N, S, base, step)
<1> DEFINE up == [i \in Nat |-> step]
<1>1. up \in [Nat -> [S -> S]]
  OBVIOUS
<1> HIDE DEF up
<1>2. PICK e : Iterates(e, N + 1, S, base, up)
  <2>1. N + 1 \in Nat
    OBVIOUS
  <2> QED
    BY <1>1, <2>1, Iterate
<1>3. /\ e \in [0..(N + 1) -> S] /\ e[0] = base
      /\ \A i \in 0..N : e[i + 1] = step[e[i]]
  BY <1>2 DEF Iterates, up
<1> DEFINE f == [d \in Nat |-> IF d > N THEN base ELSE e[N + 1 - d]]
<1>4. \A d \in Nat : ~(d > N) => N + 1 - d \in 0..(N + 1)
  OBVIOUS
<1>5. f \in [Nat -> S]
  BY <1>3, <1>4
<1>6. ASSUME NEW d \in Nat PROVE f[d] = IF d > N THEN base ELSE step[f[d + 1]]
  <2>1. CASE d > N
    BY <2>1
  <2>2. CASE ~(d > N)
    <3>1. f[d] = e[N + 1 - d]
      BY <2>2
    <3>2. N - d \in 0..N /\ (N - d) + 1 = N + 1 - d /\ N + 1 - (d + 1) = N - d
      BY <2>2
    <3>3. e[N + 1 - d] = step[e[N - d]]
      BY <1>3, <3>2
    <3>4. f[d + 1] = e[N - d]
      <4>1. CASE d = N
        <5>1. f[d + 1] = base /\ N - d = 0
          BY <4>1
        <5> QED
          BY <1>3, <5>1
      <4>2. CASE d # N
        <5>1. d + 1 \in Nat /\ ~(d + 1 > N)
          BY <2>2, <4>2
        <5> QED
          BY <3>2, <5>1
      <4> QED
        BY <4>1, <4>2
    <3> QED
      BY <2>2, <3>1, <3>3, <3>4
  <2> QED
    BY <2>1, <2>2
<1> HIDE DEF f
<1> QED
  BY <1>5, <1>6 DEF Descends

(* At each depth the texts of all values come from those one level down.     *)
HashEquation(h) ==
    h = [depth \in Nat |-> [value \in Values |->
           IF depth > MAX_HASH_RECURSION_DEPTH THEN <<255>>
           ELSE Canonical(value, h[depth + 1])]]

LEMMA HashByDepth == HashEquation(hash_canonical_value)
<1> DEFINE N == MAX_HASH_RECURSION_DEPTH
           S == {g \in [Values -> Text] : Unambiguous(g)}
           base == [v \in Values |-> <<255>>]
           next(g) == [v \in Values |-> Canonical(v, g)]
           step == [g \in S |-> next(g)]
<1>1. N \in Nat
  BY HashAssumption
<1>2. base \in S
  <2>1. <<255>> \in Text /\ Delimited(<<255>>, <<255>>)
    BY OneByte
  <2> QED
    BY <2>1 DEF Unambiguous
<1>3. ASSUME NEW g \in S PROVE next(g) \in S
  <2> DEFINE h == [v \in Values |-> [w \in Values |-> g[v] = g[w]]]
  <2>1. Unambiguous(g)
    OBVIOUS
  <2>2. Agrees(g, h)
    BY Zenon DEF Agrees
  <2> HIDE DEF h
  <2>3. \A v, w \in Values : Canonical(v, g) \in Text /\ Delimited(Canonical(v, g), Canonical(w, g))
    BY <2>1, <2>2, OneLevel
  <2> QED
    BY <2>3 DEF Unambiguous
<1>4. step \in [S -> S]
  BY <1>3
<1> HIDE DEF N, S, base, step
<1>5. PICK f \in [Nat -> S] : \A d \in Nat : f[d] = IF d > N THEN base ELSE step[f[d + 1]]
  <2>1. PICK f : Descends(f, N, S, base, step)
    BY <1>1, <1>2, <1>4, Downward
  <2> QED
    BY <2>1 DEF Descends
<1>6. ASSUME NEW d \in Nat
      PROVE  f[d] = [v \in Values |-> IF d > N THEN <<255>> ELSE Canonical(v, f[d + 1])]
  <2>1. CASE d > N
    BY <1>5, <2>1 DEF base
  <2>2. CASE ~(d > N)
    <3>1. d + 1 \in Nat /\ f[d + 1] \in S
      OBVIOUS
    <3>2. f[d] = next(f[d + 1])
      BY <1>5, <2>2, <3>1 DEF step
    <3> QED
      BY <2>2, <3>2
  <2> QED
    BY <2>1, <2>2
<1>7. HashEquation(f)
  <2>1. f = [d \in Nat |-> [v \in Values |-> IF d > N THEN <<255>> ELSE Canonical(v, f[d + 1])]]
    BY <1>6
  <2> QED
    BY <2>1, Zenon DEF HashEquation, N
<1>8. hash_canonical_value = CHOOSE h : HashEquation(h)
  BY DEF hash_canonical_value, HashEquation
<1> QED
  BY <1>7, <1>8, Zenon

(* And which values are alike, from which are one level down.                *)
AlikeEquation(h) ==
    h = [depth \in Nat |-> [v \in Values |-> [w \in Values |->
           depth > MAX_HASH_RECURSION_DEPTH \/ EqualAsJson(v, w, h[depth + 1])]]]

LEMMA AlikeByDepth == AlikeEquation(Alike)
<1> DEFINE N == MAX_HASH_RECURSION_DEPTH
           S == [Values -> [Values -> BOOLEAN]]
           base == [v \in Values |-> [w \in Values |-> TRUE]]
           next(g) == [v \in Values |-> [w \in Values |-> EqualAsJson(v, w, g)]]
           step == [g \in S |-> next(g)]
<1>1. N \in Nat
  BY HashAssumption
<1>2. base \in S
  OBVIOUS
<1>3. ASSUME NEW g \in S PROVE next(g) \in S
  <2>1. \A v, w \in Values : EqualAsJson(v, w, g) \in BOOLEAN
    BY Zenon DEF EqualAsJson
  <2> QED
    BY <2>1
<1>4. step \in [S -> S]
  BY <1>3
<1> HIDE DEF N, S, base, step
<1>5. PICK f \in [Nat -> S] : \A d \in Nat : f[d] = IF d > N THEN base ELSE step[f[d + 1]]
  <2>1. PICK f : Descends(f, N, S, base, step)
    BY <1>1, <1>2, <1>4, Downward
  <2> QED
    BY <2>1 DEF Descends
<1> DEFINE at(d) == [v \in Values |-> [w \in Values |-> d > N \/ EqualAsJson(v, w, f[d + 1])]]
<1>6. ASSUME NEW d \in Nat PROVE f[d] = at(d)
  <2>1. CASE d > N
    <3>1. \A v, w \in Values : (d > N \/ EqualAsJson(v, w, f[d + 1])) = TRUE
      BY <2>1, Zenon
    <3>2. at(d) = base
      BY <3>1, Zenon DEF base
    <3> QED
      BY <1>5, <2>1, <3>2
  <2>2. CASE ~(d > N)
    <3>1. d + 1 \in Nat /\ f[d + 1] \in S
      OBVIOUS
    <3>2. f[d] = next(f[d + 1])
      BY <1>5, <2>2, <3>1 DEF step
    <3>3. \A v, w \in Values :
             (d > N \/ EqualAsJson(v, w, f[d + 1])) = EqualAsJson(v, w, f[d + 1])
      <4>1. \A v, w \in Values : EqualAsJson(v, w, f[d + 1]) \in BOOLEAN
        BY Zenon DEF EqualAsJson
      <4> QED
        BY <2>2, <4>1, Zenon
    <3>4. at(d) = next(f[d + 1])
      BY <3>3, Zenon
    <3> QED
      BY <3>2, <3>4
  <2> QED
    BY <2>1, <2>2
<1>7. AlikeEquation(f)
  <2> HIDE DEF at
  <2>1. f = [d \in Nat |-> at(d)]
    BY <1>6
  <2> QED
    BY <2>1, Zenon DEF AlikeEquation, N, at
<1>8. Alike = CHOOSE h : AlikeEquation(h)
  BY DEF Alike, AlikeEquation
<1> QED
  BY <1>7, <1>8, Zenon

(* At every depth the texts of two values are told apart, whatever follows    *)
(* them, and they are equal exactly when the values are alike down to the     *)
(* limit (hasher.rs hash_canonical_value: type tags, length prefixes, sorted  *)
(* keys).                                                                     *)
THEOREM HashTellsValues ==
    \A d \in Nat : /\ Unambiguous(hash_canonical_value[d])
                   /\ Agrees(hash_canonical_value[d], Alike[d])
<1> DEFINE N == MAX_HASH_RECURSION_DEPTH
           H(d) == hash_canonical_value[d]
           A(d) == Alike[d]
           Good(d) == Unambiguous(H(d)) /\ Agrees(H(d), A(d))
           T == {k \in Nat : \A d \in Nat : d + k > N => Good(d)}
<1>1. N \in Nat
  BY HashAssumption
<1>2. ASSUME NEW d \in Nat
      PROVE  H(d) = [v \in Values |-> IF d > N THEN <<255>> ELSE Canonical(v, H(d + 1))]
  <2>1. HashEquation(hash_canonical_value)
    BY HashByDepth
  <2> DEFINE h == hash_canonical_value
             at(k) == [v \in Values |-> IF k > N THEN <<255>> ELSE Canonical(v, h[k + 1])]
  <2>2. h = [k \in Nat |-> at(k)]
    BY <2>1, Zenon DEF HashEquation
  <2> HIDE DEF h, at
  <2>3. h[d] = at(d)
    BY <2>2
  <2> QED
    BY <2>3 DEF h, at
<1>3. ASSUME NEW d \in Nat, NEW v \in Values, NEW w \in Values
      PROVE  A(d)[v][w] <=> d > N \/ EqualAsJson(v, w, A(d + 1))
  <2>1. AlikeEquation(Alike)
    BY AlikeByDepth
  <2> DEFINE h == Alike
             at(k) == [x \in Values |-> [y \in Values |-> k > N \/ EqualAsJson(x, y, h[k + 1])]]
  <2>2. h = [k \in Nat |-> at(k)]
    BY <2>1, Zenon DEF AlikeEquation
  <2> HIDE DEF h, at
  <2>3. h[d] = at(d)
    BY <2>2
  <2>4. at(d)[v][w] <=> d > N \/ EqualAsJson(v, w, h[d + 1])
    BY Zenon DEF at
  <2> QED
    BY <2>3, <2>4 DEF h
<1> HIDE DEF N, H, A
<1>4. 0 \in T
  <2> SUFFICES ASSUME NEW d \in Nat, d > N PROVE Good(d)
    BY <1>1
  <2>1. H(d) = [v \in Values |-> <<255>>]
    BY <1>2
  <2>2. <<255>> \in Text /\ Delimited(<<255>>, <<255>>)
    BY OneByte
  <2>3. Unambiguous(H(d))
    BY <2>1, <2>2 DEF Unambiguous
  <2>4. Agrees(H(d), A(d))
    <3> SUFFICES ASSUME NEW v \in Values, NEW w \in Values
                 PROVE  H(d)[v] = H(d)[w] <=> A(d)[v][w]
      BY Zenon DEF Agrees
    <3>1. A(d)[v][w]
      BY <1>3
    <3>2. H(d)[v] = H(d)[w]
      BY <2>1
    <3> QED
      BY <3>1, <3>2
  <2> QED
    BY <2>3, <2>4
<1>5. ASSUME NEW k \in Nat, k \in T PROVE k + 1 \in T
  <2> SUFFICES ASSUME NEW d \in Nat, d + (k + 1) > N PROVE Good(d)
    OBVIOUS
  <2>1. CASE d > N
    BY <1>4, <2>1
  <2>2. CASE ~(d > N)
    <3>1. d + 1 \in Nat /\ (d + 1) + k > N
      BY <1>1
    <3>2. Unambiguous(H(d + 1)) /\ Agrees(H(d + 1), A(d + 1))
      BY <1>5, <3>1
    <3>3. ASSUME NEW v \in Values, NEW w \in Values
          PROVE  /\ Canonical(v, H(d + 1)) \in Text
                 /\ Delimited(Canonical(v, H(d + 1)), Canonical(w, H(d + 1)))
                 /\ Canonical(v, H(d + 1)) = Canonical(w, H(d + 1)) <=>
                       EqualAsJson(v, w, A(d + 1))
      BY <3>2, OneLevel
    <3>4. H(d) = [v \in Values |-> Canonical(v, H(d + 1))]
      BY <1>2, <2>2
    <3>5. Unambiguous(H(d))
      BY <3>3, <3>4 DEF Unambiguous
    <3>6. Agrees(H(d), A(d))
      <4> SUFFICES ASSUME NEW v \in Values, NEW w \in Values
                   PROVE  H(d)[v] = H(d)[w] <=> A(d)[v][w]
        BY Zenon DEF Agrees
      <4>1. A(d)[v][w] <=> EqualAsJson(v, w, A(d + 1))
        BY <1>3, <2>2
      <4>2. H(d)[v] = Canonical(v, H(d + 1)) /\ H(d)[w] = Canonical(w, H(d + 1))
        BY <3>4
      <4> QED
        BY <3>3, <4>1, <4>2
    <3> QED
      BY <3>5, <3>6
  <2> QED
    BY <2>1, <2>2
<1> HIDE DEF T, Good
<1>6. N + 1 \in T
  BY <1>1, <1>4, <1>5, Induction
<1>7. ASSUME NEW d \in Nat PROVE Good(d)
  <2>1. d + (N + 1) > N
    BY <1>1
  <2> QED
    BY <1>6, <2>1 DEF T
<1> QED
  BY <1>7 DEF Good, H, A

(* Two definitions are hashed from the same bytes exactly when they are the  *)
(* same: no bytes move between name, description and schemas (hasher.rs       *)
(* compute_definition_hash).                                                  *)
OutputText(schema) == IF schema = None THEN <<0>> ELSE <<1>> \o hash_canonical_value[0][schema]

LEMMA OutputTexts ==
    ASSUME NEW p \in Values \cup {None}, NEW q \in Values \cup {None}
    PROVE  /\ OutputText(p) \in Text
           /\ OutputText(p) = OutputText(q) <=>
                 /\ p = None <=> q = None
                 /\ p # None => Alike[0][p][q]
<1> DEFINE g == hash_canonical_value[0]
           h == Alike[0]
<1>1. Unambiguous(g) /\ Agrees(g, h)
  BY HashTellsValues
<1> HIDE DEF g, h
<1>2. None \notin Values
  BY Shapes DEF None
<1>3. ASSUME NEW x \in Values PROVE g[x] \in Text /\ Begins(<<1>> \o g[x], 1)
  <2>1. g[x] \in Text
    BY <1>1 DEF Unambiguous
  <2>2. Begins(<<1>>, 1)
    BY DEF Begins, Text
  <2> QED
    BY <2>1, <2>2, StartsWith
<1>4. Begins(<<0>>, 0)
  BY DEF Begins, Text
<1>5. ASSUME NEW x \in Values, NEW y \in Values
      PROVE  <<1>> \o g[x] = <<1>> \o g[y] <=> h[x][y]
  <2>1. g[x] = g[y] <=> h[x][y]
    BY <1>1, Zenon DEF Agrees
  <2> DEFINE a == <<1>>
  <2>2. a \in Text /\ Delimited(a, a) /\ g[x] \in Text /\ g[y] \in Text
    BY <1>3, OneByte
  <2> HIDE DEF a
  <2>3. a \o g[x] = a \o g[y] <=> g[x] = g[y]
    BY <2>2, OneAfterAnother
  <2> QED
    BY <2>1, <2>3 DEF a
<1>6. /\ OutputText(p) = IF p = None THEN <<0>> ELSE <<1>> \o g[p]
      /\ OutputText(q) = IF q = None THEN <<0>> ELSE <<1>> \o g[q]
  BY DEF OutputText, g
<1>7. OutputText(p) \in Text
  BY <1>3, <1>4, <1>6 DEF Begins
<1>8. OutputText(p) = OutputText(q) <=> (p = None <=> q = None) /\ (p # None => h[p][q])
  <2>1. CASE p = None /\ q = None
    BY <1>6, <2>1
  <2>2. CASE p = None /\ q # None
    <3>1. OutputText(p) = <<0>> /\ OutputText(q) = <<1>> \o g[q]
      BY <1>6, <2>2
    <3>2. OutputText(p)[1] = 0 /\ OutputText(q)[1] = 1
      BY <1>3, <1>4, <2>2, <3>1 DEF Begins
    <3> QED
      BY <2>2, <3>2
  <2>3. CASE p # None /\ q = None
    <3>1. OutputText(q) = <<0>> /\ OutputText(p) = <<1>> \o g[p]
      BY <1>6, <2>3
    <3>2. OutputText(q)[1] = 0 /\ OutputText(p)[1] = 1
      BY <1>3, <1>4, <2>3, <3>1 DEF Begins
    <3> QED
      BY <2>3, <3>2
  <2>4. CASE p # None /\ q # None
    <3>1. p \in Values /\ q \in Values
      BY <2>4
    <3>2. OutputText(q) = <<1>> \o g[q] /\ OutputText(p) = <<1>> \o g[p]
      BY <1>6, <2>4
    <3> QED
      BY <1>5, <2>4, <3>1, <3>2
  <2> QED
    BY <2>1, <2>2, <2>3, <2>4
<1> QED
  BY <1>7, <1>8 DEF h

THEOREM HashTellsDefinitions ==
    \A d, e \in Definitions :
        compute_definition_hash(d) = compute_definition_hash(e) <=> SameDefinition(d, e)
<1> SUFFICES ASSUME NEW d \in Definitions, NEW e \in Definitions
             PROVE  compute_definition_hash(d) = compute_definition_hash(e)
                       <=> SameDefinition(d, e)
  OBVIOUS
<1> DEFINE g == hash_canonical_value[0]
           h == Alike[0]
           name(x) == Prefixed(x.name)
           desc(x) == Prefixed(x.description)
           in(x) == g[x.input_schema]
           out(x) == OutputText(x.output_schema)
<1>1. \A x \in Definitions : /\ x.name \in Text /\ x.description \in Text
                             /\ x.input_schema \in Values
                             /\ x.output_schema \in Values \cup {None}
  BY DefinitionsAssumption DEF Text
<1>2. Unambiguous(g) /\ Agrees(g, h)
  BY HashTellsValues
<1>3. /\ name(d) \in Text /\ name(e) \in Text /\ Delimited(name(d), name(e))
      /\ name(d) = name(e) <=> d.name = e.name
  BY <1>1, PrefixedDelimits
<1>4. /\ desc(d) \in Text /\ desc(e) \in Text /\ Delimited(desc(d), desc(e))
      /\ desc(d) = desc(e) <=> d.description = e.description
  BY <1>1, PrefixedDelimits
<1>5. /\ in(d) \in Text /\ in(e) \in Text /\ Delimited(in(d), in(e))
      /\ in(d) = in(e) <=> h[d.input_schema][e.input_schema]
  <2>1. d.input_schema \in Values /\ e.input_schema \in Values
    BY <1>1
  <2> HIDE DEF g, h
  <2>2. g[d.input_schema] = g[e.input_schema] <=> h[d.input_schema][e.input_schema]
    BY <1>2, <2>1, Zenon DEF Agrees
  <2> QED
    BY <1>2, <2>1, <2>2 DEF Unambiguous
<1>6. /\ out(d) \in Text /\ out(e) \in Text
      /\ out(d) = out(e) <=> /\ d.output_schema = None <=> e.output_schema = None
                             /\ d.output_schema # None => h[d.output_schema][e.output_schema]
  BY <1>1, OutputTexts
<1>7. /\ compute_definition_hash(d) = ((name(d) \o desc(d)) \o in(d)) \o out(d)
      /\ compute_definition_hash(e) = ((name(e) \o desc(e)) \o in(e)) \o out(e)
  BY Zenon DEF compute_definition_hash, OutputText
<1>8. SameDefinition(d, e) <=>
         name(d) = name(e) /\ desc(d) = desc(e) /\ in(d) = in(e) /\ out(d) = out(e)
  BY <1>3, <1>4, <1>5, <1>6, Zenon DEF SameDefinition
<1> HIDE DEF name, desc, in, out
<1>9. /\ name(d) \o desc(d) \in Text /\ name(e) \o desc(e) \in Text
      /\ name(d) \o desc(d) = name(e) \o desc(e) => name(d) = name(e) /\ desc(d) = desc(e)
      /\ Delimited(name(d) \o desc(d), name(e) \o desc(e))
  BY <1>3, <1>4, OneAfterAnother
<1> DEFINE a == name(d) \o desc(d)
           b == name(e) \o desc(e)
<1>10. a \in Text /\ b \in Text /\ Delimited(a, b) /\ (a = b => name(d) = name(e) /\ desc(d) = desc(e))
  BY <1>9
<1>11. name(d) = name(e) /\ desc(d) = desc(e) => a = b
  OBVIOUS
<1> HIDE DEF a, b
<1>12. /\ a \o in(d) \in Text /\ b \o in(e) \in Text
       /\ a \o in(d) = b \o in(e) => a = b /\ in(d) = in(e)
       /\ Delimited(a \o in(d), b \o in(e))
  BY <1>5, <1>10, OneAfterAnother
<1> DEFINE m == a \o in(d)
           n == b \o in(e)
<1>13. m \in Text /\ n \in Text /\ Delimited(m, n) /\ (m = n => a = b /\ in(d) = in(e))
  BY <1>12
<1>14. a = b /\ in(d) = in(e) => m = n
  OBVIOUS
<1> HIDE DEF m, n
<1>15. m \o out(d) = n \o out(e) => m = n /\ out(d) = out(e)
  BY <1>6, <1>13, OneAfterAnother
<1>16. compute_definition_hash(d) = m \o out(d) /\ compute_definition_hash(e) = n \o out(e)
  BY <1>7 DEF m, n, a, b
<1> QED
  BY <1>8, <1>10, <1>11, <1>13, <1>14, <1>15, <1>16
-----------------------------------------------------------------------------
(* A pin is the hash of the definition it was taken from, and the status of  *)
(* a start is what that pin says of the definition of this start.            *)
PinInv ==
    /\ \/ pinned_definition_hash_hex = NoPin
       \/ /\ pinned \in Definitions
          /\ \E upper \in BOOLEAN : pinned_definition_hash_hex =
                [hash |-> compute_definition_hash(pinned), upper |-> upper]
    /\ pin_status \in {"stopped", "NotYetPinned", "Matched", "Mismatched"}
    /\ pin_status # "stopped" =>
          /\ advertised \in Definitions
          /\ pin_status = from_pin(pinned_definition_hash_hex,
                                   hash_to_hex(compute_definition_hash(advertised)))

THEOREM PinInvariance == Spec => []PinInv
<1>1. Init => PinInv
  BY DEF Init, PinInv
<1>2. PinInv /\ [Next]_vars => PinInv'
  <2> SUFFICES ASSUME PinInv, [Next]_vars PROVE PinInv'
    OBVIOUS
  <2>1. CASE Start
    BY <2>1 DEF PinInv, Start, from_pin
  <2>2. CASE Stop
    BY <2>2 DEF PinInv, Stop
  <2>3. CASE PinAndStop
    BY <2>3 DEF PinInv, PinAndStop, hash_to_hex
  <2>4. CASE UNCHANGED vars
    BY <2>4 DEF PinInv, vars
  <2> QED
    BY <2>1, <2>2, <2>3, <2>4 DEF Next
<1> QED
  BY <1>1, <1>2, PTL DEF Spec

(* A pin matches what a server advertises at a later start exactly when it   *)
(* is the definition that was reviewed (pin_policy.rs from_pin on hasher.rs  *)
(* compute_definition_hash), whatever the schemas and however deep.          *)
THEOREM PinsTellChange == Spec => []PinTellsChange
<1>1. PinInv => PinTellsChange
  <2> SUFFICES ASSUME PinInv, pin_status \in {"Matched", "Mismatched"}
               PROVE  pin_status = "Matched" <=> SameDefinition(pinned, advertised)
    BY Zenon DEF PinTellsChange
  <2> DEFINE p == compute_definition_hash(pinned)
             a == compute_definition_hash(advertised)
  <2>1. /\ advertised \in Definitions
        /\ pin_status = from_pin(pinned_definition_hash_hex, hash_to_hex(a))
    BY DEF PinInv
  <2>2. pinned_definition_hash_hex # NoPin
    BY <2>1 DEF from_pin
  <2>3. pinned \in Definitions /\ pinned_definition_hash_hex.hash = p
    BY <2>2 DEF PinInv
  <2> HIDE DEF p, a
  <2>4. pin_status = "Matched" <=> p = a
    BY <2>1, <2>2, <2>3 DEF from_pin, hash_to_hex
  <2> QED
    BY <2>1, <2>3, <2>4, HashTellsDefinitions DEF p, a
<1> QED
  BY <1>1, PinInvariance, PTL

=============================================================================

---------------------------- MODULE OrderingProofs ----------------------------
(***************************************************************************)
(* Lemmas about Ordering: what a sort has at its n-th place, and that two  *)
(* families ordered alike are sorted alike.                                *)
(***************************************************************************)
EXTENDS Ordering, Sequences, FiniteSetTheorems, WellFoundedInduction, TLAPS

LEMMA LeastNat ==
  ASSUME NEW T \in SUBSET Nat, T # {}
  PROVE  \E n \in T : \A m \in T : n <= m
<1> DEFINE R == OpToRel(<, Nat)
<1>1. IsWellFoundedOn(R, Nat)
  BY NatLessThanWellFounded
<1>2. \A m, n \in Nat : m < n => <<m, n>> \in R
  BY DEF OpToRel
<1> HIDE DEF R
<1>3. PICK n \in T : \A m \in T : ~(<<m, n>> \in R)
  BY <1>1, WFMin
<1>4. \A m \in T : ~(m < n)
  BY <1>2, <1>3
<1> QED BY <1>4

LEMMA PartOfFinite ==
  ASSUME NEW D, IsFiniteSet(D), NEW S \in SUBSET D
  PROVE  /\ IsFiniteSet(S) /\ Cardinality(S) \in Nat /\ Cardinality(D) \in Nat
         /\ Cardinality(S) <= Cardinality(D)
         /\ S # D => Cardinality(S) < Cardinality(D)
<1>1. IsFiniteSet(S) /\ Cardinality(S) <= Cardinality(D)
      /\ (Cardinality(D) = Cardinality(S) => S = D)
  BY FS_Subset
<1>2. Cardinality(S) \in Nat /\ Cardinality(D) \in Nat
  BY <1>1, FS_CardinalityType
<1> QED BY <1>1, <1>2

(* Some member of a finite family is the largest, and some the smallest. *)
LEMMA Largest ==
  ASSUME NEW D, IsFiniteSet(D), D # {}, NEW f \in [D -> Int]
  PROVE  \E i \in D : \A j \in D : f[j] <= f[i]
<1> DEFINE Above(i) == {j \in D : f[j] > f[i]}
           T == {Cardinality(Above(i)) : i \in D}
<1>1. \A i \in D : IsFiniteSet(Above(i)) /\ Cardinality(Above(i)) \in Nat
  BY PartOfFinite
<1>2. PICK n \in T : \A m \in T : n <= m
  <2>1. T \in SUBSET Nat /\ T # {}
    BY <1>1
  <2> HIDE DEF T
  <2> QED BY <2>1, LeastNat
<1>3. PICK i \in D : n = Cardinality(Above(i))
  BY <1>2
<1>4. ASSUME NEW j \in D, f[j] > f[i]
      PROVE  FALSE
  <2>1. Above(j) \subseteq Above(i) /\ j \in Above(i) /\ j \notin Above(j)
    BY <1>4
  <2>2. Cardinality(Above(j)) < Cardinality(Above(i))
    <3> HIDE DEF Above
    <3> QED BY <1>1, <2>1, PartOfFinite
  <2>3. Cardinality(Above(i)) <= Cardinality(Above(j))
    BY <1>2, <1>3
  <2> HIDE DEF Above
  <2> QED BY <1>1, <2>2, <2>3
<1> QED BY <1>4

LEMMA Smallest ==
  ASSUME NEW D, IsFiniteSet(D), D # {}, NEW f \in [D -> Int]
  PROVE  \E i \in D : \A j \in D : f[i] <= f[j]
<1> DEFINE g == [i \in D |-> -f[i]]
<1>1. g \in [D -> Int]
  OBVIOUS
<1>2. \A i \in D : g[i] = -f[i] /\ f[i] \in Int
  OBVIOUS
<1> HIDE DEF g
<1>3. PICK i \in D : \A j \in D : g[j] <= g[i]
  BY <1>1, Largest
<1> QED BY <1>2, <1>3

LEMMA Counted ==
  ASSUME NEW D, IsFiniteSet(D), NEW f \in [D -> Int], NEW v \in Int
  PROVE  /\ Cardinality(Below(v, f)) \in Nat /\ Cardinality(UpTo(v, f)) \in Nat
         /\ Below(v, f) \subseteq D /\ UpTo(v, f) \subseteq D
         /\ Cardinality(Below(v, f)) <= Cardinality(UpTo(v, f))
         /\ Cardinality(UpTo(v, f)) <= Cardinality(D) /\ Cardinality(D) \in Nat
         /\ \A w \in Int : v < w => Cardinality(UpTo(v, f)) <= Cardinality(Below(w, f))
<1>1. Below(v, f) \subseteq UpTo(v, f) /\ UpTo(v, f) \subseteq D
  BY DEF Below, UpTo
<1>2. \A w \in Int : Below(w, f) \subseteq D /\ (v < w => UpTo(v, f) \subseteq Below(w, f))
  BY DEF Below, UpTo
<1>3. IsFiniteSet(UpTo(v, f)) /\ \A w \in Int : IsFiniteSet(Below(w, f))
  BY <1>1, <1>2, PartOfFinite
<1> QED BY <1>1, <1>2, <1>3, PartOfFinite

(* The n-th of at least n numbers is one of them. *)
LEMMA NthExists ==
  ASSUME NEW D, IsFiniteSet(D), NEW f \in [D -> Int], NEW n \in 1..Cardinality(D)
  PROVE  \E v \in {f[i] : i \in D} :
           Cardinality(Below(v, f)) < n /\ n <= Cardinality(UpTo(v, f))
<1> DEFINE E == {i \in D : n <= Cardinality(UpTo(f[i], f))}
<1>1. E # {}
  <2>1. D # {} /\ Cardinality(D) \in Nat
    BY FS_EmptySet, FS_CardinalityType
  <2>2. PICK i \in D : \A j \in D : f[j] <= f[i]
    BY <2>1, Largest
  <2>3. UpTo(f[i], f) = D
    BY <2>2 DEF UpTo
  <2> QED BY <2>1, <2>3
<1>2. IsFiniteSet(E)
  BY PartOfFinite
<1> DEFINE g == [i \in E |-> f[i]]
<1>3. g \in [E -> Int] /\ \A i \in E : g[i] = f[i]
  OBVIOUS
<1>4. PICK e \in E : \A j \in E : f[e] <= f[j]
  <2> HIDE DEF E, g
  <2>1. PICK e \in E : \A j \in E : g[e] <= g[j]
    BY <1>1, <1>2, <1>3, Smallest
  <2> QED BY <1>3, <2>1
<1>5. n <= Cardinality(UpTo(f[e], f)) /\ e \in D /\ f[e] \in Int
  BY <1>4
<1>6. Cardinality(Below(f[e], f)) < n
  <2> DEFINE B == Below(f[e], f)
             b == [i \in B |-> f[i]]
  <2>1. B \subseteq D /\ IsFiniteSet(B)
    BY PartOfFinite DEF Below
  <2>2. CASE B = {}
    BY <2>2, FS_EmptySet
  <2>3. CASE B # {}
    <3>1. b \in [B -> Int] /\ \A i \in B : b[i] = f[i]
      BY <2>1
    <3>2. PICK k \in B : \A j \in B : f[j] <= f[k]
      <4> HIDE DEF B, b
      <4>1. PICK k \in B : \A j \in B : b[j] <= b[k]
        BY <2>1, <2>3, <3>1, Largest
      <4> QED BY <3>1, <4>1
    <3>3. k \in D /\ f[k] < f[e]
      BY <3>2 DEF Below
    <3>4. B = UpTo(f[k], f)
      BY <2>1, <3>2, <3>3, <1>5 DEF Below, UpTo
    <3>5. k \notin E
      BY <1>4, <3>3, <1>5
    <3>6. Cardinality(UpTo(f[k], f)) \in Nat /\ ~(n <= Cardinality(UpTo(f[k], f)))
      BY <3>3, <3>5, Counted
    <3> HIDE DEF B
    <3> QED BY <3>4, <3>6 DEF B
  <2> QED BY <2>2, <2>3
<1> QED BY <1>5, <1>6

LEMMA NthProperties ==
  ASSUME NEW D, IsFiniteSet(D), NEW f \in [D -> Int], NEW n \in 1..Cardinality(D)
  PROVE  /\ Nth(n, f) \in Int /\ \E i \in D : f[i] = Nth(n, f)
         /\ Cardinality(Below(Nth(n, f), f)) < n
         /\ n <= Cardinality(UpTo(Nth(n, f), f))
<1> DEFINE Fits(v) == Cardinality(Below(v, f)) < n /\ n <= Cardinality(UpTo(v, f))
           V == {f[i] : i \in D}
<1>1. \E v \in V : Fits(v)
  BY NthExists
<1>2. Nth(n, f) = CHOOSE v \in V : Fits(v)
  BY DEF Nth
<1>3. Nth(n, f) \in V /\ Fits(Nth(n, f))
  <2> HIDE DEF V, Fits
  <2> QED BY <1>1, <1>2
<1> QED BY <1>3

LEMMA NthMonotonic ==
  ASSUME NEW D, IsFiniteSet(D), NEW f \in [D -> Int],
         NEW m \in 1..Cardinality(D), NEW n \in 1..Cardinality(D), m <= n
  PROVE  Nth(m, f) <= Nth(n, f)
<1> DEFINE v == Nth(n, f)
           w == Nth(m, f)
<1>1. v \in Int /\ w \in Int /\ n <= Cardinality(UpTo(v, f)) /\ Cardinality(Below(w, f)) < m
  BY NthProperties
<1> HIDE DEF v, w
<1>2. ~(v < w)
  BY <1>1, Counted
<1> QED BY <1>1, <1>2 DEF v, w

(* Counting through a bijection. *)
LEMMA SameCount ==
  ASSUME NEW D, IsFiniteSet(D), NEW h, NEW E,
         \A i, j \in D : h[i] = h[j] => i = j,
         \A e : e \in E <=> \E i \in D : e = h[i]
  PROVE  IsFiniteSet(E) /\ Cardinality(E) = Cardinality(D)
<1> DEFINE b == [i \in D |-> h[i]]
<1>1. b \in Bijection(D, E)
  <2>1. b \in [D -> E] /\ \A i \in D : b[i] = h[i]
    OBVIOUS
  <2> HIDE DEF b
  <2> QED BY <2>1 DEF Bijection, Injection, Surjection, IsInjective
<1>2. ExistsBijection(D, E)
  <2> HIDE DEF b
  <2> QED BY <1>1 DEF ExistsBijection
<1> QED BY <1>2, FS_Bijection

(* The number that fits the n-th place is the one there. *)
LEMMA NthIs ==
  ASSUME NEW D, IsFiniteSet(D), NEW f \in [D -> Int], NEW n \in 1..Cardinality(D),
         NEW i \in D,
         Cardinality(Below(f[i], f)) < n, n <= Cardinality(UpTo(f[i], f))
  PROVE  Nth(n, f) = f[i]
<1> DEFINE v == Nth(n, f)
           w == f[i]
<1>1. /\ v \in Int /\ w \in Int /\ n \in Nat
      /\ Cardinality(Below(v, f)) < n /\ n <= Cardinality(UpTo(v, f))
      /\ Cardinality(Below(w, f)) < n /\ n <= Cardinality(UpTo(w, f))
  BY NthProperties
<1> HIDE DEF v, w
<1>2. /\ Cardinality(Below(v, f)) \in Nat /\ Cardinality(UpTo(v, f)) \in Nat
      /\ Cardinality(Below(w, f)) \in Nat /\ Cardinality(UpTo(w, f)) \in Nat
  BY <1>1, Counted
<1>3. ~(v < w)
  <2>1. v < w => Cardinality(UpTo(v, f)) <= Cardinality(Below(w, f))
    BY <1>1, Counted
  <2> QED BY <1>1, <1>2, <2>1
<1>4. ~(w < v)
  <2>1. w < v => Cardinality(UpTo(w, f)) <= Cardinality(Below(v, f))
    BY <1>1, Counted
  <2> QED BY <1>1, <1>2, <2>1
<1> QED BY <1>1, <1>3, <1>4 DEF v, w

(* Two families of distinct numbers that a mapping onto orders alike are   *)
(* sorted alike.                                                           *)
LEMMA SortedAlike ==
  ASSUME NEW S, IsFiniteSet(S), NEW f \in [S -> Int], NEW T, NEW g \in [T -> Int],
         NEW h \in [S -> T],
         \A x, y \in S : f[x] = f[y] => x = y,
         \A x, y \in S : f[x] < f[y] <=> g[h[x]] < g[h[y]],
         \A t \in T : \E x \in S : t = h[x]
  PROVE  /\ IsFiniteSet(T) /\ Cardinality(T) = Cardinality(S)
         /\ \A n \in 1..Cardinality(S) :
              InOrder(f)[n] \in S /\ InOrder(g)[n] = h[InOrder(f)[n]]
<1>1. \A x, y \in S : g[h[x]] = g[h[y]] => x = y
  <2> SUFFICES ASSUME NEW x \in S, NEW y \in S, g[h[x]] = g[h[y]]
               PROVE  x = y
    OBVIOUS
  <2>1. f[x] \in Int /\ f[y] \in Int /\ g[h[x]] \in Int /\ g[h[y]] \in Int
    OBVIOUS
  <2>2. ~(f[x] < f[y]) /\ ~(f[y] < f[x])
    BY <2>1
  <2> QED BY <2>1, <2>2
<1>2. \A x, y \in S : h[x] = h[y] => x = y
  BY <1>1
<1>3. IsFiniteSet(T) /\ Cardinality(T) = Cardinality(S)
  <2>1. \A t : t \in T <=> \E x \in S : t = h[x]
    OBVIOUS
  <2> QED BY <1>2, <2>1, SameCount
<1>4. ASSUME NEW n \in 1..Cardinality(S)
      PROVE  InOrder(f)[n] \in S /\ InOrder(g)[n] = h[InOrder(f)[n]]
  <2> DEFINE x == InOrder(f)[n]
  <2>1. x = CHOOSE i \in S : f[i] = Nth(n, f)
    BY DEF InOrder
  <2>2. \E i \in S : f[i] = Nth(n, f)
    BY NthProperties
  <2>3. x \in S /\ f[x] = Nth(n, f)
    <3> HIDE DEF x
    <3> QED BY <2>1, <2>2
  <2> HIDE DEF x
  <2>4. Cardinality(Below(f[x], f)) < n /\ n <= Cardinality(UpTo(f[x], f))
    BY <2>3, NthProperties
  <2>5. Cardinality(Below(g[h[x]], g)) = Cardinality(Below(f[x], f))
    <3>1. IsFiniteSet(Below(f[x], f)) /\ Below(f[x], f) \subseteq S
      BY PartOfFinite DEF Below
    <3>2. \A t : t \in Below(g[h[x]], g) <=> \E y \in Below(f[x], f) : t = h[y]
      BY <2>3 DEF Below
    <3>3. \A y, z \in Below(f[x], f) : h[y] = h[z] => y = z
      BY <1>2, <3>1
    <3> QED BY <3>1, <3>2, <3>3, SameCount
  <2>6. Cardinality(UpTo(g[h[x]], g)) = Cardinality(UpTo(f[x], f))
    <3>1. IsFiniteSet(UpTo(f[x], f)) /\ UpTo(f[x], f) \subseteq S
      BY PartOfFinite DEF UpTo
    <3>2. \A y \in S : f[y] <= f[x] <=> g[h[y]] <= g[h[x]]
      <4> TAKE y \in S
      <4>1. f[x] \in Int /\ f[y] \in Int /\ g[h[x]] \in Int /\ g[h[y]] \in Int
        BY <2>3
      <4>2. f[x] < f[y] <=> g[h[x]] < g[h[y]]
        BY <2>3
      <4> QED BY <4>1, <4>2
    <3>3. \A t : t \in UpTo(g[h[x]], g) <=> \E y \in UpTo(f[x], f) : t = h[y]
      BY <2>3, <3>2 DEF UpTo
    <3>4. \A y, z \in UpTo(f[x], f) : h[y] = h[z] => y = z
      BY <1>2, <3>1
    <3> QED BY <3>1, <3>3, <3>4, SameCount
  <2>7. Nth(n, g) = g[h[x]]
    <3>1. h[x] \in T /\ n \in 1..Cardinality(T)
      BY <1>3, <2>3
    <3> QED BY <1>3, <2>4, <2>5, <2>6, <3>1, NthIs
  <2>8. InOrder(g)[n] = CHOOSE j \in T : g[j] = Nth(n, g)
    BY <1>3 DEF InOrder
  <2>9. \A j \in T : g[j] = Nth(n, g) => j = h[x]
    BY <1>1, <2>3, <2>7
  <2>10. h[x] \in T
    BY <2>3
  <2>11. InOrder(g)[n] = h[x]
    BY <2>7, <2>8, <2>9, <2>10
  <2> QED BY <2>3, <2>11 DEF x
<1> QED BY <1>3, <1>4
(* Sorting lists members of the family, as many as there are. *)
LEMMA InOrderLists ==
  ASSUME NEW D, IsFiniteSet(D), NEW f \in [D -> Int]
  PROVE  /\ InOrder(f) \in Seq(D) /\ Len(InOrder(f)) = Cardinality(D)
         /\ Cardinality(D) \in Nat /\ DOMAIN InOrder(f) = 1..Cardinality(D)
         /\ \A n \in 1..Cardinality(D) :
              InOrder(f)[n] \in D /\ f[InOrder(f)[n]] = Nth(n, f)
<1>1. Cardinality(D) \in Nat
  BY FS_CardinalityType
<1>2. ASSUME NEW n \in 1..Cardinality(D)
      PROVE  InOrder(f)[n] \in D /\ f[InOrder(f)[n]] = Nth(n, f)
  <2> DEFINE x == InOrder(f)[n]
  <2>1. x = CHOOSE i \in D : f[i] = Nth(n, f)
    BY DEF InOrder
  <2>2. \E i \in D : f[i] = Nth(n, f)
    BY NthProperties
  <2> HIDE DEF x
  <2>3. x \in D /\ f[x] = Nth(n, f)
    BY <2>1, <2>2
  <2> QED BY <2>3 DEF x
<1>3. InOrder(f) = [n \in 1..Cardinality(D) |-> InOrder(f)[n]]
  BY DEF InOrder
<1>4. InOrder(f) \in [1..Cardinality(D) -> D]
  BY <1>2, <1>3
<1>5. InOrder(f) \in Seq(D) /\ Len(InOrder(f)) = Cardinality(D)
  <2> DEFINE n == Cardinality(D)
             s == InOrder(f)
  <2>1. n \in Nat /\ s \in [1..n -> D]
    BY <1>1, <1>4
  <2> HIDE DEF n, s
  <2>2. s \in Seq(D) /\ Len(s) = n
    BY <2>1
  <2> QED BY <2>2 DEF n, s
<1> QED BY <1>1, <1>2, <1>4, <1>5

(* Sorting lists every member of a family of distinct numbers once.        *)
LEMMA InOrderOnce ==
  ASSUME NEW D, IsFiniteSet(D), NEW f \in [D -> Int], \A i, j \in D : f[i] = f[j] => i = j
  PROVE  /\ \A i \in D : \E n \in 1..Cardinality(D) : InOrder(f)[n] = i
         /\ \A m, n \in 1..Cardinality(D) : InOrder(f)[m] = InOrder(f)[n] => m = n
         /\ \A n \in 1..Cardinality(D) : Cardinality(UpTo(f[InOrder(f)[n]], f)) = n
<1>1. Cardinality(D) \in Nat
  BY FS_CardinalityType
<1>2. \A n \in 1..Cardinality(D) : InOrder(f)[n] \in D /\ f[InOrder(f)[n]] = Nth(n, f)
  BY InOrderLists
<1>3. ASSUME NEW i \in D
      PROVE  /\ Cardinality(UpTo(f[i], f)) = Cardinality(Below(f[i], f)) + 1
             /\ Cardinality(Below(f[i], f)) \in Nat
             /\ Cardinality(Below(f[i], f)) + 1 \in 1..Cardinality(D)
  <2> DEFINE v == f[i]
             B == Below(v, f)
  <2>1. v \in Int
    OBVIOUS
  <2>2. UpTo(v, f) = B \cup {i} /\ i \notin B
    <3>1. \A j \in D : f[j] <= v <=> f[j] < v \/ j = i
      OBVIOUS
    <3> QED BY <3>1 DEF UpTo, Below
  <2>3. IsFiniteSet(B) /\ Cardinality(B) \in Nat
    <3>1. B \in SUBSET D
      BY DEF Below
    <3> HIDE DEF B
    <3> QED BY <3>1, PartOfFinite
  <2>4. Cardinality(UpTo(v, f)) <= Cardinality(D)
    <3> HIDE DEF v
    <3> QED BY <2>1, Counted
  <2> HIDE DEF B, v
  <2>5. Cardinality(B \cup {i}) = Cardinality(B) + 1
    BY <2>2, <2>3, FS_AddElement
  <2>6. Cardinality(B) + 1 \in 1..Cardinality(D)
    BY <1>1, <2>2, <2>3, <2>4, <2>5
  <2> QED BY <2>2, <2>3, <2>5, <2>6 DEF B, v
<1>4. ASSUME NEW i \in D PROVE \E n \in 1..Cardinality(D) : InOrder(f)[n] = i
  <2> DEFINE n == Cardinality(Below(f[i], f)) + 1
  <2>1. /\ n \in 1..Cardinality(D)
        /\ Cardinality(Below(f[i], f)) < n /\ n <= Cardinality(UpTo(f[i], f))
    BY <1>3
  <2> HIDE DEF n
  <2>2. Nth(n, f) = f[i]
    BY <2>1, NthIs
  <2>3. InOrder(f)[n] = i
    BY <1>2, <2>1, <2>2
  <2> QED BY <2>1, <2>3
<1>5. ASSUME NEW n \in 1..Cardinality(D)
      PROVE  /\ n = Cardinality(Below(f[InOrder(f)[n]], f)) + 1
             /\ n = Cardinality(UpTo(f[InOrder(f)[n]], f))
  <2> DEFINE x == InOrder(f)[n]
  <2>1. x \in D /\ f[x] = Nth(n, f)
    BY <1>2
  <2> HIDE DEF x
  <2>2. Cardinality(Below(f[x], f)) < n /\ n <= Cardinality(UpTo(f[x], f))
    BY <2>1, NthProperties
  <2>3. /\ Cardinality(UpTo(f[x], f)) = Cardinality(Below(f[x], f)) + 1
        /\ Cardinality(Below(f[x], f)) \in Nat
    BY <1>3, <2>1
  <2> DEFINE b == Cardinality(Below(f[x], f))
  <2> HIDE DEF b
  <2>4. n = b + 1
    BY <2>2, <2>3 DEF b
  <2> QED BY <2>3, <2>4 DEF b, x
<1> QED BY <1>4, <1>5

(* Picking keeps the order of the places. *)
LEMMA PickedInOrder ==
  ASSUME NEW s, NEW places \in SUBSET Int, IsFiniteSet(places)
  PROVE  Picked(s, places) =
           [n \in 1..Cardinality(places) |-> s[InOrder([i \in places |-> i])[n]]]
<1> DEFINE f == [i \in places |-> i]
           P(i) == {j \in places : j <= i}
<1>1. f \in [places -> Int] /\ \A i, j \in places : f[i] = f[j] => i = j
  OBVIOUS
<1>2. \A i \in places : P(i) = UpTo(f[i], f) /\ f[i] = i
  BY DEF UpTo
<1> HIDE DEF f, P
<1>3. ASSUME NEW n \in 1..Cardinality(places)
      PROVE  (CHOOSE i \in places : Cardinality(P(i)) = n) = InOrder(f)[n]
  <2>1. /\ \A i \in places : \E m \in 1..Cardinality(places) : InOrder(f)[m] = i
        /\ \A m \in 1..Cardinality(places) : Cardinality(UpTo(f[InOrder(f)[m]], f)) = m
    BY <1>1, InOrderOnce
  <2>2. \A m \in 1..Cardinality(places) : InOrder(f)[m] \in places
    BY <1>1, InOrderLists
  <2>3. \A m \in 1..Cardinality(places) : Cardinality(P(InOrder(f)[m])) = m
    BY <1>2, <2>1, <2>2
  <2>4. \A i \in places : Cardinality(P(i)) = n => i = InOrder(f)[n]
    BY <2>1, <2>3
  <2> QED BY <2>2, <2>3, <2>4
<1>4. \A n \in 1..Cardinality(places) :
        s[CHOOSE i \in places : Cardinality(P(i)) = n] = s[InOrder(f)[n]]
  BY <1>3
<1> QED BY <1>4 DEF Picked, f, P

(* What is picked from a sequence stands at the places named. *)
LEMMA PickedLists ==
  ASSUME NEW R, NEW s \in Seq(R), NEW places \in SUBSET DOMAIN s
  PROVE  /\ Picked(s, places) \in Seq(R)
         /\ DOMAIN Picked(s, places) = 1..Cardinality(places)
         /\ \A n \in DOMAIN Picked(s, places) :
              \E i \in places : Picked(s, places)[n] = s[i]
<1> DEFINE f == [i \in places |-> i]
<1>1. Len(s) \in Nat /\ DOMAIN s = 1..Len(s) /\ \A i \in DOMAIN s : s[i] \in R
  OBVIOUS
<1>2. IsFiniteSet(places)
  <2>1. IsFiniteSet(1..Len(s))
    BY <1>1, FS_Interval
  <2> QED BY <1>1, <2>1, PartOfFinite
<1>3. f \in [places -> Int]
  BY <1>1
<1> HIDE DEF f
<1>4. /\ Cardinality(places) \in Nat /\ DOMAIN InOrder(f) = 1..Cardinality(places)
      /\ \A n \in 1..Cardinality(places) : InOrder(f)[n] \in places
  BY <1>2, <1>3, InOrderLists
<1>5. Picked(s, places) = [n \in 1..Cardinality(places) |-> s[InOrder(f)[n]]]
  <2>1. places \in SUBSET Int
    BY <1>1
  <2> QED BY <1>2, <2>1, PickedInOrder DEF f
<1>6. Picked(s, places) \in [1..Cardinality(places) -> R]
  BY <1>1, <1>4, <1>5
<1>7. Picked(s, places) \in Seq(R)
  BY <1>4, <1>6
<1> QED BY <1>4, <1>5, <1>6, <1>7

(* What is picked from a sequence without repetition has none either, and  *)
(* is everything at the places named.                                      *)
LEMMA PickedOnce ==
  ASSUME NEW R, NEW s \in Seq(R), NEW places \in SUBSET DOMAIN s,
         \A i, j \in DOMAIN s : s[i] = s[j] => i = j
  PROVE  /\ \A i \in places : \E n \in DOMAIN Picked(s, places) : Picked(s, places)[n] = s[i]
         /\ \A m, n \in DOMAIN Picked(s, places) :
              Picked(s, places)[m] = Picked(s, places)[n] => m = n
<1> DEFINE f == [i \in places |-> i]
           N == Cardinality(places)
<1>1. DOMAIN s \subseteq Int /\ IsFiniteSet(DOMAIN s)
  <2>1. Len(s) \in Nat /\ DOMAIN s = 1..Len(s)
    OBVIOUS
  <2> QED BY <2>1, FS_Interval
<1>2. IsFiniteSet(places)
  BY <1>1, PartOfFinite
<1>3. f \in [places -> Int] /\ \A i, j \in places : f[i] = f[j] => i = j
  BY <1>1
<1> HIDE DEF f
<1>4. \A n \in 1..N : InOrder(f)[n] \in places
  BY <1>2, <1>3, InOrderLists
<1>5. /\ \A i \in places : \E n \in 1..N : InOrder(f)[n] = i
      /\ \A m, n \in 1..N : InOrder(f)[m] = InOrder(f)[n] => m = n
  BY <1>2, <1>3, InOrderOnce
<1>6. DOMAIN Picked(s, places) = 1..N
  BY PickedLists
<1>7. \A n \in 1..N : Picked(s, places)[n] = s[InOrder(f)[n]]
  <2>1. places \in SUBSET Int
    BY <1>1
  <2>2. Picked(s, places) = [n \in 1..N |-> s[InOrder(f)[n]]]
    BY <1>2, <2>1, PickedInOrder DEF f
  <2> QED BY <2>2
<1> HIDE DEF N
<1> QED BY <1>4, <1>5, <1>6, <1>7
=============================================================================

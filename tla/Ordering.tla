------------------------------- MODULE Ordering -------------------------------
(***************************************************************************)
(* What a sort puts where: sort.Slice over dates and gaps, ORDER BY in the *)
(* queries.  Numbers come as a family f, a function into Int.              *)
(***************************************************************************)
EXTENDS Integers, FiniteSets

(* The members of a family that are below v, or not above it. *)
Below(v, f) == {i \in DOMAIN f : f[i] < v}
UpTo(v, f) == {i \in DOMAIN f : f[i] <= v}

(* The n-th number in order of size, which is where a sort puts it. *)
Nth(n, f) ==
  CHOOSE v \in {f[i] : i \in DOMAIN f} :
    Cardinality(Below(v, f)) < n /\ n <= Cardinality(UpTo(v, f))

(* The members themselves, sorted by their numbers. *)
InOrder(f) ==
  [n \in 1..Cardinality(DOMAIN f) |->
     CHOOSE i \in DOMAIN f : f[i] = Nth(n, f)]

(* The part of a sequence that stands at some of its places. *)
Picked(s, places) ==
  [n \in 1..Cardinality(places) |->
     s[CHOOSE i \in places : Cardinality({j \in places : j <= i}) = n]]
=============================================================================

----------------------------- MODULE NaturalFacts -----------------------------
(***************************************************************************)
(* Facts about sets of natural numbers that the proofs share.  They stand  *)
(* in for induction.                                                       *)
(***************************************************************************)
EXTENDS Integers, FiniteSetsExt, WellFoundedInduction, TLAPS

\* Every non-empty set of natural numbers has a least element.
LEMMA LeastNatural ==
  ASSUME NEW T, T \subseteq Nat, T # {}
  PROVE  \E n \in T : \A k \in T : n <= k
<1>1. PICK n \in T : \A k \in T : ~ (<<k, n>> \in OpToRel(<, Nat))
  BY NatLessThanWellFounded, WFMin
<1>2. \A k \in T : <<k, n>> \in OpToRel(<, Nat) <=> k < n
  <2>1. \A x, y \in Nat : <<x, y>> \in OpToRel(<, Nat) <=> x < y
    BY DEF OpToRel
  <2> QED BY <2>1
<1>3. \A k \in T : ~ (k < n)
  BY <1>1, <1>2
<1>4. \A k \in T : n <= k
  BY <1>3, SMT
<1> QED BY <1>4

\* The minimum of a non-empty set of natural numbers belongs to it.
LEMMA MinIsMember ==
  ASSUME NEW S, S \subseteq Nat, S # {}
  PROVE  Min(S) \in S
<1>1. \E x \in S : \A y \in S : x <= y
  BY LeastNatural
<1> QED BY <1>1 DEF Min

\* Every non-empty set of natural numbers with an upper bound has a greatest element.
LEMMA GreatestNatural ==
  ASSUME NEW T, T \subseteq Nat, T # {}, NEW m \in Nat, \A x \in T : x <= m
  PROVE  \E x \in T : \A y \in T : y <= x
<1> DEFINE below == {m - x : x \in T}
<1>1. below \subseteq Nat /\ below # {}
  <2>1. \A x \in T : m - x \in Nat
    OBVIOUS
  <2> QED BY <2>1, Zenon
<1>2. PICK n \in below : \A k \in below : n <= k
  <2> HIDE DEF below
  <2> QED BY <1>1, LeastNatural
<1>3. PICK x \in T : n = m - x
  BY <1>2
<1>4. \A y \in T : m - x <= m - y
  BY <1>2, <1>3
<1>5. \A y \in T : y <= x
  BY <1>4
<1> QED BY <1>3, <1>5

\* Of distances with a sign there is always a best one: the least that is not
\* negative, or else the greatest.
LEMMA ClosestExists ==
  ASSUME NEW M, M # {}, NEW d \in [M -> Int]
  PROVE  \E e \in M : \A o \in M :
           ~ \/ d[o] >= 0 /\ (d[e] < 0 \/ d[o] < d[e])
             \/ d[o] < 0 /\ d[e] < 0 /\ d[o] > d[e]
<1> DEFINE front == {d[e] : e \in {x \in M : d[x] >= 0}}
           back == {- d[e] : e \in M}
<1>1. CASE \E e \in M : d[e] >= 0
  <2>1. front \subseteq Nat /\ front # {}
    BY <1>1
  <2>2. PICK n \in front : \A k \in front : n <= k
    <3> HIDE DEF front
    <3> QED BY <2>1, LeastNatural
  <2>3. PICK e \in M : d[e] >= 0 /\ n = d[e]
    BY <2>2
  <2>4. \A o \in M : d[o] >= 0 => d[e] <= d[o]
    BY <2>2, <2>3
  <2> QED BY <2>3, <2>4
<1>2. CASE \A e \in M : d[e] < 0
  <2>1. back \subseteq Nat /\ back # {}
    BY <1>2
  <2>2. PICK n \in back : \A k \in back : n <= k
    <3> HIDE DEF back
    <3> QED BY <2>1, LeastNatural
  <2>3. PICK e \in M : n = - d[e]
    BY <2>2
  <2>4. \A o \in M : - d[e] <= - d[o]
    BY <2>2, <2>3
  <2> QED BY <1>2, <2>4
<1> QED BY <1>1, <1>2
=============================================================================

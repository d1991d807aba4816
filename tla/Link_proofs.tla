------------------------------ MODULE Link_proofs ------------------------------
(***************************************************************************)
(* Proofs about Link: what passes the relay in each direction arrives in   *)
(* order, each frame once, whatever is announced in between; what is       *)
(* announced takes effect before the frames sent after it; and the two     *)
(* sides of a handshake work with the same limits.                         *)
(***************************************************************************)
EXTENDS Link, NaturalFacts, SequenceTheorems, TLAPS

-----------------------------------------------------------------------------
(***************************************************************************)
(* Sequences, whatever is in them.                                         *)
(***************************************************************************)

IsSeq(q) == q \in Seq(Range(q))

LEMMA SeqIsSeq ==
  ASSUME NEW S, NEW q \in Seq(S)
  PROVE  IsSeq(q)
BY SeqOfRange DEF IsSeq

LEMMA Common ==
  ASSUME NEW p, NEW q, NEW r, IsSeq(p), IsSeq(q), IsSeq(r)
  PROVE  \E S : p \in Seq(S) /\ q \in Seq(S) /\ r \in Seq(S)
<1> DEFINE S == Range(p) \cup Range(q) \cup Range(r)
<1>1. p \in Seq(S)
  BY SeqMonotonic DEF IsSeq
<1>2. q \in Seq(S)
  BY SeqMonotonic DEF IsSeq
<1>3. r \in Seq(S)
  BY SeqMonotonic DEF IsSeq
<1> QED BY <1>1, <1>2, <1>3

LEMMA SmallSeqs ==
  /\ IsSeq(<<>>)
  /\ \A x : IsSeq(<<x>>) /\ Len(<<x>>) = 1 /\ <<x>>[1] = x
<1>1. <<>> \in Seq({})
  BY EmptySeq
<1>2. ASSUME NEW x PROVE <<x>> \in Seq({x})
  OBVIOUS
<1> QED BY <1>1, <1>2, SeqIsSeq

LEMMA Shape ==
  ASSUME NEW q, IsSeq(q)
  PROVE  /\ Len(q) \in Nat
         /\ DOMAIN q = 1..Len(q)
         /\ q = [i \in 1..Len(q) |-> q[i]]
         /\ q = <<>> <=> Len(q) = 0
<1>1. q \in Seq(Range(q))
  BY DEF IsSeq
<1>2. Len(q) \in Nat /\ q \in [1..Len(q) -> Range(q)] /\ DOMAIN q = 1..Len(q)
  BY <1>1, LenProperties
<1>3. q # <<>> => Len(q) \in Nat \ {0}
  BY <1>1, EmptySeq
<1>4. Len(<<>>) = 0
  BY EmptySeq
<1> QED BY <1>2, <1>3, <1>4

\* Two sequences with the same elements are the same.
LEMMA SameSeq ==
  ASSUME NEW p, NEW q, IsSeq(p), IsSeq(q), Len(p) = Len(q),
         \A i \in 1..Len(p) : p[i] = q[i]
  PROVE  p = q
<1>1. PICK S : p \in Seq(S) /\ q \in Seq(S)
  BY Common
<1> QED BY <1>1, SeqEqual

\* A function on 1..n is a sequence.
LEMMA FunctionIsSeq ==
  ASSUME NEW n \in Nat, NEW q, DOMAIN q = 1..n, q = [i \in 1..n |-> q[i]]
  PROVE  IsSeq(q) /\ Len(q) = n
<1>1. q \in [1..n -> Range(q)]
  BY DEF Range
<1>2. q \in Seq(Range(q))
  BY <1>1, SeqDef
<1>3. Len(q) = n
  BY <1>2, LenProperties
<1> QED BY <1>2, <1>3 DEF IsSeq

LEMMA Joined ==
  ASSUME NEW p, NEW q, IsSeq(p), IsSeq(q)
  PROVE  /\ IsSeq(p \o q)
         /\ Len(p \o q) = Len(p) + Len(q)
         /\ \A i \in 1..Len(p) : (p \o q)[i] = p[i]
         /\ \A i \in 1..Len(q) : (p \o q)[Len(p) + i] = q[i]
         /\ p \o <<>> = p /\ <<>> \o p = p
<1>1. PICK S : p \in Seq(S) /\ q \in Seq(S)
  BY Common
<1>2. /\ p \o q \in Seq(S)
      /\ Len(p \o q) = Len(p) + Len(q)
      /\ \A i \in 1 .. Len(p) + Len(q) :
            (p \o q)[i] = IF i <= Len(p) THEN p[i] ELSE q[i - Len(p)]
  BY <1>1, ConcatProperties
<1>3. IsSeq(p \o q)
  BY <1>2, SeqIsSeq
<1>4. Len(p) \in Nat /\ Len(q) \in Nat
  BY Shape
<1>5. \A i \in 1..Len(p) : (p \o q)[i] = p[i]
  BY <1>2, <1>4
<1>6. ASSUME NEW i \in 1..Len(q)
      PROVE  (p \o q)[Len(p) + i] = q[i]
  <2>1. Len(p) + i \in 1..Len(p) + Len(q) /\ ~ (Len(p) + i <= Len(p)) /\ (Len(p) + i) - Len(p) = i
    BY <1>4
  <2> QED BY <1>2, <2>1
<1>7. p \o <<>> = p /\ <<>> \o p = p
  BY <1>1, ConcatEmptySeq
<1> QED BY <1>2, <1>3, <1>5, <1>6, <1>7

LEMMA Associative ==
  ASSUME NEW p, NEW q, NEW r, IsSeq(p), IsSeq(q), IsSeq(r)
  PROVE  (p \o q) \o r = p \o (q \o r)
<1>1. PICK S : p \in Seq(S) /\ q \in Seq(S) /\ r \in Seq(S)
  BY Common
<1> QED BY <1>1, ConcatAssociative

LEMMA Appended ==
  ASSUME NEW q, NEW x, IsSeq(q)
  PROVE  /\ Append(q, x) = q \o <<x>>
         /\ IsSeq(Append(q, x))
         /\ Len(Append(q, x)) = Len(q) + 1
         /\ \A i \in 1..Len(q) : Append(q, x)[i] = q[i]
         /\ Append(q, x)[Len(q) + 1] = x
<1>1. PICK S : q \in Seq(S) /\ <<x>> \in Seq(S)
  BY Common, SmallSeqs
<1>2. <<x>>[1] \in S
  BY <1>1, SmallSeqs, ElementOfSeq
<1>3. x \in S
  BY <1>2, SmallSeqs
<1>4. Append(q, x) = q \o <<x>>
  BY <1>1, <1>3, AppendIsConcat
<1>5. /\ Append(q, x) \in Seq(S)
      /\ Len(Append(q, x)) = Len(q) + 1
      /\ \A i \in 1..Len(q) : Append(q, x)[i] = q[i]
      /\ Append(q, x)[Len(q) + 1] = x
  BY <1>1, <1>3, AppendProperties
<1> QED BY <1>4, <1>5, SeqIsSeq

\* The same, under a name.
Extends(a, q, x) ==
  /\ IsSeq(a) /\ Len(a) = Len(q) + 1
  /\ \A i \in 1..Len(q) : a[i] = q[i]
  /\ a[Len(q) + 1] = x

LEMMA AppendExtends ==
  ASSUME NEW q, NEW x, IsSeq(q)
  PROVE  Extends(Append(q, x), q, x)
<1>1. IsSeq(Append(q, x))
  BY Appended
<1>2. Len(Append(q, x)) = Len(q) + 1
  BY Appended
<1>3. \A i \in 1..Len(q) : Append(q, x)[i] = q[i]
  BY Appended
<1>4. Append(q, x)[Len(q) + 1] = x
  BY Appended
<1> QED BY <1>1, <1>2, <1>3, <1>4, Zenon DEF Extends

LEMMA AppendedToJoined ==
  ASSUME NEW p, NEW q, NEW x, IsSeq(p), IsSeq(q)
  PROVE  Append(p \o q, x) = p \o Append(q, x)
<1>1. IsSeq(<<x>>)
  BY SmallSeqs
<1>2. (p \o q) \o <<x>> = p \o (q \o <<x>>)
  BY <1>1, Associative
<1>3. IsSeq(p \o q)
  BY Joined
<1> QED BY <1>2, <1>3, Appended

LEMMA HeadAndTail ==
  ASSUME NEW q, IsSeq(q), q # <<>>
  PROVE  /\ q = <<Head(q)>> \o Tail(q)
         /\ IsSeq(Tail(q))
         /\ Len(Tail(q)) = Len(q) - 1
         /\ \A i \in 1..Len(Tail(q)) : Tail(q)[i] = q[i + 1]
         /\ Head(q) = q[1] /\ 1 \in 1..Len(q)
<1>1. q \in Seq(Range(q))
  BY DEF IsSeq
<1>2. /\ Head(q) \in Range(q)
      /\ Tail(q) \in Seq(Range(q))
      /\ Len(Tail(q)) = Len(q) - 1
      /\ \A i \in 1 .. Len(Tail(q)) : Tail(q)[i] = q[i + 1]
  BY <1>1, HeadTailProperties
<1>3. IsSeq(Tail(q)) /\ IsSeq(<<Head(q)>>)
  BY <1>2, SeqIsSeq, SmallSeqs
<1>4. Head(q) = q[1]
  OBVIOUS
<1>5. Len(q) \in Nat /\ Len(q) # 0
  BY Shape
<1>6. IsSeq(<<Head(q)>> \o Tail(q)) /\ Len(<<Head(q)>> \o Tail(q)) = Len(q)
  BY <1>2, <1>3, <1>5, Joined, SmallSeqs
<1>7. ASSUME NEW i \in 1..Len(q)
      PROVE  (<<Head(q)>> \o Tail(q))[i] = q[i]
  <2>1. CASE i = 1
    <3>1. (<<Head(q)>> \o Tail(q))[1] = <<Head(q)>>[1]
      BY <1>3, Joined, SmallSeqs
    <3> QED BY <2>1, <3>1, <1>4
  <2>2. CASE i # 1
    <3>1. i - 1 \in 1..Len(Tail(q)) /\ 1 + (i - 1) = i /\ (i - 1) + 1 = i
      BY <1>2, <1>5, <2>2
    <3>2. (<<Head(q)>> \o Tail(q))[1 + (i - 1)] = Tail(q)[i - 1]
      BY <1>3, <3>1, Joined, SmallSeqs
    <3>3. Tail(q)[i - 1] = q[(i - 1) + 1]
      BY <1>2, <3>1
    <3> QED BY <3>1, <3>2, <3>3
  <2> QED BY <2>1, <2>2
<1>8. q = <<Head(q)>> \o Tail(q)
  BY <1>6, <1>7, SameSeq
<1> QED BY <1>2, <1>3, <1>4, <1>5, <1>8

\* The last element of a sequence that is not empty.
LEMMA EmptyOrAppended ==
  ASSUME NEW q, IsSeq(q), q # <<>>
  PROVE  \E p, x : IsSeq(p) /\ q = Append(p, x) /\ Len(q) = Len(p) + 1
<1>1. q \in Seq(Range(q))
  BY DEF IsSeq
<1>2. PICK p \in Seq(Range(q)), x \in Range(q) : q = Append(p, x)
  BY <1>1, SequenceEmptyOrAppend
<1>3. IsSeq(p)
  BY SeqIsSeq
<1> QED BY <1>2, <1>3, Appended

-----------------------------------------------------------------------------
(***************************************************************************)
(* The frames that are not of the relay.  Others is a recursive function   *)
(* of the length; it is unfolded here and nowhere else.                    *)
(***************************************************************************)

\* What Others keeps of the first n frames, given what it keeps of fewer.
KeptOf(k, s, n) ==
  IF n = 0 THEN <<>>
  ELSE IF IsRelayFrame(s[n]) THEN k[n - 1]
  ELSE Append(k[n - 1], s[n])
Kept(k, s) == k = [n \in 0..Len(s) |-> KeptOf(k, s, n)]

\* There is such a function up to each length.
LEMMA KeptUpTo ==
  ASSUME NEW s, NEW m \in Nat
  PROVE  \E k : k = [n \in 0..m |-> KeptOf(k, s, n)]
<1> DEFINE Bad == {n \in Nat : ~ \E k : k = [i \in 0..n |-> KeptOf(k, s, i)]}
<1> SUFFICES ASSUME Bad # {} PROVE FALSE
  OBVIOUS
<1>1. PICK n \in Bad : \A j \in Bad : n <= j
  <2>1. Bad \subseteq Nat
    OBVIOUS
  <2> HIDE DEF Bad
  <2> QED BY <2>1, LeastNatural
<1>2. n # 0
  <2>1. SUFFICES ASSUME n = 0 PROVE FALSE
    OBVIOUS
  <2> DEFINE k == [i \in 0..0 |-> <<>>]
  <2>2. k = [i \in 0..0 |-> KeptOf(k, s, i)]
    <3>1. \A i \in 0..0 : KeptOf(k, s, i) = <<>>
      BY DEF KeptOf
    <3> QED BY <3>1
  <2> HIDE DEF k
  <2> QED BY <1>1, <2>1, <2>2
<1>3. n - 1 \in Nat /\ n - 1 \notin Bad
  <2>1. n \in Nat
    OBVIOUS
  <2>2. n - 1 \in Nat /\ ~ (n <= n - 1)
    BY <2>1, <1>2
  <2> HIDE DEF Bad
  <2> QED BY <1>1, <2>2
<1>4. PICK k : k = [i \in 0..(n - 1) |-> KeptOf(k, s, i)]
  BY <1>3
<1> DEFINE l == [i \in 0..n |-> IF i = n THEN KeptOf(k, s, n) ELSE k[i]]
<1>5. ASSUME NEW i \in 0..n PROVE l[i] = KeptOf(l, s, i)
  <2>1. CASE i = 0
    <3>1. 0 \in 0..(n - 1) /\ 0 # n
      BY <1>2, <1>3
    <3>2. l[0] = k[0] /\ k[0] = KeptOf(k, s, 0)
      BY <1>4, <3>1
    <3> QED BY <2>1, <3>2 DEF KeptOf
  <2>2. CASE i # 0
    <3>1. i - 1 \in 0..(n - 1) /\ i - 1 # n /\ i - 1 \in 0..n
      BY <2>2, <1>3
    <3>2. l[i - 1] = k[i - 1]
      BY <3>1
    <3>3. l[i] = KeptOf(k, s, i)
      <4>1. CASE i = n
        BY <4>1
      <4>2. CASE i # n
        <5>1. i \in 0..(n - 1)
          BY <4>2, <1>3
        <5>2. k[i] = KeptOf(k, s, i)
          BY <5>1, <1>4
        <5> QED BY <4>2, <5>2
      <4> QED BY <4>1, <4>2
    <3> HIDE DEF l
    <3> QED BY <3>2, <3>3, <2>2 DEF KeptOf
  <2> QED BY <2>1, <2>2
<1>6. l = [i \in 0..n |-> l[i]]
  OBVIOUS
<1>7. l = [i \in 0..n |-> KeptOf(l, s, i)]
  <2> HIDE DEF l
  <2> QED BY <1>5, <1>6
<1> HIDE DEF l
<1> QED BY <1>1, <1>7

\* It agrees with the one of a sequence that goes on, and keeps a sequence.
LEMMA KeptAgree ==
  ASSUME NEW s, NEW t, NEW k, NEW l, IsSeq(s), IsSeq(t), Len(s) <= Len(t),
         \A i \in 1..Len(s) : t[i] = s[i],
         Kept(k, s), Kept(l, t)
  PROVE  \A n \in 0..Len(s) : k[n] = l[n] /\ IsSeq(k[n])
<1> DEFINE Bad == {n \in 0..Len(s) : ~ (k[n] = l[n] /\ IsSeq(k[n]))}
<1> SUFFICES ASSUME Bad # {} PROVE FALSE
  OBVIOUS
<1>1. Len(s) \in Nat /\ Len(t) \in Nat
  BY Shape
<1>2. PICK n \in Bad : \A j \in Bad : n <= j
  <2>1. Bad \subseteq Nat
    BY <1>1
  <2> HIDE DEF Bad
  <2> QED BY <2>1, LeastNatural
<1>3. n \in 0..Len(s) /\ n \in 0..Len(t) /\ n \in Nat
  BY <1>1
<1>4. k[n] = KeptOf(k, s, n)
  BY <1>3 DEF Kept
<1>5. l[n] = KeptOf(l, t, n)
  BY <1>3 DEF Kept
<1>6. n # 0
  <2>1. SUFFICES ASSUME n = 0 PROVE FALSE
    OBVIOUS
  <2>2. k[n] = <<>> /\ l[n] = <<>>
    BY <1>4, <1>5, <2>1 DEF KeptOf
  <2> QED BY <2>2, SmallSeqs
<1>7. k[n - 1] = l[n - 1] /\ IsSeq(k[n - 1])
  <2>1. n - 1 \in 0..Len(s) /\ ~ (n <= n - 1)
    BY <1>1, <1>3, <1>6
  <2>2. n - 1 \notin Bad
    <3> HIDE DEF Bad
    <3> QED BY <1>2, <2>1
  <2> QED BY <2>1, <2>2
<1>8. t[n] = s[n]
  <2>1. n \in 1..Len(s)
    BY <1>3, <1>6
  <2> QED BY <2>1
<1>9. k[n] = l[n]
  BY <1>4, <1>5, <1>6, <1>7, <1>8 DEF KeptOf
<1>10. IsSeq(k[n])
  <2>1. IsSeq(Append(k[n - 1], s[n]))
    BY <1>7, Appended
  <2>2. k[n] = k[n - 1] \/ k[n] = Append(k[n - 1], s[n])
    BY <1>4, <1>6 DEF KeptOf
  <2> QED BY <1>7, <2>1, <2>2
<1> QED BY <1>9, <1>10

LEMMA OthersIsKept ==
  ASSUME NEW s, IsSeq(s)
  PROVE  \E k : Kept(k, s) /\ Others(s) = k[Len(s)] /\ IsSeq(Others(s))
<1> DEFINE k == CHOOSE k : k = [n \in 0..Len(s) |->
                                  IF n = 0 THEN <<>>
                                  ELSE IF IsRelayFrame(s[n]) THEN k[n - 1]
                                  ELSE Append(k[n - 1], s[n])]
<1>1. Len(s) \in Nat
  BY Shape
<1>2. \E l : l = [n \in 0..Len(s) |-> KeptOf(l, s, n)]
  BY <1>1, KeptUpTo
<1>3. k = [n \in 0..Len(s) |-> KeptOf(k, s, n)]
  BY <1>2 DEF KeptOf
<1>4. Others(s) = k[Len(s)]
  BY DEF Others
<1> HIDE DEF k
<1>5. Kept(k, s)
  BY <1>3 DEF Kept
<1>6. IsSeq(k[Len(s)])
  BY <1>1, <1>5, KeptAgree
<1> QED BY <1>4, <1>5, <1>6

LEMMA OthersOfEmpty == Others(<<>>) = <<>>
<1>1. PICK k : Kept(k, <<>>) /\ Others(<<>>) = k[Len(<<>>)]
  BY OthersIsKept, SmallSeqs
<1>2. Len(<<>>) = 0 /\ 0 \in 0..Len(<<>>)
  BY EmptySeq
<1> QED BY <1>1, <1>2 DEF Kept, KeptOf

\* One frame after the other.
LEMMA OthersOfAppended ==
  ASSUME NEW s, NEW x, IsSeq(s)
  PROVE  Others(Append(s, x)) =
           IF IsRelayFrame(x) THEN Others(s) ELSE Append(Others(s), x)
<1>0. PICK t : t = Append(s, x)
  OBVIOUS
<1>1. /\ IsSeq(t) /\ Len(t) = Len(s) + 1 /\ t[Len(s) + 1] = x
      /\ \A i \in 1..Len(s) : t[i] = s[i]
  <2>1. Extends(Append(s, x), s, x)
    BY AppendExtends
  <2> QED BY <1>0, <2>1 DEF Extends
<1>2. PICK k : Kept(k, s) /\ Others(s) = k[Len(s)]
  BY OthersIsKept
<1>3. PICK l : Kept(l, t) /\ Others(t) = l[Len(t)]
  BY <1>1, OthersIsKept
<1>4. Len(s) \in Nat
  BY Shape
<1>5. k[Len(s)] = l[Len(s)]
  BY <1>1, <1>2, <1>3, <1>4, KeptAgree
<1>6. l[Len(s) + 1] = KeptOf(l, t, Len(s) + 1)
  BY <1>1, <1>3, <1>4 DEF Kept
<1>7. Len(s) + 1 # 0 /\ (Len(s) + 1) - 1 = Len(s)
  BY <1>4
<1>8. Others(t) = IF IsRelayFrame(x) THEN Others(s) ELSE Append(Others(s), x)
  BY <1>1, <1>2, <1>3, <1>5, <1>6, <1>7 DEF KeptOf
<1> QED BY <1>0, <1>8

LEMMA OthersIsSeq ==
  ASSUME NEW s, IsSeq(s)
  PROVE  IsSeq(Others(s))
BY OthersIsKept

LEMMA OthersOfOne ==
  ASSUME NEW x
  PROVE  Others(<<x>>) = IF IsRelayFrame(x) THEN <<>> ELSE <<x>>
<1>1. <<x>> = Append(<<>>, x)
  OBVIOUS
<1> QED BY <1>1, OthersOfAppended, OthersOfEmpty, SmallSeqs

\* One part after the other.
LEMMA OthersOfJoined ==
  ASSUME NEW p, NEW q, IsSeq(p), IsSeq(q)
  PROVE  Others(p \o q) = Others(p) \o Others(q)
<1> DEFINE Bad == {n \in Nat : \E t : IsSeq(t) /\ Len(t) = n
                                        /\ Others(p \o t) # Others(p) \o Others(t)}
<1> SUFFICES ASSUME Bad # {} PROVE FALSE
  BY Shape
<1>1. PICK n \in Bad : \A j \in Bad : n <= j
  <2>1. Bad \subseteq Nat
    OBVIOUS
  <2> HIDE DEF Bad
  <2> QED BY <2>1, LeastNatural
<1>2. PICK t : IsSeq(t) /\ Len(t) = n /\ Others(p \o t) # Others(p) \o Others(t)
  OBVIOUS
<1>3. IsSeq(Others(p))
  BY OthersIsSeq
<1>4. t # <<>>
  <2>1. p \o <<>> = p /\ Others(p) \o <<>> = Others(p)
    BY <1>3, Joined, SmallSeqs
  <2> QED BY <1>2, <2>1, OthersOfEmpty
<1>5. PICK u, x : IsSeq(u) /\ t = Append(u, x) /\ Len(t) = Len(u) + 1
  BY <1>2, <1>4, EmptyOrAppended
<1>6. Others(p \o u) = Others(p) \o Others(u)
  <2>1. Len(u) \in Nat /\ ~ (n <= Len(u))
    BY <1>2, <1>5, Shape
  <2>2. Len(u) \notin Bad
    <3> HIDE DEF Bad
    <3> QED BY <1>1, <2>1
  <2> QED BY <1>5, <2>1, <2>2
<1>7. p \o t = Append(p \o u, x)
  <2>1. IsSeq(u) /\ t = Append(u, x)
    BY <1>5
  <2>2. Append(p \o u, x) = p \o Append(u, x)
    BY ONLY IsSeq(p), <2>1, AppendedToJoined, SMTT(30)
  <2> QED BY ONLY <2>1, <2>2
<1>8. Others(p \o t) = IF IsRelayFrame(x) THEN Others(p \o u) ELSE Append(Others(p \o u), x)
  <2>1. PICK y : y = p \o u
    OBVIOUS
  <2>2. IsSeq(y)
    BY <1>5, <2>1, Joined
  <2>3. Others(Append(y, x)) = IF IsRelayFrame(x) THEN Others(y) ELSE Append(Others(y), x)
    BY <2>2, OthersOfAppended
  <2> QED BY <1>7, <2>1, <2>3
<1>9. Others(t) = IF IsRelayFrame(x) THEN Others(u) ELSE Append(Others(u), x)
  BY <1>5, OthersOfAppended
<1>10. Append(Others(p) \o Others(u), x) = Others(p) \o Append(Others(u), x)
  <2>1. IsSeq(Others(u))
    BY <1>5, OthersIsSeq
  <2>2. PICK a, b : a = Others(p) /\ b = Others(u)
    OBVIOUS
  <2>3. Append(a \o b, x) = a \o Append(b, x)
    <3> HIDE DEF Bad
    <3> QED BY <1>3, <2>1, <2>2, AppendedToJoined
  <2> QED BY <2>2, <2>3
<1> QED BY <1>2, <1>6, <1>8, <1>9, <1>10

-----------------------------------------------------------------------------
(***************************************************************************)
(* Frames on the wire.  What is written loses its empty fields, what is    *)
(* read the fields that the decoder does not look at; the rest stays.      *)
(***************************************************************************)

\* A frame has a type; the type is always written and read.
IsFrame(f) == "type" \in DOMAIN f

EncodedFields(f) == {k \in DOMAIN f : k \notin OmittedWhenEmpty \/ ~ IsEmptyValue(f, k)}

LEMMA Encoded ==
  ASSUME NEW f
  PROVE  /\ DOMAIN EncodeFrame(f) = EncodedFields(f)
         /\ \A k \in EncodedFields(f) : EncodeFrame(f)[k] = f[k]
         /\ EncodeFrame(f) = [k \in EncodedFields(f) |-> EncodeFrame(f)[k]]
BY DEF EncodeFrame, EncodedFields

\* A value is written or not, whatever else is in the frame.
LEMMA SameIsEmpty ==
  ASSUME NEW f, NEW g, NEW k, f[k] = g[k], DOMAIN f[k] = DOMAIN g[k]
  PROVE  IsEmptyValue(f, k) <=> IsEmptyValue(g, k)
<1>1. CASE k = "eof"
  BY <1>1 DEF IsEmptyValue
<1>2. CASE k = "meta"
  BY <1>2 DEF IsEmptyValue
<1>3. CASE k # "eof" /\ k # "meta"
  BY <1>3 DEF IsEmptyValue
<1> QED BY <1>1, <1>2, <1>3

LEMMA EncodedTwice ==
  ASSUME NEW f
  PROVE  EncodeFrame(EncodeFrame(f)) = EncodeFrame(f)
<1> DEFINE e == EncodeFrame(f)
<1>1. /\ DOMAIN e = EncodedFields(f)
      /\ \A k \in EncodedFields(f) : e[k] = f[k]
      /\ e = [k \in EncodedFields(f) |-> e[k]]
  BY Encoded
<1>2. /\ DOMAIN EncodeFrame(e) = EncodedFields(e)
      /\ \A k \in EncodedFields(e) : EncodeFrame(e)[k] = e[k]
      /\ EncodeFrame(e) = [k \in EncodedFields(e) |-> EncodeFrame(e)[k]]
  BY Encoded
<1> HIDE DEF e
<1>3. \A k \in DOMAIN e : IsEmptyValue(e, k) <=> IsEmptyValue(f, k)
  BY <1>1, SameIsEmpty
<1>4. EncodedFields(e) = EncodedFields(f)
  BY <1>1, <1>3 DEF EncodedFields
<1>5. EncodeFrame(e) = e
  BY <1>1, <1>2, <1>4
<1> QED BY <1>5 DEF e

ReadFields(f) == EncodedFields(f) \cap DecodedFields

LEMMA Travelled ==
  ASSUME NEW f
  PROVE  /\ DOMAIN OverTheWire(f) = ReadFields(f)
         /\ \A k \in ReadFields(f) : OverTheWire(f)[k] = f[k]
         /\ OverTheWire(f) = [k \in ReadFields(f) |-> OverTheWire(f)[k]]
<1>1. /\ DOMAIN EncodeFrame(f) = EncodedFields(f)
      /\ \A k \in EncodedFields(f) : EncodeFrame(f)[k] = f[k]
  BY Encoded
<1> QED BY <1>1 DEF OverTheWire, DecodeFrame, ReadFields

\* A frame that has been over the wire gets over it unchanged.
LEMMA TravelledTwice ==
  ASSUME NEW f
  PROVE  /\ OverTheWire(OverTheWire(f)) = OverTheWire(f)
         /\ OverTheWire(EncodeFrame(f)) = OverTheWire(f)
<1> DEFINE g == OverTheWire(f)
<1>1. /\ DOMAIN g = ReadFields(f)
      /\ \A k \in ReadFields(f) : g[k] = f[k]
      /\ g = [k \in ReadFields(f) |-> g[k]]
  BY Travelled
<1>2. /\ DOMAIN OverTheWire(g) = ReadFields(g)
      /\ \A k \in ReadFields(g) : OverTheWire(g)[k] = g[k]
      /\ OverTheWire(g) = [k \in ReadFields(g) |-> OverTheWire(g)[k]]
  BY Travelled
<1>3. OverTheWire(EncodeFrame(f)) = OverTheWire(f)
  BY EncodedTwice DEF OverTheWire
<1> HIDE DEF g
<1>4. \A k \in DOMAIN g : IsEmptyValue(g, k) <=> IsEmptyValue(f, k)
  BY <1>1, SameIsEmpty
<1>5. ReadFields(g) = ReadFields(f)
  BY <1>1, <1>4 DEF ReadFields, EncodedFields
<1>6. OverTheWire(g) = g
  BY <1>1, <1>2, <1>5
<1> QED BY <1>3, <1>6 DEF g

LEMMA TypeTravels ==
  ASSUME NEW f, IsFrame(f)
  PROVE  /\ IsFrame(EncodeFrame(f)) /\ EncodeFrame(f).type = f.type
         /\ IsFrame(OverTheWire(f)) /\ OverTheWire(f).type = f.type
         /\ IsRelayFrame(OverTheWire(f)) <=> IsRelayFrame(f)
         /\ IsRelayFrame(EncodeFrame(f)) <=> IsRelayFrame(f)
<1>1. "type" \in EncodedFields(f) /\ "type" \in ReadFields(f)
  BY DEF IsFrame, EncodedFields, ReadFields, OmittedWhenEmpty, DecodedFields
<1>2. EncodeFrame(f).type = f.type /\ IsFrame(EncodeFrame(f))
  BY <1>1, Encoded DEF IsFrame
<1>3. OverTheWire(f).type = f.type /\ IsFrame(OverTheWire(f))
  BY <1>1, Travelled DEF IsFrame
<1> QED BY <1>2, <1>3 DEF IsRelayFrame

LEMMA WiredIsSeq ==
  ASSUME NEW q, IsSeq(q)
  PROVE  /\ IsSeq(Wired(q)) /\ Len(Wired(q)) = Len(q)
         /\ \A i \in 1..Len(q) : Wired(q)[i] = OverTheWire(q[i])
<1>1. Len(q) \in Nat /\ DOMAIN q = 1..Len(q)
  BY Shape
<1>2. /\ DOMAIN Wired(q) = 1..Len(q)
      /\ Wired(q) = [i \in 1..Len(q) |-> Wired(q)[i]]
      /\ \A i \in 1..Len(q) : Wired(q)[i] = OverTheWire(q[i])
  BY <1>1 DEF Wired
<1> QED BY <1>1, <1>2, FunctionIsSeq

LEMMA WiredOfJoined ==
  ASSUME NEW p, NEW q, IsSeq(p), IsSeq(q)
  PROVE  Wired(p \o q) = Wired(p) \o Wired(q)
<1> DEFINE s == p \o q
           t == Wired(p) \o Wired(q)
<1>1. Len(p) \in Nat /\ Len(q) \in Nat
  BY Shape
<1>2. /\ IsSeq(s) /\ Len(s) = Len(p) + Len(q)
      /\ \A i \in 1..Len(p) : s[i] = p[i]
      /\ \A i \in 1..Len(q) : s[Len(p) + i] = q[i]
  BY Joined
<1>3. /\ IsSeq(Wired(p)) /\ Len(Wired(p)) = Len(p)
      /\ \A i \in 1..Len(p) : Wired(p)[i] = OverTheWire(p[i])
  BY WiredIsSeq
<1>4. /\ IsSeq(Wired(q)) /\ Len(Wired(q)) = Len(q)
      /\ \A i \in 1..Len(q) : Wired(q)[i] = OverTheWire(q[i])
  BY WiredIsSeq
<1>5. /\ IsSeq(t) /\ Len(t) = Len(p) + Len(q)
      /\ \A i \in 1..Len(p) : t[i] = OverTheWire(p[i])
      /\ \A i \in 1..Len(q) : t[Len(p) + i] = OverTheWire(q[i])
  BY <1>3, <1>4, Joined
<1> HIDE DEF s, t
<1>6. /\ IsSeq(Wired(s)) /\ Len(Wired(s)) = Len(s)
      /\ \A i \in 1..Len(s) : Wired(s)[i] = OverTheWire(s[i])
  BY <1>2, WiredIsSeq
<1>7. ASSUME NEW i \in 1..Len(s) PROVE Wired(s)[i] = t[i]
  <2>1. CASE i <= Len(p)
    <3>1. i \in 1..Len(p)
      BY <1>1, <1>2, <2>1
    <3> QED BY <3>1, <1>2, <1>5, <1>6
  <2>2. CASE ~ (i <= Len(p))
    <3>1. i - Len(p) \in 1..Len(q) /\ i = Len(p) + (i - Len(p))
      BY <1>1, <1>2, <2>2
    <3>2. s[i] = q[i - Len(p)] /\ t[i] = OverTheWire(q[i - Len(p)])
      BY <3>1, <1>2, <1>5
    <3> QED BY <3>2, <1>6
  <2> QED BY <2>1, <2>2
<1>8. Wired(s) = t
  BY <1>2, <1>5, <1>6, <1>7, SameSeq
<1> QED BY <1>8 DEF s, t

LEMMA WiredOfSmall ==
  /\ Wired(<<>>) = <<>>
  /\ \A x : Wired(<<x>>) = <<OverTheWire(x)>>
<1>1. Wired(<<>>) = <<>>
  BY WiredIsSeq, SmallSeqs, Shape, EmptySeq
<1>2. ASSUME NEW x PROVE Wired(<<x>>) = <<OverTheWire(x)>>
  <2>1. IsSeq(<<x>>) /\ Len(<<x>>) = 1 /\ <<x>>[1] = x
    BY SmallSeqs
  <2>2. IsSeq(<<OverTheWire(x)>>) /\ Len(<<OverTheWire(x)>>) = 1 /\ <<OverTheWire(x)>>[1] = OverTheWire(x)
    BY SmallSeqs
  <2>3. IsSeq(Wired(<<x>>)) /\ Len(Wired(<<x>>)) = 1 /\ Wired(<<x>>)[1] = OverTheWire(x)
    BY <2>1, WiredIsSeq
  <2>4. \A i \in 1..1 : Wired(<<x>>)[i] = <<OverTheWire(x)>>[i]
    BY <2>2, <2>3
  <2> QED BY <2>2, <2>3, <2>4, SameSeq
<1> QED BY <1>1, <1>2

FrameSeq(q) == IsSeq(q) /\ \A i \in 1..Len(q) : IsFrame(q[i])

LEMMA SmallFrameSeqs ==
  /\ FrameSeq(<<>>)
  /\ \A x : IsFrame(x) => FrameSeq(<<x>>)
<1>1. FrameSeq(<<>>)
  BY SmallSeqs, EmptySeq DEF FrameSeq
<1>2. ASSUME NEW x, IsFrame(x) PROVE FrameSeq(<<x>>)
  <2>1. IsSeq(<<x>>) /\ Len(<<x>>) = 1 /\ <<x>>[1] = x
    BY SmallSeqs
  <2>2. \A i \in 1..1 : i = 1
    OBVIOUS
  <2> QED BY <1>2, <2>1, <2>2 DEF FrameSeq
<1> QED BY <1>1, <1>2

LEMMA FramesAppended ==
  ASSUME NEW q, NEW x
  PROVE  FrameSeq(q) /\ IsFrame(x) <=> IsSeq(q) /\ FrameSeq(Append(q, x))
<1>1. ASSUME IsSeq(q)
      PROVE  /\ Len(q) \in Nat /\ IsSeq(Append(q, x)) /\ Len(Append(q, x)) = Len(q) + 1
             /\ \A i \in 1..Len(q) : Append(q, x)[i] = q[i]
             /\ Append(q, x)[Len(q) + 1] = x
  <2>1. Len(q) \in Nat
    BY <1>1, Shape
  <2>2. /\ IsSeq(Append(q, x)) /\ Len(Append(q, x)) = Len(q) + 1
        /\ \A i \in 1..Len(q) : Append(q, x)[i] = q[i]
        /\ Append(q, x)[Len(q) + 1] = x
    BY <1>1, Appended, ZenonT(30)
  <2> QED BY <2>1, <2>2
<1>2. ASSUME FrameSeq(q), IsFrame(x) PROVE FrameSeq(Append(q, x))
  <2>1. IsSeq(q) /\ \A i \in 1..Len(q) : IsFrame(q[i])
    BY <1>2 DEF FrameSeq
  <2>2. ASSUME NEW i \in 1..Len(q) + 1 PROVE IsFrame(Append(q, x)[i])
    <3>1. i \in 1..Len(q) \/ i = Len(q) + 1
      BY <1>1, <2>1
    <3> QED BY <1>1, <1>2, <2>1, <3>1
  <2> QED BY <1>1, <2>1, <2>2 DEF FrameSeq
<1>3. ASSUME IsSeq(q), FrameSeq(Append(q, x)) PROVE FrameSeq(q) /\ IsFrame(x)
  <2>1. \A i \in 1..Len(q) + 1 : IsFrame(Append(q, x)[i])
    BY <1>1, <1>3 DEF FrameSeq
  <2>2. Len(q) + 1 \in 1..Len(q) + 1 /\ \A i \in 1..Len(q) : i \in 1..Len(q) + 1
    BY <1>1, <1>3
  <2> QED BY <1>1, <1>3, <2>1, <2>2 DEF FrameSeq
<1> QED BY <1>2, <1>3 DEF FrameSeq

LEMMA FramesRead ==
  ASSUME NEW q, FrameSeq(q), q # <<>>
  PROVE  IsFrame(Head(q)) /\ FrameSeq(Tail(q))
<1>1. IsSeq(q) /\ \A i \in 1..Len(q) : IsFrame(q[i])
  BY DEF FrameSeq
<1>2. /\ IsSeq(Tail(q)) /\ Len(Tail(q)) = Len(q) - 1
      /\ \A i \in 1..Len(Tail(q)) : Tail(q)[i] = q[i + 1]
      /\ Head(q) = q[1] /\ 1 \in 1..Len(q)
  BY <1>1, HeadAndTail
<1>3. Len(q) \in Nat
  BY <1>1, Shape
<1>4. \A i \in 1..Len(Tail(q)) : i + 1 \in 1..Len(q)
  BY <1>2, <1>3
<1> QED BY <1>1, <1>2, <1>4 DEF FrameSeq

\* The frames of interest that a reader will see of what is in a queue.
Passing(q) == Others(Wired(q))

LEMMA PassingIsSeq ==
  ASSUME NEW q, IsSeq(q)
  PROVE  IsSeq(Passing(q))
BY WiredIsSeq, OthersIsSeq DEF Passing

LEMMA PassingOfJoined ==
  ASSUME NEW p, NEW q, IsSeq(p), IsSeq(q)
  PROVE  Passing(p \o q) = Passing(p) \o Passing(q)
<1>1. Wired(p \o q) = Wired(p) \o Wired(q)
  BY WiredOfJoined
<1>2. IsSeq(Wired(p)) /\ IsSeq(Wired(q))
  BY WiredIsSeq
<1> QED BY <1>1, <1>2, OthersOfJoined DEF Passing

LEMMA PassingOfSmall ==
  /\ Passing(<<>>) = <<>>
  /\ \A x : IsFrame(x) =>
       Passing(<<x>>) = IF IsRelayFrame(x) THEN <<>> ELSE <<OverTheWire(x)>>
<1>1. Passing(<<>>) = <<>>
  BY WiredOfSmall, OthersOfEmpty DEF Passing
<1>2. ASSUME NEW x, IsFrame(x)
      PROVE  Passing(<<x>>) = IF IsRelayFrame(x) THEN <<>> ELSE <<OverTheWire(x)>>
  <2>1. IsRelayFrame(OverTheWire(x)) <=> IsRelayFrame(x)
    BY <1>2, TypeTravels
  <2> QED BY <2>1, WiredOfSmall, OthersOfOne DEF Passing
<1> QED BY <1>1, <1>2

LEMMA PassingOfAppended ==
  ASSUME NEW q, NEW x, IsSeq(q), IsFrame(x)
  PROVE  /\ Passing(Append(q, x)) = IF IsRelayFrame(x) THEN Passing(q)
                                    ELSE Passing(q) \o <<OverTheWire(x)>>
         /\ Passing(Append(q, EncodeFrame(x))) = Passing(Append(q, x))
<1>0. ASSUME NEW y, IsFrame(y)
      PROVE  Passing(Append(q, y)) = IF IsRelayFrame(y) THEN Passing(q)
                                     ELSE Passing(q) \o <<OverTheWire(y)>>
  <2>1. IsSeq(<<y>>) /\ Append(q, y) = q \o <<y>>
    BY SmallSeqs, Appended
  <2>2. Passing(Append(q, y)) = Passing(q) \o Passing(<<y>>)
    BY <2>1, PassingOfJoined
  <2>3. Passing(q) \o <<>> = Passing(q)
    BY PassingIsSeq, Joined, SmallSeqs
  <2> QED BY <1>0, <2>2, <2>3, PassingOfSmall
<1>1. IsFrame(EncodeFrame(x)) /\ (IsRelayFrame(EncodeFrame(x)) <=> IsRelayFrame(x))
  BY TypeTravels
<1>2. OverTheWire(EncodeFrame(x)) = OverTheWire(x)
  BY TravelledTwice
<1> QED BY <1>0, <1>1, <1>2

LEMMA PassingOfRead ==
  ASSUME NEW q, FrameSeq(q), q # <<>>
  PROVE  Passing(q) = IF IsRelayFrame(Head(q)) THEN Passing(Tail(q))
                      ELSE <<OverTheWire(Head(q))>> \o Passing(Tail(q))
<1>1. IsSeq(q) /\ IsFrame(Head(q))
  BY FramesRead DEF FrameSeq
<1>2. q = <<Head(q)>> \o Tail(q) /\ IsSeq(Tail(q)) /\ IsSeq(<<Head(q)>>)
  BY <1>1, HeadAndTail, SmallSeqs
<1>3. PICK h, t : h = Head(q) /\ t = Tail(q)
  OBVIOUS
<1>4. Passing(<<h>> \o t) = Passing(<<h>>) \o Passing(t)
  BY <1>2, <1>3, PassingOfJoined
<1>5. <<>> \o Passing(t) = Passing(t)
  BY <1>2, <1>3, PassingIsSeq, Joined, SmallSeqs
<1> QED BY <1>1, <1>2, <1>3, <1>4, <1>5, PassingOfSmall

\* It does not matter whether the frames of the relay leave a queue before or after.
LEMMA OthersOfWired ==
  ASSUME NEW q, FrameSeq(q)
  PROVE  Wired(Others(q)) = Passing(q)
<1> DEFINE Bad == {n \in Nat : \E t : FrameSeq(t) /\ Len(t) = n /\ Wired(Others(t)) # Passing(t)}
<1> SUFFICES ASSUME Bad # {} PROVE FALSE
  BY Shape DEF FrameSeq
<1>1. PICK n \in Bad : \A j \in Bad : n <= j
  <2>1. Bad \subseteq Nat
    OBVIOUS
  <2> HIDE DEF Bad
  <2> QED BY <2>1, LeastNatural
<1>2. PICK t : FrameSeq(t) /\ Len(t) = n /\ Wired(Others(t)) # Passing(t)
  OBVIOUS
<1>3. t # <<>>
  BY <1>2, OthersOfEmpty, WiredOfSmall, PassingOfSmall
<1>4. PICK u, x : IsSeq(u) /\ t = Append(u, x) /\ Len(t) = Len(u) + 1
  BY <1>2, <1>3, EmptyOrAppended DEF FrameSeq
<1>5. FrameSeq(u) /\ IsFrame(x)
  BY <1>2, <1>4, FramesAppended
<1>6. Wired(Others(u)) = Passing(u)
  <2>1. Len(u) \in Nat /\ ~ (n <= Len(u))
    BY <1>2, <1>4, Shape
  <2>2. Len(u) \notin Bad
    <3> HIDE DEF Bad
    <3> QED BY <1>1, <2>1
  <2> QED BY <1>5, <2>1, <2>2
<1>7. Others(t) = IF IsRelayFrame(x) THEN Others(u) ELSE Append(Others(u), x)
  BY <1>4, OthersOfAppended
<1>8. Passing(t) = IF IsRelayFrame(x) THEN Passing(u) ELSE Passing(u) \o <<OverTheWire(x)>>
  BY <1>4, <1>5, PassingOfAppended
<1>9. PICK k : k = Others(u) /\ IsSeq(k)
  BY <1>4, OthersIsSeq
<1>10. Wired(Append(k, x)) = Wired(k) \o <<OverTheWire(x)>>
  <2>1. Append(k, x) = k \o <<x>> /\ IsSeq(<<x>>)
    BY <1>9, Appended, SmallSeqs
  <2>2. Wired(k \o <<x>>) = Wired(k) \o Wired(<<x>>)
    <3> HIDE DEF Bad
    <3> QED BY <1>9, <2>1, WiredOfJoined
  <2> QED BY <2>1, <2>2, WiredOfSmall
<1> QED BY <1>2, <1>6, <1>7, <1>8, <1>9, <1>10

-----------------------------------------------------------------------------
(***************************************************************************)
(* The inductive invariant.                                                *)
(***************************************************************************)

Limited == [DOMAIN DefaultLimits -> Nat \ {0}]

IsStream(s) ==
  /\ s = [q |-> s.q, closed |-> s.closed, tail |-> s.tail, gone |-> s.gone]
  /\ FrameSeq(s.q)
  /\ \A i \in 1..Len(s.q) : EncodeFrame(s.q[i]) = s.q[i]

IsPump(p) ==
  \/ p \in {Pump("idle"), Pump("reading"), Pump("ended")}
  \/ p = Writing(Head(p.held)) /\ IsFrame(Head(p.held))

\* What each variable may hold.
StreamsInv ==
  /\ IsStream(down) /\ IsStream(up) /\ IsStream(toLocal) /\ IsStream(fromLocal)
  /\ IsStream(toCartridge) /\ IsStream(toHost)

PumpInv ==
  /\ DOMAIN pump = Directions /\ pump = [d \in Directions |-> pump[d]]
  /\ \A d \in Directions : IsPump(pump[d])
  /\ run = "notify" => \A d \in Directions : pump[d] = Pump("idle")

EndsInv ==
  /\ FrameSeq(engineSent) /\ FrameSeq(hostSent)
  /\ IsSeq(hostGot) /\ IsSeq(engineGot)
  /\ answer = [state |-> answer.state, frames |-> answer.frames, streams |-> answer.streams]
  /\ FrameSeq(answer.frames)
  /\ master = [state |-> master.state, manifest |-> master.manifest, limits |-> master.limits]
  /\ setup \in Setups

\* The HELLO of each side on its way, and what the other side makes of it.
HostHello      == EncodeFrame(NewHello(own["host"]))
CartridgeHello == EncodeFrame(NewHelloWithManifest(own["cartridge"], CartridgeManifest))

HelloInv ==
  /\ own = [s \in Sides |-> IF s = "host" THEN setup.host ELSE setup.cartridge]
  /\ hello \in [Sides -> {"start", "waiting", "ready", "failed"}]
  /\ negotiated \in [Sides -> Limited]
  /\ \A i \in 1..Len(toCartridge.q) : toCartridge.q[i] = HostHello
  /\ hello["cartridge"] = "start" => toHost.q = <<>> /\ answer.state = "none"
  /\ hello["host"] = "start" => hello["cartridge"] # "ready" /\ toCartridge.q = <<>> /\ toHost.q = <<>>
  /\ hello["host"] = "waiting" =>
       /\ hello["cartridge"] = "ready" => toHost.q # <<>>
       /\ toHost.q # <<>> => Head(toHost.q) = CartridgeHello
       /\ answer.state = "none" => Len(toHost.q) <= 1
  /\ hello["cartridge"] = "ready" =>
       negotiated["cartridge"] = NegotiateLimits(Completed(own["cartridge"]), HelloLimits(DecodeFrame(HostHello)))
  /\ hello["host"] = "ready" =>
       /\ hello["cartridge"] # "start"
       /\ negotiated["host"] = NegotiateLimits(Completed(own["host"]), HelloLimits(DecodeFrame(CartridgeHello)))

AnswerInv ==
  answer.state = "none" => answer.frames = <<>> /\ (hello["host"] = "ready" => toHost.q = <<>>)

\* Until the engine sends something, only the relay does.
AllRelay(q) == \A i \in 1..Len(q) : IsRelayFrame(q[i])
Quiet ==
  /\ down.q = <<>> /\ pump["down"].held = <<>> /\ toLocal.q = <<>>
  /\ hostGot = <<>> /\ answer.state = "none"
  /\ AllRelay(up.q) /\ pump["up"].held = <<>> /\ AllRelay(fromLocal.q)

QuietInv ==
  /\ master.state = "connecting" => engineSent = <<>>
  /\ engineSent = <<>> => Quiet

\* Queues one behind the other, the one that was filled first in front.
Chain(p, q, r, s) == p \o (q \o (r \o s))

DownInv ==
  pump["down"].pc # "ended" /\ ~ toLocal.gone /\ ~ down.gone =>
    Chain(Frames(hostGot), Wired(toLocal.q), Wired(pump["down"].held), Passing(down.q))
      = Passing(engineSent)

UpInv ==
  /\ Others(Frames(engineGot)) = Frames(engineGot)
  /\ pump["up"].pc # "ended" /\ ~ up.gone /\ ~ fromLocal.gone =>
       Chain(Frames(engineGot), Passing(up.q), Passing(pump["up"].held), Passing(fromLocal.q))
         = Passing(hostSent)

IInv ==
  /\ StreamsInv /\ PumpInv /\ EndsInv /\ HelloInv /\ AnswerInv /\ QuietInv
  /\ DownInv /\ UpInv

-----------------------------------------------------------------------------
(***************************************************************************)
(* What the operations on a stream and on a pump do.                       *)
(***************************************************************************)

LEMMA StreamAtStart == IsStream(NewStream) /\ NewStream.q = <<>>
BY SmallFrameSeqs, EmptySeq DEF IsStream, NewStream

LEMMA StreamWritten ==
  ASSUME NEW s, NEW f, IsStream(s), IsFrame(f)
  PROVE  /\ IsStream(WriteFrame(s, f))
         /\ WriteFrame(s, f).q = Append(s.q, EncodeFrame(f))
         /\ WriteFrame(s, f).gone = s.gone
<1> DEFINE t == WriteFrame(s, f)
           e == EncodeFrame(f)
<1>1. s = [q |-> s.q, closed |-> s.closed, tail |-> s.tail, gone |-> s.gone]
  BY DEF IsStream
<1>2. t = [q |-> Append(s.q, e), closed |-> s.closed, tail |-> s.tail, gone |-> s.gone]
  BY <1>1 DEF WriteFrame
<1>3. t.q = Append(s.q, e) /\ t.gone = s.gone
      /\ t = [q |-> t.q, closed |-> t.closed, tail |-> t.tail, gone |-> t.gone]
  BY <1>2
<1>4. IsFrame(e) /\ EncodeFrame(e) = e
  BY TypeTravels, EncodedTwice
<1>5. FrameSeq(s.q) /\ IsSeq(s.q) /\ \A i \in 1..Len(s.q) : EncodeFrame(s.q[i]) = s.q[i]
  BY DEF IsStream, FrameSeq
<1> HIDE DEF t, e
<1>6. FrameSeq(t.q)
  BY <1>3, <1>4, <1>5, FramesAppended
<1>7. /\ Len(t.q) = Len(s.q) + 1 /\ Len(s.q) \in Nat
      /\ \A i \in 1..Len(s.q) : t.q[i] = s.q[i]
      /\ t.q[Len(s.q) + 1] = e
  BY <1>3, <1>5, Appended, Shape
<1>8. ASSUME NEW i \in 1..Len(t.q) PROVE EncodeFrame(t.q[i]) = t.q[i]
  <2>1. i \in 1..Len(s.q) \/ i = Len(s.q) + 1
    BY <1>7
  <2> QED BY <1>4, <1>5, <1>7, <2>1
<1>9. IsStream(t)
  BY <1>3, <1>6, <1>8 DEF IsStream
<1> QED BY <1>3, <1>9 DEF t, e

LEMMA StreamRead ==
  ASSUME NEW s, IsStream(s), s.q # <<>>
  PROVE  /\ IsStream(AfterRead(s))
         /\ AfterRead(s).q = Tail(s.q)
         /\ AfterRead(s).gone = s.gone
         /\ IsFrame(Head(s.q))
         /\ FrameRead(s) = OverTheWire(Head(s.q))
         /\ IsFrame(FrameRead(s))
         /\ FrameRead(s).type = Head(s.q).type
         /\ IsRelayFrame(FrameRead(s)) <=> IsRelayFrame(Head(s.q))
<1> DEFINE t == AfterRead(s)
           h == Head(s.q)
<1>1. s = [q |-> s.q, closed |-> s.closed, tail |-> s.tail, gone |-> s.gone]
  BY DEF IsStream
<1>2. t = [q |-> Tail(s.q), closed |-> s.closed, tail |-> s.tail, gone |-> s.gone]
  <2>1. PICK u : u = Tail(s.q)
    OBVIOUS
  <2>2. t = [s EXCEPT !.q = u]
    BY <2>1 DEF AfterRead
  <2> HIDE DEF t
  <2>3. t = [q |-> u, closed |-> s.closed, tail |-> s.tail, gone |-> s.gone]
    BY <1>1, <2>2
  <2> QED BY <2>1, <2>3
<1>3. t.q = Tail(s.q) /\ t.gone = s.gone
      /\ t = [q |-> t.q, closed |-> t.closed, tail |-> t.tail, gone |-> t.gone]
  BY <1>2
<1>4. FrameSeq(s.q) /\ IsSeq(s.q) /\ \A i \in 1..Len(s.q) : EncodeFrame(s.q[i]) = s.q[i]
  BY DEF IsStream, FrameSeq
<1>5. IsFrame(h) /\ FrameSeq(t.q)
  BY <1>3, <1>4, FramesRead
<1>6. /\ Len(t.q) = Len(s.q) - 1 /\ Len(s.q) \in Nat
      /\ \A i \in 1..Len(t.q) : t.q[i] = s.q[i + 1]
      /\ h = s.q[1] /\ 1 \in 1..Len(s.q)
  BY <1>3, <1>4, HeadAndTail, Shape
<1> HIDE DEF t, h
<1>7. ASSUME NEW i \in 1..Len(t.q) PROVE EncodeFrame(t.q[i]) = t.q[i]
  <2>1. i + 1 \in 1..Len(s.q)
    BY <1>6
  <2> QED BY <1>4, <1>6, <2>1
<1>8. IsStream(t)
  BY <1>3, <1>5, <1>7 DEF IsStream
<1>9. EncodeFrame(h) = h
  BY <1>4, <1>6
<1>10. FrameRead(s) = OverTheWire(h)
  BY <1>9 DEF FrameRead, OverTheWire, h
<1>11. IsFrame(OverTheWire(h)) /\ OverTheWire(h).type = h.type
       /\ (IsRelayFrame(OverTheWire(h)) <=> IsRelayFrame(h))
  BY <1>5, TypeTravels
<1> QED BY <1>3, <1>5, <1>8, <1>10, <1>11 DEF t, h

LEMMA StreamClosed ==
  ASSUME NEW s, NEW tail, IsStream(s)
  PROVE  /\ IsStream(Close(s, tail))
         /\ Close(s, tail).q = s.q /\ Close(s, tail).gone = s.gone
<1>1. PICK a, b, c, d : s = [q |-> a, closed |-> b, tail |-> c, gone |-> d]
  BY DEF IsStream
<1>2. PICK t : t = TRUE
  OBVIOUS
<1>3. PICK u : u = [s EXCEPT !.closed = t]
  OBVIOUS
<1>4. u = [q |-> a, closed |-> t, tail |-> c, gone |-> d]
  BY <1>1, <1>3
<1>5. PICK v : v = [u EXCEPT !.tail = tail]
  OBVIOUS
<1>6. v = [q |-> a, closed |-> t, tail |-> tail, gone |-> d]
  BY <1>4, <1>5
<1>7. Close(s, tail) = v
  <2>1. [s EXCEPT !.closed = t, !.tail = tail] = v
    BY <1>3, <1>5
  <2> QED BY <1>2, <2>1, Zenon DEF Close
<1>8. s.q = a /\ s.gone = d /\ v.q = a /\ v.closed = t /\ v.tail = tail /\ v.gone = d
  BY <1>1, <1>6
<1> QED BY <1>6, <1>7, <1>8 DEF IsStream

LEMMA StreamAbandoned ==
  ASSUME NEW s, IsStream(s)
  PROVE  IsStream(Abandon(s)) /\ Abandon(s).q = <<>> /\ Abandon(s).gone
<1>1. PICK a, b, c, d : s = [q |-> a, closed |-> b, tail |-> c, gone |-> d]
  BY DEF IsStream
<1>2. PICK t : t = TRUE
  OBVIOUS
<1>3. PICK u : u = [s EXCEPT !.gone = t]
  OBVIOUS
<1>4. u = [q |-> a, closed |-> b, tail |-> c, gone |-> t]
  BY <1>1, <1>3
<1>5. PICK v : v = [u EXCEPT !.q = <<>>]
  OBVIOUS
<1>6. v = [q |-> <<>>, closed |-> b, tail |-> c, gone |-> t]
  BY <1>4, <1>5
<1>7. Abandon(s) = v
  <2>1. [s EXCEPT !.gone = t, !.q = <<>>] = v
    BY <1>3, <1>5
  <2> QED BY <1>2, <2>1, Zenon DEF Abandon
<1>8. v.q = <<>> /\ v.closed = b /\ v.tail = c /\ v.gone = t
  BY <1>6
<1>9. IsStream(v)
  BY <1>6, <1>8, SmallFrameSeqs, EmptySeq DEF IsStream
<1> QED BY <1>2, <1>7, <1>8, <1>9

LEMMA SomethingRead ==
  ASSUME NEW s, NEW limits, ReadOutcome(s, limits) = "frame"
  PROVE  s.q # <<>>
BY DEF ReadOutcome

LEMMA NothingRead ==
  ASSUME NEW s, NEW limits, s.q = <<>>
  PROVE  ReadOutcome(s, limits) # "frame"
BY SomethingRead

LEMMA PumpCases ==
  ASSUME NEW p, IsPump(p)
  PROVE  /\ p.pc \in {"idle", "reading", "ended", "writing"}
         /\ p.pc = "writing" => p.held = <<Head(p.held)>> /\ IsFrame(Head(p.held))
         /\ p.pc # "writing" => p.held = <<>>
         /\ FrameSeq(p.held)
<1>1. CASE p \in {Pump("idle"), Pump("reading"), Pump("ended")}
  BY <1>1, SmallFrameSeqs DEF Pump
<1>2. CASE p = Writing(Head(p.held)) /\ IsFrame(Head(p.held))
  <2>1. p.pc = "writing" /\ p.held = <<Head(p.held)>>
    BY <1>2 DEF Writing
  <2> QED BY <1>2, <2>1, SmallFrameSeqs
<1> QED BY <1>1, <1>2 DEF IsPump

\* The pumps there are.
LEMMA SomePumps ==
  /\ \A pc \in {"idle", "reading", "ended"} :
       IsPump(Pump(pc)) /\ Pump(pc).pc = pc /\ Pump(pc).held = <<>>
  /\ \A f : IsFrame(f) => IsPump(Writing(f)) /\ Writing(f).pc = "writing" /\ Writing(f).held = <<f>>
<1>1. ASSUME NEW pc \in {"idle", "reading", "ended"}
      PROVE  IsPump(Pump(pc)) /\ Pump(pc).pc = pc /\ Pump(pc).held = <<>>
  BY DEF IsPump, Pump
<1>2. ASSUME NEW f, IsFrame(f)
      PROVE  IsPump(Writing(f)) /\ Writing(f).pc = "writing" /\ Writing(f).held = <<f>>
  <2>1. Writing(f).held = <<f>> /\ Head(<<f>>) = f
    BY DEF Writing
  <2> QED BY <1>2, <2>1 DEF IsPump, Writing
<1> QED BY <1>1, <1>2

-----------------------------------------------------------------------------
(***************************************************************************)
(* The limits.                                                             *)
(***************************************************************************)

LimitNames == {"max_frame", "max_chunk", "max_reorder_buffer"}

LEMMA LimitsAreLimited ==
  /\ DOMAIN DefaultLimits = LimitNames
  /\ DefaultLimits \in Limited
<1>1. DefaultMaxFrame \in Nat \ {0} /\ DefaultMaxChunk \in Nat \ {0} /\ DefaultMaxReorderBuffer \in Nat \ {0}
  BY WireAssumption
<1> QED BY <1>1 DEF DefaultLimits, Limits, LimitNames, Limited

\* Limits that a side may announce.
Announceable(l) == DOMAIN l \subseteq LimitNames /\ l \in [DOMAIN l -> Nat \ {0}]

LEMMA CompletedIsLimited ==
  ASSUME NEW l, Announceable(l)
  PROVE  Completed(l) \in Limited
<1>1. \A k \in LimitNames : Completed(l)[k] \in Nat \ {0}
  BY LimitsAreLimited DEF Completed, HasBothSizes, Announceable, Limited
<1> QED BY <1>1, LimitsAreLimited DEF Completed, Limited

LEMMA NegotiatedIsLimited ==
  ASSUME NEW a \in Limited, NEW b \in Limited
  PROVE  /\ NegotiateLimits(a, b) \in Limited
         /\ NegotiateLimits(a, b) = NegotiateLimits(b, a)
         /\ \A k \in LimitNames : NegotiateLimits(a, b)[k] <= a[k]
<1>1. \A k \in LimitNames : a[k] \in Nat \ {0} /\ b[k] \in Nat \ {0}
  BY LimitsAreLimited DEF Limited
<1>2. DOMAIN a = LimitNames /\ DOMAIN b = LimitNames
  BY LimitsAreLimited DEF Limited
<1>3. \A k \in LimitNames : Smaller(a[k], b[k]) \in Nat \ {0}
                            /\ Smaller(a[k], b[k]) = Smaller(b[k], a[k])
                            /\ Smaller(a[k], b[k]) <= a[k]
  BY <1>1 DEF Smaller
<1> QED BY <1>2, <1>3, LimitsAreLimited DEF NegotiateLimits, Limited

\* What is read from a map with the limits, and perhaps a manifest, is what it has.
LEMMA AnnouncedByMeta ==
  ASSUME NEW f, NEW l, Announceable(l),
         \A k \in LimitNames : MetaInt(f, k) = IF k \in DOMAIN l THEN l[k] ELSE 0
  PROVE  HelloLimits(f) = Completed(l)
<1>1. \A k \in DOMAIN l : l[k] \in Nat \ {0}
  BY DEF Announceable
<1>2. Announced(f) = [max_frame |-> MetaInt(f, "max_frame"), max_chunk |-> MetaInt(f, "max_chunk"),
                      max_reorder_buffer |-> MetaInt(f, "max_reorder_buffer")]
  BY DEF Announced, Limits
<1>3. /\ MetaInt(f, "max_frame") = IF "max_frame" \in DOMAIN l THEN l["max_frame"] ELSE 0
      /\ MetaInt(f, "max_chunk") = IF "max_chunk" \in DOMAIN l THEN l["max_chunk"] ELSE 0
      /\ MetaInt(f, "max_reorder_buffer") =
           IF "max_reorder_buffer" \in DOMAIN l THEN l["max_reorder_buffer"] ELSE 0
  BY DEF LimitNames
<1>4. DefaultLimits = [max_frame |-> DefaultMaxFrame, max_chunk |-> DefaultMaxChunk,
                       max_reorder_buffer |-> DefaultMaxReorderBuffer]
  BY DEF DefaultLimits, Limits
<1> DEFINE sizes == {"max_frame", "max_chunk"} \subseteq DOMAIN l
<1>5. CASE ~ sizes
  <2>1. Announced(f).max_frame = 0 \/ Announced(f).max_chunk = 0
    BY <1>2, <1>3, <1>5
  <2>2. HelloLimits(f) = DefaultLimits
    BY <2>1 DEF HelloLimits
  <2>3. Completed(l) = [k \in LimitNames |-> DefaultLimits[k]]
    BY <1>5, LimitsAreLimited DEF Completed, HasBothSizes
  <2> QED BY <1>4, <2>2, <2>3 DEF LimitNames
<1>6. CASE sizes
  <2>1. /\ MetaInt(f, "max_frame") = l["max_frame"] /\ l["max_frame"] # 0
        /\ MetaInt(f, "max_chunk") = l["max_chunk"] /\ l["max_chunk"] # 0
    BY <1>1, <1>3, <1>6
  <2>2. ~ (Announced(f).max_frame = 0 \/ Announced(f).max_chunk = 0)
    BY <1>2, <2>1
  <2>3. HelloLimits(f) = [Announced(f) EXCEPT !.max_reorder_buffer =
                            IF @ = 0 THEN DefaultMaxReorderBuffer ELSE @]
    BY <2>2 DEF HelloLimits
  <2>4. HelloLimits(f) = [max_frame |-> l["max_frame"], max_chunk |-> l["max_chunk"],
                          max_reorder_buffer |->
                             IF MetaInt(f, "max_reorder_buffer") = 0 THEN DefaultMaxReorderBuffer
                             ELSE MetaInt(f, "max_reorder_buffer")]
    BY <1>2, <2>1, <2>3
  <2>5. Completed(l) = [k \in LimitNames |-> IF k \in DOMAIN l THEN l[k] ELSE DefaultLimits[k]]
    BY <1>6, LimitsAreLimited DEF Completed, HasBothSizes
  <2>6. (IF MetaInt(f, "max_reorder_buffer") = 0 THEN DefaultMaxReorderBuffer
         ELSE MetaInt(f, "max_reorder_buffer"))
          = IF "max_reorder_buffer" \in DOMAIN l THEN l["max_reorder_buffer"]
            ELSE DefaultMaxReorderBuffer
    BY <1>1, <1>3
  <2> QED BY <1>4, <1>6, <2>4, <2>5, <2>6 DEF LimitNames
<1> QED BY <1>5, <1>6

\* A HELLO as it is read, with and without a manifest.
LEMMA HelloIsRead ==
  ASSUME NEW l, Announceable(l)
  PROVE  /\ HelloLimits(OverTheWire(NewHello(l))) = Completed(l)
         /\ HelloLimits(OverTheWire(NewHelloWithManifest(l, CartridgeManifest))) = Completed(l)
<1>1. ASSUME NEW m, NEW f, f = NewHello(m),
             \A k \in LimitNames : k \in DOMAIN m <=> k \in DOMAIN l,
             \A k \in LimitNames : k \in DOMAIN l => m[k] = l[k]
      PROVE  HelloLimits(OverTheWire(f)) = Completed(l)
  <2>1. "meta" \in DOMAIN f /\ f.meta = m
    BY <1>1 DEF NewHello, WithMeta, With, NewFrame
  <2>2. IsEmptyValue(f, "meta") <=> DOMAIN m = {}
    BY <2>1 DEF IsEmptyValue
  <2>3. "meta" \in ReadFields(f) <=> DOMAIN m # {}
    BY <2>1, <2>2 DEF ReadFields, EncodedFields, OmittedWhenEmpty, DecodedFields
  <2>4. \A k \in LimitNames : MetaInt(OverTheWire(f), k) = IF k \in DOMAIN l THEN l[k] ELSE 0
    <3>1. CASE DOMAIN m = {}
      <4>1. ~ Has(OverTheWire(f), "meta")
        BY <2>3, <3>1, Travelled DEF Has
      <4> QED BY <1>1, <3>1, <4>1 DEF MetaInt
    <3>2. CASE DOMAIN m # {}
      <4>1. Has(OverTheWire(f), "meta") /\ OverTheWire(f).meta = m
        BY <2>1, <2>3, <3>2, Travelled DEF Has
      <4> QED BY <1>1, <4>1 DEF MetaInt
    <3> QED BY <3>1, <3>2
  <2> QED BY <2>4, AnnouncedByMeta
<1>2. HelloLimits(OverTheWire(NewHello(l))) = Completed(l)
  BY <1>1
<1>3. HelloLimits(OverTheWire(NewHelloWithManifest(l, CartridgeManifest))) = Completed(l)
  <2> DEFINE m == WithManifest(l, CartridgeManifest)
  <2>1. /\ DOMAIN m = DOMAIN l \cup {"manifest"}
        /\ \A k \in DOMAIN m : k # "manifest" => m[k] = l[k]
    BY DEF WithManifest, With
  <2>2. \A k \in LimitNames : k # "manifest"
    BY DEF LimitNames
  <2>3. NewHelloWithManifest(l, CartridgeManifest) = NewHello(m)
    BY DEF NewHelloWithManifest
  <2> HIDE DEF m
  <2>4. /\ \A k \in LimitNames : k \in DOMAIN m <=> k \in DOMAIN l
        /\ \A k \in LimitNames : k \in DOMAIN l => m[k] = l[k]
    BY <2>1, <2>2
  <2> QED BY <1>1, <2>3, <2>4
<1> QED BY <1>2, <1>3

-----------------------------------------------------------------------------
(***************************************************************************)
(* The frames that somebody writes are frames.                             *)
(***************************************************************************)

LEMMA WithFields ==
  ASSUME NEW f, NEW fields, IsFrame(f), "type" \notin DOMAIN fields
  PROVE  IsFrame(With(f, fields)) /\ With(f, fields).type = f.type
BY DEF IsFrame, With

LEMMA NewFrames ==
  ASSUME NEW type, NEW id
  PROVE  IsFrame(NewFrame(type, id)) /\ NewFrame(type, id).type = type
BY DEF NewFrame, IsFrame

LEMMA FramesOfTheRelay ==
  ASSUME NEW m, NEW limits
  PROVE  IsFrame(NewRelayNotify(m, limits)) /\ IsRelayFrame(NewRelayNotify(m, limits))
BY NewFrames, WithFields DEF NewRelayNotify, WithMeta, IsRelayFrame

LEMMA FramesOfTheEngine ==
  ASSUME NEW k, NEW f \in EngineFrames(k)
  PROVE  IsFrame(f)
<1>1. IsFrame(NewReq(k, "cap", <<>>))
  BY NewFrames, WithFields DEF NewReq
<1>2. IsFrame(NewCancelFrame(k, TRUE))
  <2>1. PICK t : t = TRUE
    OBVIOUS
  <2>2. IsFrame(With(NewFrame("CANCEL", k), [forceKill |-> t]))
    BY NewFrames, WithFields
  <2> QED BY <2>1, <2>2, Zenon DEF NewCancelFrame
<1>3. IsFrame(NewRelayState(<<k>>))
  BY NewFrames, WithFields DEF NewRelayState
<1>4. IsFrame(NewRelayNotify(<<k>>, DefaultLimits))
  BY FramesOfTheRelay
<1>5. IsFrame(OldFrame(k))
  BY DEF OldFrame, NewFrame, IsFrame
<1> QED BY <1>1, <1>2, <1>3, <1>4, <1>5 DEF EngineFrames

LEMMA FramesOfTheHandshake ==
  ASSUME NEW l, NEW m
  PROVE  IsFrame(NewHello(l)) /\ IsFrame(NewHelloWithManifest(l, m))
BY NewFrames, WithFields DEF NewHello, NewHelloWithManifest, WithMeta

LEMMA FramesOfAnError ==
  ASSUME NEW id, NEW code
  PROVE  IsFrame(NewErr(id, code))
BY NewFrames, WithFields DEF NewErr, WithMeta

LEMMA FrameSeqsJoined ==
  ASSUME NEW p, NEW q, FrameSeq(p), FrameSeq(q)
  PROVE  FrameSeq(p \o q)
<1>1. IsSeq(p) /\ IsSeq(q) /\ Len(p) \in Nat /\ Len(q) \in Nat
  BY Shape DEF FrameSeq
<1>2. /\ IsSeq(p \o q) /\ Len(p \o q) = Len(p) + Len(q)
      /\ \A i \in 1..Len(p) : (p \o q)[i] = p[i]
      /\ \A i \in 1..Len(q) : (p \o q)[Len(p) + i] = q[i]
  BY <1>1, Joined
<1>3. ASSUME NEW i \in 1..Len(p \o q) PROVE IsFrame((p \o q)[i])
  <2>1. CASE i \in 1..Len(p)
    BY <1>2, <2>1 DEF FrameSeq
  <2>2. CASE i \notin 1..Len(p)
    <3>1. i - Len(p) \in 1..Len(q) /\ i = Len(p) + (i - Len(p))
      BY <1>1, <1>2, <2>2
    <3> QED BY <1>2, <3>1 DEF FrameSeq
  <2> QED BY <2>1, <2>2
<1> QED BY <1>2, <1>3 DEF FrameSeq

LEMMA FrameSeqsCut ==
  ASSUME NEW q, FrameSeq(q)
  PROVE  FrameSeq(SubSeq(q, 2, Len(q) - 1))
<1>1. q \in Seq(Range(q)) /\ Len(q) \in Nat /\ \A i \in 1..Len(q) : IsFrame(q[i])
  BY Shape DEF FrameSeq, IsSeq
<1>2. \A i \in 2..(Len(q) - 1) : q[i] \in Range(q)
  <2>1. \A i \in 2..(Len(q) - 1) : i \in 1..Len(q)
    BY <1>1
  <2> QED BY <1>1, <2>1, ElementOfSeq
<1>3. /\ SubSeq(q, 2, Len(q) - 1) \in Seq(Range(q))
      /\ Len(SubSeq(q, 2, Len(q) - 1)) = IF 2 <= Len(q) - 1 THEN (Len(q) - 1) - 2 + 1 ELSE 0
      /\ \A i \in 1 .. (Len(q) - 1) - 2 + 1 : SubSeq(q, 2, Len(q) - 1)[i] = q[2 + i - 1]
  <2>1. 2 \in Int /\ Len(q) - 1 \in Int
    BY <1>1
  <2> QED BY <1>2, <2>1, SubSeqProperties
<1>4. \A i \in 1..Len(SubSeq(q, 2, Len(q) - 1)) :
        i \in 1 .. (Len(q) - 1) - 2 + 1 /\ 2 + i - 1 \in 1..Len(q)
  BY <1>1, <1>3
<1> QED BY <1>1, <1>3, <1>4, SeqIsSeq DEF FrameSeq

LEMMA FramesOfAResponse ==
  ASSUME NEW id, NEW stream, NEW media, NEW payload, NEW max \in Nat \ {0}, IsSeq(payload)
  PROVE  /\ FrameSeq(ResponseFrames(id, stream, media, payload, max))
         /\ ResponseFrames(id, stream, media, payload, max) # <<>>
<1> DEFINE n == ChunkCount(payload, max)
           c == [i \in 1..n |-> NewChunk(id, stream, i - 1, ChunkAt(payload, max, i - 1), i - 1)]
           s == NewStreamStart(id, stream, media)
           e == NewStreamEnd(id, stream, n)
           d == NewEnd(id)
<1>1. n \in Int
  <2>1. Len(payload) + max - 1 \in Int
    BY Shape
  <2> QED BY <2>1 DEF ChunkCount
<1>2. IsFrame(s) /\ IsFrame(e)
  BY NewFrames, WithFields DEF NewStreamStart, NewStreamEnd
<1>3. IsFrame(d)
  <2>1. PICK t : t = TRUE
    OBVIOUS
  <2>2. IsFrame(With(NewFrame("END", id), [eof |-> t]))
    BY NewFrames, WithFields
  <2> QED BY <2>1, <2>2, Zenon DEF NewEnd
<1>4. \A i \in 1..n : IsFrame(c[i])
  BY NewFrames, WithFields DEF NewChunk
<1>5. DOMAIN c = 1..n /\ c = [i \in 1..n |-> c[i]]
  OBVIOUS
<1>6. ResponseFrames(id, stream, media, payload, max) = <<s>> \o c \o <<e, d>>
  BY DEF ResponseFrames
<1> HIDE DEF n, c, s, e, d
<1>7. FrameSeq(c)
  <2>1. CASE n \in Nat
    BY <1>4, <1>5, <2>1, FunctionIsSeq DEF FrameSeq
  <2>2. CASE n \notin Nat
    <3>1. 1..n = 1..0
      BY <1>1, <2>2
    <3>2. IsSeq(c) /\ Len(c) = 0
      BY <1>5, <3>1, FunctionIsSeq
    <3> QED BY <3>2 DEF FrameSeq
  <2> QED BY <2>1, <2>2
<1>8. FrameSeq(<<s>>) /\ FrameSeq(<<e, d>>)
  <2>1. /\ Len(<<e, d>>) = 2 /\ <<e, d>>[1] = e /\ <<e, d>>[2] = d
        /\ <<e, d>> \in Seq({e, d})
    OBVIOUS
  <2>2. \A i \in 1..2 : i = 1 \/ i = 2
    OBVIOUS
  <2>3. FrameSeq(<<e, d>>)
    BY <1>2, <1>3, <2>1, <2>2, SeqIsSeq DEF FrameSeq
  <2> QED BY <1>2, <2>3, SmallFrameSeqs
<1>9. FrameSeq(<<s>> \o c)
  BY <1>7, <1>8, FrameSeqsJoined
<1>10. (<<s>> \o c) \o <<e, d>> # <<>>
  <2>1. PICK u, v : u = <<s>> \o c /\ v = <<e, d>>
    OBVIOUS
  <2>2. IsSeq(u) /\ IsSeq(v) /\ Len(v) = 2
    BY <1>8, <1>9, <2>1 DEF FrameSeq
  <2>3. Len(u) \in Nat
    BY <2>2, Shape
  <2>4. Len(u \o v) = Len(u) + 2
    <3>1. IsSeq(u) /\ IsSeq(v)
      BY <2>2
    <3>2. Len(u \o v) = Len(u) + Len(v)
      BY ONLY <3>1, Joined
    <3> QED BY <2>2, <3>2
  <2>5. u \o v # <<>>
    BY <2>3, <2>4, EmptySeq
  <2> QED BY <2>1, <2>5
<1> QED BY <1>6, <1>8, <1>9, <1>10, FrameSeqsJoined

-----------------------------------------------------------------------------
(***************************************************************************)
(* The initial states.                                                     *)
(***************************************************************************)

LEMMA SetupLimits ==
  ASSUME NEW s \in Setups
  PROVE  /\ Announceable(s.host) /\ Announceable(s.cartridge)
         /\ \A p \in s.payloads : IsSeq(p)
BY LinkAssumption, LimitsAreLimited DEF Announceable, IsSeq

LEMMA InitialInv == Init => IInv
<1> SUFFICES ASSUME Init PROVE IInv
  OBVIOUS
<1> USE DEF Init, LinkInit, HelloInit
<1>1. StreamsInv
  BY StreamAtStart DEF StreamsInv
<1>2. PumpInv
  BY SomePumps DEF PumpInv
<1>3. EndsInv
  BY SmallSeqs, SmallFrameSeqs DEF EndsInv
<1>4. HelloInv
  <2>1. \A i \in 1..Len(toCartridge.q) : toCartridge.q[i] = HostHello
    BY StreamAtStart, EmptySeq
  <2> QED BY <2>1, StreamAtStart, LimitsAreLimited DEF HelloInv, Sides
<1>5. AnswerInv
  BY DEF AnswerInv, Sides
<1>6. pump["down"].held = <<>> /\ pump["up"].held = <<>>
  BY SomePumps DEF Directions
<1>7. QuietInv
  BY <1>6, StreamAtStart, EmptySeq DEF QuietInv, Quiet, AllRelay
<1>8. Frames(<<>>) = <<>>
  BY EmptySeq DEF Frames
<1>9. DownInv /\ UpInv
  <2>1. <<>> \o <<>> = <<>>
    BY Joined, SmallSeqs
  <2>2. Passing(<<>>) = <<>> /\ Wired(<<>>) = <<>> /\ Others(<<>>) = <<>>
    BY PassingOfSmall, WiredOfSmall, OthersOfEmpty
  <2> QED BY <1>6, <1>8, <2>1, <2>2, StreamAtStart DEF DownInv, UpInv, Chain
<1> QED BY <1>1, <1>2, <1>3, <1>4, <1>5, <1>7, <1>9 DEF IInv

-----------------------------------------------------------------------------
(***************************************************************************)
(* Queues one behind the other.                                            *)
(***************************************************************************)

\* What is sent is behind everything that is under way.
LEMMA ChainEnd ==
  ASSUME NEW p, NEW q, NEW r, NEW s, NEW t, IsSeq(p), IsSeq(q), IsSeq(r), IsSeq(s), IsSeq(t)
  PROVE  Chain(p, q, r, s \o t) = Chain(p, q, r, s) \o t
<1>1. PICK u : u = r \o s /\ IsSeq(u)
  BY Joined
<1>2. PICK v : v = q \o u /\ IsSeq(v)
  BY <1>1, Joined
<1>3. (p \o v) \o t = p \o (v \o t)
  <2>1. IsSeq(v)
    BY <1>2
  <2> QED BY ONLY IsSeq(p), IsSeq(t), <2>1, Associative
<1>4. (q \o u) \o t = q \o (u \o t)
  <2>1. IsSeq(u)
    BY <1>1
  <2> QED BY ONLY IsSeq(q), IsSeq(t), <2>1, Associative
<1>5. (r \o s) \o t = r \o (s \o t)
  BY Associative
<1>6. Chain(p, q, r, s) = p \o v
  BY <1>1, <1>2 DEF Chain
<1>7. Chain(p, q, r, s \o t) = p \o (q \o ((r \o s) \o t))
  BY <1>5 DEF Chain
<1> QED BY <1>1, <1>2, <1>3, <1>4, <1>6, <1>7

\* What moves from one queue to the next keeps its place.
LEMMA ChainMove ==
  ASSUME NEW p, NEW x, NEW s, IsSeq(p), IsSeq(x), IsSeq(s)
  PROVE  /\ p \o (x \o s) = (p \o x) \o s
         /\ p \o (x \o s) = (p \o x) \o (<<>> \o s)
         /\ <<>> \o (x \o s) = x \o s
<1>1. <<>> \o s = s /\ IsSeq(x \o s)
  BY Joined
<1>2. <<>> \o (x \o s) = x \o s
  BY <1>1, Joined
<1>3. (p \o x) \o s = p \o (x \o s)
  BY Associative
<1> QED BY <1>1, <1>2, <1>3

LEMMA WiredOfAppended ==
  ASSUME NEW q, NEW x, IsSeq(q)
  PROVE  Wired(Append(q, EncodeFrame(x))) = Wired(q) \o <<OverTheWire(x)>>
<1>1. PICK e : e = EncodeFrame(x)
  OBVIOUS
<1>2. Append(q, e) = q \o <<e>> /\ IsSeq(<<e>>)
  BY Appended, SmallSeqs
<1>3. Wired(q \o <<e>>) = Wired(q) \o Wired(<<e>>)
  BY <1>2, WiredOfJoined
<1>4. OverTheWire(e) = OverTheWire(x)
  BY <1>1, TravelledTwice
<1> QED BY <1>1, <1>2, <1>3, <1>4, WiredOfSmall

LEMMA WiredOfRead ==
  ASSUME NEW q, IsSeq(q), q # <<>>
  PROVE  Wired(q) = <<OverTheWire(Head(q))>> \o Wired(Tail(q))
<1>1. PICK h, t : h = Head(q) /\ t = Tail(q)
  OBVIOUS
<1>2. q = <<h>> \o t /\ IsSeq(t) /\ IsSeq(<<h>>)
  BY <1>1, HeadAndTail, SmallSeqs
<1>3. Wired(<<h>> \o t) = Wired(<<h>>) \o Wired(t)
  BY <1>2, WiredOfJoined
<1> QED BY <1>1, <1>2, <1>3, WiredOfSmall

LEMMA FramesOfGot ==
  ASSUME NEW got, IsSeq(got)
  PROVE  /\ IsSeq(Frames(got)) /\ Len(Frames(got)) = Len(got)
         /\ \A i \in 1..Len(got) : Frames(got)[i] = got[i].frame
<1>1. Len(got) \in Nat /\ DOMAIN got = 1..Len(got)
  BY Shape
<1>2. /\ DOMAIN Frames(got) = 1..Len(got)
      /\ Frames(got) = [i \in 1..Len(got) |-> Frames(got)[i]]
      /\ \A i \in 1..Len(got) : Frames(got)[i] = got[i].frame
  BY <1>1 DEF Frames
<1> QED BY <1>1, <1>2, FunctionIsSeq

LEMMA FramesOfAppended ==
  ASSUME NEW got, NEW r, IsSeq(got)
  PROVE  Frames(Append(got, r)) = Frames(got) \o <<r.frame>>
<1>0. PICK a, b : a = Append(got, r) /\ b = Append(Frames(got), r.frame)
  OBVIOUS
<1>1. /\ IsSeq(a) /\ Len(a) = Len(got) + 1 /\ Len(got) \in Nat
      /\ \A i \in 1..Len(got) : a[i] = got[i]
      /\ a[Len(got) + 1] = r
  <2>1. Len(got) \in Nat
    BY Shape
  <2>2. /\ IsSeq(a) /\ Len(a) = Len(got) + 1
        /\ \A i \in 1..Len(got) : a[i] = got[i]
        /\ a[Len(got) + 1] = r
    <3>1. Extends(Append(got, r), got, r)
      BY AppendExtends
    <3> QED BY <1>0, <3>1 DEF Extends
  <2> QED BY <2>1, <2>2
<1>2. /\ IsSeq(Frames(got)) /\ Len(Frames(got)) = Len(got)
      /\ \A i \in 1..Len(got) : Frames(got)[i] = got[i].frame
  BY FramesOfGot
<1>3. /\ b = Frames(got) \o <<r.frame>>
      /\ IsSeq(b) /\ Len(b) = Len(got) + 1
      /\ \A i \in 1..Len(got) : b[i] = Frames(got)[i]
      /\ b[Len(got) + 1] = r.frame
  <2>1. IsSeq(Frames(got)) /\ Len(Frames(got)) = Len(got)
    BY <1>2
  <2>2. b = Frames(got) \o <<r.frame>>
    BY <1>0, <2>1, Appended
  <2>3. /\ IsSeq(b) /\ Len(b) = Len(Frames(got)) + 1
        /\ \A i \in 1..Len(Frames(got)) : b[i] = Frames(got)[i]
        /\ b[Len(Frames(got)) + 1] = r.frame
    <3>1. Extends(Append(Frames(got), r.frame), Frames(got), r.frame)
      BY <2>1, AppendExtends
    <3> QED BY <1>0, <3>1 DEF Extends
  <2> QED BY <2>1, <2>2, <2>3
<1>4. /\ IsSeq(Frames(a)) /\ Len(Frames(a)) = Len(a)
      /\ \A i \in 1..Len(a) : Frames(a)[i] = a[i].frame
  BY <1>1, FramesOfGot
<1>5. ASSUME NEW i \in 1..Len(a) PROVE Frames(a)[i] = b[i]
  <2>1. i \in 1..Len(got) \/ i = Len(got) + 1
    BY <1>1
  <2> QED BY <1>1, <1>2, <1>3, <1>4, <2>1
<1>6. Frames(a) = b
  BY <1>1, <1>3, <1>4, <1>5, SameSeq
<1> QED BY <1>0, <1>3, <1>6

-----------------------------------------------------------------------------
(***************************************************************************)
(* What a step leaves alone.                                               *)
(***************************************************************************)

LEMMA HelloKept ==
  ASSUME HelloInv, AnswerInv, UNCHANGED <<own, hello, negotiated, toCartridge, toHost, setup, answer>>
  PROVE  HelloInv' /\ AnswerInv'
BY DEF HelloInv, AnswerInv, HostHello, CartridgeHello

LEMMA RelayAppended ==
  ASSUME NEW q, NEW x, IsSeq(q)
  PROVE  AllRelay(Append(q, x)) <=> AllRelay(q) /\ IsRelayFrame(x)
<1>1. /\ Len(q) \in Nat /\ Len(Append(q, x)) = Len(q) + 1
      /\ \A i \in 1..Len(q) : Append(q, x)[i] = q[i]
      /\ Append(q, x)[Len(q) + 1] = x
  BY Appended, Shape
<1>2. \A i : i \in 1..Len(q) + 1 <=> i \in 1..Len(q) \/ i = Len(q) + 1
  BY <1>1
<1> QED BY <1>1, <1>2 DEF AllRelay

LEMMA RelayRead ==
  ASSUME NEW q, IsSeq(q), q # <<>>, AllRelay(q)
  PROVE  AllRelay(Tail(q)) /\ IsRelayFrame(Head(q))
<1>1. /\ Len(Tail(q)) = Len(q) - 1 /\ Len(q) \in Nat
      /\ \A i \in 1..Len(Tail(q)) : Tail(q)[i] = q[i + 1]
      /\ Head(q) = q[1] /\ 1 \in 1..Len(q)
  BY HeadAndTail, Shape
<1>2. \A i \in 1..Len(Tail(q)) : i + 1 \in 1..Len(q)
  BY <1>1
<1> QED BY <1>1, <1>2 DEF AllRelay

\* An end that leaves ends the promise.
LEMMA DownKept ==
  ASSUME DownInv, UNCHANGED <<hostGot, engineSent>>,
         pump'["down"].held = pump["down"].held,
         pump["down"].pc = "ended" => pump'["down"].pc = "ended",
         toLocal'.q = toLocal.q \/ toLocal'.gone, toLocal.gone => toLocal'.gone,
         down'.q = down.q \/ down'.gone, down.gone => down'.gone
  PROVE  DownInv'
BY DEF DownInv

LEMMA UpKept ==
  ASSUME UpInv, UNCHANGED <<engineGot, hostSent>>,
         pump'["up"].held = pump["up"].held,
         pump["up"].pc = "ended" => pump'["up"].pc = "ended",
         Passing(up'.q) = Passing(up.q) \/ up'.gone, up.gone => up'.gone,
         fromLocal'.q = fromLocal.q \/ fromLocal'.gone, fromLocal.gone => fromLocal'.gone
  PROVE  UpInv'
BY DEF UpInv

LEMMA QuietKept ==
  ASSUME QuietInv, UNCHANGED <<engineSent, hostGot, answer>>,
         master.state = "connecting" \/ master'.state # "connecting",
         down'.q = down.q \/ down'.q = <<>>,
         toLocal'.q = toLocal.q \/ toLocal'.q = <<>>,
         \A d \in Directions : pump'[d].held = pump[d].held \/ pump'[d].held = <<>>,
         up'.q = <<>> \/ (AllRelay(up.q) => AllRelay(up'.q)),
         fromLocal'.q = fromLocal.q \/ fromLocal'.q = <<>>
  PROVE  QuietInv'
<1>1. SUFFICES ASSUME engineSent = <<>> PROVE Quiet'
  BY DEF QuietInv
<1>2. Quiet
  BY <1>1 DEF QuietInv
<1>3. AllRelay(<<>>)
  BY EmptySeq DEF AllRelay
<1>4. "down" \in Directions /\ "up" \in Directions
  BY DEF Directions
<1>5. AllRelay(up'.q) /\ AllRelay(fromLocal'.q)
  BY <1>2, <1>3 DEF Quiet
<1> QED BY <1>2, <1>4, <1>5 DEF Quiet, AllRelay

\* A notification is not seen by the readers of frames.
LEMMA NotifySent ==
  ASSUME NEW f, IsStream(up), IsFrame(f), IsRelayFrame(f), SendsUp(f)
  PROVE  /\ IsStream(up') /\ up'.gone = up.gone
         /\ Passing(up'.q) = Passing(up.q)
         /\ AllRelay(up.q) => AllRelay(up'.q)
<1>1. up' = WriteFrame(up, f)
  BY DEF SendsUp
<1>2. IsStream(up') /\ up'.q = Append(up.q, EncodeFrame(f)) /\ up'.gone = up.gone
  BY <1>1, StreamWritten
<1>3. IsSeq(up.q)
  BY DEF IsStream, FrameSeq
<1>4. Passing(up'.q) = Passing(up.q)
  BY <1>2, <1>3, PassingOfAppended
<1>5. IsRelayFrame(EncodeFrame(f))
  BY TypeTravels
<1>6. ASSUME AllRelay(up.q) PROVE AllRelay(up'.q)
  BY <1>2, <1>3, <1>5, <1>6, RelayAppended
<1> QED BY <1>2, <1>4, <1>6

LEMMA PumpChanged ==
  ASSUME NEW d \in Directions, NEW p, PumpInv, IsPump(p), pump[d].pc # "idle",
         pump' = [pump EXCEPT ![d] = p], run' = run
  PROVE  /\ PumpInv'
         /\ pump'[d] = p
         /\ \A e \in Directions : e # d => pump'[e] = pump[e]
<1>1. run # "notify"
  BY DEF PumpInv, Pump
<1>2. /\ DOMAIN pump' = Directions
      /\ pump'[d] = p
      /\ \A e \in Directions : e # d => pump'[e] = pump[e]
      /\ pump' = [e \in Directions |-> pump'[e]]
  BY DEF PumpInv
<1>3. \A e \in Directions : IsPump(pump'[e])
  BY <1>2 DEF PumpInv
<1> QED BY <1>1, <1>2, <1>3 DEF PumpInv

-----------------------------------------------------------------------------
(***************************************************************************)
(* The steps of the relay.                                                 *)
(***************************************************************************)

LEMMA InitialNotifyKeeps ==
  ASSUME IInv, InitialNotify, UNCHANGED <<helloVars, ends>>
  PROVE  IInv'
<1> DEFINE f == NewRelayNotify(InitialManifest, DefaultLimits)
<1>1. StreamsInv /\ PumpInv /\ EndsInv /\ HelloInv /\ AnswerInv /\ QuietInv /\ DownInv /\ UpInv
  BY DEF IInv
<1>2. UNCHANGED <<own, hello, negotiated, manifest, toCartridge, toHost, setup, answer,
                  engineSent, hostSent, hostGot, engineGot>>
  BY DEF helloVars, ends
<1>3. UNCHANGED <<slave, down, toLocal, fromLocal, resourceState, master>> /\ run = "notify"
  BY DEF InitialNotify
<1>4. \/ /\ UNCHANGED up
         /\ run' = "waiting" /\ pump' = [d \in Directions |-> Pump("reading")]
      \/ /\ SendsUp(f)
         /\ run' = "waiting" /\ pump' = [d \in Directions |-> Pump("reading")]
      \/ run' = "returned" /\ UNCHANGED <<up, pump>>
  BY DEF InitialNotify
<1>5. IsFrame(f) /\ IsRelayFrame(f)
  BY FramesOfTheRelay
<1> HIDE DEF f
<1>6. IsStream(up)
  BY <1>1 DEF StreamsInv
<1>7. /\ IsStream(up') /\ up'.gone = up.gone
      /\ Passing(up'.q) = Passing(up.q)
      /\ AllRelay(up.q) => AllRelay(up'.q)
  BY <1>4, <1>5, <1>6, NotifySent
<1>8. \A d \in Directions : pump[d] = Pump("idle")
  BY <1>1, <1>3 DEF PumpInv
<1>9. /\ run' # "notify"
      /\ \/ pump' = [d \in Directions |-> Pump("reading")]
         \/ pump' = pump
  BY <1>4
<1>10. /\ PumpInv'
       /\ \A d \in Directions : pump'[d].held = <<>> /\ pump[d].held = <<>> /\ pump[d].pc # "ended"
  BY <1>1, <1>8, <1>9, SomePumps DEF PumpInv
<1>11. "up" \in Directions /\ "down" \in Directions
  BY DEF Directions
<1>12. StreamsInv'
  BY <1>1, <1>2, <1>3, <1>7 DEF StreamsInv
<1>13. EndsInv'
  BY <1>1, <1>2, <1>3 DEF EndsInv
<1>14. HelloInv' /\ AnswerInv'
  BY <1>1, <1>2, HelloKept
<1>15. QuietInv'
  BY <1>1, <1>2, <1>3, <1>7, <1>10, QuietKept
<1>16. DownInv'
  BY <1>1, <1>2, <1>3, <1>10, <1>11, DownKept
<1>17. UpInv'
  BY <1>1, <1>2, <1>3, <1>7, <1>10, <1>11, UpKept
<1> QED BY <1>10, <1>12, <1>13, <1>14, <1>15, <1>16, <1>17 DEF IInv

LEMMA NotifyKeeps ==
  ASSUME NEW m, NEW limits, IInv, SendNotify(m, limits), UNCHANGED <<helloVars, ends>>
  PROVE  IInv'
<1> DEFINE f == NewRelayNotify(m, limits)
<1>1. StreamsInv /\ PumpInv /\ EndsInv /\ HelloInv /\ AnswerInv /\ QuietInv /\ DownInv /\ UpInv
  BY DEF IInv
<1>2. UNCHANGED <<own, hello, negotiated, manifest, toCartridge, toHost, setup, answer,
                  engineSent, hostSent, hostGot, engineGot>>
  BY DEF helloVars, ends
<1>3. UNCHANGED <<slave, down, toLocal, fromLocal, pump, run, errCh, resourceState, master>>
  BY DEF SendNotify
<1>4. SendsUp(f)
  BY DEF SendNotify
<1>5. IsFrame(f) /\ IsRelayFrame(f)
  BY FramesOfTheRelay
<1> HIDE DEF f
<1>6. IsStream(up)
  BY <1>1 DEF StreamsInv
<1>7. /\ IsStream(up') /\ up'.gone = up.gone
      /\ Passing(up'.q) = Passing(up.q)
      /\ AllRelay(up.q) => AllRelay(up'.q)
  BY <1>4, <1>5, <1>6, NotifySent
<1>12. StreamsInv'
  BY <1>1, <1>2, <1>3, <1>7 DEF StreamsInv
<1>13. EndsInv' /\ PumpInv'
  BY <1>1, <1>2, <1>3 DEF EndsInv, PumpInv
<1>14. HelloInv' /\ AnswerInv'
  BY <1>1, <1>2, HelloKept
<1>15. QuietInv'
  BY <1>1, <1>2, <1>3, <1>7, QuietKept
<1>16. DownInv'
  BY <1>1, <1>2, <1>3, DownKept
<1>17. UpInv'
  BY <1>1, <1>2, <1>3, <1>7, UpKept
<1> QED BY <1>12, <1>13, <1>14, <1>15, <1>16, <1>17 DEF IInv

\* The steps of Run that neither read nor write.
LEMMA RunKeeps ==
  ASSUME IInv, TakeFirstResult \/ Join \/ SlaveCloses, UNCHANGED <<helloVars, ends>>
  PROVE  IInv'
<1>1. StreamsInv /\ PumpInv /\ EndsInv /\ HelloInv /\ AnswerInv /\ QuietInv /\ DownInv /\ UpInv
  BY DEF IInv
<1>2. UNCHANGED <<own, hello, negotiated, manifest, toCartridge, toHost, setup, answer,
                  engineSent, hostSent, hostGot, engineGot>>
  BY DEF helloVars, ends
<1>3. UNCHANGED <<pump, master>> /\ run' # "notify"
  BY DEF TakeFirstResult, Join, SlaveCloses
<1>4. \/ UNCHANGED <<down, up, toLocal, fromLocal>>
      \/ /\ up' = Close(up, "none") /\ toLocal' = Close(toLocal, "none")
         /\ down' = Abandon(down) /\ fromLocal' = Abandon(fromLocal)
  BY DEF TakeFirstResult, Join, SlaveCloses
<1>5. IsStream(up) /\ IsStream(down) /\ IsStream(toLocal) /\ IsStream(fromLocal)
  BY <1>1 DEF StreamsInv
<1>6. /\ IsStream(up') /\ up'.gone = up.gone /\ up'.q = up.q
      /\ IsStream(toLocal') /\ toLocal'.gone = toLocal.gone /\ toLocal'.q = toLocal.q
  BY <1>4, <1>5, StreamClosed
<1>7. /\ IsStream(down')
      /\ down' = down \/ (down'.q = <<>> /\ down'.gone)
      /\ IsStream(fromLocal')
      /\ fromLocal' = fromLocal \/ (fromLocal'.q = <<>> /\ fromLocal'.gone)
  BY <1>4, <1>5, StreamAbandoned
<1>12. StreamsInv'
  BY <1>1, <1>2, <1>6, <1>7 DEF StreamsInv
<1>13. EndsInv' /\ PumpInv'
  BY <1>1, <1>2, <1>3 DEF EndsInv, PumpInv
<1>14. HelloInv' /\ AnswerInv'
  BY <1>1, <1>2, HelloKept
<1>15. QuietInv'
  BY <1>1, <1>2, <1>3, <1>6, <1>7, QuietKept
<1>16. DownInv'
  BY <1>1, <1>2, <1>3, <1>6, <1>7, DownKept
<1>17. UpInv'
  BY <1>1, <1>2, <1>3, <1>6, <1>7, UpKept
<1> QED BY <1>12, <1>13, <1>14, <1>15, <1>16, <1>17 DEF IInv

\* The parts of the invariant that a pump relies on.
LEMMA PumpAt ==
  ASSUME NEW d \in Directions, IInv
  PROVE  /\ IsStream(Source(d)) /\ IsStream(Target(d))
         /\ IsPump(pump[d])
         /\ pump[d].pc = "reading" => pump[d].held = <<>>
         /\ pump[d].pc = "writing" => pump[d].held = <<Held(d)>> /\ IsFrame(Held(d))
<1>1. StreamsInv /\ IsPump(pump[d])
  BY DEF IInv, PumpInv
<1> QED BY <1>1, PumpCases DEF StreamsInv, Source, Target, Held

\* A pump that takes a frame from the front of its source, and keeps it unless it is of the relay.
LEMMA DownTaken ==
  ASSUME IInv, pump["down"].pc = "reading", down.q # <<>>,
         UNCHANGED <<hostGot, engineSent, toLocal>>, down' = AfterRead(down),
         pump'["down"] = IF PassesOn("down", FrameRead(down)) THEN Writing(FrameRead(down)) ELSE Pump("reading")
  PROVE  DownInv'
<1>1. DownInv /\ IsStream(down) /\ IsStream(toLocal) /\ IsSeq(hostGot)
  BY DEF IInv, StreamsInv, EndsInv
<1>2. pump["down"].held = <<>>
  BY PumpAt DEF Directions
<1> DEFINE h == Head(down.q)
           g == FrameRead(down)
<1>3. /\ IsStream(down') /\ down'.q = Tail(down.q) /\ down'.gone = down.gone
      /\ IsFrame(h) /\ g = OverTheWire(h) /\ IsFrame(g)
      /\ IsRelayFrame(g) <=> IsRelayFrame(h)
  BY <1>1, StreamRead
<1>4. Passing(down.q) = IF IsRelayFrame(h) THEN Passing(down'.q)
                        ELSE <<OverTheWire(h)>> \o Passing(down'.q)
  BY <1>1, <1>3, PassingOfRead DEF IsStream
<1>5. pump'["down"] = IF ~ IsRelayFrame(g) THEN Writing(g) ELSE Pump("reading")
  BY DEF PassesOn
<1> HIDE DEF h, g
<1>6. IF IsRelayFrame(h) THEN pump'["down"].held = <<>> ELSE pump'["down"].held = <<g>>
  BY <1>3, <1>5, SomePumps
<1>7. pump'["down"].pc # "ended"
  BY <1>3, <1>5, SomePumps
<1>8. Wired(<<>>) = <<>> /\ Wired(<<g>>) = <<OverTheWire(h)>>
  <2>1. OverTheWire(g) = OverTheWire(h)
    BY <1>3, TravelledTwice
  <2> QED BY <2>1, WiredOfSmall
<1>9. IsSeq(Passing(down'.q)) /\ IsSeq(<<OverTheWire(h)>>)
  BY <1>3, PassingIsSeq, SmallSeqs DEF IsStream, FrameSeq
<1>10. /\ <<>> \o Passing(down'.q) = Passing(down'.q)
       /\ <<>> \o (<<OverTheWire(h)>> \o Passing(down'.q)) = <<OverTheWire(h)>> \o Passing(down'.q)
  BY <1>9, Joined, ChainMove
<1>11. Wired(pump["down"].held) \o Passing(down.q) = Wired(pump'["down"].held) \o Passing(down'.q)
  BY <1>2, <1>4, <1>6, <1>8, <1>10
<1> QED BY <1>1, <1>3, <1>7, <1>11 DEF DownInv, Chain

LEMMA UpTaken ==
  ASSUME IInv, pump["up"].pc = "reading", fromLocal.q # <<>>,
         UNCHANGED <<engineGot, hostSent, up>>, fromLocal' = AfterRead(fromLocal),
         pump'["up"] = IF PassesOn("up", FrameRead(fromLocal)) THEN Writing(FrameRead(fromLocal)) ELSE Pump("reading")
  PROVE  UpInv'
<1>1. UpInv /\ IsStream(fromLocal) /\ IsStream(up) /\ IsSeq(engineGot)
  BY DEF IInv, StreamsInv, EndsInv
<1>2. pump["up"].held = <<>>
  BY PumpAt DEF Directions
<1> DEFINE h == Head(fromLocal.q)
           g == FrameRead(fromLocal)
<1>3. /\ IsStream(fromLocal') /\ fromLocal'.q = Tail(fromLocal.q) /\ fromLocal'.gone = fromLocal.gone
      /\ IsFrame(h) /\ g = OverTheWire(h) /\ IsFrame(g)
      /\ IsRelayFrame(g) <=> IsRelayFrame(h)
  BY <1>1, StreamRead
<1>4. Passing(fromLocal.q) = IF IsRelayFrame(h) THEN Passing(fromLocal'.q)
                             ELSE <<OverTheWire(h)>> \o Passing(fromLocal'.q)
  BY <1>1, <1>3, PassingOfRead DEF IsStream
<1>5. pump'["up"] = IF ~ IsRelayFrame(g) THEN Writing(g) ELSE Pump("reading")
  BY DEF PassesOn
<1> HIDE DEF h, g
<1>6. IF IsRelayFrame(h) THEN pump'["up"].held = <<>> ELSE pump'["up"].held = <<g>>
  BY <1>3, <1>5, SomePumps
<1>7. pump'["up"].pc # "ended"
  BY <1>3, <1>5, SomePumps
<1>8. Passing(<<>>) = <<>> /\ (~ IsRelayFrame(h) => Passing(<<g>>) = <<OverTheWire(h)>>)
  <2>1. OverTheWire(g) = OverTheWire(h)
    BY <1>3, TravelledTwice
  <2> QED BY <1>3, <2>1, PassingOfSmall
<1>9. IsSeq(Passing(fromLocal'.q)) /\ IsSeq(<<OverTheWire(h)>>)
  BY <1>3, PassingIsSeq, SmallSeqs DEF IsStream, FrameSeq
<1>10. /\ <<>> \o Passing(fromLocal'.q) = Passing(fromLocal'.q)
       /\ <<>> \o (<<OverTheWire(h)>> \o Passing(fromLocal'.q)) = <<OverTheWire(h)>> \o Passing(fromLocal'.q)
  BY <1>9, Joined, ChainMove
<1>11. Passing(pump["up"].held) \o Passing(fromLocal.q)
         = Passing(pump'["up"].held) \o Passing(fromLocal'.q)
  BY <1>2, <1>4, <1>6, <1>8, <1>10
<1> QED BY <1>1, <1>3, <1>7, <1>11 DEF UpInv, Chain

\* A pump that writes the frame it holds at the end of its target.
LEMMA DownPut ==
  ASSUME IInv, pump["down"].pc = "writing",
         UNCHANGED <<hostGot, engineSent, down>>, toLocal' = WriteFrame(toLocal, Held("down")),
         pump'["down"] = Pump("reading")
  PROVE  DownInv'
<1>1. DownInv /\ IsStream(down) /\ IsStream(toLocal) /\ IsSeq(hostGot)
  BY DEF IInv, StreamsInv, EndsInv
<1>2. pump["down"].held = <<Held("down")>> /\ IsFrame(Held("down"))
  BY PumpAt DEF Directions
<1>3. PICK f : f = Held("down")
  OBVIOUS
<1>4. IsStream(toLocal') /\ toLocal'.q = Append(toLocal.q, EncodeFrame(f)) /\ toLocal'.gone = toLocal.gone
  BY <1>1, <1>2, <1>3, StreamWritten
<1>5. Wired(toLocal'.q) = Wired(toLocal.q) \o <<OverTheWire(f)>>
  BY <1>1, <1>4, WiredOfAppended DEF IsStream, FrameSeq
<1>6. Wired(pump["down"].held) = <<OverTheWire(f)>> /\ Wired(pump'["down"].held) = <<>>
  BY <1>2, <1>3, WiredOfSmall, SomePumps
<1>7. PICK a, x, s : /\ a = Wired(toLocal.q) /\ x = <<OverTheWire(f)>> /\ s = Passing(down.q)
                     /\ IsSeq(a) /\ IsSeq(x) /\ IsSeq(s)
  BY <1>1, WiredIsSeq, PassingIsSeq, SmallSeqs DEF IsStream, FrameSeq
<1>8. a \o (x \o s) = (a \o x) \o (<<>> \o s)
  BY <1>7, ChainMove
<1>9. Wired(toLocal.q) \o (Wired(pump["down"].held) \o Passing(down.q))
        = Wired(toLocal'.q) \o (Wired(pump'["down"].held) \o Passing(down'.q))
  BY <1>5, <1>6, <1>7, <1>8
<1> QED BY <1>1, <1>4, <1>9 DEF DownInv, Chain

LEMMA UpPut ==
  ASSUME IInv, pump["up"].pc = "writing",
         UNCHANGED <<engineGot, hostSent, fromLocal>>, up' = WriteFrame(up, Held("up")),
         pump'["up"] = Pump("reading")
  PROVE  UpInv'
<1>1. UpInv /\ IsStream(up) /\ IsStream(fromLocal) /\ IsSeq(engineGot)
  BY DEF IInv, StreamsInv, EndsInv
<1>2. pump["up"].held = <<Held("up")>> /\ IsFrame(Held("up"))
  BY PumpAt DEF Directions
<1>3. PICK f : f = Held("up")
  OBVIOUS
<1>4. IsStream(up') /\ up'.q = Append(up.q, EncodeFrame(f)) /\ up'.gone = up.gone
  BY <1>1, <1>2, <1>3, StreamWritten
<1>5. PICK e : e = EncodeFrame(f) /\ IsFrame(e) /\ OverTheWire(e) = OverTheWire(f)
               /\ (IsRelayFrame(e) <=> IsRelayFrame(f))
  BY <1>2, <1>3, TypeTravels, TravelledTwice
<1>6. Passing(<<e>>) = Passing(<<f>>)
  BY <1>2, <1>3, <1>5, PassingOfSmall
<1>7. Passing(up'.q) = Passing(up.q) \o Passing(<<f>>)
  <2>1. IsSeq(up.q) /\ IsSeq(<<e>>)
    BY <1>1, SmallSeqs DEF IsStream, FrameSeq
  <2>2. up'.q = up.q \o <<e>>
    BY <1>4, <1>5, <2>1, Appended
  <2>3. Passing(up.q \o <<e>>) = Passing(up.q) \o Passing(<<e>>)
    BY <2>1, PassingOfJoined
  <2> QED BY <1>6, <2>2, <2>3
<1>8. Passing(pump["up"].held) = Passing(<<f>>) /\ Passing(pump'["up"].held) = <<>>
  BY <1>2, <1>3, PassingOfSmall, SomePumps
<1>9. PICK a, x, s : /\ a = Passing(up.q) /\ x = Passing(<<f>>) /\ s = Passing(fromLocal.q)
                     /\ IsSeq(a) /\ IsSeq(x) /\ IsSeq(s)
  BY <1>1, PassingIsSeq, SmallSeqs DEF IsStream, FrameSeq
<1>10. a \o (x \o s) = (a \o x) \o (<<>> \o s)
  BY <1>9, ChainMove
<1>11. Passing(up.q) \o (Passing(pump["up"].held) \o Passing(fromLocal.q))
         = Passing(up'.q) \o (Passing(pump'["up"].held) \o Passing(fromLocal'.q))
  BY <1>7, <1>8, <1>9, <1>10
<1> QED BY <1>1, <1>4, <1>11 DEF UpInv, Chain

\* A pump that ends: its direction makes no promise any more.
LEMMA PumpEndsKeeps ==
  ASSUME NEW d \in Directions, IInv, pump[d].pc # "idle", pump' = [pump EXCEPT ![d] = Pump("ended")],
         UNCHANGED <<own, hello, negotiated, manifest, toCartridge, toHost, setup, answer,
                     engineSent, hostSent, hostGot, engineGot, down, up, toLocal, fromLocal, run, master>>
  PROVE  IInv'
<1>1. StreamsInv /\ PumpInv /\ EndsInv /\ HelloInv /\ AnswerInv /\ QuietInv /\ DownInv /\ UpInv
  BY DEF IInv
<1>2. IsPump(Pump("ended")) /\ Pump("ended").pc = "ended" /\ Pump("ended").held = <<>>
  BY SomePumps
<1>3. /\ PumpInv'
      /\ pump'[d] = Pump("ended")
      /\ \A e \in Directions : e # d => pump'[e] = pump[e]
  BY <1>1, <1>2, PumpChanged
<1>4. "up" \in Directions /\ "down" \in Directions
  BY DEF Directions
<1>5. StreamsInv' /\ EndsInv'
  BY <1>1 DEF StreamsInv, EndsInv
<1>6. HelloInv' /\ AnswerInv'
  BY <1>1, HelloKept
<1>7. QuietInv'
  <2>1. \A e \in Directions : pump'[e].held = pump[e].held \/ pump'[e].held = <<>>
    BY <1>2, <1>3
  <2> QED BY <1>1, <2>1, QuietKept
<1>8. DownInv'
  <2>1. CASE d = "down"
    BY <1>2, <1>3, <2>1 DEF DownInv
  <2>2. CASE d # "down"
    BY <1>1, <1>3, <1>4, <2>2, DownKept
  <2> QED BY <2>1, <2>2
<1>9. UpInv'
  <2>1. CASE d = "up"
    BY <1>1, <1>2, <1>3, <2>1 DEF UpInv
  <2>2. CASE d # "up"
    BY <1>1, <1>3, <1>4, <2>2, UpKept
  <2> QED BY <2>1, <2>2
<1> QED BY <1>3, <1>5, <1>6, <1>7, <1>8, <1>9 DEF IInv

LEMMA PumpReadsKeeps ==
  ASSUME NEW d \in Directions, IInv, PumpReads(d), UNCHANGED <<helloVars, ends>>
  PROVE  IInv'
<1>1. StreamsInv /\ PumpInv /\ EndsInv /\ HelloInv /\ AnswerInv /\ QuietInv /\ DownInv /\ UpInv
  BY DEF IInv
<1>2. UNCHANGED <<own, hello, negotiated, manifest, toCartridge, toHost, setup, answer,
                  engineSent, hostSent, hostGot, engineGot>>
  BY DEF helloVars, ends
<1>3. UNCHANGED <<slave, up, toLocal, upSent, run, master>> /\ pump[d].pc = "reading"
  BY DEF PumpReads
<1> DEFINE f == FrameRead(Source(d))
<1>4. CASE ReadOutcome(Source(d), DefaultLimits) # "frame"
  <2>1. pump' = [pump EXCEPT ![d] = Pump("ended")] /\ UNCHANGED <<down, fromLocal>>
    BY <1>4 DEF PumpReads, EndPump
  <2> QED BY <1>2, <1>3, <2>1, PumpEndsKeeps
<1>5. CASE ReadOutcome(Source(d), DefaultLimits) = "frame"
  <2> DEFINE p == IF PassesOn(d, f) THEN Writing(f) ELSE Pump("reading")
  <2>1. /\ pump' = [pump EXCEPT ![d] = p]
        /\ down' = IF d = "down" THEN AfterRead(down) ELSE down
        /\ fromLocal' = IF d = "up" THEN AfterRead(fromLocal) ELSE fromLocal
    BY <1>5 DEF PumpReads
  <2>2. Source(d).q # <<>> /\ IsStream(Source(d)) /\ pump[d].held = <<>>
    BY <1>3, <1>5, SomethingRead, PumpAt
  <2>3. IsFrame(f) /\ IsStream(AfterRead(Source(d)))
    BY <2>2, StreamRead
  <2>4. IsPump(p)
    BY <2>3, SomePumps
  <2> HIDE DEF p
  <2>5. /\ PumpInv'
        /\ pump'[d] = p
        /\ \A e \in Directions : e # d => pump'[e] = pump[e]
    BY <1>1, <1>3, <2>1, <2>4, PumpChanged
  <2>6. StreamsInv'
    BY <1>1, <1>2, <1>3, <2>1, <2>3 DEF StreamsInv, Source, Directions
  <2>7. EndsInv'
    BY <1>1, <1>2, <1>3 DEF EndsInv
  <2>8. HelloInv' /\ AnswerInv'
    BY <1>1, <1>2, HelloKept
  <2>9. "up" \in Directions /\ "down" \in Directions
    BY DEF Directions
  <2>10. CASE d = "down"
    <3>1. Source(d) = down /\ down' = AfterRead(down) /\ UNCHANGED fromLocal
      BY <2>1, <2>10 DEF Source
    <3>2. pump'["down"] = IF PassesOn("down", FrameRead(down)) THEN Writing(FrameRead(down)) ELSE Pump("reading")
      BY <2>5, <2>10, <3>1 DEF p
    <3>3. DownInv'
      BY <1>2, <1>3, <2>2, <2>10, <3>1, <3>2, DownTaken
    <3>4. UpInv'
      <4>1. pump'["up"] = pump["up"]
        BY <2>5, <2>9, <2>10
      <4> QED BY <1>1, <1>2, <1>3, <3>1, <4>1, UpKept
    <3>5. QuietInv'
      <4>1. engineSent # <<>>
        BY <1>1, <2>2, <3>1 DEF QuietInv, Quiet
      <4> QED BY <1>1, <1>2, <1>3, <4>1 DEF QuietInv
    <3> QED BY <2>5, <2>6, <2>7, <2>8, <3>3, <3>4, <3>5 DEF IInv
  <2>11. CASE d = "up"
    <3>1. Source(d) = fromLocal /\ fromLocal' = AfterRead(fromLocal) /\ UNCHANGED down
      BY <2>1, <2>11 DEF Source
    <3>2. pump'["up"] = IF PassesOn("up", FrameRead(fromLocal)) THEN Writing(FrameRead(fromLocal)) ELSE Pump("reading")
      BY <2>5, <2>11, <3>1 DEF p
    <3>3. UpInv'
      BY <1>2, <1>3, <2>2, <2>11, <3>1, <3>2, UpTaken
    <3>4. pump'["down"] = pump["down"]
      BY <2>5, <2>9, <2>11
    <3>5. DownInv'
      BY <1>1, <1>2, <1>3, <3>1, <3>4, DownKept
    <3>6. QuietInv'
      <4>1. SUFFICES ASSUME engineSent = <<>> PROVE Quiet'
        BY <1>1, <1>2, <1>3 DEF QuietInv
      <4>2. Quiet
        BY <1>1, <4>1 DEF QuietInv
      <4>3. IsSeq(fromLocal.q) /\ fromLocal.q # <<>>
        BY <2>2, <3>1 DEF IsStream, FrameSeq
      <4>4. AllRelay(Tail(fromLocal.q)) /\ IsRelayFrame(Head(fromLocal.q))
        BY <4>2, <4>3, RelayRead DEF Quiet
      <4>5. fromLocal'.q = Tail(fromLocal.q) /\ IsRelayFrame(FrameRead(fromLocal))
        BY <2>2, <3>1, <4>3, <4>4, StreamRead
      <4>6. pump'["up"].held = <<>>
        BY <3>2, <4>5, SomePumps DEF PassesOn
      <4> QED BY <1>2, <1>3, <3>1, <3>4, <4>2, <4>4, <4>5, <4>6 DEF Quiet
    <3> QED BY <2>5, <2>6, <2>7, <2>8, <3>3, <3>5, <3>6 DEF IInv
  <2> QED BY <2>10, <2>11 DEF Directions
<1> QED BY <1>4, <1>5

LEMMA PumpWritesKeeps ==
  ASSUME NEW d \in Directions, IInv, PumpWrites(d), UNCHANGED <<helloVars, ends>>
  PROVE  IInv'
<1>1. StreamsInv /\ PumpInv /\ EndsInv /\ HelloInv /\ AnswerInv /\ QuietInv /\ DownInv /\ UpInv
  BY DEF IInv
<1>2. UNCHANGED <<own, hello, negotiated, manifest, toCartridge, toHost, setup, answer,
                  engineSent, hostSent, hostGot, engineGot>>
  BY DEF helloVars, ends
<1>3. UNCHANGED <<slave, down, fromLocal, run, master>> /\ pump[d].pc = "writing"
  BY DEF PumpWrites
<1>4. CASE WriteOutcome(Target(d), Held(d), DefaultLimits) # "written"
  <2>1. pump' = [pump EXCEPT ![d] = Pump("ended")] /\ UNCHANGED <<up, toLocal>>
    BY <1>4 DEF PumpWrites, EndPump
  <2> QED BY <1>2, <1>3, <2>1, PumpEndsKeeps
<1>5. CASE WriteOutcome(Target(d), Held(d), DefaultLimits) = "written"
  <2>1. /\ pump' = [pump EXCEPT ![d] = Pump("reading")]
        /\ toLocal' = IF d = "down" THEN WriteFrame(toLocal, Held(d)) ELSE toLocal
        /\ up' = IF d = "up" THEN WriteFrame(up, Held(d)) ELSE up
    BY <1>5 DEF PumpWrites, SendsUp
  <2>2. IsStream(Target(d)) /\ IsFrame(Held(d)) /\ pump[d].held = <<Held(d)>>
    BY <1>3, PumpAt
  <2>3. IsStream(WriteFrame(Target(d), Held(d)))
    BY <2>2, StreamWritten
  <2>4. IsPump(Pump("reading"))
    BY SomePumps
  <2>5. /\ PumpInv'
        /\ pump'[d] = Pump("reading")
        /\ \A e \in Directions : e # d => pump'[e] = pump[e]
    BY <1>1, <1>3, <2>1, <2>4, PumpChanged
  <2>6. StreamsInv'
    BY <1>1, <1>2, <1>3, <2>1, <2>3 DEF StreamsInv, Target, Directions
  <2>7. EndsInv'
    BY <1>1, <1>2, <1>3 DEF EndsInv
  <2>8. HelloInv' /\ AnswerInv'
    BY <1>1, <1>2, HelloKept
  <2>9. "up" \in Directions /\ "down" \in Directions
    BY DEF Directions
  <2>10. QuietInv'
    <3>1. <<Held(d)>> # <<>>
      OBVIOUS
    <3>2. engineSent # <<>>
      BY <1>1, <2>2, <3>1 DEF QuietInv, Quiet, Directions
    <3> QED BY <1>1, <1>2, <1>3, <3>2 DEF QuietInv
  <2>11. CASE d = "down"
    <3>1. toLocal' = WriteFrame(toLocal, Held("down")) /\ UNCHANGED up /\ pump'["down"] = Pump("reading")
      BY <2>1, <2>5, <2>11
    <3>2. DownInv'
      BY <1>2, <1>3, <2>11, <3>1, DownPut
    <3>3. UpInv'
      <4>1. pump'["up"] = pump["up"]
        BY <2>5, <2>9, <2>11
      <4> QED BY <1>1, <1>2, <1>3, <3>1, <4>1, UpKept
    <3> QED BY <2>5, <2>6, <2>7, <2>8, <2>10, <3>2, <3>3 DEF IInv
  <2>12. CASE d = "up"
    <3>1. up' = WriteFrame(up, Held("up")) /\ UNCHANGED toLocal /\ pump'["up"] = Pump("reading")
      BY <2>1, <2>5, <2>12
    <3>2. UpInv'
      BY <1>2, <1>3, <2>12, <3>1, UpPut
    <3>3. DownInv'
      <4>1. pump'["down"] = pump["down"]
        BY <2>5, <2>9, <2>12
      <4> QED BY <1>1, <1>2, <1>3, <3>1, <4>1, DownKept
    <3> QED BY <2>5, <2>6, <2>7, <2>8, <2>10, <3>2, <3>3 DEF IInv
  <2> QED BY <2>11, <2>12 DEF Directions
<1> QED BY <1>4, <1>5

LEMMA RelayKeeps ==
  ASSUME IInv, Relay
  PROVE  IInv'
BY InitialNotifyKeeps, RunKeeps, PumpReadsKeeps, PumpWritesKeeps DEF Relay, SlaveStep

-----------------------------------------------------------------------------
(***************************************************************************)
(* The steps of the engine.                                                *)
(***************************************************************************)

\* What the reader will see of a frame that is sent.
Seen(f) == IF IsRelayFrame(f) THEN <<>> ELSE <<OverTheWire(f)>>

LEMMA SendingPasses ==
  ASSUME NEW q, NEW f, IsSeq(q), IsFrame(f)
  PROVE  /\ IsSeq(Seen(f))
         /\ Passing(Append(q, EncodeFrame(f))) = Passing(q) \o Seen(f)
         /\ Passing(Append(q, f)) = Passing(q) \o Seen(f)
<1>1. CASE IsRelayFrame(f)
  <2>1. Passing(Append(q, EncodeFrame(f))) = Passing(q) /\ Passing(Append(q, f)) = Passing(q)
    BY <1>1, PassingOfAppended
  <2>2. Passing(q) \o <<>> = Passing(q)
    BY PassingIsSeq, Joined, SmallSeqs
  <2> QED BY <1>1, <2>1, <2>2, SmallSeqs DEF Seen
<1>2. CASE ~ IsRelayFrame(f)
  <2>1. /\ Passing(Append(q, EncodeFrame(f))) = Passing(q) \o <<OverTheWire(f)>>
        /\ Passing(Append(q, f)) = Passing(q) \o <<OverTheWire(f)>>
    BY <1>2, PassingOfAppended
  <2> QED BY <1>2, <2>1, SmallSeqs DEF Seen
<1> QED BY <1>1, <1>2

LEMMA EngineSendsKeeps ==
  ASSUME IInv, EngineSends
  PROVE  IInv'
<1>1. StreamsInv /\ PumpInv /\ EndsInv /\ HelloInv /\ AnswerInv /\ QuietInv /\ DownInv /\ UpInv
  BY DEF IInv
<1>2. UNCHANGED <<slave, up, toLocal, fromLocal, upSent, pump, run, errCh, resourceState, master,
                  own, hello, negotiated, manifest, toCartridge, toHost,
                  setup, answer, hostSent, hostGot, engineGot>>
  BY DEF EngineSends, helloVars
<1>3. PICK f \in EngineFrames(Len(engineSent) + 1) :
        down' = WriteFrame(down, f) /\ engineSent' = Append(engineSent, f)
  BY DEF EngineSends
<1>4. IsFrame(f)
  BY FramesOfTheEngine
<1>5. IsStream(down) /\ IsSeq(engineSent) /\ FrameSeq(engineSent) /\ IsSeq(down.q)
  BY <1>1 DEF StreamsInv, EndsInv, FrameSeq, IsStream
<1>6. IsStream(down') /\ down'.q = Append(down.q, EncodeFrame(f)) /\ down'.gone = down.gone
  BY <1>3, <1>4, <1>5, StreamWritten
<1>7. FrameSeq(engineSent')
  BY <1>3, <1>4, <1>5, FramesAppended
<1>8. StreamsInv' /\ PumpInv' /\ EndsInv'
  BY <1>1, <1>2, <1>6, <1>7 DEF StreamsInv, PumpInv, EndsInv
<1>9. HelloInv' /\ AnswerInv'
  BY <1>1, <1>2, HelloKept
<1>10. QuietInv'
  <2>1. engineSent' # <<>>
    BY <1>3, <1>5, Appended, Shape, EmptySeq
  <2>2. master.state = "connected"
    BY DEF EngineSends
  <2> QED BY <1>2, <2>1, <2>2 DEF QuietInv
<1>11. UpInv'
  BY <1>1, <1>2, UpKept
<1>12. DownInv'
  <2>1. SUFFICES ASSUME pump["down"].pc # "ended", ~ toLocal.gone, ~ down.gone
                 PROVE  Chain(Frames(hostGot), Wired(toLocal.q), Wired(pump["down"].held), Passing(down'.q))
                          = Passing(engineSent')
    BY <1>2, <1>6 DEF DownInv
  <2>2. PICK x : IsSeq(x) /\ Passing(down'.q) = Passing(down.q) \o x
                 /\ Passing(engineSent') = Passing(engineSent) \o x
    <3>1. IsSeq(Seen(f)) /\ Passing(Append(down.q, EncodeFrame(f))) = Passing(down.q) \o Seen(f)
      BY <1>4, <1>5, SendingPasses
    <3>2. Passing(Append(engineSent, f)) = Passing(engineSent) \o Seen(f)
      BY <1>4, <1>5, SendingPasses
    <3> QED BY <1>3, <1>6, <3>1, <3>2
  <2>3. PICK g, a, h, b : /\ g = Frames(hostGot) /\ a = Wired(toLocal.q)
                          /\ h = Wired(pump["down"].held) /\ b = Passing(down.q)
    OBVIOUS
  <2>4. IsSeq(g) /\ IsSeq(a) /\ IsSeq(h) /\ IsSeq(b)
    <3>1. IsSeq(hostGot) /\ IsSeq(toLocal.q) /\ IsSeq(pump["down"].held)
      BY <1>1, PumpCases DEF EndsInv, StreamsInv, IsStream, FrameSeq, PumpInv, Directions
    <3> QED BY <1>5, <2>3, <3>1, FramesOfGot, WiredIsSeq, PassingIsSeq
  <2>5. Chain(g, a, h, b) = Passing(engineSent)
    BY <1>1, <2>1, <2>3 DEF DownInv
  <2>6. Chain(g, a, h, b \o x) = Chain(g, a, h, b) \o x
    BY <2>2, <2>4, ChainEnd
  <2> QED BY <2>2, <2>3, <2>5, <2>6
<1> QED BY <1>8, <1>9, <1>10, <1>11, <1>12 DEF IInv

LEMMA EngineConnectsKeeps ==
  ASSUME IInv, EngineConnects
  PROVE  IInv'
<1>1. StreamsInv /\ PumpInv /\ EndsInv /\ HelloInv /\ AnswerInv /\ QuietInv /\ DownInv /\ UpInv
  BY DEF IInv
<1>2. UNCHANGED <<own, hello, negotiated, manifest, toCartridge, toHost, setup, answer,
                  engineSent, hostSent, hostGot, engineGot, down, toLocal, fromLocal, pump, run>>
  BY DEF EngineConnects, ConnectRelayMaster, helloVars, ends
<1>3. /\ master.state = "connecting"
      /\ up' = IF ReadOutcome(up, DefaultLimits) = "frame" THEN AfterRead(up) ELSE up
  BY DEF EngineConnects, ConnectRelayMaster
<1>4. /\ master' = [state |-> master'.state, manifest |-> master'.manifest, limits |-> master'.limits]
      /\ master'.state # "connecting"
  <2>1. master = [state |-> master.state, manifest |-> master.manifest, limits |-> master.limits]
    BY <1>1 DEF EndsInv
  <2>2. PICK m, l, s : s # "connecting" /\ master' = [state |-> s, manifest |-> m, limits |-> l]
    BY <2>1 DEF EngineConnects, ConnectRelayMaster
  <2> QED BY <2>2
<1>5. IsStream(up) /\ FrameSeq(up.q) /\ IsSeq(up.q) /\ AllRelay(up.q)
  BY <1>1, <1>3 DEF StreamsInv, IsStream, FrameSeq, QuietInv, Quiet
<1>6. /\ IsStream(up') /\ up'.gone = up.gone
      /\ Passing(up'.q) = Passing(up.q) /\ AllRelay(up'.q)
  <2>1. CASE ReadOutcome(up, DefaultLimits) = "frame"
    <3>1. up.q # <<>> /\ up' = AfterRead(up)
      BY <1>3, <2>1, SomethingRead
    <3>2. IsStream(up') /\ up'.gone = up.gone /\ up'.q = Tail(up.q)
      BY <1>5, <3>1, StreamRead
    <3>3. AllRelay(Tail(up.q)) /\ IsRelayFrame(Head(up.q))
      BY <1>5, <3>1, RelayRead
    <3>4. Passing(Tail(up.q)) = Passing(up.q)
      BY <1>5, <3>1, <3>3, PassingOfRead
    <3> QED BY <3>2, <3>3, <3>4
  <2>2. CASE ReadOutcome(up, DefaultLimits) # "frame"
    BY <1>3, <1>5, <2>2
  <2> QED BY <2>1, <2>2
<1>7. StreamsInv' /\ PumpInv' /\ EndsInv'
  BY <1>1, <1>2, <1>4, <1>6 DEF StreamsInv, PumpInv, EndsInv
<1>8. HelloInv' /\ AnswerInv'
  BY <1>1, <1>2, HelloKept
<1>9. QuietInv'
  BY <1>1, <1>2, <1>4, <1>6, QuietKept
<1>10. DownInv'
  BY <1>1, <1>2, DownKept
<1>11. UpInv'
  BY <1>1, <1>2, <1>6, UpKept
<1> QED BY <1>7, <1>8, <1>9, <1>10, <1>11 DEF IInv

LEMMA EngineEndsKeeps ==
  ASSUME IInv, EngineEnds
  PROVE  IInv'
<1>1. StreamsInv /\ PumpInv /\ EndsInv /\ HelloInv /\ AnswerInv /\ QuietInv /\ DownInv /\ UpInv
  BY DEF IInv
<1>2. UNCHANGED <<own, hello, negotiated, manifest, toCartridge, toHost, setup, answer,
                  engineSent, hostSent, hostGot, engineGot, toLocal, fromLocal, pump, run, master>>
  BY DEF EngineEnds, helloVars, ends
<1>3. PICK tail \in Tail3 : down' = Close(down, tail) /\ up' = Abandon(up)
  BY DEF EngineEnds
<1>4. IsStream(down) /\ IsStream(up)
  BY <1>1 DEF StreamsInv
<1>5. IsStream(down') /\ down'.q = down.q /\ down'.gone = down.gone
  BY <1>3, <1>4, StreamClosed
<1>6. IsStream(up') /\ up'.q = <<>> /\ up'.gone
  BY <1>3, <1>4, StreamAbandoned
<1>7. StreamsInv' /\ PumpInv' /\ EndsInv'
  BY <1>1, <1>2, <1>5, <1>6 DEF StreamsInv, PumpInv, EndsInv
<1>8. HelloInv' /\ AnswerInv'
  BY <1>1, <1>2, HelloKept
<1>9. QuietInv'
  BY <1>1, <1>2, <1>5, <1>6, QuietKept
<1>10. DownInv'
  BY <1>1, <1>2, <1>5, DownKept
<1>11. UpInv'
  BY <1>1, <1>2, <1>6, UpKept
<1> QED BY <1>7, <1>8, <1>9, <1>10, <1>11 DEF IInv

\* What the last reader takes.
LEMMA ChainRead ==
  ASSUME NEW p, NEW x, NEW q, NEW r, NEW s, IsSeq(p), IsSeq(x), IsSeq(q), IsSeq(r), IsSeq(s)
  PROVE  Chain(p, x \o q, r, s) = Chain(p \o x, q, r, s)
<1>1. PICK u : u = r \o s /\ IsSeq(u)
  BY Joined
<1>2. PICK v : v = q \o u /\ IsSeq(v)
  BY <1>1, Joined
<1>3. (x \o q) \o u = x \o (q \o u)
  <2>1. IsSeq(u)
    BY <1>1
  <2> QED BY ONLY IsSeq(x), IsSeq(q), <2>1, Associative
<1>4. (p \o x) \o v = p \o (x \o v)
  <2>1. IsSeq(v)
    BY <1>2
  <2> QED BY ONLY IsSeq(p), IsSeq(x), <2>1, Associative
<1>5. Chain(p, x \o q, r, s) = p \o ((x \o q) \o u)
  BY <1>1 DEF Chain
<1>6. Chain(p \o x, q, r, s) = (p \o x) \o v
  BY <1>1, <1>2 DEF Chain
<1> QED BY <1>2, <1>3, <1>4, <1>5, <1>6

\* What the master hands out is at most one frame.
LEMMA FrameReturned ==
  ASSUME IInv, EngineReads
  PROVE  \/ Returned = <<>> /\ engineGot' = engineGot
         \/ \E r : /\ Returned = <<FrameRead(up)>>
                   /\ r.frame = FrameRead(up) /\ engineGot' = Append(engineGot, r)
<1>1. IsSeq(engineGot)
  BY DEF IInv, EndsInv
<1>2. engineGot' = engineGot \o [i \in DOMAIN Returned |->
                       [frame |-> Returned[i], manifest |-> master.manifest,
                        limits |-> master.limits]]
  BY DEF EngineReads
<1>3. CASE Returned = <<>>
  <2>1. [i \in DOMAIN Returned |->
           [frame |-> Returned[i], manifest |-> master.manifest, limits |-> master.limits]] = <<>>
    BY <1>3
  <2>2. engineGot \o <<>> = engineGot
    BY <1>1, Joined
  <2> QED BY <1>2, <1>3, <2>1, <2>2
<1>4. CASE Returned = <<FrameRead(up)>>
  <2>1. PICK f : f = FrameRead(up)
    OBVIOUS
  <2>2. PICK r : r = [frame |-> f, manifest |-> master.manifest, limits |-> master.limits]
    OBVIOUS
  <2>3. DOMAIN <<f>> = 1..1 /\ <<f>>[1] = f
    OBVIOUS
  <2>4. [i \in DOMAIN <<f>> |->
           [frame |-> <<f>>[i], manifest |-> master.manifest, limits |-> master.limits]]
          = [i \in 1..1 |-> r]
    <3>1. \A i \in 1..1 : i = 1
      OBVIOUS
    <3> QED BY <2>2, <2>3, <3>1
  <2>5. [i \in 1..1 |-> r] = <<r>>
    OBVIOUS
  <2>6. engineGot' = engineGot \o <<r>>
    BY <1>2, <1>4, <2>1, <2>4, <2>5
  <2>7. engineGot \o <<r>> = Append(engineGot, r)
    BY <1>1, Appended
  <2>8. r.frame = f
    BY <2>2
  <2> QED BY <1>4, <2>1, <2>6, <2>7, <2>8
<1> QED BY <1>3, <1>4 DEF Returned

LEMMA EngineReadsKeeps ==
  ASSUME IInv, EngineReads
  PROVE  IInv'
<1>1. StreamsInv /\ PumpInv /\ EndsInv /\ HelloInv /\ AnswerInv /\ QuietInv /\ DownInv /\ UpInv
  BY DEF IInv
<1>2. UNCHANGED <<own, hello, negotiated, manifest, toCartridge, toHost, setup, answer,
                  engineSent, hostSent, hostGot, down, toLocal, fromLocal, pump, run>>
  BY DEF EngineReads, MasterReadFrame, helloVars
<1>3. /\ master.state = "connected"
      /\ up' = IF ReadOutcome(up, DefaultLimits) = "frame" THEN AfterRead(up) ELSE up
  BY DEF EngineReads, MasterReadFrame
<1>4. /\ master' = [state |-> master'.state, manifest |-> master'.manifest, limits |-> master'.limits]
      /\ master'.state # "connecting"
  <2>1. master = [state |-> master.state, manifest |-> master.manifest, limits |-> master.limits]
    BY <1>1 DEF EndsInv
  <2>2. PICK f : f = FrameRead(up)
    OBVIOUS
  <2>3. \/ master' = master
        \/ \E s \in {"eof", "failed"} : master' = [master EXCEPT !.state = s]
        \/ master' = Updated(master, f)
    BY <2>2 DEF EngineReads, MasterReadFrame
  <2>4. PICK m, l : Updated(master, f) = [master EXCEPT !.manifest = m, !.limits = l]
    BY DEF Updated
  <2>5. [master EXCEPT !.manifest = m, !.limits = l] = [[master EXCEPT !.manifest = m] EXCEPT !.limits = l]
    OBVIOUS
  <2>6. PICK n : n = [master EXCEPT !.manifest = m]
    OBVIOUS
  <2>7. n = [state |-> master.state, manifest |-> m, limits |-> master.limits]
    BY <2>1, <2>6
  <2>8. [n EXCEPT !.limits = l] = [state |-> master.state, manifest |-> m, limits |-> l]
    BY <2>7
  <2>9. Updated(master, f) = [state |-> master.state, manifest |-> m, limits |-> l]
    BY <2>4, <2>5, <2>6, <2>8
  <2>10. PICK s, n2, l2 : s # "connecting" /\ master' = [state |-> s, manifest |-> n2, limits |-> l2]
    BY <1>3, <2>1, <2>3, <2>9
  <2> QED BY <2>10
<1>5. IsStream(up) /\ FrameSeq(up.q) /\ IsSeq(up.q)
  BY <1>1 DEF StreamsInv, IsStream, FrameSeq
<1>6. CASE ReadOutcome(up, DefaultLimits) # "frame"
  <2>1. up' = up /\ Returned = <<>>
    BY <1>3, <1>6 DEF Returned
  <2>2. <<>> # <<FrameRead(up)>>
    OBVIOUS
  <2>3. engineGot' = engineGot
    BY <2>1, <2>2, FrameReturned
  <2>4. StreamsInv' /\ PumpInv' /\ EndsInv'
    BY <1>1, <1>2, <1>4, <2>1, <2>3 DEF StreamsInv, PumpInv, EndsInv
  <2>5. HelloInv' /\ AnswerInv'
    BY <1>1, <1>2, HelloKept
  <2>6. QuietInv'
    BY <1>1, <1>2, <1>4, <2>1, QuietKept
  <2>7. DownInv'
    BY <1>1, <1>2, DownKept
  <2>8. UpInv'
    BY <1>1, <1>2, <2>1, <2>3, UpKept
  <2> QED BY <2>4, <2>5, <2>6, <2>7, <2>8 DEF IInv
<1>7. CASE ReadOutcome(up, DefaultLimits) = "frame"
  <2>1. up.q # <<>> /\ up' = AfterRead(up)
    BY <1>3, <1>7, SomethingRead
  <2>2. PICK h : h = Head(up.q)
    OBVIOUS
  <2>3. /\ IsStream(up') /\ up'.gone = up.gone /\ up'.q = Tail(up.q)
        /\ IsFrame(h) /\ FrameRead(up) = OverTheWire(h)
        /\ IsRelayFrame(FrameRead(up)) <=> IsRelayFrame(h)
    BY <1>5, <2>1, <2>2, StreamRead
  <2>4. Passing(up.q) = IF IsRelayFrame(h) THEN Passing(up'.q) ELSE <<OverTheWire(h)>> \o Passing(up'.q)
    BY <1>5, <2>1, <2>2, <2>3, PassingOfRead
  <2>5. IsSeq(up'.q) /\ IsSeq(engineGot)
    BY <1>1, <2>3 DEF IsStream, FrameSeq, EndsInv
  <2>6. QuietInv'
    <3>1. AllRelay(up.q) => AllRelay(up'.q)
      BY <1>5, <2>1, <2>3, RelayRead
    <3> QED BY <1>1, <1>2, <1>4, <3>1, QuietKept
  <2>7. HelloInv' /\ AnswerInv'
    BY <1>1, <1>2, HelloKept
  <2>8. DownInv'
    BY <1>1, <1>2, DownKept
  <2>9. CASE IsRelayFrame(h)
    <3>1. Returned = <<>>
      BY <1>7, <2>3, <2>9 DEF Returned
    <3>2. <<>> # <<FrameRead(up)>>
      OBVIOUS
    <3>3. engineGot' = engineGot
      BY <3>1, <3>2, FrameReturned
    <3>4. StreamsInv' /\ PumpInv' /\ EndsInv'
      BY <1>1, <1>2, <1>4, <2>3, <3>3 DEF StreamsInv, PumpInv, EndsInv
    <3>5. UpInv'
      BY <1>1, <1>2, <2>3, <2>4, <2>9, <3>3, UpKept
    <3> QED BY <2>6, <2>7, <2>8, <3>4, <3>5 DEF IInv
  <2>10. CASE ~ IsRelayFrame(h)
    <3>1. Returned = <<FrameRead(up)>> /\ <<FrameRead(up)>> # <<>>
      BY <1>7, <2>3, <2>10 DEF Returned
    <3>2. PICK r : r.frame = OverTheWire(h) /\ engineGot' = Append(engineGot, r)
      BY <2>3, <3>1, FrameReturned
    <3>3. IsSeq(engineGot') /\ Frames(engineGot') = Frames(engineGot) \o <<OverTheWire(h)>>
      <4>1. IsSeq(Append(engineGot, r))
        BY <2>5, Appended
      <4>2. Frames(Append(engineGot, r)) = Frames(engineGot) \o <<r.frame>>
        BY <2>5, FramesOfAppended
      <4> QED BY <3>2, <4>1, <4>2
    <3>4. StreamsInv' /\ PumpInv' /\ EndsInv'
      BY <1>1, <1>2, <1>4, <2>3, <3>3 DEF StreamsInv, PumpInv, EndsInv
    <3>5. PICK x : x = <<OverTheWire(h)>> /\ IsSeq(x) /\ Others(x) = x
      <4>1. ~ IsRelayFrame(OverTheWire(h))
        BY <2>3, <2>10
      <4> QED BY <4>1, SmallSeqs, OthersOfOne
    <3>6. PICK g, a, p, b : /\ g = Frames(engineGot) /\ a = Passing(up'.q)
                            /\ p = Passing(pump["up"].held) /\ b = Passing(fromLocal.q)
      OBVIOUS
    <3>7. IsSeq(g) /\ IsSeq(a) /\ IsSeq(p) /\ IsSeq(b)
      <4>1. IsSeq(fromLocal.q) /\ IsSeq(pump["up"].held)
        BY <1>1, PumpCases DEF StreamsInv, IsStream, FrameSeq, PumpInv, Directions
      <4> QED BY <2>5, <3>6, <4>1, FramesOfGot, PassingIsSeq
    <3>8. Others(g \o x) = g \o x
      <4>1. Others(g) = g
        BY <1>1, <3>6 DEF UpInv
      <4>2. Others(g \o x) = Others(g) \o Others(x)
        BY <3>5, <3>7, OthersOfJoined
      <4> QED BY <3>5, <4>1, <4>2
    <3>9. Chain(g, x \o a, p, b) = Chain(g \o x, a, p, b)
      BY <3>5, <3>7, ChainRead
    <3>10. UpInv'
      BY <1>1, <1>2, <2>3, <2>4, <2>10, <3>3, <3>5, <3>6, <3>8, <3>9 DEF UpInv
    <3> QED BY <2>6, <2>7, <2>8, <3>4, <3>10 DEF IInv
  <2> QED BY <2>9, <2>10
<1> QED BY <1>6, <1>7

-----------------------------------------------------------------------------
(***************************************************************************)
(* The steps of the host.                                                  *)
(***************************************************************************)

LEMMA HostReadsKeeps ==
  ASSUME IInv, HostReads
  PROVE  IInv'
<1>1. StreamsInv /\ PumpInv /\ EndsInv /\ HelloInv /\ AnswerInv /\ QuietInv /\ DownInv /\ UpInv
  BY DEF IInv
<1>2. UNCHANGED <<own, hello, negotiated, manifest, toCartridge, toHost, setup, answer,
                  engineSent, hostSent, engineGot, down, up, fromLocal, pump, run, master>>
  BY DEF HostReads, helloVars
<1>3. PICK r : /\ r.frame = FrameRead(toLocal)
               /\ hostGot' = Append(hostGot, r)
               /\ toLocal' = AfterRead(toLocal) /\ toLocal.q # <<>>
  <2>1. toLocal' = AfterRead(toLocal) /\ toLocal.q # <<>>
    BY SomethingRead DEF HostReads
  <2>2. PICK f : f = FrameRead(toLocal)
    OBVIOUS
  <2>3. hostGot' = Append(hostGot, [frame |-> f, state |-> resourceState])
    BY <2>2 DEF HostReads
  <2>4. [frame |-> f, state |-> resourceState].frame = f
    OBVIOUS
  <2> QED BY <2>1, <2>2, <2>3, <2>4
<1>4. IsStream(toLocal) /\ FrameSeq(toLocal.q) /\ IsSeq(toLocal.q) /\ IsSeq(hostGot)
  BY <1>1 DEF StreamsInv, IsStream, FrameSeq, EndsInv
<1>5. PICK h : h = Head(toLocal.q)
  OBVIOUS
<1>6. /\ IsStream(toLocal') /\ toLocal'.gone = toLocal.gone /\ toLocal'.q = Tail(toLocal.q)
      /\ FrameRead(toLocal) = OverTheWire(h)
  BY <1>3, <1>4, <1>5, StreamRead
<1>7. IsSeq(toLocal'.q)
  BY <1>6 DEF IsStream, FrameSeq
<1>8. IsSeq(hostGot') /\ Frames(hostGot') = Frames(hostGot) \o <<OverTheWire(h)>>
  <2>1. IsSeq(Append(hostGot, r))
    BY <1>4, Appended
  <2>2. Frames(Append(hostGot, r)) = Frames(hostGot) \o <<r.frame>>
    BY <1>4, FramesOfAppended
  <2> QED BY <1>3, <1>6, <2>1, <2>2
<1>9. Wired(toLocal.q) = <<OverTheWire(h)>> \o Wired(toLocal'.q)
  BY <1>3, <1>4, <1>5, <1>6, WiredOfRead
<1>10. StreamsInv' /\ PumpInv' /\ EndsInv'
  BY <1>1, <1>2, <1>6, <1>8 DEF StreamsInv, PumpInv, EndsInv
<1>11. HelloInv' /\ AnswerInv'
  BY <1>1, <1>2, HelloKept
<1>12. QuietInv'
  BY <1>1, <1>2, <1>3 DEF QuietInv, Quiet
<1>13. UpInv'
  BY <1>1, <1>2, UpKept
<1>14. DownInv'
  <2>1. PICK g, x, a, p, b : /\ g = Frames(hostGot) /\ x = <<OverTheWire(h)>> /\ a = Wired(toLocal'.q)
                             /\ p = Wired(pump["down"].held) /\ b = Passing(down.q)
    OBVIOUS
  <2>2. IsSeq(g) /\ IsSeq(x) /\ IsSeq(a) /\ IsSeq(p) /\ IsSeq(b)
    <3>1. IsSeq(down.q) /\ IsSeq(pump["down"].held)
      BY <1>1, PumpCases DEF StreamsInv, IsStream, FrameSeq, PumpInv, Directions
    <3> QED BY <1>4, <1>7, <2>1, <3>1, FramesOfGot, WiredIsSeq, PassingIsSeq, SmallSeqs
  <2>3. Chain(g, x \o a, p, b) = Chain(g \o x, a, p, b)
    BY <2>2, ChainRead
  <2> QED BY <1>1, <1>2, <1>6, <1>8, <1>9, <2>1, <2>3 DEF DownInv
<1> QED BY <1>10, <1>11, <1>12, <1>13, <1>14 DEF IInv

LEMMA SlaveNotifiesKeeps ==
  ASSUME IInv, SlaveNotifies
  PROVE  IInv'
<1>1. PICK limits \in NotifyLimits : SendNotify(<<Notifications>>, limits)
  BY DEF SlaveNotifies
<1>2. UNCHANGED <<helloVars, ends>>
  BY DEF SlaveNotifies
<1> QED BY <1>1, <1>2, NotifyKeeps

\* What the host writes is behind everything that is on its way to the engine.
LEMMA HostWritesUp ==
  ASSUME NEW f, IsFrame(f), StreamsInv, PumpInv, EndsInv, UpInv, HostWrites(f),
         UNCHANGED <<up, pump, engineGot>>
  PROVE  /\ IsStream(fromLocal') /\ FrameSeq(hostSent')
         /\ fromLocal'.q = Append(fromLocal.q, EncodeFrame(f))
         /\ UpInv'
<1>1. fromLocal' = WriteFrame(fromLocal, f) /\ hostSent' = Append(hostSent, f)
  BY DEF HostWrites
<1>2. IsStream(fromLocal) /\ IsSeq(fromLocal.q) /\ FrameSeq(hostSent) /\ IsSeq(hostSent)
  BY DEF StreamsInv, EndsInv, FrameSeq, IsStream
<1>3. IsStream(fromLocal') /\ fromLocal'.q = Append(fromLocal.q, EncodeFrame(f))
      /\ fromLocal'.gone = fromLocal.gone
  BY <1>1, <1>2, StreamWritten
<1>4. FrameSeq(hostSent')
  BY <1>1, <1>2, FramesAppended
<1>5. PICK x : IsSeq(x) /\ Passing(fromLocal'.q) = Passing(fromLocal.q) \o x
               /\ Passing(hostSent') = Passing(hostSent) \o x
  <2>1. IsSeq(Seen(f)) /\ Passing(Append(fromLocal.q, EncodeFrame(f))) = Passing(fromLocal.q) \o Seen(f)
    BY <1>2, SendingPasses
  <2>2. Passing(Append(hostSent, f)) = Passing(hostSent) \o Seen(f)
    BY <1>2, SendingPasses
  <2> QED BY <1>1, <1>3, <2>1, <2>2
<1>6. PICK g, a, p, b : /\ g = Frames(engineGot) /\ a = Passing(up.q)
                        /\ p = Passing(pump["up"].held) /\ b = Passing(fromLocal.q)
  OBVIOUS
<1>7. IsSeq(g) /\ IsSeq(a) /\ IsSeq(p) /\ IsSeq(b)
  <2>1. IsSeq(engineGot) /\ IsSeq(up.q) /\ IsSeq(pump["up"].held)
    BY PumpCases DEF EndsInv, StreamsInv, IsStream, FrameSeq, PumpInv, Directions
  <2> QED BY <1>2, <1>6, <2>1, FramesOfGot, PassingIsSeq
<1>8. Chain(g, a, p, b \o x) = Chain(g, a, p, b) \o x
  BY <1>5, <1>7, ChainEnd
<1>9. UpInv'
  <2>1. SUFFICES ASSUME pump["up"].pc # "ended", ~ up.gone, ~ fromLocal.gone
                 PROVE  Chain(Frames(engineGot), Passing(up.q), Passing(pump["up"].held), Passing(fromLocal'.q))
                          = Passing(hostSent')
    BY <1>3 DEF UpInv
  <2>2. Chain(g, a, p, b) = Passing(hostSent)
    BY <1>6, <2>1 DEF UpInv
  <2> QED BY <1>5, <1>6, <1>8, <2>2
<1> QED BY <1>3, <1>4, <1>9

LEMMA HostNotifiesKeeps ==
  ASSUME IInv, HostNotifies
  PROVE  IInv'
<1>1. StreamsInv /\ PumpInv /\ EndsInv /\ HelloInv /\ AnswerInv /\ QuietInv /\ DownInv /\ UpInv
  BY DEF IInv
<1>2. UNCHANGED <<own, hello, negotiated, manifest, toCartridge, toHost, setup, answer,
                  engineSent, hostGot, engineGot, down, up, toLocal, pump, run, master>>
  BY DEF HostNotifies, helloVars
<1>3. PICK f : IsFrame(f) /\ IsRelayFrame(f) /\ HostWrites(f)
  BY FramesOfTheRelay DEF HostNotifies
<1>4. /\ IsStream(fromLocal') /\ FrameSeq(hostSent')
      /\ fromLocal'.q = Append(fromLocal.q, EncodeFrame(f))
      /\ UpInv'
  BY <1>1, <1>2, <1>3, HostWritesUp
<1>5. StreamsInv' /\ PumpInv' /\ EndsInv'
  BY <1>1, <1>2, <1>4 DEF StreamsInv, PumpInv, EndsInv
<1>6. HelloInv' /\ AnswerInv'
  BY <1>1, <1>2, HelloKept
<1>7. DownInv'
  BY <1>1, <1>2, DownKept
<1>8. AllRelay(fromLocal.q) => AllRelay(fromLocal'.q)
  <2>1. IsRelayFrame(EncodeFrame(f))
    BY <1>3, TypeTravels
  <2>2. IsSeq(fromLocal.q)
    BY <1>1 DEF StreamsInv, IsStream, FrameSeq
  <2> QED BY <1>4, <2>1, <2>2, RelayAppended
<1>9. QuietInv'
  BY <1>1, <1>2, <1>8 DEF QuietInv, Quiet, AllRelay
<1> QED BY <1>4, <1>5, <1>6, <1>7, <1>9 DEF IInv

LEMMA HostEndsKeeps ==
  ASSUME IInv, HostEnds
  PROVE  IInv'
<1>1. StreamsInv /\ PumpInv /\ EndsInv /\ HelloInv /\ AnswerInv /\ QuietInv /\ DownInv /\ UpInv
  BY DEF IInv
<1>2. UNCHANGED <<own, hello, negotiated, manifest, toCartridge, toHost, setup, answer,
                  engineSent, hostSent, hostGot, engineGot, down, up, pump, run, master>>
  BY DEF HostEnds, helloVars, ends
<1>3. fromLocal' = Close(fromLocal, "none") /\ toLocal' = Abandon(toLocal)
  BY DEF HostEnds
<1>4. IsStream(fromLocal) /\ IsStream(toLocal)
  BY <1>1 DEF StreamsInv
<1>5. IsStream(fromLocal') /\ fromLocal'.q = fromLocal.q /\ fromLocal'.gone = fromLocal.gone
  BY <1>3, <1>4, StreamClosed
<1>6. IsStream(toLocal') /\ toLocal'.q = <<>> /\ toLocal'.gone
  BY <1>3, <1>4, StreamAbandoned
<1>7. StreamsInv' /\ PumpInv' /\ EndsInv'
  BY <1>1, <1>2, <1>5, <1>6 DEF StreamsInv, PumpInv, EndsInv
<1>8. HelloInv' /\ AnswerInv'
  BY <1>1, <1>2, HelloKept
<1>9. QuietInv'
  BY <1>1, <1>2, <1>5, <1>6, QuietKept
<1>10. DownInv'
  BY <1>1, <1>2, <1>6, DownKept
<1>11. UpInv'
  BY <1>1, <1>2, <1>5, UpKept
<1> QED BY <1>7, <1>8, <1>9, <1>10, <1>11 DEF IInv

\* The host has got something only after the engine has sent something.
LEMMA SomethingSent ==
  ASSUME QuietInv, Requests # {} \/ answer.state # "none"
  PROVE  engineSent # <<>>
<1>1. Requests # {} => hostGot # <<>>
  BY DEF Requests
<1> QED BY <1>1 DEF QuietInv, Quiet

\* A frame of the cartridge, when the handshake is over.
LEMMA HostForwardsAFrame ==
  ASSUME IInv, hello["host"] = "ready", toHost.q # <<>>,
         HostWrites(FrameRead(toHost)), toHost' = AfterRead(toHost),
         UNCHANGED <<own, hello, negotiated, manifest, toCartridge, setup, answer,
                     engineSent, hostGot, engineGot, down, up, toLocal, pump, run, master>>
  PROVE  IInv'
<1>1. StreamsInv /\ PumpInv /\ EndsInv /\ HelloInv /\ AnswerInv /\ QuietInv /\ DownInv /\ UpInv
  BY DEF IInv
<1>2. IsStream(toHost') /\ IsFrame(FrameRead(toHost))
  BY <1>1, StreamRead DEF StreamsInv
<1>3. PICK f : f = FrameRead(toHost)
  OBVIOUS
<1>4. /\ IsStream(fromLocal') /\ FrameSeq(hostSent') /\ UpInv'
  BY <1>1, <1>2, <1>3, HostWritesUp
<1>5. StreamsInv' /\ PumpInv' /\ EndsInv'
  BY <1>1, <1>2, <1>4 DEF StreamsInv, PumpInv, EndsInv
<1>6. answer.state # "none"
  BY <1>1 DEF AnswerInv
<1>7. HelloInv' /\ AnswerInv'
  <2>1. hello["cartridge"] # "start"
    BY <1>1 DEF HelloInv
  <2> QED BY <1>1, <1>6, <2>1 DEF HelloInv, AnswerInv, HostHello, CartridgeHello
<1>8. QuietInv'
  BY <1>1, <1>6, SomethingSent DEF QuietInv
<1>9. DownInv'
  BY <1>1, DownKept
<1> QED BY <1>4, <1>5, <1>7, <1>8, <1>9 DEF IInv

\* One side of the handshake gives up.
LEMMA HostFails ==
  ASSUME HelloInv, AnswerInv, Fail("host"),
         own' = own, negotiated' = negotiated, toCartridge' = toCartridge,
         setup' = setup, answer' = answer,
         toHost' = toHost \/ hello["cartridge"] # "start"
  PROVE  HelloInv' /\ AnswerInv'
<1>1. /\ hello' \in [Sides -> {"start", "waiting", "ready", "failed"}]
      /\ hello'["host"] = "failed" /\ hello'["cartridge"] = hello["cartridge"]
  BY DEF HelloInv, Fail, Sides
<1>2. AnswerInv'
  BY <1>1 DEF AnswerInv
<1>3. HelloInv'
  BY <1>1 DEF HelloInv, HostHello, CartridgeHello
<1> QED BY <1>2, <1>3

\* The cartridge is gone, and perhaps a request is answered with an error.
LEMMA HostForwardsAnError ==
  ASSUME IInv, Fail("host"),
         \/ UNCHANGED <<fromLocal, hostSent>>
         \/ Requests # {} /\ HostWrites(NewErr(FirstRequest, "CARTRIDGE_DIED")),
         UNCHANGED <<own, negotiated, manifest, toCartridge, toHost, setup, answer,
                     engineSent, hostGot, engineGot, down, up, toLocal, pump, run, master>>
  PROVE  IInv'
<1>1. StreamsInv /\ PumpInv /\ EndsInv /\ HelloInv /\ AnswerInv /\ QuietInv /\ DownInv /\ UpInv
  BY DEF IInv
<1>2. HelloInv' /\ AnswerInv'
  BY <1>1, HostFails
<1>3. DownInv'
  BY <1>1, DownKept
<1>4. CASE UNCHANGED <<fromLocal, hostSent>>
  <2>1. StreamsInv' /\ PumpInv' /\ EndsInv'
    BY <1>1, <1>4 DEF StreamsInv, PumpInv, EndsInv
  <2>2. QuietInv'
    BY <1>1, <1>4, QuietKept
  <2>3. UpInv'
    BY <1>1, <1>4, UpKept
  <2> QED BY <1>2, <1>3, <2>1, <2>2, <2>3 DEF IInv
<1>5. CASE Requests # {} /\ HostWrites(NewErr(FirstRequest, "CARTRIDGE_DIED"))
  <2>1. PICK f : f = NewErr(FirstRequest, "CARTRIDGE_DIED") /\ IsFrame(f)
    BY FramesOfAnError
  <2>2. IsStream(fromLocal') /\ FrameSeq(hostSent') /\ UpInv'
    BY <1>1, <1>5, <2>1, HostWritesUp
  <2>3. StreamsInv' /\ PumpInv' /\ EndsInv'
    BY <1>1, <2>2 DEF StreamsInv, PumpInv, EndsInv
  <2>4. QuietInv'
    BY <1>1, <1>5, SomethingSent DEF QuietInv
  <2> QED BY <1>2, <1>3, <2>2, <2>3, <2>4 DEF IInv
<1> QED BY <1>4, <1>5

LEMMA HostForwardsKeeps ==
  ASSUME IInv, HostForwards
  PROVE  IInv'
<1>1. UNCHANGED <<own, negotiated, manifest, toCartridge, setup, answer,
                  engineSent, hostGot, engineGot, down, up, toLocal, pump, run, master>>
  BY DEF HostForwards
<1>2. hello["host"] = "ready"
  BY DEF HostForwards
<1>3. CASE ReadOutcome(toHost, negotiated["host"]) = "frame"
  <2>1. /\ HostWrites(FrameRead(toHost)) /\ toHost' = AfterRead(toHost) /\ UNCHANGED hello
        /\ toHost.q # <<>>
    BY <1>3, SomethingRead DEF HostForwards
  <2> QED BY <1>1, <1>2, <2>1, HostForwardsAFrame
<1>4. CASE ReadOutcome(toHost, negotiated["host"]) # "frame"
  <2>1. /\ Fail("host") /\ UNCHANGED toHost
        /\ \/ UNCHANGED <<fromLocal, hostSent>>
           \/ Requests # {} /\ HostWrites(NewErr(FirstRequest, "CARTRIDGE_DIED"))
    BY <1>4 DEF HostForwards
  <2> QED BY <1>1, <2>1, HostForwardsAnError
<1> QED BY <1>3, <1>4

-----------------------------------------------------------------------------
(***************************************************************************)
(* The steps of the cartridge.                                             *)
(***************************************************************************)

LEMMA FirstIsFrame ==
  ASSUME NEW q, FrameSeq(q), q # <<>>
  PROVE  IsFrame(q[1]) /\ FrameSeq(Tail(q))
<1>1. IsSeq(q)
  BY DEF FrameSeq
<1> QED BY <1>1, FramesRead, HeadAndTail DEF FrameSeq

LEMMA PairOfFrames ==
  ASSUME NEW x, NEW y, IsFrame(x), IsFrame(y)
  PROVE  FrameSeq(<<x, y>>)
<1>1. /\ Len(<<x, y>>) = 2 /\ <<x, y>>[1] = x /\ <<x, y>>[2] = y
      /\ <<x, y>> \in Seq({x, y})
  OBVIOUS
<1>2. \A i \in 1..2 : i = 1 \/ i = 2
  OBVIOUS
<1> QED BY <1>1, <1>2, SeqIsSeq DEF FrameSeq

LEMMA FramesOfAnAnswer ==
  ASSUME HelloInv, NEW id, NEW p, NEW q, IsSeq(p), IsSeq(q)
  PROVE  \A a \in {OneStream(id, p), TwoStreams(id, p, q)} :
           /\ a = [state |-> a.state, frames |-> a.frames, streams |-> a.streams]
           /\ a.state = "writing" /\ FrameSeq(a.frames)
<1> DEFINE max == negotiated["cartridge"].max_chunk
           a == ResponseFrames(id, "s", {"text"}, p, max)
           b == ResponseFrames(id, "t", {"pdf"}, q, max)
           c == SubSeq(a, 2, Len(a) - 1)
<1>1. max \in Nat \ {0}
  BY LimitsAreLimited DEF HelloInv, Limited, LimitNames, Sides
<1>2. PICK s : s = ResponseFrames(id, "s", Media, p, max) /\ FrameSeq(s)
  BY <1>1, FramesOfAResponse
<1>3. FrameSeq(a) /\ a # <<>> /\ FrameSeq(b) /\ b # <<>>
  BY <1>1, FramesOfAResponse
<1>4. PICK x : x = [s |-> p]
  OBVIOUS
<1>5. PICK y : y = [s |-> p, t |-> q]
  OBVIOUS
<1>6. OneStream(id, p) = [state |-> "writing", streams |-> x, frames |-> s]
  BY <1>2, <1>4 DEF OneStream
<1>7. PICK t : t = <<a[1], b[1]>> \o c \o Tail(b)
  OBVIOUS
<1>8. TwoStreams(id, p, q) = [state |-> "writing", streams |-> y, frames |-> t]
  BY <1>5, <1>7 DEF TwoStreams
<1>9. FrameSeq(t)
  <2> HIDE DEF a, b, c
  <2>1. FrameSeq(<<a[1], b[1]>>)
    BY <1>3, FirstIsFrame, PairOfFrames
  <2>2. FrameSeq(c)
    BY <1>3, FrameSeqsCut DEF c
  <2>3. FrameSeq(Tail(b))
    BY <1>3, FirstIsFrame
  <2>4. FrameSeq(<<a[1], b[1]>> \o c)
    BY <2>1, <2>2, FrameSeqsJoined
  <2> QED BY <1>7, <2>3, <2>4, FrameSeqsJoined
<1> HIDE DEF a, b, c, max
<1>10. ASSUME NEW z, NEW f, NEW u, z = [state |-> "writing", streams |-> u, frames |-> f], FrameSeq(f)
       PROVE  /\ z = [state |-> z.state, frames |-> z.frames, streams |-> z.streams]
              /\ z.state = "writing" /\ FrameSeq(z.frames)
  <2>1. z.state = "writing" /\ z.frames = f /\ z.streams = u
    BY <1>10
  <2> QED BY <1>10, <2>1
<1> QED BY <1>2, <1>6, <1>8, <1>9, <1>10

LEMMA CartridgeAnswersKeeps ==
  ASSUME IInv, CartridgeAnswers
  PROVE  IInv'
<1>1. StreamsInv /\ PumpInv /\ EndsInv /\ HelloInv /\ AnswerInv /\ QuietInv /\ DownInv /\ UpInv
  BY DEF IInv
<1>2. UNCHANGED <<linkVars, helloVars, setup, engineSent, hostSent, hostGot, engineGot>>
  BY DEF CartridgeAnswers
<1>3. UNCHANGED <<own, hello, negotiated, toCartridge, toHost, setup, engineSent, hostSent, hostGot,
                  engineGot, down, up, toLocal, fromLocal, pump, run, master>>
  BY <1>2 DEF linkVars, helloVars
<1>4. /\ answer' = [state |-> answer'.state, frames |-> answer'.frames, streams |-> answer'.streams]
      /\ answer'.state = "writing" /\ FrameSeq(answer'.frames)
  <2>1. PICK p \in setup.payloads : answer' \in {OneStream(FirstRequest, p),
                                                 TwoStreams(FirstRequest, p, <<"x">>)}
    BY DEF CartridgeAnswers
  <2>2. IsSeq(p) /\ IsSeq(<<"x">>)
    BY <1>1, SetupLimits, SmallSeqs DEF EndsInv
  <2>3. PICK id, q, a : id = FirstRequest /\ q = <<"x">> /\ a = answer'
    OBVIOUS
  <2>4. a \in {OneStream(id, p), TwoStreams(id, p, q)}
    BY <2>1, <2>3
  <2>5. /\ a = [state |-> a.state, frames |-> a.frames, streams |-> a.streams]
        /\ a.state = "writing" /\ FrameSeq(a.frames)
    BY <1>1, <2>2, <2>3, <2>4, FramesOfAnAnswer
  <2> QED BY <2>3, <2>5
<1>5. hello["cartridge"] = "ready" /\ engineSent # <<>>
  BY <1>1, SomethingSent DEF CartridgeAnswers
<1>6. StreamsInv' /\ PumpInv' /\ EndsInv'
  BY <1>1, <1>3, <1>4 DEF StreamsInv, PumpInv, EndsInv
<1>7. HelloInv' /\ AnswerInv'
  BY <1>1, <1>3, <1>4, <1>5 DEF HelloInv, AnswerInv, HostHello, CartridgeHello
<1>8. QuietInv'
  BY <1>1, <1>3, <1>5 DEF QuietInv
<1>9. DownInv' /\ UpInv'
  BY <1>1, <1>3, DownKept, UpKept
<1> QED BY <1>6, <1>7, <1>8, <1>9 DEF IInv

LEMMA CartridgeWritesKeeps ==
  ASSUME IInv, CartridgeWrites
  PROVE  IInv'
<1>1. StreamsInv /\ PumpInv /\ EndsInv /\ HelloInv /\ AnswerInv /\ QuietInv /\ DownInv /\ UpInv
  BY DEF IInv
<1>2. UNCHANGED <<own, hello, negotiated, toCartridge, setup, engineSent, hostSent, hostGot,
                  engineGot, down, up, toLocal, fromLocal, pump, run, master>>
  BY DEF CartridgeWrites, linkVars
<1>3. hello["cartridge"] = "ready" /\ answer.frames # <<>>
  BY DEF CartridgeWrites
<1>4. answer.state # "none" /\ engineSent # <<>>
  BY <1>1, <1>3, SomethingSent DEF AnswerInv
<1>5. answer = [state |-> answer.state, frames |-> answer.frames, streams |-> answer.streams]
      /\ FrameSeq(answer.frames)
  BY <1>1 DEF EndsInv
<1>6. PICK f : f = Head(answer.frames) /\ IsFrame(f)
  BY <1>3, <1>5, FramesRead
<1>7. \/ /\ toHost' = WriteFrame(toHost, f)
         /\ answer' = [answer EXCEPT !.frames = Tail(@)]
      \/ /\ answer' = [answer EXCEPT !.frames = <<>>, !.state = "failed"]
         /\ UNCHANGED toHost
  BY <1>6 DEF CartridgeWrites
<1>8. /\ answer' = [state |-> answer'.state, frames |-> answer'.frames, streams |-> answer'.streams]
      /\ answer'.state # "none" /\ FrameSeq(answer'.frames)
  <2>1. PICK t : t = Tail(answer.frames) /\ FrameSeq(t)
    BY <1>3, <1>5, FramesRead
  <2>2. CASE answer' = [answer EXCEPT !.frames = Tail(@)]
    <3>1. answer' = [state |-> answer.state, frames |-> t, streams |-> answer.streams]
      BY <1>5, <2>1, <2>2
    <3>2. answer'.state = answer.state /\ answer'.frames = t /\ answer'.streams = answer.streams
      BY <3>1
    <3> QED BY <1>4, <2>1, <3>1, <3>2
  <2>3. CASE answer' = [answer EXCEPT !.frames = <<>>, !.state = "failed"]
    <3>1. PICK u : u = [answer EXCEPT !.frames = <<>>]
      OBVIOUS
    <3>2. u = [state |-> answer.state, frames |-> <<>>, streams |-> answer.streams]
      BY <1>5, <3>1
    <3>3. answer' = [u EXCEPT !.state = "failed"]
      BY <2>3, <3>1
    <3>4. answer' = [state |-> "failed", frames |-> <<>>, streams |-> answer.streams]
      BY <3>2, <3>3
    <3>5. answer'.state = "failed" /\ answer'.frames = <<>> /\ answer'.streams = answer.streams
      BY <3>4
    <3> QED BY <3>4, <3>5, SmallFrameSeqs
  <2> QED BY <1>7, <2>2, <2>3
<1>9. /\ IsStream(toHost')
      /\ toHost.q # <<>> => toHost'.q # <<>> /\ Head(toHost'.q) = Head(toHost.q)
  <2>1. CASE toHost' = WriteFrame(toHost, f)
    <3>1. IsStream(toHost) /\ IsSeq(toHost.q)
      BY <1>1 DEF StreamsInv, IsStream, FrameSeq
    <3>2. PICK e, q : e = EncodeFrame(f) /\ q = toHost.q
      OBVIOUS
    <3>3. IsStream(toHost') /\ toHost'.q = Append(q, e)
      BY <1>6, <2>1, <3>1, <3>2, StreamWritten
    <3>4. ASSUME q # <<>> PROVE Append(q, e) # <<>> /\ Head(Append(q, e)) = Head(q)
      <4>1. IsSeq(q) /\ Len(q) \in Nat /\ Len(q) # 0
        BY <3>1, <3>2, <3>4, Shape, EmptySeq
      <4>2. IsSeq(Append(q, e)) /\ Len(Append(q, e)) = Len(q) + 1 /\ Append(q, e)[1] = q[1]
        <5>1. 1 \in 1..Len(q)
          BY <4>1
        <5>2. IsSeq(Append(q, e)) /\ Len(Append(q, e)) = Len(q) + 1
          BY <4>1, Appended
        <5>3. Append(q, e)[1] = q[1]
          BY <4>1, <5>1, Appended
        <5> QED BY <5>2, <5>3
      <4>3. Append(q, e) # <<>>
        BY <4>1, <4>2, EmptySeq
      <4> QED BY <3>4, <4>1, <4>2, <4>3, HeadAndTail
    <3> QED BY <3>2, <3>3, <3>4
  <2>2. CASE UNCHANGED toHost
    BY <1>1, <2>2 DEF StreamsInv
  <2> QED BY <1>7, <2>1, <2>2
<1>10. StreamsInv' /\ PumpInv' /\ EndsInv'
  BY <1>1, <1>2, <1>8, <1>9 DEF StreamsInv, PumpInv, EndsInv
<1>11. HelloInv' /\ AnswerInv'
  BY <1>1, <1>2, <1>3, <1>8, <1>9 DEF HelloInv, AnswerInv, HostHello, CartridgeHello
<1>12. QuietInv'
  BY <1>1, <1>2, <1>4 DEF QuietInv
<1>13. DownInv' /\ UpInv'
  BY <1>1, <1>2, DownKept, UpKept
<1> QED BY <1>10, <1>11, <1>12, <1>13 DEF IInv

-----------------------------------------------------------------------------
(***************************************************************************)
(* The steps of the handshake.                                             *)
(***************************************************************************)

LEMMA HelloChanges ==
  ASSUME IInv, UNCHANGED <<linkVars, ends>>,
         IsStream(toCartridge'), IsStream(toHost'), HelloInv', AnswerInv'
  PROVE  IInv'
<1>1. StreamsInv /\ PumpInv /\ EndsInv /\ HelloInv /\ AnswerInv /\ QuietInv /\ DownInv /\ UpInv
  BY DEF IInv
<1>2. UNCHANGED <<setup, answer, engineSent, hostSent, hostGot, engineGot,
                  down, up, toLocal, fromLocal, pump, run, master>>
  BY DEF linkVars, ends
<1>3. StreamsInv' /\ PumpInv' /\ EndsInv'
  BY <1>1, <1>2 DEF StreamsInv, PumpInv, EndsInv
<1>4. QuietInv'
  BY <1>1, <1>2 DEF QuietInv, Quiet, AllRelay
<1>5. DownInv' /\ UpInv'
  BY <1>1, <1>2, DownKept, UpKept
<1> QED BY <1>3, <1>4, <1>5 DEF IInv

\* What each side reads of the limits of the other is what that announces.
LEMMA AnnouncedLimits ==
  ASSUME HelloInv, EndsInv
  PROVE  /\ HelloLimits(DecodeFrame(HostHello)) = Completed(own["host"])
         /\ HelloLimits(DecodeFrame(CartridgeHello)) = Completed(own["cartridge"])
         /\ Completed(own["host"]) \in Limited /\ Completed(own["cartridge"]) \in Limited
<1>1. Announceable(own["host"]) /\ Announceable(own["cartridge"])
  <2>1. own["host"] = setup.host /\ own["cartridge"] = setup.cartridge
    BY DEF HelloInv, Sides
  <2> QED BY <2>1, SetupLimits DEF EndsInv
<1>2. /\ DecodeFrame(HostHello) = OverTheWire(NewHello(own["host"]))
      /\ DecodeFrame(CartridgeHello)
           = OverTheWire(NewHelloWithManifest(own["cartridge"], CartridgeManifest))
  BY DEF HostHello, CartridgeHello, OverTheWire
<1> QED BY <1>1, <1>2, HelloIsRead, CompletedIsLimited

LEMMA OneFrameWritten ==
  ASSUME NEW s, NEW f, IsStream(s), s.q = <<>>, IsFrame(f)
  PROVE  /\ IsStream(WriteFrame(s, f)) /\ WriteFrame(s, f).q # <<>>
         /\ Len(WriteFrame(s, f).q) = 1
         /\ \A i \in 1..1 : WriteFrame(s, f).q[i] = EncodeFrame(f)
         /\ Head(WriteFrame(s, f).q) = EncodeFrame(f)
<1>1. PICK e : e = EncodeFrame(f)
  OBVIOUS
<1>2. IsStream(WriteFrame(s, f)) /\ WriteFrame(s, f).q = Append(<<>>, e)
  BY <1>1, StreamWritten
<1>3. Append(<<>>, e) = <<e>>
  OBVIOUS
<1>4. Len(<<e>>) = 1 /\ <<e>>[1] = e /\ Head(<<e>>) = e /\ <<e>> # <<>>
  OBVIOUS
<1>5. \A i \in 1..1 : <<e>>[i] = e
  <2>1. \A i \in 1..1 : i = 1
    OBVIOUS
  <2> QED BY <1>4, <2>1
<1> QED BY <1>1, <1>2, <1>3, <1>4, <1>5

LEMMA HostSendsHelloKeeps ==
  ASSUME IInv, HostSendsHello, UNCHANGED <<linkVars, ends>>
  PROVE  IInv'
<1>1. StreamsInv /\ PumpInv /\ EndsInv /\ HelloInv /\ AnswerInv
  BY DEF IInv
<1>2. UNCHANGED <<own, negotiated, toHost, setup, answer>>
  BY DEF HostSendsHello, ends
<1>3. /\ hello["host"] = "start" /\ hello["cartridge"] # "ready"
      /\ toCartridge.q = <<>> /\ toHost.q = <<>>
  BY <1>1 DEF HostSendsHello, HelloInv
<1>4. IsStream(toCartridge) /\ IsStream(toHost)
  BY <1>1 DEF StreamsInv
<1>5. PICK f : f = NewHello(own["host"]) /\ IsFrame(f)
  BY FramesOfTheHandshake
<1>6. CASE toCartridge' = WriteFrame(toCartridge, f) /\ hello' = [hello EXCEPT !["host"] = "waiting"]
  <2>1. /\ IsStream(toCartridge') /\ Len(toCartridge'.q) = 1
        /\ \A i \in 1..1 : toCartridge'.q[i] = HostHello
    BY <1>3, <1>4, <1>5, <1>6, OneFrameWritten DEF HostHello
  <2>2. \A i \in 1..Len(toCartridge'.q) : toCartridge'.q[i] = HostHello'
    BY <1>2, <2>1 DEF HostHello
  <2>3. /\ hello' \in [Sides -> {"start", "waiting", "ready", "failed"}]
        /\ hello'["host"] = "waiting" /\ hello'["cartridge"] = hello["cartridge"]
    BY <1>1, <1>6 DEF HelloInv, Sides
  <2>4. Len(toHost.q) <= 1
    BY <1>3, EmptySeq
  <2>5. HelloInv' /\ AnswerInv'
    BY <1>1, <1>2, <1>3, <2>2, <2>3, <2>4 DEF HelloInv, AnswerInv, HostHello, CartridgeHello
  <2>6. IsStream(toHost')
    BY <1>2, <1>4
  <2> QED BY <2>1, <2>5, <2>6, HelloChanges
<1>7. CASE Fail("host") /\ UNCHANGED toCartridge
  <2>1. HelloInv' /\ AnswerInv'
    BY <1>1, <1>2, <1>7, HostFails
  <2> QED BY <1>2, <1>4, <1>7, <2>1, HelloChanges
<1> QED BY <1>5, <1>6, <1>7 DEF HostSendsHello

\* The cartridge takes no part in the handshake any more.
LEMMA CartridgeFails ==
  ASSUME HelloInv, AnswerInv, Fail("cartridge"),
         own' = own, negotiated' = negotiated, setup' = setup, answer' = answer,
         toHost'.q = toHost.q,
         toCartridge.q = <<>> => toCartridge'.q = <<>>,
         \A i \in 1..Len(toCartridge'.q) : toCartridge'.q[i] = HostHello
  PROVE  HelloInv' /\ AnswerInv'
<1>1. /\ hello' \in [Sides -> {"start", "waiting", "ready", "failed"}]
      /\ hello'["cartridge"] = "failed" /\ hello'["host"] = hello["host"]
  BY DEF HelloInv, Fail, Sides
<1>2. AnswerInv'
  BY <1>1 DEF AnswerInv
<1>3. HelloInv'
  BY <1>1 DEF HelloInv, HostHello, CartridgeHello
<1> QED BY <1>2, <1>3

LEMMA CartridgeDiesKeeps ==
  ASSUME IInv, CartridgeDies, UNCHANGED <<linkVars, ends>>
  PROVE  IInv'
<1>1. StreamsInv /\ HelloInv /\ AnswerInv
  BY DEF IInv
<1>2. UNCHANGED <<own, negotiated, setup, answer>> /\ Fail("cartridge")
  BY DEF CartridgeDies, ends
<1>3. PICK tail \in Tail3 : toHost' = Close(toHost, tail)
  BY DEF CartridgeDies
<1>4. toCartridge' = Abandon(toCartridge)
  BY DEF CartridgeDies
<1>5. IsStream(toHost') /\ toHost'.q = toHost.q
  BY <1>1, <1>3, StreamClosed DEF StreamsInv
<1>6. IsStream(toCartridge') /\ toCartridge'.q = <<>>
  BY <1>1, <1>4, StreamAbandoned DEF StreamsInv
<1>7. \A i \in 1..Len(toCartridge'.q) : toCartridge'.q[i] = HostHello
  BY <1>6, EmptySeq
<1>8. HelloInv' /\ AnswerInv'
  BY <1>1, <1>2, <1>5, <1>6, <1>7, CartridgeFails
<1> QED BY <1>5, <1>6, <1>8, HelloChanges

\* What is read from the pipe to the cartridge.
LEMMA ToCartridgeRead ==
  ASSUME IsStream(toCartridge), HelloInv, toCartridge.q # <<>>
  PROVE  /\ FrameRead(toCartridge) = DecodeFrame(HostHello)
         /\ IsStream(AfterRead(toCartridge))
         /\ \A i \in 1..Len(AfterRead(toCartridge).q) : AfterRead(toCartridge).q[i] = HostHello
<1>1. PICK q : q = toCartridge.q /\ IsSeq(q)
  BY DEF IsStream, FrameSeq
<1>2. \A i \in 1..Len(q) : q[i] = HostHello
  BY <1>1 DEF HelloInv
<1>3. /\ Len(Tail(q)) = Len(q) - 1 /\ Len(q) \in Nat
      /\ \A i \in 1..Len(Tail(q)) : Tail(q)[i] = q[i + 1]
      /\ Head(q) = q[1] /\ 1 \in 1..Len(q)
  BY <1>1, HeadAndTail, Shape
<1>4. \A i \in 1..Len(Tail(q)) : Tail(q)[i] = HostHello
  <2>1. \A i \in 1..Len(Tail(q)) : i + 1 \in 1..Len(q)
    BY <1>3
  <2> QED BY <1>2, <1>3, <2>1
<1>5. IsStream(AfterRead(toCartridge)) /\ AfterRead(toCartridge).q = Tail(q)
  BY <1>1, StreamRead
<1>6. FrameRead(toCartridge) = DecodeFrame(HostHello)
  BY <1>1, <1>2, <1>3 DEF FrameRead
<1> QED BY <1>4, <1>5, <1>6

LEMMA CartridgeAnswersHelloKeeps ==
  ASSUME IInv, CartridgeAnswersHello, UNCHANGED <<linkVars, ends>>
  PROVE  IInv'
<1>1. StreamsInv /\ PumpInv /\ EndsInv /\ HelloInv /\ AnswerInv
  BY DEF IInv
<1>2. UNCHANGED <<own, setup, answer>>
  BY DEF CartridgeAnswersHello, ends
<1>3. hello["cartridge"] = "start" /\ toHost.q = <<>> /\ answer.state = "none"
  BY <1>1 DEF CartridgeAnswersHello, HelloInv
<1>4. IsStream(toCartridge) /\ IsStream(toHost)
  BY <1>1 DEF StreamsInv
<1>5. PICK r, f, a : /\ r = ReadOutcome(toCartridge, DefaultLimits)
                     /\ f = FrameRead(toCartridge)
                     /\ a = NewHelloWithManifest(own["cartridge"], CartridgeManifest)
  OBVIOUS
<1>6. IsFrame(a) /\ CartridgeHello = EncodeFrame(a)
  BY <1>5, FramesOfTheHandshake DEF CartridgeHello
<1>7. toCartridge' = IF r = "frame" THEN AfterRead(toCartridge) ELSE toCartridge
  BY <1>5 DEF CartridgeAnswersHello
<1>8. /\ IsStream(toCartridge')
      /\ \A i \in 1..Len(toCartridge'.q) : toCartridge'.q[i] = HostHello
      /\ toCartridge.q = <<>> => toCartridge'.q = <<>>
      /\ r = "frame" => toCartridge.q # <<>> /\ f = DecodeFrame(HostHello)
  <2>1. CASE r = "frame"
    BY <1>1, <1>4, <1>5, <1>7, <2>1, SomethingRead, ToCartridgeRead
  <2>2. CASE r # "frame"
    BY <1>1, <1>4, <1>7, <2>2 DEF HelloInv
  <2> QED BY <2>1, <2>2
<1>9. CASE r = "frame" /\ toHost' = WriteFrame(toHost, a) /\ Negotiate("cartridge", f)
  <2>1. /\ IsStream(toHost') /\ toHost'.q # <<>> /\ Len(toHost'.q) = 1
        /\ Head(toHost'.q) = CartridgeHello
    BY <1>3, <1>4, <1>6, <1>9, OneFrameWritten
  <2>2. hello["host"] \notin {"start", "ready"}
    BY <1>1, <1>3, <1>8, <1>9 DEF HelloInv
  <2>3. /\ hello' \in [Sides -> {"start", "waiting", "ready", "failed"}]
        /\ hello'["cartridge"] = "ready" /\ hello'["host"] = hello["host"]
    BY <1>1, <1>9 DEF HelloInv, Sides, Negotiate
  <2>4. PICK n : /\ n = NegotiateLimits(Completed(own["cartridge"]), HelloLimits(DecodeFrame(HostHello)))
                 /\ n \in Limited
    BY <1>1, AnnouncedLimits, NegotiatedIsLimited
  <2>5. negotiated' = [negotiated EXCEPT !["cartridge"] = n]
    BY <1>8, <1>9, <2>4 DEF Negotiate
  <2>6. /\ negotiated' \in [Sides -> Limited]
        /\ negotiated'["cartridge"] = n /\ negotiated'["host"] = negotiated["host"]
    BY <1>1, <2>4, <2>5 DEF HelloInv, Sides
  <2>7. HostHello' = HostHello /\ CartridgeHello' = CartridgeHello
    BY <1>2 DEF HostHello, CartridgeHello
  <2>8. HelloInv'
    BY <1>1, <1>2, <1>8, <2>1, <2>2, <2>3, <2>4, <2>6, <2>7 DEF HelloInv
  <2>9. AnswerInv'
    BY <1>1, <1>2, <2>2, <2>3 DEF AnswerInv
  <2> QED BY <1>8, <2>1, <2>8, <2>9, HelloChanges
<1>10. CASE Fail("cartridge") /\ UNCHANGED <<toHost, negotiated>>
  <2>1. HelloInv' /\ AnswerInv'
    BY <1>1, <1>2, <1>8, <1>10, CartridgeFails
  <2> QED BY <1>4, <1>8, <1>10, <2>1, HelloChanges
<1> QED BY <1>5, <1>9, <1>10 DEF CartridgeAnswersHello

LEMMA HostReadsHelloKeeps ==
  ASSUME IInv, HostReadsHello, UNCHANGED <<linkVars, ends>>
  PROVE  IInv'
<1>1. StreamsInv /\ PumpInv /\ EndsInv /\ HelloInv /\ AnswerInv
  BY DEF IInv
<1>2. UNCHANGED <<own, toCartridge, setup, answer>> /\ hello["host"] = "waiting"
  BY DEF HostReadsHello, ends
<1>3. IsStream(toCartridge) /\ IsStream(toHost)
  BY <1>1 DEF StreamsInv
<1>4. PICK r, f : r = ReadOutcome(toHost, DefaultLimits) /\ f = FrameRead(toHost)
  OBVIOUS
<1>5. toHost' = IF r = "frame" THEN AfterRead(toHost) ELSE toHost
  BY <1>4 DEF HostReadsHello
<1>6. r = "frame" => toHost.q # <<>> /\ toHost'.q = Tail(toHost.q) /\ hello["cartridge"] # "start"
  BY <1>1, <1>3, <1>4, <1>5, SomethingRead, StreamRead DEF HelloInv
<1>7. IsStream(toCartridge') /\ IsStream(toHost')
  <2>1. CASE r = "frame"
    BY <1>2, <1>3, <1>5, <1>6, <2>1, StreamRead
  <2>2. CASE r # "frame"
    BY <1>2, <1>3, <1>5, <2>2
  <2> QED BY <2>1, <2>2
<1>8. CASE r = "frame" /\ Negotiate("host", f)
  <2>1. f = DecodeFrame(CartridgeHello)
    BY <1>1, <1>2, <1>4, <1>6, <1>8 DEF HelloInv, FrameRead
  <2>2. /\ hello' \in [Sides -> {"start", "waiting", "ready", "failed"}]
        /\ hello'["host"] = "ready" /\ hello'["cartridge"] = hello["cartridge"]
    BY <1>1, <1>8 DEF HelloInv, Sides, Negotiate
  <2>3. PICK n : /\ n = NegotiateLimits(Completed(own["host"]), HelloLimits(DecodeFrame(CartridgeHello)))
                 /\ n \in Limited
    BY <1>1, AnnouncedLimits, NegotiatedIsLimited
  <2>4. negotiated' = [negotiated EXCEPT !["host"] = n]
    BY <1>8, <2>1, <2>3 DEF Negotiate
  <2>5. /\ negotiated' \in [Sides -> Limited]
        /\ negotiated'["host"] = n /\ negotiated'["cartridge"] = negotiated["cartridge"]
    BY <1>1, <2>3, <2>4 DEF HelloInv, Sides
  <2>6. HostHello' = HostHello /\ CartridgeHello' = CartridgeHello
    BY <1>2 DEF HostHello, CartridgeHello
  <2>7. HelloInv'
    BY <1>1, <1>2, <1>6, <1>8, <2>2, <2>3, <2>5, <2>6 DEF HelloInv
  <2>8. answer.state = "none" => toHost'.q = <<>>
    <3>1. SUFFICES ASSUME answer.state = "none" PROVE toHost'.q = <<>>
      OBVIOUS
    <3>2. Len(toHost.q) <= 1
      BY <1>1, <1>2, <3>1 DEF HelloInv
    <3>3. PICK q : q = toHost.q /\ IsSeq(q) /\ q # <<>>
      BY <1>3, <1>6, <1>8 DEF IsStream, FrameSeq
    <3>4. IsSeq(Tail(q)) /\ Len(Tail(q)) = Len(q) - 1 /\ Len(Tail(q)) \in Nat
      BY <3>3, HeadAndTail, Shape
    <3>5. Len(Tail(q)) = 0
      <4>1. Len(q) \in Nat
        BY <3>3, Shape
      <4> QED BY <3>2, <3>3, <3>4, <4>1
    <3>6. Tail(q) = <<>>
      BY <3>4, <3>5, Shape
    <3> QED BY <1>6, <1>8, <3>3, <3>6
  <2>9. AnswerInv'
    BY <1>1, <1>2, <2>8 DEF AnswerInv
  <2> QED BY <1>7, <2>7, <2>9, HelloChanges
<1>9. CASE Fail("host") /\ UNCHANGED <<negotiated, manifest>>
  <2>1. toHost' = toHost \/ hello["cartridge"] # "start"
    BY <1>5, <1>6
  <2>2. HelloInv' /\ AnswerInv'
    BY <1>1, <1>2, <1>9, <2>1, HostFails
  <2> QED BY <1>7, <2>2, HelloChanges
<1> QED BY <1>4, <1>8, <1>9 DEF HostReadsHello

-----------------------------------------------------------------------------
(***************************************************************************)
(* The theorems.                                                           *)
(***************************************************************************)

LEMMA NextKeeps ==
  ASSUME IInv, [Next]_vars
  PROVE  IInv'
<1>1. CASE Relay
  BY <1>1, RelayKeeps
<1>2. CASE Hello
  BY <1>2, HostSendsHelloKeeps, CartridgeAnswersHelloKeeps, HostReadsHelloKeeps, CartridgeDiesKeeps
     DEF Hello
<1>3. CASE EngineSends
  BY <1>3, EngineSendsKeeps
<1>4. CASE EngineConnects
  BY <1>4, EngineConnectsKeeps
<1>5. CASE EngineReads
  BY <1>5, EngineReadsKeeps
<1>6. CASE EngineEnds
  BY <1>6, EngineEndsKeeps
<1>7. CASE HostReads
  BY <1>7, HostReadsKeeps
<1>8. CASE SlaveNotifies
  BY <1>8, SlaveNotifiesKeeps
<1>9. CASE HostNotifies
  BY <1>9, HostNotifiesKeeps
<1>10. CASE HostForwards
  BY <1>10, HostForwardsKeeps
<1>11. CASE HostEnds
  BY <1>11, HostEndsKeeps
<1>12. CASE CartridgeAnswers
  BY <1>12, CartridgeAnswersKeeps
<1>13. CASE CartridgeWrites
  BY <1>13, CartridgeWritesKeeps
<1>14. CASE UNCHANGED vars
  <2>1. UNCHANGED <<linkVars, helloVars, ends>>
    BY <1>14 DEF vars
  <2>2. UNCHANGED <<own, hello, negotiated, toCartridge, toHost, setup, answer>>
    BY <2>1 DEF helloVars, ends
  <2>3. HelloInv' /\ AnswerInv'
    BY <2>2, HelloKept DEF IInv
  <2>4. IsStream(toCartridge') /\ IsStream(toHost')
    BY <2>2 DEF IInv, StreamsInv
  <2> QED BY <2>1, <2>3, <2>4, HelloChanges
<1> QED BY <1>1, <1>2, <1>3, <1>4, <1>5, <1>6, <1>7, <1>8, <1>9, <1>10, <1>11, <1>12, <1>13, <1>14
     DEF Next

\* In all that can happen to the relay, the handshake and the response (relay.go, io.go,
\* host.go, cartridge_runtime.go) each part is in a state that goes with the others.
THEOREM Invariance == Spec => []IInv
<1>1. Init => IInv
  BY InitialInv
<1>2. IInv /\ [Next]_vars => IInv'
  BY NextKeeps
<1> QED BY <1>1, <1>2, PTL DEF Spec

LEMMA InvImpliesLimits == IInv => LimitsAgree
<1> SUFFICES ASSUME IInv PROVE LimitsAgree
  OBVIOUS
<1>1. HelloInv /\ EndsInv
  BY DEF IInv
<1>2. PICK h, c : h = Completed(own["host"]) /\ c = Completed(own["cartridge"])
  OBVIOUS
<1>3. h \in Limited /\ c \in Limited
  BY <1>1, <1>2, AnnouncedLimits
<1>4. hello["host"] = "ready" => negotiated["host"] = NegotiateLimits(h, c)
  BY <1>1, <1>2, AnnouncedLimits DEF HelloInv
<1>5. hello["cartridge"] = "ready" => negotiated["cartridge"] = NegotiateLimits(c, h)
  BY <1>1, <1>2, AnnouncedLimits DEF HelloInv
<1>6. NegotiateLimits(h, c) = NegotiateLimits(c, h)
  BY <1>3, NegotiatedIsLimited
<1>7. \A k \in LimitNames : NegotiateLimits(h, c)[k] <= h[k] /\ NegotiateLimits(h, c)[k] <= c[k]
  <2>1. /\ \A k \in LimitNames : NegotiateLimits(h, c)[k] <= h[k]
        /\ \A k \in LimitNames : NegotiateLimits(c, h)[k] <= c[k]
    BY <1>3, NegotiatedIsLimited
  <2> QED BY <1>6, <2>1
<1>8. (\A s \in Sides : hello[s] = "ready") => negotiated["host"] = negotiated["cartridge"]
  BY <1>4, <1>5, <1>6 DEF Sides
<1>9. ASSUME NEW s \in Sides, NEW t \in Sides, NEW k \in LimitNames, hello[s] = "ready"
      PROVE  negotiated[s][k] <= Completed(own[t])[k]
  <2>1. negotiated[s] = NegotiateLimits(h, c)
    BY <1>4, <1>5, <1>6, <1>9 DEF Sides
  <2>2. Completed(own[t]) \in {h, c}
    BY <1>2, <1>9 DEF Sides
  <2> QED BY <1>7, <1>9, <2>1, <2>2
<1>10. ASSUME NEW s \in Sides, NEW t \in Sides, hello[s] = "ready",
              NEW bound, bound = IF HasBothSizes(own[t]) THEN own[t] ELSE DefaultLimits,
              NEW k \in DOMAIN bound
       PROVE  negotiated[s][k] <= bound[k]
  <2>1. Announceable(own[t])
    BY <1>1, <1>10, SetupLimits DEF HelloInv, EndsInv, Sides
  <2>2. k \in LimitNames
    BY <1>10, <2>1, LimitsAreLimited DEF Announceable
  <2>3. Completed(own[t])[k] = bound[k]
    BY <1>10, <2>2, LimitsAreLimited DEF Completed
  <2> QED BY <1>9, <1>10, <2>2, <2>3
<1> QED BY <1>8, <1>10 DEF LimitsAgree

\* Whatever limits the two sides of a handshake have, and whatever they leave out of their
\* HELLO, they come out of it with the same limits, which exceed nothing that either
\* announced, unless it announced one size without the other (HandshakeInitiate,
\* HandshakeAccept and NegotiateLimits in io.go and limits.go).
THEOREM BothSidesHaveTheSameLimits == Spec => []LimitsAgree
<1>1. IInv => LimitsAgree
  BY InvImpliesLimits
<1> QED BY <1>1, Invariance, PTL

LEMMA InvImpliesOrderDown ==
  ASSUME IInv, pump["down"].pc # "ended", ~ toLocal.gone, ~ down.gone
  PROVE  Frames(hostGot) \o Wired(toLocal.q \o pump["down"].held \o Others(down.q))
           = Others(Wired(engineSent))
<1>1. StreamsInv /\ PumpInv /\ EndsInv /\ DownInv
  BY DEF IInv
<1>2. PICK a, h, b : a = toLocal.q /\ h = pump["down"].held /\ b = down.q
  OBVIOUS
<1>3. IsSeq(a) /\ IsSeq(h) /\ FrameSeq(b)
  BY <1>1, <1>2, PumpCases DEF StreamsInv, IsStream, FrameSeq, PumpInv, Directions
<1>4. PICK o : o = Others(b) /\ IsSeq(o) /\ Wired(o) = Passing(b)
  BY <1>3, OthersIsSeq, OthersOfWired DEF FrameSeq
<1>5. Wired((a \o h) \o o) = (Wired(a) \o Wired(h)) \o Wired(o)
  <2>1. PICK x : x = a \o h
    OBVIOUS
  <2>2. IsSeq(x)
    BY <1>3, <2>1, Joined
  <2>3. Wired(x) = Wired(a) \o Wired(h)
    BY <1>3, <2>1, WiredOfJoined
  <2>4. Wired(x \o o) = Wired(x) \o Wired(o)
    BY <1>4, <2>2, WiredOfJoined
  <2> QED BY <2>1, <2>3, <2>4
<1>6. (Wired(a) \o Wired(h)) \o Wired(o) = Wired(a) \o (Wired(h) \o Wired(o))
  <2>1. IsSeq(Wired(a)) /\ IsSeq(Wired(h)) /\ IsSeq(Wired(o))
    BY <1>3, <1>4, WiredIsSeq
  <2> QED BY <2>1, Associative
<1>7. Chain(Frames(hostGot), Wired(a), Wired(h), Passing(b)) = Passing(engineSent)
  BY <1>1, <1>2 DEF DownInv
<1> QED BY <1>2, <1>4, <1>5, <1>6, <1>7 DEF Chain, Passing

LEMMA InvImpliesOrderUp ==
  ASSUME IInv, pump["up"].pc # "ended", ~ up.gone, ~ fromLocal.gone
  PROVE  Others(Frames(engineGot) \o Wired(up.q \o pump["up"].held \o fromLocal.q))
           = Others(Wired(hostSent))
<1>1. StreamsInv /\ PumpInv /\ EndsInv /\ UpInv
  BY DEF IInv
<1>2. PICK a, h, b : a = up.q /\ h = pump["up"].held /\ b = fromLocal.q
  OBVIOUS
<1>3. IsSeq(a) /\ IsSeq(h) /\ IsSeq(b)
  BY <1>1, <1>2, PumpCases DEF StreamsInv, IsStream, FrameSeq, PumpInv, Directions
<1>4. PICK g : g = Frames(engineGot) /\ IsSeq(g) /\ Others(g) = g
  BY <1>1, FramesOfGot DEF EndsInv, UpInv
<1>5. PICK x, y : x = a \o h /\ y = x \o b
  OBVIOUS
<1>6. IsSeq(x)
  BY <1>3, <1>5, Joined
<1>7. IsSeq(y)
  BY <1>3, <1>5, <1>6, Joined
<1>8. Passing(x) = Passing(a) \o Passing(h)
  BY <1>3, <1>5, PassingOfJoined
<1>9. Passing(y) = Passing(x) \o Passing(b)
  BY <1>3, <1>5, <1>6, PassingOfJoined
<1>10. Others(g \o Wired(y)) = g \o Passing(y)
  <2>1. IsSeq(Wired(y))
    BY <1>7, WiredIsSeq
  <2>2. Others(g \o Wired(y)) = Others(g) \o Others(Wired(y))
    BY <1>4, <2>1, OthersOfJoined
  <2> QED BY <1>4, <2>2 DEF Passing
<1>11. (Passing(a) \o Passing(h)) \o Passing(b) = Passing(a) \o (Passing(h) \o Passing(b))
  <2>1. IsSeq(Passing(a)) /\ IsSeq(Passing(h)) /\ IsSeq(Passing(b))
    BY <1>3, PassingIsSeq
  <2> QED BY <2>1, Associative
<1>12. Chain(g, Passing(a), Passing(h), Passing(b)) = Passing(hostSent)
  BY <1>1, <1>2, <1>4 DEF UpInv
<1>13. Others(g \o Wired(y)) = Passing(hostSent)
  BY <1>8, <1>9, <1>10, <1>11, <1>12 DEF Chain
<1> QED BY <1>2, <1>4, <1>5, <1>13 DEF Passing

\* In both directions, and whatever else happens, each frame that is not of the relay is at
\* its reader or on its way, once and in order, until somebody ends (RelaySlave.Run and
\* RelayMaster.ReadFrame in relay.go); ConnectRelayMaster drops no frame of a request, as
\* nobody has one to send before the engine has.
THEOREM FramesArriveInOrder == Spec => []NothingIsLost
<1>1. IInv => NothingIsLost
  BY InvImpliesOrderDown, InvImpliesOrderUp DEF NothingIsLost
<1> QED BY <1>1, Invariance, PTL

-----------------------------------------------------------------------------
(***************************************************************************)
(* The place of a frame: how many frames that are not of the relay there   *)
(* are up to it.  It does not change when the sequence goes on.            *)
(***************************************************************************)

Place(s, k) == Len(Others(SubSeq(s, 1, k)))

LEMMA Beginning ==
  ASSUME NEW s, IsSeq(s), NEW k \in 0..Len(s)
  PROVE  /\ IsSeq(SubSeq(s, 1, k)) /\ Len(SubSeq(s, 1, k)) = k
         /\ \A i \in 1..k : SubSeq(s, 1, k)[i] = s[i]
<1>1. s \in Seq(Range(s)) /\ Len(s) \in Nat
  BY Shape DEF IsSeq
<1>2. k \in Nat /\ \A i \in 1..k : i \in 1..Len(s) /\ 1 + i - 1 = i
  BY <1>1
<1>3. \A i \in 1..k : s[i] \in Range(s)
  BY <1>1, <1>2, ElementOfSeq
<1>4. /\ SubSeq(s, 1, k) \in Seq(Range(s))
      /\ Len(SubSeq(s, 1, k)) = IF 1 <= k THEN k - 1 + 1 ELSE 0
      /\ \A i \in 1 .. k - 1 + 1 : SubSeq(s, 1, k)[i] = s[1 + i - 1]
  BY <1>2, <1>3, SubSeqProperties
<1>5. (IF 1 <= k THEN k - 1 + 1 ELSE 0) = k /\ k - 1 + 1 = k
  BY <1>2
<1>6. ASSUME NEW i \in 1..k PROVE SubSeq(s, 1, k)[i] = s[i]
  <2>1. i \in 1 .. k - 1 + 1 /\ 1 + i - 1 = i
    BY <1>2
  <2> QED BY <1>4, <2>1
<1> QED BY <1>4, <1>5, <1>6, SeqIsSeq

\* The same beginning, the same place.
LEMMA SamePlace ==
  ASSUME NEW s, NEW t, IsSeq(s), IsSeq(t), NEW k \in Nat, k <= Len(s), k <= Len(t),
         \A i \in 1..k : s[i] = t[i]
  PROVE  Place(s, k) = Place(t, k)
<1>1. k \in 0..Len(s) /\ k \in 0..Len(t)
  BY Shape
<1>2. PICK a, b : a = SubSeq(s, 1, k) /\ b = SubSeq(t, 1, k)
  OBVIOUS
<1>3. IsSeq(a) /\ Len(a) = k /\ \A i \in 1..k : a[i] = s[i]
  BY <1>1, <1>2, Beginning
<1>4. IsSeq(b) /\ Len(b) = k /\ \A i \in 1..k : b[i] = t[i]
  BY <1>1, <1>2, Beginning
<1>5. a = b
  BY <1>3, <1>4, SameSeq
<1> QED BY <1>2, <1>5 DEF Place

LEMMA PlaceOfNone ==
  ASSUME NEW s, IsSeq(s)
  PROVE  Place(s, 0) = 0
<1>1. 0 \in 0..Len(s)
  BY Shape
<1>2. PICK a : a = SubSeq(s, 1, 0)
  OBVIOUS
<1>3. IsSeq(a) /\ Len(a) = 0
  BY <1>1, <1>2, Beginning
<1>4. a = <<>>
  BY <1>3, Shape
<1> QED BY <1>2, <1>4, OthersOfEmpty, EmptySeq DEF Place

\* A frame of the relay has the place of the one before it.
LEMMA NextPlace ==
  ASSUME NEW s, IsSeq(s), NEW k \in Nat, k + 1 <= Len(s)
  PROVE  /\ Place(s, k) \in Nat
         /\ Place(s, k + 1) = IF IsRelayFrame(s[k + 1]) THEN Place(s, k) ELSE Place(s, k) + 1
<1>1. k \in 0..Len(s) /\ k + 1 \in 0..Len(s)
  BY Shape
<1>2. PICK a, b, x : a = SubSeq(s, 1, k) /\ b = SubSeq(s, 1, k + 1) /\ x = s[k + 1]
  OBVIOUS
<1>3. IsSeq(a) /\ Len(a) = k /\ \A i \in 1..k : a[i] = s[i]
  BY <1>1, <1>2, Beginning
<1>4. IsSeq(b) /\ Len(b) = k + 1 /\ \A i \in 1..k + 1 : b[i] = s[i]
  BY <1>1, <1>2, Beginning
<1>5. PICK c : c = Append(a, x)
  OBVIOUS
<1>6. IsSeq(c) /\ Len(c) = k + 1 /\ (\A i \in 1..k : c[i] = a[i]) /\ c[k + 1] = x
  <2>1. /\ IsSeq(c) /\ Len(c) = Len(a) + 1
        /\ \A i \in 1..Len(a) : c[i] = a[i]
        /\ c[Len(a) + 1] = x
    <3>1. Extends(Append(a, x), a, x)
      BY <1>3, AppendExtends
    <3> QED BY <1>5, <3>1 DEF Extends
  <2> QED BY <1>3, <2>1
<1>7. \A i \in 1..k + 1 : b[i] = c[i]
  <2>1. \A i \in 1..k + 1 : i \in 1..k \/ i = k + 1
    OBVIOUS
  <2> QED BY <1>2, <1>3, <1>4, <1>6, <2>1
<1>8. b = c
  BY <1>4, <1>6, <1>7, SameSeq
<1>9. Others(c) = IF IsRelayFrame(x) THEN Others(a) ELSE Append(Others(a), x)
  BY <1>3, <1>5, OthersOfAppended
<1>10. PICK o : o = Others(a) /\ IsSeq(o)
  BY <1>3, OthersIsSeq
<1>11. Len(o) \in Nat /\ Len(Append(o, x)) = Len(o) + 1
  BY <1>10, Shape, Appended
<1> QED BY <1>2, <1>8, <1>9, <1>10, <1>11 DEF Place

LEMMA PlaceIsNat ==
  ASSUME NEW s, IsSeq(s), NEW k \in Nat, k <= Len(s)
  PROVE  Place(s, k) \in Nat
<1>1. k \in 0..Len(s)
  BY Shape
<1>2. PICK a : a = SubSeq(s, 1, k) /\ IsSeq(a)
  BY <1>1, Beginning
<1>3. IsSeq(Others(a))
  BY <1>2, OthersIsSeq
<1> QED BY <1>2, <1>3, Shape DEF Place

\* Later frames have no earlier place.
LEMMA PlacesGrow ==
  ASSUME NEW s, IsSeq(s), NEW j \in Nat, NEW k \in Nat, j <= k, k <= Len(s)
  PROVE  Place(s, j) <= Place(s, k)
<1> DEFINE Bad == {n \in Nat : j <= n /\ n <= Len(s) /\ ~ (Place(s, j) <= Place(s, n))}
<1>0. Len(s) \in Nat
  BY Shape
<1> SUFFICES ASSUME Bad # {} PROVE FALSE
  OBVIOUS
<1>1. PICK n \in Bad : \A i \in Bad : n <= i
  <2>1. Bad \subseteq Nat
    OBVIOUS
  <2> HIDE DEF Bad
  <2> QED BY <2>1, LeastNatural
<1>2. n \in Nat /\ j <= n /\ n <= Len(s) /\ ~ (Place(s, j) <= Place(s, n))
  OBVIOUS
<1>3. Place(s, j) \in Nat
  BY <1>0, <1>2, PlaceIsNat
<1>4. n # j
  BY <1>2, <1>3
<1>5. PICK m \in Nat : n = m + 1
  <2>1. n - 1 \in Nat /\ n = (n - 1) + 1
    BY <1>2, <1>4
  <2> QED BY <2>1
<1>6. j <= m /\ m <= Len(s) /\ ~ (n <= m)
  BY <1>0, <1>2, <1>4, <1>5
<1>7. Place(s, j) <= Place(s, m)
  <2>1. m \notin Bad
    <3> HIDE DEF Bad
    <3> QED BY <1>1, <1>6
  <2> QED BY <2>1, <1>6
<1>8. Place(s, m) \in Nat /\ (Place(s, n) = Place(s, m) \/ Place(s, n) = Place(s, m) + 1)
  BY <1>2, <1>5, NextPlace
<1> QED BY <1>2, <1>3, <1>7, <1>8

\* Appending leaves the places there were.
LEMMA PlacesKept ==
  ASSUME NEW s, NEW x, IsSeq(s), NEW k \in Nat, k <= Len(s)
  PROVE  Place(Append(s, x), k) = Place(s, k)
<1>1. PICK t : t = Append(s, x)
  OBVIOUS
<1>2. IsSeq(t) /\ Len(t) = Len(s) + 1 /\ \A i \in 1..Len(s) : t[i] = s[i]
  BY <1>1, Appended
<1>3. Len(s) \in Nat
  BY Shape
<1>4. k <= Len(t) /\ \A i \in 1..k : i \in 1..Len(s)
  BY <1>2, <1>3
<1>5. \A i \in 1..k : t[i] = s[i]
  BY <1>2, <1>4
<1> QED BY <1>1, <1>2, <1>4, <1>5, SamePlace

-----------------------------------------------------------------------------
(***************************************************************************)
(* What is announced.  NothingIsLost forgets where the frames of the relay *)
(* were; AnnInv keeps how much of what was sent has been read, and what    *)
(* the reader has to know by then.                                         *)
(***************************************************************************)

\* What was sent after the first n is in the queue.
OnTheWay(sent, n, q) ==
  /\ Len(q) = Len(sent) - n
  /\ \A j \in 1..Len(q) : q[j] = EncodeFrame(sent[n + j])

\* A resource state that is the one of the k-th frame or newer.
Knows(state, k) == state # <<>> /\ k <= state[1]

\* The slave has read n frames of the engine.
StatesRead(n) ==
  /\ ~ down.gone => OnTheWay(engineSent, n, down.q)
  /\ Len(hostGot) + Len(toLocal.q) + Len(pump["down"].held) <= Place(engineSent, n)
  /\ \A k \in 1..n : IsState(engineSent[k]) => Knows(resourceState, k)

StatesInv ==
  /\ down.gone => down.q = <<>>
  /\ \A k \in 1..Len(engineSent) :
       IsState(engineSent[k]) => "payload" \in DOMAIN engineSent[k] /\ engineSent[k].payload = <<k>>
  /\ \A i \in 1..Len(hostGot), k \in 1..Len(engineSent) :
       IsState(engineSent[k]) /\ Place(engineSent, k) < i => Knows(hostGot[i].state, k)
  /\ \E n \in 0..Len(engineSent) : StatesRead(n)

\* The a-th frame is the last notification, or the last with limits, before the n-th of
\* the others.
LastNotify(a, n) ==
  /\ IsNotify(upSent[a]) /\ Place(upSent, a) < n
  /\ \A k \in 1..Len(upSent) : IsNotify(upSent[k]) /\ Place(upSent, k) < n => k <= a
LastLimits(a, n) ==
  /\ NotifiesLimits(upSent[a]) /\ Place(upSent, a) < n
  /\ \A k \in 1..Len(upSent) : NotifiesLimits(upSent[k]) /\ Place(upSent, k) < n => k <= a

\* What the master knows after n frames of the slave.
ManifestKnown(n) ==
  \E a \in 1..n : /\ IsNotify(upSent[a]) /\ master.manifest = upSent[a].meta.manifest
                  /\ \A k \in 1..n : IsNotify(upSent[k]) => k <= a
LimitsKnown(n) ==
  \E b \in 1..n : /\ NotifiesLimits(upSent[b]) /\ master.limits = RelayNotifyLimits(upSent[b])
                  /\ \A k \in 1..n : NotifiesLimits(upSent[k]) => k <= b

\* The master has read n frames of the slave; when it fails it no longer reads.
MasterRead(n) ==
  /\ ~ up.gone => OnTheWay(upSent, n, up.q)
  /\ Len(engineGot) <= Place(upSent, n)
  /\ master.state = "connecting" => n = 0
  /\ master.state = "connected" =>
       Len(engineGot) = Place(upSent, n) /\ ManifestKnown(n) /\ LimitsKnown(n)

\* What the engine got with its i-th frame.
GotAfterNotify(i) ==
  /\ \E a \in 1..Len(upSent) : LastNotify(a, i) /\ engineGot[i].manifest = upSent[a].meta.manifest
  /\ \E b \in 1..Len(upSent) : LastLimits(b, i) /\ engineGot[i].limits = RelayNotifyLimits(upSent[b])

MasterInv ==
  /\ up.gone => down.closed
  /\ FrameSeq(upSent)
  /\ pump["up"].pc = "writing" => ~ IsRelayFrame(Head(pump["up"].held))
  /\ \A k \in 1..Len(upSent) : IsNotify(upSent[k]) => HasManifest(upSent[k])
  /\ \A i \in 1..Len(engineGot) : GotAfterNotify(i)
  /\ \E n \in 0..Len(upSent) : MasterRead(n)

AnnInv == StatesInv /\ MasterInv

-----------------------------------------------------------------------------
(***************************************************************************)
(* What is on the way, and what of a notification arrives.                 *)
(***************************************************************************)

\* Writing at the end of the queue.
LEMMA WaySent ==
  ASSUME NEW s, NEW q, NEW f, NEW n \in Nat, IsSeq(s), IsSeq(q), n <= Len(s), OnTheWay(s, n, q)
  PROVE  OnTheWay(Append(s, f), n, Append(q, EncodeFrame(f)))
<1>1. PICK e, t, r : e = EncodeFrame(f) /\ t = Append(s, f) /\ r = Append(q, e)
  OBVIOUS
<1>2. /\ Len(s) \in Nat /\ Len(t) = Len(s) + 1
      /\ \A i \in 1..Len(s) : t[i] = s[i]
      /\ t[Len(s) + 1] = f
  BY <1>1, Appended, Shape
<1>3. /\ Len(q) \in Nat /\ Len(r) = Len(q) + 1
      /\ \A i \in 1..Len(q) : r[i] = q[i]
      /\ r[Len(q) + 1] = e
  BY <1>1, Appended, Shape
<1>4. Len(q) = Len(s) - n /\ \A j \in 1..Len(q) : q[j] = EncodeFrame(s[n + j])
  BY DEF OnTheWay
<1>5. Len(r) = Len(t) - n
  BY <1>2, <1>3, <1>4
<1>6. ASSUME NEW j \in 1..Len(r) PROVE r[j] = EncodeFrame(t[n + j])
  <2>1. CASE j \in 1..Len(q)
    <3>1. n + j \in 1..Len(s)
      BY <1>2, <1>3, <1>4, <2>1
    <3> QED BY <1>2, <1>3, <1>4, <2>1, <3>1
  <2>2. CASE j \notin 1..Len(q)
    <3>1. j = Len(q) + 1 /\ n + j = Len(s) + 1
      BY <1>2, <1>3, <1>4, <2>2
    <3> QED BY <1>1, <1>2, <1>3, <3>1
  <2> QED BY <2>1, <2>2
<1> QED BY <1>1, <1>5, <1>6 DEF OnTheWay

\* Reading at its head.
LEMMA WayRead ==
  ASSUME NEW s, NEW q, NEW n \in Nat, IsSeq(s), IsSeq(q), q # <<>>, n <= Len(s), OnTheWay(s, n, q)
  PROVE  /\ n + 1 <= Len(s) /\ n + 1 \in 1..Len(s)
         /\ Head(q) = EncodeFrame(s[n + 1])
         /\ OnTheWay(s, n + 1, Tail(q))
<1>1. /\ Len(s) \in Nat /\ Len(q) \in Nat /\ 1 \in 1..Len(q)
      /\ Len(Tail(q)) = Len(q) - 1
      /\ \A i \in 1..Len(Tail(q)) : Tail(q)[i] = q[i + 1]
      /\ Head(q) = q[1]
  BY HeadAndTail, Shape
<1>2. Len(q) = Len(s) - n /\ \A j \in 1..Len(q) : q[j] = EncodeFrame(s[n + j])
  BY DEF OnTheWay
<1>3. n + 1 <= Len(s) /\ n + 1 \in 1..Len(s) /\ Len(Tail(q)) = Len(s) - (n + 1)
  BY <1>1, <1>2
<1>4. Head(q) = EncodeFrame(s[n + 1])
  BY <1>1, <1>2
<1>5. ASSUME NEW j \in 1..Len(Tail(q)) PROVE Tail(q)[j] = EncodeFrame(s[(n + 1) + j])
  <2>1. j + 1 \in 1..Len(q) /\ n + (j + 1) = (n + 1) + j
    BY <1>1
  <2>2. q[j + 1] = EncodeFrame(s[n + (j + 1)])
    BY <1>2, <2>1
  <2> QED BY <1>1, <2>1, <2>2
<1> QED BY <1>3, <1>4, <1>5 DEF OnTheWay

LEMMA NotifyTravels ==
  ASSUME NEW f, IsFrame(f), HasManifest(f)
  PROVE  /\ HasManifest(OverTheWire(f)) /\ OverTheWire(f).meta = f.meta
         /\ HasLimits(OverTheWire(f)) <=> HasLimits(f)
         /\ RelayNotifyLimits(OverTheWire(f)) = RelayNotifyLimits(f)
<1>1. PICK g : g = OverTheWire(f)
  OBVIOUS
<1>2. "meta" \in DOMAIN f /\ "manifest" \in DOMAIN f.meta
  BY DEF HasManifest, Has
<1>3. ~ IsEmptyValue(f, "meta")
  <2>1. IsEmptyValue(f, "meta") = (DOMAIN f.meta = {})
    BY DEF IsEmptyValue
  <2> QED BY <1>2, <2>1
<1>4. "meta" \in ReadFields(f)
  BY <1>2, <1>3 DEF ReadFields, EncodedFields, DecodedFields
<1>5. "meta" \in DOMAIN g /\ g.meta = f.meta
  BY <1>1, <1>4, Travelled
<1>6. \A key : MetaInt(g, key) = MetaInt(f, key)
  BY <1>2, <1>5 DEF MetaInt, Has
<1>7. Announced(g) = Announced(f)
  BY <1>6 DEF Announced
<1> QED BY <1>1, <1>2, <1>5, <1>7 DEF HasManifest, Has, HasLimits, RelayNotifyLimits

LEMMA StateTravels ==
  ASSUME NEW f, IsFrame(f), "payload" \in DOMAIN f
  PROVE  Has(OverTheWire(f), "payload") /\ OverTheWire(f).payload = f.payload
<1>1. "payload" \in ReadFields(f)
  BY DEF ReadFields, EncodedFields, DecodedFields, OmittedWhenEmpty
<1> QED BY <1>1, Travelled DEF Has

\* Each notification that the slave writes has a manifest.
LEMMA NotifyHasManifest ==
  ASSUME NEW m, NEW limits
  PROVE  HasManifest(NewRelayNotify(m, limits))
BY DEF NewRelayNotify, WithMeta, WithManifest, With, HasManifest, Has

\* What the engine sends as a resource state has its number.
LEMMA StateHasNumber ==
  ASSUME NEW k, NEW f \in EngineFrames(k), IsState(f)
  PROVE  "payload" \in DOMAIN f /\ f.payload = <<k>>
<1>1. NewReq(k, "cap", <<>>).type = "REQ"
  BY NewFrames, WithFields DEF NewReq
<1>2. NewCancelFrame(k, TRUE).type = "CANCEL"
  <2>1. PICK t : t = TRUE
    OBVIOUS
  <2>2. With(NewFrame("CANCEL", k), [forceKill |-> t]).type = "CANCEL"
    BY NewFrames, WithFields
  <2> QED BY <2>1, <2>2, Zenon DEF NewCancelFrame
<1>3. NewRelayNotify(<<k>>, DefaultLimits).type = "RELAY_NOTIFY"
  BY NewFrames, WithFields DEF NewRelayNotify, WithMeta
<1>4. OldFrame(k).type = "RES"
  BY DEF OldFrame, NewFrame, RemovedRes
<1>5. f = NewRelayState(<<k>>)
  BY <1>1, <1>2, <1>3, <1>4 DEF EngineFrames, IsState
<1> QED BY <1>5 DEF NewRelayState, With

-----------------------------------------------------------------------------
(***************************************************************************)
(* The steps that leave what is announced alone.                           *)
(***************************************************************************)

LEMMA StreamCount ==
  ASSUME NEW s, IsStream(s)
  PROVE  IsSeq(s.q) /\ Len(s.q) \in Nat
BY Shape DEF IsStream, FrameSeq

LEMMA HeldCount ==
  ASSUME NEW p, IsPump(p)
  PROVE  Len(p.held) \in Nat /\ (p.pc # "writing" => Len(p.held) = 0) /\ (p.pc = "writing" => Len(p.held) = 1)
<1>1. /\ FrameSeq(p.held) /\ (p.pc # "writing" => p.held = <<>>)
      /\ p.pc = "writing" => p.held = <<Head(p.held)>>
  BY PumpCases
<1>2. Len(p.held) \in Nat
  BY <1>1, Shape DEF FrameSeq
<1>3. Len(<<>>) = 0 /\ \A x : Len(<<x>>) = 1
  BY SmallSeqs, EmptySeq
<1> QED BY <1>1, <1>2, <1>3

\* How many frames are in each place.
LEMMA Counts ==
  ASSUME IInv
  PROVE  /\ IsSeq(engineSent) /\ Len(engineSent) \in Nat
         /\ IsSeq(hostGot) /\ Len(hostGot) \in Nat
         /\ IsSeq(engineGot) /\ Len(engineGot) \in Nat
         /\ Len(toLocal.q) \in Nat /\ Len(pump["down"].held) \in Nat
         /\ IsSeq(down.q) /\ Len(down.q) \in Nat /\ IsSeq(up.q)
         /\ \A k \in 1..Len(engineSent) : IsFrame(engineSent[k])
         /\ \A n \in 0..Len(engineSent) : Place(engineSent, n) \in Nat
<1>1. StreamsInv /\ PumpInv /\ EndsInv
  BY DEF IInv
<1>2. IsStream(down) /\ IsStream(up) /\ IsStream(toLocal) /\ IsPump(pump["down"])
  BY <1>1 DEF StreamsInv, PumpInv, Directions
<1>3. /\ IsSeq(engineSent) /\ IsSeq(hostGot) /\ IsSeq(engineGot)
      /\ \A k \in 1..Len(engineSent) : IsFrame(engineSent[k])
  BY <1>1 DEF EndsInv, FrameSeq
<1>4. Len(engineSent) \in Nat /\ Len(hostGot) \in Nat /\ Len(engineGot) \in Nat
  BY <1>3, Shape
<1>5. \A n \in 0..Len(engineSent) : n \in Nat /\ n <= Len(engineSent)
  BY <1>4
<1>6. \A n \in 0..Len(engineSent) : Place(engineSent, n) \in Nat
  BY <1>3, <1>5, PlaceIsNat
<1> QED BY <1>2, <1>3, <1>4, <1>6, StreamCount, HeldCount

\* Frames may be lost on the way to the host; then it has fewer than the slave has read.
LEMMA StatesKept ==
  ASSUME IInv, IInv', StatesInv, UNCHANGED <<engineSent, hostGot, resourceState>>,
         Len(toLocal'.q) + Len(pump'["down"].held) <= Len(toLocal.q) + Len(pump["down"].held),
         \/ down'.q = down.q /\ down'.gone = down.gone
         \/ down'.q = <<>> /\ down'.gone
  PROVE  StatesInv'
<1>1. PICK n \in 0..Len(engineSent) : StatesRead(n)
  BY DEF StatesInv
<1>2. IsStream(toLocal') /\ IsPump(pump'["down"])
  BY DEF IInv, StreamsInv, PumpInv, Directions
<1>3. /\ Len(toLocal'.q) \in Nat /\ Len(pump'["down"].held) \in Nat
      /\ Len(toLocal.q) \in Nat /\ Len(pump["down"].held) \in Nat
      /\ Len(hostGot) \in Nat /\ Place(engineSent, n) \in Nat
  BY <1>2, StreamCount, HeldCount, Counts
<1>4. PICK g, l, h, a, b, p : /\ g = Len(hostGot) /\ p = Place(engineSent, n)
                              /\ l = Len(toLocal.q) /\ h = Len(pump["down"].held)
                              /\ a = Len(toLocal'.q) /\ b = Len(pump'["down"].held)
  OBVIOUS
<1>5. g + l + h <= p
  BY <1>1, <1>4 DEF StatesRead
<1>6. g + a + b <= p
  <2>1. \A u, v, w, x, y, z \in Nat : u + v + w <= z /\ x + y <= v + w => u + x + y <= z
    OBVIOUS
  <2>2. g \in Nat /\ p \in Nat /\ l \in Nat /\ h \in Nat /\ a \in Nat /\ b \in Nat
    BY <1>3, <1>4
  <2>3. a + b <= l + h
    BY <1>4
  <2> QED BY <1>5, <2>1, <2>2, <2>3
<1>7. ~ down'.gone => ~ down.gone /\ down'.q = down.q
  OBVIOUS
<1>8. StatesRead(n)'
  BY <1>1, <1>4, <1>6, <1>7 DEF StatesRead
<1> QED BY <1>1, <1>8 DEF StatesInv

LEMMA MasterKept ==
  ASSUME MasterInv, UNCHANGED <<upSent, engineGot, master>>,
         \/ up'.q = up.q /\ up'.gone = up.gone
         \/ up'.gone /\ down'.closed,
         down.closed => down'.closed,
         \/ pump'["up"] = pump["up"]
         \/ pump'["up"].pc # "writing"
         \/ ~ IsRelayFrame(Head(pump'["up"].held))
  PROVE  MasterInv'
<1>1. PICK n \in 0..Len(upSent) : MasterRead(n)
  BY DEF MasterInv
<1>2. ~ up'.gone => ~ up.gone /\ up'.q = up.q
  OBVIOUS
<1>3. MasterRead(n)'
  BY <1>1, <1>2 DEF MasterRead, ManifestKnown, LimitsKnown
<1>4. \A i \in 1..Len(engineGot') : GotAfterNotify(i)'
  <2>1. \A i \in 1..Len(engineGot) : GotAfterNotify(i)
    BY DEF MasterInv
  <2> QED BY <2>1 DEF GotAfterNotify, LastNotify, LastLimits
<1>5. up'.gone => down'.closed
  BY DEF MasterInv
<1>6. pump'["up"].pc = "writing" => ~ IsRelayFrame(Head(pump'["up"].held))
  BY DEF MasterInv
<1> QED BY <1>1, <1>3, <1>4, <1>5, <1>6 DEF MasterInv

\* What is sent to the engine comes after all that it has.
LEMMA LaterIsLater ==
  ASSUME NEW s, NEW t, IsSeq(s), IsSeq(t), Len(s) <= Len(t), \A k \in 1..Len(s) : t[k] = s[k]
  PROVE  /\ \A k \in 0..Len(s) : Place(t, k) = Place(s, k) /\ Place(s, k) \in Nat
         /\ \A n \in 0..Len(s), k \in 1..Len(t), i \in Nat :
               i <= Place(s, n) /\ Place(t, k) < i => k \in 1..Len(s)
<1>1. Len(s) \in Nat /\ Len(t) \in Nat
  BY Shape
<1>2. ASSUME NEW k \in 0..Len(s) PROVE Place(t, k) = Place(s, k) /\ Place(s, k) \in Nat
  <2>1. k \in Nat /\ k <= Len(s) /\ k <= Len(t) /\ \A i \in 1..k : i \in 1..Len(s)
    BY <1>1
  <2>2. \A i \in 1..k : t[i] = s[i]
    BY <2>1
  <2> QED BY <2>1, <2>2, SamePlace, PlaceIsNat
<1>3. ASSUME NEW n \in 0..Len(s), NEW k \in 1..Len(t), NEW i \in Nat, i <= Place(s, n), Place(t, k) < i
      PROVE  k \in 1..Len(s)
  <2>1. SUFFICES ASSUME k \notin 1..Len(s) PROVE FALSE
    OBVIOUS
  <2>2. n \in Nat /\ n <= k /\ k \in Nat /\ k <= Len(t) /\ n <= Len(t)
    BY <1>1, <2>1
  <2>3. Place(t, n) <= Place(t, k) /\ Place(t, n) \in Nat /\ Place(t, k) \in Nat
    BY <2>2, PlacesGrow, PlaceIsNat
  <2>4. Place(t, n) = Place(s, n)
    BY <1>2
  <2>5. PICK a, b : a = Place(t, n) /\ b = Place(t, k)
    OBVIOUS
  <2>6. a \in Nat /\ b \in Nat /\ a <= b /\ b < i /\ i <= a
    BY <1>3, <2>3, <2>4, <2>5
  <2> QED BY <2>6
<1> QED BY <1>2, <1>3

\* The slave sends a frame.
LEMMA MasterSends ==
  ASSUME IInv, MasterInv, NEW f, IsFrame(f), IsNotify(f) => HasManifest(f), SendsUp(f), ~ up.gone,
         UNCHANGED <<engineGot, master>>, down'.closed = down.closed,
         pump'["up"] = pump["up"] \/ pump'["up"].pc # "writing"
  PROVE  MasterInv'
<1> DEFINE s == upSent
           t == upSent'
<1>1. t = Append(s, f) /\ up' = WriteFrame(up, f)
  BY DEF SendsUp
<1>2. up'.q = Append(up.q, EncodeFrame(f)) /\ up'.gone = up.gone
  BY <1>1, StreamWritten DEF IInv, StreamsInv
<1>3. FrameSeq(s) /\ IsSeq(s) /\ FrameSeq(t) /\ IsSeq(t)
  <2>1. FrameSeq(s)
    BY DEF MasterInv
  <2>2. FrameSeq(t)
    BY <1>1, <2>1, FramesAppended
  <2> QED BY <2>1, <2>2 DEF FrameSeq
<1>4. PICK n \in 0..Len(upSent) : MasterRead(n)
  BY DEF MasterInv
<1>5. Len(s) \in Nat /\ n \in Nat /\ n <= Len(s) /\ Len(t) = Len(s) + 1
  BY <1>1, <1>3, <1>4, Shape, Appended
<1>6. Len(engineGot) \in Nat /\ Len(engineGot) <= Place(s, n) /\ IsSeq(up.q)
  BY <1>4, Counts DEF MasterRead
<1>7. /\ \A k \in 1..Len(s) : t[k] = s[k] /\ Place(t, k) = Place(s, k)
      /\ t[Len(s) + 1] = f /\ Place(t, n) = Place(s, n) /\ Place(s, n) \in Nat
  <2>1. t[Len(s) + 1] = f /\ \A k \in 1..Len(s) : t[k] = s[k]
    BY <1>1, <1>3, Appended
  <2>2. Len(s) <= Len(t) /\ n \in 0..Len(s) /\ \A k \in 1..Len(s) : k \in 0..Len(s)
    BY <1>5
  <2> HIDE DEF s, t
  <2>3. \A k \in 0..Len(s) : Place(t, k) = Place(s, k) /\ Place(s, k) \in Nat
    BY <1>3, <2>1, <2>2, LaterIsLater
  <2> QED BY <2>1, <2>2, <2>3
<1> HIDE DEF s, t
<1>8. OnTheWay(t, n, up'.q)
  <2>1. OnTheWay(s, n, up.q)
    BY <1>4 DEF MasterRead, s
  <2> QED BY <1>1, <1>2, <1>3, <1>5, <1>6, <2>1, WaySent
<1>9. \A k \in 1..n : k \in 1..Len(s) /\ t[k] = s[k]
  BY <1>5, <1>7
<1>10. master.state = "connected" =>
         Len(engineGot) = Place(t, n) /\ ManifestKnown(n)' /\ LimitsKnown(n)'
  <2> SUFFICES ASSUME master.state = "connected"
               PROVE  Len(engineGot) = Place(t, n) /\ ManifestKnown(n)' /\ LimitsKnown(n)'
    OBVIOUS
  <2>1. Len(engineGot) = Place(s, n) /\ ManifestKnown(n) /\ LimitsKnown(n)
    BY <1>4 DEF MasterRead, s
  <2>2. ManifestKnown(n)'
    BY <1>9, <2>1 DEF ManifestKnown, s, t
  <2>3. LimitsKnown(n)'
    BY <1>9, <2>1 DEF LimitsKnown, s, t
  <2> QED BY <1>7, <2>1, <2>2, <2>3
<1>11. MasterRead(n)'
  BY <1>4, <1>6, <1>7, <1>8, <1>10 DEF MasterRead, s, t
<1>12. ASSUME NEW i \in 1..Len(engineGot) PROVE GotAfterNotify(i)'
  <2>1. GotAfterNotify(i)
    BY DEF MasterInv
  <2>2. i \in Nat /\ i <= Place(s, n)
    BY <1>6, <1>7
  <2>3. \A k \in 1..Len(t) : Place(t, k) < i => k \in 1..Len(s)
    <3>1. \A m \in 0..Len(s), k \in 1..Len(t), j \in Nat :
             j <= Place(s, m) /\ Place(t, k) < j => k \in 1..Len(s)
      <4>1. Len(s) <= Len(t)
        BY <1>5
      <4> QED BY <1>3, <1>7, <4>1, LaterIsLater
    <3>2. n \in 0..Len(s)
      BY <1>5
    <3> QED BY <2>2, <3>1, <3>2
  <2>4. \A k \in 1..Len(s) : k \in 1..Len(t)
    BY <1>5
  <2>5. ASSUME NEW a \in 1..Len(s) PROVE LastNotify(a, i) => LastNotify(a, i)'
    BY <1>7, <2>3, <2>5 DEF LastNotify, s, t
  <2>6. ASSUME NEW a \in 1..Len(s) PROVE LastLimits(a, i) => LastLimits(a, i)'
    BY <1>7, <2>3, <2>6 DEF LastLimits, s, t
  <2> QED BY <1>7, <2>1, <2>4, <2>5, <2>6 DEF GotAfterNotify, s, t
<1>13. ASSUME NEW k \in 1..Len(t), IsNotify(t[k]) PROVE HasManifest(t[k])
  <2>1. k \in 1..Len(s) \/ k = Len(s) + 1
    BY <1>5
  <2>2. \A j \in 1..Len(s) : IsNotify(s[j]) => HasManifest(s[j])
    BY DEF MasterInv, s
  <2> QED BY <1>7, <1>13, <2>1, <2>2
<1>14. /\ up'.gone => down'.closed
       /\ pump'["up"].pc = "writing" => ~ IsRelayFrame(Head(pump'["up"].held))
  BY <1>2 DEF MasterInv
<1>15. n \in 0..Len(t)
  BY <1>5
<1> QED BY <1>3, <1>11, <1>12, <1>13, <1>14, <1>15 DEF MasterInv, t

-----------------------------------------------------------------------------
(***************************************************************************)
(* What the engine reads.                                                  *)
(***************************************************************************)

\* The next frame of the slave, as the master gets it.
LEMMA NextOfSlave ==
  ASSUME IInv, MasterInv, NEW n \in 0..Len(upSent), MasterRead(n), ~ up.gone, up.q # <<>>
  PROVE  LET g == upSent[n + 1]
             f == FrameRead(up)
         IN /\ Len(upSent) \in Nat /\ n \in Nat /\ n + 1 \in 1..Len(upSent)
            /\ f = OverTheWire(g) /\ IsFrame(g) /\ f.type = g.type
            /\ IsRelayFrame(f) <=> IsRelayFrame(g)
            /\ AfterRead(up).gone = up.gone /\ OnTheWay(upSent, n + 1, AfterRead(up).q)
            /\ Place(upSent, n) \in Nat
            /\ Place(upSent, n + 1) = IF IsRelayFrame(g) THEN Place(upSent, n) ELSE Place(upSent, n) + 1
<1> DEFINE g == upSent[n + 1]
           f == FrameRead(up)
<1>1. IsSeq(upSent) /\ \A k \in 1..Len(upSent) : IsFrame(upSent[k])
  BY DEF MasterInv, FrameSeq
<1>2. Len(upSent) \in Nat /\ n \in Nat /\ n <= Len(upSent)
  BY <1>1, Shape
<1>3. IsStream(up) /\ IsSeq(up.q)
  BY StreamCount DEF IInv, StreamsInv
<1>4. /\ n + 1 <= Len(upSent) /\ n + 1 \in 1..Len(upSent)
      /\ Head(up.q) = EncodeFrame(upSent[n + 1])
      /\ OnTheWay(upSent, n + 1, Tail(up.q))
  <2>1. OnTheWay(upSent, n, up.q)
    BY DEF MasterRead
  <2> QED BY <1>1, <1>2, <1>3, <2>1, WayRead
<1>5. AfterRead(up).gone = up.gone /\ AfterRead(up).q = Tail(up.q)
  BY <1>3, StreamRead
<1>6. f = OverTheWire(g)
  BY <1>4 DEF FrameRead, OverTheWire
<1>7. IsFrame(g)
  BY <1>1, <1>4
<1>8. f.type = g.type /\ (IsRelayFrame(f) <=> IsRelayFrame(g))
  <2> HIDE DEF f, g
  <2> QED BY <1>6, <1>7, TypeTravels
<1>9. /\ Place(upSent, n) \in Nat
      /\ Place(upSent, n + 1) = IF IsRelayFrame(g) THEN Place(upSent, n) ELSE Place(upSent, n) + 1
  BY <1>1, <1>2, <1>4, NextPlace
<1> QED BY <1>2, <1>4, <1>5, <1>6, <1>7, <1>8, <1>9

\* A notification that is the first frame or comes after n others is the last of n + 1.
LEMMA NotifyIsLast ==
  ASSUME MasterInv, NEW n \in Nat, n + 1 \in 1..Len(upSent), IsNotify(upSent[n + 1]), IsFrame(upSent[n + 1]),
         NEW f, f = OverTheWire(upSent[n + 1])
  PROVE  /\ HasManifest(f) /\ f.meta.manifest = upSent[n + 1].meta.manifest
         /\ master'.manifest = f.meta.manifest /\ UNCHANGED upSent => ManifestKnown(n + 1)'
         /\ HasLimits(f) /\ master'.limits = RelayNotifyLimits(f) /\ UNCHANGED upSent => LimitsKnown(n + 1)'
<1> DEFINE g == upSent[n + 1]
<1>1. HasManifest(g)
  BY DEF MasterInv
<1>2. /\ HasManifest(f) /\ f.meta = g.meta
      /\ HasLimits(f) <=> HasLimits(g)
      /\ RelayNotifyLimits(f) = RelayNotifyLimits(g)
  BY <1>1, NotifyTravels
<1>3. n + 1 \in 1..n + 1 /\ \A k \in 1..n + 1 : k <= n + 1
  OBVIOUS
<1>4. ASSUME master'.manifest = f.meta.manifest, UNCHANGED upSent PROVE ManifestKnown(n + 1)'
  BY <1>2, <1>3, <1>4 DEF ManifestKnown
<1>5. ASSUME HasLimits(f), master'.limits = RelayNotifyLimits(f), UNCHANGED upSent PROVE LimitsKnown(n + 1)'
  BY <1>2, <1>3, <1>5 DEF LimitsKnown, NotifiesLimits
<1> QED BY <1>2, <1>4, <1>5

\* What one goes on knowing when the frame is not a notification, or has no limits.
LEMMA StillKnown ==
  ASSUME NEW n \in Nat, UNCHANGED upSent
  PROVE  /\ ManifestKnown(n) /\ ~ IsNotify(upSent[n + 1]) /\ master'.manifest = master.manifest
              => ManifestKnown(n + 1)'
         /\ LimitsKnown(n) /\ ~ NotifiesLimits(upSent[n + 1]) /\ master'.limits = master.limits
              => LimitsKnown(n + 1)'
<1>1. \A k \in 1..n + 1 : k \in 1..n \/ k = n + 1
  OBVIOUS
<1>2. \A k \in 1..n : k \in 1..n + 1
  OBVIOUS
<1>3. ASSUME ManifestKnown(n), ~ IsNotify(upSent[n + 1]), master'.manifest = master.manifest
      PROVE  ManifestKnown(n + 1)'
  BY <1>1, <1>2, <1>3 DEF ManifestKnown
<1>4. ASSUME LimitsKnown(n), ~ NotifiesLimits(upSent[n + 1]), master'.limits = master.limits
      PROVE  LimitsKnown(n + 1)'
  BY <1>1, <1>2, <1>4 DEF LimitsKnown
<1> QED BY <1>3, <1>4

LEMMA EngineConnectsAnnounces ==
  ASSUME IInv, MasterInv, EngineConnects
  PROVE  MasterInv'
<1>1. /\ ConnectRelayMaster /\ UNCHANGED <<down, upSent, pump, engineGot>>
      /\ ~ down.closed /\ master.state = "connecting"
  BY DEF EngineConnects, ConnectRelayMaster, ends, EngineIsUp
<1>2. ~ up.gone
  BY <1>1 DEF MasterInv
<1>3. PICK n \in 0..Len(upSent) : MasterRead(n)
  BY DEF MasterInv
<1>4. n = 0 /\ Len(engineGot) <= Place(upSent, 0)
  BY <1>1, <1>3 DEF MasterRead
<1>5. IsSeq(upSent)
  BY DEF MasterInv, FrameSeq
<1>6. Len(engineGot) \in Nat /\ Place(upSent, 0) = 0 /\ Len(engineGot) = 0
  <2>1. Len(engineGot) \in Nat
    BY Counts
  <2>2. Place(upSent, 0) = 0
    BY <1>5, PlaceOfNone
  <2> QED BY <1>4, <2>1, <2>2
<1> DEFINE f == FrameRead(up)
           complete == f.type = "RELAY_NOTIFY" /\ HasManifest(f) /\ HasLimits(f)
<1>7. \A i \in 1..Len(engineGot') : GotAfterNotify(i)'
  BY <1>1, <1>6
<1>8. SUFFICES \E k \in 0..Len(upSent) : MasterRead(k)'
  <2>1. FrameSeq(upSent') /\ \A k \in 1..Len(upSent') : IsNotify(upSent'[k]) => HasManifest(upSent'[k])
    BY <1>1 DEF MasterInv
  <2>2. pump'["up"].pc = "writing" => ~ IsRelayFrame(Head(pump'["up"].held))
    BY <1>1 DEF MasterInv
  <2>3. ~ up'.gone
    <3>1. up' = up \/ (up' = AfterRead(up) /\ up.q # <<>>)
      BY <1>1, SomethingRead DEF ConnectRelayMaster
    <3> QED BY <1>2, <3>1, StreamRead DEF IInv, StreamsInv
  <2> QED BY <1>1, <1>7, <2>1, <2>2, <2>3 DEF MasterInv
<1>9. CASE ReadOutcome(up, DefaultLimits) # "frame"
  <2>1. up' = up /\ master' = [master EXCEPT !.state = "failed"]
    BY <1>1, <1>9 DEF ConnectRelayMaster
  <2>2. master'.state = "failed"
    BY <2>1 DEF IInv, EndsInv
  <2>3. MasterRead(n)'
    BY <1>1, <1>3, <2>1, <2>2 DEF MasterRead
  <2> QED BY <2>3
<1>10. CASE ReadOutcome(up, DefaultLimits) = "frame"
  <2>1. up.q # <<>> /\ up' = AfterRead(up)
    BY <1>1, <1>10, SomethingRead DEF ConnectRelayMaster
  <2>2. /\ 1 \in 1..Len(upSent) /\ 1 \in 0..Len(upSent) /\ 0 + 1 = 1
        /\ f = OverTheWire(upSent[1]) /\ IsFrame(upSent[1]) /\ f.type = upSent[1].type
        /\ IsRelayFrame(f) <=> IsRelayFrame(upSent[1])
        /\ OnTheWay(upSent, 1, up'.q)
        /\ Place(upSent, 1) = IF IsRelayFrame(upSent[1]) THEN 0 ELSE 1
    <3>1. /\ Len(upSent) \in Nat /\ 0 + 1 \in 1..Len(upSent)
          /\ f = OverTheWire(upSent[0 + 1]) /\ IsFrame(upSent[0 + 1]) /\ f.type = upSent[0 + 1].type
          /\ IsRelayFrame(f) <=> IsRelayFrame(upSent[0 + 1])
          /\ OnTheWay(upSent, 0 + 1, AfterRead(up).q)
          /\ Place(upSent, 0 + 1) = IF IsRelayFrame(upSent[0 + 1]) THEN Place(upSent, 0) ELSE Place(upSent, 0) + 1
      BY <1>2, <1>3, <1>4, <2>1, NextOfSlave
    <3>2. 0 + 1 = 1
      OBVIOUS
    <3> QED BY <1>6, <2>1, <3>1, <3>2
  <2>3. CASE complete
    <3>1. master' = [state |-> "connected", manifest |-> f.meta.manifest, limits |-> RelayNotifyLimits(f)]
      BY <1>1, <1>10, <2>3 DEF ConnectRelayMaster
    <3>2. master'.state = "connected" /\ master'.manifest = f.meta.manifest /\ master'.limits = RelayNotifyLimits(f)
      BY <3>1
    <3>3. IsNotify(upSent[1]) /\ IsRelayFrame(upSent[1]) /\ HasLimits(f)
      BY <2>2, <2>3 DEF IsNotify, IsRelayFrame
    <3> HIDE DEF f, complete
    <3>4. ManifestKnown(1)' /\ LimitsKnown(1)'
      BY <1>1, <2>2, <3>2, <3>3, NotifyIsLast
    <3>5. MasterRead(1)'
      BY <1>1, <1>6, <2>2, <3>2, <3>3, <3>4 DEF MasterRead
    <3> QED BY <2>2, <3>5
  <2>4. CASE ~ complete
    <3>1. master' = [master EXCEPT !.state = "failed"]
      BY <1>1, <1>10, <2>4 DEF ConnectRelayMaster
    <3>2. master'.state = "failed"
      BY <3>1 DEF IInv, EndsInv
    <3>3. MasterRead(1)'
      BY <1>1, <1>6, <2>2, <3>2 DEF MasterRead
    <3> QED BY <2>2, <3>3
  <2> QED BY <2>3, <2>4
<1> QED BY <1>9, <1>10

\* What the engine gets has the manifest and the limits of its master.
LEMMA GotWith ==
  ASSUME IInv, EngineReads
  PROVE  \/ Returned = <<>> /\ engineGot' = engineGot
         \/ \E r : /\ Returned # <<>> /\ engineGot' = Append(engineGot, r)
                   /\ r.manifest = master.manifest /\ r.limits = master.limits
<1>1. IsSeq(engineGot)
  BY Counts
<1>2. engineGot' = engineGot \o [i \in DOMAIN Returned |->
                       [frame |-> Returned[i], manifest |-> master.manifest,
                        limits |-> master.limits]]
  BY DEF EngineReads
<1>3. CASE Returned = <<>>
  BY <1>3, FrameReturned
<1>4. CASE Returned = <<FrameRead(up)>>
  <2>1. PICK f : f = FrameRead(up)
    OBVIOUS
  <2>2. PICK r : r = [frame |-> f, manifest |-> master.manifest, limits |-> master.limits]
    OBVIOUS
  <2>3. DOMAIN <<f>> = 1..1 /\ <<f>>[1] = f /\ <<f>> # <<>>
    OBVIOUS
  <2>4. [i \in DOMAIN <<f>> |->
           [frame |-> <<f>>[i], manifest |-> master.manifest, limits |-> master.limits]]
          = [i \in 1..1 |-> r]
    <3>1. \A i \in 1..1 : i = 1
      OBVIOUS
    <3> QED BY <2>2, <2>3, <3>1
  <2>5. [i \in 1..1 |-> r] = <<r>>
    OBVIOUS
  <2>6. engineGot' = engineGot \o <<r>>
    BY <1>2, <1>4, <2>1, <2>4, <2>5
  <2>7. engineGot \o <<r>> = Append(engineGot, r)
    BY <1>1, Appended
  <2>8. r.manifest = master.manifest /\ r.limits = master.limits
    BY <2>2
  <2> QED BY <1>4, <2>1, <2>3, <2>6, <2>7, <2>8
<1> QED BY <1>3, <1>4 DEF Returned

\* A frame that is not of the relay comes with what the notifications before it say.
LEMMA GotIsKnown ==
  ASSUME MasterInv, NEW n \in Nat, n + 1 \in 1..Len(upSent), NEW i, i = Place(upSent, n) + 1,
         Place(upSent, n + 1) = i, UNCHANGED upSent,
         ManifestKnown(n), LimitsKnown(n),
         engineGot'[i].manifest = master.manifest, engineGot'[i].limits = master.limits
  PROVE  GotAfterNotify(i)'
<1>1. IsSeq(upSent) /\ Len(upSent) \in Nat /\ n <= Len(upSent)
  <2>1. IsSeq(upSent) /\ Len(upSent) \in Nat
    BY Shape DEF MasterInv, FrameSeq
  <2> QED BY <2>1
<1>2. Place(upSent, n) \in Nat /\ i \in Nat /\ Place(upSent, n) < i
  <2>1. Place(upSent, n) \in Nat
    BY <1>1, PlaceIsNat
  <2>2. PICK p : p = Place(upSent, n)
    OBVIOUS
  <2> QED BY <2>1, <2>2
<1>3. ASSUME NEW k \in 1..Len(upSent), Place(upSent, k) < i
      PROVE  k \in 1..n
  <2>1. SUFFICES ASSUME k \notin 1..n PROVE FALSE
    OBVIOUS
  <2>2. k \in Nat /\ n + 1 <= k /\ k <= Len(upSent) /\ n + 1 \in Nat
    BY <1>1, <2>1
  <2>3. Place(upSent, n + 1) <= Place(upSent, k) /\ Place(upSent, k) \in Nat
    BY <1>1, <2>2, PlacesGrow, PlaceIsNat
  <2>4. PICK p : p = Place(upSent, k)
    OBVIOUS
  <2>5. p \in Nat /\ i <= p /\ p < i
    BY <1>3, <2>3, <2>4
  <2> QED BY <1>2, <2>5
<1>4. ASSUME NEW k \in 1..n
      PROVE  k \in 1..Len(upSent) /\ Place(upSent, k) < i
  <2>1. k \in Nat /\ k <= n /\ k <= Len(upSent) /\ k \in 1..Len(upSent)
    BY <1>1
  <2>2. Place(upSent, k) <= Place(upSent, n) /\ Place(upSent, k) \in Nat
    BY <1>1, <2>1, PlacesGrow, PlaceIsNat
  <2>3. PICK p, q : p = Place(upSent, k) /\ q = Place(upSent, n)
    OBVIOUS
  <2>4. p < i
    <3>1. p \in Nat /\ q \in Nat /\ i \in Nat /\ p <= q /\ q < i
      BY <1>2, <2>2, <2>3
    <3> QED BY <3>1
  <2> QED BY <2>1, <2>3, <2>4
<1>5. PICK a \in 1..n : /\ IsNotify(upSent[a]) /\ master.manifest = upSent[a].meta.manifest
                        /\ \A k \in 1..n : IsNotify(upSent[k]) => k <= a
  BY DEF ManifestKnown
<1>6. PICK b \in 1..n : /\ NotifiesLimits(upSent[b]) /\ master.limits = RelayNotifyLimits(upSent[b])
                        /\ \A k \in 1..n : NotifiesLimits(upSent[k]) => k <= b
  BY DEF LimitsKnown
<1>7. LastNotify(a, i)'
  BY <1>3, <1>4, <1>5 DEF LastNotify
<1>8. LastLimits(b, i)'
  BY <1>3, <1>4, <1>6 DEF LastLimits
<1> QED BY <1>4, <1>5, <1>6, <1>7, <1>8 DEF GotAfterNotify

LEMMA EngineReadsAnnounces ==
  ASSUME IInv, MasterInv, EngineReads
  PROVE  MasterInv'
<1>1. /\ MasterReadFrame /\ UNCHANGED <<down, upSent, pump>>
      /\ ~ down.closed /\ master.state = "connected"
  BY DEF EngineReads, MasterReadFrame, EngineIsUp
<1>2. ~ up.gone
  BY <1>1 DEF MasterInv
<1>3. PICK n \in 0..Len(upSent) : MasterRead(n)
  BY DEF MasterInv
<1>4. Len(engineGot) = Place(upSent, n) /\ ManifestKnown(n) /\ LimitsKnown(n)
  BY <1>1, <1>3 DEF MasterRead
<1>5. IsSeq(engineGot) /\ Len(engineGot) \in Nat
  BY Counts
<1>6. \A i \in 1..Len(engineGot) : GotAfterNotify(i)
  BY DEF MasterInv
<1> DEFINE f == FrameRead(up)
           g == upSent[n + 1]
<1>7. SUFFICES /\ \A i \in 1..Len(engineGot') : GotAfterNotify(i)'
               /\ \E k \in 0..Len(upSent) : MasterRead(k)'
  <2>1. FrameSeq(upSent') /\ \A k \in 1..Len(upSent') : IsNotify(upSent'[k]) => HasManifest(upSent'[k])
    BY <1>1 DEF MasterInv
  <2>2. pump'["up"].pc = "writing" => ~ IsRelayFrame(Head(pump'["up"].held))
    BY <1>1 DEF MasterInv
  <2>3. ~ up'.gone
    <3>1. up' = up \/ (up' = AfterRead(up) /\ up.q # <<>>)
      BY <1>1, SomethingRead DEF MasterReadFrame
    <3> QED BY <1>2, <3>1, StreamRead DEF IInv, StreamsInv
  <2> QED BY <1>1, <2>1, <2>2, <2>3 DEF MasterInv
<1>8. ASSUME engineGot' = engineGot
      PROVE  \A i \in 1..Len(engineGot') : GotAfterNotify(i)'
  BY <1>1, <1>6, <1>8 DEF GotAfterNotify, LastNotify, LastLimits
<1>9. CASE ReadOutcome(up, DefaultLimits) # "frame"
  <2>1. up' = up /\ Returned = <<>>
    BY <1>1, <1>9 DEF MasterReadFrame, Returned
  <2>2. engineGot' = engineGot
    BY <2>1, GotWith
  <2>3. master'.state \in {"eof", "failed"}
    <3>1. master' = [master EXCEPT !.state = "eof"] \/ master' = [master EXCEPT !.state = "failed"]
      BY <1>1, <1>9 DEF MasterReadFrame
    <3> QED BY <3>1 DEF IInv, EndsInv
  <2>4. MasterRead(n)'
    BY <1>1, <1>3, <2>1, <2>2, <2>3 DEF MasterRead
  <2> QED BY <1>8, <2>2, <2>4
<1>10. CASE ReadOutcome(up, DefaultLimits) = "frame"
  <2>1. up.q # <<>> /\ up' = AfterRead(up) /\ ~ up'.gone
        /\ master' = (IF f.type = "RELAY_NOTIFY" THEN Updated(master, f) ELSE master)
        /\ Returned = IF IsRelayFrame(f) THEN <<>> ELSE <<f>>
    <3>1. up.q # <<>> /\ up' = AfterRead(up)
          /\ master' = (IF f.type = "RELAY_NOTIFY" THEN Updated(master, f) ELSE master)
          /\ Returned = IF IsRelayFrame(f) THEN <<>> ELSE <<f>>
      BY <1>1, <1>10, SomethingRead DEF MasterReadFrame, Returned
    <3> QED BY <1>2, <3>1, StreamRead DEF IInv, StreamsInv
  <2>2. /\ Len(upSent) \in Nat /\ n \in Nat /\ n + 1 \in 1..Len(upSent)
        /\ f = OverTheWire(g) /\ IsFrame(g) /\ f.type = g.type
        /\ IsRelayFrame(f) <=> IsRelayFrame(g)
        /\ OnTheWay(upSent, n + 1, up'.q)
        /\ Place(upSent, n) \in Nat
        /\ Place(upSent, n + 1) = IF IsRelayFrame(g) THEN Place(upSent, n) ELSE Place(upSent, n) + 1
    BY <1>2, <1>3, <2>1, NextOfSlave
  <2>3. n + 1 \in 0..Len(upSent)
    BY <2>2
  <2> HIDE DEF f
  <2>4. CASE IsRelayFrame(g)
    <3>1. engineGot' = engineGot
      BY <2>1, <2>2, <2>4, GotWith
    <3>2. Len(engineGot') = Place(upSent, n + 1)
      BY <1>4, <2>2, <2>4, <3>1
    <3>3. CASE IsNotify(g)
      <4>1. master' = Updated(master, f) /\ HasManifest(f)
        BY <2>1, <2>2, <3>3, NotifyIsLast DEF IsNotify
      <4>2. /\ master'.state = "connected" /\ master'.manifest = f.meta.manifest
            /\ master'.limits = IF HasLimits(f) THEN RelayNotifyLimits(f) ELSE master.limits
        BY <1>1, <4>1 DEF Updated, IInv, EndsInv
      <4>3. ManifestKnown(n + 1)'
        BY <1>1, <2>2, <3>3, <4>2, NotifyIsLast
      <4>4. LimitsKnown(n + 1)'
        <5>1. CASE HasLimits(f)
          BY <1>1, <2>2, <3>3, <4>2, <5>1, NotifyIsLast
        <5>2. CASE ~ HasLimits(f)
          <6>1. HasManifest(g)
            BY <2>2, <3>3 DEF MasterInv
          <6>2. ~ NotifiesLimits(g)
            BY <2>2, <5>2, <6>1, NotifyTravels DEF NotifiesLimits
          <6>3. master'.limits = master.limits
            BY <4>2, <5>2
          <6> QED BY <1>1, <1>4, <2>2, <6>2, <6>3, StillKnown
        <5> QED BY <5>1, <5>2
      <4>5. MasterRead(n + 1)'
        BY <1>1, <2>2, <3>2, <4>2, <4>3, <4>4 DEF MasterRead
      <4> QED BY <1>8, <2>3, <3>1, <4>5
    <3>4. CASE ~ IsNotify(g)
      <4>1. master' = master /\ ~ NotifiesLimits(g)
        BY <2>1, <2>2, <3>4 DEF IsNotify, NotifiesLimits
      <4>2. ManifestKnown(n + 1)' /\ LimitsKnown(n + 1)'
        BY <1>1, <1>4, <2>2, <3>4, <4>1, StillKnown
      <4>3. MasterRead(n + 1)'
        BY <1>1, <2>2, <3>2, <4>1, <4>2 DEF MasterRead
      <4> QED BY <1>8, <2>3, <3>1, <4>3
    <3> QED BY <3>3, <3>4
  <2>5. CASE ~ IsRelayFrame(g)
    <3>1. master' = master /\ ~ IsNotify(g) /\ ~ NotifiesLimits(g) /\ Returned = <<f>>
      BY <2>1, <2>2, <2>5 DEF IsNotify, NotifiesLimits, IsRelayFrame
    <3>2. PICK r : engineGot' = Append(engineGot, r) /\ r.manifest = master.manifest /\ r.limits = master.limits
      <4>1. Returned # <<>>
        BY <3>1
      <4> QED BY <4>1, GotWith
    <3>3. /\ Len(engineGot') = Len(engineGot) + 1 /\ engineGot'[Len(engineGot) + 1] = r
          /\ \A i \in 1..Len(engineGot) : engineGot'[i] = engineGot[i]
      BY <1>5, <3>2, Appended
    <3>4. Len(engineGot') = Place(upSent, n + 1)
      BY <1>4, <2>2, <2>5, <3>3
    <3>5. ManifestKnown(n + 1)' /\ LimitsKnown(n + 1)'
      BY <1>1, <1>4, <2>2, <3>1, StillKnown
    <3>6. MasterRead(n + 1)'
      BY <1>1, <2>2, <3>1, <3>4, <3>5 DEF MasterRead
    <3>7. ASSUME NEW i \in 1..Len(engineGot) PROVE GotAfterNotify(i)'
      BY <1>1, <1>6, <3>3 DEF GotAfterNotify, LastNotify, LastLimits
    <3>8. PICK i : i = Len(engineGot) + 1
      OBVIOUS
    <3>9. GotAfterNotify(i)'
      <4>1. i = Place(upSent, n) + 1 /\ Place(upSent, n + 1) = i
        BY <1>4, <2>2, <2>5, <3>8
      <4>2. engineGot'[i].manifest = master.manifest /\ engineGot'[i].limits = master.limits
        BY <3>2, <3>3, <3>8
      <4> QED BY <1>1, <1>4, <2>2, <4>1, <4>2, GotIsKnown
    <3>10. \A k \in 1..Len(engineGot') : k \in 1..Len(engineGot) \/ k = i
      BY <1>5, <3>3, <3>8
    <3> QED BY <2>3, <3>6, <3>7, <3>9, <3>10
  <2> QED BY <2>4, <2>5
<1> QED BY <1>9, <1>10

-----------------------------------------------------------------------------
(***************************************************************************)
(* What the slave and the host read.                                       *)
(***************************************************************************)

\* A new resource state comes after all the frames that the host has.
LEMMA EngineSendsAnnounces ==
  ASSUME IInv, StatesInv, EngineSends
  PROVE  StatesInv'
<1>1. UNCHANGED <<toLocal, pump, resourceState, hostGot>>
  BY DEF EngineSends
<1>2. PICK f \in EngineFrames(Len(engineSent) + 1) :
        /\ WriteOutcome(down, f, DefaultLimits) = "written"
        /\ down' = WriteFrame(down, f)
        /\ engineSent' = Append(engineSent, f)
  BY DEF EngineSends
<1>3. ~ down.gone
  BY <1>2 DEF WriteOutcome
<1>4. down'.q = Append(down.q, EncodeFrame(f)) /\ down'.gone = down.gone
  BY <1>2, FramesOfTheEngine, StreamWritten DEF IInv, StreamsInv
<1> DEFINE s == engineSent
           t == engineSent'
<1>5. PICK n \in 0..Len(engineSent) : StatesRead(n)
  BY DEF StatesInv
<1>6. /\ IsSeq(s) /\ IsSeq(t) /\ Len(s) \in Nat /\ Len(t) = Len(s) + 1
      /\ t[Len(s) + 1] = f /\ \A k \in 1..Len(s) : t[k] = s[k]
  BY <1>2, Counts, Appended
<1>7. Len(s) <= Len(t) /\ n \in Nat /\ n <= Len(s) /\ n \in 0..Len(s) /\ n \in 0..Len(t)
  BY <1>5, <1>6
<1>8. /\ Len(hostGot) \in Nat /\ Len(toLocal.q) \in Nat /\ Len(pump["down"].held) \in Nat
      /\ IsSeq(down.q)
  BY Counts
<1> HIDE DEF s, t
<1>9. /\ \A k \in 0..Len(s) : Place(t, k) = Place(s, k) /\ Place(s, k) \in Nat
      /\ \A m \in 0..Len(s), k \in 1..Len(t), i \in Nat :
            i <= Place(s, m) /\ Place(t, k) < i => k \in 1..Len(s)
  BY <1>6, <1>7, LaterIsLater
<1>10. Len(hostGot) <= Place(s, n)
  <2>1. Len(hostGot) + Len(toLocal.q) + Len(pump["down"].held) <= Place(s, n) /\ Place(s, n) \in Nat
    BY <1>5, <1>7, <1>9 DEF StatesRead, s
  <2>2. \A a, b, c, d \in Nat : a + b + c <= d => a <= d
    OBVIOUS
  <2> QED BY <1>8, <2>1, <2>2
<1>11. OnTheWay(t, n, down'.q)
  <2>1. OnTheWay(s, n, down.q)
    BY <1>3, <1>5 DEF StatesRead, s
  <2> QED BY <1>2, <1>4, <1>6, <1>7, <1>8, <2>1, WaySent DEF s, t
<1>12. StatesRead(n)'
  <2>1. Len(hostGot) + Len(toLocal.q) + Len(pump["down"].held) <= Place(t, n)
    BY <1>5, <1>7, <1>9 DEF StatesRead, s
  <2>2. \A k \in 1..n : IsState(t[k]) => Knows(resourceState, k)
    <3>1. \A k \in 1..n : k \in 1..Len(s)
      BY <1>7
    <3> QED BY <1>5, <1>6, <3>1 DEF StatesRead, s
  <2> QED BY <1>1, <1>11, <2>1, <2>2 DEF StatesRead, t
<1>13. ASSUME NEW k \in 1..Len(t), IsState(t[k])
       PROVE  "payload" \in DOMAIN t[k] /\ t[k].payload = <<k>>
  <2>1. CASE k \in 1..Len(s)
    BY <1>6, <1>13, <2>1 DEF StatesInv, s
  <2>2. CASE k \notin 1..Len(s)
    <3>1. k = Len(s) + 1
      BY <1>6, <2>2
    <3>2. PICK m : m = Len(s) + 1
      OBVIOUS
    <3>3. f \in EngineFrames(m) /\ IsState(f)
      BY <1>2, <1>6, <1>13, <3>1, <3>2 DEF s
    <3>4. "payload" \in DOMAIN f /\ f.payload = <<m>>
      BY <3>3, StateHasNumber
    <3> QED BY <1>6, <3>1, <3>2, <3>4
  <2> QED BY <2>1, <2>2
<1>14. ASSUME NEW i \in 1..Len(hostGot), NEW k \in 1..Len(t), IsState(t[k]), Place(t, k) < i
       PROVE  Knows(hostGot[i].state, k)
  <2>1. i \in Nat /\ i <= Place(s, n)
    BY <1>8, <1>7, <1>9, <1>10
  <2>2. k \in 1..Len(s)
    BY <1>7, <1>9, <1>14, <2>1
  <2>3. t[k] = s[k] /\ Place(t, k) = Place(s, k)
    BY <1>6, <1>9, <2>2
  <2> QED BY <1>14, <2>2, <2>3 DEF StatesInv, s
<1> QED BY <1>1, <1>3, <1>4, <1>7, <1>12, <1>13, <1>14 DEF StatesInv, t

\* The host gets a frame with all the states that were sent before it.
LEMMA HostReadsAnnounces ==
  ASSUME IInv, StatesInv, HostReads
  PROVE  StatesInv'
<1>1. UNCHANGED <<engineSent, down, pump, resourceState>>
  BY DEF HostReads
<1>2. PICK r : /\ hostGot' = Append(hostGot, r) /\ r.state = resourceState
               /\ toLocal' = AfterRead(toLocal) /\ toLocal.q # <<>>
  <2>1. toLocal' = AfterRead(toLocal) /\ toLocal.q # <<>>
    BY SomethingRead DEF HostReads
  <2>2. PICK f : f = FrameRead(toLocal)
    OBVIOUS
  <2>3. hostGot' = Append(hostGot, [frame |-> f, state |-> resourceState])
    BY <2>2 DEF HostReads
  <2>4. [frame |-> f, state |-> resourceState].state = resourceState
    OBVIOUS
  <2> QED BY <2>1, <2>3, <2>4
<1>3. /\ IsSeq(hostGot) /\ Len(hostGot) \in Nat /\ Len(toLocal.q) \in Nat /\ Len(pump["down"].held) \in Nat
      /\ \A n \in 0..Len(engineSent) : Place(engineSent, n) \in Nat
      /\ IsSeq(engineSent) /\ Len(engineSent) \in Nat
  BY Counts
<1>4. /\ Len(hostGot') = Len(hostGot) + 1 /\ hostGot'[Len(hostGot) + 1] = r
      /\ \A i \in 1..Len(hostGot) : hostGot'[i] = hostGot[i]
  BY <1>2, <1>3, Appended
<1>5. Len(toLocal'.q) = Len(toLocal.q) - 1
  <2>1. IsStream(toLocal)
    BY DEF IInv, StreamsInv
  <2>2. IsSeq(toLocal.q) /\ toLocal'.q = Tail(toLocal.q)
    BY <1>2, <2>1, StreamRead, StreamCount
  <2> QED BY <1>2, <2>2, HeadAndTail
<1>6. Len(toLocal.q) # 0
  BY <1>2, StreamCount, Shape DEF IInv, StreamsInv
<1>7. PICK n \in 0..Len(engineSent) : StatesRead(n)
  BY DEF StatesInv
<1>8. Len(hostGot') + Len(toLocal'.q) + Len(pump["down"].held) <= Place(engineSent, n)
  <2>1. \A a, b, c, d \in Nat : b # 0 /\ a + b + c <= d => (a + 1) + (b - 1) + c <= d
    OBVIOUS
  <2>2. Len(hostGot) + Len(toLocal.q) + Len(pump["down"].held) <= Place(engineSent, n)
    BY <1>7 DEF StatesRead
  <2> QED BY <1>3, <1>4, <1>5, <1>6, <1>7, <2>1, <2>2
<1>9. StatesRead(n)'
  BY <1>1, <1>7, <1>8 DEF StatesRead
<1>10. PICK i : i = Len(hostGot) + 1
  OBVIOUS
<1>11. i \in Nat /\ i <= Place(engineSent, n)
  <2>1. \A a, b, c, d \in Nat : b # 0 /\ a + b + c <= d => a + 1 <= d
    OBVIOUS
  <2>2. Len(hostGot) + Len(toLocal.q) + Len(pump["down"].held) <= Place(engineSent, n)
    BY <1>7 DEF StatesRead
  <2>3. PICK a, b, c, d : /\ a = Len(hostGot) /\ b = Len(toLocal.q)
                          /\ c = Len(pump["down"].held) /\ d = Place(engineSent, n)
    OBVIOUS
  <2>4. a \in Nat /\ b \in Nat /\ c \in Nat /\ d \in Nat
    BY <1>3, <1>7, <2>3
  <2>5. b # 0 /\ a + b + c <= d
    BY <1>6, <2>2, <2>3
  <2>6. a + 1 <= d /\ a + 1 \in Nat
    BY <2>1, <2>4, <2>5
  <2> QED BY <1>10, <2>3, <2>6
<1>12. ASSUME NEW k \in 1..Len(engineSent), IsState(engineSent[k]), Place(engineSent, k) < i
       PROVE  Knows(r.state, k)
  <2>1. k \in 1..n
    <3>1. SUFFICES ASSUME k \notin 1..n PROVE FALSE
      OBVIOUS
    <3>2. k \in Nat /\ n \in Nat /\ n <= k /\ k <= Len(engineSent) /\ k \in 0..Len(engineSent)
      BY <1>3, <1>7, <3>1
    <3>3. Place(engineSent, n) <= Place(engineSent, k)
      BY <1>3, <3>2, PlacesGrow
    <3>4. PICK a, b : a = Place(engineSent, n) /\ b = Place(engineSent, k)
      OBVIOUS
    <3>5. a \in Nat /\ b \in Nat /\ a <= b /\ b < i /\ i <= a
      BY <1>3, <1>7, <1>11, <1>12, <3>2, <3>3, <3>4
    <3> QED BY <1>11, <3>5
  <2> QED BY <1>2, <1>7, <1>12, <2>1 DEF StatesRead
<1>13. ASSUME NEW j \in 1..Len(hostGot'), NEW k \in 1..Len(engineSent),
              IsState(engineSent[k]), Place(engineSent, k) < j
       PROVE  Knows(hostGot'[j].state, k)
  <2>1. j \in 1..Len(hostGot) \/ j = i
    BY <1>3, <1>4, <1>10
  <2>2. CASE j \in 1..Len(hostGot)
    BY <1>4, <1>13, <2>2 DEF StatesInv
  <2>3. CASE j = i
    BY <1>4, <1>10, <1>12, <1>13, <2>3
  <2> QED BY <2>1, <2>2, <2>3
<1>14. /\ down'.gone => down'.q = <<>>
       /\ \A k \in 1..Len(engineSent) :
            IsState(engineSent[k]) => "payload" \in DOMAIN engineSent[k] /\ engineSent[k].payload = <<k>>
  BY <1>1 DEF StatesInv
<1> QED BY <1>1, <1>7, <1>9, <1>13, <1>14 DEF StatesInv

\* The slave takes a frame of the engine; a state is kept before the next frame is read.
LEMMA SlaveReadsAnnounces ==
  ASSUME IInv, StatesInv, UNCHANGED <<engineSent, hostGot, toLocal>>,
         pump["down"].pc = "reading", down.q # <<>>, down' = AfterRead(down),
         pump'["down"] = IF PassesOn("down", FrameRead(down)) THEN Writing(FrameRead(down)) ELSE Pump("reading"),
         resourceState' = IF FrameRead(down).type = "RELAY_STATE" /\ Has(FrameRead(down), "payload")
                          THEN FrameRead(down).payload ELSE resourceState
  PROVE  StatesInv'
<1> DEFINE s == engineSent
           f == FrameRead(down)
<1>1. ~ down.gone
  BY DEF StatesInv
<1>2. PICK n \in 0..Len(engineSent) : StatesRead(n)
  BY DEF StatesInv
<1>3. /\ IsSeq(s) /\ Len(s) \in Nat /\ IsSeq(down.q)
      /\ Len(hostGot) \in Nat /\ Len(toLocal.q) \in Nat /\ Len(pump["down"].held) \in Nat
      /\ \A k \in 1..Len(s) : IsFrame(s[k])
      /\ \A k \in 0..Len(s) : Place(s, k) \in Nat
  BY Counts
<1>4. n \in Nat /\ n <= Len(s)
  BY <1>2, <1>3
<1>5. IsStream(down)
  BY DEF IInv, StreamsInv
<1> DEFINE g == s[n + 1]
<1>6. /\ n + 1 <= Len(s) /\ n + 1 \in 1..Len(s) /\ Head(down.q) = EncodeFrame(g)
      /\ OnTheWay(s, n + 1, Tail(down.q))
  <2>1. OnTheWay(s, n, down.q)
    BY <1>1, <1>2 DEF StatesRead
  <2> QED BY <1>3, <1>4, <2>1, WayRead
<1>7. down'.q = Tail(down.q) /\ down'.gone = down.gone
  BY <1>5, StreamRead
<1>8. f = OverTheWire(g) /\ IsFrame(g)
  BY <1>3, <1>6 DEF FrameRead, OverTheWire
<1>9. f.type = g.type /\ IsFrame(f) /\ (IsRelayFrame(f) <=> IsRelayFrame(g))
  <2> HIDE DEF f, g
  <2> QED BY <1>8, TypeTravels
<1>10. /\ Place(s, n) \in Nat
       /\ Place(s, n + 1) = IF IsRelayFrame(g) THEN Place(s, n) ELSE Place(s, n) + 1
  BY <1>3, <1>4, <1>6, NextPlace
<1>11. Len(pump["down"].held) = 0 /\ Len(pump'["down"].held) = IF IsRelayFrame(g) THEN 0 ELSE 1
  <2>1. IsPump(pump["down"])
    BY DEF IInv, PumpInv, Directions
  <2>2. Len(pump["down"].held) = 0
    BY <2>1, HeldCount
  <2>3. pump'["down"] = IF IsRelayFrame(g) THEN Pump("reading") ELSE Writing(f)
    BY <1>9 DEF PassesOn
  <2> HIDE DEF f, g
  <2>4. /\ IsPump(Pump("reading")) /\ Pump("reading").pc = "reading"
        /\ IsPump(Writing(f)) /\ Writing(f).pc = "writing"
    BY <1>9, SomePumps
  <2>5. Len(Pump("reading").held) = 0 /\ Len(Writing(f).held) = 1
    BY <2>4, HeldCount
  <2> QED BY <2>2, <2>3, <2>5
<1>12. Len(hostGot) + Len(toLocal.q) + Len(pump'["down"].held) <= Place(s, n + 1)
  <2>1. \A a, b, p \in Nat : a + b + 0 <= p => a + b + 0 <= p /\ a + b + 1 <= p + 1
    OBVIOUS
  <2>2. Len(hostGot) + Len(toLocal.q) + Len(pump["down"].held) <= Place(s, n)
    BY <1>2 DEF StatesRead
  <2> HIDE DEF s, g
  <2> QED BY <1>3, <1>10, <1>11, <2>1, <2>2
<1>13. ASSUME NEW k \in 1..n + 1, IsState(s[k]) PROVE Knows(resourceState', k)
  <2>1. CASE IsState(g)
    <3>1. "payload" \in DOMAIN g /\ g.payload = <<n + 1>>
      BY <1>6, <2>1 DEF StatesInv
    <3>2. Has(f, "payload") /\ f.payload = <<n + 1>>
      <4> HIDE DEF f, g
      <4> QED BY <1>8, <3>1, StateTravels
    <3>3. resourceState' = <<n + 1>>
      BY <1>9, <2>1, <3>2 DEF IsState
    <3> QED BY <1>4, <3>3 DEF Knows
  <2>2. CASE ~ IsState(g)
    <3>1. resourceState' = resourceState
      BY <1>9, <2>2 DEF IsState
    <3>2. k \in 1..n
      <4>1. k # n + 1
        BY <1>13, <2>2
      <4> QED BY <1>4, <4>1
    <3> QED BY <1>2, <1>13, <3>1, <3>2 DEF StatesRead
  <2> QED BY <2>1, <2>2
<1>14. StatesRead(n + 1)'
  BY <1>6, <1>7, <1>12, <1>13 DEF StatesRead
<1>15. n + 1 \in 0..Len(s)
  BY <1>6
<1> QED BY <1>1, <1>7, <1>14, <1>15 DEF StatesInv

-----------------------------------------------------------------------------
(***************************************************************************)
(* Every step.                                                             *)
(***************************************************************************)

LEMMA StatesLeft ==
  ASSUME IInv, IInv', StatesInv, UNCHANGED <<engineSent, hostGot, resourceState>>,
         toLocal'.q = toLocal.q \/ toLocal'.q = <<>>,
         pump'["down"] = pump["down"] \/ pump'["down"].pc # "writing",
         \/ down'.q = down.q /\ down'.gone = down.gone
         \/ down'.q = <<>> /\ down'.gone
  PROVE  StatesInv'
<1>1. Len(toLocal.q) \in Nat /\ Len(pump["down"].held) \in Nat
  BY Counts
<1>2. IsPump(pump'["down"])
  BY DEF IInv, PumpInv, Directions
<1>3. Len(toLocal'.q) \in Nat /\ Len(toLocal'.q) <= Len(toLocal.q)
  BY <1>1, EmptySeq
<1>4. Len(pump'["down"].held) \in Nat /\ Len(pump'["down"].held) <= Len(pump["down"].held)
  BY <1>1, <1>2, HeldCount
<1>5. Len(toLocal'.q) + Len(pump'["down"].held) <= Len(toLocal.q) + Len(pump["down"].held)
  <2>1. \A a, b, c, d \in Nat : a <= c /\ b <= d => a + b <= c + d
    OBVIOUS
  <2> QED BY <1>1, <1>3, <1>4, <2>1
<1> QED BY <1>5, StatesKept

LEMMA PumpSet ==
  ASSUME IInv, NEW d \in Directions, NEW p, pump' = [pump EXCEPT ![d] = p]
  PROVE  pump'[d] = p /\ \A e \in Directions : e # d => pump'[e] = pump[e]
BY DEF IInv, PumpInv

LEMMA ReadsOnly ==
  ASSUME NEW s, s = [q |-> s.q, closed |-> s.closed, tail |-> s.tail, gone |-> s.gone]
  PROVE  AfterRead(s).closed = s.closed
<1>1. PICK a, b, c, d : s = [q |-> a, closed |-> b, tail |-> c, gone |-> d]
  OBVIOUS
<1>2. PICK u : u = Tail(s.q)
  OBVIOUS
<1>3. [s EXCEPT !.q = u].closed = s.closed
  BY <1>1
<1> QED BY <1>2, <1>3 DEF AfterRead

LEMMA InitialNotifyAnnounces ==
  ASSUME IInv, IInv', AnnInv, InitialNotify, UNCHANGED <<helloVars, ends>>
  PROVE  AnnInv'
<1> DEFINE f == NewRelayNotify(InitialManifest, DefaultLimits)
<1>1. UNCHANGED <<slave, down, toLocal, resourceState, master, engineSent, hostGot, engineGot>>
  BY DEF InitialNotify, ends
<1>2. \/ UNCHANGED <<up, upSent>> /\ pump' = [d \in Directions |-> Pump("reading")]
      \/ /\ SendsUp(f) /\ WriteOutcome(up, f, DefaultLimits) = "written"
         /\ pump' = [d \in Directions |-> Pump("reading")]
      \/ UNCHANGED <<up, upSent, pump>>
  BY DEF InitialNotify
<1>3. \A d \in Directions : pump'[d] = pump[d] \/ pump'[d].pc # "writing"
  BY <1>2 DEF Pump
<1>4. "up" \in Directions /\ "down" \in Directions
  BY DEF Directions
<1>5. StatesInv'
  BY <1>1, <1>3, <1>4, StatesLeft DEF AnnInv
<1>6. IsFrame(f) /\ HasManifest(f)
  BY FramesOfTheRelay, NotifyHasManifest
<1> HIDE DEF f
<1>7. CASE UNCHANGED <<up, upSent>>
  BY <1>1, <1>3, <1>4, <1>5, <1>7, MasterKept DEF AnnInv
<1>8. CASE SendsUp(f) /\ WriteOutcome(up, f, DefaultLimits) = "written"
  <2>1. ~ up.gone
    BY <1>8 DEF WriteOutcome
  <2> QED BY <1>1, <1>3, <1>4, <1>5, <1>6, <1>8, <2>1, MasterSends DEF AnnInv
<1> QED BY <1>2, <1>7, <1>8

LEMMA PumpReadsAnnounces ==
  ASSUME NEW d \in Directions, IInv, IInv', AnnInv, PumpReads(d), UNCHANGED <<helloVars, ends>>
  PROVE  AnnInv'
<1>1. UNCHANGED <<slave, up, toLocal, upSent, master, engineSent, hostGot, engineGot>>
      /\ pump[d].pc = "reading"
  BY DEF PumpReads, ends
<1>2. "up" \in Directions /\ "down" \in Directions
  BY DEF Directions
<1> DEFINE f == FrameRead(Source(d))
           p == IF PassesOn(d, f) THEN Writing(f) ELSE Pump("reading")
<1>3. CASE ReadOutcome(Source(d), DefaultLimits) # "frame"
  <2>1. pump' = [pump EXCEPT ![d] = Pump("ended")] /\ UNCHANGED <<down, resourceState>>
    BY <1>3 DEF PumpReads, EndPump
  <2>2. \A e \in Directions : pump'[e] = pump[e] \/ pump'[e].pc # "writing"
    BY <2>1, PumpSet DEF Pump
  <2> QED BY <1>1, <1>2, <2>1, <2>2, StatesLeft, MasterKept DEF AnnInv
<1>4. CASE ReadOutcome(Source(d), DefaultLimits) = "frame"
  <2>1. /\ pump' = [pump EXCEPT ![d] = p]
        /\ down' = IF d = "down" THEN AfterRead(down) ELSE down
        /\ resourceState' = IF d = "down" /\ f.type = "RELAY_STATE" /\ Has(f, "payload")
                            THEN f.payload ELSE resourceState
        /\ Source(d).q # <<>>
    BY <1>4, SomethingRead DEF PumpReads
  <2>2. pump'[d] = p /\ \A e \in Directions : e # d => pump'[e] = pump[e]
    <3> HIDE DEF p
    <3> QED BY <2>1, PumpSet
  <2>3. CASE d = "down"
    <3>1. Source(d) = down
      BY <2>3 DEF Source
    <3>2. StatesInv'
      BY <1>1, <2>1, <2>2, <2>3, <3>1, SlaveReadsAnnounces DEF AnnInv
    <3>3. pump'["up"] = pump["up"]
      BY <1>2, <2>2, <2>3
    <3>4. down'.closed = down.closed
      <4>1. down' = AfterRead(down)
        BY <2>1, <2>3
      <4>2. down = [q |-> down.q, closed |-> down.closed, tail |-> down.tail, gone |-> down.gone]
        BY DEF IInv, StreamsInv, IsStream
      <4> QED BY <4>1, <4>2, ReadsOnly
    <3> QED BY <1>1, <3>2, <3>3, <3>4, MasterKept DEF AnnInv
  <2>4. CASE d = "up"
    <3>1. UNCHANGED <<down, resourceState>> /\ pump'["down"] = pump["down"]
      BY <1>2, <2>1, <2>2, <2>4
    <3>2. StatesInv'
      BY <1>1, <3>1, StatesLeft DEF AnnInv
    <3>3. pump'["up"].pc # "writing" \/ ~ IsRelayFrame(Head(pump'["up"].held))
      <4>1. CASE PassesOn(d, f)
        <5>1. pump'["up"] = Writing(f) /\ ~ IsRelayFrame(f)
          BY <2>2, <2>4, <4>1 DEF PassesOn
        <5> HIDE DEF f
        <5>2. Head(Writing(f).held) = f
          BY DEF Writing
        <5> QED BY <5>1, <5>2
      <4>2. CASE ~ PassesOn(d, f)
        BY <2>2, <2>4, <4>2 DEF Pump
      <4> QED BY <4>1, <4>2
    <3> QED BY <1>1, <3>1, <3>2, <3>3, MasterKept DEF AnnInv
  <2> QED BY <2>3, <2>4 DEF Directions
<1> QED BY <1>3, <1>4

LEMMA PumpWritesAnnounces ==
  ASSUME NEW d \in Directions, IInv, IInv', AnnInv, PumpWrites(d), UNCHANGED <<helloVars, ends>>
  PROVE  AnnInv'
<1>1. UNCHANGED <<down, resourceState, master, engineSent, hostGot, engineGot>> /\ pump[d].pc = "writing"
  BY DEF PumpWrites, ends
<1>2. "up" \in Directions /\ "down" \in Directions
  BY DEF Directions
<1>3. CASE WriteOutcome(Target(d), Held(d), DefaultLimits) # "written"
  <2>1. pump' = [pump EXCEPT ![d] = Pump("ended")] /\ UNCHANGED <<toLocal, up, upSent>>
    BY <1>3 DEF PumpWrites, EndPump
  <2>2. \A e \in Directions : pump'[e] = pump[e] \/ pump'[e].pc # "writing"
    BY <2>1, PumpSet DEF Pump
  <2> QED BY <1>1, <1>2, <2>1, <2>2, StatesLeft, MasterKept DEF AnnInv
<1>4. CASE WriteOutcome(Target(d), Held(d), DefaultLimits) = "written"
  <2>1. /\ toLocal' = IF d = "down" THEN WriteFrame(toLocal, Held(d)) ELSE toLocal
        /\ IF d = "up" THEN SendsUp(Held(d)) ELSE UNCHANGED <<up, upSent>>
        /\ pump' = [pump EXCEPT ![d] = Pump("reading")]
    BY <1>4 DEF PumpWrites
  <2>2. /\ pump'[d] = Pump("reading") /\ pump'[d].pc # "writing"
        /\ \A e \in Directions : e # d => pump'[e] = pump[e]
    <3>1. pump'[d] = Pump("reading") /\ \A e \in Directions : e # d => pump'[e] = pump[e]
      BY <2>1, PumpSet
    <3>2. Pump("reading").pc # "writing"
      BY DEF Pump
    <3> QED BY <3>1, <3>2
  <2>3. IsStream(Target(d)) /\ IsFrame(Held(d)) /\ pump[d].held = <<Held(d)>>
    BY <1>1, PumpAt
  <2>4. CASE d = "down"
    <3>1. toLocal' = WriteFrame(toLocal, Held("down")) /\ UNCHANGED <<up, upSent>> /\ pump'["up"] = pump["up"]
      BY <1>2, <2>1, <2>2, <2>4
    <3>2. Len(toLocal'.q) = Len(toLocal.q) + 1
      <4>1. toLocal'.q = Append(toLocal.q, EncodeFrame(Held("down"))) /\ IsSeq(toLocal.q)
        BY <2>3, <2>4, <3>1, StreamWritten, StreamCount DEF Target
      <4> QED BY <4>1, Appended
    <3>3. Len(pump["down"].held) = 1 /\ Len(pump'["down"].held) = 0
      <4>1. IsPump(pump["down"]) /\ IsPump(pump'["down"])
        BY DEF IInv, PumpInv, Directions
      <4> QED BY <1>1, <2>2, <2>4, <4>1, HeldCount
    <3>4. Len(toLocal'.q) + Len(pump'["down"].held) <= Len(toLocal.q) + Len(pump["down"].held)
      <4>1. Len(toLocal.q) \in Nat
        BY Counts
      <4> QED BY <3>2, <3>3, <4>1
    <3> QED BY <1>1, <3>1, <3>4, StatesKept, MasterKept DEF AnnInv
  <2>5. CASE d = "up"
    <3>1. SendsUp(Held("up")) /\ UNCHANGED toLocal /\ pump'["down"] = pump["down"] /\ pump'["up"].pc # "writing"
      BY <1>2, <2>1, <2>2, <2>5
    <3>2. ~ up.gone
      BY <1>4, <2>5 DEF WriteOutcome, Target
    <3>3. ~ IsNotify(Held("up"))
      <4>1. ~ IsRelayFrame(Held("up"))
        BY <1>1, <2>5 DEF AnnInv, MasterInv, Held
      <4> QED BY <4>1 DEF IsNotify, IsRelayFrame
    <3>4. StatesInv'
      BY <1>1, <3>1, StatesLeft DEF AnnInv
    <3>5. MasterInv'
      BY <1>1, <2>3, <2>5, <3>1, <3>2, <3>3, MasterSends DEF AnnInv
    <3> QED BY <3>4, <3>5 DEF AnnInv
  <2> QED BY <2>4, <2>5 DEF Directions
<1> QED BY <1>3, <1>4

LEMMA WritesOnly ==
  ASSUME NEW s, NEW f, s = [q |-> s.q, closed |-> s.closed, tail |-> s.tail, gone |-> s.gone]
  PROVE  WriteFrame(s, f).closed = s.closed
<1>1. PICK a, b, c, d : s = [q |-> a, closed |-> b, tail |-> c, gone |-> d]
  OBVIOUS
<1>2. PICK u : u = Append(s.q, EncodeFrame(f))
  OBVIOUS
<1>3. [s EXCEPT !.q = u].closed = s.closed
  BY <1>1
<1> QED BY <1>2, <1>3 DEF WriteFrame

LEMMA AbandonedOnly ==
  ASSUME NEW s, s = [q |-> s.q, closed |-> s.closed, tail |-> s.tail, gone |-> s.gone]
  PROVE  Abandon(s).closed = s.closed
<1>1. PICK a, b, c, d : s = [q |-> a, closed |-> b, tail |-> c, gone |-> d]
  OBVIOUS
<1>2. PICK t, e : t = TRUE /\ e = <<>>
  OBVIOUS
<1>3. PICK u, v : u = [s EXCEPT !.gone = t] /\ v = [[s EXCEPT !.gone = t] EXCEPT !.q = e]
  OBVIOUS
<1>4. v.closed = s.closed
  BY <1>1, <1>3
<1>5. [s EXCEPT !.gone = t, !.q = e] = v
  BY <1>3
<1> QED BY <1>2, <1>4, <1>5, Zenon DEF Abandon

LEMMA ClosedForGood ==
  ASSUME NEW s, NEW tail, s = [q |-> s.q, closed |-> s.closed, tail |-> s.tail, gone |-> s.gone]
  PROVE  Close(s, tail).closed
<1>1. PICK a, b, c, d : s = [q |-> a, closed |-> b, tail |-> c, gone |-> d]
  OBVIOUS
<1>2. PICK t : t = TRUE
  OBVIOUS
<1>3. PICK v : v = [[s EXCEPT !.closed = t] EXCEPT !.tail = tail]
  OBVIOUS
<1>4. v.closed = t
  BY <1>1, <1>3
<1>5. [s EXCEPT !.closed = t, !.tail = tail] = v
  BY <1>3
<1>6. Close(s, tail).closed = t
  BY <1>2, <1>4, <1>5, Zenon DEF Close
<1> QED BY <1>2, <1>6

LEMMA SlaveClosesAnnounces ==
  ASSUME IInv, IInv', AnnInv, SlaveCloses, UNCHANGED <<helloVars, ends>>
  PROVE  AnnInv'
<1>1. /\ up' = Close(up, "none") /\ toLocal' = Close(toLocal, "none") /\ down' = Abandon(down)
      /\ UNCHANGED <<upSent, pump, resourceState, master, engineSent, hostGot, engineGot>>
  BY DEF SlaveCloses, ends
<1>2. IsStream(up) /\ IsStream(toLocal) /\ IsStream(down)
  BY DEF IInv, StreamsInv
<1>3. up'.q = up.q /\ up'.gone = up.gone /\ toLocal'.q = toLocal.q
  BY <1>1, <1>2, StreamClosed
<1>4. down'.q = <<>> /\ down'.gone
  BY <1>1, <1>2, StreamAbandoned
<1>5. down'.closed = down.closed
  BY <1>1, <1>2, AbandonedOnly DEF IsStream
<1>6. StatesInv'
  BY <1>1, <1>3, <1>4, StatesLeft DEF AnnInv
<1> QED BY <1>1, <1>3, <1>5, <1>6, MasterKept DEF AnnInv

\* Steps that neither read nor write a stream of the relay's left or right end.
LEMMA NothingAnnounced ==
  ASSUME IInv, IInv', AnnInv, UNCHANGED <<down, up, toLocal, upSent, pump, resourceState, master,
                                          engineSent, hostGot, engineGot>>
  PROVE  AnnInv'
<1>1. StatesInv'
  BY StatesLeft DEF AnnInv
<1> QED BY <1>1, MasterKept DEF AnnInv

LEMMA RelayAnnounces ==
  ASSUME IInv, IInv', AnnInv, Relay
  PROVE  AnnInv'
<1>1. SlaveStep /\ UNCHANGED <<helloVars, ends>>
  BY DEF Relay
<1>2. CASE InitialNotify
  BY <1>1, <1>2, InitialNotifyAnnounces
<1>3. CASE TakeFirstResult \/ Join
  BY <1>1, <1>3, NothingAnnounced DEF TakeFirstResult, Join, ends
<1>4. CASE SlaveCloses
  BY <1>1, <1>4, SlaveClosesAnnounces
<1>5. CASE \E d \in Directions : PumpReads(d) \/ PumpWrites(d)
  BY <1>1, <1>5, PumpReadsAnnounces, PumpWritesAnnounces
<1> QED BY <1>1, <1>2, <1>3, <1>4, <1>5 DEF SlaveStep

\* The engine leaves: what is on its way to it is lost, and it reads no more.
LEMMA EngineEndsAnnounces ==
  ASSUME IInv, IInv', AnnInv, EngineEnds
  PROVE  AnnInv'
<1>1. /\ UNCHANGED <<toLocal, upSent, pump, resourceState, master, engineSent, hostGot, engineGot>>
      /\ up' = Abandon(up)
  BY DEF EngineEnds, ends
<1>2. PICK tail \in Tail3 : down' = Close(down, tail)
  BY DEF EngineEnds
<1>3. IsStream(up) /\ IsStream(down)
  BY DEF IInv, StreamsInv
<1>4. down'.q = down.q /\ down'.gone = down.gone
  BY <1>2, <1>3, StreamClosed
<1>5. up'.gone
  BY <1>1, <1>3, StreamAbandoned
<1>6. down'.closed
  BY <1>2, <1>3, ClosedForGood DEF IsStream
<1>7. StatesInv'
  BY <1>1, <1>4, StatesLeft DEF AnnInv
<1> QED BY <1>1, <1>5, <1>6, <1>7, MasterKept DEF AnnInv

LEMMA HostEndsAnnounces ==
  ASSUME IInv, IInv', AnnInv, HostEnds
  PROVE  AnnInv'
<1>1. /\ UNCHANGED <<down, up, upSent, pump, resourceState, master, engineSent, hostGot, engineGot>>
      /\ toLocal' = Abandon(toLocal)
  BY DEF HostEnds, ends
<1>2. toLocal'.q = <<>>
  BY <1>1, StreamAbandoned DEF IInv, StreamsInv
<1>3. StatesInv'
  BY <1>1, <1>2, StatesLeft DEF AnnInv
<1> QED BY <1>1, <1>3, MasterKept DEF AnnInv

LEMMA SlaveNotifiesAnnounces ==
  ASSUME IInv, IInv', AnnInv, SlaveNotifies
  PROVE  AnnInv'
<1>1. PICK limits \in NotifyLimits : SendNotify(<<Notifications>>, limits)
  BY DEF SlaveNotifies
<1>2. PICK f : f = NewRelayNotify(<<Notifications>>, limits)
  OBVIOUS
<1>3. IsFrame(f) /\ HasManifest(f)
  BY <1>2, FramesOfTheRelay, NotifyHasManifest
<1>4. /\ WriteOutcome(up, f, DefaultLimits) = "written" /\ SendsUp(f)
      /\ UNCHANGED <<down, toLocal, pump, resourceState, master>>
  BY <1>1, <1>2 DEF SendNotify
<1>5. UNCHANGED <<engineSent, hostGot, engineGot>>
  BY DEF SlaveNotifies, ends
<1>6. ~ up.gone
  BY <1>4 DEF WriteOutcome
<1>7. StatesInv'
  BY <1>4, <1>5, StatesLeft DEF AnnInv
<1>8. MasterInv'
  BY <1>3, <1>4, <1>5, <1>6, MasterSends DEF AnnInv
<1> QED BY <1>7, <1>8 DEF AnnInv

LEMMA InitialAnnInv ==
  ASSUME Init
  PROVE  AnnInv
<1>1. /\ down = NewStream /\ up = NewStream /\ toLocal = NewStream
      /\ pump = [d \in Directions |-> Pump("idle")] /\ upSent = <<>> /\ resourceState = <<>>
      /\ master.state = "connecting"
      /\ engineSent = <<>> /\ hostGot = <<>> /\ engineGot = <<>>
  BY DEF Init, LinkInit
<1>2. /\ down.q = <<>> /\ up.q = <<>> /\ toLocal.q = <<>> /\ ~ down.gone /\ ~ up.gone
      /\ pump["down"].held = <<>> /\ pump["up"].pc # "writing"
  BY <1>1 DEF NewStream, Pump, Directions
<1>3. Place(<<>>, 0) = 0 /\ Len(<<>>) = 0 /\ 0 \in 0..0
  BY PlaceOfNone, SmallSeqs, EmptySeq
<1>4. OnTheWay(<<>>, 0, <<>>)
  BY <1>3 DEF OnTheWay
<1>5. StatesRead(0)
  BY <1>1, <1>2, <1>3, <1>4 DEF StatesRead
<1>6. MasterRead(0)
  BY <1>1, <1>2, <1>3, <1>4 DEF MasterRead
<1>7. StatesInv
  BY <1>1, <1>2, <1>3, <1>5 DEF StatesInv
<1>8. MasterInv
  BY <1>1, <1>2, <1>3, <1>6, SmallFrameSeqs DEF MasterInv
<1> QED BY <1>7, <1>8 DEF AnnInv

LEMMA NextAnnounces ==
  ASSUME IInv, IInv', AnnInv, [Next]_vars
  PROVE  AnnInv'
<1>1. CASE Relay
  BY <1>1, RelayAnnounces
<1>2. CASE Hello
  BY <1>2, NothingAnnounced DEF Hello, linkVars, ends
<1>3. CASE EngineSends
  <2>1. MasterInv'
    <3>1. /\ UNCHANGED <<up, upSent, pump, master, engineGot>>
          /\ \E f : down' = WriteFrame(down, f)
      BY <1>3 DEF EngineSends
    <3>2. down = [q |-> down.q, closed |-> down.closed, tail |-> down.tail, gone |-> down.gone]
      BY DEF IInv, StreamsInv, IsStream
    <3>3. down'.closed = down.closed
      BY <3>1, <3>2, WritesOnly
    <3> QED BY <3>1, <3>3, MasterKept DEF AnnInv
  <2> QED BY <1>3, <2>1, EngineSendsAnnounces DEF AnnInv
<1>4. CASE EngineConnects
  <2>1. UNCHANGED <<down, toLocal, pump, resourceState, engineSent, hostGot>>
    BY <1>4 DEF EngineConnects, ConnectRelayMaster, ends
  <2>2. StatesInv'
    BY <2>1, StatesLeft DEF AnnInv
  <2> QED BY <1>4, <2>2, EngineConnectsAnnounces DEF AnnInv
<1>5. CASE EngineReads
  <2>1. UNCHANGED <<down, toLocal, pump, resourceState, engineSent, hostGot>>
    BY <1>5 DEF EngineReads, MasterReadFrame
  <2>2. StatesInv'
    BY <2>1, StatesLeft DEF AnnInv
  <2> QED BY <1>5, <2>2, EngineReadsAnnounces DEF AnnInv
<1>6. CASE EngineEnds
  BY <1>6, EngineEndsAnnounces
<1>7. CASE HostReads
  <2>1. UNCHANGED <<down, up, upSent, pump, master, engineGot>>
    BY <1>7 DEF HostReads
  <2>2. MasterInv'
    BY <2>1, MasterKept DEF AnnInv
  <2> QED BY <1>7, <2>2, HostReadsAnnounces DEF AnnInv
<1>8. CASE SlaveNotifies
  BY <1>8, SlaveNotifiesAnnounces
<1>9. CASE HostNotifies
  BY <1>9, NothingAnnounced DEF HostNotifies
<1>10. CASE HostForwards
  BY <1>10, NothingAnnounced DEF HostForwards
<1>11. CASE HostEnds
  BY <1>11, HostEndsAnnounces
<1>12. CASE CartridgeAnswers
  BY <1>12, NothingAnnounced DEF CartridgeAnswers, linkVars
<1>13. CASE CartridgeWrites
  BY <1>13, NothingAnnounced DEF CartridgeWrites, linkVars
<1>14. CASE UNCHANGED vars
  BY <1>14, NothingAnnounced DEF vars, linkVars, ends
<1> QED BY <1>1, <1>2, <1>3, <1>4, <1>5, <1>6, <1>7, <1>8, <1>9, <1>10, <1>11, <1>12, <1>13, <1>14
     DEF Next

\* The invariant about announcements holds: what each side has been told, and what is still on
\* its way to it, is in step with the frames (RelaySlave.Run, RelaySlave.SendNotify and
\* RelayMaster.ReadFrame in relay.go).
THEOREM AnnouncementsAreKept == Spec => []AnnInv
<1>1. Init => AnnInv
  BY InitialAnnInv
<1>2. IInv /\ IInv' /\ AnnInv /\ [Next]_vars => AnnInv'
  BY NextAnnounces
<1> QED BY <1>1, <1>2, Invariance, PTL DEF Spec

-----------------------------------------------------------------------------
LEMMA LastNotifyIsLastBefore ==
  ASSUME NEW i, IsSeq(upSent), NEW a \in 1..Len(upSent), LastNotify(a, i)
  PROVE  LastBefore(upSent, i, IsNotify) = <<upSent[a]>>
<1> DEFINE before == {k \in DOMAIN upSent : IsNotify(upSent[k]) /\ Place(upSent, k) < i}
<1>1. DOMAIN upSent = 1..Len(upSent) /\ Len(upSent) \in Nat
  BY Shape
<1>2. a \in before /\ \A k \in before : k <= a
  BY <1>1 DEF LastNotify
<1>3. \A k \in before : k \in Nat
  BY <1>1
<1>4. LastBefore(upSent, i, IsNotify)
        = IF before = {} THEN <<>> ELSE <<upSent[CHOOSE x \in before : \A y \in before : y <= x]>>
  BY DEF LastBefore, Place
<1> HIDE DEF before
<1>5. (CHOOSE x \in before : \A y \in before : y <= x) = a
  <2>1. \A x, y \in Nat : x <= y /\ y <= x => x = y
    OBVIOUS
  <2> QED BY <1>2, <1>3, <2>1
<1> QED BY <1>2, <1>4, <1>5

LEMMA LastLimitsIsLastBefore ==
  ASSUME NEW i, IsSeq(upSent), NEW a \in 1..Len(upSent), LastLimits(a, i)
  PROVE  LastBefore(upSent, i, NotifiesLimits) = <<upSent[a]>>
<1> DEFINE before == {k \in DOMAIN upSent : NotifiesLimits(upSent[k]) /\ Place(upSent, k) < i}
<1>1. DOMAIN upSent = 1..Len(upSent) /\ Len(upSent) \in Nat
  BY Shape
<1>2. a \in before /\ \A k \in before : k <= a
  BY <1>1 DEF LastLimits
<1>3. \A k \in before : k \in Nat
  BY <1>1
<1>4. LastBefore(upSent, i, NotifiesLimits)
        = IF before = {} THEN <<>> ELSE <<upSent[CHOOSE x \in before : \A y \in before : y <= x]>>
  BY DEF LastBefore, Place
<1> HIDE DEF before
<1>5. (CHOOSE x \in before : \A y \in before : y <= x) = a
  <2>1. \A x, y \in Nat : x <= y /\ y <= x => x = y
    OBVIOUS
  <2> QED BY <1>2, <1>3, <2>1
<1> QED BY <1>2, <1>4, <1>5

\* The state that was sent last before a frame is one of those that StatesInv is about.
LEMMA StateSentBefore ==
  ASSUME StatesInv, IsSeq(engineSent), NEW i \in 1..Len(hostGot), NEW k \in 1..Len(engineSent),
         <<engineSent[k]>> = LastBefore(engineSent, i, IsState)
  PROVE  hostGot[i].state # <<>> /\ engineSent[k].payload[1] <= hostGot[i].state[1]
<1> DEFINE before == {j \in DOMAIN engineSent : IsState(engineSent[j]) /\ Place(engineSent, j) < i}
<1>1. DOMAIN engineSent = 1..Len(engineSent) /\ Len(engineSent) \in Nat
  BY Shape
<1>2. LastBefore(engineSent, i, IsState)
        = IF before = {} THEN <<>> ELSE <<engineSent[CHOOSE x \in before : \A y \in before : y <= x]>>
  BY DEF LastBefore, Place
<1>3. \E j \in before : engineSent[j] = engineSent[k]
  <2>1. before \subseteq Nat /\ \A x \in before : x <= Len(engineSent)
    BY <1>1
  <2> HIDE DEF before
  <2>2. <<engineSent[k]>> # <<>>
    OBVIOUS
  <2>3. before # {}
    BY <1>2, <2>2
  <2>4. PICK x \in before : \A y \in before : y <= x
    BY <1>1, <2>1, <2>3, GreatestNatural
  <2>5. PICK z : z = CHOOSE w \in before : \A y \in before : y <= w
    OBVIOUS
  <2>6. z \in before
    BY <2>4, <2>5
  <2>7. <<engineSent[k]>> = <<engineSent[z]>>
    BY <1>2, <2>3, <2>5
  <2> QED BY <2>6, <2>7
<1>4. PICK j \in 1..Len(engineSent) : IsState(engineSent[j]) /\ Place(engineSent, j) < i
                                      /\ engineSent[j] = engineSent[k]
  BY <1>1, <1>3
<1>5. engineSent[j].payload = <<j>> /\ Knows(hostGot[i].state, j)
  BY <1>4 DEF StatesInv
<1> QED BY <1>4, <1>5 DEF Knows

\* When the host gets a frame its slave has the resource state that was sent last before it,
\* or a newer one, and when the engine gets one its master has the manifest and the limits
\* that were announced last before it: the relay takes its own frames out of the stream, but
\* not their effect past the frames around them (RelaySlave.Run and SendNotify,
\* ConnectRelayMaster and RelayMaster.ReadFrame in relay.go).
THEOREM AnnouncementsTakeEffectInOrder == Spec => []AnnouncementsPrecedeFrames
<1>1. ASSUME IInv, AnnInv PROVE AnnouncementsPrecedeFrames
  <2>1. /\ IsSeq(engineSent) /\ DOMAIN hostGot = 1..Len(hostGot) /\ DOMAIN engineGot = 1..Len(engineGot)
    BY <1>1, Counts, Shape
  <2>2. IsSeq(upSent)
    BY <1>1 DEF AnnInv, MasterInv, FrameSeq
  <2>3. ASSUME NEW i \in DOMAIN hostGot, NEW k \in 1..Len(engineSent),
               <<engineSent[k]>> = LastBefore(engineSent, i, IsState)
        PROVE  hostGot[i].state # <<>> /\ engineSent[k].payload[1] <= hostGot[i].state[1]
    BY <1>1, <2>1, <2>3, StateSentBefore DEF AnnInv
  <2>4. ASSUME NEW i \in DOMAIN engineGot
        PROVE  engineGot[i].manifest = LastBefore(upSent, i, IsNotify)[1].meta.manifest
    <3>1. PICK a \in 1..Len(upSent) : LastNotify(a, i) /\ engineGot[i].manifest = upSent[a].meta.manifest
      BY <1>1, <2>1 DEF AnnInv, MasterInv, GotAfterNotify
    <3>2. LastBefore(upSent, i, IsNotify) = <<upSent[a]>>
      BY <2>2, <3>1, LastNotifyIsLastBefore
    <3> QED BY <3>1, <3>2
  <2>5. ASSUME NEW i \in DOMAIN engineGot
        PROVE  engineGot[i].limits = RelayNotifyLimits(LastBefore(upSent, i, NotifiesLimits)[1])
    <3>1. PICK b \in 1..Len(upSent) : LastLimits(b, i) /\ engineGot[i].limits = RelayNotifyLimits(upSent[b])
      BY <1>1, <2>1 DEF AnnInv, MasterInv, GotAfterNotify
    <3>2. LastBefore(upSent, i, NotifiesLimits) = <<upSent[b]>>
      BY <2>2, <3>1, LastLimitsIsLastBefore
    <3> QED BY <3>1, <3>2
  <2> QED BY <2>3, <2>4, <2>5 DEF AnnouncementsPrecedeFrames
<1> QED BY <1>1, Invariance, AnnouncementsAreKept, PTL
=============================================================================

----------------------------- MODULE Urns_proofs -----------------------------
(***************************************************************************)
(* What holds of the relations between URNs for any tags and values.       *)
(***************************************************************************)
EXTENDS Urns, TLAPS

\* The cap URNs over sets of media tags, names of tags and values.
CapUrns(T, K, V) ==
    [in : SUBSET T, out : SUBSET T, tags : UNION {[D -> V] : D \in SUBSET K}]

\* Media URNs with values, over sets of names of tags and values.
ValuedMedia(K, V) == UNION {[D -> V] : D \in SUBSET K}

AgreeOn(urns, k) == \A u, w \in urns : u[k] = w[k]

\* All URNs conform to their least upper bound (LeastUpperBound), and it says the most of
\* the types that all conform to and on whose tags they have the same values. Where they
\* have a tag with different values it does not: all conform to the type that only asks
\* for that tag, and their bound has dropped it (media_urn.go:312).
THEOREM LeastUpperBoundWhereValuesAgree ==
    ASSUME NEW K, NEW V, NEW urns \in SUBSET ValuedMedia(K, V), urns # {}
    PROVE  /\ \A u \in urns : TagsSatisfy(u, LeastUpperBound(urns))
           /\ \A m : (\A u \in urns : TagsSatisfy(u, m)) /\ (\A k \in DOMAIN m : AgreeOn(urns, k))
                       => TagsSatisfy(LeastUpperBound(urns), m)
           /\ \A k : (\A u \in urns : k \in DOMAIN u) /\ ~AgreeOn(urns, k)
                       => LET marker == [x \in {k} |-> AnyValue]
                          IN  /\ \A u \in urns : TagsSatisfy(u, marker)
                              /\ ~TagsSatisfy(LeastUpperBound(urns), marker)
<1> DEFINE common == {k \in UNION {DOMAIN u : u \in urns} :
                        \A u, w \in urns : k \in DOMAIN u \cap DOMAIN w /\ u[k] = w[k]}
<1>1. PICK one : one \in urns /\ one = CHOOSE u \in urns : TRUE
  OBVIOUS
<1>2. PICK lub : lub = LeastUpperBound(urns) /\ lub = [k \in common |-> one[k]]
  BY <1>1 DEF LeastUpperBound
<1>3. DOMAIN lub = common /\ \A k \in common : lub[k] = one[k]
  BY <1>2
<1>4. \A k \in common : \A u \in urns : k \in DOMAIN u /\ u[k] = lub[k]
  BY <1>1, <1>3
<1>5. \A u \in urns : TagsSatisfy(u, lub)
  BY <1>3, <1>4 DEF TagsSatisfy
<1>6. ASSUME NEW m, \A u \in urns : TagsSatisfy(u, m),
             \A k \in DOMAIN m : AgreeOn(urns, k)
      PROVE  TagsSatisfy(lub, m)
  <2>1. ASSUME NEW k \in DOMAIN m
        PROVE  k \in common /\ (m[k] = AnyValue \/ one[k] = AnyValue \/ m[k] = one[k])
    BY <1>1, <1>6, <2>1 DEF TagsSatisfy, AgreeOn
  <2> QED
    BY <1>3, <2>1 DEF TagsSatisfy
<1>7. ASSUME NEW k, \A u \in urns : k \in DOMAIN u, ~AgreeOn(urns, k),
             NEW marker, marker = [x \in {k} |-> AnyValue]
      PROVE  (\A u \in urns : TagsSatisfy(u, marker)) /\ ~TagsSatisfy(lub, marker)
  <2>1. DOMAIN marker = {k} /\ marker[k] = AnyValue
    BY <1>7
  <2>2. k \notin common
    BY <1>7 DEF AgreeOn
  <2> QED
    BY <1>3, <1>7, <2>1, <2>2 DEF TagsSatisfy
<1> QED
  BY <1>2, <1>5, <1>6, <1>7

LEMMA Fields ==
    ASSUME NEW T, NEW K, NEW V, NEW c \in CapUrns(T, K, V)
    PROVE  /\ c.in \in SUBSET T /\ c.out \in SUBSET T
           /\ DOMAIN c.tags \in SUBSET K /\ c.tags \in [DOMAIN c.tags -> V]
<1>1. c.tags \in UNION {[D -> V] : D \in SUBSET K}
  BY DEF CapUrns
<1>2. PICK D \in SUBSET K : c.tags \in [D -> V]
  BY <1>1
<1>3. DOMAIN c.tags = D
  BY <1>2
<1> QED
  BY <1>2, <1>3 DEF CapUrns

\* A cap that is registered is found for a request with its own URN, if its directions
\* can be parsed: dispatch and acceptance are reflexive, and neither panics.
THEOREM OwnUrnIsDispatched ==
    ASSUME NEW T, NEW K, NEW V, NEW c \in CapUrns(T, K, V), Parses(c.in), Parses(c.out)
    PROVE  IsDispatchable(c, c) /\ Accepts(c, c) /\ ~AcceptsPanics(c, c)
<1>1. TagsSatisfy(c.tags, c.tags)
  BY DEF TagsSatisfy
<1> QED
  BY <1>1 DEF IsDispatchable, InputDispatchable, OutputDispatchable, ConformsTo, Accepts,
              AcceptsPanics

\* What is read back from the text of a URN never makes Accepts panic.
THEOREM ReadBackIsSafe ==
    ASSUME NEW T, NEW K, NEW V, NEW c \in CapUrns(T, K, V), NEW d \in CapUrns(T, K, V)
    PROVE  ~AcceptsPanics(Reparse(c), Reparse(d))
<1>1. Parses(Media)
  BY DEF Parses, Media, Star
<1>2. \A m : Parses(ProcessDirectionTag(m))
  BY <1>1 DEF ProcessDirectionTag, Parses
<1>3. /\ Reparse(c).in = ProcessDirectionTag(c.in) /\ Reparse(c).out = ProcessDirectionTag(c.out)
      /\ Reparse(d).in = ProcessDirectionTag(d.in) /\ Reparse(d).out = ProcessDirectionTag(d.out)
  BY DEF Reparse, CapUrns
<1> QED
  BY <1>2, <1>3 DEF AcceptsPanics

\* Who serves a request serves one that asks for less: without a tag, with any value for a
\* tag, or with some of the tags only.
THEOREM LessIsDispatched ==
    ASSUME NEW T, NEW K, NEW V, AnyValue \in V,
           NEW p \in CapUrns(T, K, V), NEW q \in CapUrns(T, K, V), IsDispatchable(p, q)
    PROVE  /\ \A k : IsDispatchable(p, WithoutTag(q, k))
           /\ \A k : k \notin {"in", "out"} => IsDispatchable(p, WithWildcardTag(q, k))
           /\ \A keys : IsDispatchable(p, Subset(q, keys))
<1>1. ASSUME NEW r, r.in = q.in, r.out = q.out, TagsSatisfy(p.tags, r.tags)
      PROVE  IsDispatchable(p, r)
  BY <1>1 DEF IsDispatchable, InputDispatchable, OutputDispatchable
<1>2. TagsSatisfy(p.tags, q.tags)
  BY DEF IsDispatchable
<1>3. ASSUME NEW k PROVE IsDispatchable(p, WithoutTag(q, k))
  <2> DEFINE less == [x \in DOMAIN q.tags \ {k} |-> q.tags[x]]
  <2>1. TagsSatisfy(p.tags, less)
    BY <1>2 DEF TagsSatisfy
  <2>2. /\ WithoutTag(q, k).in = q.in /\ WithoutTag(q, k).out = q.out
        /\ WithoutTag(q, k).tags = less
    BY DEF WithoutTag, CapUrns
  <2> QED
    BY <1>1, <2>1, <2>2
<1>4. ASSUME NEW keys PROVE IsDispatchable(p, Subset(q, keys))
  <2> DEFINE less == [x \in DOMAIN q.tags \cap keys |-> q.tags[x]]
  <2>1. TagsSatisfy(p.tags, less)
    BY <1>2 DEF TagsSatisfy
  <2>2. /\ Subset(q, keys).in = q.in /\ Subset(q, keys).out = q.out
        /\ Subset(q, keys).tags = less
    BY DEF Subset, CapUrns
  <2> QED
    BY <1>1, <2>1, <2>2
<1>5. ASSUME NEW k, k \notin {"in", "out"} PROVE IsDispatchable(p, WithWildcardTag(q, k))
  <2>1. CASE k \notin DOMAIN q.tags
    BY <1>5, <2>1 DEF WithWildcardTag
  <2>2. CASE k \in DOMAIN q.tags
    <3> DEFINE less == [x \in DOMAIN q.tags \cup {k} |-> IF x = k THEN AnyValue ELSE q.tags[x]]
    <3>1. TagsSatisfy(p.tags, less)
      BY <1>2, <2>2 DEF TagsSatisfy
    <3>2. WithWildcardTag(q, k) = WithTag(q, k, AnyValue)
      BY <1>5, <2>2 DEF WithWildcardTag
    <3>3. /\ WithTag(q, k, AnyValue).in = q.in /\ WithTag(q, k, AnyValue).out = q.out
          /\ WithTag(q, k, AnyValue).tags = less
      BY DEF WithTag, CapUrns
    <3> QED
      BY <1>1, <3>1, <3>2, <3>3
  <2> QED
    BY <2>1, <2>2
<1> QED
  BY <1>3, <1>4, <1>5

\* A URN merged with another serves the requests for the other.
THEOREM MergedServesTheOther ==
    ASSUME NEW T, NEW K, NEW V, NEW c \in CapUrns(T, K, V), NEW d \in CapUrns(T, K, V),
           Parses(d.in), Parses(d.out)
    PROVE  IsDispatchable(Merge(c, d), d)
<1> DEFINE both == [x \in DOMAIN c.tags \cup DOMAIN d.tags |->
                      IF x \in DOMAIN d.tags THEN d.tags[x] ELSE c.tags[x]]
<1>1. Merge(c, d).in = d.in /\ Merge(c, d).out = d.out /\ Merge(c, d).tags = both
  BY DEF Merge, CapUrn
<1>2. TagsSatisfy(both, d.tags)
  BY DEF TagsSatisfy
<1> QED
  BY <1>1, <1>2 DEF IsDispatchable, InputDispatchable, OutputDispatchable, ConformsTo
=============================================================================

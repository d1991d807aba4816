-------------------------------- MODULE Urns --------------------------------
(***************************************************************************)
(* Media URNs and cap URNs (urn/media_urn.go, urn/cap_urn.go).             *)
(*                                                                         *)
(* A media URN is the set of its marker tags, "media:" the empty set (for  *)
(* LeastUpperBound, a function from tags to values).  The tagged-URN       *)
(* library decides that an instance conforms to a pattern when it has the  *)
(* tags of the pattern.  A cap URN has an input, an output and a function  *)
(* from the remaining tags to their values, "*" being any.                 *)
(***************************************************************************)
EXTENDS FiniteSets, Integers, Sequences

Media == {}                     \* "media:", the top
AnyValue   == "*"
Void  == "void"

ConformsTo(instance, pattern) == pattern \subseteq instance
IsComparableMedia(a, b) == ConformsTo(a, b) \/ ConformsTo(b, a)
IsFilePath(m) == "file-path" \in m
IsRecord(m)   == "record" \in m

\* The text "*" where a media URN is expected. It does not parse, and written as a
\* tag of a cap URN it is read back as "media:".
Star == {AnyValue}
Parses(m) == m # Star
ProcessDirectionTag(written) == IF written = Star THEN Media ELSE written

CapUrn(in, out, tags) == [in |-> in, out |-> out, tags |-> tags]
NoTags   == [k \in {} |-> AnyValue]
Identity == CapUrn(Media, Media, NoTags)

-----------------------------------------------------------------------------
(***************************************************************************)
(* The relations between cap URNs.                                         *)
(***************************************************************************)

\* The URN read back from its canonical text (ToString, NewCapUrnFromString).
Reparse(c) ==
    [c EXCEPT !.in = ProcessDirectionTag(@), !.out = ProcessDirectionTag(@)]

\* Every tag of the pattern is present in the instance, with its value or a wildcard.
TagsSatisfy(instance, pattern) ==
    \A k \in DOMAIN pattern :
        /\ k \in DOMAIN instance
        /\ pattern[k] = AnyValue \/ instance[k] = AnyValue \/ pattern[k] = instance[k]

\* LeastUpperBound is about tags with values, "*" for a marker: it keeps those that all
\* have with the same value, and is "media:" if there are no URNs.
LeastUpperBound(urns) ==
    LET common == {k \in UNION {DOMAIN u : u \in urns} :
                      \A u, w \in urns : k \in DOMAIN u \cap DOMAIN w /\ u[k] = w[k]}
        one    == CHOOSE u \in urns : TRUE
    IN  [k \in common |-> one[k]]

Accepts(c, request) ==
    /\ c.in = Media \/ ConformsTo(request.in, c.in)
    /\ c.out = Media \/ ConformsTo(c.out, request.out)
    /\ TagsSatisfy(request.tags, c.tags)

IsEquivalent(a, b)    == Accepts(a, b) /\ Accepts(b, a)

\* Whether Accepts meets a direction that does not parse, which panics.
AcceptsPanics(c, request) ==
    \/ c.in # Media /\ ~(Parses(c.in) /\ Parses(request.in))
    \/ /\ c.in = Media \/ ConformsTo(request.in, c.in)
       /\ c.out # Media /\ ~(Parses(c.out) /\ Parses(request.out))

InputDispatchable(p, request) ==
    \/ request.in = Media
    \/ p.in = Media
    \/ Parses(p.in) /\ Parses(request.in) /\ ConformsTo(request.in, p.in)

OutputDispatchable(p, request) ==
    \/ request.out = Media
    \/ /\ p.out # Media /\ Parses(p.out) /\ Parses(request.out)
       /\ ConformsTo(p.out, request.out)

IsDispatchable(p, request) ==
    /\ InputDispatchable(p, request)
    /\ OutputDispatchable(p, request)
    /\ TagsSatisfy(p.tags, request.tags)

Specificity(c) ==
    Cardinality(c.in) + Cardinality(c.out)
        + Cardinality({k \in DOMAIN c.tags : c.tags[k] # AnyValue})

-----------------------------------------------------------------------------
(***************************************************************************)
(* URNs made from others.                                                  *)
(***************************************************************************)

WithTag(c, k, v) ==
    [c EXCEPT !.tags = [x \in DOMAIN c.tags \cup {k} |-> IF x = k THEN v ELSE c.tags[x]]]

WithoutTag(c, k) ==
    [c EXCEPT !.tags = [x \in DOMAIN c.tags \ {k} |-> c.tags[x]]]

WithWildcardTag(c, k) ==
    CASE k = "in"  -> [c EXCEPT !.in = Star]
      [] k = "out" -> [c EXCEPT !.out = Star]
      [] OTHER     -> IF k \in DOMAIN c.tags THEN WithTag(c, k, AnyValue) ELSE c

Subset(c, keys) ==
    [c EXCEPT !.tags = [x \in DOMAIN c.tags \cap keys |-> c.tags[x]]]

Merge(c, other) ==
    CapUrn(other.in, other.out,
           [x \in DOMAIN c.tags \cup DOMAIN other.tags |->
                IF x \in DOMAIN other.tags THEN other.tags[x] ELSE c.tags[x]])
=============================================================================

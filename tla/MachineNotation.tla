--------------------------- MODULE MachineNotation ---------------------------
(***************************************************************************)
(* Machine notation (machine/parser.go and the serializer in graph.go).    *)
(*                                                                         *)
(* A text is a sequence of headers, which give a cap an alias, and one of  *)
(* wirings, each with the names of its source nodes, the alias of a cap,   *)
(* the name of its target node and whether it loops.  The grammar and the  *)
(* order between headers and wirings are left out.                         *)
(***************************************************************************)
EXTENDS MachineResolver

Text(headers, wirings) == [headers |-> headers, wirings |-> wirings]

AliasMap(text) ==
    [a \in {h.alias : h \in Range(text.headers)} |->
        (CHOOSE h \in Range(text.headers) : h.alias = a).cap]
HasDuplicateAlias(text) == Cardinality(DOMAIN AliasMap(text)) < Len(text.headers)

NamesOf(w) == Append(w.sources, w.target)

-----------------------------------------------------------------------------
(***************************************************************************)
(* The URNs of the nodes.                                                  *)
(***************************************************************************)

Bound(b, name, urn) ==
    [b EXCEPT !.media = [x \in DOMAIN b.media \cup {name} |-> IF x = name THEN urn ELSE b.media[x]]]

\* The more specific URN wins.
AssignOrCheckNode(b, name, urn) ==
    IF name \notin DOMAIN b.media THEN Bound(b, name, urn)
    ELSE IF ~IsComparableMedia(b.media[name], urn) THEN [b EXCEPT !.ok = FALSE]
    ELSE IF Cardinality(urn) > Cardinality(b.media[name]) THEN Bound(b, name, urn) ELSE b

Secondary(b, name) == IF name \in DOMAIN b.media THEN b ELSE Bound(b, name, Media)

\* The first source has the input of the cap, further ones any media, the target the output.
BindWiring(aliases, b, w) ==
    IF \/ ~b.ok
       \/ w.capAlias \notin DOMAIN aliases
       \/ Range(NamesOf(w)) \cap DOMAIN aliases # {}
    THEN [b EXCEPT !.ok = FALSE]
    ELSE LET c       == aliases[w.capAlias]
             primary == AssignOrCheckNode(b, w.sources[1], c.in)
             all     == FoldLeft(Secondary, primary, Tail(w.sources))
         IN  AssignOrCheckNode(all, w.target, c.out)

\* The URN of every node, unless ok is false.
NodeMedia(text) ==
    FoldLeft(LAMBDA b, w : BindWiring(AliasMap(text), b, w),
             [media |-> [x \in {} |-> Media], ok |-> TRUE], text.wirings)

-----------------------------------------------------------------------------
(***************************************************************************)
(* The strands: wirings connected by the names they share.                 *)
(***************************************************************************)

UnionOf(root, a, b) ==
    [x \in DOMAIN root |-> IF root[x] = root[b] THEN root[a] ELSE root[x]]

FirstWiring(ws, name) ==
    CHOOSE i \in DOMAIN ws : /\ name \in Range(NamesOf(ws[i]))
                             /\ \A j \in 1..(i - 1) : name \notin Range(NamesOf(ws[j]))

\* The wirings with the same root are connected.
RootsOf(ws) ==
    LET Join(root, i) ==
            FoldLeft(LAMBDA r, name : UnionOf(r, FirstWiring(ws, name), i), root, NamesOf(ws[i]))
    IN  FoldLeftDomain(Join, [i \in DOMAIN ws |-> i], ws)

\* The groups of wirings, by their first wirings.
Components(ws) ==
    LET root    == RootsOf(ws)
        Group(i) == {j \in DOMAIN ws : root[j] = root[i]}
        leaders == SetToSortSeq({i \in DOMAIN ws : \A j \in Group(i) : i <= j}, <)
        Ordered(is) == LET seq == SetToSortSeq(is, <) IN [k \in DOMAIN seq |-> ws[seq[k]]]
    IN  [k \in DOMAIN leaders |-> Ordered(Group(leaders[k]))]

\* The names in the order in which they are met.
Mentioned(nameSeqs) ==
    FoldLeft(LAMBDA s, x : IF x \in Range(s) THEN s ELSE Append(s, x), <<>>, FlattenSeq(nameSeqs))

ResolveComponent(text, ws) ==
    LET names == Mentioned([i \in DOMAIN ws |-> NamesOf(ws[i])])
        media == NodeMedia(text).media
        NodeId(x) == CHOOSE k \in DOMAIN names : names[k] = x
    IN  ResolvePreInterned([k \in DOMAIN names |-> media[names[k]]],
            [i \in DOMAIN ws |->
                [cap |-> AliasMap(text)[ws[i].capAlias], target |-> NodeId(ws[i].target),
                 sources |-> [k \in DOMAIN ws[i].sources |-> NodeId(ws[i].sources[k])],
                 isLoop |-> ws[i].isLoop]])

\* The machine, a sequence of strands.
ParseMachine(text) ==
    IF HasDuplicateAlias(text) \/ text.wirings = <<>> \/ ~NodeMedia(text).ok THEN {}
    ELSE LET components == Components(text.wirings)
             resolved   == [k \in DOMAIN components |-> ResolveComponent(text, components[k])]
         IN  IF \E k \in DOMAIN resolved : resolved[k] = {} THEN {}
             ELSE {[k \in DOMAIN resolved |-> CHOOSE s \in resolved[k] : TRUE]}

-----------------------------------------------------------------------------
(***************************************************************************)
(* The serializer.  Nodes and edges are counted through all strands.       *)
(***************************************************************************)

SortedSources(e) ==
    SetToSortSeq({e.assignment[k].source : k \in DOMAIN e.assignment}, <)

\* The nodes of a strand in the order in which the serializer writes them.
WrittenNodes(s) == Mentioned([i \in DOMAIN s.edges |-> Append(SortedSources(s.edges[i]), s.edges[i].target)])

SumBefore(m, k, Count(_)) ==
    FoldLeftDomain(LAMBDA n, i : IF i < k THEN n + Count(m[i]) ELSE n, 0, m)

NodeCounter_PerStrand(m, k) == 0
NodeCounter(m, k) == SumBefore(m, k, LAMBDA s : Len(WrittenNodes(s)))
EdgeCounter(m, k) == SumBefore(m, k, LAMBDA s : Len(s.edges))

ToMachineNotation(m) ==
    LET Alias(k, i) == <<"edge", EdgeCounter(m, k) + i>>
        Name(k, id) ==
            <<"n", NodeCounter(m, k) + (CHOOSE i \in DOMAIN WrittenNodes(m[k]) : WrittenNodes(m[k])[i] = id)>>
        Header(k, i) == [alias |-> Alias(k, i), cap |-> m[k].edges[i].cap]
        Wiring(k, i) ==
            LET e == m[k].edges[i]
                ids == SortedSources(e)
            IN  [sources |-> [j \in DOMAIN ids |-> Name(k, ids[j])], capAlias |-> Alias(k, i),
                 target |-> Name(k, e.target), isLoop |-> e.isLoop]
        ForAllEdges(Statement(_, _)) ==
            FlattenSeq([k \in DOMAIN m |-> [i \in DOMAIN m[k].edges |-> Statement(k, i)]])
    IN  Text(ForAllEdges(Header), ForAllEdges(Wiring))
=============================================================================

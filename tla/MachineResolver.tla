--------------------------- MODULE MachineResolver ---------------------------
(***************************************************************************)
(* From wired caps to a strand of a machine (machine/resolve.go, graph.go):*)
(* which source feeds which argument, the canonical order of the edges,    *)
(* the anchors, and when two strands are equivalent.                       *)
(*                                                                         *)
(* Nodes are numbered from 1 here, from 0 in the code.  What may fail is a *)
(* set with one result or none.                                            *)
(***************************************************************************)
EXTENDS Urns, SequencesExt

CONSTANTS
    Args,           \* the arguments of the caps in the registry, by URN
    CapTexts,       \* the cap URNs in the order of their texts
    MediaTexts      \* the media URNs in the order of their texts

TextOf(texts, x) == CHOOSE i \in DOMAIN texts : texts[i] = x
CapText(c)   == TextOf(CapTexts, c)
MediaText(m) == TextOf(MediaTexts, m)

LexLess(a, b) ==
    \E i \in DOMAIN a \cap DOMAIN b : a[i] < b[i] /\ \A j \in 1..(i - 1) : a[j] = b[j]

-----------------------------------------------------------------------------
(***************************************************************************)
(* Sources and arguments.                                                  *)
(***************************************************************************)

StdinArgs(c) == SelectSeq(Args[c], LAMBDA a : a.stdin # {})
StdinOf(a)   == CHOOSE m \in a.stdin : TRUE

\* The ways to give every source an argument of its own that it conforms to.
Matchings(sources, args) ==
    {f \in Injection(DOMAIN sources, DOMAIN args) :
        \A s \in DOMAIN sources : ConformsTo(sources[s], StdinOf(args[f[s]]))}

Distance(sources, args, f) ==
    MapThenSumSet(LAMBDA s : Cardinality(sources[s]) - Cardinality(StdinOf(args[f[s]])),
                  DOMAIN sources)

\* The cheapest one, if there is no other as cheap.
MatchSourcesToArgs(sources, args) ==
    LET all  == Matchings(sources, args)
        best == {f \in all : \A g \in all : Distance(sources, args, f) <= Distance(sources, args, g)}
    IN  IF Cardinality(best) = 1 THEN best ELSE {}

\* As the match is unique no two of its arguments, nor of its sources, have the same URN.
Bindings(w, args, f) ==
    SortSeq([s \in DOMAIN w.sources |-> [slot |-> args[f[s]].slot, source |-> w.sources[s]]],
            LAMBDA a, b : MediaText(a.slot) < MediaText(b.slot))

EdgesOf(nodes, w) ==
    IF w.cap \notin DOMAIN Args THEN {}
    ELSE LET args == StdinArgs(w.cap)
         IN  {[cap |-> w.cap, assignment |-> Bindings(w, args, f), target |-> w.target,
               isLoop |-> w.isLoop] :
                  f \in MatchSourcesToArgs([s \in DOMAIN w.sources |-> nodes[w.sources[s]]], args)}

-----------------------------------------------------------------------------
(***************************************************************************)
(* The order of the edges: Kahn's algorithm with a sorted queue.           *)
(***************************************************************************)

EdgeKey_CapOnly(nodes, e) == <<CapText(e.cap)>>

\* The cap, the arguments with their sources, fewer arguments first, the target, the loop.
EdgeKey(nodes, e) ==
    <<CapText(e.cap)>>
        \o FlattenSeq([k \in DOMAIN e.assignment |->
                          <<MediaText(e.assignment[k].slot), MediaText(nodes[e.assignment[k].source])>>])
        \o <<0, MediaText(nodes[e.target]), IF e.isLoop THEN 1 ELSE 0>>

Feeds(edges, a, b) ==
    a # b /\ \E k \in DOMAIN edges[b].assignment : edges[b].assignment[k].source = edges[a].target

\* Indices of edges, less the ones of a cycle and those behind it.
TopoSort(nodes, edges) ==
    LET Key(i) == EdgeKey(nodes, edges[i])
        \* Behind all that do not come after it: the sorting is stable.
        Enqueue(ready, i) ==
            LET n == Cardinality({k \in DOMAIN ready : ~LexLess(Key(i), Key(ready[k]))})
            IN  SubSeq(ready, 1, n) \o <<i>> \o SubSeq(ready, n + 1, Len(ready))
        EnqueueAll(ready, is) == FoldLeft(Enqueue, ready, SetToSortSeq(is, <))
        Freed(order) ==
            {b \in DOMAIN edges : /\ Feeds(edges, Last(order), b)
                                  /\ \A a \in DOMAIN edges : Feeds(edges, a, b) => a \in Range(order)}
        Take(acc, i) ==
            IF acc.ready = <<>> THEN acc
            ELSE LET order == Append(acc.order, Head(acc.ready))
                 IN  [order |-> order, ready |-> EnqueueAll(Tail(acc.ready), Freed(order))]
        first == {b \in DOMAIN edges : \A a \in DOMAIN edges : ~Feeds(edges, a, b)}
    IN  FoldLeftDomain(Take, [order |-> <<>>, ready |-> EnqueueAll(<<>>, first)], edges).order

-----------------------------------------------------------------------------
(***************************************************************************)
(* Strands.                                                                *)
(***************************************************************************)

Produced(edges) == {edges[i].target : i \in DOMAIN edges}
Consumed(edges) == UNION {{edges[i].assignment[k].source : k \in DOMAIN edges[i].assignment}
                          : i \in DOMAIN edges}

Anchors(nodes, ids) ==
    SetToSortSeq(ids, LAMBDA a, b : LexLess(<<MediaText(nodes[a]), a>>, <<MediaText(nodes[b]), b>>))

NewMachineStrand(nodes, edges) ==
    [nodes |-> nodes, edges |-> edges,
     inputAnchors  |-> Anchors(nodes, Consumed(edges) \ Produced(edges)),
     outputAnchors |-> Anchors(nodes, Produced(edges) \ Consumed(edges))]

\* A wiring has the numbers of its sources and of its target.
ResolvePreInterned(nodes, wirings) ==
    IF wirings = <<>> \/ \E i \in DOMAIN wirings : EdgesOf(nodes, wirings[i]) = {} THEN {}
    ELSE LET edges == [i \in DOMAIN wirings |-> CHOOSE e \in EdgesOf(nodes, wirings[i]) : TRUE]
             order == TopoSort(nodes, edges)
         IN  IF Len(order) < Len(edges) THEN {}
             ELSE {NewMachineStrand(nodes, [i \in DOMAIN order |-> edges[order[i]]])}

\* A path of the planner: each step reads the output of the one before if their URNs are
\* comparable, the more specific of the two being the node's, and writes a new node.
ResolveStrand(steps) ==
    LET Walk(acc, step) ==
            IF step.type = "ForEach" THEN [acc EXCEPT !.loop = TRUE]
            ELSE IF step.type = "Collect" THEN acc
            ELSE LET n      == Len(acc.nodes)
                     linked == n > 0 /\ IsComparableMedia(acc.nodes[n], step.from)
                     given  == IF ~linked THEN Append(acc.nodes, step.from)
                               ELSE IF Cardinality(step.from) > Cardinality(acc.nodes[n])
                                    THEN [acc.nodes EXCEPT ![n] = step.from] ELSE acc.nodes
                     wiring == [cap |-> step.cap, sources |-> <<Len(given)>>,
                                target |-> Len(given) + 1, isLoop |-> acc.loop]
                 IN  [nodes |-> Append(given, step.to), loop |-> FALSE,
                      wirings |-> Append(acc.wirings, wiring)]
        walked == FoldLeft(Walk, [nodes |-> <<>>, loop |-> FALSE, wirings |-> <<>>], steps)
    IN  ResolvePreInterned(walked.nodes, walked.wirings)

\* Step by step in canonical order, with a one-to-one relation between the nodes.
IsEquivalentStrand(s, t) ==
    LET Pairs(a, b) == Range(Zip(a, b))
        Sources(e) == [k \in DOMAIN e.assignment |-> e.assignment[k].source]
        Slots(e)   == [k \in DOMAIN e.assignment |-> e.assignment[k].slot]
        Edges      == DOMAIN s.edges \cap DOMAIN t.edges
        related    == Pairs(s.inputAnchors, t.inputAnchors) \cup Pairs(s.outputAnchors, t.outputAnchors)
                        \cup UNION {Pairs(Append(Sources(s.edges[i]), s.edges[i].target),
                                        Append(Sources(t.edges[i]), t.edges[i].target)) : i \in Edges}
    IN  /\ Len(s.nodes) = Len(t.nodes) /\ Len(s.edges) = Len(t.edges)
        /\ Len(s.inputAnchors) = Len(t.inputAnchors)
        /\ Len(s.outputAnchors) = Len(t.outputAnchors)
        /\ \A i \in Edges : /\ s.edges[i].isLoop = t.edges[i].isLoop
                            /\ IsEquivalent(s.edges[i].cap, t.edges[i].cap)
                            /\ Slots(s.edges[i]) = Slots(t.edges[i])
        /\ \A p, q \in related : /\ s.nodes[p[1]] = t.nodes[p[2]]
                                 /\ p[1] = q[1] <=> p[2] = q[2]

\* Strand by strand.
IsEquivalentMachine(m, n) ==
    Len(m) = Len(n) /\ \A i \in DOMAIN m : IsEquivalentStrand(m[i], n[i])
=============================================================================

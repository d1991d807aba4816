----------------------------- MODULE LiveCapFab -----------------------------
(***************************************************************************)
(* The graph of capabilities and the search for paths in it                *)
(* (planner/live_cap_fab.go).                                              *)
(*                                                                         *)
(* A cap has a urn, outputIsSeq and args, a sequence of records: the       *)
(* media, the set of stdin URNs, isSeq, required, hasDefault.  An edge is  *)
(* made from a cap; a ForEach edge is made up when a sequence meets a cap  *)
(* for single items.  The graph is filled once from a catalog, then the    *)
(* search goes deeper round by round and may be cancelled between two.     *)
(***************************************************************************)
EXTENDS Urns, SequencesExt

CONSTANTS
    Catalogs,       \* sequences of caps the graph may be filled from
    Endpoints,      \* pairs of source and target
    MaxDepth,
    MaxPaths

VARIABLES
    caps,           \* the catalog
    edges,          \* the cap edges, in the order of the caps
    source, target, isSequence,
    cancelled,      \* the flag another goroutine may set
    depth,          \* the depth the loop of the search is at
    results,        \* the paths found
    ranked          \* whether the search is over and they are sorted

fabVars == <<caps, edges, source, target, isSequence, cancelled, depth, results, ranked>>

None == "none"

-----------------------------------------------------------------------------
(***************************************************************************)
(* The graph.                                                              *)
(***************************************************************************)

StdinArgs(c) == SelectSeq(c.args, LAMBDA a : a.stdin # {})

Edge(type, from, to, cap, inSeq, outSeq, specificity) ==
    [type |-> type, from |-> from, to |-> to, cap |-> cap,
     inputIsSeq |-> inSeq, outputIsSeq |-> outSeq, specificity |-> specificity]

CapEdge(c) ==
    Edge("Cap", c.urn.in, c.urn.out, c.urn,
         StdinArgs(c) # <<>> /\ Head(StdinArgs(c)).isSeq, c.outputIsSeq,
         Specificity(c.urn))

ForEachEdge(m) == Edge("ForEach", m, m, None, FALSE, FALSE, 0)

\* AddCap for all caps of a catalog: caps equivalent to the identity are left out.
SyncFromCaps(cs) ==
    LET kept == SelectSeq(cs, LAMBDA c : ~IsEquivalent(c.urn, Identity))
    IN  [i \in DOMAIN kept |-> CapEdge(kept[i])]

\* The edges out of m, each with whether its data is a sequence: the edges' order,
\* then a ForEach when some cap can take the items but not the sequence.
GetOutgoingEdges(es, m, seq) ==
    LET fitting == SelectSeq(es, LAMBDA e : ConformsTo(m, e.from))
        direct  == SelectSeq(fitting, LAMBDA e : ~seq \/ e.inputIsSeq)
    IN  IF Len(direct) < Len(fitting) THEN Append(direct, ForEachEdge(m)) ELSE direct

-----------------------------------------------------------------------------
(***************************************************************************)
(* The search.                                                             *)
(***************************************************************************)

IsCap(step)      == step.type = "Cap"
CapSteps(path)   == SelectSeq(path, IsCap)
RoundTrip(s, t)  == s = t

Records_AnyDepth(atTarget, limit, path) == atTarget /\ CapSteps(path) # <<>>
Records(atTarget, limit, path) == atTarget /\ limit = 0 /\ CapSteps(path) # <<>>

\* Depth-limited search from current: paths are recorded where the depth is used up.
RECURSIVE IddfsFind(_, _, _, _, _, _, _, _, _)
IddfsFind(es, from, to, current, seq, path, visited, limit, found) ==
    LET atTarget == current = to /\ path # <<>>
        recorded == IF Records(atTarget, limit, path) THEN Append(found, path) ELSE found
        node     == <<current, seq>>
        marked   == ~(RoundTrip(from, to) /\ current = to)
        Visit(acc, e) ==
            IF Len(acc) >= MaxPaths THEN acc
            ELSE IddfsFind(es, from, to, e.to, e.outputIsSeq, Append(path, e),
                           IF marked THEN visited \cup {node} ELSE visited,
                           limit - 1, acc)
    IN  IF \/ Len(found) >= MaxPaths
           \/ atTarget /\ ~RoundTrip(from, to)
           \/ limit = 0
           \/ marked /\ node \in visited
        THEN IF Len(found) >= MaxPaths THEN found ELSE recorded
        ELSE FoldLeft(Visit, recorded, GetOutgoingEdges(es, current, seq))

\* Breadth-first search: what can be reached, the shortest way and how many arrivals.
VisitKey_Canonical(item) == item.media
VisitKey(item) == <<item.media, item.seq>>

RECURSIVE Reach(_, _, _, _)
Reach(es, queue, visited, infos) ==
    IF queue = <<>> THEN infos
    ELSE LET item == Head(queue)
             info == IF item.media \in DOMAIN infos
                     THEN [infos EXCEPT ![item.media].pathCount = @ + 1,
                                        ![item.media].minPathLength =
                                            IF item.depth < @ THEN item.depth ELSE @]
                     ELSE [m \in DOMAIN infos \cup {item.media} |->
                             IF m = item.media
                             THEN [minPathLength |-> item.depth, pathCount |-> 1]
                             ELSE infos[m]]
             next == [i \in DOMAIN GetOutgoingEdges(es, item.media, item.seq) |->
                        LET e == GetOutgoingEdges(es, item.media, item.seq)[i]
                        IN  [media |-> e.to, seq |-> e.outputIsSeq,
                             depth |-> item.depth + 1]]
         IN  IF item.depth > MaxDepth THEN Reach(es, Tail(queue), visited, infos)
             ELSE IF VisitKey(item) \in visited THEN Reach(es, Tail(queue), visited, info)
             ELSE Reach(es, Tail(queue) \o next, visited \cup {VisitKey(item)}, info)

GetReachableTargets(es, from, seq) ==
    LET out == GetOutgoingEdges(es, from, seq)
    IN  Reach(es, [i \in DOMAIN out |->
                     [media |-> out[i].to, seq |-> out[i].outputIsSeq, depth |-> 1]],
              {}, [m \in {} |-> None])

TotalSpecificity(path) == FoldLeft(LAMBDA n, e : n + e.specificity, 0, path)

\* How the paths found are ordered. Titles decide between equals, in any way here.
RankedBefore(p, q) ==
    \/ Len(CapSteps(p)) < Len(CapSteps(q))
    \/ /\ Len(CapSteps(p)) = Len(CapSteps(q))
       /\ TotalSpecificity(p) >= TotalSpecificity(q)

Rankings(paths) ==
    {r \in SetToSeqs(Range(paths)) : \A i \in 1..Len(r) - 1 : RankedBefore(r[i], r[i + 1])}

-----------------------------------------------------------------------------
FabInit ==
    /\ caps \in Catalogs
    /\ edges = SyncFromCaps(caps)
    /\ \E p \in Endpoints : source = p[1] /\ target = p[2]
    /\ isSequence \in BOOLEAN
    /\ cancelled = FALSE
    /\ depth = 1
    /\ results = <<>>
    /\ ranked = FALSE

Searching == ~ranked /\ depth <= MaxDepth /\ Len(results) < MaxPaths /\ ~cancelled

\* One round of the loop of FindPathsStreaming (FindPathsToExactTarget has no flag).
SearchDepth ==
    /\ Searching
    /\ results' = IddfsFind(edges, source, target, source, isSequence, <<>>, {},
                            depth, results)
    /\ depth' = depth + 1
    /\ UNCHANGED <<caps, edges, source, target, isSequence, cancelled, ranked>>

\* The flag is read between two rounds only.
Cancel ==
    /\ Searching
    /\ cancelled' = TRUE
    /\ UNCHANGED <<caps, edges, source, target, isSequence, depth, results, ranked>>

Rank ==
    /\ ~ranked /\ (depth > MaxDepth \/ Len(results) >= MaxPaths \/ cancelled)
    /\ ranked' = TRUE
    /\ results' \in Rankings(results)
    /\ UNCHANGED <<caps, edges, source, target, isSequence, cancelled, depth>>

FabNext == SearchDepth \/ Cancel \/ Rank
=============================================================================

------------------------------ MODULE Planning ------------------------------
(***************************************************************************)
(* From a source and a target to an execution: the search of LiveCapFab    *)
(* finds paths, PlanBuilder makes a plan of one of them, PlanExecutor runs *)
(* it.  The three share cap definitions, but not the time at which they    *)
(* read them: the graph has the catalog, builder and executor what the     *)
(* registry holds later.                                                   *)
(***************************************************************************)
EXTENDS LiveCapFab, PlanExecutor, PlanConverter

VARIABLES
    path,           \* the path a plan is built from
    cached,         \* what the registry holds then
    build           \* "none", "built" or "refused"

vars == <<fabVars, execVars, path, cached, build>>

Init ==
    /\ FabInit
    /\ ExecIdle
    /\ path = <<>> /\ cached = {} /\ build = "none"

Search ==
    /\ FabNext
    /\ UNCHANGED <<execVars, path, cached, build>>

\* A path found, also with a Collect at its end, as a caller that wants all items adds it.
CollectEdge(m) == Edge("Collect", m, m, None, FALSE, TRUE, 0)
Offered == LET found == Range(results)
           IN  found \cup {Append(p, CollectEdge(Last(p).to)) : p \in found}

\* The registry may have lost a cap since the search.
Build ==
    /\ ranked /\ build = "none"
    /\ \E p \in Offered, lost \in {{}} \cup {{c} : c \in Range(caps)} :
          /\ path' = p
          /\ cached' = Range(caps) \ lost
    /\ build' = IF BuildPlanFromPath(path', cached').error THEN "refused" ELSE "built"
    /\ UNCHANGED <<fabVars, execVars>>

Run ==
    /\ build = "built"
    /\ Execute(BuildPlanFromPath(path, cached).plan, cached)
    /\ UNCHANGED <<fabVars, path, cached, build>>

ExecuteNode ==
    /\ ExecNext
    /\ UNCHANGED <<fabVars, path, cached, build>>

Next == Search \/ Build \/ Run \/ ExecuteNode
Spec == Init /\ [][Next]_vars

-----------------------------------------------------------------------------
(***************************************************************************)
(* The search.                                                             *)
(***************************************************************************)

\* Where a walk is after n of its edges.
NodeAt(w, n) == IF n = 0 THEN <<source, isSequence>> ELSE <<w[n].to, w[n].outputIsSeq>>

\* A path does not come back to a node, nor to the target before its end. A round trip
\* may pass through the target.
IsSimple(w) ==
    \A n \in 0..Len(w) - 1 :
        \/ source = target /\ NodeAt(w, n)[1] = target
        \/ /\ n = 0 \/ NodeAt(w, n)[1] # target
           /\ \A k \in 0..n - 1 : NodeAt(w, k) # NodeAt(w, n)

RECURSIVE Walks(_)
Walks(n) ==
    IF n = 0 THEN {<<>>}
    ELSE UNION {{Append(w, e) : e \in Range(GetOutgoingEdges(edges, NodeAt(w, Len(w))[1],
                                                             NodeAt(w, Len(w))[2]))} :
                w \in Walks(n - 1)}

Simple(n) == {w \in Walks(n) : IsSimple(w) /\ Last(w).to = target /\ CapSteps(w) # <<>>}
AllPaths(n) == UNION {Simple(k) : k \in 1..n}

\* After each round of the search its results are the simple paths of the lengths tried,
\* every one once, or MaxPaths of them if there are more. Iterative deepening looks at
\* the same prefixes again in each round and unmarks nodes on its way back: a mark too
\* many loses a path, one too few finds it twice or runs in circles.
PathsAreFoundOnce ==
    build = "none" =>
        LET all == AllPaths(depth - 1)
        IN  /\ IsInjective(results)
            /\ Range(results) \subseteq all
            /\ Len(results) = IF Cardinality(all) < MaxPaths THEN Cardinality(all)
                              ELSE MaxPaths

\* A target is called reachable iff there is a path to it, and its distance is the length
\* of the shortest. The source is excepted when it is a sequence, as ForEach alone leads
\* back to it.
ReachableTargetsHavePaths ==
    (depth = 1 /\ ~(isSequence /\ source = target)) =>
        LET reachable == GetReachableTargets(edges, source, isSequence)
            lengths   == {n \in 1..MaxDepth : Simple(n) # {}}
        IN  /\ target \in DOMAIN reachable <=> lengths # {}
            /\ lengths # {} => reachable[target].minPathLength = Min(lengths)

\* The search finds every path once, and the targets shown to the user (GetReachableTargets)
\* and the paths found for them agree, though the two walk the graph in different ways.
SearchIsExhaustive == PathsAreFoundOnce /\ ReachableTargetsHavePaths

-----------------------------------------------------------------------------
(***************************************************************************)
(* The plan.                                                               *)
(***************************************************************************)

Types == [i \in DOMAIN path |-> path[i].type]

\* Every path found can be built, whatever the registry holds by then, and with a Collect
\* at its end if it has a ForEach and a cap in its body. The builder names nodes by their
\* position and makes the node of a ForEach when its body has ended.
PathsAreBuildable ==
    build = "refused" => /\ Last(Types) = "Collect"
                         /\ ~Contains(Types, "ForEach") \/ Last(Front(Types)) = "ForEach"

CapsOf(p) == OfKind(p, "Cap")

\* A plan with a ForEach is cut in three: up to the ForEach, its body, and what comes
\* after the body. Each part is a valid plan without a cycle, the prefix needs no more
\* cutting, and each cap of the plan is in exactly one part. Prefix and body, and a suffix
\* without a ForEach, are plans the orchestrator converts to a graph it accepts.
PartsCoverThePlan ==
    (status = "running" /\ Len(order) = Cardinality(NodeIds(plan)) /\ HasForeach(plan)) =>
        \A f \in FirstForEach(plan) :
            LET node    == plan.nodes[f]
                collect == {x \in OfKind(plan, "Collect") : plan.nodes[x].refs = <<node.bodyExit>>}
                end     == IF collect = {} THEN node.bodyExit ELSE CHOOSE x \in collect : TRUE
                prefix  == ExtractPrefixTo(plan, node.refs[1])
                body    == ExtractForEachBody(plan, f)
                suffix  == ExtractSuffixFrom(plan, end)
                allKnown == {plan.nodes[x].cap : x \in CapsOf(plan)} \subseteq Known(cached)
            IN  /\ \A p \in {prefix, body, suffix} : IsValid(p) /\ ~HasCycle(p)
                /\ \A p \in {prefix, body} \cup {q \in {suffix} : ~HasForeach(q)} :
                      allKnown => \E g \in PlanToResolvedGraph(p, cached) :
                                  ValidateDag(g.nodes, g.edges)
                /\ ~HasForeach(prefix)
                /\ CapsOf(plan) = CapsOf(prefix) \cup CapsOf(body) \cup CapsOf(suffix)
                /\ Cardinality(CapsOf(plan)) = Cardinality(CapsOf(prefix))
                        + Cardinality(CapsOf(body)) + Cardinality(CapsOf(suffix))

-----------------------------------------------------------------------------
(***************************************************************************)
(* The execution.                                                          *)
(***************************************************************************)

Executed == NodeIds(plan) \ Range(order)

ReadBy(x) ==
    Range(plan.nodes[x].refs)
        \cup (IF Kind(plan, x) # "Cap" THEN {}
              ELSE LET bs == plan.nodes[x].bindings
                   IN  {bs[n].node : n \in {m \in DOMAIN bs : bs[m].kind = "PreviousOutput"}})

\* The order the executor takes comes from the edges, what a node reads from the node:
\* whatever the order, all that an executed node reads was executed before it, and caps
\* are called in the order of the path, so that the output is that of the last step.
NodesFollowReferences ==
    status # "idle" =>
        /\ \A x \in Executed : ReadBy(x) \subseteq Executed
        /\ \A i, j \in DOMAIN path :
              (i < j /\ {StepId(i), StepId(j)} \subseteq CapsOf(plan) /\ StepId(j) \in Executed)
                 => StepId(i) \in Executed
        /\ status = "done" =>
              LET last == IF Last(path).type = "Collect" THEN Len(path) ELSE Max(CapIndices(path))
              IN  Outputs = {nodeOutputs[x] : x \in {StepId(last)} \cap DOMAIN nodeOutputs}

\* An argument that is missing during execution was announced by the analysis of the
\* path as one that needs the user's input, and the path as one that needs input, unless
\* there is no input file or the output it is taken from was null. Nothing is announced of
\* a path that has an unknown cap: its analysis fails as a whole, the plan is built all
\* the same, and may fail on an argument of another step.
MissingArgumentsAreAnnounced ==
    failure.reason = "argument" =>
        LET i        == failure.node[2]
            analysis == AnalyzePathArguments(path, cached)
        IN  \/ files = 0
            \/ \E x \in ReadBy(failure.node) : x \in Executed \ DOMAIN nodeOutputs
            \/ analysis.error
            \/ /\ \E r \in Range(analysis.steps[i]) : r.resolution = "RequiresUserInput" /\ r.required
               /\ ~analysis.canExecuteWithoutInput

\* What a node reads is there when it is executed, or the user was told before that it
\* would not be, as far as the analysis knows the caps: builder and analysis decide
\* separately what becomes of each argument.
ReferencesAreReady == NodesFollowReferences /\ MissingArgumentsAreAnnounced
=============================================================================

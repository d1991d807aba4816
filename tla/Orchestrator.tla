---------------------------- MODULE Orchestrator ----------------------------
(***************************************************************************)
(* From a machine to a graph for execution (orchestrator/parser.go).       *)
(* The names of the nodes come from the text, everything else from the     *)
(* machine that was parsed from it.                                        *)
(***************************************************************************)
EXTENDS MachineNotation, DagValidation

NewGraph == [nodes |-> [x \in {} |-> Media], edges |-> <<>>, ok |-> TRUE]

-----------------------------------------------------------------------------
(***************************************************************************)
(* ParseMachineToCapDag.                                                   *)
(***************************************************************************)

\* A node that exists keeps its URN; the new one must be on the same chain and agree on
\* being a record.
Check(g, name, urn) ==
    IF name \notin DOMAIN g.nodes
    THEN [g EXCEPT !.nodes = [x \in DOMAIN g.nodes \cup {name} |->
                                 IF x = name THEN urn ELSE g.nodes[x]]]
    ELSE [g EXCEPT !.ok = @ /\ IsComparableMedia(g.nodes[name], urn)
                            /\ IsRecord(g.nodes[name]) = IsRecord(urn)]

\* The URN with which source number k goes in: the input of the cap, for a further one what
\* the node has, or else the argument number k - 1, counted with those not fed from stdin.
SourceMedia(g, e, name, k) ==
    IF k = 1 THEN {e.cap.in}
    ELSE IF name \in DOMAIN g.nodes /\ g.nodes[name] # Media THEN {g.nodes[name]}
    ELSE {Args[e.cap][j].slot : j \in {k - 1} \cap DOMAIN Args[e.cap]}

AddSource(g, e, w, k) ==
    IF ~g.ok \/ SourceMedia(g, e, w.sources[k], k) = {} THEN [g EXCEPT !.ok = FALSE]
    ELSE LET in      == CHOOSE m \in SourceMedia(g, e, w.sources[k], k) : TRUE
             checked == Check(Check(g, w.sources[k], in), w.target, e.cap.out)
         IN  [checked EXCEPT !.edges = Append(@, [from |-> w.sources[k], to |-> w.target,
                                                  cap |-> e.cap, in |-> in])]

WiringOf_PerStrand(m, k, i) == i
\* The wiring that edge i of strand k is taken to come from.
WiringOf(m, k, i) == EdgeCounter(m, k) + i

\* The graph of a text.
ParseMachineToCapDag(text) ==
    LET Graph(m) ==
            LET AddEdgeOf(k, g, i) ==
                    FoldLeftDomain(LAMBDA h, j : AddSource(h, m[k].edges[i],
                                                           text.wirings[WiringOf(m, k, i)], j),
                                   g, text.wirings[WiringOf(m, k, i)].sources)
                AddStrand(g, k) ==
                    FoldLeftDomain(LAMBDA h, i : AddEdgeOf(k, h, i), g, m[k].edges)
            IN  FoldLeftDomain(AddStrand, NewGraph, m)
    IN  {g \in {Graph(m) : m \in ParseMachine(text)} :
            g.ok /\ ValidateDag(DOMAIN g.nodes, Range(g.edges))}
=============================================================================

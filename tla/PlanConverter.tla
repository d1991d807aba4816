---------------------------- MODULE PlanConverter ----------------------------
(***************************************************************************)
(* From a plan without loops to a graph for execution                      *)
(* (orchestrator/plan_converter.go).  cached is the set of caps in the     *)
(* registry.  A Collect that stands alone, which the builder never makes,  *)
(* is left out: each Collect here belongs to a ForEach.                    *)
(***************************************************************************)
EXTENDS MachinePlan, DagValidation

Known(cached) == {c.urn : c \in cached}

IsConvertible(p, cached) ==
    /\ OfKind(p, "ForEach") \cup OfKind(p, "Collect") = {}
    /\ \A x \in OfKind(p, "Cap") : p.nodes[x].cap \in Known(cached)
    /\ \A e \in Range(p.edges) : e.to \in NodeIds(p)

\* An Output is a node of the graph if it takes the output of a cap.
IsGraphNode(p, x) ==
    Kind(p, x) = "Output" =>
        p.nodes[x].refs[1] \in OfKind(p, "Cap")

\* The graph, with an edge for each one of the plan that leads into a cap.
PlanToResolvedGraph(p, cached) ==
    IF ~IsConvertible(p, cached) THEN {}
    ELSE {[nodes |-> {x \in NodeIds(p) : IsGraphNode(p, x)},
           edges |-> {[from |-> e.from, to |-> e.to, cap |-> p.nodes[e.to].cap] :
                         e \in {f \in Range(p.edges) : Kind(p, f.to) = "Cap"}}]}
=============================================================================

---------------------------- MODULE DagValidation ----------------------------
(***************************************************************************)
(* ValidateDag (orchestrator/validation.go): Kahn's algorithm over names.  *)
(* An edge is a record with from and to.                                   *)
(***************************************************************************)
EXTENDS FiniteSets

RECURSIVE Sorted(_, _, _)
\* What the algorithm has sorted when it stops, beginning with done. Only names that are
\* nodes or targets of edges are ever queued.
Sorted(nodes, edges, done) ==
    LET names == nodes \cup {e.to : e \in edges}
        more  == {n \in names : \A e \in edges : e.to = n => e.from \in done}
    IN  IF more = done THEN done ELSE Sorted(nodes, edges, more)

ValidateDag_SkipSelf(nodes, edges) ==
    Cardinality(Sorted(nodes, {e \in edges : e.from # e.to}, {})) = Cardinality(nodes)
ValidateDag(nodes, edges) == Cardinality(Sorted(nodes, edges, {})) = Cardinality(nodes)
=============================================================================

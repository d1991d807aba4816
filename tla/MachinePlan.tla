----------------------------- MODULE MachinePlan -----------------------------
(***************************************************************************)
(* Plans as graphs (planner/plan.go).                                      *)
(*                                                                         *)
(* A node id is a tuple, such as <<"input_slot">> or <<"step", 2>>.  A     *)
(* node has a kind and what it refers to: refs is the sequence of the      *)
(* nodes whose outputs it reads other than through arguments, bindings     *)
(* those of its arguments, and a ForEach has the two ends of its body.     *)
(***************************************************************************)
EXTENDS Integers, FiniteSetsExt, SequencesExt

NoBindings == [x \in {} |-> {}]

InputSlotNode          == [kind |-> "InputSlot", refs |-> <<>>]
OutputNode(from)       == [kind |-> "Output", refs |-> <<from>>]
CollectNode(inputs)    == [kind |-> "Collect", refs |-> inputs]
CapNode(cap, bindings) == [kind |-> "Cap", refs |-> <<>>, cap |-> cap, bindings |-> bindings]
ForEachNode(input, entry, exit) ==
    [kind |-> "ForEach", refs |-> <<input>>, bodyEntry |-> entry, bodyExit |-> exit]

NewMachinePlan ==
    [nodes |-> [x \in {} |-> InputSlotNode], edges |-> <<>>,
     entryNodes |-> <<>>, outputNodes |-> <<>>]

NodeIds(p) == DOMAIN p.nodes
Kind(p, x) == p.nodes[x].kind
OfKind(p, k) == {x \in NodeIds(p) : Kind(p, x) = k}

AddNode(p, x, node) ==
    [p EXCEPT !.nodes = [y \in NodeIds(p) \cup {x} |-> IF y = x THEN node ELSE p.nodes[y]],
              !.entryNodes  = IF node.kind = "InputSlot" THEN Append(@, x) ELSE @,
              !.outputNodes = IF node.kind = "Output" THEN Append(@, x) ELSE @]

AddEdge(p, from, to, kind) ==
    [p EXCEPT !.edges = Append(@, [from |-> from, to |-> to, kind |-> kind])]

AddNodes(p, q, xs)  == FoldLeft(LAMBDA r, x : AddNode(r, x, q.nodes[x]), p, SetToSeq(xs))
AddEdges(p, es)     == [p EXCEPT !.edges = @ \o es]
DirectEdge(p, a, b) == AddEdge(p, a, b, "Direct")

IsValid(p) ==
    /\ \A e \in Range(p.edges) : {e.from, e.to} \subseteq NodeIds(p)
    /\ Range(p.entryNodes) \cup Range(p.outputNodes) \subseteq NodeIds(p)

-----------------------------------------------------------------------------
(***************************************************************************)
(* Kahn's algorithm.  The queue starts with the nodes without an incoming  *)
(* edge, in the order of a Go map: any order.                              *)
(***************************************************************************)

InDegree(p, x) == Len(SelectSeq(p.edges, LAMBDA e : e.to = x))
Roots(p)       == {x \in NodeIds(p) : InDegree(p, x) = 0}

RECURSIVE Kahn(_, _, _, _)
Kahn(p, queue, degree, order) ==
    IF queue = <<>> THEN order
    ELSE LET Release(acc, e) ==
                 LET d == acc.degree[e.to] - 1
                 IN  [degree |-> [acc.degree EXCEPT ![e.to] = d],
                      queue  |-> IF d = 0 THEN Append(acc.queue, e.to) ELSE acc.queue]
             next == FoldLeft(Release, [degree |-> degree, queue |-> Tail(queue)],
                              SelectSeq(p.edges, LAMBDA e : e.from = Head(queue)))
         IN  Kahn(p, next.queue, next.degree, Append(order, Head(queue)))

KahnOrders(p) ==
    {Kahn(p, q, [x \in NodeIds(p) |-> InDegree(p, x)], <<>>) : q \in SetToSeqs(Roots(p))}

\* The orders TopologicalOrder may return; none if there is a cycle.
TopologicalOrders(p) ==
    {o \in KahnOrders(p) : Len(o) = Cardinality(NodeIds(p))}

HasCycle(p) == TopologicalOrders(p) = {}

\* The ForEach nodes FindFirstForEach may return.
FirstForEach(p) ==
    {SelectSeq(o, LAMBDA x : Kind(p, x) = "ForEach")[1] : o \in TopologicalOrders(p)}

HasForeach(p) == OfKind(p, "ForEach") # {}

-----------------------------------------------------------------------------
(***************************************************************************)
(* Sub-plans.                                                              *)
(***************************************************************************)

Successors(p, xs)   == {e.to : e \in {f \in Range(p.edges) : f.from \in xs}}
Predecessors(p, xs) == {e.from : e \in {f \in Range(p.edges) : f.to \in xs}}

RECURSIVE Descendants(_, _, _)
\* What is reached from xs without going on from the nodes in stop.
Descendants(p, xs, stop) ==
    LET more == xs \cup Successors(p, xs \ stop)
    IN  IF more = xs THEN xs ELSE Descendants(p, more, stop)

RECURSIVE Ancestors(_, _)
Ancestors(p, xs) ==
    LET more == xs \cup Predecessors(p, xs)
    IN  IF more = xs THEN xs ELSE Ancestors(p, more)

Between(p, xs, kinds) ==
    SelectSeq(p.edges, LAMBDA e : {e.from, e.to} \subseteq xs /\ e.kind \in kinds)

AllKinds == {"Direct", "Iteration", "Collection"}

ExtractPrefixTo(p, target) ==
    LET kept   == Ancestors(p, {target}) \ OfKind(p, "Output")
        output == Append(target, "prefix_output")
        nodes  == AddNode(AddNodes(NewMachinePlan, p, kept), output, OutputNode(target))
    IN  DirectEdge(AddEdges(nodes, Between(p, kept, AllKinds)), target, output)

BodyEnds_NoExit(p, exit) == OfKind(p, "Output") \cup OfKind(p, "Collect")
BodyEnds(p, exit) == {exit} \cup OfKind(p, "Output") \cup OfKind(p, "Collect")

ExtractForEachBody(p, foreach) ==
    LET entry  == p.nodes[foreach].bodyEntry
        exit   == p.nodes[foreach].bodyExit
        body   == Descendants(p, {entry}, BodyEnds(p, exit)) \cup {exit}
        input  == Append(foreach, "body_input")
        output == Append(foreach, "body_output")
        nodes  == AddNodes(AddNode(NewMachinePlan, input, InputSlotNode), p, body)
        inner  == AddEdges(DirectEdge(nodes, input, entry), Between(p, body, {"Direct"}))
    IN  DirectEdge(AddNode(inner, output, OutputNode(exit)), exit, output)

ExtractSuffixFrom(p, from) ==
    LET after == Descendants(p, {from}, {}) \ {from}
        input == Append(from, "suffix_input")
        nodes == AddNodes(AddNode(NewMachinePlan, input, InputSlotNode), p,
                          after \ OfKind(p, "InputSlot"))
        Redirected(es) ==
            [i \in DOMAIN es |-> IF es[i].from = from
                                 THEN [es[i] EXCEPT !.from = input, !.kind = "Direct"]
                                 ELSE es[i]]
    IN  AddEdges(nodes, Redirected(SelectSeq(p.edges, LAMBDA e :
                            e.from \in after \cup {from} /\ e.to \in after \cup {from})))
==============================================================================

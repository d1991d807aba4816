------------------------------ MODULE Machines ------------------------------
(***************************************************************************)
(* Machines as they are written: a text, statement by statement, or a path *)
(* of the planner, step by step.  After each one the program may parse     *)
(* what is there, write it back, and make a graph for execution of it.     *)
(***************************************************************************)
EXTENDS Orchestrator

CONSTANTS
    Headers,        \* the sequences of headers a text may begin with
    NodeNames,
    LoopAliases,    \* the aliases that are also used with LOOP
    MaxSources,     \* bound on the sources of a wiring, by alias
    MaxWirings, MaxSteps    \* bounds on a text and on a path

VARIABLES
    text,           \* a text, without wirings at first
    steps           \* a path

vars == <<text, steps>>

Init ==
    /\ text \in {Text(h, <<>>) : h \in Headers}
    /\ steps = <<>>

SourceLists(n) == UNION {Injection(1..k, NodeNames) : k \in 1..n}
Aliases == {h.alias : h \in Range(text.headers)}

\* A text that has a wrong wiring is wrong whatever follows.
WriteWiring ==
    /\ steps = <<>>
    /\ Len(text.wirings) < MaxWirings /\ NodeMedia(text).ok
    /\ \E a \in Aliases, target \in NodeNames, loop \in BOOLEAN :
          \E sources \in SourceLists(MaxSources[a]) :
          /\ loop => a \in LoopAliases
          /\ text' = [text EXCEPT !.wirings = Append(@,
                [sources |-> sources, capAlias |-> a, target |-> target, isLoop |-> loop])]
    /\ UNCHANGED steps

\* The planner appends a cap that takes what is there, and ForEach steps in between.
Step(type, c) == [type |-> type, cap |-> c, from |-> c.in, to |-> c.out]
AppendStep ==
    /\ text.wirings = <<>> /\ Len(steps) < MaxSteps
    /\ \E c \in Range(CapTexts), type \in {"Cap", "ForEach", "Collect"} :
          /\ type = "Cap" /\ steps # <<>> => ConformsTo(Last(steps).to, c.in)
          /\ type # "Cap" => steps # <<>> /\ c = Last(steps).cap
          /\ steps' = Append(steps, Step(type, c))
    /\ UNCHANGED text

Next == WriteWiring \/ AppendStep
Spec == Init /\ [][Next]_vars

-----------------------------------------------------------------------------
(***************************************************************************)
(* Properties.                                                             *)
(***************************************************************************)

\* FromStrand or ParseMachine.
Machine == IF steps # <<>> THEN {<<s>> : s \in ResolveStrand(steps)} ELSE ParseMachine(text)

Urn(s, id) == s.nodes[id]
HasTiedAnchors(s) ==
    \/ ~IsInjective([i \in DOMAIN s.inputAnchors |-> Urn(s, s.inputAnchors[i])])
    \/ ~IsInjective([i \in DOMAIN s.outputAnchors |-> Urn(s, s.outputAnchors[i])])
\* Two edges that only the numbers of their nodes tell apart.
Description(s, e) ==
    <<e.cap, [k \in DOMAIN e.assignment |-> <<e.assignment[k].slot, Urn(s, e.assignment[k].source)>>],
      Urn(s, e.target), e.isLoop>>
HasTiedEdges(s) == ~IsInjective([i \in DOMAIN s.edges |-> Description(s, s.edges[i])])

\* The first source of a wiring says what the input of the cap is. Sources are written back
\* in the order of their nodes, so another one may come first.
ReordersSources ==
    LET names == Mentioned([i \in DOMAIN text.wirings |-> NamesOf(text.wirings[i])])
        NodeId(x) == CHOOSE k \in DOMAIN names : names[k] = x
    IN  \E w \in Range(text.wirings) : \E i, j \in DOMAIN w.sources :
            i < j /\ NodeId(w.sources[i]) > NodeId(w.sources[j])

\* What is written for a machine is read as an equivalent machine, although the nodes are
\* numbered anew, their URNs inferred anew from the caps, and edges sorted anew.
RoundTrip ==
    \A m \in Machine :
        \/ ReordersSources \/ \E k \in DOMAIN m : HasTiedAnchors(m[k])
        \/ \E n \in ParseMachine(ToMachineNotation(m)) : IsEquivalentMachine(m, n)

Swapped(ws, i) == [ws EXCEPT ![i] = ws[i + 1], ![i + 1] = ws[i]]

\* Two wirings that change places in a text change nothing but the order of the strands.
OrderDoesNotMatter ==
    \A m \in ParseMachine(text) : \A i \in 1..(Len(text.wirings) - 1) :
        \A n \in ParseMachine([text EXCEPT !.wirings = Swapped(@, i)]) :
            \/ \E k \in DOMAIN m : HasTiedAnchors(m[k]) \/ HasTiedEdges(m[k])
            \/ \E f \in Bijection(DOMAIN m, DOMAIN n) : \A k \in DOMAIN m : IsEquivalentStrand(m[k], n[f[k]])

\* The edges of a machine as a graph has them, with the numbers of strand and node as names.
Flow(m) ==
    UNION {UNION {{[from |-> <<k, m[k].edges[i].assignment[j].source>>,
                    to |-> <<k, m[k].edges[i].target>>, cap |-> m[k].edges[i].cap] :
                      j \in DOMAIN m[k].edges[i].assignment} : i \in DOMAIN m[k].edges}
           : k \in DOMAIN m}

Successors(g, xs) == {e.to : e \in {d \in Range(g.edges) : d.from \in xs}}
RECURSIVE Reached(_, _)
Reached(g, xs) == IF Successors(g, xs) \subseteq xs THEN xs ELSE Reached(g, xs \cup Successors(g, xs))
IsAcyclic(g) == \A x \in DOMAIN g.nodes : x \notin Reached(g, Successors(g, {x}))

\* A graph that is accepted has no cycle, whatever text it was made from. The graph made
\* from what was written for a machine has the machine's data flow: the nodes correspond
\* one to one, and the same caps lead from and to them.
GraphFollowsMachine ==
    /\ \A g \in ParseMachineToCapDag(text) : IsAcyclic(g)
    /\ \A m \in Machine : \A g \in ParseMachineToCapDag(ToMachineNotation(m)) :
          LET graph == {[from |-> e.from, to |-> e.to, cap |-> e.cap] : e \in Range(g.edges)}
              ids   == UNION {{e.from, e.to} : e \in Flow(m)}
          IN  \E f \in Bijection(ids, DOMAIN g.nodes) :
                 {[e EXCEPT !.from = f[@], !.to = f[@]] : e \in Flow(m)} = graph
=============================================================================

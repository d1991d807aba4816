---------------------------- MODULE PlanExecutor ----------------------------
(***************************************************************************)
(* The execution of a plan, node by node in a topological order            *)
(* (planner/executor.go, planner/argument_binding.go).                     *)
(*                                                                         *)
(* An output is a number of items and whether it is an array; an argument  *)
(* is its name and where its value comes from.  Caps are called through an *)
(* interface: they may disappear, fail, and answer null or an array.       *)
(***************************************************************************)
EXTENDS PlanBuilder

CONSTANT FileCounts     \* the numbers of input files to run with

VARIABLES
    plan,
    known,          \* the caps the executor has a definition of
    files,          \* the number of input files
    slotValues,     \* the slots given a value, as pairs of node and name
    settings,       \* the slots with a setting, as pairs of cap and name
    order,          \* the nodes not yet executed, in order
    nodeOutputs,    \* node -> output, for the nodes that have one
    arguments,      \* node -> arguments its cap was called with
    status,         \* "idle", "running", "done" or "failed"
    failure         \* the node that failed and why

execVars == <<plan, known, files, slotValues, settings, order, nodeOutputs, arguments,
              status, failure>>

NoOutputs == [x \in {} |-> [array |-> FALSE, items |-> 1]]
NoFailure == [node |-> NoNode, reason |-> "none"]
Value     == [array |-> FALSE, items |-> 1]
Array(n)  == [array |-> TRUE, items |-> n]
Responses == {Value, Array(2)}
Items(out) == IF out.array THEN out.items ELSE 1

Slots(p) ==
    {<<x, n>> \in UNION {{x} \X DOMAIN p.nodes[x].bindings : x \in OfKind(p, "Cap")} :
        p.nodes[x].bindings[n].kind = "Slot"}

SlotSettings(p) == {<<p.nodes[s[1]].cap, s[2]>> : s \in Slots(p)}

-----------------------------------------------------------------------------
(***************************************************************************)
(* ResolveBinding: where the value comes from, "nothing" for an optional   *)
(* slot without one, "error" if it is needed and not there.                *)
(***************************************************************************)

ArgOf(c, n) == CHOOSE a \in Range(c.args) : a.media = n

ResolveSlot(x, c, n) ==
    CASE <<x, n>> \in slotValues -> "Slot"
      [] <<x, n>> \notin slotValues /\ <<c.urn, n>> \in settings -> "CapSetting"
      [] OTHER -> IF ArgOf(c, n).hasDefault THEN "CapDefault"
                  ELSE IF ArgOf(c, n).required THEN "error" ELSE "nothing"

ResolveBinding(x, c, n) ==
    LET b == plan.nodes[x].bindings[n]
    IN  CASE b.kind = "InputFilePath"  -> IF files > 0 THEN "InputFile" ELSE "error"
          [] b.kind = "PreviousOutput" -> IF b.node \in DOMAIN nodeOutputs
                                          THEN "PreviousOutput" ELSE "error"
          [] b.kind = "Slot"           -> ResolveSlot(x, c, n)

FilePathUrn == {"file-path"}

BoundArguments(x, c) ==
    LET resolved(n) == ResolveBinding(x, c, n)
    IN  {[name |-> IF resolved(n) = "InputFile" THEN FilePathUrn ELSE n,
          source |-> resolved(n)] :
            n \in {m \in DOMAIN plan.nodes[x].bindings : resolved(m) # "nothing"}}

\* The first input file goes to stdin if no binding provides for it.
StdinArguments(x, c) ==
    LET bindings == plan.nodes[x].bindings
        stdin    == {a \in Range(c.args) : a.stdin # {}}
        first    == SelectSeq(c.args, LAMBDA a : a.stdin # {})[1]
    IN  IF /\ files > 0
           /\ stdin # {}
           /\ \A a \in stdin : a.media \notin DOMAIN bindings
           /\ \A n \in DOMAIN bindings : bindings[n].kind # "InputFilePath"
        THEN {[name |-> m, source |-> "Contents"] : m \in first.stdin} ELSE {}

-----------------------------------------------------------------------------
ExecIdle ==
    /\ plan = NewMachinePlan /\ known = {} /\ files = 0
    /\ slotValues = {} /\ settings = {} /\ order = <<>>
    /\ nodeOutputs = NoOutputs /\ arguments = [x \in {} |-> {}]
    /\ status = "idle" /\ failure = NoFailure

\* Execute: validation and order, for a plan and the inputs it is given.
Execute(p, caps) ==
    /\ status = "idle"
    /\ plan' = p /\ known' = caps
    /\ files' \in FileCounts
    /\ slotValues' \in SUBSET Slots(p)
    /\ settings' \in {{}, SlotSettings(p)}
    /\ \/ /\ IsValid(p)
          /\ order' \in TopologicalOrders(p)
          /\ status' = "running" /\ failure' = failure
       \/ /\ ~IsValid(p) \/ HasCycle(p)
          /\ status' = "failed" /\ failure' = [node |-> NoNode, reason |-> "invalid"]
          /\ order' = order
    /\ UNCHANGED <<nodeOutputs, arguments>>

Next1      == Head(order)
Running(k) == status = "running" /\ order # <<>> /\ Kind(plan, Next1) = k

Fails(reason) ==
    /\ status' = "failed" /\ failure' = [node |-> Next1, reason |-> reason]
    /\ UNCHANGED <<plan, known, files, slotValues, settings, order, nodeOutputs>>

\* The node is done; outs is the set of its outputs: one, or none if it is null.
Succeeds(outs) ==
    /\ order' = Tail(order)
    /\ nodeOutputs' = [x \in DOMAIN nodeOutputs \cup {y \in {Next1} : outs # {}} |->
                         IF x = Next1 THEN CHOOSE o \in outs : TRUE ELSE nodeOutputs[x]]
    /\ UNCHANGED <<plan, known, files, slotValues, settings, status, failure>>

OutputsOf(xs) == {x \in Range(xs) : x \in DOMAIN nodeOutputs}

\* executeMachineNode before the call: the cap is not there (any more), an argument is
\* missing, or the input file cannot be read.
CapIsNotCalled ==
    /\ Running("Cap")
    /\ LET found == FindCap(known, plan.nodes[Next1].cap)
       IN  \/ Fails("cap")
           \/ \E c \in found :
                /\ \E n \in DOMAIN plan.nodes[Next1].bindings :
                        ResolveBinding(Next1, c, n) = "error"
                /\ Fails("argument")
           \/ \E c \in found : StdinArguments(Next1, c) # {} /\ Fails("file")
    /\ UNCHANGED arguments

CapIsCalled ==
    /\ Running("Cap")
    /\ \E c \in FindCap(known, plan.nodes[Next1].cap) :
          /\ \A n \in DOMAIN plan.nodes[Next1].bindings :
                ResolveBinding(Next1, c, n) # "error"
          /\ arguments' = [x \in DOMAIN arguments \cup {Next1} |->
                             IF x = Next1
                             THEN BoundArguments(x, c) \cup StdinArguments(x, c)
                             ELSE arguments[x]]
    /\ Fails("response") \/ \E out \in {{}} \cup {{r} : r \in Responses} : Succeeds(out)

ExecuteInputSlot ==
    /\ Running("InputSlot")
    /\ Succeeds({IF files = 1 THEN Value ELSE Array(files)})
    /\ UNCHANGED arguments

\* Output passes on what its source has, which may be nothing.
ExecuteOutput ==
    /\ Running("Output")
    /\ Succeeds({nodeOutputs[x] : x \in OutputsOf(plan.nodes[Next1].refs)})
    /\ UNCHANGED arguments

\* ForEach and Collect put the items of their inputs in an object, with their number.
ExecuteForEachOrCollect ==
    /\ Running("ForEach") \/ Running("Collect")
    /\ LET inputs == OutputsOf(plan.nodes[Next1].refs)
       IN  Succeeds({[array |-> FALSE,
                      items |-> MapThenSumSet(LAMBDA x : Items(nodeOutputs[x]), inputs)]})
    /\ UNCHANGED arguments

\* The results are collected from the output nodes.
Complete ==
    /\ status = "running" /\ order = <<>>
    /\ status' = "done"
    /\ UNCHANGED <<plan, known, files, slotValues, settings, order, nodeOutputs, arguments,
                   failure>>

Outputs == {nodeOutputs[x] : x \in {y \in UNION {Range(plan.nodes[o].refs) :
                                                 o \in Range(plan.outputNodes)} :
                                    y \in DOMAIN nodeOutputs}}

ExecNext ==
    \/ CapIsNotCalled \/ CapIsCalled \/ ExecuteInputSlot \/ ExecuteOutput
    \/ ExecuteForEachOrCollect \/ Complete
=============================================================================

----------------------------- MODULE PlanBuilder -----------------------------
(***************************************************************************)
(* From a path to a plan (planner/plan_builder.go).                        *)
(*                                                                         *)
(* cached is the set of caps the registry holds when the plan is built.    *)
(* Steps are numbered from 1 here, from 0 in the code.                     *)
(***************************************************************************)
EXTENDS Urns, MachinePlan

FindCap(cached, urn) == {c \in cached : c.urn = urn}

FilePathArgs(c) == SelectSeq(c.args, LAMBDA a : IsFilePath(a.media))
IsFilePathStdinChainable(c) ==
    \E a \in Range(FilePathArgs(c)) : c.urn.in \in a.stdin

\* The arguments that are neither input, output nor file paths.
OtherArgs(c) ==
    {a.media : a \in {b \in Range(c.args) : /\ b.media \notin {c.urn.in, c.urn.out}
                                            /\ ~IsFilePath(b.media)}}

\* first: no cap outside a ForEach body comes before, and this one is outside too.
BindingsOf(c, first, prev) ==
    LET fileArg == IF FilePathArgs(c) = <<>> THEN {} ELSE {FilePathArgs(c)[1].media}
    IN  [n \in fileArg \cup OtherArgs(c) |->
            CASE n \notin fileArg -> [kind |-> "Slot"]
              [] n \in fileArg /\ ~first /\ IsFilePathStdinChainable(c) ->
                    [kind |-> "PreviousOutput", node |-> prev]
              [] OTHER -> [kind |-> "InputFilePath"]]

-----------------------------------------------------------------------------
(***************************************************************************)
(* BuildPlanFromPath, one step after the other.  open is the step of the   *)
(* ForEach whose body is being built, 0 outside; entry and exit are the    *)
(* ends of that body, None before its first cap.                           *)
(***************************************************************************)

InputSlot == <<"input_slot">>
Output    == <<"output">>
StepId(i) == <<"step", i>>
NoNode    == <<>>

ForEachInput(i) == IF i = 1 THEN InputSlot ELSE StepId(i - 1)
OrElse(x, y)    == IF x = NoNode THEN y ELSE x

Start ==
    [plan |-> AddNode(NewMachinePlan, InputSlot, InputSlotNode), prev |-> InputSlot,
     open |-> 0, entry |-> NoNode, exit |-> NoNode, capSteps |-> 0, error |-> FALSE]

Failed(b) == [b EXCEPT !.error = TRUE]

\* The node of the open ForEach, with the edges into it and into its body.
AddForEach(b, entry, exit) ==
    LET x == StepId(b.open)
        p == AddNode(b.plan, x, ForEachNode(ForEachInput(b.open), entry, exit))
    IN  AddEdge(DirectEdge(p, ForEachInput(b.open), x), x, entry, "Iteration")

AddCapStep(b, cached, i, step) ==
    LET inside   == b.open # 0
        first    == b.capSteps = 0 /\ ~inside
        bindings == UNION {{BindingsOf(c, first, b.prev)} : c \in FindCap(cached, step.cap)}
        node     == CapNode(step.cap, IF bindings = {} THEN NoBindings
                                      ELSE CHOOSE x \in bindings : TRUE)
    IN  [b EXCEPT !.plan = DirectEdge(AddNode(@, StepId(i), node), b.prev, StepId(i)),
                  !.entry = IF inside THEN OrElse(@, StepId(i)) ELSE @,
                  !.exit = IF inside THEN StepId(i) ELSE @,
                  !.capSteps = IF inside THEN @ ELSE @ + 1,
                  !.prev = StepId(i)]

AddForEachStep_NoReset(b, i) ==
    IF b.open = 0 THEN [b EXCEPT !.open = i]
    ELSE [b EXCEPT !.open = i, !.plan = AddForEach(b, b.entry, OrElse(b.exit, b.prev)),
                   !.prev = OrElse(b.exit, b.prev)]

\* A ForEach inside a body ends the outer one. Its own node comes with the end of its body.
AddForEachStep(b, i) ==
    LET exit   == OrElse(b.exit, b.prev)
        closed == [b EXCEPT !.plan = AddForEach(b, b.entry, exit), !.prev = exit]
        opened == IF b.open = 0 THEN b ELSE closed
    IN  IF b.open # 0 /\ b.entry \in {NoNode, ForEachInput(b.open)} THEN Failed(b)
        ELSE [opened EXCEPT !.open = i, !.entry = NoNode, !.exit = NoNode]

AddCollectStep_NoEdge(b, i) ==
    LET exit == OrElse(b.exit, b.prev)
        p    == AddForEach(b, OrElse(b.entry, b.prev), exit)
    IN  IF b.open = 0 THEN Failed(b)
        ELSE [b EXCEPT !.plan = AddNode(p, StepId(i), CollectNode(<<exit>>)),
                       !.open = 0, !.prev = StepId(i)]

AddCollectStep(b, i) ==
    LET exit == OrElse(b.exit, b.prev)
        p    == AddForEach(b, OrElse(b.entry, b.prev), exit)
    IN  IF b.open = 0 THEN Failed(b)
        ELSE [b EXCEPT !.plan = AddEdge(AddNode(p, StepId(i), CollectNode(<<exit>>)),
                                        exit, StepId(i), "Collection"),
                       !.open = 0, !.entry = NoNode, !.exit = NoNode, !.prev = StepId(i)]

AddStep(b, cached, i, step) ==
    CASE step.type = "Cap"     -> AddCapStep(b, cached, i, step)
      [] step.type = "ForEach" -> AddForEachStep(b, i)
      [] step.type = "Collect" -> AddCollectStep(b, i)

\* The end of the path: a ForEach left open gets its node if it has a body.
Finish(b) ==
    LET unclosed == b.open # 0 /\ b.entry # NoNode
        exit     == OrElse(b.exit, b.prev)
        last     == IF unclosed THEN exit ELSE b.prev
        p        == IF unclosed THEN AddForEach(b, b.entry, exit) ELSE b.plan
        plan     == DirectEdge(AddNode(p, Output, OutputNode(last)), last, Output)
    IN  IF \/ b.error
           \/ unclosed /\ b.entry = ForEachInput(b.open)
           \/ ~IsValid(plan)
           \/ HasCycle(plan)
        THEN Failed(b) ELSE [b EXCEPT !.plan = plan]

\* A record with the plan, or with error set.
BuildPlanFromPath(path, cached) ==
    LET Step(b, i) == IF b.error THEN b ELSE AddStep(b, cached, i, path[i])
    IN  Finish(FoldLeftDomain(Step, Start, path))

-----------------------------------------------------------------------------
(***************************************************************************)
(* AnalyzePathArguments: what the user is told about the arguments.        *)
(***************************************************************************)

DetermineResolution_AnyDefault(c, a, capStep) ==
    LET isOut  == a.media = c.urn.out
        isFile == IsFilePath(a.media) /\ ~isOut
    IN  CASE a.media = c.urn.in \/ isFile ->
                IF capStep = 1 THEN "FromInputFile" ELSE "FromPreviousOutput"
          [] a.media # c.urn.in /\ isOut -> "FromPreviousOutput"
          [] OTHER -> "HasDefault"

DetermineResolution(c, a, capStep) ==
    LET isOut  == a.media = c.urn.out
        isFile == IsFilePath(a.media) /\ ~isOut
    IN  CASE a.media = c.urn.in \/ isFile ->
                IF capStep = 1 THEN "FromInputFile" ELSE "FromPreviousOutput"
          [] a.media # c.urn.in /\ isOut -> "FromPreviousOutput"
          [] OTHER -> IF a.hasDefault THEN "HasDefault" ELSE "RequiresUserInput"

CapIndices(path) == {i \in DOMAIN path : path[i].type = "Cap"}

\* The arguments of each cap step, and whether none is left to the user; one cap that is
\* not known, wherever it is on the path, and there is only an error.
AnalyzePathArguments(path, cached) ==
    LET Arguments(i) ==
            LET c == CHOOSE x \in FindCap(cached, path[i].cap) : TRUE
                n == Cardinality({j \in CapIndices(path) : j <= i})
            IN  [k \in DOMAIN c.args |->
                    [media |-> c.args[k].media, required |-> c.args[k].required,
                     resolution |-> DetermineResolution(c, c.args[k], n)]]
        steps == [i \in CapIndices(path) |-> Arguments(i)]
    IN  IF \E i \in CapIndices(path) : FindCap(cached, path[i].cap) = {} THEN [error |-> TRUE]
        ELSE [error |-> FALSE, steps |-> steps,
              canExecuteWithoutInput |->
                  \A i \in DOMAIN steps : \A a \in Range(steps[i]) :
                      a.resolution \in {"FromInputFile", "FromPreviousOutput"}]
=============================================================================

------------------------------ MODULE MCMachines ------------------------------
(* The instance of Machines that TLC checks.                               *)
EXTENDS Machines

A  == {"a"}
B  == {"b"}
B1 == {"b", "x"}
C  == {"c"}

F == CapUrn(A, B1, [t \in {"op"} |-> "f"])
G == CapUrn(B, C, [t \in {"op"} |-> "g"])
H == CapUrn(B, A, [t \in {"op"} |-> "h"])
K == CapUrn(B, B, [t \in {"op"} |-> "k"])

Arg(slot, stdin) == [slot |-> slot, stdin |-> stdin]
MCArgs == [c \in {F, G, H, K} |->
    CASE c = F -> <<Arg({"path"}, {A})>>
      [] c = G -> <<Arg({"option"}, {}), Arg(B, {B}), Arg(A, {A}), Arg(B1, {B1})>>
      [] OTHER -> <<Arg(B, {B})>>]

MCCapTexts   == <<F, G, H, K>>
MCMediaTexts == <<{}, A, B, B1, C, {"option"}, {"path"}>>

Alias(a, c) == [alias |-> a, cap |-> c]
MCHeaders == {<<Alias("f", F), Alias("g", G)>>, <<Alias("f", F), Alias("h", H)>>,
              <<Alias("k", K), Alias("g", G)>>}

MCMaxSources == [a \in {"f", "g", "h", "k"} |-> IF a = "g" THEN 2 ELSE 1]

NameSymmetry == Permutations(NodeNames)
=============================================================================

--------------------------- MODULE MCCartridgeHost ---------------------------
(***************************************************************************)
(* Cartridge 1 is attached, cartridge 2 is registered.  "gen" is a generic *)
(* cap and "spec" a refinement of it.  Cartridge 2 is registered for       *)
(* "spec"; its manifest names "gen" too.                                   *)
(***************************************************************************)
EXTENDS CartridgeHost

MCKnownCaps == <<{}, {"spec"}>>
MCManifestCaps == <<{"gen"}, {"spec", "gen"}>>

Distances ==
  [p \in {<<"gen", "gen">>, <<"gen", "spec">>, <<"spec", "spec">>} |->
     IF p = <<"gen", "spec">> THEN -1 ELSE 0]
=============================================================================

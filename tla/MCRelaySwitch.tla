---------------------------- MODULE MCRelaySwitch ----------------------------
(***************************************************************************)
(* Two masters.  "gen" is a generic cap and "spec" a refinement of it; a   *)
(* generic cartridge can be dispatched for both, a specific one only for   *)
(* the specific request.  Cartridge k of two registries has one key; the   *)
(* private one is still being inspected.                                   *)
(***************************************************************************)
EXTENDS RelaySwitch

Generic  == [key |-> "k", registry |-> "public", caps |-> {"gen"}, operational |-> TRUE]
Private  == [key |-> "k", registry |-> "private", caps |-> {"gen"}, operational |-> FALSE]
Specific == [key |-> "s", registry |-> "public", caps |-> {"spec"}, operational |-> TRUE]

Offer(cartridges, limit) == [cartridges |-> cartridges, limit |-> limit]

OfferA == Offer(<<Generic>>, 2)
OfferB == Offer(<<Specific>>, 3)
OfferC == Offer(<<Specific, Private>>, 1)

MCOffers == {OfferA, OfferB, OfferC}
MCInitialOffer == <<OfferA, OfferB>>

Distances ==
  [p \in {<<"gen", "gen">>, <<"gen", "spec">>, <<"spec", "spec">>} |->
     IF p = <<"gen", "spec">> THEN -1 ELSE 0]
=============================================================================

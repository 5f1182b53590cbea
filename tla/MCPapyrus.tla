----------------------------- MODULE MCPapyrus ------------------------------
(* The Papyrus sampler on its own, for TLC. *)
EXTENDS PapyrusAttribution, TLC

Spec == PapyrusSpec /\ PapyrusFair
=============================================================================

------------------------------ MODULE MCOcSync ------------------------------
(* Instances of OcSync for TLC. *)
EXTENDS OcSync, TLC

ConfigSymmetry == Permutations(Configs)
=============================================================================

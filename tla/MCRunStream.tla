---------------------------- MODULE MCRunStream ----------------------------
(***************************************************************************)
(* Connections are interchangeable: the safety run is reduced by symmetry. *)
(***************************************************************************)
EXTENDS RunStream, TLC

ClientSymmetry == Permutations(Clients)
=============================================================================

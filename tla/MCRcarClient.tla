---------------------------- MODULE MCRcarClient ----------------------------
(* Instances of RcarClient for TLC. *)
EXTENDS RcarClient, TLC

Symmetry == Permutations(Clients)
=============================================================================

---------------------------- MODULE MCTokenClient ----------------------------
(* Instances of TokenClient for TLC. *)
EXTENDS TokenClient, TLC

\* Calls, which stand for new key pairs, are interchangeable.
Symmetry == Permutations(Clients)
=============================================================================

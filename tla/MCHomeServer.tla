---------------------------- MODULE MCHomeServer ---------------------------
(* HomeServer for the model checker: the clients are interchangeable.       *)
EXTENDS HomeServer, TLC

Symmetry == Permutations(Client)
============================================================================

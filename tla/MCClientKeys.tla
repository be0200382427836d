---------------------------- MODULE MCClientKeys ----------------------------
(* Bounds for checking ClientKeys: clients are interchangeable.            *)
EXTENDS ClientKeys, TLC

Symmetry == Permutations(Clients)
=============================================================================

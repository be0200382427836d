------------------------------- MODULE MCHost -------------------------------
(* Bounds for checking Host: members are interchangeable, and so are slugs. *)
EXTENDS Host, TLC

Symmetry == Permutations(Members) \cup Permutations(Slugs)
=============================================================================

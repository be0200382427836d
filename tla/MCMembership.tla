---------------------------- MODULE MCMembership ----------------------------
(* Bounds for checking Membership: the requests are interchangeable.       *)
EXTENDS Membership, TLC

RequestSymmetry == Permutations(Requests)
=============================================================================

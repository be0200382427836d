--------------------------- MODULE MCKeyRecovery ---------------------------
(* Bounds for checking KeyRecovery: clients, keys and channels are         *)
(* interchangeable.                                                        *)
EXTENDS KeyRecovery, TLC

Symmetry ==
  Permutations(Devices) \cup Permutations(Keys) \cup Permutations(Channels)
    \cup Permutations(Helpers) \cup Permutations(Rotators)
=============================================================================

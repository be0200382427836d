--------------------------- MODULE MCChannelKeys ----------------------------
(* Bounds for checking ChannelKeys.  The key ids are interchangeable, and  *)
(* so are the rotators: no property of the runs tells them apart.          *)
EXTENDS ChannelKeys, TLC

KeySymmetry == Permutations(KeyIds) \cup Permutations(Rotators)
=============================================================================

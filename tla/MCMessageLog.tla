---------------------------- MODULE MCMessageLog ----------------------------
(* Bounds for checking MessageLog: the senders are interchangeable, so a   *)
(* run without liveness properties may use their symmetry.                 *)
EXTENDS MessageLog, TLC

SenderSymmetry == Permutations(Senders)
=============================================================================

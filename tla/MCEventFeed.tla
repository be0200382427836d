---------------------------- MODULE MCEventFeed ----------------------------
(* Bounds for checking EventFeed; a liveness property is checked, so no    *)
(* symmetry is used.                                                       *)
EXTENDS EventFeed
=============================================================================

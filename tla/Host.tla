-------------------------------- MODULE Host --------------------------------
(***************************************************************************)
(* The gate in front of the operations, and two groups of operations       *)
(* behind it, cursors and spaces.  A refused request changes nothing       *)
(* behind the gate (Receipts has it as a lost post, Spaces as a broken     *)
(* request), nothing behind the gate changes the gate, and the groups      *)
(* share no state: each is explored with the others at rest, and "part"    *)
(* says which one moves.                                                   *)
(***************************************************************************)
EXTENDS Gate, Receipts, Spaces

VARIABLE part

vars == <<part, gateVars, receiptVars, spaceVars>>

Init ==
  /\ part \in {"gate", "receipts", "spaces"}
  /\ GateInit /\ ReceiptsInit /\ SpacesInit

Next ==
  \/ part = "gate" /\ GateNext /\ UNCHANGED <<part, receiptVars, spaceVars>>
  \/ part = "receipts" /\ ReceiptsNext /\ UNCHANGED <<part, gateVars, spaceVars>>
  \/ part = "spaces" /\ SpacesNext /\ UNCHANGED <<part, gateVars, receiptVars>>

Spec == Init /\ [][Next]_vars

(* The variables have their types.                                         *)
TypeOK == GateTypeOK /\ ReceiptsTypeOK /\ SpacesTypeOK
=============================================================================

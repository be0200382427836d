---------------------------- MODULE SchemaLevels ----------------------------
(***************************************************************************)
(* What the bootstrap promises of the database, without statements and     *)
(* transactions: the schema is always at a level, the migrations 1..level  *)
(* in whole.  It rises one level at a time, as far as some host's package  *)
(* goes, and never falls.  A host comes up only at a level its package     *)
(* knows or a later one.                                                   *)
(***************************************************************************)
EXTENDS Naturals

CONSTANTS
  Hosts,     (* the processes that run the plugin's setup                  *)
  Entries,   (* the highest level                                          *)
  Journal    (* Journal[p]: the level host p's package knows               *)

VARIABLES
  level,     (* the level of the schema                                    *)
  up         (* hosts whose setup has succeeded                            *)

vars == <<level, up>>

Init == level \in 0..Entries /\ up = {}

Migrate(p) == level < Journal[p] /\ level' = level + 1 /\ UNCHANGED up

ComeUp(p) == Journal[p] <= level /\ up' = up \cup {p} /\ UNCHANGED level

Stop(p) == up' = up \ {p} /\ UNCHANGED level

Next == \E p \in Hosts : Migrate(p) \/ ComeUp(p) \/ Stop(p)

Spec == Init /\ [][Next]_vars
=============================================================================

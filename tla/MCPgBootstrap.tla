---------------------------- MODULE MCPgBootstrap ----------------------------
(* Bounds for checking PgBootstrap: two hosts of the current version and   *)
(* one of the version before it.                                           *)
EXTENDS PgBootstrap

CONSTANTS new1, new2, old

MCHosts   == {new1, new2, old}
MCJournal == [p \in MCHosts |-> IF p = old THEN 1 ELSE 2]
MCSize    == [i \in 1..2 |-> IF i = 1 THEN 2 ELSE 1]
=============================================================================

------------------------------- MODULE SeqLog -------------------------------
(***************************************************************************)
(* What a room promises its members, without transactions: an append-only  *)
(* sequence of messages.  A caller of message.send either stores one new   *)
(* message at the end, or is given the place of the message an earlier     *)
(* call stored under its idempotency key, or is refused.  The position of  *)
(* a message is its seq; no position is skipped or filled later, and no    *)
(* key is used by two messages.  The whole log goes when the room is       *)
(* deleted.                                                                *)
(***************************************************************************)
EXTENDS Naturals, Sequences

CONSTANTS
  Callers,  (* the concurrent callers of message.send                    *)
  Entry,    (* the messages: records with at least the field "key"       *)
  NoKey     (* the key of a message sent without an idempotency key      *)

VARIABLES
  log,      (* the messages of the room, in seq order                    *)
  answer    (* answer[c]: the seq caller c was given, 0 when it has none *)

vars == <<log, answer>>

Init ==
  /\ log = <<>>
  /\ answer = [c \in Callers |-> 0]

Fresh(e) == e.key = NoKey \/ \A i \in DOMAIN log : log[i].key # e.key

(* A new message at the end; its caller is told, or its reply is lost.     *)
Store(c, e) ==
  /\ Fresh(e)
  /\ log' = Append(log, e)
  /\ answer' \in {answer, [answer EXCEPT ![c] = Len(log) + 1]}

(* The caller is given the message already stored under some key.          *)
Replay(c, i) ==
  /\ log[i].key # NoKey
  /\ answer' = [answer EXCEPT ![c] = i]
  /\ UNCHANGED log

(* The caller starts over, or is refused.                                  *)
Forget(c) ==
  /\ answer' = [answer EXCEPT ![c] = 0]
  /\ UNCHANGED log

(* The room is deleted with its messages.                                  *)
Clear ==
  /\ log' = <<>>
  /\ UNCHANGED answer

Next ==
  \/ \E c \in Callers, e \in Entry : Store(c, e)
  \/ \E c \in Callers : \E i \in DOMAIN log : Replay(c, i)
  \/ \E c \in Callers : Forget(c)
  \/ Clear

Spec == Init /\ [][Next]_vars
=============================================================================

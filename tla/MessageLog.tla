----------------------------- MODULE MessageLog -----------------------------
(***************************************************************************)
(* One room's message table: message.send and message.list                 *)
(* (chatv3-dm, service.message.ts) over the rooms, messages and            *)
(* room-epochs tables of Postgres at READ COMMITTED.                       *)
(*                                                                         *)
(* A send runs in its own process (an HTTP request on a pooled             *)
(* connection): it checks the room row outside any transaction, then looks *)
(* its idempotency key up, locks the room row (SELECT ... FOR UPDATE),     *)
(* inserts the message and bumps lastSeq, each statement a step of its     *)
(* own.  What a transaction wrote is visible to the others at its commit.  *)
(* The room is archived, deleted and re-keyed by other requests at any     *)
(* moment in between.  Rooms share nothing here, so one room is enough.    *)
(***************************************************************************)
EXTENDS Naturals, Sequences, FiniteSets

CONSTANTS
  Senders,   (* requests that may be in message.send at the same time      *)
  Readers,   (* clients that page the room with message.list               *)
  Keys,      (* idempotency keys                                           *)
  NoKey,     (* "no idempotency key given" (NULL, never equal to a key)    *)
  NoOne,     (* holder of a free row lock                                  *)
  MaxEpoch,  (* bound: rotations publish epochs 1..MaxEpoch                *)
  MaxCalls,  (* bound: number of message.send calls                        *)
  Limit      (* page size of message.list                                  *)

ASSUME SendersAssumption  == NoOne \notin Senders
ASSUME KeysAssumption     == NoKey \notin Keys
ASSUME MaxEpochAssumption == MaxEpoch \in Nat \ {0}
ASSUME MaxCallsAssumption == MaxCalls \in Nat
ASSUME LimitAssumption    == Limit \in Nat \ {0}

Epochs == 1..MaxEpoch

(* A row of the messages table, stored under its seq: the columns the      *)
(* properties tell apart.  "call" stands for the ciphertext.               *)
Row == [key : Keys \cup {NoKey}, epoch : Epochs, call : 1..MaxCalls]

VARIABLES
  status,     (* the room row: "active", "archived" or gone: "deleted"     *)
  epoch,      (* room.currentEpoch                                         *)
  published,  (* the epochs of the room's rows in room-epochs              *)
  lastSeq,    (* room.lastSeq                                              *)
  messages,   (* committed rows of messages, by seq                        *)
  lock,       (* the transaction holding the room row FOR UPDATE           *)
  pc,         (* pc[s]: the statement sender s executes next               *)
  call,       (* call[s]: the input of the send in progress, or the last   *)
  seq,        (* seq[s]: the seq the send allocated, or was replayed       *)
  outcome,    (* outcome[s]: how the last send of s ended                  *)
  calls,      (* number of sends so far                                    *)
  cursor,     (* cursor[r]: the afterSeq reader r asks for next            *)
  got         (* got[r]: the seqs reader r has been given                  *)

room   == <<status, epoch, published>>
table  == <<lastSeq, messages, lock>>
sender == <<pc, call, seq, outcome, calls>>
reader == <<cursor, got>>
vars   == <<room, table, sender, reader>>

Phase   == {"idle", "find", "lock", "insert", "commit"}
Outcome == {"none", "stored", "replayed", "unknown", "not_found", "archived",
            "epoch_mismatch", "unique_violation", "foreign_key_violation"}

Init ==
  /\ status = "active" /\ epoch \in Epochs /\ published = {epoch}
  /\ lastSeq = 0 /\ messages = <<>> /\ lock = NoOne
  /\ pc = [s \in Senders |-> "idle"]
  /\ call = [s \in Senders |-> [key |-> NoKey, epoch |-> 1, call |-> 0]]
  /\ seq = [s \in Senders |-> 0]
  /\ outcome = [s \in Senders |-> "none"]
  /\ calls = 0
  /\ cursor = [r \in Readers |-> 0]
  /\ got = [r \in Readers |-> {}]

-----------------------------------------------------------------------------
(***************************************************************************)
(* message.send                                                            *)
(***************************************************************************)

Goto(s, p) == pc' = [pc EXCEPT ![s] = p]

(* A request that ends without ending its transaction (a variant of End).  *)
End_KeepsLock(s, o) ==
  /\ Goto(s, "idle")
  /\ outcome' = [outcome EXCEPT ![s] = o]
  /\ lock' = lock

(* The request ends: its lock and connection are given back.               *)
End(s, o) ==
  /\ Goto(s, "idle")
  /\ outcome' = [outcome EXCEPT ![s] = o]
  /\ lock' = IF lock = s THEN NoOne ELSE lock

(* A room whose epochs are not compared (a variant of Refusal).            *)
Refusal_AnyEpoch(e) ==
  CASE status = "deleted"  -> "not_found"
    [] status = "archived" -> "archived"
    [] OTHER               -> "none"

(* An archived room reported as revoked (a variant of Refusal).            *)
Refusal_WrongCode(e) ==
  CASE status = "deleted"  -> "not_found"
    [] status = "archived" -> "revoked"
    [] e # epoch           -> "epoch_mismatch"
    [] OTHER               -> "none"

(* Why the check before the transaction refuses a message of epoch e.      *)
Refusal(e) ==
  CASE status = "deleted"  -> "not_found"
    [] status = "archived" -> "archived"
    [] e # epoch           -> "epoch_mismatch"
    [] OTHER               -> "none"

(* The room is read and checked once, outside the transaction.             *)
CheckRoom(s, k, e) ==
  /\ pc[s] = "idle" /\ calls < MaxCalls
  /\ calls' = calls + 1
  /\ call' = [call EXCEPT ![s] = [key |-> k, epoch |-> e, call |-> calls + 1]]
  /\ seq' = [seq EXCEPT ![s] = 0]
  /\ outcome' = [outcome EXCEPT ![s] = Refusal(e)]
  /\ Goto(s, IF Refusal(e) = "none" THEN "find" ELSE "idle")
  /\ UNCHANGED <<room, table, reader>>

StoredUnder(k) == {i \in DOMAIN messages : messages[i].key = k}

(* The lookup without "if (input.idempotencyKey)" (a variant of FindByKey).*)
FindByKey_Always(s) ==
  /\ pc[s] = "find"
  /\ \/ \E i \in StoredUnder(call[s].key) :
          seq' = [seq EXCEPT ![s] = i] /\ End(s, "replayed")
     \/ /\ StoredUnder(call[s].key) = {}
        /\ Goto(s, "lock")
        /\ UNCHANGED <<seq, outcome, lock>>
  /\ UNCHANGED <<room, lastSeq, messages, call, calls, reader>>

(* A keyed send first looks for a committed message under its key.         *)
FindByKey(s) ==
  /\ pc[s] = "find"
  /\ \/ /\ call[s].key # NoKey
        /\ \E i \in StoredUnder(call[s].key) :
             seq' = [seq EXCEPT ![s] = i] /\ End(s, "replayed")
     \/ /\ call[s].key = NoKey \/ StoredUnder(call[s].key) = {}
        /\ Goto(s, "lock")
        /\ UNCHANGED <<seq, outcome, lock>>
  /\ UNCHANGED <<room, lastSeq, messages, call, calls, reader>>

(* The counter taken without the row lock (a variant of LockRoom).         *)
LockRoom_NoLock(s) ==
  /\ pc[s] = "lock"
  /\ seq' = [seq EXCEPT ![s] = lastSeq + 1]
  /\ Goto(s, "insert")
  /\ UNCHANGED <<room, table, call, outcome, calls, reader>>

(* The counter bumped by a statement of its own, outside the transaction   *)
(* (a variant of LockRoom).                                                *)
LockRoom_Counter(s) ==
  /\ pc[s] = "lock"
  /\ seq' = [seq EXCEPT ![s] = lastSeq + 1]
  /\ lastSeq' = lastSeq + 1
  /\ Goto(s, "insert")
  /\ UNCHANGED <<room, messages, lock, call, outcome, calls, reader>>

(* SELECT lastSeq ... FOR UPDATE: waits for the row lock; when the row is  *)
(* gone there is nothing to lock and lastSeq reads as 0.                   *)
LockRoom(s) ==
  /\ pc[s] = "lock"
  /\ lock = NoOne
  /\ lock' = IF status = "deleted" THEN lock ELSE s
  /\ seq' = [seq EXCEPT ![s] = IF status = "deleted" THEN 1 ELSE lastSeq + 1]
  /\ Goto(s, "insert")
  /\ UNCHANGED <<room, lastSeq, messages, call, outcome, calls, reader>>

(* The two unique indexes of messages, (room, seq) and (room, key), against*)
(* the committed rows; NULL keys never collide.                            *)
Collides(s) ==
  \/ seq[s] \in DOMAIN messages
  \/ call[s].key # NoKey /\ StoredUnder(call[s].key) # {}

(* An index waits for a transaction that has inserted the same entry.      *)
IndexBusy(s) ==
  \E t \in Senders \ {s} :
    /\ pc[t] = "commit"
    /\ seq[t] = seq[s] \/ (call[s].key # NoKey /\ call[t].key = call[s].key)

(* Without the (room, key) index (a variant of InsertMessage).             *)
InsertMessage_NoKeyIndex(s) ==
  /\ pc[s] = "insert"
  /\ \/ status = "deleted" /\ End(s, "foreign_key_violation")
     \/ /\ status # "deleted"
        /\ Goto(s, "commit") /\ UNCHANGED <<outcome, lock>>
  /\ UNCHANGED <<room, lastSeq, messages, call, seq, calls, reader>>

(* The insert fails when the room is gone or an index refuses the row; the *)
(* error ends the transaction and nothing maps it to another reply.        *)
InsertMessage(s) ==
  /\ pc[s] = "insert"
  /\ ~IndexBusy(s)
  /\ \/ status = "deleted" /\ End(s, "foreign_key_violation")
     \/ status # "deleted" /\ Collides(s) /\ End(s, "unique_violation")
     \/ /\ status # "deleted" /\ ~Collides(s)
        /\ Goto(s, "commit") /\ UNCHANGED <<outcome, lock>>
  /\ UNCHANGED <<room, lastSeq, messages, call, seq, calls, reader>>

(* bumpSeq and COMMIT: the row and the counter appear together.  The reply *)
(* may be lost on its way ("unknown").                                     *)
Commit(s) ==
  /\ pc[s] = "commit"
  /\ messages' = [i \in DOMAIN messages \cup {seq[s]} |->
                    IF i = seq[s] THEN call[s] ELSE messages[i]]
  /\ lastSeq' = seq[s]
  /\ \E o \in {"stored", "unknown"} : End(s, o)
  /\ UNCHANGED <<room, call, seq, calls, reader>>

(* The connection breaks inside the transaction: Postgres rolls it back.   *)
Abort(s) ==
  /\ pc[s] # "idle"
  /\ End(s, "unknown")
  /\ UNCHANGED <<room, lastSeq, messages, call, seq, calls, reader>>

-----------------------------------------------------------------------------
(***************************************************************************)
(* message.list and the requests that change the room                      *)
(***************************************************************************)

(* A page: the Limit lowest committed seqs after the cursor; the client    *)
(* asks for what follows its last one next.                                *)
Page(r) ==
  {i \in DOMAIN messages :
     /\ i > cursor[r]
     /\ Cardinality({j \in DOMAIN messages : cursor[r] < j /\ j < i}) < Limit}

List(r) ==
  /\ status # "deleted" /\ Page(r) # {}
  /\ got' = [got EXCEPT ![r] = @ \cup Page(r)]
  /\ \E last \in Page(r) :
       /\ \A i \in Page(r) : i <= last
       /\ cursor' = [cursor EXCEPT ![r] = last]
  /\ UNCHANGED <<room, table, sender>>

(* room.archive: an UPDATE waits for a sender's lock on the row.           *)
Archive ==
  /\ status = "active" /\ lock = NoOne
  /\ status' = "archived"
  /\ UNCHANGED <<epoch, published, table, sender, reader>>

(* room.delete, channel.delete: the row and, by cascade, its messages and  *)
(* epochs.                                                                 *)
Delete ==
  /\ status # "deleted" /\ lock = NoOne
  /\ status' = "deleted"
  /\ lastSeq' = 0 /\ messages' = <<>> /\ published' = {}
  /\ UNCHANGED <<epoch, lock, sender, reader>>

(* channel.rotate on this room: a new epoch row and currentEpoch = it.     *)
(* Nothing orders the epoch the client chose after the current one.        *)
Rotate(e) ==
  /\ status = "active" /\ lock = NoOne
  /\ e \notin published
  /\ published' = published \cup {e} /\ epoch' = e
  /\ UNCHANGED <<status, table, sender, reader>>

-----------------------------------------------------------------------------
Send(s) ==
  \/ \E k \in Keys \cup {NoKey}, e \in Epochs : CheckRoom(s, k, e)
  \/ FindByKey(s) \/ LockRoom(s) \/ InsertMessage(s) \/ Commit(s) \/ Abort(s)

Next ==
  \/ \E s \in Senders : Send(s)
  \/ \E r \in Readers : List(r)
  \/ Archive \/ Delete
  \/ \E e \in Epochs : Rotate(e)

Spec == Init /\ [][Next]_vars

(* A statement that can run is run; Postgres queues the waiters of a row   *)
(* lock, so a waiter is not overtaken for ever.                            *)
Fairness ==
  \A s \in Senders :
    /\ WF_vars(FindByKey(s)) /\ WF_vars(InsertMessage(s)) /\ WF_vars(Commit(s))
    /\ SF_vars(LockRoom(s))

FairSpec == Spec /\ Fairness

-----------------------------------------------------------------------------
(* The variables have their types.                                         *)
TypeOK ==
  /\ status \in {"active", "archived", "deleted"}
  /\ epoch \in Epochs /\ published \subseteq Epochs
  /\ lastSeq \in Nat
  /\ DOMAIN messages \subseteq Nat /\ messages \in [DOMAIN messages -> Row]
  /\ lock \in Senders \cup {NoOne}
  /\ pc \in [Senders -> Phase]
  /\ call \in [Senders -> [key : Keys \cup {NoKey}, epoch : Epochs, call : 0..MaxCalls]]
  /\ seq \in [Senders -> Nat]
  /\ outcome \in [Senders -> Outcome]
  /\ calls \in 0..MaxCalls
  /\ cursor \in [Readers -> Nat]
  /\ got \in [Readers -> SUBSET Nat]

(* The committed messages are numbered 1..lastSeq, without a gap, whatever *)
(* the senders' transactions do: aborts, collisions and crashes use up no  *)
(* seq (the doc comment of send: "seq = lastSeq + 1, message insert and    *)
(* room counters commit atomically").                                      *)
GapFree == DOMAIN messages = 1..lastSeq

(* No two messages of the room carry the same idempotency key, however     *)
(* calls and retries after a lost reply interleave.                        *)
OneMessagePerKey ==
  \A i, j \in DOMAIN messages :
    messages[i].key = messages[j].key /\ messages[i].key # NoKey => i = j

(* What a caller was told is true while the room exists: "stored" is its   *)
(* own message at the seq returned, "replayed" a message under its own     *)
(* idempotency key (never another caller's unkeyed message), and any       *)
(* refusal means this call stored nothing.                                 *)
AnswersAreTrue ==
  \A s \in Senders : status # "deleted" /\ pc[s] = "idle" =>
    /\ outcome[s] = "stored" =>
         seq[s] \in DOMAIN messages /\ messages[seq[s]] = call[s]
    /\ outcome[s] = "replayed" =>
         /\ seq[s] \in DOMAIN messages
         /\ messages[seq[s]].key = call[s].key /\ call[s].key # NoKey
    /\ outcome[s] \notin {"stored", "unknown"} =>
         \A i \in DOMAIN messages : messages[i].call # call[s].call

(* The row lock makes seq allocation collision-free: a send fails on a     *)
(* unique index only when a message under its own idempotency key was      *)
(* committed between its lookup and its insert.                            *)
OnlyKeysCollide ==
  \A s \in Senders : outcome[s] = "unique_violation" /\ status # "deleted" =>
    call[s].key # NoKey /\ StoredUnder(call[s].key) # {}

(* A client that pages with afterSeq = the last seq it saw misses nothing: *)
(* no transaction commits a message at a seq some reader has passed.       *)
ReadersMissNothing ==
  status # "deleted" =>
    \A r \in Readers : {i \in DOMAIN messages : i <= cursor[r]} = got[r]

(* Every stored message is encrypted under an epoch whose wrapped key the  *)
(* room has published, though the epoch is compared outside the            *)
(* transaction and rotations land in between.                              *)
EpochPublished ==
  \A i \in DOMAIN messages : messages[i].epoch \in published

(* Every send ends: a lock holder finishes and gives the row to the next.  *)
SendsEnd == \A s \in Senders : pc[s] # "idle" ~> pc[s] = "idle"

(* The doc comment of send: "same (roomId, idempotencyKey) returns the     *)
(* already-stored message instead of writing a duplicate".  A caller whose *)
(* key was stored by a concurrent call gets a database error instead.      *)
SameKeyIsReplayed == \A s \in Senders : outcome[s] # "unique_violation"

(* The transactions implement the atomic append-only log.                  *)
Log == INSTANCE SeqLog WITH
  Callers <- Senders, Entry <- Row, log <- messages,
  answer <- [s \in Senders |->
               IF outcome[s] \in {"stored", "replayed"} THEN seq[s] ELSE 0]

LogSpec == Log!Spec
=============================================================================

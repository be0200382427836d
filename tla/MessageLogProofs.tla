-------------------------- MODULE MessageLogProofs --------------------------
(***************************************************************************)
(* Proofs about MessageLog for any number of senders, readers, keys,       *)
(* epochs and calls.  One inductive invariant, IInv, carries them all: a   *)
(* sender past its lock holds the row, so the seq it was given stays       *)
(* lastSeq + 1 until it commits and no other insert can be under way.      *)
(***************************************************************************)
EXTENDS MessageLog, FiniteSetTheorems, SequenceTheorems, TLAPS

(* A call in progress has a call number and no outcome yet, and was        *)
(* admitted under an epoch the room had published.                         *)
CallInv ==
  \A s \in Senders : pc[s] # "idle" =>
    /\ call[s].call \in 1..MaxCalls
    /\ outcome[s] = "none"
    /\ status # "deleted" => call[s].epoch \in published

(* Who holds the room row, and what that protects.                         *)
LockInv ==
  /\ lock # NoOne => status # "deleted" /\ pc[lock] \in {"insert", "commit"}
  /\ \A s \in Senders : pc[s] = "commit" => lock = s
  /\ \A s \in Senders : pc[s] = "insert" => lock = s \/ status = "deleted"
  /\ \A s \in Senders : lock = s => seq[s] = lastSeq + 1

(* A row inserted but not committed collides with no committed row.        *)
PendingInv ==
  \A s \in Senders : pc[s] = "commit" =>
    call[s].key = NoKey \/ \A i \in DOMAIN messages : messages[i].key # call[s].key

(* A deleted room has lost its rows.                                       *)
DeletedInv == status = "deleted" => lastSeq = 0 /\ messages = <<>>

IInv ==
  /\ TypeOK /\ CallInv /\ LockInv /\ PendingInv /\ DeletedInv
  /\ GapFree /\ OneMessagePerKey /\ OnlyKeysCollide /\ EpochPublished
  /\ epoch \in published \/ status = "deleted"

USE SendersAssumption, KeysAssumption, MaxEpochAssumption, MaxCallsAssumption,
    LimitAssumption

(* The inductive invariant holds at first.                                 *)
LEMMA InitIInv == Init => IInv
<1> SUFFICES ASSUME Init PROVE IInv
  OBVIOUS
<1> USE DEF Init, Epochs
<1>1. TypeOK
  BY DEF TypeOK, Row, Phase, Outcome
<1>2. CallInv /\ LockInv /\ PendingInv /\ DeletedInv
  BY DEF CallInv, LockInv, PendingInv, DeletedInv
<1>3. GapFree /\ OneMessagePerKey /\ OnlyKeysCollide /\ EpochPublished
  BY DEF GapFree, OneMessagePerKey, OnlyKeysCollide, EpochPublished
<1>4. QED
  BY <1>1, <1>2, <1>3 DEF IInv

-----------------------------------------------------------------------------
(* End changes pc, outcome and lock of one sender, inside their types.     *)
LEMMA EndType ==
  ASSUME TypeOK, NEW s \in Senders, NEW o \in Outcome, End(s, o)
  PROVE  /\ pc' \in [Senders -> Phase] /\ outcome' \in [Senders -> Outcome]
         /\ lock' \in Senders \cup {NoOne}
BY DEF TypeOK, End, Goto, Phase

(* Every step keeps the types.                                             *)
LEMMA TypeStep ==
  ASSUME TypeOK, CallInv, [Next]_vars
  PROVE  TypeOK'
<1> USE DEF room, table, sender, reader
<1>1. ASSUME NEW s \in Senders, NEW k \in Keys \cup {NoKey}, NEW e \in Epochs,
             CheckRoom(s, k, e)
      PROVE  TypeOK'
  <2>1. Refusal(e) \in Outcome
    BY DEF Refusal, Outcome, TypeOK
  <2>2. calls' \in 0..MaxCalls
    BY <1>1 DEF CheckRoom, TypeOK
  <2>3. call' \in [Senders -> [key : Keys \cup {NoKey}, epoch : Epochs, call : 0..MaxCalls]]
    BY <1>1, <2>2 DEF CheckRoom, TypeOK
  <2>4. pc' \in [Senders -> Phase] /\ outcome' \in [Senders -> Outcome]
        /\ seq' \in [Senders -> Nat]
    BY <1>1, <2>1 DEF CheckRoom, TypeOK, Goto, Phase
  <2>5. QED
    BY <1>1, <2>2, <2>3, <2>4 DEF CheckRoom, TypeOK
<1>2. ASSUME NEW s \in Senders, FindByKey(s) PROVE TypeOK'
  <2>1. CASE \E i \in StoredUnder(call[s].key) :
               seq' = [seq EXCEPT ![s] = i] /\ End(s, "replayed")
    <3>1. seq' \in [Senders -> Nat]
      BY <2>1 DEF TypeOK, StoredUnder
    <3>2. "replayed" \in Outcome /\ End(s, "replayed")
      BY <2>1 DEF Outcome
    <3>3. QED
      BY <1>2, <3>1, <3>2, EndType DEF FindByKey, TypeOK
  <2>2. CASE Goto(s, "lock") /\ UNCHANGED <<seq, outcome, lock>>
    BY <1>2, <2>2 DEF FindByKey, TypeOK, Goto, Phase
  <2>3. QED
    BY <1>2, <2>1, <2>2 DEF FindByKey
<1>3. ASSUME NEW s \in Senders, LockRoom(s) PROVE TypeOK'
  BY <1>3 DEF LockRoom, TypeOK, Goto, Phase
<1>4. ASSUME NEW s \in Senders, InsertMessage(s) PROVE TypeOK'
  <2>1. CASE \E o \in {"foreign_key_violation", "unique_violation"} : End(s, o)
    BY <1>4, <2>1, EndType DEF InsertMessage, TypeOK, Outcome
  <2>2. CASE Goto(s, "commit") /\ UNCHANGED <<outcome, lock>>
    BY <1>4, <2>2 DEF InsertMessage, TypeOK, Goto, Phase
  <2>3. QED
    BY <1>4, <2>1, <2>2 DEF InsertMessage
<1>5. ASSUME NEW s \in Senders, Commit(s) PROVE TypeOK'
  <2>1. call[s] \in Row
    BY <1>5 DEF Commit, CallInv, TypeOK, Row
  <2>2. DOMAIN messages' \subseteq Nat /\ messages' \in [DOMAIN messages' -> Row]
    BY <1>5, <2>1 DEF Commit, TypeOK
  <2>3. PICK o \in {"stored", "unknown"} : End(s, o)
    BY <1>5 DEF Commit
  <2>4. o \in Outcome
    BY DEF Outcome
  <2>5. QED
    BY <1>5, <2>2, <2>3, <2>4, EndType DEF Commit, TypeOK
<1>6. ASSUME NEW s \in Senders, Abort(s) PROVE TypeOK'
  <2>1. "unknown" \in Outcome /\ End(s, "unknown")
    BY <1>6 DEF Abort, Outcome
  <2>2. QED
    BY <1>6, <2>1, EndType DEF Abort, TypeOK
<1>7. ASSUME NEW r \in Readers, List(r) PROVE TypeOK'
  <2>1. Page(r) \subseteq Nat
    BY DEF Page, TypeOK
  <2>2. cursor' \in [Readers -> Nat] /\ got' \in [Readers -> SUBSET Nat]
    BY <1>7, <2>1 DEF List, TypeOK
  <2>3. QED
    BY <1>7, <2>2 DEF List, TypeOK
<1>8. CASE Archive
  BY <1>8 DEF Archive, TypeOK
<1>9. CASE Delete
  BY <1>9 DEF Delete, TypeOK
<1>10. ASSUME NEW e \in Epochs, Rotate(e) PROVE TypeOK'
  BY <1>10 DEF Rotate, TypeOK
<1>11. CASE UNCHANGED vars
  BY <1>11 DEF vars, TypeOK
<1>12. QED
  BY <1>1, <1>2, <1>3, <1>4, <1>5, <1>6, <1>7, <1>8, <1>9, <1>10, <1>11
  DEF Next, Send

-----------------------------------------------------------------------------
(* What the invariant says beyond the types.                               *)
Rest ==
  /\ CallInv /\ LockInv /\ PendingInv /\ DeletedInv
  /\ GapFree /\ OneMessagePerKey /\ OnlyKeysCollide /\ EpochPublished
  /\ epoch \in published \/ status = "deleted"

(* Ending a request, the tables left alone, disturbs nothing: the row lock *)
(* goes only if this sender held it.  A request may claim a collision only *)
(* when its key is stored.                                                 *)
LEMMA EndStep ==
  ASSUME IInv, TypeOK', NEW s \in Senders, NEW o \in Outcome, End(s, o),
         pc[s] # "idle", UNCHANGED <<room, lastSeq, messages, call, calls>>,
         seq' = seq \/ \E i \in Nat : seq' = [seq EXCEPT ![s] = i] /\ pc[s] = "find",
         o = "unique_violation" => call[s].key # NoKey /\ StoredUnder(call[s].key) # {}
  PROVE  Rest'
<1> USE DEF room, IInv
<1>1. pc' = [pc EXCEPT ![s] = "idle"] /\ outcome' = [outcome EXCEPT ![s] = o]
      /\ lock' = IF lock = s THEN NoOne ELSE lock
  BY DEF End, Goto
<1>2. CallInv'
  BY <1>1 DEF CallInv, TypeOK
<1>3. LockInv'
  <2>1. \A t \in Senders : lock' = t => lock = t /\ t # s /\ seq'[t] = seq[t]
    BY <1>1 DEF TypeOK
  <2>2. \A t \in Senders : pc'[t] # "idle" => t # s /\ pc'[t] = pc[t]
    BY <1>1 DEF TypeOK
  <2>3. lock' # NoOne => lock' = lock /\ lock # s /\ lock \in Senders
    BY <1>1 DEF TypeOK
  <2>4. lock' # NoOne => pc'[lock'] = pc[lock]
    BY <1>1, <2>3 DEF TypeOK
  <2>5. \A t \in Senders : t # s /\ lock = t => lock' = t
    BY <1>1
  <2>6. QED
    BY <2>1, <2>2, <2>3, <2>4, <2>5 DEF LockInv
<1>4. PendingInv'
  BY <1>1 DEF PendingInv, TypeOK
<1>5. DeletedInv' /\ GapFree' /\ OneMessagePerKey' /\ EpochPublished'
      /\ (epoch \in published \/ status = "deleted")'
  BY DEF DeletedInv, GapFree, OneMessagePerKey, EpochPublished
<1>6. OnlyKeysCollide'
  BY <1>1 DEF OnlyKeysCollide, StoredUnder, TypeOK
<1>7. QED
  BY <1>2, <1>3, <1>4, <1>5, <1>6 DEF Rest

(* Each action of a send keeps it: the check of the room,                  *)
LEMMA CheckRoomStep ==
  ASSUME IInv, TypeOK', NEW s \in Senders, NEW k \in Keys \cup {NoKey},
         NEW e \in Epochs, CheckRoom(s, k, e)
  PROVE  Rest'
<1> USE DEF IInv, room, table, reader
<1>1. /\ pc[s] = "idle" /\ calls < MaxCalls
      /\ call' = [call EXCEPT ![s] = [key |-> k, epoch |-> e, call |-> calls + 1]]
      /\ seq' = [seq EXCEPT ![s] = 0]
      /\ outcome' = [outcome EXCEPT ![s] = Refusal(e)]
      /\ pc' = [pc EXCEPT ![s] = IF Refusal(e) = "none" THEN "find" ELSE "idle"]
      /\ UNCHANGED <<room, table>>
  BY DEF CheckRoom, Goto
<1>2. lock # s
  BY <1>1 DEF LockInv
<1>3. Refusal(e) = "none" => status # "deleted" /\ e = epoch
  BY DEF Refusal
<1>4. Refusal(e) # "unique_violation"
  BY DEF Refusal, TypeOK
<1>5. \A t \in Senders : t # s => pc'[t] = pc[t] /\ call'[t] = call[t] /\ seq'[t] = seq[t]
                                  /\ outcome'[t] = outcome[t]
  BY <1>1 DEF TypeOK
<1>6. /\ pc'[s] \in {"find", "idle"} /\ (pc'[s] = "find" => Refusal(e) = "none")
      /\ call'[s] = [key |-> k, epoch |-> e, call |-> calls + 1]
      /\ outcome'[s] = Refusal(e)
  BY <1>1 DEF TypeOK
<1>7. CallInv'
  <2>1. calls + 1 \in 1..MaxCalls
    BY <1>1 DEF TypeOK
  <2>2. QED
    BY <1>1, <1>3, <1>5, <1>6, <2>1 DEF CallInv, TypeOK
<1>8. LockInv'
  BY <1>1, <1>2, <1>5, <1>6 DEF LockInv, TypeOK
<1>9. PendingInv'
  BY <1>1, <1>5, <1>6 DEF PendingInv
<1>10. DeletedInv' /\ GapFree' /\ OneMessagePerKey' /\ EpochPublished'
       /\ (epoch \in published \/ status = "deleted")'
  BY <1>1 DEF DeletedInv, GapFree, OneMessagePerKey, EpochPublished
<1>11. OnlyKeysCollide'
  BY <1>1, <1>4, <1>5, <1>6 DEF OnlyKeysCollide, StoredUnder
<1>12. QED
  BY <1>7, <1>8, <1>9, <1>10, <1>11 DEF Rest

(* the lookup of the idempotency key,                                      *)
LEMMA FindByKeyStep ==
  ASSUME IInv, TypeOK', NEW s \in Senders, FindByKey(s)
  PROVE  Rest'
<1> USE DEF room, reader
<1>1. pc[s] = "find" /\ UNCHANGED <<room, lastSeq, messages, call, calls>>
  BY DEF FindByKey
<1>2. ASSUME NEW i \in StoredUnder(call[s].key),
             seq' = [seq EXCEPT ![s] = i], End(s, "replayed")
      PROVE  Rest'
  <2>1. "replayed" \in Outcome /\ i \in Nat
    BY DEF Outcome, StoredUnder, IInv, TypeOK
  <2>2. QED
    BY <1>1, <1>2, <2>1, EndStep
<1>3. CASE Goto(s, "lock") /\ UNCHANGED <<seq, outcome, lock>>
  <2> USE <1>1, <1>3 DEF IInv, Goto
  <2>1. CallInv'
    BY DEF CallInv, TypeOK
  <2>2. LockInv'
    BY DEF LockInv, TypeOK
  <2>3. PendingInv'
    BY DEF PendingInv, TypeOK
  <2>4. QED
    BY <2>1, <2>2, <2>3 DEF Rest, DeletedInv, GapFree, OneMessagePerKey,
       OnlyKeysCollide, StoredUnder, EpochPublished
<1>4. QED
  BY <1>2, <1>3 DEF FindByKey

(* the lock on the room's row,                                             *)
LEMMA LockRoomStep ==
  ASSUME IInv, TypeOK', NEW s \in Senders, LockRoom(s)
  PROVE  Rest'
<1> USE DEF room, reader, IInv
<1>1. /\ pc[s] = "lock" /\ lock = NoOne
      /\ pc' = [pc EXCEPT ![s] = "insert"]
      /\ lock' = IF status = "deleted" THEN NoOne ELSE s
      /\ seq' = [seq EXCEPT ![s] = IF status = "deleted" THEN 1 ELSE lastSeq + 1]
      /\ UNCHANGED <<room, lastSeq, messages, call, outcome>>
  BY DEF LockRoom, Goto
<1>2. CallInv'
  BY <1>1 DEF CallInv, TypeOK
<1>3. LockInv'
  BY <1>1 DEF LockInv, TypeOK
<1>4. PendingInv'
  BY <1>1 DEF PendingInv, TypeOK
<1>5. QED
  BY <1>1, <1>2, <1>3, <1>4 DEF Rest, DeletedInv, GapFree, OneMessagePerKey,
     OnlyKeysCollide, StoredUnder, EpochPublished

(* the insert,                                                             *)
LEMMA InsertMessageStep ==
  ASSUME IInv, TypeOK', NEW s \in Senders, InsertMessage(s)
  PROVE  Rest'
<1> USE DEF room, reader
<1>1. pc[s] = "insert" /\ UNCHANGED <<room, lastSeq, messages, call, seq, calls>>
  BY DEF InsertMessage
<1>2. CASE status = "deleted" /\ End(s, "foreign_key_violation")
  <2>1. "foreign_key_violation" \in Outcome
    BY DEF Outcome
  <2>2. QED
    BY <1>1, <1>2, <2>1, EndStep
<1>3. CASE status # "deleted" /\ Collides(s) /\ End(s, "unique_violation")
  <2>1. seq[s] \notin DOMAIN messages
    BY <1>1, <1>3 DEF IInv, LockInv, GapFree, TypeOK
  <2>2. "unique_violation" \in Outcome
        /\ call[s].key # NoKey /\ StoredUnder(call[s].key) # {}
    BY <1>3, <2>1 DEF Collides, Outcome
  <2>3. QED
    BY <1>1, <1>3, <2>2, EndStep
<1>4. CASE status # "deleted" /\ ~Collides(s) /\ Goto(s, "commit")
           /\ UNCHANGED <<outcome, lock>>
  <2> USE <1>1, <1>4 DEF IInv, Goto
  <2>1. CallInv'
    BY DEF CallInv, TypeOK
  <2>2. LockInv'
    BY DEF LockInv, TypeOK
  <2>3. PendingInv'
    BY DEF PendingInv, TypeOK, Collides, StoredUnder
  <2>4. QED
    BY <2>1, <2>2, <2>3 DEF Rest, DeletedInv, GapFree, OneMessagePerKey,
       OnlyKeysCollide, StoredUnder, EpochPublished
<1>5. QED
  BY <1>2, <1>3, <1>4 DEF InsertMessage

(* What a commit does: one row more, at lastSeq + 1.                       *)
LEMMA CommitEffect ==
  ASSUME IInv, NEW s \in Senders, Commit(s)
  PROVE  /\ lock = s /\ status # "deleted" /\ seq[s] = lastSeq + 1
         /\ DOMAIN messages = 1..lastSeq /\ DOMAIN messages' = 1..(lastSeq + 1)
         /\ lastSeq' = lastSeq + 1
         /\ messages'[lastSeq + 1] = call[s]
         /\ \A i \in 1..lastSeq : messages'[i] = messages[i]
         /\ lock' = NoOne /\ pc' = [pc EXCEPT ![s] = "idle"]
         /\ \E o \in {"stored", "unknown"} : outcome' = [outcome EXCEPT ![s] = o]
         /\ UNCHANGED <<status, epoch, published, call, seq, calls, cursor, got>>
<1>1. lock = s /\ status # "deleted" /\ seq[s] = lastSeq + 1
  BY DEF Commit, IInv, LockInv
<1>2. DOMAIN messages = 1..lastSeq /\ lastSeq \in Nat
  BY DEF IInv, GapFree, TypeOK
<1>3. messages' = [i \in 1..(lastSeq + 1) |->
                     IF i = lastSeq + 1 THEN call[s] ELSE messages[i]]
  <2>1. DOMAIN messages \cup {seq[s]} = 1..(lastSeq + 1)
    BY <1>1, <1>2
  <2>2. QED
    BY <1>1, <2>1 DEF Commit
<1>4. lastSeq' = lastSeq + 1
  BY <1>1 DEF Commit
<1>5. PICK o \in {"stored", "unknown"} : End(s, o)
  BY DEF Commit
<1>6. lock' = NoOne /\ pc' = [pc EXCEPT ![s] = "idle"]
      /\ outcome' = [outcome EXCEPT ![s] = o]
  BY <1>1, <1>5 DEF End, Goto
<1>7. UNCHANGED <<status, epoch, published, call, seq, calls, cursor, got>>
  BY DEF Commit, room, reader
<1>8. /\ DOMAIN messages' = 1..(lastSeq + 1)
      /\ messages'[lastSeq + 1] = call[s]
      /\ \A i \in 1..lastSeq : messages'[i] = messages[i]
  BY <1>2, <1>3
<1>9. QED
  BY <1>1, <1>2, <1>4, <1>6, <1>7, <1>8

(* the commit,                                                             *)
LEMMA CommitStep ==
  ASSUME IInv, TypeOK', NEW s \in Senders, Commit(s)
  PROVE  Rest'
<1> USE DEF IInv
<1>1. /\ lock = s /\ status # "deleted" /\ seq[s] = lastSeq + 1
      /\ DOMAIN messages = 1..lastSeq /\ DOMAIN messages' = 1..(lastSeq + 1)
      /\ lastSeq' = lastSeq + 1
      /\ messages'[lastSeq + 1] = call[s]
      /\ \A i \in 1..lastSeq : messages'[i] = messages[i]
      /\ lock' = NoOne /\ pc' = [pc EXCEPT ![s] = "idle"]
      /\ UNCHANGED <<status, epoch, published, call, seq, calls>>
  BY CommitEffect
<1>2. lastSeq \in Nat /\ pc[s] = "commit"
  BY DEF TypeOK, Commit
<1>3. \A t \in Senders : pc'[t] # "idle" => t # s /\ pc'[t] = pc[t]
  BY <1>1 DEF TypeOK
<1>4. \A t \in Senders : pc'[t] \notin {"insert", "commit"}
  BY <1>1, <1>3 DEF LockInv
<1>5. CallInv'
  <2>1. PICK o \in {"stored", "unknown"} : outcome' = [outcome EXCEPT ![s] = o]
    BY CommitEffect
  <2>2. QED
    BY <1>1, <1>3, <2>1 DEF CallInv, TypeOK
<1>6. LockInv'
  BY <1>1, <1>4 DEF LockInv, TypeOK
<1>7. PendingInv' /\ DeletedInv' /\ GapFree'
  BY <1>1, <1>4 DEF PendingInv, DeletedInv, GapFree
<1>8. OneMessagePerKey'
  <2>1. call[s].key = NoKey \/ \A i \in 1..lastSeq : messages[i].key # call[s].key
    BY <1>1, <1>2 DEF PendingInv
  <2>2. \A i \in 1..(lastSeq + 1) : i \in 1..lastSeq \/ i = lastSeq + 1
    BY <1>2
  <2>3. QED
    BY <1>1, <2>1, <2>2 DEF OneMessagePerKey
<1>9. OnlyKeysCollide'
  <2>1. \A k : StoredUnder(k) # {} => StoredUnder(k)' # {}
    <3>1. \A i \in DOMAIN messages : i \in DOMAIN messages' /\ messages'[i] = messages[i]
      BY <1>1, <1>2
    <3>2. QED
      BY <3>1 DEF StoredUnder
  <2>2. \A t \in Senders : outcome'[t] = "unique_violation" => outcome[t] = "unique_violation"
    <3>1. PICK o \in {"stored", "unknown"} : outcome' = [outcome EXCEPT ![s] = o]
      BY CommitEffect
    <3>2. QED
      BY <3>1 DEF TypeOK
  <2>3. QED
    BY <1>1, <2>1, <2>2 DEF OnlyKeysCollide
<1>10. EpochPublished'
  <2>1. call[s].epoch \in published
    BY <1>1, <1>2 DEF CallInv
  <2>2. \A i \in 1..(lastSeq + 1) : i \in 1..lastSeq \/ i = lastSeq + 1
    BY <1>2
  <2>3. QED
    BY <1>1, <2>1, <2>2 DEF EpochPublished
<1>11. QED
  BY <1>1, <1>5, <1>6, <1>7, <1>8, <1>9, <1>10 DEF Rest

(* A step that leaves the senders and the tables alone, and only adds to   *)
(* the epochs of a room that is not deleted, keeps the invariant.          *)
LEMMA RoomStep ==
  ASSUME IInv, TypeOK', UNCHANGED <<lastSeq, messages, lock, pc, call, seq, outcome, calls>>,
         published \subseteq published',
         status' # "deleted" \/ status' = status, status = "deleted" => status' = status,
         epoch' \in published' \/ status' = "deleted"
  PROVE  Rest'
<1> USE DEF IInv
<1>1. CallInv'
  BY DEF CallInv
<1>2. LockInv'
  BY DEF LockInv
<1>3. PendingInv' /\ DeletedInv' /\ GapFree' /\ OneMessagePerKey'
  BY DEF PendingInv, DeletedInv, GapFree, OneMessagePerKey
<1>4. OnlyKeysCollide' /\ EpochPublished'
  BY DEF OnlyKeysCollide, StoredUnder, EpochPublished
<1>5. QED
  BY <1>1, <1>2, <1>3, <1>4 DEF Rest

(* and the deletion of the room.                                           *)
LEMMA DeleteStep ==
  ASSUME IInv, TypeOK', Delete
  PROVE  Rest'
<1> USE DEF IInv, Delete, sender
<1>1. CallInv' /\ LockInv'
  BY DEF CallInv, LockInv
<1>2. PendingInv' /\ DeletedInv'
  BY DEF PendingInv, DeletedInv
<1>3. GapFree' /\ OneMessagePerKey' /\ OnlyKeysCollide' /\ EpochPublished'
  BY DEF GapFree, OneMessagePerKey, OnlyKeysCollide, EpochPublished
<1>4. QED
  BY <1>1, <1>2, <1>3 DEF Rest

(* The invariant is inductive.                                             *)
LEMMA NextIInv == IInv /\ [Next]_vars => IInv'
<1> SUFFICES ASSUME IInv, [Next]_vars PROVE IInv'
  OBVIOUS
<1>1. TypeOK'
  BY TypeStep DEF IInv
<1>2. Rest'
  <2>1. ASSUME NEW s \in Senders, Send(s) PROVE Rest'
    <3>1. ASSUME NEW k \in Keys \cup {NoKey}, NEW e \in Epochs, CheckRoom(s, k, e)
          PROVE  Rest'
      BY <1>1, <3>1, CheckRoomStep
    <3>2. CASE FindByKey(s) \/ LockRoom(s) \/ InsertMessage(s) \/ Commit(s)
      BY <1>1, <3>2, FindByKeyStep, LockRoomStep, InsertMessageStep, CommitStep
    <3>3. CASE Abort(s)
      <4>1. "unknown" \in Outcome /\ End(s, "unknown") /\ pc[s] # "idle"
            /\ UNCHANGED <<room, lastSeq, messages, call, seq, calls>>
        BY <3>3 DEF Abort, Outcome
      <4>2. QED
        BY <1>1, <4>1, EndStep
    <3>4. QED
      BY <2>1, <3>1, <3>2, <3>3 DEF Send
  <2>2. ASSUME NEW r \in Readers, List(r) PROVE Rest'
    BY <1>1, <2>2, RoomStep DEF List, IInv, room, table, sender
  <2>3. CASE Archive
    BY <1>1, <2>3, RoomStep DEF Archive, IInv, table, sender
  <2>4. CASE Delete
    BY <1>1, <2>4, DeleteStep
  <2>5. ASSUME NEW e \in Epochs, Rotate(e) PROVE Rest'
    BY <1>1, <2>5, RoomStep DEF Rotate, IInv, table, sender
  <2>6. CASE UNCHANGED vars
    BY <1>1, <2>6, RoomStep DEF vars, IInv, room, table, sender
  <2>7. QED
    BY <2>1, <2>2, <2>3, <2>4, <2>5, <2>6 DEF Next
<1>3. QED
  BY <1>1, <1>2 DEF IInv, Rest

(* The inductive invariant holds in every reachable state.                 *)
THEOREM Invariance == Spec => []IInv
BY InitIInv, NextIInv, PTL DEF Spec

-----------------------------------------------------------------------------
(* The variables keep their types.                                         *)
THEOREM TypeCorrect == Spec => []TypeOK
<1>1. IInv => TypeOK
  BY DEF IInv
<1>2. QED
  BY <1>1, Invariance, PTL

(* The committed messages are always numbered 1..lastSeq.                  *)
THEOREM SeqsAreGapFree == Spec => []GapFree
<1>1. IInv => GapFree
  BY DEF IInv
<1>2. QED
  BY <1>1, Invariance, PTL

(* No idempotency key is ever used by two messages.                        *)
THEOREM KeysAreUsedOnce == Spec => []OneMessagePerKey
<1>1. IInv => OneMessagePerKey
  BY DEF IInv
<1>2. QED
  BY <1>1, Invariance, PTL

(* A send fails on a unique index only when its own key has been stored.   *)
THEOREM CollisionsAreKeyRaces == Spec => []OnlyKeysCollide
<1>1. IInv => OnlyKeysCollide
  BY DEF IInv
<1>2. QED
  BY <1>1, Invariance, PTL

(* Every stored message is under an epoch with a published key.            *)
THEOREM EpochsArePublished == Spec => []EpochPublished
<1>1. IInv => EpochPublished
  BY DEF IInv
<1>2. QED
  BY <1>1, Invariance, PTL

-----------------------------------------------------------------------------
(***************************************************************************)
(* MessageLog implements SeqLog: the commit of an insert is the abstract   *)
(* append, the lookup that finds a message the abstract replay, the start  *)
(* of a call (or its refusal) the abstract forget, and every other         *)
(* statement is invisible.                                                 *)
(***************************************************************************)

(* The abstract answer of sender s.                                        *)
Answer(s) == IF outcome[s] \in {"stored", "replayed"} THEN seq[s] ELSE 0

(* The empty room is the empty log.                                        *)
LEMMA InitRefines == Init => Log!Init
BY DEF Init, Log!Init

(* A statement that keeps the messages and all answers is a stutter.       *)
LEMMA StutterRefines ==
  ASSUME UNCHANGED messages, \A t \in Senders : Answer(t)' = Answer(t)
  PROVE  UNCHANGED Log!vars
BY DEF Log!vars, Answer

(* A send that ends without a commit is a stutter of the log.              *)
LEMMA EndRefines ==
  ASSUME IInv, NEW s \in Senders, NEW o, End(s, o), pc[s] # "idle",
         o \notin {"stored", "replayed"}, UNCHANGED <<messages, seq>>
  PROVE  UNCHANGED Log!vars
<1>1. outcome[s] = "none" /\ outcome' = [outcome EXCEPT ![s] = o]
  BY DEF IInv, CallInv, End
<1>2. \A t \in Senders : Answer(t)' = Answer(t)
  BY <1>1 DEF Answer, IInv, TypeOK
<1>3. QED
  BY <1>2, StutterRefines

(* A commit appends one message to the log.                                *)
LEMMA CommitRefines ==
  ASSUME IInv, NEW s \in Senders, Commit(s)
  PROVE  Log!Next
<1> USE DEF IInv
<1>1. /\ seq[s] = lastSeq + 1
      /\ DOMAIN messages = 1..lastSeq /\ DOMAIN messages' = 1..(lastSeq + 1)
      /\ messages'[lastSeq + 1] = call[s]
      /\ \A i \in 1..lastSeq : messages'[i] = messages[i]
      /\ UNCHANGED seq
  BY CommitEffect
<1>2. lastSeq \in Nat /\ pc[s] = "commit"
  BY DEF TypeOK, Commit
<1>3. call[s] \in Row
  BY <1>2 DEF CallInv, TypeOK, Row
<1>4. PICK e \in Row : e = call[s]
  BY <1>3
<1>5. Log!Fresh(e)
  BY <1>2, <1>4 DEF PendingInv, Log!Fresh
<1>6. messages \in Seq(Row) /\ Len(messages) = lastSeq
  <2>1. messages \in [1..lastSeq -> Row]
    BY <1>1 DEF TypeOK
  <2>2. QED
    BY <1>2, <2>1
<1>7. messages' = Append(messages, e)
  <2>1. messages' \in [1..(lastSeq + 1) -> Row]
    <3>1. \A i \in 1..(lastSeq + 1) : i \in 1..lastSeq \/ i = lastSeq + 1
      BY <1>2
    <3>2. messages' = [i \in DOMAIN messages' |-> messages'[i]]
      BY DEF Commit
    <3>3. QED
      BY <1>1, <1>3, <3>1, <3>2 DEF TypeOK
  <2>2. messages' \in Seq(Row) /\ Len(messages') = lastSeq + 1
    BY <1>2, <2>1
  <2>3. /\ Append(messages, e) \in Seq(Row) /\ Len(Append(messages, e)) = lastSeq + 1
        /\ \A i \in 1..lastSeq : Append(messages, e)[i] = messages[i]
        /\ Append(messages, e)[lastSeq + 1] = e
    BY <1>6, AppendProperties
  <2>4. \A i \in 1..(lastSeq + 1) : messages'[i] = Append(messages, e)[i]
    BY <1>1, <1>2, <1>4, <2>3
  <2>5. QED
    BY <2>2, <2>3, <2>4, SeqEqual
<1>8. [t \in Senders |-> Answer(t)']
        \in {[t \in Senders |-> Answer(t)],
             [[t \in Senders |-> Answer(t)] EXCEPT ![s] = Len(messages) + 1]}
  <2>1. PICK o \in {"stored", "unknown"} : outcome' = [outcome EXCEPT ![s] = o]
    BY CommitEffect
  <2>2. outcome[s] = "none"
    BY <1>2 DEF CallInv
  <2>3. \A t \in Senders : t # s => Answer(t)' = Answer(t)
    BY <1>1, <2>1 DEF Answer, TypeOK
  <2>4. Answer(s) = 0 /\ Answer(s)' = (IF o = "stored" THEN Len(messages) + 1 ELSE 0)
    BY <1>1, <1>6, <2>1, <2>2 DEF Answer, TypeOK
  <2>5. QED
    BY <2>3, <2>4
<1>9. Log!Store(s, e)
  BY <1>5, <1>7, <1>8 DEF Log!Store, Answer
<1>10. QED
  BY <1>9 DEF Log!Next

(* Every step of the room is a step or a stutter of the log.               *)
LEMMA NextRefines ==
  ASSUME IInv, [Next]_vars
  PROVE  [Log!Next]_(Log!vars)
<1> USE DEF room, table, sender, reader
<1>1. ASSUME NEW s \in Senders, NEW k \in Keys \cup {NoKey}, NEW e \in Epochs,
             CheckRoom(s, k, e)
      PROVE  Log!Next
  <2>1. Refusal(e) \notin {"stored", "replayed"}
    BY DEF Refusal
  <2>2. outcome' = [outcome EXCEPT ![s] = Refusal(e)] /\ seq' = [seq EXCEPT ![s] = 0]
        /\ UNCHANGED messages
    BY <1>1 DEF CheckRoom
  <2>3. \A t \in Senders : Answer(t)' = IF t = s THEN 0 ELSE Answer(t)
    BY <2>1, <2>2 DEF Answer, IInv, TypeOK
  <2>4. Log!Forget(s)
    BY <2>2, <2>3 DEF Log!Forget, Answer
  <2>5. QED
    BY <2>4 DEF Log!Next
<1>2. ASSUME NEW s \in Senders, FindByKey(s)
      PROVE  [Log!Next]_(Log!vars)
  <2>1. ASSUME call[s].key # NoKey, NEW i \in StoredUnder(call[s].key),
               seq' = [seq EXCEPT ![s] = i], End(s, "replayed")
        PROVE  Log!Next
    <3>1. outcome' = [outcome EXCEPT ![s] = "replayed"] /\ UNCHANGED messages
      BY <1>2, <2>1 DEF FindByKey, End
    <3>2. \A t \in Senders : Answer(t)' = IF t = s THEN i ELSE Answer(t)
      BY <2>1, <3>1 DEF Answer, IInv, TypeOK
    <3>3. i \in DOMAIN messages /\ messages[i].key # NoKey
      BY <2>1 DEF StoredUnder
    <3>4. Log!Replay(s, i)
      BY <3>1, <3>2, <3>3 DEF Log!Replay, Answer
    <3>5. QED
      BY <3>3, <3>4 DEF Log!Next
  <2>2. CASE UNCHANGED <<seq, outcome, lock>>
    BY <1>2, <2>2, StutterRefines DEF FindByKey, Answer
  <2>3. QED
    BY <1>2, <2>1, <2>2 DEF FindByKey
<1>3. ASSUME NEW s \in Senders, LockRoom(s)
      PROVE  UNCHANGED Log!vars
  <2>1. outcome[s] = "none" /\ UNCHANGED <<outcome, messages>>
        /\ \A t \in Senders : t # s => seq'[t] = seq[t]
    BY <1>3 DEF LockRoom, IInv, CallInv, TypeOK
  <2>2. \A t \in Senders : Answer(t)' = Answer(t)
    BY <2>1 DEF Answer
  <2>3. QED
    BY <2>1, <2>2, StutterRefines
<1>4. ASSUME NEW s \in Senders, InsertMessage(s) \/ Abort(s)
      PROVE  UNCHANGED Log!vars
  <2>1. UNCHANGED <<messages, seq>> /\ pc[s] # "idle"
    BY <1>4 DEF InsertMessage, Abort
  <2>2. CASE \E o \in {"foreign_key_violation", "unique_violation", "unknown"} : End(s, o)
    BY <2>1, <2>2, EndRefines
  <2>3. CASE UNCHANGED outcome
    BY <2>1, <2>3, StutterRefines DEF Answer
  <2>4. QED
    BY <1>4, <2>2, <2>3 DEF InsertMessage, Abort
<1>5. CASE Delete
  <2>1. UNCHANGED <<seq, outcome>> /\ messages' = <<>>
    BY <1>5 DEF Delete
  <2>2. Log!Clear
    BY <2>1 DEF Log!Clear
  <2>3. QED
    BY <2>2 DEF Log!Next
<1>6. CASE \/ \E r \in Readers : List(r)
           \/ Archive \/ \E e \in Epochs : Rotate(e)
           \/ UNCHANGED vars
  <2>1. UNCHANGED <<messages, seq, outcome>>
    BY <1>6 DEF List, Archive, Rotate, vars
  <2>2. QED
    BY <2>1, StutterRefines DEF Answer
<1>7. QED
  BY <1>1, <1>2, <1>3, <1>4, <1>5, <1>6, CommitRefines DEF Next, Send

(* message.send, statement by statement, implements the atomic             *)
(* append-only log: no interleaving shows a partial write, fills a seq     *)
(* late, or answers with another key's message.                            *)
THEOREM SendImplementsLog == Spec => LogSpec
<1>1. Init => Log!Init
  BY InitRefines
<1>2. IInv /\ [Next]_vars => [Log!Next]_(Log!vars)
  BY NextRefines
<1>3. QED
  BY <1>1, <1>2, Invariance, PTL DEF Spec, LogSpec, Log!Spec

-----------------------------------------------------------------------------
(***************************************************************************)
(* Readers.  A page is a stretch of the log that starts right after the    *)
(* cursor, so what a reader has is always the prefix up to its cursor.     *)
(***************************************************************************)
ReaderInv ==
  status # "deleted" =>
    \A r \in Readers : cursor[r] <= lastSeq /\ got[r] = 1..cursor[r]

(* A page begins right after the cursor.                                   *)
LEMMA PageIsPrefix ==
  ASSUME IInv, NEW r \in Readers, cursor[r] \in Nat,
         NEW last \in Page(r), \A i \in Page(r) : i <= last
  PROVE  Page(r) = (cursor[r] + 1)..last /\ last \in 1..lastSeq
<1> DEFINE Between(i) == {j \in DOMAIN messages : cursor[r] < j /\ j < i}
<1>1. DOMAIN messages = 1..lastSeq /\ lastSeq \in Nat
  BY DEF IInv, GapFree, TypeOK
<1>2. last \in 1..lastSeq /\ last > cursor[r] /\ Cardinality(Between(last)) < Limit
  BY <1>1 DEF Page
<1>3. ASSUME NEW i \in (cursor[r] + 1)..last
      PROVE  i \in Page(r)
  <2>1. i \in DOMAIN messages /\ i > cursor[r]
    BY <1>1, <1>2, <1>3
  <2>2. IsFiniteSet(Between(last))
    <3>1. IsFiniteSet(DOMAIN messages)
      BY <1>1, FS_Interval
    <3>2. QED
      BY <3>1, FS_Subset
  <2>3. Between(i) \subseteq Between(last)
    BY <1>1, <1>2, <1>3
  <2>4. Cardinality(Between(i)) <= Cardinality(Between(last))
        /\ Cardinality(Between(i)) \in Nat /\ Cardinality(Between(last)) \in Nat
    BY <2>2, <2>3, FS_Subset, FS_CardinalityType
  <2>5. Cardinality(Between(i)) < Limit
    BY <1>2, <2>4
  <2>6. QED
    BY <2>1, <2>5 DEF Page
<1>4. \A i \in Page(r) : i \in (cursor[r] + 1)..last
  BY <1>1, <1>2 DEF Page
<1>5. QED
  BY <1>2, <1>3, <1>4

(* No step makes a reader miss a message.                                  *)
LEMMA ReaderStep ==
  ASSUME IInv, ReaderInv, [Next]_vars
  PROVE  ReaderInv'
<1> USE DEF room, table, sender, reader
<1>0. IInv' /\ lastSeq \in Nat /\ cursor \in [Readers -> Nat] /\ got \in [Readers -> SUBSET Nat]
  BY NextIInv DEF IInv, TypeOK
<1>1. ASSUME NEW s \in Senders, Send(s) PROVE ReaderInv'
  <2>1. lastSeq' >= lastSeq
    <3>1. CASE Commit(s)
      BY <1>0, <3>1, CommitEffect
    <3>2. CASE UNCHANGED lastSeq
      BY <1>0, <3>2
    <3>3. QED
      BY <1>1, <3>1, <3>2
      DEF Send, CheckRoom, FindByKey, LockRoom, InsertMessage, Abort
  <2>2. UNCHANGED <<status, cursor, got>>
    BY <1>1 DEF Send, CheckRoom, FindByKey, LockRoom, InsertMessage, Commit, Abort
  <2>3. lastSeq' \in Nat
    BY <1>0 DEF IInv, TypeOK
  <2>4. QED
    BY <1>0, <2>1, <2>2, <2>3 DEF ReaderInv
<1>2. ASSUME NEW r \in Readers, List(r) PROVE ReaderInv'
  <2>1. PICK last \in Page(r) :
          (\A i \in Page(r) : i <= last) /\ cursor' = [cursor EXCEPT ![r] = last]
    BY <1>2 DEF List
  <2>2. Page(r) = (cursor[r] + 1)..last /\ last \in 1..lastSeq
    BY <1>0, <2>1, PageIsPrefix
  <2>3. got' = [got EXCEPT ![r] = @ \cup Page(r)] /\ UNCHANGED <<status, lastSeq>>
        /\ status # "deleted"
    BY <1>2 DEF List
  <2>4. got'[r] = 1..last
    <3>1. last > cursor[r]
      BY <2>1 DEF Page
    <3>2. got[r] = 1..cursor[r]
      BY <2>3 DEF ReaderInv
    <3>3. got'[r] = (1..cursor[r]) \cup ((cursor[r] + 1)..last)
      BY <1>0, <2>2, <2>3, <3>2
    <3>4. QED
      BY <1>0, <2>2, <3>1, <3>3
  <2>5. cursor'[r] = last /\ last <= lastSeq
    BY <1>0, <2>1, <2>2
  <2>6. \A q \in Readers : q # r => cursor'[q] = cursor[q] /\ got'[q] = got[q]
    BY <1>0, <2>1, <2>3
  <2>7. QED
    BY <2>3, <2>4, <2>5, <2>6 DEF ReaderInv
<1>3. CASE Delete
  BY <1>3 DEF Delete, ReaderInv
<1>4. CASE Archive \/ (\E e \in Epochs : Rotate(e)) \/ UNCHANGED vars
  BY <1>4 DEF Archive, Rotate, vars, ReaderInv
<1>5. QED
  BY <1>1, <1>2, <1>3, <1>4 DEF Next

(* A client that pages by afterSeq never misses a message: every message   *)
(* at or before its cursor has been given to it.                           *)
THEOREM NoReaderMisses == Spec => []ReadersMissNothing
<1>1. Init => ReaderInv
  BY DEF Init, ReaderInv
<1>2. IInv /\ ReaderInv /\ [Next]_vars => ReaderInv'
  BY ReaderStep
<1>3. IInv /\ ReaderInv => ReadersMissNothing
  BY DEF IInv, TypeOK, GapFree, ReaderInv, ReadersMissNothing
<1>4. QED
  BY <1>1, <1>2, <1>3, Invariance, PTL DEF Spec

-----------------------------------------------------------------------------
(***************************************************************************)
(* Answers.  Call numbers tell the calls apart, and a call stores at most  *)
(* one message: none before its commit.                                    *)
(***************************************************************************)
CallsInv ==
  /\ \A s \in Senders : call[s].call <= calls
  /\ \A s, t \in Senders : call[s].call = call[t].call /\ call[s].call # 0 => s = t
  /\ \A i \in DOMAIN messages : messages[i].call <= calls
  /\ \A s \in Senders : pc[s] # "idle" =>
       \A i \in DOMAIN messages : messages[i].call # call[s].call

AInv == CallsInv /\ AnswersAreTrue

(* No step makes an answer untrue.                                         *)
LEMMA AnswerStep ==
  ASSUME IInv, AInv, [Next]_vars
  PROVE  AInv'
<1> USE DEF room, table, sender, reader, IInv, AInv
<1>0. TypeOK'
  BY TypeStep
<1>1. ASSUME NEW s \in Senders, NEW k \in Keys \cup {NoKey}, NEW e \in Epochs,
             CheckRoom(s, k, e)
      PROVE  AInv'
  <2>1. /\ calls' = calls + 1 /\ calls \in Nat
        /\ call'[s].call = calls + 1 /\ outcome'[s] = Refusal(e)
        /\ \A t \in Senders : t # s => call'[t] = call[t] /\ outcome'[t] = outcome[t]
                                       /\ seq'[t] = seq[t] /\ pc'[t] = pc[t]
        /\ UNCHANGED <<status, messages>>
    BY <1>1 DEF CheckRoom, Goto, TypeOK
  <2>2. \A t \in Senders : call[t].call \in Nat /\ call[t].call <= calls
    BY DEF CallsInv, TypeOK
  <2>3. \A i \in DOMAIN messages : messages[i].call \in Nat /\ messages[i].call <= calls
    BY DEF CallsInv, TypeOK, Row
  <2>4. CallsInv'
    BY <2>1, <2>2, <2>3 DEF CallsInv
  <2>5. Refusal(e) \notin {"stored", "replayed"}
    BY DEF Refusal
  <2>6. AnswersAreTrue'
    BY <2>1, <2>3, <2>5 DEF AnswersAreTrue
  <2>7. QED
    BY <2>4, <2>6
<1>2. ASSUME NEW s \in Senders, pc[s] # "idle", UNCHANGED <<room, messages, call, calls>>,
             \A t \in Senders : t # s => outcome'[t] = outcome[t]
                                         /\ seq'[t] = seq[t] /\ pc'[t] = pc[t],
             pc'[s] = "idle" =>
               /\ outcome'[s] # "stored"
               /\ outcome'[s] = "replayed" =>
                    /\ call[s].key # NoKey /\ seq'[s] \in DOMAIN messages
                    /\ messages[seq'[s]].key = call[s].key
      PROVE  AInv'
  <2>1. CallsInv'
    BY <1>2 DEF CallsInv
  <2>2. AnswersAreTrue'
    BY <1>2 DEF AnswersAreTrue, CallsInv
  <2>3. QED
    BY <2>1, <2>2
<1>3. ASSUME NEW s \in Senders, FindByKey(s) PROVE AInv'
  <2>1. pc[s] # "idle" /\ UNCHANGED <<room, messages, call, calls>>
    BY <1>3 DEF FindByKey
  <2>2. ASSUME call[s].key # NoKey, NEW i \in StoredUnder(call[s].key),
               seq' = [seq EXCEPT ![s] = i], End(s, "replayed")
        PROVE  AInv'
    BY <1>2, <2>1, <2>2 DEF End, Goto, TypeOK, StoredUnder
  <2>3. CASE Goto(s, "lock") /\ UNCHANGED <<seq, outcome>>
    BY <1>2, <2>1, <2>3 DEF Goto, TypeOK
  <2>4. QED
    BY <1>3, <2>2, <2>3 DEF FindByKey
<1>4. ASSUME NEW s \in Senders, LockRoom(s) PROVE AInv'
  BY <1>2, <1>4 DEF LockRoom, Goto, TypeOK
<1>5. ASSUME NEW s \in Senders, InsertMessage(s) \/ Abort(s) PROVE AInv'
  <2>1. pc[s] # "idle" /\ UNCHANGED <<room, messages, call, calls, seq>>
    BY <1>5 DEF InsertMessage, Abort
  <2>2. ASSUME NEW o \in {"foreign_key_violation", "unique_violation", "unknown"}, End(s, o)
        PROVE  AInv'
    BY <1>2, <2>1, <2>2 DEF End, Goto, TypeOK
  <2>3. CASE Goto(s, "commit") /\ UNCHANGED outcome
    BY <1>2, <2>1, <2>3 DEF Goto, TypeOK
  <2>4. QED
    BY <1>5, <2>2, <2>3 DEF InsertMessage, Abort
<1>6. ASSUME NEW s \in Senders, Commit(s) PROVE AInv'
  <2>1. PICK o \in {"stored", "unknown"} : outcome' = [outcome EXCEPT ![s] = o]
    BY <1>6, CommitEffect
  <2>2. /\ seq[s] = lastSeq + 1
        /\ DOMAIN messages = 1..lastSeq /\ DOMAIN messages' = 1..(lastSeq + 1)
        /\ messages'[lastSeq + 1] = call[s]
        /\ \A i \in 1..lastSeq : messages'[i] = messages[i]
        /\ pc' = [pc EXCEPT ![s] = "idle"]
        /\ UNCHANGED <<status, call, seq, calls>>
    BY <1>6, CommitEffect
  <2>3. lastSeq \in Nat /\ pc[s] # "idle"
    BY <1>6 DEF TypeOK, Commit
  <2>4. \A i \in 1..(lastSeq + 1) : i \in 1..lastSeq \/ i = lastSeq + 1
    BY <2>3
  <2>5. call[s].call # 0
    BY <2>3 DEF CallInv
  <2>6. \A t \in Senders : t # s => /\ call[t].call # call[s].call
                                    /\ pc'[t] = pc[t] /\ outcome'[t] = outcome[t]
    BY <2>1, <2>2, <2>5 DEF CallsInv, TypeOK
  <2>7. pc'[s] = "idle" /\ outcome'[s] = o
    BY <2>1, <2>2 DEF TypeOK
  <2>8. CallsInv'
    BY <2>2, <2>4, <2>6, <2>7 DEF CallsInv
  <2>9. ASSUME NEW t \in Senders, status' # "deleted", pc'[t] = "idle"
        PROVE  /\ outcome'[t] = "stored" =>
                    seq'[t] \in DOMAIN messages' /\ messages'[seq'[t]] = call'[t]
               /\ outcome'[t] = "replayed" =>
                    /\ seq'[t] \in DOMAIN messages'
                    /\ messages'[seq'[t]].key = call'[t].key /\ call'[t].key # NoKey
               /\ outcome'[t] \notin {"stored", "unknown"} =>
                    \A i \in DOMAIN messages' : messages'[i].call # call'[t].call
    <3>1. CASE t = s
      BY <2>2, <2>3, <2>7, <3>1
    <3>2. CASE t # s
      BY <2>2, <2>3, <2>4, <2>6, <2>9, <3>2 DEF AnswersAreTrue
    <3>3. QED
      BY <3>1, <3>2
  <2>10. QED
    BY <2>8, <2>9 DEF AnswersAreTrue
<1>7. CASE Delete
  BY <1>7 DEF Delete, CallsInv, AnswersAreTrue
<1>8. CASE UNCHANGED <<messages, pc, call, seq, outcome, calls>>
           /\ (status = "deleted" => status' = "deleted")
  BY <1>8 DEF CallsInv, AnswersAreTrue
<1>9. QED
  BY <1>1, <1>3, <1>4, <1>5, <1>6, <1>7, <1>8
  DEF Next, Send, List, Archive, Rotate, vars

(* Whatever a caller of message.send was told is true of the log.          *)
THEOREM AnswersHold == Spec => []AnswersAreTrue
<1>1. Init => AInv
  BY DEF Init, AInv, CallsInv, AnswersAreTrue
<1>2. IInv /\ AInv /\ [Next]_vars => AInv'
  BY AnswerStep
<1>3. AInv => AnswersAreTrue
  BY DEF AInv
<1>4. QED
  BY <1>1, <1>2, <1>3, Invariance, PTL DEF Spec
=============================================================================

---------------------------- MODULE ChannelKeys -----------------------------
(***************************************************************************)
(* The keys of one channel: its rooms, their numbered epochs with the      *)
(* wrapped epoch keys ("blobs"), and the access keys that let members in.  *)
(* channel.create / archive / unarchive / delete / rotate                  *)
(* (chatv3-dm, service.channel.ts) and room.create / archive / delete      *)
(* (service.room.ts) over Postgres at READ COMMITTED.                      *)
(*                                                                         *)
(* rotate checks the submitted rooms outside its transaction; inside, the  *)
(* UPDATE that revokes the active keys works on the snapshot taken when it *)
(* starts and waits for the rows another rotation has updated.             *)
(* room.create checks the channel outside its transaction too.             *)
(***************************************************************************)
EXTENDS Naturals, FiniteSets

CONSTANTS
  Rooms,       (* room ids                                                 *)
  General,     (* the room created with the channel                        *)
  KeyIds,      (* access-key ids that clients generate                     *)
  Server,      (* the server's master key, which wraps epochs as well      *)
  None,        (* no key, no blob, no room                                 *)
  Rotators,    (* requests that may be in channel.rotate                   *)
  Creators,    (* requests that may be in room.create                      *)
  MaxEpoch,    (* bound: epochs are 1..MaxEpoch                            *)
  AnyEpoch     (* TRUE: clients submit any epoch, as the server allows;    *)
               (* FALSE: they submit the one after the epoch they read     *)

ASSUME RoomsAssumption    == General \in Rooms /\ None \notin Rooms
ASSUME KeyIdsAssumption   == Server \notin KeyIds /\ None \notin KeyIds \cup {Server}
ASSUME MaxEpochAssumption == MaxEpoch \in Nat \ {0}
ASSUME AnyEpochAssumption == AnyEpoch \in BOOLEAN

Epochs   == 1..MaxEpoch
Wrappers == KeyIds \cup {Server}

(* What channel.rotate submits: a new access key, and for each room the    *)
(* epoch whose key is wrapped under it.                                    *)
Plans  == [key : KeyIds \cup {None}, epochs : UNION {[R -> Epochs] : R \in SUBSET Rooms}]
NoPlan == [key |-> None, epochs |-> [r \in {} |-> 1]]

(* What room.create submits.                                               *)
Drafts  == [room : Rooms \cup {None}, epoch : Epochs, wrapper : Wrappers \cup {None}]
NoDraft == [room |-> None, epoch |-> 1, wrapper |-> None]

VARIABLES
  channel,       (* the channel row: "absent", "active", "archived", "deleted" *)
  mode,          (* its encryptionMode                                     *)
  room,          (* room[r]: the room row, likewise                        *)
  currentEpoch,  (* currentEpoch[r]                                        *)
  blob,          (* blob[r][e]: what wraps epoch e of room r, or None      *)
  key,           (* key[k]: "absent", "active" or "revoked"                *)
  covers,        (* covers[k]: the rooms re-keyed when k was installed (no *)
                 (* column of the code: kept for the properties)           *)
  pc,            (* pc[p]: what rotator p does next                        *)
  plan,          (* plan[p]: what it submits                               *)
  snap,          (* snap[p]: the active keys its UPDATE's snapshot shows   *)
  revoking,      (* revoking[p]: the key rows it has updated and locked    *)
  draft          (* draft[c]: what room.create is about to insert          *)

tables == <<channel, mode, room, currentEpoch, blob, key, covers>>
rotate == <<pc, plan, snap, revoking>>
vars   == <<tables, rotate, draft>>

Init ==
  /\ channel = "absent" /\ mode = "e2e"
  /\ room = [r \in Rooms |-> "absent"]
  /\ currentEpoch = [r \in Rooms |-> 1]
  /\ blob = [r \in Rooms |-> [e \in Epochs |-> None]]
  /\ key = [k \in KeyIds |-> "absent"]
  /\ covers = [k \in KeyIds |-> {}]
  /\ pc = [p \in Rotators |-> "idle"]
  /\ plan = [p \in Rotators |-> NoPlan]
  /\ snap = [p \in Rotators |-> {}]
  /\ revoking = [p \in Rotators |-> {}]
  /\ draft = [c \in Creators |-> NoDraft]

ActiveRooms == {r \in Rooms : room[r] = "active"}
LiveRooms   == {r \in Rooms : room[r] \in {"active", "archived"}}
ActiveKeys  == {k \in KeyIds : key[k] = "active"}

(* A transaction that has updated or inserted key rows: it also holds a    *)
(* key-share lock on the channel row, so a delete waits for it.            *)
Holding == {p \in Rotators : pc[p] = "commit"}

-----------------------------------------------------------------------------
(***************************************************************************)
(* The channel and its rooms                                               *)
(***************************************************************************)

(* channel.create: the channel, General, its first epoch and the access    *)
(* key in one transaction.  The server wraps the epochs of a               *)
(* server-encrypted channel itself and numbers the first one 1.            *)
CreateChannel(m, k, e) ==
  /\ channel = "absent"
  /\ m = "server-encrypted" => e = 1
  /\ channel' = "active" /\ mode' = m
  /\ room' = [room EXCEPT ![General] = "active"]
  /\ currentEpoch' = [currentEpoch EXCEPT ![General] = e]
  /\ blob' = [blob EXCEPT ![General][e] = IF m = "e2e" THEN k ELSE Server]
  /\ key' = [key EXCEPT ![k] = "active"]
  /\ covers' = [covers EXCEPT ![k] = IF m = "e2e" THEN {General} ELSE {}]
  /\ UNCHANGED <<rotate, draft>>

(* What wraps a new room's first epoch: the server, or, on the client, the *)
(* channel key that client remembers, which may be revoked by now.         *)
FirstWrappers ==
  IF mode = "e2e" THEN {k \in KeyIds : key[k] # "absent"} ELSE {Server}

(* room.create, before its transaction: the channel is active.             *)
CheckCreateRoom(c, r, w) ==
  /\ draft[c] = NoDraft
  /\ channel = "active" /\ room[r] = "absent"
  /\ w \in FirstWrappers
  /\ draft' = [draft EXCEPT ![c] = [room |-> r, epoch |-> 1, wrapper |-> w]]
  /\ UNCHANGED <<tables, rotate>>

(* room.create, its transaction: the room with its first epoch.            *)
CreateRoom(c) ==
  LET d == draft[c] IN
  /\ d # NoDraft /\ channel \in {"active", "archived"} /\ room[d.room] = "absent"
  /\ room' = [room EXCEPT ![d.room] = "active"]
  /\ currentEpoch' = [currentEpoch EXCEPT ![d.room] = d.epoch]
  /\ blob' = [blob EXCEPT ![d.room][d.epoch] = d.wrapper]
  /\ draft' = [draft EXCEPT ![c] = NoDraft]
  /\ UNCHANGED <<channel, mode, key, covers, rotate>>

(* The channel is gone, the slug is taken, or the connection breaks.       *)
AbortCreateRoom(c) ==
  /\ draft[c] # NoDraft
  /\ draft' = [draft EXCEPT ![c] = NoDraft]
  /\ UNCHANGED <<tables, rotate>>

ArchiveRoom(r) ==
  /\ room[r] = "active"
  /\ room' = [room EXCEPT ![r] = "archived"]
  /\ UNCHANGED <<channel, mode, currentEpoch, blob, key, covers, rotate, draft>>

(* room.delete: General is refused; the room's epochs go with it.          *)
DeleteRoom(r) ==
  /\ r # General /\ r \in LiveRooms
  /\ room' = [room EXCEPT ![r] = "deleted"]
  /\ blob' = [blob EXCEPT ![r] = [e \in Epochs |-> None]]
  /\ UNCHANGED <<channel, mode, currentEpoch, key, covers, rotate, draft>>

(* channel.archive and channel.unarchive look at no status.                *)
ArchiveChannel(status) ==
  /\ channel \in {"active", "archived"}
  /\ channel' = status
  /\ UNCHANGED <<mode, room, currentEpoch, blob, key, covers, rotate, draft>>

(* channel.delete, channel.purge-before: the foreign keys cascade.         *)
DeleteChannel ==
  /\ channel \in {"active", "archived"} /\ Holding = {}
  /\ channel' = "deleted"
  /\ room' = [r \in Rooms |-> IF r \in LiveRooms THEN "deleted" ELSE room[r]]
  /\ blob' = [r \in Rooms |-> [e \in Epochs |-> None]]
  /\ key' = [k \in KeyIds |-> "absent"]
  /\ covers' = [k \in KeyIds |-> {}]
  /\ UNCHANGED <<mode, currentEpoch, rotate, draft>>

-----------------------------------------------------------------------------
(***************************************************************************)
(* channel.rotate                                                          *)
(***************************************************************************)

Goto(p, phase) == pc' = [pc EXCEPT ![p] = phase]

(* The request ends and its transaction, if any, gives its locks back.     *)
End(p) ==
  /\ Goto(p, "idle")
  /\ plan' = [plan EXCEPT ![p] = NoPlan]
  /\ snap' = [snap EXCEPT ![p] = {}]
  /\ revoking' = [revoking EXCEPT ![p] = {}]

(* The client reads the rooms and prepares a request: a fresh key, and an  *)
(* epoch for every active room.                                            *)
PlanRotation(p, k) ==
  /\ pc[p] = "idle"
  /\ channel \in {"active", "archived"} /\ ActiveRooms # {} /\ key[k] = "absent"
  /\ \E es \in [ActiveRooms -> Epochs] :
       /\ AnyEpoch \/ \A r \in ActiveRooms : es[r] = currentEpoch[r] + 1
       /\ plan' = [plan EXCEPT ![p] = [key |-> k, epochs |-> es]]
  /\ Goto(p, "check")
  /\ UNCHANGED <<tables, snap, revoking, draft>>

(* The channel is active, and the rooms submitted are its active rooms: no *)
(* room missing, none extra, none twice.                                   *)
CheckRotation(p) ==
  /\ pc[p] = "check"
  /\ channel = "active" /\ DOMAIN plan[p].epochs = ActiveRooms
  /\ Goto(p, "snapshot")
  /\ UNCHANGED <<tables, plan, snap, revoking, draft>>

(* The transaction's first statement, UPDATE access_key ... WHERE          *)
(* status = 'active', takes its snapshot.                                  *)
SnapshotKeys(p) ==
  /\ pc[p] = "snapshot"
  /\ snap' = [snap EXCEPT ![p] = ActiveKeys]
  /\ Goto(p, "revoke")
  /\ UNCHANGED <<tables, plan, revoking, draft>>

(* A rotation that leaves the old keys alone (a variant of RevokeKeys).    *)
RevokeKeys_None(p) ==
  /\ pc[p] = "revoke"
  /\ Goto(p, "commit")
  /\ UNCHANGED <<tables, plan, snap, revoking, draft>>

(* It waits for rows another rotation holds, then updates those of its     *)
(* snapshot that are still active.  Keys inserted since it does not see.   *)
RevokeKeys(p) ==
  /\ pc[p] = "revoke"
  /\ \A q \in Holding : snap[p] \cap revoking[q] = {}
  /\ revoking' = [revoking EXCEPT ![p] = snap[p] \cap ActiveKeys]
  /\ Goto(p, "commit")
  /\ UNCHANGED <<tables, plan, snap, draft>>

(* Without the unique index on (room, epoch) (a variant of Refused).       *)
Refused_NoEpochIndex(p) ==
  \/ channel = "deleted" \/ key[plan[p].key] # "absent"
  \/ \E r \in DOMAIN plan[p].epochs : r \notin LiveRooms

(* Why an insert of the transaction fails: a foreign key to the channel or *)
(* to a room, or a unique index on keyId or on (room, epoch).              *)
Refused(p) ==
  \/ channel = "deleted" \/ key[plan[p].key] # "absent"
  \/ \E r \in DOMAIN plan[p].epochs :
       r \notin LiveRooms \/ blob[r][plan[p].epochs[r]] # None

(* The new key inserted before the UPDATE (a variant of KeysAfter).        *)
KeysAfter_InsertFirst(p) ==
  [k \in KeyIds |-> IF k \in revoking[p] \cup {plan[p].key} THEN "revoked" ELSE key[k]]

KeysAfter(p) ==
  [k \in KeyIds |-> IF k = plan[p].key THEN "active"
                    ELSE IF k \in revoking[p] THEN "revoked" ELSE key[k]]

(* One epoch number for every room, the one the access key gets            *)
(* (a variant of EpochsAfter).                                             *)
EpochsAfter_OneNumber(p) ==
  LET first == CHOOSE r \in DOMAIN plan[p].epochs : TRUE IN
  [r \in Rooms |-> IF r \in DOMAIN plan[p].epochs THEN plan[p].epochs[first]
                                                  ELSE currentEpoch[r]]

(* setCurrentEpoch for each submitted room.                                *)
EpochsAfter(p) ==
  [r \in Rooms |-> IF r \in DOMAIN plan[p].epochs THEN plan[p].epochs[r]
                                                  ELSE currentEpoch[r]]

BlobsAfter(p) ==
  [r \in Rooms |-> [e \in Epochs |->
     IF r \in DOMAIN plan[p].epochs /\ plan[p].epochs[r] = e THEN plan[p].key
                                                             ELSE blob[r][e]]]

(* The inserts and COMMIT: the old keys revoked, the new one installed,    *)
(* every submitted room at its new epoch.                                  *)
CommitRotation(p) ==
  /\ pc[p] = "commit" /\ ~Refused(p)
  /\ key' = KeysAfter(p)
  /\ covers' = [covers EXCEPT ![plan[p].key] = DOMAIN plan[p].epochs]
  /\ blob' = BlobsAfter(p)
  /\ currentEpoch' = EpochsAfter(p)
  /\ End(p)
  /\ UNCHANGED <<channel, mode, room, draft>>

(* The check refuses, an insert fails, Postgres picks the transaction as a *)
(* deadlock victim or the connection breaks: nothing is changed.           *)
AbortRotation(p) ==
  /\ pc[p] # "idle"
  /\ End(p)
  /\ UNCHANGED <<tables, draft>>

-----------------------------------------------------------------------------
(* channel.epoch-keys unwraps every epoch of every active room with the    *)
(* server's key, and fails as a whole when a client wrapped one of them.   *)
ServerOpensAll ==
  \A r \in ActiveRooms, e \in Epochs : blob[r][e] \in {Server, None}

Rotate(p) ==
  \/ \E k \in KeyIds : PlanRotation(p, k)
  \/ CheckRotation(p) \/ SnapshotKeys(p) \/ RevokeKeys(p)
  \/ CommitRotation(p) \/ AbortRotation(p)

RoomStep ==
  \/ \E c \in Creators, r \in Rooms, w \in Wrappers : CheckCreateRoom(c, r, w)
  \/ \E c \in Creators : CreateRoom(c) \/ AbortCreateRoom(c)
  \/ \E r \in Rooms : ArchiveRoom(r) \/ DeleteRoom(r)

ChannelStep ==
  \/ \E m \in {"e2e", "server-encrypted"}, k \in KeyIds, e \in Epochs : CreateChannel(m, k, e)
  \/ \E status \in {"active", "archived"} : ArchiveChannel(status)
  \/ DeleteChannel

Next == ChannelStep \/ RoomStep \/ \E p \in Rotators : Rotate(p)

Spec == Init /\ [][Next]_vars

-----------------------------------------------------------------------------
RowStatus == {"absent", "active", "archived", "deleted"}

(* The variables have their types.                                         *)
TypeOK ==
  /\ channel \in RowStatus /\ mode \in {"e2e", "server-encrypted"}
  /\ room \in [Rooms -> RowStatus]
  /\ currentEpoch \in [Rooms -> Epochs]
  /\ blob \in [Rooms -> [Epochs -> Wrappers \cup {None}]]
  /\ key \in [KeyIds -> {"absent", "active", "revoked"}]
  /\ covers \in [KeyIds -> SUBSET Rooms]
  /\ pc \in [Rotators -> {"idle", "check", "snapshot", "revoke", "commit"}]
  /\ plan \in [Rotators -> Plans]
  /\ snap \in [Rotators -> SUBSET KeyIds]
  /\ revoking \in [Rotators -> SUBSET KeyIds]
  /\ draft \in [Creators -> Drafts]

(* A room is never writable without key material: the epoch that           *)
(* message.send demands of a room has a published blob, whatever creations,*)
(* deletions and overlapping rotations did (room.create's doc comment).    *)
CurrentEpochPublished ==
  \A r \in LiveRooms : blob[r][currentEpoch[r]] # None

(* Rotations leave the door open: a channel that exists has an active      *)
(* access key, also after overlapping rotations each of which revoked what *)
(* it saw.                                                                 *)
SomeActiveKey == channel \in {"active", "archived"} => ActiveKeys # {}

(* If clients submit the epoch after the one they read, a room covered by  *)
(* the rotation that installed a key still active is at an epoch wrapped   *)
(* under exactly that key: a rotation that overlaps another and does not   *)
(* revoke the other's key cannot re-key the other's rooms.                 *)
KeyOpensItsRooms ==
  ~AnyEpoch =>
    \A k \in ActiveKeys : \A r \in covers[k] \cap LiveRooms :
      blob[r][currentEpoch[r]] = k

(* A blob, once published, is never replaced while its room exists: the    *)
(* messages of its epoch stay readable, and a rotation repeated or racing  *)
(* another cannot swap the key under them.                                 *)
BlobsAreFinal ==
  [][\A r \in Rooms, e \in Epochs :
       blob[r][e] # None /\ r \in LiveRooms' => blob'[r][e] = blob[r][e]]_vars

(* If clients submit the epoch after the one they read, a room moves       *)
(* through its epochs one by one and never returns to one that a removed   *)
(* member holds the key of.                                                *)
EpochsAdvanceByOne ==
  [][~AnyEpoch =>
       \A r \in LiveRooms : currentEpoch'[r] \in {currentEpoch[r], currentEpoch[r] + 1}]_vars

(* The comment in rotate: "Rotation must re-key EVERY active room of the   *)
(* channel, else a removed member keeps reading any room left on its old   *)
(* epoch".  A room created meanwhile, or by a client that remembers the    *)
(* old key, stays readable under a revoked one.                            *)
RoomsFollowTheKey ==
  mode = "e2e" => \A r \in ActiveRooms : blob[r][currentEpoch[r]] \in ActiveKeys

(* The summary of channel.epoch-keys: "Return readable raw room epoch keys *)
(* for an active member of a server-encrypted channel".  Nothing keeps a   *)
(* client's rotation off such a channel.                                   *)
EpochKeysServed ==
  channel = "active" /\ mode = "server-encrypted" => ServerOpensAll
=============================================================================

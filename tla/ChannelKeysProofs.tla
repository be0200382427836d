------------------------- MODULE ChannelKeysProofs --------------------------
(***************************************************************************)
(* Theorems about ChannelKeys, for any rooms, keys, rotators, creators and *)
(* number of epochs.                                                       *)
(*                                                                         *)
(* The argument for KeyOpensItsRooms: a rotation that another one overtook *)
(* on a room submits an epoch the room already has (NotAhead), so the      *)
(* unique index refuses it; and a rotation that is about to commit while a *)
(* key it does not revoke is active was overtaken on every room that key   *)
(* covers (Overtaken).                                                     *)
(***************************************************************************)
EXTENDS ChannelKeys, TLAPS

(* Nothing exists before its creation: rooms and keys of an absent channel,*)
(* blobs of a room that does not exist, coverage of such a room.           *)
NothingEarly ==
  /\ channel = "absent" => /\ \A r \in Rooms : room[r] = "absent"
                           /\ \A k \in KeyIds : key[k] = "absent"
  /\ \A r \in Rooms : r \notin LiveRooms => \A e \in Epochs : blob[r][e] = None
  /\ \A k \in KeyIds : \A r \in covers[k] : room[r] # "absent"
  /\ \A c \in Creators : draft[c] # NoDraft => /\ draft[c].room \in Rooms
                                               /\ draft[c].wrapper # None

(* A rotation under way has a key and asks for rooms that exist or did.    *)
PlansMakeSense ==
  \A p \in Rotators :
    /\ pc[p] # "idle" => plan[p].key \in KeyIds /\ channel # "absent"
    /\ \A r \in DOMAIN plan[p].epochs : r \in Rooms /\ room[r] # "absent"

Later(p, r) == plan[p].epochs[r] = currentEpoch[r] + 1
Taken(p, r) == plan[p].epochs[r] <= currentEpoch[r] /\ blob[r][plan[p].epochs[r]] # None

(* An epoch submitted is the room's next one, or it was published since.   *)
NotAhead ==
  ~AnyEpoch => \A p \in Rotators : \A r \in DOMAIN plan[p].epochs \cap LiveRooms :
                 Later(p, r) \/ Taken(p, r)

(* The active keys that p, past its snapshot, is not going to revoke.      *)
Spared(p) == ActiveKeys \ (IF pc[p] = "commit" THEN revoking[p] ELSE snap[p])

(* The rooms such a key covers have been re-keyed since p was planned.     *)
Overtaken ==
  ~AnyEpoch => \A p \in Rotators : pc[p] \in {"revoke", "commit"} =>
    \A k \in Spared(p) : \A r \in covers[k] \cap DOMAIN plan[p].epochs \cap LiveRooms :
      Taken(p, r)

(* The inductive invariant.                                                *)
IInv ==
  /\ TypeOK /\ NothingEarly /\ PlansMakeSense /\ CurrentEpochPublished
  /\ SomeActiveKey /\ NotAhead /\ Overtaken /\ KeyOpensItsRooms

USE DEF Epochs, Wrappers, RowStatus

-----------------------------------------------------------------------------
(* What the type invariant says of a plan, without the union.              *)
LEMMA PlanType ==
  ASSUME TypeOK, NEW p \in Rotators
  PROVE  /\ plan[p].key \in KeyIds \cup {None}
         /\ DOMAIN plan[p].epochs \subseteq Rooms
         /\ \A r \in DOMAIN plan[p].epochs : plan[p].epochs[r] \in Epochs
  <1>1. plan[p] \in Plans BY DEF TypeOK
  <1>2. PICK R \in SUBSET Rooms : plan[p].epochs \in [R -> Epochs]
    BY <1>1 DEF Plans
  <1>. QED BY <1>1, <1>2 DEF Plans

(* An empty plan is a plan.                                                *)
LEMMA NoPlanType == NoPlan \in Plans
  <1>1. NoPlan.epochs \in [{} -> Epochs] BY DEF NoPlan
  <1>2. {} \in SUBSET Rooms OBVIOUS
  <1>. QED BY <1>1, <1>2 DEF NoPlan, Plans

(* The variables have their types at first.                                *)
LEMMA TypeInit == Init => TypeOK
  BY NoPlanType, RoomsAssumption, KeyIdsAssumption, MaxEpochAssumption
  DEF Init, TypeOK, Drafts, NoDraft

(* Every step of the channel and its rooms keeps the types.                *)
LEMMA TypeTables ==
  ASSUME TypeOK, ChannelStep \/ RoomStep
  PROVE  TypeOK'
  <1>. USE DEF TypeOK, tables, rotate
  <1>1. ASSUME NEW m \in {"e2e", "server-encrypted"}, NEW k \in KeyIds, NEW e \in Epochs,
               CreateChannel(m, k, e)
        PROVE  TypeOK'
    BY <1>1, RoomsAssumption DEF CreateChannel
  <1>2. ASSUME NEW c \in Creators, NEW r \in Rooms, NEW w \in Wrappers,
               CheckCreateRoom(c, r, w)
        PROVE  TypeOK'
    BY <1>2, MaxEpochAssumption DEF CheckCreateRoom, Drafts
  <1>3. ASSUME NEW c \in Creators, CreateRoom(c) PROVE TypeOK'
    <2>1. draft[c] \in Drafts /\ draft' = [draft EXCEPT ![c] = NoDraft] BY <1>3 DEF CreateRoom
    <2>2. NoDraft \in Drafts BY MaxEpochAssumption DEF NoDraft, Drafts
    <2>3. draft' \in [Creators -> Drafts] BY <2>1, <2>2
    <2>. DEFINE d == draft[c]
    <2>4. d.epoch \in Epochs /\ d.wrapper \in Wrappers \cup {None} BY <2>1 DEF Drafts
    <2>5. room' \in [Rooms -> RowStatus] BY <1>3 DEF CreateRoom
    <2>6. currentEpoch' \in [Rooms -> Epochs] BY <1>3, <2>4 DEF CreateRoom
    <2>7. blob' \in [Rooms -> [Epochs -> Wrappers \cup {None}]] BY <1>3, <2>4 DEF CreateRoom
    <2>8. UNCHANGED <<channel, mode, key, covers, pc, plan, snap, revoking>>
      BY <1>3 DEF CreateRoom
    <2>. QED BY <2>3, <2>5, <2>6, <2>7, <2>8
  <1>4. ASSUME NEW c \in Creators, AbortCreateRoom(c) PROVE TypeOK'
    BY <1>4, MaxEpochAssumption DEF AbortCreateRoom, NoDraft, Drafts
  <1>5. ASSUME NEW r \in Rooms, ArchiveRoom(r) \/ DeleteRoom(r) PROVE TypeOK'
    <2>1. CASE ArchiveRoom(r) BY <2>1 DEF ArchiveRoom
    <2>2. CASE DeleteRoom(r)
      <3>1. [e \in Epochs |-> None] \in [Epochs -> Wrappers \cup {None}] OBVIOUS
      <3>2. blob' \in [Rooms -> [Epochs -> Wrappers \cup {None}]]
        BY <2>2, <3>1 DEF DeleteRoom
      <3>. QED BY <2>2, <3>2 DEF DeleteRoom
    <2>. QED BY <1>5, <2>1, <2>2
  <1>6. ASSUME NEW status \in {"active", "archived"}, ArchiveChannel(status) PROVE TypeOK'
    BY <1>6 DEF ArchiveChannel
  <1>7. CASE DeleteChannel
    BY <1>7 DEF DeleteChannel
  <1>. QED BY <1>1, <1>2, <1>3, <1>4, <1>5, <1>6, <1>7 DEF ChannelStep, RoomStep

(* Every step of a rotation keeps the types.                               *)
LEMMA TypeRotate ==
  ASSUME TypeOK, NEW p \in Rotators, Rotate(p)
  PROVE  TypeOK'
  <1>. USE DEF TypeOK, tables
  <1>1. ASSUME NEW k \in KeyIds, PlanRotation(p, k) PROVE TypeOK'
    <2>1. PICK es \in [ActiveRooms -> Epochs] :
            plan' = [plan EXCEPT ![p] = [key |-> k, epochs |-> es]]
      BY <1>1 DEF PlanRotation
    <2>2. ActiveRooms \in SUBSET Rooms BY DEF ActiveRooms
    <2>3. [key |-> k, epochs |-> es] \in Plans BY <2>1, <2>2 DEF Plans
    <2>. QED BY <1>1, <2>1, <2>3 DEF PlanRotation, Goto
  <1>2. CASE CheckRotation(p) BY <1>2 DEF CheckRotation, Goto
  <1>3. CASE SnapshotKeys(p) BY <1>3 DEF SnapshotKeys, Goto, ActiveKeys
  <1>4. CASE RevokeKeys(p) BY <1>4 DEF RevokeKeys, Goto, ActiveKeys
  <1>5. CASE CommitRotation(p)
    <2>1. /\ plan[p].key \in KeyIds \cup {None}
          /\ DOMAIN plan[p].epochs \subseteq Rooms
          /\ \A r \in DOMAIN plan[p].epochs : plan[p].epochs[r] \in Epochs
      BY PlanType
    <2>2. key' \in [KeyIds -> {"absent", "active", "revoked"}]
      BY <1>5, <2>1 DEF CommitRotation, KeysAfter
    <2>3. currentEpoch' \in [Rooms -> Epochs]
      BY <1>5, <2>1 DEF CommitRotation, EpochsAfter
    <2>4. blob' \in [Rooms -> [Epochs -> Wrappers \cup {None}]]
      BY <1>5, <2>1 DEF CommitRotation, BlobsAfter
    <2>5. covers' \in [KeyIds -> SUBSET Rooms]
      BY <1>5, <2>1 DEF CommitRotation
    <2>. QED BY <1>5, <2>2, <2>3, <2>4, <2>5, NoPlanType DEF CommitRotation, End, Goto
  <1>6. CASE AbortRotation(p) BY <1>6, NoPlanType DEF AbortRotation, End, Goto
  <1>. QED BY <1>1, <1>2, <1>3, <1>4, <1>5, <1>6 DEF Rotate

(* So does every step.                                                     *)
LEMMA TypeStep == TypeOK /\ [Next]_vars => TypeOK'
  <1>1. TypeOK /\ UNCHANGED vars => TypeOK'
    BY DEF TypeOK, vars, tables, rotate
  <1>. QED BY <1>1, TypeTables, TypeRotate DEF Next

(* TypeOK is an invariant.                                                 *)
THEOREM TypeCorrect == Spec => []TypeOK
  BY TypeInit, TypeStep, PTL DEF Spec

-----------------------------------------------------------------------------
(* What a commit does to the tables, room by room and key by key.          *)
LEMMA CommitFacts ==
  ASSUME TypeOK, PlansMakeSense, NEW p \in Rotators, CommitRotation(p)
  PROVE  /\ channel # "deleted" /\ channel # "absent"
         /\ plan[p].key \in KeyIds /\ key[plan[p].key] = "absent"
         /\ key'[plan[p].key] = "active"
         /\ covers'[plan[p].key] = DOMAIN plan[p].epochs
         /\ \A k \in KeyIds \ {plan[p].key} :
              /\ covers'[k] = covers[k]
              /\ key'[k] = IF k \in revoking[p] THEN "revoked" ELSE key[k]
         /\ \A r \in DOMAIN plan[p].epochs :
              /\ r \in LiveRooms /\ plan[p].epochs[r] \in Epochs
              /\ blob[r][plan[p].epochs[r]] = None
              /\ currentEpoch'[r] = plan[p].epochs[r]
              /\ blob'[r][plan[p].epochs[r]] = plan[p].key
              /\ \A e \in Epochs \ {plan[p].epochs[r]} : blob'[r][e] = blob[r][e]
         /\ \A r \in Rooms \ DOMAIN plan[p].epochs :
              /\ currentEpoch'[r] = currentEpoch[r]
              /\ \A e \in Epochs : blob'[r][e] = blob[r][e]
         /\ UNCHANGED <<channel, mode, room, draft>>
  <1>1. plan[p].key \in KeyIds /\ channel # "absent" BY DEF CommitRotation, PlansMakeSense
  <1>2. /\ DOMAIN plan[p].epochs \subseteq Rooms
        /\ \A r \in DOMAIN plan[p].epochs : plan[p].epochs[r] \in Epochs
    BY PlanType
  <1>3. /\ channel # "deleted" /\ key[plan[p].key] = "absent"
        /\ \A r \in DOMAIN plan[p].epochs :
             r \in LiveRooms /\ blob[r][plan[p].epochs[r]] = None
    BY DEF CommitRotation, Refused
  <1>4. /\ key'[plan[p].key] = "active"
        /\ covers'[plan[p].key] = DOMAIN plan[p].epochs
        /\ \A k \in KeyIds \ {plan[p].key} :
             /\ covers'[k] = covers[k]
             /\ key'[k] = IF k \in revoking[p] THEN "revoked" ELSE key[k]
    BY <1>1 DEF CommitRotation, KeysAfter, TypeOK
  <1>5. /\ \A r \in DOMAIN plan[p].epochs : currentEpoch'[r] = plan[p].epochs[r]
        /\ \A r \in Rooms \ DOMAIN plan[p].epochs : currentEpoch'[r] = currentEpoch[r]
    BY <1>2 DEF CommitRotation, EpochsAfter
  <1>6. \A r \in Rooms, e \in Epochs :
          blob'[r][e] = IF r \in DOMAIN plan[p].epochs /\ plan[p].epochs[r] = e
                        THEN plan[p].key ELSE blob[r][e]
    BY DEF CommitRotation, BlobsAfter
  <1>. QED BY <1>1, <1>2, <1>3, <1>4, <1>5, <1>6 DEF CommitRotation

(* What a room creation does to the tables.                                *)
LEMMA CreateRoomFacts ==
  ASSUME TypeOK, NothingEarly, NEW c \in Creators, CreateRoom(c)
  PROVE  \E n \in Rooms, e \in Epochs, w \in Wrappers :
           /\ channel \in {"active", "archived"} /\ room[n] = "absent"
           /\ room' = [room EXCEPT ![n] = "active"]
           /\ currentEpoch' = [currentEpoch EXCEPT ![n] = e]
           /\ blob' = [blob EXCEPT ![n][e] = w]
           /\ draft' = [draft EXCEPT ![c] = NoDraft]
           /\ UNCHANGED <<channel, mode, key, covers, pc, plan, snap, revoking>>
  <1>1. draft[c] \in Drafts BY DEF TypeOK
  <1>2. draft[c].room \in Rooms /\ draft[c].epoch \in Epochs /\ draft[c].wrapper \in Wrappers
    BY <1>1 DEF Drafts, NothingEarly, CreateRoom
  <1>3. /\ channel \in {"active", "archived"} /\ room[draft[c].room] = "absent"
        /\ room' = [room EXCEPT ![draft[c].room] = "active"]
        /\ currentEpoch' = [currentEpoch EXCEPT ![draft[c].room] = draft[c].epoch]
        /\ blob' = [blob EXCEPT ![draft[c].room][draft[c].epoch] = draft[c].wrapper]
        /\ draft' = [draft EXCEPT ![c] = NoDraft]
        /\ UNCHANGED <<channel, mode, key, covers, pc, plan, snap, revoking>>
    BY DEF CreateRoom, rotate
  <1>. QED BY <1>2, <1>3

(* The steps that leave every table alone.                                 *)
Frame ==
  \/ \E c \in Creators, r \in Rooms, w \in Wrappers : CheckCreateRoom(c, r, w)
  \/ \E c \in Creators : AbortCreateRoom(c)
  \/ \E p \in Rotators :
       \/ \E k \in KeyIds : PlanRotation(p, k)
       \/ CheckRotation(p) \/ SnapshotKeys(p) \/ RevokeKeys(p) \/ AbortRotation(p)
  \/ UNCHANGED vars

(* They leave the tables alone.                                            *)
LEMMA FrameFacts == Frame => UNCHANGED tables
  BY DEF Frame, CheckCreateRoom, AbortCreateRoom, PlanRotation, CheckRotation,
         SnapshotKeys, RevokeKeys, AbortRotation, vars

(* The other steps.                                                        *)
LEMMA StepCases ==
  ASSUME [Next]_vars
  PROVE  \/ Frame
         \/ \E m \in {"e2e", "server-encrypted"}, k \in KeyIds, e \in Epochs :
              CreateChannel(m, k, e)
         \/ \E status \in {"active", "archived"} : ArchiveChannel(status)
         \/ DeleteChannel
         \/ \E c \in Creators : CreateRoom(c)
         \/ \E r \in Rooms : ArchiveRoom(r)
         \/ \E r \in Rooms : DeleteRoom(r)
         \/ \E p \in Rotators : CommitRotation(p)
  BY DEF Next, ChannelStep, RoomStep, Rotate, Frame

(* Nothing exists before its creation.                                     *)
LEMMA NothingEarlyStep ==
  ASSUME TypeOK, NothingEarly, PlansMakeSense, [Next]_vars
  PROVE  NothingEarly'
  <1>. USE DEF TypeOK, LiveRooms, NothingEarly
  <1>1. CASE Frame
    <2>1. UNCHANGED tables BY <1>1, FrameFacts
    <2>2. ASSUME NEW c \in Creators, draft'[c] # NoDraft
          PROVE  draft'[c].room \in Rooms /\ draft'[c].wrapper # None
      <3>1. CASE draft'[c] = draft[c] BY <2>2, <3>1
      <3>2. CASE draft'[c] # draft[c]
        <4>1. PICK c2 \in Creators, r \in Rooms, w \in Wrappers : CheckCreateRoom(c2, r, w)
          BY <1>1, <2>2, <3>2 DEF Frame, AbortCreateRoom, PlanRotation, CheckRotation,
             SnapshotKeys, RevokeKeys, AbortRotation, vars
        <4>2. draft'[c] = [room |-> r, epoch |-> 1, wrapper |-> w]
          BY <4>1, <3>2 DEF CheckCreateRoom
        <4>. QED BY <4>2, KeyIdsAssumption
      <3>. QED BY <3>1, <3>2
    <2>. QED BY <2>1, <2>2 DEF tables
  <1>2. ASSUME NEW m \in {"e2e", "server-encrypted"}, NEW k \in KeyIds, NEW e \in Epochs,
               CreateChannel(m, k, e)
        PROVE  NothingEarly'
    <2>. USE RoomsAssumption DEF CreateChannel
    <2>1. channel' = "active" /\ draft' = draft BY <1>2
    <2>2. \A r \in Rooms : r # General => room'[r] = room[r] /\ blob'[r] = blob[r] BY <1>2
    <2>3. room'[General] = "active" BY <1>2
    <2>4. \A k2 \in KeyIds : covers'[k2] \subseteq covers[k2] \cup {General} BY <1>2
    <2>. QED BY <1>2, <2>1, <2>2, <2>3, <2>4
  <1>3. ASSUME NEW status \in {"active", "archived"}, ArchiveChannel(status) PROVE NothingEarly'
    BY <1>3 DEF ArchiveChannel
  <1>4. CASE DeleteChannel
    BY <1>4 DEF DeleteChannel
  <1>5. ASSUME NEW c \in Creators, CreateRoom(c) PROVE NothingEarly'
    <2>1. PICK n \in Rooms, e \in Epochs, w \in Wrappers :
            /\ channel \in {"active", "archived"} /\ room[n] = "absent"
            /\ room' = [room EXCEPT ![n] = "active"]
            /\ currentEpoch' = [currentEpoch EXCEPT ![n] = e]
            /\ blob' = [blob EXCEPT ![n][e] = w]
            /\ draft' = [draft EXCEPT ![c] = NoDraft]
            /\ UNCHANGED <<channel, mode, key, covers, pc, plan, snap, revoking>>
      BY <1>5, CreateRoomFacts
    <2>2. \A r \in Rooms \ {n} : room'[r] = room[r] /\ blob'[r] = blob[r] BY <2>1
    <2>3. room'[n] = "active" BY <2>1
    <2>. QED BY <2>1, <2>2, <2>3
  <1>6. ASSUME NEW n \in Rooms, ArchiveRoom(n) PROVE NothingEarly'
    <2>1. room[n] = "active" /\ room'[n] = "archived" BY <1>6 DEF ArchiveRoom
    <2>2. \A r \in Rooms \ {n} : room'[r] = room[r] BY <1>6 DEF ArchiveRoom
    <2>3. UNCHANGED <<channel, blob, key, covers, draft>> BY <1>6 DEF ArchiveRoom
    <2>. QED BY <2>1, <2>2, <2>3
  <1>7. ASSUME NEW n \in Rooms, DeleteRoom(n) PROVE NothingEarly'
    <2>1. room[n] # "absent" /\ room'[n] = "deleted" BY <1>7 DEF DeleteRoom
    <2>2. blob'[n] = [e \in Epochs |-> None] BY <1>7 DEF DeleteRoom
    <2>3. \A r \in Rooms \ {n} : room'[r] = room[r] /\ blob'[r] = blob[r]
      BY <1>7 DEF DeleteRoom
    <2>4. UNCHANGED <<channel, key, covers, draft>> BY <1>7 DEF DeleteRoom
    <2>5. channel' # "absent" BY <2>1, <2>4
    <2>6. ASSUME NEW r \in Rooms, r \notin LiveRooms', NEW e \in Epochs PROVE blob'[r][e] = None
      <3>1. CASE r = n BY <2>2, <3>1
      <3>2. CASE r # n BY <2>3, <2>6, <3>2
      <3>. QED BY <3>1, <3>2
    <2>7. \A k \in KeyIds : \A r \in covers'[k] : room'[r] # "absent"
      BY <2>1, <2>3, <2>4
    <2>. QED BY <2>4, <2>5, <2>6, <2>7
  <1>8. ASSUME NEW p \in Rotators, CommitRotation(p) PROVE NothingEarly'
    <2>1. channel' # "absent" /\ UNCHANGED <<room, draft>> BY <1>8, CommitFacts
    <2>2. DOMAIN plan[p].epochs \subseteq Rooms BY PlanType
    <2>3. ASSUME NEW r \in Rooms, r \notin LiveRooms', NEW e \in Epochs PROVE blob'[r][e] = None
      <3>1. r \notin LiveRooms BY <2>1, <2>3
      <3>2. r \notin DOMAIN plan[p].epochs BY <1>8, <3>1, CommitFacts
      <3>3. blob'[r][e] = blob[r][e] BY <1>8, <3>2, CommitFacts
      <3>. QED BY <3>1, <3>3
    <2>4. /\ covers'[plan[p].key] = DOMAIN plan[p].epochs
          /\ \A k \in KeyIds \ {plan[p].key} : covers'[k] = covers[k]
      BY <1>8, CommitFacts
    <2>5. \A k \in KeyIds : \A r \in covers'[k] : room'[r] # "absent"
      BY <2>1, <2>4 DEF PlansMakeSense
    <2>. QED BY <2>1, <2>3, <2>5
  <1>. QED BY <1>1, <1>2, <1>3, <1>4, <1>5, <1>6, <1>7, <1>8, StepCases

(* Rows come into being once: what existed never becomes absent again, and *)
(* what lives now was alive or absent before.                              *)
LEMMA RowsStay ==
  ASSUME TypeOK, NothingEarly, PlansMakeSense, [Next]_vars
  PROVE  /\ channel # "absent" => channel' # "absent"
         /\ \A r \in Rooms : room[r] # "absent" => room'[r] # "absent"
         /\ \A r \in Rooms : r \in LiveRooms' => r \in LiveRooms \/ room[r] = "absent"
  <1>. USE DEF TypeOK, LiveRooms
  <1>1. CASE Frame BY <1>1, FrameFacts DEF tables
  <1>2. ASSUME NEW m \in {"e2e", "server-encrypted"}, NEW k \in KeyIds, NEW e \in Epochs,
               CreateChannel(m, k, e)
        PROVE  /\ channel # "absent" => channel' # "absent"
               /\ \A r \in Rooms : room[r] # "absent" => room'[r] # "absent"
               /\ \A r \in Rooms : r \in LiveRooms' => r \in LiveRooms \/ room[r] = "absent"
    BY <1>2 DEF CreateChannel, NothingEarly
  <1>3. ASSUME NEW status \in {"active", "archived"}, ArchiveChannel(status)
        PROVE  channel' # "absent" /\ room' = room
    BY <1>3 DEF ArchiveChannel
  <1>4. CASE DeleteChannel BY <1>4 DEF DeleteChannel
  <1>5. ASSUME NEW c \in Creators, CreateRoom(c)
        PROVE  /\ channel # "absent" => channel' # "absent"
               /\ \A r \in Rooms : room[r] # "absent" => room'[r] # "absent"
               /\ \A r \in Rooms : r \in LiveRooms' => r \in LiveRooms \/ room[r] = "absent"
    BY <1>5 DEF CreateRoom
  <1>6. ASSUME NEW n \in Rooms, ArchiveRoom(n) \/ DeleteRoom(n)
        PROVE  /\ channel # "absent" => channel' # "absent"
               /\ \A r \in Rooms : room[r] # "absent" => room'[r] # "absent"
               /\ \A r \in Rooms : r \in LiveRooms' => r \in LiveRooms \/ room[r] = "absent"
    BY <1>6 DEF ArchiveRoom, DeleteRoom
  <1>7. ASSUME NEW p \in Rotators, CommitRotation(p) PROVE UNCHANGED <<channel, room>>
    BY <1>7, CommitFacts
  <1>. QED BY <1>1, <1>2, <1>3, <1>4, <1>5, <1>6, <1>7, StepCases

(* A rotator keeps its plan, drops it, or makes one.                       *)
LEMMA PlanCases ==
  ASSUME TypeOK, [Next]_vars, NEW p \in Rotators
  PROVE  \/ plan'[p] = plan[p] /\ (pc'[p] = "idle" <=> pc[p] = "idle")
         \/ plan'[p] = NoPlan /\ pc'[p] = "idle"
         \/ \E k \in KeyIds : PlanRotation(p, k)
  <1>. USE DEF TypeOK
  <1>1. ASSUME NEW q \in Rotators, CommitRotation(q) \/ AbortRotation(q)
        PROVE  \/ plan'[p] = plan[p] /\ (pc'[p] = "idle" <=> pc[p] = "idle")
               \/ plan'[p] = NoPlan /\ pc'[p] = "idle"
    BY <1>1 DEF CommitRotation, AbortRotation, End, Goto
  <1>2. ASSUME NEW q \in Rotators, CheckRotation(q) \/ SnapshotKeys(q) \/ RevokeKeys(q)
        PROVE  plan'[p] = plan[p] /\ (pc'[p] = "idle" <=> pc[p] = "idle")
    BY <1>2 DEF CheckRotation, SnapshotKeys, RevokeKeys, Goto
  <1>3. ASSUME NEW q \in Rotators, NEW k \in KeyIds, PlanRotation(q, k), q # p
        PROVE  plan'[p] = plan[p] /\ (pc'[p] = "idle" <=> pc[p] = "idle")
    BY <1>3 DEF PlanRotation, Goto
  <1>4. CASE ChannelStep \/ RoomStep \/ UNCHANGED vars
    <2>1. UNCHANGED <<pc, plan>>
      BY <1>4 DEF ChannelStep, RoomStep, vars, rotate, CreateChannel, ArchiveChannel,
         DeleteChannel, CheckCreateRoom, CreateRoom, AbortCreateRoom, ArchiveRoom, DeleteRoom
    <2>. QED BY <2>1
  <1>. QED BY <1>1, <1>2, <1>3, <1>4 DEF Next, Rotate

(* What a new plan is.                                                     *)
LEMMA NewPlan ==
  ASSUME TypeOK, NEW p \in Rotators, NEW k \in KeyIds, PlanRotation(p, k)
  PROVE  /\ plan'[p].key = k /\ channel # "absent" /\ pc'[p] = "check"
         /\ DOMAIN plan'[p].epochs = ActiveRooms /\ UNCHANGED tables
         /\ ~AnyEpoch => \A r \in ActiveRooms : plan'[p].epochs[r] = currentEpoch[r] + 1
  BY DEF TypeOK, PlanRotation, Goto

(* A rotation under way has a key and asks for rooms that exist or did.    *)
LEMMA PlansMakeSenseStep ==
  ASSUME TypeOK, NothingEarly, PlansMakeSense, [Next]_vars
  PROVE  PlansMakeSense'
  <1>. SUFFICES ASSUME NEW p \in Rotators
                PROVE  /\ pc'[p] # "idle" => plan'[p].key \in KeyIds /\ channel' # "absent"
                       /\ \A r \in DOMAIN plan'[p].epochs : r \in Rooms /\ room'[r] # "absent"
    BY DEF PlansMakeSense
  <1>0. /\ channel # "absent" => channel' # "absent"
        /\ \A r \in Rooms : room[r] # "absent" => room'[r] # "absent"
    BY RowsStay
  <1>1. CASE plan'[p] = plan[p] /\ (pc'[p] = "idle" <=> pc[p] = "idle")
    BY <1>0, <1>1 DEF PlansMakeSense
  <1>2. CASE plan'[p] = NoPlan /\ pc'[p] = "idle"
    BY <1>2 DEF NoPlan
  <1>3. ASSUME NEW k \in KeyIds, PlanRotation(p, k)
        PROVE  /\ plan'[p].key \in KeyIds /\ channel' # "absent"
               /\ \A r \in DOMAIN plan'[p].epochs : r \in Rooms /\ room'[r] # "absent"
    BY <1>3, NewPlan DEF ActiveRooms, tables
  <1>. QED BY <1>1, <1>2, <1>3, PlanCases

-----------------------------------------------------------------------------
(* A room that lives through a step keeps its epoch and its blobs, or, by  *)
(* the commit of a rotation, gets one more blob and is set to its epoch.   *)
LEMMA RoomStays ==
  ASSUME TypeOK, NothingEarly, PlansMakeSense, [Next]_vars,
         NEW r \in LiveRooms, r \in LiveRooms'
  PROVE  \/ currentEpoch'[r] = currentEpoch[r] /\ blob'[r] = blob[r]
         \/ \E p \in Rotators : CommitRotation(p) /\ r \in DOMAIN plan[p].epochs
  <1>. USE DEF TypeOK, LiveRooms
  <1>0. r \in Rooms OBVIOUS
  <1>1. CASE Frame BY <1>1, FrameFacts DEF tables
  <1>2. ASSUME NEW m \in {"e2e", "server-encrypted"}, NEW k \in KeyIds, NEW e \in Epochs,
               CreateChannel(m, k, e)
        PROVE  FALSE
    BY <1>2 DEF CreateChannel, NothingEarly
  <1>3. ASSUME NEW status \in {"active", "archived"}, ArchiveChannel(status)
        PROVE  currentEpoch'[r] = currentEpoch[r] /\ blob'[r] = blob[r]
    BY <1>3 DEF ArchiveChannel
  <1>4. CASE DeleteChannel BY <1>4 DEF DeleteChannel
  <1>5. ASSUME NEW c \in Creators, CreateRoom(c)
        PROVE  currentEpoch'[r] = currentEpoch[r] /\ blob'[r] = blob[r]
    BY <1>5 DEF CreateRoom
  <1>6. ASSUME NEW n \in Rooms, ArchiveRoom(n) \/ DeleteRoom(n)
        PROVE  currentEpoch'[r] = currentEpoch[r] /\ blob'[r] = blob[r]
    BY <1>6 DEF ArchiveRoom, DeleteRoom
  <1>7. ASSUME NEW p \in Rotators, CommitRotation(p), r \notin DOMAIN plan[p].epochs
        PROVE  currentEpoch'[r] = currentEpoch[r] /\ blob'[r] = blob[r]
    <2>1. /\ currentEpoch'[r] = currentEpoch[r]
          /\ \A e \in Epochs : blob'[r][e] = blob[r][e]
      BY <1>7, CommitFacts
    <2>2. blob'[r] = [e \in Epochs |-> blob'[r][e]] /\ blob[r] = [e \in Epochs |-> blob[r][e]]
      BY <1>7, TypeStep
    <2>. QED BY <2>1, <2>2
  <1>. QED BY <1>1, <1>2, <1>3, <1>4, <1>5, <1>6, <1>7, StepCases

(* With clients that submit the next epoch, a commit moves each of its     *)
(* rooms to exactly the next one.                                          *)
LEMMA CommitAdvances ==
  ASSUME TypeOK, PlansMakeSense, NotAhead, ~AnyEpoch,
         NEW p \in Rotators, CommitRotation(p), NEW r \in DOMAIN plan[p].epochs
  PROVE  plan[p].epochs[r] = currentEpoch[r] + 1
  <1>1. r \in LiveRooms /\ blob[r][plan[p].epochs[r]] = None BY CommitFacts
  <1>2. Later(p, r) \/ Taken(p, r) BY <1>1 DEF NotAhead
  <1>. QED BY <1>1, <1>2 DEF Later, Taken

(* A plan kept over a step: the epoch it submits for a room that lives on  *)
(* stays the next one, or is taken from then on.                           *)
LEMMA PlanStays ==
  ASSUME TypeOK, NothingEarly, PlansMakeSense, NotAhead, ~AnyEpoch, [Next]_vars,
         NEW p \in Rotators, plan'[p] = plan[p],
         NEW r \in DOMAIN plan[p].epochs, r \in LiveRooms, r \in LiveRooms'
  PROVE  /\ Taken(p, r) => Taken(p, r)'
         /\ Later(p, r) => Later(p, r)' \/ Taken(p, r)'
         /\ \A q \in Rotators : CommitRotation(q) /\ r \in DOMAIN plan[q].epochs => Taken(p, r)'
  <1>. USE DEF Later, Taken
  <1>1. plan[p].epochs[r] \in Epochs /\ r \in Rooms /\ currentEpoch[r] \in Nat
    BY PlanType DEF TypeOK
  <1>2. ASSUME NEW q \in Rotators, CommitRotation(q), r \in DOMAIN plan[q].epochs
        PROVE  Taken(p, r)'
    <2>1. plan[q].epochs[r] = currentEpoch[r] + 1 BY <1>2, CommitAdvances
    <2>2. /\ currentEpoch'[r] = plan[q].epochs[r] /\ plan[q].key \in KeyIds
          /\ blob'[r][plan[q].epochs[r]] = plan[q].key
          /\ \A e \in Epochs \ {plan[q].epochs[r]} : blob'[r][e] = blob[r][e]
      BY <1>2, CommitFacts
    <2>3. Later(p, r) \/ Taken(p, r) BY DEF NotAhead
    <2>4. CASE Later(p, r) BY <2>1, <2>2, <2>4, <1>1, KeyIdsAssumption
    <2>5. CASE Taken(p, r) BY <2>1, <2>2, <2>5, <1>1
    <2>. QED BY <2>3, <2>4, <2>5
  <1>3. CASE currentEpoch'[r] = currentEpoch[r] /\ blob'[r] = blob[r]
    <2>1. (Taken(p, r) => Taken(p, r)') /\ (Later(p, r) => Later(p, r)') BY <1>3
    <2>. QED BY <1>2, <2>1
  <1>. QED BY <1>2, <1>3, RoomStays

(* An epoch submitted is the room's next one, or it was published since.   *)
LEMMA NotAheadStep ==
  ASSUME TypeOK, NothingEarly, PlansMakeSense, NotAhead, [Next]_vars
  PROVE  NotAhead'
  <1>. SUFFICES ASSUME ~AnyEpoch, NEW p \in Rotators,
                       NEW r \in DOMAIN plan'[p].epochs, r \in LiveRooms'
                PROVE  Later(p, r)' \/ Taken(p, r)'
    BY DEF NotAhead
  <1>1. CASE plan'[p] = plan[p]
    <2>1. room[r] # "absent" /\ r \in Rooms BY <1>1 DEF PlansMakeSense
    <2>2. r \in LiveRooms BY <2>1, RowsStay
    <2>3. Later(p, r) \/ Taken(p, r) BY <1>1, <2>2 DEF NotAhead
    <2>. QED BY <1>1, <2>2, <2>3, PlanStays
  <1>2. CASE plan'[p] = NoPlan BY <1>2 DEF NoPlan
  <1>3. ASSUME NEW k \in KeyIds, PlanRotation(p, k) PROVE Later(p, r)'
    BY <1>3, NewPlan DEF Later, tables
  <1>. QED BY <1>1, <1>2, <1>3, PlanCases

(* A live room's current epoch stays published.                            *)
LEMMA PublishedStep ==
  ASSUME TypeOK, NothingEarly, PlansMakeSense, CurrentEpochPublished, [Next]_vars
  PROVE  CurrentEpochPublished'
  <1>. SUFFICES ASSUME NEW r \in Rooms, r \in LiveRooms'
                PROVE  blob'[r][currentEpoch'[r]] # None
    BY DEF CurrentEpochPublished, LiveRooms
  <1>1. CASE r \in LiveRooms
    <2>1. CASE currentEpoch'[r] = currentEpoch[r] /\ blob'[r] = blob[r]
      BY <1>1, <2>1 DEF CurrentEpochPublished
    <2>2. ASSUME NEW p \in Rotators, CommitRotation(p), r \in DOMAIN plan[p].epochs
          PROVE  blob'[r][currentEpoch'[r]] # None
      BY <2>2, CommitFacts, KeyIdsAssumption
    <2>. QED BY <1>1, <2>1, <2>2, RoomStays
  <1>2. CASE r \notin LiveRooms
    <2>. USE DEF TypeOK, LiveRooms
    <2>1. ASSUME NEW m \in {"e2e", "server-encrypted"}, NEW k \in KeyIds, NEW e \in Epochs,
                 CreateChannel(m, k, e)
          PROVE  blob'[r][currentEpoch'[r]] # None
      <3>1. r = General BY <1>2, <2>1 DEF CreateChannel
      <3>2. currentEpoch'[r] = e /\ blob'[r][e] \in {k, Server} BY <2>1, <3>1 DEF CreateChannel
      <3>. QED BY <3>2, KeyIdsAssumption
    <2>2. ASSUME NEW c \in Creators, CreateRoom(c) PROVE blob'[r][currentEpoch'[r]] # None
      <3>1. PICK n \in Rooms, e \in Epochs, w \in Wrappers :
              /\ channel \in {"active", "archived"} /\ room[n] = "absent"
              /\ room' = [room EXCEPT ![n] = "active"]
              /\ currentEpoch' = [currentEpoch EXCEPT ![n] = e]
              /\ blob' = [blob EXCEPT ![n][e] = w]
              /\ draft' = [draft EXCEPT ![c] = NoDraft]
              /\ UNCHANGED <<channel, mode, key, covers, pc, plan, snap, revoking>>
        BY <2>2, CreateRoomFacts
      <3>2. r = n BY <1>2, <3>1
      <3>3. currentEpoch'[r] = e /\ blob'[r][e] = w BY <3>1, <3>2
      <3>. QED BY <3>3, KeyIdsAssumption
    <2>3. ASSUME Frame \/ DeleteChannel
                 \/ (\E status \in {"active", "archived"} : ArchiveChannel(status))
                 \/ (\E n \in Rooms : ArchiveRoom(n)) \/ (\E n \in Rooms : DeleteRoom(n))
                 \/ (\E p \in Rotators : CommitRotation(p))
          PROVE  FALSE
      BY <1>2, <2>3, FrameFacts, CommitFacts
         DEF tables, DeleteChannel, ArchiveChannel, ArchiveRoom, DeleteRoom
    <2>. QED BY <2>1, <2>2, <2>3, StepCases
  <1>. QED BY <1>1, <1>2

(* A channel that exists keeps an active key.                              *)
LEMMA SomeActiveKeyStep ==
  ASSUME TypeOK, NothingEarly, PlansMakeSense, SomeActiveKey, [Next]_vars
  PROVE  SomeActiveKey'
  <1>. USE DEF TypeOK, SomeActiveKey, ActiveKeys
  <1>1. CASE Frame BY <1>1, FrameFacts DEF tables
  <1>2. ASSUME NEW m \in {"e2e", "server-encrypted"}, NEW k \in KeyIds, NEW e \in Epochs,
               CreateChannel(m, k, e)
        PROVE  SomeActiveKey'
    <2>1. key'[k] = "active" BY <1>2 DEF CreateChannel
    <2>. QED BY <2>1
  <1>3. ASSUME NEW status \in {"active", "archived"}, ArchiveChannel(status)
        PROVE  SomeActiveKey'
    BY <1>3 DEF ArchiveChannel
  <1>4. CASE DeleteChannel BY <1>4 DEF DeleteChannel
  <1>5. ASSUME NEW c \in Creators, CreateRoom(c) PROVE SomeActiveKey'
    BY <1>5 DEF CreateRoom
  <1>6. ASSUME NEW n \in Rooms, ArchiveRoom(n) \/ DeleteRoom(n) PROVE SomeActiveKey'
    BY <1>6 DEF ArchiveRoom, DeleteRoom
  <1>7. ASSUME NEW p \in Rotators, CommitRotation(p) PROVE SomeActiveKey'
    <2>1. plan[p].key \in KeyIds /\ key'[plan[p].key] = "active" BY <1>7, CommitFacts
    <2>. QED BY <2>1
  <1>. QED BY <1>1, <1>2, <1>3, <1>4, <1>5, <1>6, <1>7, StepCases

(* An active key that covers a room that was alive before: it was active   *)
(* already, or a rotation of that room installs it now.                    *)
LEMMA CoverageCases ==
  ASSUME TypeOK, NothingEarly, PlansMakeSense, [Next]_vars,
         NEW k \in ActiveKeys', NEW r \in covers'[k], r \in LiveRooms
  PROVE  \/ k \in ActiveKeys /\ r \in covers[k]
         \/ \E p \in Rotators : /\ CommitRotation(p) /\ k = plan[p].key
                                /\ r \in DOMAIN plan[p].epochs
  <1>. USE DEF TypeOK, ActiveKeys, LiveRooms
  <1>0. k \in KeyIds OBVIOUS
  <1>1. CASE Frame BY <1>1, FrameFacts DEF tables
  <1>2. ASSUME NEW m \in {"e2e", "server-encrypted"}, NEW k2 \in KeyIds, NEW e \in Epochs,
               CreateChannel(m, k2, e)
        PROVE  FALSE
    BY <1>2 DEF CreateChannel, NothingEarly
  <1>3. ASSUME NEW status \in {"active", "archived"}, ArchiveChannel(status)
        PROVE  k \in ActiveKeys /\ r \in covers[k]
    BY <1>3 DEF ArchiveChannel
  <1>4. CASE DeleteChannel BY <1>4 DEF DeleteChannel
  <1>5. ASSUME NEW c \in Creators, CreateRoom(c)
        PROVE  k \in ActiveKeys /\ r \in covers[k]
    BY <1>5 DEF CreateRoom
  <1>6. ASSUME NEW n \in Rooms, ArchiveRoom(n) \/ DeleteRoom(n)
        PROVE  k \in ActiveKeys /\ r \in covers[k]
    BY <1>6 DEF ArchiveRoom, DeleteRoom
  <1>7. ASSUME NEW p \in Rotators, CommitRotation(p)
        PROVE  \/ k \in ActiveKeys /\ r \in covers[k]
               \/ k = plan[p].key /\ r \in DOMAIN plan[p].epochs
    BY <1>7, CommitFacts
  <1>. QED BY <1>1, <1>2, <1>3, <1>4, <1>5, <1>6, <1>7, StepCases

(* A rotation past its snapshot keeps its plan, its snapshot and the rows  *)
(* it holds, or has just updated them, or has just taken the snapshot.     *)
LEMMA PastSnapshot ==
  ASSUME TypeOK, [Next]_vars, NEW p \in Rotators, pc'[p] \in {"revoke", "commit"}
  PROVE  /\ plan'[p] = plan[p]
         /\ \/ /\ pc[p] \in {"revoke", "commit"}
               /\ pc'[p] = pc[p] /\ snap'[p] = snap[p] /\ revoking'[p] = revoking[p]
            \/ RevokeKeys(p) \/ SnapshotKeys(p)
  <1>. USE DEF TypeOK
  <1>1. ASSUME NEW q \in Rotators, NEW k \in KeyIds,
               PlanRotation(q, k) \/ CommitRotation(q) \/ AbortRotation(q) \/ CheckRotation(q)
        PROVE  /\ plan'[p] = plan[p] /\ pc'[p] = pc[p]
               /\ snap'[p] = snap[p] /\ revoking'[p] = revoking[p]
    BY <1>1 DEF PlanRotation, CommitRotation, AbortRotation, CheckRotation, End, Goto
  <1>2. ASSUME NEW q \in Rotators, CommitRotation(q) \/ AbortRotation(q) \/ CheckRotation(q)
        PROVE  /\ plan'[p] = plan[p] /\ pc'[p] = pc[p]
               /\ snap'[p] = snap[p] /\ revoking'[p] = revoking[p]
    BY <1>2 DEF CommitRotation, AbortRotation, CheckRotation, End, Goto
  <1>3. ASSUME NEW q \in Rotators \ {p}, SnapshotKeys(q) \/ RevokeKeys(q)
        PROVE  /\ plan'[p] = plan[p] /\ pc'[p] = pc[p]
               /\ snap'[p] = snap[p] /\ revoking'[p] = revoking[p]
    BY <1>3 DEF SnapshotKeys, RevokeKeys, Goto
  <1>4. ASSUME SnapshotKeys(p) \/ RevokeKeys(p) PROVE plan'[p] = plan[p]
    BY <1>4 DEF SnapshotKeys, RevokeKeys
  <1>5. CASE ChannelStep \/ RoomStep \/ UNCHANGED vars
    <2>1. UNCHANGED rotate
      BY <1>5 DEF ChannelStep, RoomStep, vars, CreateChannel, ArchiveChannel,
         DeleteChannel, CheckCreateRoom, CreateRoom, AbortCreateRoom, ArchiveRoom, DeleteRoom
    <2>. QED BY <2>1 DEF rotate
  <1>. QED BY <1>1, <1>2, <1>3, <1>4, <1>5 DEF Next, Rotate

(* The keys a rotation past its snapshot spares, it spared before, unless  *)
(* they have just been installed.                                          *)
LEMMA SparedCases ==
  ASSUME TypeOK, [Next]_vars, NEW p \in Rotators, pc'[p] \in {"revoke", "commit"},
         NEW k \in Spared(p)', k \in ActiveKeys
  PROVE  pc[p] \in {"revoke", "commit"} /\ k \in Spared(p)
  <1>. USE DEF TypeOK, Spared
  <1>1. CASE SnapshotKeys(p)
    <2>1. pc'[p] = "revoke" /\ snap'[p] = ActiveKeys BY <1>1 DEF SnapshotKeys, Goto
    <2>. QED BY <2>1
  <1>2. CASE RevokeKeys(p)
    <2>1. pc[p] = "revoke" /\ pc'[p] = "commit" /\ revoking'[p] = snap[p] \cap ActiveKeys
      BY <1>2 DEF RevokeKeys, Goto
    <2>. QED BY <2>1
  <1>3. CASE /\ pc[p] \in {"revoke", "commit"}
             /\ pc'[p] = pc[p] /\ snap'[p] = snap[p] /\ revoking'[p] = revoking[p]
    BY <1>3
  <1>. QED BY <1>1, <1>2, <1>3, PastSnapshot

(* The rooms that a spared key covers have been re-keyed meanwhile.        *)
LEMMA OvertakenStep ==
  ASSUME TypeOK, NothingEarly, PlansMakeSense, NotAhead, Overtaken, [Next]_vars
  PROVE  Overtaken'
  <1>. SUFFICES ASSUME ~AnyEpoch, NEW p \in Rotators, pc'[p] \in {"revoke", "commit"},
                       NEW k \in Spared(p)', NEW r \in covers'[k],
                       r \in DOMAIN plan'[p].epochs, r \in LiveRooms'
                PROVE  Taken(p, r)'
    BY DEF Overtaken
  <1>1. plan'[p] = plan[p] BY PastSnapshot
  <1>2. r \in LiveRooms
    <2>1. room[r] # "absent" /\ r \in Rooms BY <1>1 DEF PlansMakeSense
    <2>. QED BY <2>1, RowsStay
  <1>3. k \in ActiveKeys' BY DEF Spared
  <1>4. CASE k \in ActiveKeys /\ r \in covers[k]
    <2>1. pc[p] \in {"revoke", "commit"} /\ k \in Spared(p) BY <1>4, SparedCases
    <2>2. Taken(p, r) BY <1>1, <1>2, <1>4, <2>1 DEF Overtaken
    <2>. QED BY <1>1, <1>2, <2>2, PlanStays
  <1>5. ASSUME NEW q \in Rotators, CommitRotation(q), r \in DOMAIN plan[q].epochs
        PROVE  Taken(p, r)'
    BY <1>1, <1>2, <1>5, PlanStays
  <1>. QED BY <1>2, <1>3, <1>4, <1>5, CoverageCases

(* An active key opens the rooms its rotation covered.                     *)
LEMMA KeyOpensItsRoomsStep ==
  ASSUME TypeOK, NothingEarly, PlansMakeSense, NotAhead, Overtaken, KeyOpensItsRooms,
         [Next]_vars
  PROVE  KeyOpensItsRooms'
  <1>. SUFFICES ASSUME ~AnyEpoch, NEW k \in ActiveKeys', NEW r \in covers'[k], r \in LiveRooms'
                PROVE  blob'[r][currentEpoch'[r]] = k
    BY DEF KeyOpensItsRooms
  <1>0. k \in KeyIds BY DEF ActiveKeys
  <1>1. CASE r \in LiveRooms
    <2>1. ASSUME NEW p \in Rotators, CommitRotation(p), k = plan[p].key,
                 r \in DOMAIN plan[p].epochs
          PROVE  blob'[r][currentEpoch'[r]] = k
      BY <2>1, CommitFacts
    <2>2. CASE k \in ActiveKeys /\ r \in covers[k]
      <3>1. blob[r][currentEpoch[r]] = k BY <1>1, <2>2 DEF KeyOpensItsRooms
      <3>2. ASSUME NEW p \in Rotators, CommitRotation(p), r \in DOMAIN plan[p].epochs
            PROVE  FALSE
        <4>1. key[k] = "active" /\ key'[k] = "active" BY <2>2 DEF ActiveKeys
        <4>2. k # plan[p].key BY <3>2, <4>1, CommitFacts
        <4>3. k \notin revoking[p] BY <1>0, <3>2, <4>1, <4>2, CommitFacts
        <4>4. k \in Spared(p) /\ pc[p] = "commit"
          BY <2>2, <3>2, <4>3 DEF Spared, CommitRotation
        <4>5. Taken(p, r) BY <1>1, <2>2, <3>2, <4>4 DEF Overtaken
        <4>. QED BY <3>2, <4>5, CommitFacts DEF Taken
      <3>3. currentEpoch'[r] = currentEpoch[r] /\ blob'[r] = blob[r]
        BY <1>1, <3>2, RoomStays
      <3>. QED BY <3>1, <3>3
    <2>. QED BY <1>1, <2>1, <2>2, CoverageCases
  <1>2. CASE r \notin LiveRooms
    <2>. USE DEF TypeOK, LiveRooms
    <2>1. r \in Rooms /\ room[r] = "absent" BY <1>2, RowsStay
    <2>2. r \notin covers[k] BY <1>0, <2>1 DEF NothingEarly
    <2>3. ASSUME NEW m \in {"e2e", "server-encrypted"}, NEW k2 \in KeyIds, NEW e \in Epochs,
                 CreateChannel(m, k2, e)
          PROVE  blob'[r][currentEpoch'[r]] = k
      <3>1. k = k2 /\ m = "e2e" /\ r = General BY <1>0, <2>2, <2>3 DEF CreateChannel
      <3>. QED BY <2>1, <2>3, <3>1 DEF CreateChannel
    <2>4. covers'[k] = covers[k] \/ r \notin covers'[k] \/ \E m \in {"e2e", "server-encrypted"}, k2 \in KeyIds, e \in Epochs :
            CreateChannel(m, k2, e)
      <3>1. ASSUME NEW p \in Rotators, CommitRotation(p) PROVE UNCHANGED room
        BY <3>1, CommitFacts
      <3>. QED BY <1>0, <1>2, <2>1, <3>1, StepCases, FrameFacts
           DEF tables, ArchiveChannel, DeleteChannel, CreateRoom, ArchiveRoom, DeleteRoom
    <2>. QED BY <2>2, <2>3, <2>4
  <1>. QED BY <1>1, <1>2

-----------------------------------------------------------------------------
(* The invariant holds at first.                                           *)
LEMMA IInvInit == Init => IInv
  <1>. SUFFICES ASSUME Init PROVE IInv OBVIOUS
  <1>1. TypeOK BY TypeInit
  <1>2. NothingEarly /\ CurrentEpochPublished /\ SomeActiveKey
    BY DEF Init, NothingEarly, CurrentEpochPublished, SomeActiveKey, LiveRooms
  <1>3. PlansMakeSense /\ NotAhead /\ Overtaken
    BY DEF Init, NoPlan, PlansMakeSense, NotAhead, Overtaken
  <1>4. KeyOpensItsRooms BY DEF Init, KeyOpensItsRooms, ActiveKeys
  <1>. QED BY <1>1, <1>2, <1>3, <1>4 DEF IInv

(* Every step keeps it.                                                    *)
LEMMA IInvStep == IInv /\ [Next]_vars => IInv'
  BY TypeStep, NothingEarlyStep, PlansMakeSenseStep, PublishedStep, SomeActiveKeyStep,
     NotAheadStep, OvertakenStep, KeyOpensItsRoomsStep
  DEF IInv

(* The inductive invariant holds in every reachable state.                 *)
THEOREM Invariance == Spec => []IInv
  BY IInvInit, IInvStep, PTL DEF Spec

(* No room that can be written to lacks the blob of its current epoch, for *)
(* any clients, however creations, deletions and rotations interleave.     *)
THEOREM EpochsHaveKeys == Spec => []CurrentEpochPublished
  BY Invariance, PTL DEF IInv

(* A channel that exists always has an access key to join with.            *)
THEOREM AKeyIsLeft == Spec => []SomeActiveKey
  BY Invariance, PTL DEF IInv

(* With clients that submit the next epoch, an active key opens every room *)
(* its rotation covered, though overlapping rotations do not revoke each   *)
(* other's keys.                                                           *)
THEOREM KeysOpenTheirRooms == Spec => []KeyOpensItsRooms
  BY Invariance, PTL DEF IInv

(* A published blob is never replaced while its room exists.               *)
THEOREM BlobsStay == Spec => BlobsAreFinal
  <1>1. ASSUME IInv, [Next]_vars
        PROVE  [\A r \in Rooms, e \in Epochs :
                  blob[r][e] # None /\ r \in LiveRooms' => blob'[r][e] = blob[r][e]]_vars
    <2>. SUFFICES ASSUME NEW r \in Rooms, NEW e \in Epochs, blob[r][e] # None, r \in LiveRooms'
                  PROVE  blob'[r][e] = blob[r][e]
      OBVIOUS
    <2>1. TypeOK /\ NothingEarly /\ PlansMakeSense BY <1>1 DEF IInv
    <2>2. r \in LiveRooms BY <2>1 DEF NothingEarly
    <2>3. ASSUME NEW p \in Rotators, CommitRotation(p), r \in DOMAIN plan[p].epochs
          PROVE  blob'[r][e] = blob[r][e]
      BY <2>1, <2>3, CommitFacts
    <2>. QED BY <1>1, <2>1, <2>2, <2>3, RoomStays
  <1>. QED BY <1>1, Invariance, PTL DEF Spec, BlobsAreFinal

(* With clients that submit the next epoch, a room's epochs advance one by *)
(* one.                                                                    *)
THEOREM EpochsNeverReturn == Spec => EpochsAdvanceByOne
  <1>1. ASSUME IInv, [Next]_vars
        PROVE  [~AnyEpoch => \A r \in LiveRooms :
                  currentEpoch'[r] \in {currentEpoch[r], currentEpoch[r] + 1}]_vars
    <2>. SUFFICES ASSUME ~AnyEpoch, NEW r \in LiveRooms
                  PROVE  currentEpoch'[r] \in {currentEpoch[r], currentEpoch[r] + 1}
      OBVIOUS
    <2>1. TypeOK /\ NothingEarly /\ PlansMakeSense /\ NotAhead BY <1>1 DEF IInv
    <2>2. ASSUME NEW p \in Rotators, CommitRotation(p), r \in DOMAIN plan[p].epochs
          PROVE  currentEpoch'[r] = currentEpoch[r] + 1
      BY <2>1, <2>2, CommitFacts, CommitAdvances
    <2>3. CASE r \in LiveRooms' BY <1>1, <2>1, <2>2, <2>3, RoomStays
    <2>4. CASE r \notin LiveRooms'
      BY <1>1, <2>4, <2>1, StepCases, FrameFacts, CommitFacts
      DEF tables, CreateChannel, ArchiveChannel, DeleteChannel, CreateRoom, ArchiveRoom,
          DeleteRoom, LiveRooms, TypeOK
    <2>. QED BY <2>3, <2>4
  <1>. QED BY <1>1, Invariance, PTL DEF Spec, EpochsAdvanceByOne
=============================================================================

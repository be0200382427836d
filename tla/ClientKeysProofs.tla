-------------------------- MODULE ClientKeysProofs --------------------------
(***************************************************************************)
(* Theorems about ClientKeys, for any clients, rooms and number of         *)
(* rotations.  The argument: an epoch row is written once, because a       *)
(* room's epochs are numbered without gaps; so a key filed from it, or     *)
(* under the label it is about to get, stays right; and every pair of id   *)
(* and secret that a client or a call works with is of one access key.     *)
(***************************************************************************)
EXTENDS ClientKeys, FiniteSetTheorems, TLAPS

(* Before the channel exists nothing does; after, its first epoch does.    *)
Started ==
  IF mode = "none" THEN gen = 0 /\ Published = {} /\ calls = {} /\ members = {}
  ELSE gen >= 1 /\ <<General, 1>> \in Published

(* The epochs of a room are those up to the current one, and there is none *)
(* that no access key was made for.                                        *)
EpochsInOrder ==
  \A r \in Rooms :
    /\ CurrentEpoch(r) \in 0..gen
    /\ \A e \in Epochs : <<r, e>> \in Published <=> e <= CurrentEpoch(r)

(* Ids and secrets belong together, kept or stored.                        *)
PairsMatch ==
  /\ \A c \in Clients : pair[c].id = pair[c].secret
  /\ \A r \in Rooms, e \in Epochs : blob[r][e].wrap.id = blob[r][e].wrap.secret

(* A call in progress: its pair belongs together; it has to open epochs    *)
(* that exist, among them those of the messages before it, until their     *)
(* keys are filed; a room created is stored with the key about to be       *)
(* filed; and a token received, and not outdated since, is held, unless    *)
(* its client was muddled.                                                 *)
CallInv(x) ==
  /\ x.wrap.id = x.wrap.secret
  /\ x.todo \subseteq Published /\ x.before \subseteq Published
  /\ x.step \in {"post", "reply", "open"} =>
       \A l \in x.before : l \in x.todo \/ keys[x.by][l] # Nobody
  /\ x.does = "room" /\ x.step = "reply" =>
       /\ <<x.room, 1>> \in Published
       /\ blob[x.room][1].key = IF mode = "e2e" THEN x.by ELSE Server
  /\ x.step = "post" => x.does = "room"
  /\ x.does = "room" => ~x.fresh
  /\ x.fresh /\ x.step \in {"fetch", "open"} => held[x.by] \/ x.by \in muddled

(* The inductive invariant.                                                *)
IInv ==
  /\ TypeOK /\ Started /\ EpochsInOrder /\ PairsMatch /\ KeysFitLabels
  /\ \A x \in calls : CallInv(x)
  /\ JoinedMeansReadable /\ TokenIsCurrent

-----------------------------------------------------------------------------
(* Names and numbers.                                                      *)

(* Nobody is nobody: the three names are different, and no client's.       *)
LEMMA NobodyIsNoAuthor ==
  /\ Nobody \notin Authors
  /\ Server # Nobody /\ Server \in Authors /\ Admin \in Authors /\ Clients \subseteq Authors
  <1>1. \A x, y : Cardinality({x, y}) # 3
    <2>. TAKE x, y
    <2>1. {x, y} = {x} \cup {y} OBVIOUS
    <2>2. IsFiniteSet({x}) /\ Cardinality({x}) = 1 BY FS_Singleton
    <2>3. Cardinality({x} \cup {y}) = 1 \/ Cardinality({x} \cup {y}) = 2
      BY <2>2, FS_AddElement
    <2>. QED BY <2>1, <2>3
  <1>2. Server # Nobody
    <2>1. Server = Nobody => {Server, Admin, Nobody} = {Server, Admin} OBVIOUS
    <2>. QED BY <1>1, <2>1, NamesAssumption
  <1>3. Admin # Nobody
    <2>1. Admin = Nobody => {Server, Admin, Nobody} = {Server, Admin} OBVIOUS
    <2>. QED BY <1>1, <2>1, NamesAssumption
  <1>. QED BY <1>2, <1>3, NamesAssumption DEF Authors

LEMMA Numbers ==
  /\ MaxGen \in Nat /\ MaxGen >= 1 /\ 1 \in Epochs /\ 1 \in Gens /\ 0 \in Gens
  /\ Unset \in Pair /\ NoBlob \in Blob /\ <<General, 1>> \in Labels
  /\ Unset.id = 0 /\ Unset.secret = 0 /\ NoBlob.key = Nobody /\ NoBlob.wrap = Unset
  BY MaxGenAssumption, RoomsAssumption DEF Epochs, Gens, Unset, Pair, NoBlob, Blob, Labels

(* Epochs without gaps are counted by their last one.                      *)
LEMMA CountEpochs ==
  ASSUME NEW P, NEW r, NEW n \in 0..MaxGen, \A e \in Epochs : <<r, e>> \in P <=> e <= n
  PROVE  Cardinality({e \in Epochs : <<r, e>> \in P}) = n
  <1>1. {e \in Epochs : <<r, e>> \in P} = 1..n BY Numbers DEF Epochs
  <1>2. n \in Int /\ 1 \in Int /\ (1 > n => n = 0) /\ n - 1 + 1 = n BY Numbers
  <1>3. Cardinality(1..n) = n BY <1>2, FS_Interval
  <1>. QED BY <1>1, <1>3

(* How EpochsInOrder is shown of the epochs a step leaves behind.          *)
LEMMA EpochsCounted ==
  ASSUME NEW last \in [Rooms -> 0..MaxGen], gen' \in Gens,
         \A r \in Rooms : last[r] <= gen',
         \A r \in Rooms, e \in Epochs : <<r, e>> \in Published' <=> e <= last[r]
  PROVE  EpochsInOrder'
  <1>1. \A r \in Rooms : CurrentEpoch(r)' = last[r]
    <2>. TAKE r \in Rooms
    <2>1. last[r] \in 0..MaxGen /\ \A e \in Epochs : <<r, e>> \in Published' <=> e <= last[r]
      OBVIOUS
    <2>. DEFINE P == Published'
    <2>2. \A e \in Epochs : <<r, e>> \in P <=> e <= last[r] BY <2>1
    <2>3. CurrentEpoch(r)' = Cardinality({e \in Epochs : <<r, e>> \in P}) BY DEF CurrentEpoch
    <2>. HIDE DEF P
    <2>. QED BY <2>1, <2>2, <2>3, CountEpochs
  <1>2. \A r \in Rooms : last[r] \in 0..gen' BY Numbers DEF Gens
  <1>. QED BY <1>1, <1>2 DEF EpochsInOrder

LEMMA RowTypes ==
  ASSUME TypeOK, NEW r \in Rooms, NEW e \in Epochs
  PROVE  /\ blob[r][e] \in Blob /\ blob[r][e].wrap \in Pair /\ <<r, e>> \in Labels
         /\ blob[r][e].key \in Authors \cup {Nobody}
         /\ <<r, e>> \in Published <=> blob[r][e].key # Nobody
  BY DEF TypeOK, Blob, Labels, Published

LEMMA LabelParts ==
  ASSUME NEW l \in Labels
  PROVE  l[1] \in Rooms /\ l[2] \in Epochs /\ l = <<l[1], l[2]>>
  BY DEF Labels

LEMMA InvInit == Init => IInv
  <1>. SUFFICES ASSUME Init PROVE IInv OBVIOUS
  <1>. USE Numbers
  <1>1. TypeOK BY DEF Init, TypeOK
  <1>2. \A r \in Rooms, e \in Epochs : blob[r][e] = NoBlob BY DEF Init
  <1>3. Published = {} BY <1>2, LabelParts DEF Published
  <1>4. Started BY <1>3 DEF Init, Started
  <1>5. EpochsInOrder
    <2>1. \A r \in Rooms : CurrentEpoch(r) = 0
      BY <1>3, CountEpochs DEF CurrentEpoch, Epochs
    <2>. QED BY <1>3, <2>1 DEF EpochsInOrder, Init, Epochs
  <1>6. PairsMatch BY <1>2 DEF Init, PairsMatch
  <1>7. KeysFitLabels BY DEF Init, KeysFitLabels
  <1>8. JoinedMeansReadable /\ TokenIsCurrent BY DEF Init, JoinedMeansReadable, TokenIsCurrent
  <1>9. \A x \in calls : CallInv(x) BY DEF Init
  <1>. QED BY <1>1, <1>4, <1>5, <1>6, <1>7, <1>8, <1>9 DEF IInv

-----------------------------------------------------------------------------
(* What steps have in common.                                              *)

(* Rows that are published stay as they are.                               *)
RowsStay == \A l \in Published : blob'[l[1]][l[2]] = blob[l[1]][l[2]]

LEMMA PublishedGrows ==
  ASSUME RowsStay
  PROVE  Published \subseteq Published'
  BY DEF RowsStay, Published

(* Every message is encrypted under a published epoch.                     *)
LEMMA MessagesPublished ==
  ASSUME IInv
  PROVE  \A m \in messages : m[1] \in Published
  <1>1. \A m \in messages : m[1] \in Labels /\ m[2] \in Authors BY DEF IInv, TypeOK
  <1>. QED BY <1>1, NobodyIsNoAuthor DEF IInv, KeysFitLabels, Published

(* Keys and messages that are right stay right.                            *)
LEMMA KeysStayRight ==
  ASSUME IInv, RowsStay, UNCHANGED <<keys, messages>>
  PROVE  KeysFitLabels'
  <1>1. \A c \in Clients, l \in Labels : keys[c][l] # Nobody => l \in Published
    BY DEF IInv, KeysFitLabels, Published
  <1>. QED BY <1>1, MessagesPublished DEF IInv, KeysFitLabels, RowsStay

(* A step that leaves channel, access key and rows alone.                  *)
LEMMA ServerStays ==
  ASSUME IInv, mode # "none", UNCHANGED <<mode, gen, blob>>
  PROVE  Started' /\ EpochsInOrder' /\ RowsStay /\ Published' = Published
  <1>1. Published' = Published BY DEF Published
  <1>2. \A r \in Rooms : CurrentEpoch(r)' = CurrentEpoch(r) BY <1>1 DEF CurrentEpoch
  <1>. QED BY <1>1, <1>2 DEF IInv, Started, EpochsInOrder, RowsStay

(* Some call is in progress, or somebody is a member: there is a channel.  *)
LEMMA ChannelExists ==
  ASSUME IInv, calls # {} \/ members # {} \/ gen # 0
  PROVE  mode # "none"
  BY DEF IInv, Started

(* A call that a step does not change keeps its invariant, if no key is    *)
(* lost and its client, if it has received a current token, is left with   *)
(* it, or muddled.                                                         *)
LEMMA CallStays ==
  ASSUME IInv, NEW x \in Call, CallInv(x), RowsStay, mode' = mode,
         \A l \in Labels : keys[x.by][l] # Nobody => keys'[x.by][l] # Nobody,
         x.fresh /\ (held[x.by] \/ x.by \in muddled) => held'[x.by] \/ x.by \in muddled'
  PROVE  CallInv(x)'
  <1>1. Published \subseteq Published' BY PublishedGrows
  <1>2. x.before \subseteq Labels BY DEF Call
  <1>3. <<x.room, 1>> \in Published => blob'[x.room][1] = blob[x.room][1] BY DEF RowsStay
  <1>. QED BY <1>1, <1>2, <1>3 DEF CallInv

(* Tokens and members as they were, and no call lost that was to bring the *)
(* current one: every member still has its token, or is about to.          *)
LEMMA TokensStay ==
  ASSUME IInv, UNCHANGED <<members, held, muddled>>,
         \A x \in calls : x.fresh => \/ held[x.by] \/ x.by \in muddled
                                   \/ \E y \in calls' : y.by = x.by /\ y.fresh
  PROVE  TokenIsCurrent'
  BY DEF IInv, TokenIsCurrent

(* A token is taken: its client is left with a current one, or muddled.    *)
LEMMA TokenTaken ==
  ASSUME IInv, NEW x \in calls, TakeToken(x), members' = members,
         \A y \in calls \ {x} : y \in calls'
  PROVE  /\ held' \in [Clients -> BOOLEAN] /\ muddled' \subseteq Clients
         /\ held'[x.by] \/ x.by \in muddled'
         /\ \A c \in Clients \ {x.by} : held'[c] = held[c] /\ (c \in muddled' <=> c \in muddled)
         /\ TokenIsCurrent'
  <1>1. x.by \in Clients /\ x.fresh \in BOOLEAN BY DEF IInv, TypeOK, Call
  <1>2. held' \in [Clients -> BOOLEAN] /\ muddled' \subseteq Clients
    BY <1>1 DEF IInv, TypeOK, TakeToken
  <1>3. held'[x.by] \/ x.by \in muddled' BY <1>1 DEF IInv, TypeOK, TakeToken
  <1>4. \A c \in Clients \ {x.by} : held'[c] = held[c] /\ (c \in muddled' <=> c \in muddled)
    BY <1>1 DEF IInv, TypeOK, TakeToken
  <1>5. TokenIsCurrent'
    <2>. SUFFICES ASSUME NEW c \in members, c \notin muddled', ~held'[c]
                  PROVE  \E y \in calls' : y.by = c /\ y.fresh
      BY DEF TokenIsCurrent
    <2>1. c \in Clients /\ c # x.by BY <1>3 DEF IInv, TypeOK
    <2>2. ~held[c] /\ c \notin muddled BY <1>4, <2>1
    <2>3. PICK y \in calls : y.by = c /\ y.fresh BY <2>2 DEF IInv, TokenIsCurrent
    <2>. QED BY <2>1, <2>3
  <1>. QED BY <1>2, <1>3, <1>4, <1>5

(* Calls are as before, or new and right.                                  *)
LEMMA CallsStay ==
  ASSUME IInv, RowsStay, mode' = mode,
         \A c \in Clients, l \in Labels : keys[c][l] # Nobody => keys'[c][l] # Nobody,
         \A c \in Clients : held[c] \/ c \in muddled => held'[c] \/ c \in muddled',
         NEW new \in SUBSET Call, calls' \subseteq calls \cup new,
         \A x \in new : CallInv(x)'
  PROVE  calls' \subseteq Call /\ \A x \in calls' : CallInv(x)'
  <1>1. ASSUME NEW x \in calls PROVE x \in Call /\ CallInv(x)'
    <2>1. x \in Call /\ x.by \in Clients /\ CallInv(x) BY DEF IInv, TypeOK, Call
    <2>. QED BY <2>1, CallStays
  <1>. QED BY <1>1

(* The same when no call is new.                                           *)
LEMMA CallsOnlyEnd ==
  ASSUME IInv, RowsStay, mode' = mode,
         \A c \in Clients, l \in Labels : keys[c][l] # Nobody => keys'[c][l] # Nobody,
         \A c \in Clients : held[c] \/ c \in muddled => held'[c] \/ c \in muddled',
         calls' \subseteq calls
  PROVE  calls' \subseteq Call /\ \A x \in calls' : CallInv(x)'
  <1>1. {} \in SUBSET Call /\ calls' \subseteq calls \cup {} OBVIOUS
  <1>2. \A x \in {} : CallInv(x)' OBVIOUS
  <1>. QED BY <1>1, <1>2, CallsStay

(* A call that waits for a new token: the others of its client are         *)
(* outdated by it.                                                         *)
LEMMA AwaitFacts ==
  ASSUME IInv, NEW x \in Call, Await(x), x.fresh, held' = [held EXCEPT ![x.by] = FALSE],
         mode' = mode, UNCHANGED <<muddled, keys, blob>>, members' \subseteq members \cup {x.by},
         CallInv(x)'
  PROVE  /\ calls' \subseteq Call /\ \A y \in calls' : CallInv(y)'
         /\ held' \in [Clients -> BOOLEAN] /\ TokenIsCurrent'
  <1>. DEFINE c == x.by
              Old(y) == [y EXCEPT !.fresh = FALSE]
  <1>1. c \in Clients BY DEF Call
  <1>2. held' \in [Clients -> BOOLEAN] /\ \A d \in Clients \ {c} : held'[d] = held[d]
    BY <1>1 DEF IInv, TypeOK
  <1>3. RowsStay BY DEF RowsStay
  <1>4. calls' = {IF y.by = c THEN Old(y) ELSE y : y \in calls} \cup {x} BY DEF Await
  <1>5. ASSUME NEW y \in calls, y.by # c PROVE y \in Call /\ CallInv(y)'
    <2>1. y \in Call /\ y.by \in Clients /\ CallInv(y) BY DEF IInv, TypeOK, Call
    <2>. QED BY <1>2, <1>3, <1>5, <2>1, CallStays
  <1>6. ASSUME NEW y \in calls PROVE Old(y) \in Call /\ CallInv(Old(y))'
    <2>1. y \in Call /\ CallInv(y) BY DEF IInv, TypeOK
    <2>2. /\ Old(y) \in Call /\ Old(y).fresh = FALSE
          /\ Old(y).by = y.by /\ Old(y).does = y.does /\ Old(y).step = y.step /\ Old(y).wrap = y.wrap
          /\ Old(y).room = y.room /\ Old(y).todo = y.todo /\ Old(y).before = y.before
      BY <2>1 DEF Call
    <2>. HIDE DEF Old
    <2>3. CallInv(Old(y)) BY <2>1, <2>2 DEF CallInv
    <2>. QED BY <1>3, <2>2, <2>3, CallStays
  <1>7. calls' \subseteq Call /\ \A y \in calls' : CallInv(y)'
    <2>. HIDE DEF Old
    <2>. QED BY <1>4, <1>5, <1>6
  <1>8. TokenIsCurrent'
    <2>. SUFFICES ASSUME NEW d \in members', d \notin muddled, ~held'[d]
                  PROVE  \E y \in calls' : y.by = d /\ y.fresh
      BY DEF TokenIsCurrent
    <2>1. CASE d = c BY <1>4, <2>1
    <2>2. CASE d # c
      <3>1. d \in members /\ d \in Clients BY <2>2 DEF IInv, TypeOK
      <3>2. ~held[d] BY <1>2, <2>2, <3>1
      <3>3. PICK y \in calls : y.by = d /\ y.fresh BY <3>1, <3>2 DEF IInv, TokenIsCurrent
      <3>4. y \in calls' BY <1>4, <2>2, <3>3
      <3>. QED BY <3>3, <3>4
    <2>. QED BY <2>1, <2>2
  <1>. QED BY <1>2, <1>7, <1>8

(* A new call has nothing to open and works with no pair yet.              *)
LEMMA NewCallFacts ==
  ASSUME NEW c \in Clients,
         NEW does \in {"create", "join", "room", "remint"},
         NEW step \in {"post", "list", "reply", "fetch", "open"}
  PROVE  /\ NewCall(c, does, step) \in Call
         /\ NewCall(c, does, step).by = c /\ NewCall(c, does, step).does = does
         /\ NewCall(c, does, step).step = step /\ NewCall(c, does, step).fresh
         /\ NewCall(c, does, step).wrap = Unset
         /\ NewCall(c, does, step).todo = {} /\ NewCall(c, does, step).before = {}
  BY Numbers, RoomsAssumption DEF NewCall, Call

-----------------------------------------------------------------------------
(* Creating the channel.                                                   *)

LEMMA PostChannelStep ==
  ASSUME IInv, NEW c \in Clients, NEW m \in {"e2e", "server"}, PostChannel(c, m)
  PROVE  IInv'
  <1>. DEFINE new == NewCall(c, "create", "reply")
              first == IF m = "e2e" THEN [key |-> c, wrap |-> [id |-> 1, secret |-> 1]]
                       ELSE [key |-> Server, wrap |-> Unset]
  <1>1. /\ mode = "none" /\ mode' = m /\ gen' = 1
        /\ blob' = [blob EXCEPT ![General][1] = first]
        /\ members' = {c} /\ held' = [held EXCEPT ![c] = FALSE]
        /\ Await(new) /\ UNCHANGED <<messages, pair, keys, muddled, owed>>
    BY DEF PostChannel, client
  <1>2. gen = 0 /\ Published = {} /\ calls = {} BY <1>1 DEF IInv, Started
  <1>3. first \in Blob /\ first.key # Nobody /\ first.key \in Authors
        /\ first.wrap.id = first.wrap.secret
    BY NobodyIsNoAuthor, Numbers DEF Blob, Pair
  <1>. HIDE DEF first
  <1>4. /\ blob' \in [Rooms -> [Epochs -> Blob]] /\ blob'[General][1] = first
        /\ \A r \in Rooms, e \in Epochs : r # General \/ e # 1 => blob'[r][e] = blob[r][e]
    BY <1>1, <1>3, Numbers, RoomsAssumption DEF IInv, TypeOK
  <1>5. calls' = {new} BY <1>1, <1>2 DEF Await
  <1>6. new \in Call /\ new.by = c /\ new.does = "create" /\ new.step = "reply" /\ new.fresh
        /\ new.wrap = Unset /\ new.todo = {} /\ new.before = {}
    BY NewCallFacts
  <1>. HIDE DEF new
  <1>7. \A r \in Rooms, e \in Epochs : <<r, e>> \in Published' <=> r = General /\ e = 1
    <2>1. \A r \in Rooms, e \in Epochs : blob[r][e].key = Nobody BY <1>2, RowTypes DEF IInv
    <2>2. \A r \in Rooms, e \in Epochs : <<r, e>> \in Published' <=> blob'[r][e].key # Nobody
      BY DEF Published, Labels
    <2>. QED BY <1>3, <1>4, <2>1, <2>2
  <1>8. TypeOK'
    BY <1>1, <1>4, <1>5, <1>6, Numbers DEF IInv, TypeOK
  <1>9. Started' BY <1>1, <1>7, Numbers, RoomsAssumption DEF Started
  <1>10. EpochsInOrder'
    <2>. DEFINE last == [r \in Rooms |-> IF r = General THEN 1 ELSE 0]
    <2>1. last \in [Rooms -> 0..MaxGen] /\ gen' \in Gens BY <1>1, Numbers
    <2>2. \A r \in Rooms : last[r] <= gen' BY <1>1
    <2>3. \A r \in Rooms, e \in Epochs : <<r, e>> \in Published' <=> e <= last[r]
      <3>. TAKE r \in Rooms, e \in Epochs
      <3>1. e \in Nat /\ e >= 1 BY Numbers DEF Epochs
      <3>2. last[r] = IF r = General THEN 1 ELSE 0 OBVIOUS
      <3>3. e <= last[r] <=> r = General /\ e = 1 BY <3>1, <3>2
      <3>. QED BY <1>7, <3>3
    <2>. HIDE DEF last
    <2>. QED BY <2>1, <2>2, <2>3, EpochsCounted
  <1>11. PairsMatch' BY <1>1, <1>3, <1>4 DEF IInv, PairsMatch
  <1>12. KeysFitLabels' BY <1>1, <1>2, KeysStayRight DEF RowsStay
  <1>13. \A x \in calls' : CallInv(x)' BY <1>5, <1>6, Numbers DEF CallInv
  <1>14. JoinedMeansReadable' BY <1>1 DEF IInv, JoinedMeansReadable
  <1>15. TokenIsCurrent' BY <1>1, <1>5, <1>6 DEF TokenIsCurrent
  <1>. QED BY <1>8, <1>9, <1>10, <1>11, <1>12, <1>13, <1>14, <1>15 DEF IInv

(* Filing the key of a row that is published.                              *)
LEMMA FileKey ==
  ASSUME IInv, NEW c \in Clients, NEW l \in Published,
         keys' = [keys EXCEPT ![c][l] = blob[l[1]][l[2]].key], UNCHANGED <<blob, messages, owed>>
  PROVE  /\ keys' \in [Clients -> [Labels -> Authors \cup {Nobody}]]
         /\ KeysFitLabels' /\ JoinedMeansReadable' /\ keys'[c][l] # Nobody
         /\ \A d \in Clients, k \in Labels : keys[d][k] # Nobody => keys'[d][k] # Nobody
  <1>1. l \in Labels /\ blob[l[1]][l[2]].key # Nobody BY DEF Published
  <1>2. blob[l[1]][l[2]].key \in Authors
    BY <1>1, LabelParts, RowTypes DEF IInv
  <1>3. /\ keys' \in [Clients -> [Labels -> Authors \cup {Nobody}]]
        /\ keys'[c][l] = blob[l[1]][l[2]].key
        /\ \A d \in Clients, k \in Labels : d # c \/ k # l => keys'[d][k] = keys[d][k]
    BY <1>1, <1>2 DEF IInv, TypeOK
  <1>4. \A d \in Clients, k \in Labels : keys[d][k] # Nobody => keys'[d][k] # Nobody
    BY <1>1, <1>3
  <1>5. KeysFitLabels' BY <1>3 DEF IInv, KeysFitLabels
  <1>6. JoinedMeansReadable' BY <1>4 DEF IInv, JoinedMeansReadable
  <1>. QED BY <1>1, <1>3, <1>4, <1>5, <1>6

(* Remembering a pair whose id and secret are of one access key.           *)
LEMMA RememberFacts ==
  ASSUME IInv, NEW c \in Clients, NEW g \in Gens, Remember(c, g)
  PROVE  pair' \in [Clients -> Pair] /\ \A d \in Clients : pair'[d].id = pair'[d].secret
  <1>1. [id |-> g, secret |-> g] \in Pair BY DEF Pair
  <1>2. pair' \in [Clients -> Pair] BY <1>1 DEF IInv, TypeOK, Remember
  <1>3. \A d \in Clients : pair'[d] = pair[d] \/ pair'[d] = [id |-> g, secret |-> g]
    BY DEF IInv, TypeOK, Remember
  <1>. QED BY <1>2, <1>3 DEF IInv, PairsMatch

(* A stored secret's pair of the channel keeps PairsMatch if the rows stay.*)
LEMMA PairsStay ==
  ASSUME IInv, blob' = blob, \A d \in Clients : pair'[d].id = pair'[d].secret
  PROVE  PairsMatch'
  BY DEF IInv, PairsMatch

LEMMA ChannelCreatedStep ==
  ASSUME IInv, NEW x \in calls, ChannelCreated(x)
  PROVE  IInv'
  <1>1. /\ TakeToken(x) /\ Remember(x.by, 1) /\ calls' = calls \ {x}
        /\ keys' = [keys EXCEPT ![x.by][<<General, 1>>] = blob[General][1].key]
        /\ UNCHANGED <<mode, gen, blob, messages, members, owed>>
    BY DEF ChannelCreated, server
  <1>2. x.by \in Clients /\ mode # "none" /\ <<General, 1>> \in Published
    BY ChannelExists DEF IInv, TypeOK, Call, Started
  <1>3. Started' /\ EpochsInOrder' /\ RowsStay BY <1>1, <1>2, ServerStays
  <1>4. /\ keys' \in [Clients -> [Labels -> Authors \cup {Nobody}]]
        /\ KeysFitLabels' /\ JoinedMeansReadable'
        /\ \A d \in Clients, k \in Labels : keys[d][k] # Nobody => keys'[d][k] # Nobody
    BY <1>1, <1>2, FileKey
  <1>5. /\ held' \in [Clients -> BOOLEAN] /\ muddled' \subseteq Clients /\ TokenIsCurrent'
        /\ \A c \in Clients : held[c] \/ c \in muddled => held'[c] \/ c \in muddled'
    BY <1>1, TokenTaken
  <1>6. pair' \in [Clients -> Pair] /\ PairsMatch'
    BY <1>1, <1>2, RememberFacts, PairsStay, Numbers
  <1>7. calls' \subseteq Call /\ \A y \in calls' : CallInv(y)'
    BY <1>1, <1>3, <1>4, <1>5, CallsOnlyEnd
  <1>8. TypeOK' BY <1>1, <1>4, <1>5, <1>6, <1>7 DEF IInv, TypeOK
  <1>. QED BY <1>3, <1>4, <1>5, <1>6, <1>7, <1>8 DEF IInv

-----------------------------------------------------------------------------
(* Joining.                                                                *)

LEMMA PostJoinStep ==
  ASSUME IInv, NEW c \in Clients, PostJoin(c)
  PROVE  IInv'
  <1>1. /\ gen # 0 /\ members' = members \cup {c} /\ held' = [held EXCEPT ![c] = FALSE]
        /\ UNCHANGED <<mode, gen, blob, messages, pair, keys, muddled, owed>>
    BY DEF PostJoin, client
  <1>2. Started' /\ EpochsInOrder' /\ RowsStay /\ Published' = Published
    BY <1>1, ChannelExists, ServerStays
  <1>3. [id |-> gen, secret |-> gen] \in Pair BY DEF IInv, TypeOK, Pair
  <1>4. {m[1] : m \in messages} \subseteq Published BY MessagesPublished
  <1>5. Published \subseteq Labels BY DEF Published
  <1>. PICK new : new = [NewCall(c, "join", "list") EXCEPT !.wrap = [id |-> gen, secret |-> gen],
                                                         !.before = {m[1] : m \in messages}]
    OBVIOUS
  <1>6. /\ new \in Call /\ new.by = c /\ new.does = "join" /\ new.step = "list" /\ new.fresh
        /\ new.wrap = [id |-> gen, secret |-> gen] /\ new.todo = {}
        /\ new.before = {m[1] : m \in messages} /\ Await(new)
    <2>. DEFINE base == NewCall(c, "join", "list")
    <2>1. base \in Call /\ base.by = c /\ base.does = "join" /\ base.step = "list" /\ base.fresh
          /\ base.todo = {}
      BY NewCallFacts
    <2>2. Await(new) BY DEF PostJoin
    <2>3. new = [base EXCEPT !.wrap = [id |-> gen, secret |-> gen],
                             !.before = {m[1] : m \in messages}]
      OBVIOUS
    <2>4. {m[1] : m \in messages} \in SUBSET Labels BY <1>4, <1>5
    <2>. HIDE DEF base
    <2>5. new \in Call BY <1>3, <2>1, <2>3, <2>4 DEF Call
    <2>6. /\ new.by = c /\ new.does = "join" /\ new.step = "list" /\ new.fresh
          /\ new.wrap = [id |-> gen, secret |-> gen] /\ new.todo = {}
          /\ new.before = {m[1] : m \in messages}
      BY <2>1, <2>3 DEF Call
    <2>. QED BY <2>2, <2>5, <2>6
  <1>7. CallInv(new)' BY <1>2, <1>4, <1>6 DEF CallInv
  <1>8. /\ calls' \subseteq Call /\ \A y \in calls' : CallInv(y)'
        /\ held' \in [Clients -> BOOLEAN] /\ TokenIsCurrent'
    BY <1>1, <1>6, <1>7, AwaitFacts
  <1>9. TypeOK' BY <1>1, <1>8 DEF IInv, TypeOK
  <1>10. PairsMatch' /\ KeysFitLabels' /\ JoinedMeansReadable'
    BY <1>1, <1>2, KeysStayRight DEF IInv, PairsMatch, JoinedMeansReadable
  <1>. QED BY <1>2, <1>8, <1>9, <1>10 DEF IInv

LEMMA ListEpochsStep ==
  ASSUME IInv, NEW x \in calls, ListEpochs(x)
  PROVE  IInv'
  <1>. PICK y : y = [x EXCEPT !.step = "reply", !.todo = Published] OBVIOUS
  <1>1. /\ x.does = "join" /\ calls' = (calls \ {x}) \cup {y}
        /\ UNCHANGED <<mode, gen, blob, messages, members, pair, keys, held, muddled, owed>>
    BY DEF ListEpochs, server, client, tokens
  <1>2. x \in Call /\ CallInv(x) BY DEF IInv, TypeOK
  <1>3. Published \subseteq Labels BY DEF Published
  <1>4. /\ y \in Call /\ y.by = x.by /\ y.does = x.does /\ y.step = "reply" /\ y.wrap = x.wrap
        /\ y.todo = Published /\ y.before = x.before /\ y.fresh = x.fresh
    BY <1>2, <1>3 DEF Call
  <1>5. Started' /\ EpochsInOrder' /\ RowsStay /\ Published' = Published
    BY <1>1, ChannelExists, ServerStays
  <1>6. CallInv(y)' BY <1>1, <1>2, <1>4, <1>5 DEF CallInv
  <1>7. calls' \subseteq Call /\ \A z \in calls' : CallInv(z)'
    <2>1. {y} \in SUBSET Call /\ calls' \subseteq calls \cup {y} /\ \A z \in {y} : CallInv(z)'
      BY <1>1, <1>4, <1>6
    <2>. QED BY <1>1, <1>5, <2>1, CallsStay
  <1>8. TokenIsCurrent' BY <1>1, <1>4, TokensStay
  <1>9. TypeOK' BY <1>1, <1>7 DEF IInv, TypeOK
  <1>10. PairsMatch' /\ KeysFitLabels' /\ JoinedMeansReadable'
    BY <1>1, <1>5, KeysStayRight DEF IInv, PairsMatch, JoinedMeansReadable
  <1>. QED BY <1>5, <1>7, <1>8, <1>9, <1>10 DEF IInv

LEMMA JoinedStep ==
  ASSUME IInv, NEW x \in calls, Joined(x)
  PROVE  IInv'
  <1>. PICK y : y = [x EXCEPT !.step = IF mode = "e2e" THEN "open" ELSE "fetch"] OBVIOUS
  <1>1. /\ x.does = "join" /\ x.step = "reply" /\ TakeToken(x) /\ Remember(x.by, x.wrap.id)
        /\ calls' = (calls \ {x}) \cup {y}
        /\ UNCHANGED <<mode, gen, blob, messages, members, keys, owed>>
    BY DEF Joined, server
  <1>2. x \in Call /\ CallInv(x) /\ x.by \in Clients /\ x.wrap.id \in Gens
    BY DEF IInv, TypeOK, Call, Pair
  <1>3. /\ y \in Call /\ y.by = x.by /\ y.does = x.does /\ y.step \in {"open", "fetch"}
        /\ y.wrap = x.wrap /\ y.todo = x.todo /\ y.before = x.before /\ y.fresh = x.fresh
    BY <1>2 DEF Call
  <1>4. Started' /\ EpochsInOrder' /\ RowsStay /\ Published' = Published
    BY <1>1, ChannelExists, ServerStays
  <1>5. /\ held' \in [Clients -> BOOLEAN] /\ muddled' \subseteq Clients /\ TokenIsCurrent'
        /\ held'[x.by] \/ x.by \in muddled'
        /\ \A c \in Clients : held[c] \/ c \in muddled => held'[c] \/ c \in muddled'
    BY <1>1, TokenTaken
  <1>6. CallInv(y)' BY <1>1, <1>2, <1>3, <1>4, <1>5 DEF CallInv
  <1>7. calls' \subseteq Call /\ \A z \in calls' : CallInv(z)'
    <2>1. {y} \in SUBSET Call /\ calls' \subseteq calls \cup {y} /\ \A z \in {y} : CallInv(z)'
      BY <1>1, <1>3, <1>6
    <2>. QED BY <1>1, <1>4, <1>5, <2>1, CallsStay
  <1>8. pair' \in [Clients -> Pair] /\ PairsMatch' BY <1>1, <1>2, RememberFacts, PairsStay
  <1>9. TypeOK' BY <1>1, <1>5, <1>7, <1>8 DEF IInv, TypeOK
  <1>10. KeysFitLabels' /\ JoinedMeansReadable'
    BY <1>1, <1>4, KeysStayRight DEF IInv, JoinedMeansReadable
  <1>. QED BY <1>4, <1>5, <1>7, <1>8, <1>9, <1>10 DEF IInv

LEMMA FetchKeysStep ==
  ASSUME IInv, NEW x \in calls, FetchKeys(x)
  PROVE  IInv'
  <1>. PICK y : y = [x EXCEPT !.step = "open", !.todo = Published] OBVIOUS
  <1>1. /\ x.step = "fetch" /\ calls' = (calls \ {x}) \cup {y}
        /\ UNCHANGED <<mode, gen, blob, messages, members, pair, keys, held, muddled, owed>>
    BY DEF FetchKeys, server, client, tokens
  <1>2. x \in Call /\ CallInv(x) BY DEF IInv, TypeOK
  <1>3. Published \subseteq Labels BY DEF Published
  <1>4. /\ y \in Call /\ y.by = x.by /\ y.does = x.does /\ y.step = "open" /\ y.wrap = x.wrap
        /\ y.todo = Published /\ y.before = x.before /\ y.fresh = x.fresh
    BY <1>2, <1>3 DEF Call
  <1>5. Started' /\ EpochsInOrder' /\ RowsStay /\ Published' = Published
    BY <1>1, ChannelExists, ServerStays
  <1>6. CallInv(y)' BY <1>1, <1>2, <1>4, <1>5 DEF CallInv
  <1>7. calls' \subseteq Call /\ \A z \in calls' : CallInv(z)'
    <2>1. {y} \in SUBSET Call /\ calls' \subseteq calls \cup {y} /\ \A z \in {y} : CallInv(z)'
      BY <1>1, <1>4, <1>6
    <2>. QED BY <1>1, <1>5, <2>1, CallsStay
  <1>8. TokenIsCurrent' BY <1>1, <1>4, TokensStay
  <1>9. TypeOK' BY <1>1, <1>7 DEF IInv, TypeOK
  <1>10. PairsMatch' /\ KeysFitLabels' /\ JoinedMeansReadable'
    BY <1>1, <1>5, KeysStayRight DEF IInv, PairsMatch, JoinedMeansReadable
  <1>. QED BY <1>5, <1>7, <1>8, <1>9, <1>10 DEF IInv

LEMMA OpenBlobStep ==
  ASSUME IInv, NEW x \in calls, NEW l \in Labels, OpenBlob(x, l)
  PROVE  IInv'
  <1>. PICK y : y = [x EXCEPT !.todo = @ \ {l}] OBVIOUS
  <1>1. /\ x.step = "open" /\ l \in x.todo /\ calls' = (calls \ {x}) \cup {y}
        /\ keys' = [keys EXCEPT ![x.by][l] = blob[l[1]][l[2]].key]
        /\ UNCHANGED <<mode, gen, blob, messages, members, pair, held, muddled, owed>>
    BY DEF OpenBlob, server, tokens
  <1>2. x \in Call /\ CallInv(x) /\ x.by \in Clients BY DEF IInv, TypeOK, Call
  <1>3. l \in Published BY <1>1, <1>2 DEF CallInv
  <1>4. /\ y \in Call /\ y.by = x.by /\ y.does = x.does /\ y.step = "open" /\ y.wrap = x.wrap
        /\ y.todo = x.todo \ {l} /\ y.before = x.before /\ y.fresh = x.fresh
    BY <1>1, <1>2 DEF Call
  <1>5. Started' /\ EpochsInOrder' /\ RowsStay /\ Published' = Published
    BY <1>1, ChannelExists, ServerStays
  <1>6. /\ keys' \in [Clients -> [Labels -> Authors \cup {Nobody}]]
        /\ KeysFitLabels' /\ JoinedMeansReadable' /\ keys'[x.by][l] # Nobody
        /\ \A d \in Clients, k \in Labels : keys[d][k] # Nobody => keys'[d][k] # Nobody
    BY <1>1, <1>2, <1>3, FileKey
  <1>7. CallInv(y)'
    <2>1. x.before \subseteq Labels BY <1>2 DEF Call
    <2>2. \A k \in x.before : k \in y.todo \/ keys'[x.by][k] # Nobody
      BY <1>1, <1>2, <1>4, <1>6, <2>1 DEF CallInv
    <2>. QED BY <1>1, <1>2, <1>4, <1>5, <2>2 DEF CallInv
  <1>8. calls' \subseteq Call /\ \A z \in calls' : CallInv(z)'
    <2>1. {y} \in SUBSET Call /\ calls' \subseteq calls \cup {y} /\ \A z \in {y} : CallInv(z)'
      BY <1>1, <1>4, <1>7
    <2>. QED BY <1>1, <1>5, <1>6, <2>1, CallsStay
  <1>9. TokenIsCurrent' BY <1>1, <1>4, TokensStay
  <1>10. TypeOK' /\ PairsMatch' BY <1>1, <1>6, <1>8 DEF IInv, TypeOK, PairsMatch
  <1>. QED BY <1>5, <1>6, <1>8, <1>9, <1>10 DEF IInv

LEMMA EndJoinStep ==
  ASSUME IInv, NEW x \in calls, EndJoin(x)
  PROVE  IInv'
  <1>1. /\ x.step = "open" /\ x.todo = {} /\ calls' = calls \ {x}
        /\ owed' = [owed EXCEPT ![x.by] = @ \cup x.before]
        /\ UNCHANGED <<mode, gen, blob, messages, members, pair, keys, held, muddled>>
    BY DEF EndJoin, Complete, server, client, tokens
  <1>2. x \in Call /\ CallInv(x) /\ x.by \in Clients /\ x.before \subseteq Labels
    BY DEF IInv, TypeOK, Call
  <1>3. Started' /\ EpochsInOrder' /\ RowsStay BY <1>1, ChannelExists, ServerStays
  <1>4. owed' \in [Clients -> SUBSET Labels] BY <1>1, <1>2 DEF IInv, TypeOK
  <1>5. JoinedMeansReadable'
    <2>. SUFFICES ASSUME NEW c \in Clients, NEW l \in Labels, l \in owed'[c]
                  PROVE  keys[c][l] # Nobody
      BY <1>1 DEF JoinedMeansReadable
    <2>1. l \in owed[c] \/ (c = x.by /\ l \in x.before) BY <1>1 DEF IInv, TypeOK
    <2>2. \A k \in x.before : keys[x.by][k] # Nobody BY <1>1, <1>2 DEF CallInv
    <2>. QED BY <2>1, <2>2 DEF IInv, JoinedMeansReadable
  <1>6. calls' \subseteq Call /\ \A z \in calls' : CallInv(z)' BY <1>1, <1>3, CallsOnlyEnd
  <1>7. TokenIsCurrent'
    <2>1. x.fresh => held[x.by] \/ x.by \in muddled BY <1>1, <1>2 DEF CallInv
    <2>. QED BY <1>1, <2>1, TokensStay
  <1>8. TypeOK' BY <1>1, <1>4, <1>6 DEF IInv, TypeOK
  <1>9. PairsMatch' /\ KeysFitLabels' BY <1>1, <1>3, KeysStayRight DEF IInv, PairsMatch
  <1>. QED BY <1>3, <1>5, <1>6, <1>7, <1>8, <1>9 DEF IInv

-----------------------------------------------------------------------------
(* Creating a room.                                                        *)

LEMMA StartRoomStep ==
  ASSUME IInv, NEW c \in Clients, StartRoom(c)
  PROVE  IInv'
  <1>. PICK y : y = [NewCall(c, "room", "post") EXCEPT !.wrap = pair[c], !.fresh = FALSE] OBVIOUS
  <1>1. /\ gen # 0 /\ calls' = calls \cup {y}
        /\ UNCHANGED <<mode, gen, blob, messages, members, pair, keys, held, muddled, owed>>
    BY DEF StartRoom, server, client, tokens
  <1>2. pair[c] \in Pair /\ pair[c].id = pair[c].secret BY DEF IInv, TypeOK, PairsMatch
  <1>3. /\ y \in Call /\ y.by = c /\ y.does = "room" /\ y.step = "post" /\ y.wrap = pair[c]
        /\ y.todo = {} /\ y.before = {} /\ y.fresh = FALSE
    <2>. DEFINE base == NewCall(c, "room", "post")
    <2>1. base \in Call /\ base.by = c /\ base.does = "room" /\ base.step = "post"
          /\ base.todo = {} /\ base.before = {}
      BY NewCallFacts
    <2>2. y = [base EXCEPT !.wrap = pair[c], !.fresh = FALSE] OBVIOUS
    <2>. HIDE DEF base
    <2>. QED BY <1>2, <2>1, <2>2 DEF Call
  <1>4. Started' /\ EpochsInOrder' /\ RowsStay BY <1>1, ChannelExists, ServerStays
  <1>5. CallInv(y)' BY <1>2, <1>3 DEF CallInv
  <1>6. calls' \subseteq Call /\ \A z \in calls' : CallInv(z)'
    <2>1. {y} \in SUBSET Call /\ calls' \subseteq calls \cup {y} /\ \A z \in {y} : CallInv(z)'
      BY <1>1, <1>3, <1>5
    <2>. QED BY <1>1, <1>4, <2>1, CallsStay
  <1>7. TokenIsCurrent' BY <1>1, TokensStay
  <1>8. TypeOK' BY <1>1, <1>6 DEF IInv, TypeOK
  <1>9. PairsMatch' /\ KeysFitLabels' /\ JoinedMeansReadable'
    BY <1>1, <1>4, KeysStayRight DEF IInv, PairsMatch, JoinedMeansReadable
  <1>. QED BY <1>4, <1>6, <1>7, <1>8, <1>9 DEF IInv

LEMMA PostRoomStep ==
  ASSUME IInv, NEW x \in calls, PostRoom(x)
  PROVE  IInv'
  <1>1. /\ x.does = "room" /\ x.step = "post"
        /\ UNCHANGED <<mode, gen, messages, members, pair, keys, held, muddled, owed>>
    BY DEF PostRoom, client, tokens
  <1>. PICK r \in Rooms \ LiveRooms :
         /\ blob' = [blob EXCEPT ![r][1] =
              IF mode = "e2e" THEN [key |-> x.by, wrap |-> WrappedUnder(x)]
              ELSE [key |-> Server, wrap |-> Unset]]
         /\ calls' = (calls \ {x}) \cup {[x EXCEPT !.step = "reply", !.room = r]}
    BY DEF PostRoom
  <1>. PICK y : y = [x EXCEPT !.step = "reply", !.room = r] OBVIOUS
  <1>. DEFINE row == IF mode = "e2e" THEN [key |-> x.by, wrap |-> WrappedUnder(x)]
                     ELSE [key |-> Server, wrap |-> Unset]
  <1>2. x \in Call /\ CallInv(x) /\ x.by \in Clients /\ x.wrap \in Pair
    BY DEF IInv, TypeOK, Call
  <1>3. mode # "none" /\ gen \in Gens /\ gen >= 1 BY ChannelExists DEF IInv, TypeOK, Started
  <1>4. /\ row \in Blob /\ row.key \in Authors /\ row.wrap.id = row.wrap.secret
        /\ row.key = IF mode = "e2e" THEN x.by ELSE Server
    BY <1>2, NobodyIsNoAuthor, Numbers DEF WrappedUnder, Blob, CallInv
  <1>. HIDE DEF row
  <1>5. /\ blob' \in [Rooms -> [Epochs -> Blob]] /\ blob'[r][1] = row
        /\ \A q \in Rooms, e \in Epochs : q # r \/ e # 1 => blob'[q][e] = blob[q][e]
    <2>1. blob' = [blob EXCEPT ![r][1] = row] BY DEF row
    <2>. QED BY <1>4, <2>1, Numbers DEF IInv, TypeOK
  <1>6. CurrentEpoch(r) = 0 /\ \A e \in Epochs : <<r, e>> \notin Published
    <2>1. CurrentEpoch(r) = 0 BY DEF LiveRooms
    <2>. QED BY <2>1, Numbers DEF IInv, EpochsInOrder, Epochs
  <1>7. \A q \in Rooms, e \in Epochs :
          <<q, e>> \in Published' <=> <<q, e>> \in Published \/ (q = r /\ e = 1)
    <2>1. \A q \in Rooms, e \in Epochs : <<q, e>> \in Published' <=> blob'[q][e].key # Nobody
      BY DEF Published, Labels
    <2>2. \A q \in Rooms, e \in Epochs : <<q, e>> \in Published <=> blob[q][e].key # Nobody
      BY DEF Published, Labels
    <2>3. r \in Rooms /\ row.key # Nobody BY <1>4, NobodyIsNoAuthor
    <2>. TAKE q \in Rooms, e \in Epochs
    <2>4. CASE q = r /\ e = 1 BY <1>5, <2>1, <2>3, <2>4
    <2>5. CASE q # r \/ e # 1 BY <1>5, <2>1, <2>2, <2>5
    <2>. QED BY <2>4, <2>5
  <1>8. RowsStay
    <2>. SUFFICES ASSUME NEW l \in Published PROVE blob'[l[1]][l[2]] = blob[l[1]][l[2]]
      BY DEF RowsStay
    <2>1. l[1] \in Rooms /\ l[2] \in Epochs /\ l = <<l[1], l[2]>> BY LabelParts DEF Published
    <2>2. l[1] # r BY <1>6, <2>1
    <2>. QED BY <1>5, <2>1, <2>2
  <1>9. Started' BY <1>1, <1>3, <1>7, <1>8, PublishedGrows DEF IInv, Started
  <1>10. EpochsInOrder'
    <2>. DEFINE last == [q \in Rooms |-> IF q = r THEN 1 ELSE CurrentEpoch(q)]
    <2>1. \A q \in Rooms : CurrentEpoch(q) \in 0..gen
      BY DEF IInv, EpochsInOrder
    <2>2. last \in [Rooms -> 0..MaxGen] /\ gen' \in Gens
      BY <1>1, <1>3, <2>1, Numbers DEF Gens
    <2>3. \A q \in Rooms : last[q] <= gen'
      BY <1>1, <1>3, <2>1, Numbers DEF Gens
    <2>4. \A q \in Rooms, e \in Epochs : <<q, e>> \in Published' <=> e <= last[q]
      <3>. TAKE q \in Rooms, e \in Epochs
      <3>1. e \in Nat /\ e >= 1 BY Numbers DEF Epochs
      <3>2. last[q] = IF q = r THEN 1 ELSE CurrentEpoch(q) OBVIOUS
      <3>3. <<q, e>> \in Published <=> e <= CurrentEpoch(q) BY DEF IInv, EpochsInOrder
      <3>4. CASE q = r BY <1>6, <1>7, <3>1, <3>2, <3>4
      <3>5. CASE q # r BY <1>7, <3>2, <3>3, <3>5
      <3>. QED BY <3>4, <3>5
    <2>. HIDE DEF last
    <2>. QED BY <2>2, <2>3, <2>4, EpochsCounted
  <1>11. PairsMatch'
    <2>1. \A q \in Rooms, e \in Epochs : blob'[q][e].wrap.id = blob'[q][e].wrap.secret
      BY <1>4, <1>5 DEF IInv, PairsMatch
    <2>. QED BY <1>1, <2>1 DEF IInv, PairsMatch
  <1>12. /\ y \in Call /\ y.by = x.by /\ y.does = "room" /\ y.step = "reply" /\ y.wrap = x.wrap
         /\ y.room = r /\ y.todo = x.todo /\ y.before = x.before /\ y.fresh = x.fresh
    BY <1>1, <1>2 DEF Call
  <1>13. CallInv(y)'
    <2>1. Published \subseteq Published' BY <1>8, PublishedGrows
    <2>2. <<r, 1>> \in Published' BY <1>7, Numbers
    <2>. QED BY <1>1, <1>2, <1>4, <1>5, <1>12, <2>1, <2>2 DEF CallInv
  <1>14. calls' \subseteq Call /\ \A z \in calls' : CallInv(z)'
    <2>1. {y} \in SUBSET Call /\ calls' \subseteq calls \cup {y} /\ \A z \in {y} : CallInv(z)'
      BY <1>12, <1>13
    <2>. QED BY <1>1, <1>8, <2>1, CallsStay
  <1>15. TokenIsCurrent' BY <1>1, <1>12, TokensStay
  <1>16. TypeOK' BY <1>1, <1>5, <1>14 DEF IInv, TypeOK
  <1>17. KeysFitLabels' /\ JoinedMeansReadable'
    BY <1>1, <1>8, KeysStayRight DEF IInv, JoinedMeansReadable
  <1>. QED BY <1>9, <1>10, <1>11, <1>14, <1>15, <1>16, <1>17 DEF IInv

LEMMA RoomCreatedStep ==
  ASSUME IInv, NEW x \in calls, RoomCreated(x)
  PROVE  IInv'
  <1>. DEFINE l == <<x.room, 1>>
  <1>1. /\ x.does = "room" /\ x.step = "reply" /\ calls' = calls \ {x}
        /\ keys' = [keys EXCEPT ![x.by][l] = IF mode = "e2e" THEN x.by ELSE Server]
        /\ UNCHANGED <<mode, gen, blob, messages, members, pair, held, muddled, owed>>
    BY DEF RoomCreated, FiledAs, server, tokens
  <1>2. x.by \in Clients /\ CallInv(x) BY DEF IInv, TypeOK, Call
  <1>3. l \in Published /\ blob[l[1]][l[2]].key = IF mode = "e2e" THEN x.by ELSE Server
    BY <1>1, <1>2 DEF CallInv
  <1>4. Started' /\ EpochsInOrder' /\ RowsStay BY <1>1, ChannelExists, ServerStays
  <1>5. /\ keys' \in [Clients -> [Labels -> Authors \cup {Nobody}]]
        /\ KeysFitLabels' /\ JoinedMeansReadable'
        /\ \A d \in Clients, k \in Labels : keys[d][k] # Nobody => keys'[d][k] # Nobody
    BY <1>1, <1>2, <1>3, FileKey
  <1>6. calls' \subseteq Call /\ \A z \in calls' : CallInv(z)'
    BY <1>1, <1>4, <1>5, CallsOnlyEnd
  <1>7. TokenIsCurrent' BY <1>1, <1>2, TokensStay DEF CallInv
  <1>8. TypeOK' /\ PairsMatch' BY <1>1, <1>5, <1>6 DEF IInv, TypeOK, PairsMatch
  <1>. QED BY <1>4, <1>5, <1>6, <1>7, <1>8 DEF IInv

-----------------------------------------------------------------------------
(* Re-minting, and calls that end badly.                                   *)

LEMMA PostRemintStep ==
  ASSUME IInv, NEW c \in Clients, PostRemint(c)
  PROVE  IInv'
  <1>. DEFINE new == NewCall(c, "remint", "reply")
  <1>1. /\ c \in members /\ held' = [held EXCEPT ![c] = FALSE] /\ Await(new)
        /\ UNCHANGED <<mode, gen, blob, messages, members, pair, keys, muddled, owed>>
    BY DEF PostRemint, server, client
  <1>2. /\ new \in Call /\ new.by = c /\ new.does = "remint" /\ new.step = "reply" /\ new.fresh
        /\ new.wrap = Unset /\ new.todo = {} /\ new.before = {}
    BY NewCallFacts
  <1>. HIDE DEF new
  <1>3. Started' /\ EpochsInOrder' /\ RowsStay BY <1>1, ChannelExists, ServerStays
  <1>4. CallInv(new)' BY <1>2, Numbers DEF CallInv
  <1>5. /\ calls' \subseteq Call /\ \A y \in calls' : CallInv(y)'
        /\ held' \in [Clients -> BOOLEAN] /\ TokenIsCurrent'
    BY <1>1, <1>2, <1>4, AwaitFacts
  <1>6. TypeOK' BY <1>1, <1>5 DEF IInv, TypeOK
  <1>7. PairsMatch' /\ KeysFitLabels' /\ JoinedMeansReadable'
    BY <1>1, <1>3, KeysStayRight DEF IInv, PairsMatch, JoinedMeansReadable
  <1>. QED BY <1>3, <1>5, <1>6, <1>7 DEF IInv

LEMMA RemintedStep ==
  ASSUME IInv, NEW x \in calls, Reminted(x)
  PROVE  IInv'
  <1>1. /\ TakeToken(x) /\ calls' = calls \ {x}
        /\ UNCHANGED <<mode, gen, blob, messages, members, pair, keys, owed>>
    BY DEF Reminted, server, client
  <1>2. Started' /\ EpochsInOrder' /\ RowsStay BY <1>1, ChannelExists, ServerStays
  <1>3. /\ held' \in [Clients -> BOOLEAN] /\ muddled' \subseteq Clients /\ TokenIsCurrent'
        /\ \A c \in Clients : held[c] \/ c \in muddled => held'[c] \/ c \in muddled'
    BY <1>1, TokenTaken
  <1>4. calls' \subseteq Call /\ \A z \in calls' : CallInv(z)'
    BY <1>1, <1>2, <1>3, CallsOnlyEnd
  <1>5. TypeOK' BY <1>1, <1>3, <1>4 DEF IInv, TypeOK
  <1>6. PairsMatch' /\ KeysFitLabels' /\ JoinedMeansReadable'
    BY <1>1, <1>2, KeysStayRight DEF IInv, PairsMatch, JoinedMeansReadable
  <1>. QED BY <1>2, <1>3, <1>4, <1>5, <1>6 DEF IInv

LEMMA ThrowStep ==
  ASSUME IInv, NEW x \in calls, Throw(x)
  PROVE  IInv'
  <1>1. /\ calls' = calls \ {x}
        /\ muddled' = IF x.does # "room" /\ x.step \in {"list", "reply"} THEN muddled \cup {x.by}
                      ELSE muddled
        /\ UNCHANGED <<mode, gen, blob, messages, members, pair, keys, held, owed>>
    BY DEF Throw, server, client
  <1>2. /\ x.by \in Clients /\ x.step \in {"post", "list", "reply", "fetch", "open"}
        /\ CallInv(x)
    BY DEF IInv, TypeOK, Call
  <1>3. Started' /\ EpochsInOrder' /\ RowsStay BY <1>1, ChannelExists, ServerStays
  <1>4. muddled' \subseteq Clients /\ muddled \subseteq muddled' BY <1>1, <1>2 DEF IInv, TypeOK
  <1>5. calls' \subseteq Call /\ \A z \in calls' : CallInv(z)'
    BY <1>1, <1>3, <1>4, CallsOnlyEnd
  <1>6. TokenIsCurrent'
    <2>. SUFFICES ASSUME NEW c \in members, c \notin muddled', ~held[c]
                  PROVE  \E y \in calls' : y.by = c /\ y.fresh
      BY <1>1 DEF TokenIsCurrent
    <2>1. PICK y \in calls : y.by = c /\ y.fresh BY <1>4 DEF IInv, TokenIsCurrent
    <2>2. y # x
      <3>1. x.fresh => held[x.by] \/ x.by \in muddled'
        BY <1>1, <1>2 DEF CallInv
      <3>. QED BY <2>1, <3>1
    <2>. QED BY <1>1, <2>1, <2>2
  <1>7. TypeOK' BY <1>1, <1>4, <1>5 DEF IInv, TypeOK
  <1>8. PairsMatch' /\ KeysFitLabels' /\ JoinedMeansReadable'
    BY <1>1, <1>3, KeysStayRight DEF IInv, PairsMatch, JoinedMeansReadable
  <1>. QED BY <1>3, <1>5, <1>6, <1>7, <1>8 DEF IInv

-----------------------------------------------------------------------------
(* Old invites, messages, and rotation.                                    *)

LEMMA RememberInviteStep ==
  ASSUME IInv, NEW c \in Clients, NEW g \in 1..MaxGen, RememberInvite(c, g)
  PROVE  IInv'
  <1>1. /\ mode = "e2e" /\ g \in Gens /\ Remember(c, g)
        /\ UNCHANGED <<mode, gen, blob, messages, members, keys, held, muddled, owed, calls>>
    BY Numbers DEF RememberInvite, server, tokens, Gens
  <1>2. Started' /\ EpochsInOrder' /\ RowsStay BY <1>1, ServerStays
  <1>3. pair' \in [Clients -> Pair] /\ PairsMatch' BY <1>1, RememberFacts, PairsStay
  <1>4. calls' \subseteq Call /\ \A z \in calls' : CallInv(z)' BY <1>1, <1>2, CallsOnlyEnd
  <1>5. TypeOK' BY <1>1, <1>3, <1>4 DEF IInv, TypeOK
  <1>6. KeysFitLabels' /\ JoinedMeansReadable' /\ TokenIsCurrent'
    BY <1>1, <1>2, KeysStayRight DEF IInv, JoinedMeansReadable, TokenIsCurrent
  <1>. QED BY <1>2, <1>3, <1>4, <1>5, <1>6 DEF IInv

LEMMA SendTextStep ==
  ASSUME IInv, NEW c \in Clients, NEW r \in Rooms, SendText(c, r)
  PROVE  IInv'
  <1>. DEFINE l == <<r, CurrentEpoch(r)>>
  <1>1. /\ c \in members /\ r \in LiveRooms /\ keys[c][l] # Nobody
        /\ messages' = messages \cup {<<l, keys[c][l]>>}
        /\ UNCHANGED <<mode, gen, blob, members, pair, keys, held, muddled, owed, calls>>
    BY DEF SendText, client, tokens
  <1>2. l \in Labels
    <2>1. CurrentEpoch(r) \in 0..gen /\ gen \in 0..MaxGen /\ CurrentEpoch(r) # 0
      BY <1>1 DEF IInv, EpochsInOrder, TypeOK, Gens, LiveRooms
    <2>. HIDE DEF CurrentEpoch
    <2>2. CurrentEpoch(r) \in Epochs BY <2>1, Numbers DEF Epochs
    <2>. QED BY <2>2 DEF Labels
  <1>. HIDE DEF l
  <1>3. keys[c][l] \in Authors /\ keys[c][l] = blob[l[1]][l[2]].key
    BY <1>1, <1>2 DEF IInv, TypeOK, KeysFitLabels
  <1>4. Started' /\ EpochsInOrder' /\ RowsStay BY <1>1, ChannelExists, ServerStays
  <1>5. messages' \subseteq Labels \X Authors BY <1>1, <1>2, <1>3 DEF IInv, TypeOK
  <1>6. KeysFitLabels' BY <1>1, <1>3 DEF IInv, KeysFitLabels
  <1>7. calls' \subseteq Call /\ \A z \in calls' : CallInv(z)' BY <1>1, <1>4, CallsOnlyEnd
  <1>8. TypeOK' BY <1>1, <1>5, <1>7 DEF IInv, TypeOK
  <1>9. PairsMatch' /\ JoinedMeansReadable' /\ TokenIsCurrent'
    BY <1>1 DEF IInv, PairsMatch, JoinedMeansReadable, TokenIsCurrent
  <1>. QED BY <1>4, <1>6, <1>7, <1>8, <1>9 DEF IInv

LEMMA RotateStep ==
  ASSUME IInv, Rotate
  PROVE  IInv'
  <1>. DEFINE row == [key |-> Admin, wrap |-> [id |-> gen + 1, secret |-> gen + 1]]
              last == [r \in Rooms |-> IF r \in LiveRooms THEN CurrentEpoch(r) + 1 ELSE 0]
  <1>1. /\ mode # "none" /\ gen < MaxGen /\ gen' = gen + 1
        /\ blob' = [r \in Rooms |-> IF r \notin LiveRooms THEN blob[r]
                                     ELSE [blob[r] EXCEPT ![CurrentEpoch(r) + 1] = row]]
        /\ UNCHANGED <<mode, messages, members, pair, keys, held, muddled, owed, calls>>
    BY DEF Rotate, client, tokens
  <1>2. gen \in Nat /\ gen >= 1 /\ gen' \in Gens
    BY <1>1, Numbers DEF IInv, TypeOK, Gens, Started
  <1>3. row \in Blob /\ row.key # Nobody /\ row.wrap.id = row.wrap.secret
    BY <1>1, <1>2, NobodyIsNoAuthor DEF Gens, Blob, Pair
  <1>. HIDE DEF row
  <1>4. \A r \in Rooms : /\ CurrentEpoch(r) \in 0..gen /\ CurrentEpoch(r) + 1 \in Epochs
                         /\ r \notin LiveRooms => CurrentEpoch(r) = 0
    <2>. TAKE r \in Rooms
    <2>1. CurrentEpoch(r) \in 0..gen BY DEF IInv, EpochsInOrder
    <2>2. r \notin LiveRooms => CurrentEpoch(r) = 0 BY DEF LiveRooms
    <2>3. CurrentEpoch(r) + 1 \in Epochs BY <1>1, <1>2, <2>1, Numbers DEF Epochs
    <2>. QED BY <2>1, <2>2, <2>3
  <1>5. \A r \in Rooms, e \in Epochs :
          blob'[r][e] = IF r \in LiveRooms /\ e = CurrentEpoch(r) + 1 THEN row ELSE blob[r][e]
    BY <1>1, <1>4 DEF IInv, TypeOK
  <1>6. blob' \in [Rooms -> [Epochs -> Blob]] BY <1>1, <1>3 DEF IInv, TypeOK
  <1>7. \A r \in Rooms, e \in Epochs : <<r, e>> \in Published' <=> e <= last[r]
    <2>. TAKE r \in Rooms, e \in Epochs
    <2>1. <<r, e>> \in Published' <=> blob'[r][e].key # Nobody BY DEF Published, Labels
    <2>2. <<r, e>> \in Published <=> blob[r][e].key # Nobody BY DEF Published, Labels
    <2>3. <<r, e>> \in Published <=> e <= CurrentEpoch(r) BY DEF IInv, EpochsInOrder
    <2>4. e \in Nat /\ e >= 1 /\ CurrentEpoch(r) \in Nat BY <1>2, <1>4, Numbers DEF Epochs
    <2>5. last[r] = IF r \in LiveRooms THEN CurrentEpoch(r) + 1 ELSE 0 OBVIOUS
    <2>. HIDE DEF last
    <2>6. CASE r \in LiveRooms /\ e = CurrentEpoch(r) + 1
      BY <1>3, <1>5, <2>1, <2>4, <2>5, <2>6
    <2>7. CASE r \in LiveRooms /\ e # CurrentEpoch(r) + 1
      <3>1. <<r, e>> \in Published' <=> e <= CurrentEpoch(r) BY <1>5, <2>1, <2>2, <2>3, <2>7
      <3>. QED BY <2>4, <2>5, <2>7, <3>1
    <2>8. CASE r \notin LiveRooms
      <3>1. <<r, e>> \in Published' <=> e <= CurrentEpoch(r) BY <1>5, <2>1, <2>2, <2>3, <2>8
      <3>. QED BY <1>4, <2>5, <2>8, <3>1
    <2>. QED BY <2>6, <2>7, <2>8
  <1>8. EpochsInOrder'
    <2>1. last \in [Rooms -> 0..MaxGen]
      <3>. SUFFICES ASSUME NEW r \in Rooms
                    PROVE  (IF r \in LiveRooms THEN CurrentEpoch(r) + 1 ELSE 0) \in 0..MaxGen
        OBVIOUS
      <3>1. CurrentEpoch(r) \in 0..gen BY <1>4
      <3>. QED BY <1>1, <1>2, <3>1, Numbers
    <2>2. \A r \in Rooms : last[r] <= gen'
      <3>. TAKE r \in Rooms
      <3>1. last[r] = IF r \in LiveRooms THEN CurrentEpoch(r) + 1 ELSE 0 OBVIOUS
      <3>. QED BY <1>1, <1>2, <1>4, <3>1
    <2>. HIDE DEF last
    <2>. QED BY <1>2, <1>7, <2>1, <2>2, EpochsCounted
  <1>9. RowsStay
    <2>. SUFFICES ASSUME NEW l \in Published PROVE blob'[l[1]][l[2]] = blob[l[1]][l[2]]
      BY DEF RowsStay
    <2>1. l[1] \in Rooms /\ l[2] \in Epochs /\ l = <<l[1], l[2]>> BY LabelParts DEF Published
    <2>2. l[2] <= CurrentEpoch(l[1]) BY <2>1 DEF IInv, EpochsInOrder
    <2>3. CurrentEpoch(l[1]) \in Nat /\ l[2] \in Nat BY <1>2, <1>4, <2>1, Numbers DEF Epochs
    <2>4. l[2] # CurrentEpoch(l[1]) + 1 BY <2>2, <2>3
    <2>. QED BY <1>5, <2>1, <2>4
  <1>10. Started' BY <1>1, <1>2, <1>9, PublishedGrows DEF IInv, Started
  <1>11. PairsMatch' BY <1>1, <1>3, <1>5 DEF IInv, PairsMatch
  <1>12. calls' \subseteq Call /\ \A z \in calls' : CallInv(z)' BY <1>1, <1>9, CallsOnlyEnd
  <1>13. TypeOK' BY <1>1, <1>2, <1>6, <1>12 DEF IInv, TypeOK
  <1>14. KeysFitLabels' /\ JoinedMeansReadable' /\ TokenIsCurrent'
    BY <1>1, <1>9, KeysStayRight DEF IInv, JoinedMeansReadable, TokenIsCurrent
  <1>. QED BY <1>8, <1>10, <1>11, <1>12, <1>13, <1>14 DEF IInv

-----------------------------------------------------------------------------
LEMMA StutterStep ==
  ASSUME IInv, UNCHANGED vars
  PROVE  IInv'
  <1>1. UNCHANGED <<mode, gen, blob, messages, members, pair, keys, held, muddled, owed, calls>>
    BY DEF vars, server, client, tokens
  <1>2. Published' = Published BY <1>1 DEF Published
  <1>3. EpochsInOrder'
    <2>1. \A r \in Rooms : CurrentEpoch(r)' = CurrentEpoch(r) BY <1>2 DEF CurrentEpoch
    <2>. QED BY <1>1, <1>2, <2>1 DEF IInv, EpochsInOrder
  <1>4. \A x \in calls' : CallInv(x)' BY <1>1, <1>2 DEF IInv, CallInv
  <1>5. TypeOK' /\ Started' BY <1>1, <1>2 DEF IInv, TypeOK, Started
  <1>6. PairsMatch' /\ KeysFitLabels' /\ JoinedMeansReadable' /\ TokenIsCurrent'
    BY <1>1 DEF IInv, PairsMatch, KeysFitLabels, JoinedMeansReadable, TokenIsCurrent
  <1>. QED BY <1>3, <1>4, <1>5, <1>6 DEF IInv

LEMMA InvStep == IInv /\ [Next]_vars => IInv'
  <1>. SUFFICES ASSUME IInv, [Next]_vars PROVE IInv' OBVIOUS
  <1>1. ASSUME NEW c \in Clients, Ask(c) PROVE IInv'
    <2>1. CASE \E m \in {"e2e", "server"} : PostChannel(c, m) BY <2>1, PostChannelStep
    <2>2. CASE PostJoin(c) BY <2>2, PostJoinStep
    <2>3. CASE StartRoom(c) BY <2>3, StartRoomStep
    <2>4. CASE PostRemint(c) BY <2>4, PostRemintStep
    <2>5. CASE \E g \in 1..MaxGen : RememberInvite(c, g) BY <2>5, RememberInviteStep
    <2>6. CASE \E r \in Rooms : SendText(c, r) BY <2>6, SendTextStep
    <2>. QED BY <1>1, <2>1, <2>2, <2>3, <2>4, <2>5, <2>6 DEF Ask
  <1>2. ASSUME NEW x \in calls, Proceed(x) PROVE IInv'
    <2>1. CASE ChannelCreated(x) BY <2>1, ChannelCreatedStep
    <2>2. CASE ListEpochs(x) BY <2>2, ListEpochsStep
    <2>3. CASE Joined(x) BY <2>3, JoinedStep
    <2>4. CASE FetchKeys(x) BY <2>4, FetchKeysStep
    <2>5. CASE EndJoin(x) BY <2>5, EndJoinStep
    <2>6. CASE \E l \in Labels : OpenBlob(x, l) BY <2>6, OpenBlobStep
    <2>7. CASE PostRoom(x) BY <2>7, PostRoomStep
    <2>8. CASE RoomCreated(x) BY <2>8, RoomCreatedStep
    <2>9. CASE Reminted(x) BY <2>9, RemintedStep
    <2>10. CASE Throw(x) BY <2>10, ThrowStep
    <2>. QED BY <1>2, <2>1, <2>2, <2>3, <2>4, <2>5, <2>6, <2>7, <2>8, <2>9, <2>10 DEF Proceed
  <1>3. CASE Rotate BY <1>3, RotateStep
  <1>4. CASE UNCHANGED vars BY <1>4, StutterStep
  <1>. QED BY <1>1, <1>2, <1>3, <1>4 DEF Next

-----------------------------------------------------------------------------
(* The invariant holds however the calls of the clients overlap, fail and  *)
(* lose their replies.                                                     *)
THEOREM Invariance == Spec => []IInv
  <1>. QED BY InvInit, InvStep, PTL DEF Spec

(* The variables have their types.                                         *)
THEOREM TypeCorrect == Spec => []TypeOK
  <1>1. IInv => TypeOK BY DEF IInv
  <1>. QED BY <1>1, Invariance, PTL

(* A key that a client has filed, and the key of a stored message, is the  *)
(* one of the epoch row it is labelled with, however many rotations and    *)
(* new rooms lie between making it and filing it.                          *)
THEOREM FiledKeysAreRight == Spec => []KeysFitLabels
  <1>1. IInv => KeysFitLabels BY DEF IInv
  <1>. QED BY <1>1, Invariance, PTL

(* No blob is wrapped under the id of one access key and the secret of     *)
(* another: the pair a createRoom read before its request stays a pair.    *)
THEOREM BlobsOpenForSomebody == Spec => []BlobsFromOnePair
  <1>1. IInv => BlobsFromOnePair
    BY LabelParts DEF IInv, PairsMatch, BlobsFromOnePair, Published
  <1>. QED BY <1>1, Invariance, PTL

(* A join that ended well has opened the epoch of every message stored     *)
(* when the server admitted the client.                                    *)
THEOREM JoinersCanRead == Spec => []JoinedMeansReadable
  <1>1. IInv => JoinedMeansReadable BY DEF IInv
  <1>. QED BY <1>1, Invariance, PTL

(* The member token a client keeps is the one its row stores, or a call    *)
(* under way brings that one, unless a reply was lost or overtaken.        *)
THEOREM TokensAreKept == Spec => []TokenIsCurrent
  <1>1. IInv => TokenIsCurrent BY DEF IInv
  <1>. QED BY <1>1, Invariance, PTL
=============================================================================

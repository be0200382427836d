----------------------------- MODULE ClientKeys -----------------------------
(***************************************************************************)
(* What a client of the SDK (chatv3-product-client, client.ts) keeps for   *)
(* one channel, and what it can read with it: the access key's id and the  *)
(* wrap secret, the epoch keys of the rooms, and the member token.         *)
(*                                                                         *)
(* The SDK's calls are asynchronous and may overlap in one client: each    *)
(* posts, waits for the reply, and goes on.  The server's side of them is  *)
(* in ChannelKeys and Membership; here it is one step.  Rotation is the    *)
(* work of an administrator's tool: the SDK has no call for it.            *)
(*                                                                         *)
(* Access key number g comes with keyId g, an access secret and, in an e2e *)
(* channel, wrap secret g.  An epoch key is named by who generated it.     *)
(***************************************************************************)
EXTENDS Naturals, FiniteSets

CONSTANTS
  Clients,     (* running clients, one member each                         *)
  Rooms,       (* rooms of the channel                                     *)
  General,     (* the room created with the channel                        *)
  Server,      (* generator of keys in a server-encrypted channel          *)
  Admin,       (* generator of the keys of a rotation                      *)
  Nobody,      (* no key                                                   *)
  MaxGen       (* bound: access keys, one more than rotations              *)

ASSUME RoomsAssumption == General \in Rooms
ASSUME NamesAssumption == {Server, Admin, Nobody} \cap Clients = {} /\ Cardinality({Server, Admin, Nobody}) = 3
ASSUME MaxGenAssumption == MaxGen \in Nat \ {0}

Gens     == 0..MaxGen                  (* 0: none                          *)
Epochs   == 1..MaxGen
Labels   == Rooms \X Epochs            (* what a message or a key is for   *)
Authors  == Clients \cup {Server, Admin}
Pair     == [id : Gens, secret : Gens]
Unset    == [id |-> 0, secret |-> 0]   (* also: wrapped by the server      *)

(* A stored epoch: its key, and the pair the blob is wrapped under.        *)
Blob   == [key : Authors \cup {Nobody}, wrap : Pair]
NoBlob == [key |-> Nobody, wrap |-> Unset]

(* A call in progress.  "step": about to post, the server lists, a reply   *)
(* under way, about to fetch the server's keys, opening blobs.  "wrap" is  *)
(* the pair it works with, "todo" the labels it has to open, "before" the  *)
(* messages sent before a join.  "fresh": the token in the reply is still  *)
(* the member's current one.                                               *)
Call == [by : Clients, does : {"create", "join", "room", "remint"},
         step : {"post", "list", "reply", "fetch", "open"}, wrap : Pair, room : Rooms,
         todo : SUBSET Labels, before : SUBSET Labels, fresh : BOOLEAN]

VARIABLES
  mode,      (* of the channel: "none", "e2e" or "server"                  *)
  gen,       (* the active access key                                      *)
  blob,      (* blob[r][e]: the epoch rows                                 *)
  messages,  (* [label, key]: what is stored is encrypted with             *)
  members,   (* clients with an active member row                          *)
  pair,      (* pair[c]: key id and wrap secret the client keeps           *)
  keys,      (* keys[c]: its epoch keys, by label                          *)
  held,      (* held[c]: its token is the one its member row stores        *)
  muddled,   (* clients that lost a token in a reply that did not arrive,  *)
             (* or arrived after the reply to a later call                 *)
  owed,      (* owed[c]: messages sent before a join that ended well       *)
  calls      (* calls in progress                                          *)

server == <<mode, gen, blob, messages, members>>
client == <<pair, keys>>
tokens == <<held, muddled>>
vars   == <<server, client, tokens, owed, calls>>

Init ==
  /\ mode = "none" /\ gen = 0 /\ messages = {} /\ members = {}
  /\ blob = [r \in Rooms |-> [e \in Epochs |-> NoBlob]]
  /\ pair = [c \in Clients |-> Unset]
  /\ keys = [c \in Clients |-> [l \in Labels |-> Nobody]]
  /\ held = [c \in Clients |-> FALSE] /\ muddled = {}
  /\ owed = [c \in Clients |-> {}]
  /\ calls = {}

-----------------------------------------------------------------------------
Published      == {l \in Labels : blob[l[1]][l[2]].key # Nobody}
CurrentEpoch(r) == Cardinality({e \in Epochs : <<r, e>> \in Published})
LiveRooms      == {r \in Rooms : CurrentEpoch(r) # 0}

Idle(c, does) == \A x \in calls : ~(x.by = c /\ x.does = does)

(* The call, posted and waiting; a token minted now outdates those on      *)
(* their way to the same client.                                           *)
Await(x) == calls' = {IF y.by = x.by THEN [y EXCEPT !.fresh = FALSE] ELSE y : y \in calls} \cup {x}

NewCall(c, does, step) ==
  [by |-> c, does |-> does, step |-> step, wrap |-> Unset, room |-> General,
   todo |-> {}, before |-> {}, fresh |-> TRUE]

(* The token of a re-mint is returned and not kept (a variant of           *)
(* TakeToken).                                                             *)
TakeToken_NotReminted(x) ==
  /\ held' = IF x.does = "remint" THEN held ELSE [held EXCEPT ![x.by] = x.fresh]
  /\ muddled' = IF x.fresh THEN muddled \ {x.by} ELSE muddled \cup {x.by}

(* The client keeps the token of the reply, in place of the one it had.    *)
TakeToken(x) ==
  /\ held' = [held EXCEPT ![x.by] = x.fresh]
  /\ muddled' = IF x.fresh THEN muddled \ {x.by} ELSE muddled \cup {x.by}

(* Key id and wrap secret are set in one synchronous step.  In a server-   *)
(* encrypted channel there is no secret, and the id is never used again.   *)
Remember(c, g) ==
  pair' = IF mode = "e2e" THEN [pair EXCEPT ![c] = [id |-> g, secret |-> g]] ELSE pair

-----------------------------------------------------------------------------
(* createChannel generates the first pair and, in an e2e channel, wraps    *)
(* its own epoch key before it posts.                                      *)
PostChannel(c, m) ==
  /\ mode = "none" /\ mode' = m
  /\ gen' = 1
  /\ blob' = [blob EXCEPT ![General][1] =
       IF m = "e2e" THEN [key |-> c, wrap |-> [id |-> 1, secret |-> 1]]
       ELSE [key |-> Server, wrap |-> Unset]]
  /\ members' = {c} /\ held' = [held EXCEPT ![c] = FALSE]
  /\ Await(NewCall(c, "create", "reply"))
  /\ UNCHANGED <<messages, client, muddled, owed>>

ChannelCreated(x) ==
  /\ x.does = "create" /\ x.step = "reply"
  /\ TakeToken(x) /\ Remember(x.by, 1)
  /\ keys' = [keys EXCEPT ![x.by][<<General, 1>>] = blob[General][1].key]
  /\ calls' = calls \ {x}
  /\ UNCHANGED <<server, owed>>

-----------------------------------------------------------------------------
(* joinFromInvite: the server accepts the active access key only; a client *)
(* that is a member already is refused.  It mints a token and commits ...  *)
PostJoin(c) ==
  /\ gen # 0 /\ c \notin members /\ Idle(c, "join")
  /\ members' = members \cup {c} /\ held' = [held EXCEPT ![c] = FALSE]
  /\ Await([NewCall(c, "join", "list") EXCEPT !.wrap = [id |-> gen, secret |-> gen],
                                             !.before = {m[1] : m \in messages}])
  /\ UNCHANGED <<mode, gen, blob, messages, client, muddled, owed>>

(* ... and lists rooms and epochs in statements of their own.              *)
ListEpochs(x) ==
  /\ x.does = "join" /\ x.step = "list"
  /\ calls' = (calls \ {x}) \cup {[x EXCEPT !.step = "reply", !.todo = Published]}
  /\ UNCHANGED <<server, client, tokens, owed>>

(* The reply: token, key id and wrap secret are kept before any blob is    *)
(* opened.                                                                 *)
Joined(x) ==
  /\ x.does = "join" /\ x.step = "reply"
  /\ TakeToken(x) /\ Remember(x.by, x.wrap.id)
  /\ calls' = (calls \ {x}) \cup
       {[x EXCEPT !.step = IF mode = "e2e" THEN "open" ELSE "fetch"]}
  /\ UNCHANGED <<server, keys, owed>>

(* In a server-encrypted channel the client then asks for the keys; the    *)
(* server fails the request if there is one it cannot open.                *)
FetchKeys(x) ==
  /\ x.step = "fetch"
  /\ \A l \in Published : blob[l[1]][l[2]].wrap = Unset
  /\ calls' = (calls \ {x}) \cup {[x EXCEPT !.step = "open", !.todo = Published]}
  /\ UNCHANGED <<server, client, tokens, owed>>

(* The key encryption key derived from the invite opens the blob.          *)
Opens(x, l) == mode = "server" \/ blob[l[1]][l[2]].wrap = x.wrap

OpenBlob(x, l) ==
  /\ x.step = "open" /\ l \in x.todo /\ Opens(x, l)
  /\ keys' = [keys EXCEPT ![x.by][l] = blob[l[1]][l[2]].key]
  /\ calls' = (calls \ {x}) \cup {[x EXCEPT !.todo = @ \ {l}]}
  /\ UNCHANGED <<server, pair, tokens, owed>>

(* Blobs that do not open are passed over (a variant of Complete).         *)
Complete_PassesOver(x) == \A l \in x.todo : ~Opens(x, l)

(* The join ends well when every blob of the reply is open.                *)
Complete(x) == x.todo = {}

EndJoin(x) ==
  /\ x.step = "open" /\ Complete(x)
  /\ owed' = [owed EXCEPT ![x.by] = @ \cup x.before]
  /\ calls' = calls \ {x}
  /\ UNCHANGED <<server, client, tokens>>

-----------------------------------------------------------------------------
(* createRoom reads key id and wrap secret in one synchronous step and     *)
(* wraps the new key under them; in a server-encrypted channel it posts.   *)
StartRoom(c) ==
  /\ gen # 0 /\ Idle(c, "room")
  /\ mode = "e2e" => pair[c].id # 0 /\ pair[c].secret # 0
  /\ calls' = calls \cup
       {[NewCall(c, "room", "post") EXCEPT !.wrap = pair[c], !.fresh = FALSE]}
  /\ UNCHANGED <<server, client, tokens, owed>>

(* The key id is read again after the wait (a variant of WrappedUnder).    *)
WrappedUnder_LateId(x) == [x.wrap EXCEPT !.id = pair[x.by].id]

(* The key is derived from the id alone (a variant of WrappedUnder).       *)
WrappedUnder_IdOnly(x) == [id |-> x.wrap.id]

(* The pair under which the new key is wrapped.                            *)
WrappedUnder(x) == x.wrap

(* The server stores room and epoch, its own key or the client's blob,     *)
(* whatever access key is active by now; it asks for the client's token.   *)
PostRoom(x) ==
  /\ x.does = "room" /\ x.step = "post" /\ held[x.by]
  /\ \E r \in Rooms \ LiveRooms :
       /\ blob' = [blob EXCEPT ![r][1] =
            IF mode = "e2e" THEN [key |-> x.by, wrap |-> WrappedUnder(x)]
            ELSE [key |-> Server, wrap |-> Unset]]
       /\ calls' = (calls \ {x}) \cup {[x EXCEPT !.step = "reply", !.room = r]}
  /\ UNCHANGED <<mode, gen, messages, members, client, tokens, owed>>

(* The key is filed under the room's epoch by now (a variant of FiledAs).  *)
FiledAs_Current(x) == <<x.room, CurrentEpoch(x.room)>>

(* The label under which the client files the key it made, or was sent.    *)
FiledAs(x) == <<x.room, 1>>

RoomCreated(x) ==
  /\ x.does = "room" /\ x.step = "reply"
  /\ keys' = [keys EXCEPT ![x.by][FiledAs(x)] = IF mode = "e2e" THEN x.by ELSE Server]
  /\ calls' = calls \ {x}
  /\ UNCHANGED <<server, pair, tokens, owed>>

-----------------------------------------------------------------------------
(* remintMemberToken: the principal of a member of a server-encrypted      *)
(* channel is given a new token.  Two may overlap (a bound: not three).    *)
PostRemint(c) ==
  /\ mode = "server" /\ c \in members
  /\ \A x \in calls : x.by = c /\ x.does = "remint" => x.fresh
  /\ held' = [held EXCEPT ![c] = FALSE]
  /\ Await(NewCall(c, "remint", "reply"))
  /\ UNCHANGED <<server, client, muddled, owed>>

Reminted(x) ==
  /\ x.does = "remint"
  /\ TakeToken(x)
  /\ calls' = calls \ {x}
  /\ UNCHANGED <<server, client, owed>>

(* A call throws: no connection, an error reply, a blob that does not      *)
(* open.  What it has kept so far stays; a token not yet received is lost. *)
Throw(x) ==
  /\ calls' = calls \ {x}
  /\ muddled' = IF x.does # "room" /\ x.step \in {"list", "reply"} THEN muddled \cup {x.by}
                ELSE muddled
  /\ UNCHANGED <<server, client, held, owed>>

-----------------------------------------------------------------------------
(* rememberChannelInvite: an invite kept by the app, maybe an old one.     *)
RememberInvite(c, g) ==
  /\ mode = "e2e" /\ g \in 1..gen /\ Remember(c, g)
  /\ UNCHANGED <<server, keys, tokens, owed, calls>>

(* sendText encrypts under the epoch of the room row at hand; the server   *)
(* stores it only if that is the room's current epoch, so a send with an   *)
(* old row changes nothing.                                                *)
SendText(c, r) ==
  LET l == <<r, CurrentEpoch(r)>> IN
  /\ c \in members /\ held[c] /\ r \in LiveRooms /\ keys[c][l] # Nobody
  /\ messages' = messages \cup {<<l, keys[c][l]>>}
  /\ UNCHANGED <<mode, gen, blob, members, client, tokens, owed, calls>>

(* channel.rotate: the next access key, and a next epoch for every room,   *)
(* wrapped under its pair in either kind of channel.                       *)
Rotate ==
  /\ mode # "none" /\ gen < MaxGen
  /\ gen' = gen + 1
  /\ blob' = [r \in Rooms |-> IF r \notin LiveRooms THEN blob[r]
       ELSE [blob[r] EXCEPT ![CurrentEpoch(r) + 1] =
               [key |-> Admin, wrap |-> [id |-> gen + 1, secret |-> gen + 1]]]]
  /\ UNCHANGED <<mode, messages, members, client, tokens, owed, calls>>

-----------------------------------------------------------------------------
Ask(c) ==
  \/ \E m \in {"e2e", "server"} : PostChannel(c, m)
  \/ PostJoin(c) \/ StartRoom(c) \/ PostRemint(c)
  \/ \E g \in 1..MaxGen : RememberInvite(c, g)
  \/ \E r \in Rooms : SendText(c, r)

Proceed(x) ==
  \/ ChannelCreated(x) \/ ListEpochs(x) \/ Joined(x) \/ FetchKeys(x) \/ EndJoin(x)
  \/ \E l \in Labels : OpenBlob(x, l)
  \/ PostRoom(x) \/ RoomCreated(x) \/ Reminted(x) \/ Throw(x)

Next ==
  \/ \E c \in Clients : Ask(c)
  \/ \E x \in calls : Proceed(x)
  \/ Rotate

Spec == Init /\ [][Next]_vars

-----------------------------------------------------------------------------
(* The variables have their types.                                         *)
TypeOK ==
  /\ mode \in {"none", "e2e", "server"} /\ gen \in Gens /\ members \subseteq Clients
  /\ blob \in [Rooms -> [Epochs -> Blob]]
  /\ messages \subseteq Labels \X Authors
  /\ pair \in [Clients -> Pair]
  /\ keys \in [Clients -> [Labels -> Authors \cup {Nobody}]]
  /\ held \in [Clients -> BOOLEAN] /\ muddled \subseteq Clients
  /\ owed \in [Clients -> SUBSET Labels]
  /\ calls \subseteq Call

(* A key filed under a room and epoch is that epoch's key, and so is the   *)
(* one a stored message is encrypted with: whoever holds a key for a       *)
(* message's label can decrypt it.                                         *)
KeysFitLabels ==
  /\ \A c \in Clients, l \in Labels :
       keys[c][l] # Nobody => keys[c][l] = blob[l[1]][l[2]].key
  /\ \A m \in messages : m[2] = blob[m[1][1]][m[1][2]].key

(* No blob is wrapped under the key id of one access key and the wrap      *)
(* secret of another: no invite could open it.                             *)
BlobsFromOnePair ==
  \A l \in Published : blob[l[1]][l[2]].wrap.id = blob[l[1]][l[2]].wrap.secret

(* A join that ends well lets its client read all messages stored before   *)
(* it was admitted.                                                        *)
JoinedMeansReadable == \A c \in Clients, l \in Labels : l \in owed[c] => keys[c][l] # Nobody

(* A member's client has the token its row stores, or is about to receive  *)
(* it, however its calls end or overlap: a join that fails on a blob has   *)
(* kept its token.  Only a reply that is lost, or overtaken by the reply   *)
(* to a later call, breaks this.                                           *)
TokenIsCurrent ==
  \A c \in members \ muddled : held[c] \/ \E x \in calls : x.by = c /\ x.fresh
=============================================================================

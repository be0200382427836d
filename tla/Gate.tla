-------------------------------- MODULE Gate --------------------------------
(***************************************************************************)
(* The way of a request to an operation: the credentials a client puts in  *)
(* its headers (chatv3-product-client http.ts, light-client-core http.ts), *)
(* the bucket and the fixed window the host counts it in                   *)
(* (chatv3-host-plugin rate-limit.ts, plugin.ts), and whom the executor    *)
(* takes it to come from (chatv3-kit executor.ts).                         *)
(*                                                                         *)
(* Time passes in ticks; a window is Window ticks long.                    *)
(***************************************************************************)
EXTENDS Naturals, FiniteSets, FiniteSetsExt

CONSTANTS
  Clients,        (* HTTP clients, all behind one address                  *)
  MemberTokens,   (* member tokens, cv3m_...                               *)
  AccessTokens,   (* AuthV2 tokens, each of a principal of its own         *)
  NoToken,        (* no token                                              *)
  Address,        (* the address as the name of a bucket                   *)
  Window,         (* length of a window in ticks                           *)
  OpenLimit,      (* calls of a window, in a bucket of kind "open"         *)
  MemberLimit,    (* and of kind "member"                                  *)
  MaxEntries      (* buckets above which old ones are pruned               *)

ASSUME TokensAssumption ==
  /\ MemberTokens \cap AccessTokens = {}
  /\ NoToken \notin MemberTokens \cup AccessTokens
  /\ Address \notin MemberTokens \cup AccessTokens \cup {NoToken}
ASSUME LimitsAssumption == {Window, OpenLimit, MemberLimit} \subseteq Nat \ {0} /\ MaxEntries \in Nat

Tokens  == MemberTokens \cup AccessTokens
Buckets == Tokens \cup {Address}
Ages    == 0..(Window - 1)

(* The limit of a bucket, which is of one kind.                            *)
Limit(k) == IF k = Address THEN OpenLimit ELSE MemberLimit

VARIABLES
  member,    (* member[c]: the member token the client was given last      *)
  access,    (* access[c]: its AuthV2 token                                *)
  bearer,    (* bearer[c]: what it sends as Authorization                  *)
  dedicated, (* dedicated[c]: what it sends as x-chatv3-member-token       *)
  entry,     (* entry[k]: age (Window: as old or older) and count of the   *)
             (* bucket's window; count 0 is no entry                       *)
  passed     (* passed[k][a]: calls let through in this tick and the a     *)
             (* before it                                                  *)

credentials == <<member, access, bearer, dedicated>>
limiter     == <<entry, passed>>
gateVars    == <<credentials, limiter>>

NoEntry == [age |-> 0, count |-> 0]

(* The constructor puts the AuthV2 token into Authorization if there is    *)
(* one, the member token otherwise; with both, the member token goes into  *)
(* a header of its own.                                                    *)
GateInit ==
  /\ member \in [Clients -> MemberTokens \cup {NoToken}]
  /\ access \in [Clients -> AccessTokens \cup {NoToken}]
  /\ bearer = [c \in Clients |-> IF access[c] # NoToken THEN access[c] ELSE member[c]]
  /\ dedicated = [c \in Clients |-> IF access[c] # NoToken THEN member[c] ELSE NoToken]
  /\ entry = [k \in Buckets |-> NoEntry]
  /\ passed = [k \in Buckets |-> [a \in Ages |-> 0]]

-----------------------------------------------------------------------------
(* The header of the member token stays when the AuthV2 token goes (a      *)
(* variant of Dedicated).                                                  *)
Dedicated_Stays(c, m, a) == IF a = NoToken THEN dedicated[c] ELSE m

(* The headers after a token is set, from the two tokens the client holds. *)
Dedicated(c, m, a) == IF a = NoToken THEN NoToken ELSE m
Bearer(m, a)       == IF a = NoToken THEN m ELSE a

SyncHeaders(c, m, a) ==
  /\ member' = [member EXCEPT ![c] = m] /\ access' = [access EXCEPT ![c] = a]
  /\ bearer' = [bearer EXCEPT ![c] = Bearer(m, a)]
  /\ dedicated' = [dedicated EXCEPT ![c] = Dedicated(c, m, a)]
  /\ UNCHANGED limiter

(* The application sets or clears a token: a join, a re-mint, a sign-in,   *)
(* a sign-out, in any order.                                               *)
SetMemberToken(c, t) == t # member[c] /\ SyncHeaders(c, t, access[c])
SetAccessToken(c, t) == t # access[c] /\ SyncHeaders(c, member[c], t)

-----------------------------------------------------------------------------
(* The catalog's operations with the authority each asks for: nobody's     *)
(* ("open"), a principal's, a member's, or an administrator's.             *)
Ops(auth, ids) == {[id |-> o, auth |-> auth] : o \in ids}

SpaceOps    == Ops("open", {"space.create", "space.ensure", "space.get"})
                 \cup Ops("admin", {"space.list", "space.archive"})
ChannelOps  == Ops("open", {"channel.create", "channel.join", "channel.list"})
                 \cup Ops("principal", {"channel.list-mine", "member.token.remint"})
                 \cup Ops("member", {"channel.epoch-keys", "channel.get", "member.list", "member.update"})
                 \cup Ops("admin", {"channel.purge-before", "channel.archive", "channel.unarchive",
                                    "channel.delete"})
RecoveryOps == Ops("principal", {"user-key.register", "user-key.get", "member.key-package.put",
                                 "member.key-package.get", "member.recovery.get"})
RoomOps     == Ops("member", {"room.create", "room.list", "room.epochs"})
                 \cup Ops("admin", {"room.archive", "room.delete"})
MessageOps  == Ops("member", {"message.send", "message.list"})
CursorOps   == Ops("member", {"cursor.mark-read", "room.receipts", "cursor.delivered", "cursor.ack"})
PresenceOps == Ops("member", {"presence.set", "presence.list"})
WebhookOps  == Ops("admin", {"webhook.create", "webhook.list", "webhook.remove"})
RotateOps   == Ops("admin", {"channel.rotate"})
DeviceOps   == Ops("member", {"device.register", "device.publish-key-package"})
BindingOps  == Ops("member", {"binding.add", "binding.list", "binding.remove"})

Catalog == SpaceOps \cup ChannelOps \cup RecoveryOps \cup RoomOps \cup MessageOps \cup CursorOps
             \cup PresenceOps \cup WebhookOps \cup RotateOps \cup DeviceOps \cup BindingOps

(* Admin operations open to every principal: the service decides.          *)
PrincipalFallback == {"channel.delete", "room.delete"}

(* The operations, as far as admission tells them apart.                   *)
Kinds == {[auth |-> o.auth, fallback |-> o.id \in PrincipalFallback] : o \in Catalog}

-----------------------------------------------------------------------------
(* The principal the host finds behind Authorization, named by its token.  *)
Principal(c) == IF bearer[c] \in AccessTokens THEN bearer[c] ELSE NoToken

(* The token a member operation authenticates ...                          *)
BearerToken(c) == IF dedicated[c] # NoToken THEN dedicated[c] ELSE bearer[c]

(* ... and the one an admin operation does, which never takes the AuthV2   *)
(* token for a member token; without one the principal acts.               *)
MemberToken(c) ==
  IF dedicated[c] # NoToken THEN dedicated[c]
  ELSE IF bearer[c] \in MemberTokens THEN bearer[c] ELSE NoToken

(* Whom an operation takes its caller to be; NoToken: it refuses, or asks  *)
(* nobody.  "manages" says that the principal has an administrative        *)
(* permission.  A token that is no member token does not authenticate.     *)
Actor(c, kind, manages) ==
  CASE kind.auth = "open" -> NoToken
    [] kind.auth = "member" -> IF BearerToken(c) \in MemberTokens THEN BearerToken(c) ELSE NoToken
    [] kind.auth = "principal" -> Principal(c)
    [] kind.auth = "admin" ->
         IF MemberToken(c) # NoToken THEN MemberToken(c)
         ELSE IF kind.fallback \/ manages THEN Principal(c) ELSE NoToken

(* The bucket of a call: by address for an open operation or a call        *)
(* without credentials, by principal, else by token.                       *)
RateKey(c, auth) ==
  IF auth = "open" THEN Address
  ELSE IF Principal(c) # NoToken THEN Principal(c)
  ELSE IF bearer[c] # NoToken THEN bearer[c]
  ELSE IF dedicated[c] # NoToken THEN dedicated[c]
  ELSE Address

Live(k) == entry[k].count # 0 /\ entry[k].age < Window

(* All other entries go (a variant of Pruned).                             *)
Pruned_All(k) ==
  [x \in Buckets |-> IF x = k THEN [age |-> 0, count |-> 1] ELSE NoEntry]

(* The entries with a new window for k: if there are too many, those whose *)
(* window is over are deleted.                                             *)
Pruned(k) ==
  LET with == [entry EXCEPT ![k] = [age |-> 0, count |-> 1]] IN
  IF Cardinality({x \in Buckets : with[x].count # 0}) <= MaxEntries THEN with
  ELSE [x \in Buckets |-> IF with[x].age < Window THEN with[x] ELSE NoEntry]

(* The count is followed up to one above the limit.                        *)
Counted(k) ==
  [entry EXCEPT ![k].count = IF @ <= Limit(k) THEN @ + 1 ELSE @]

(* hit: a call without a live window opens one and passes; the others are  *)
(* counted, and pass up to the limit.                                      *)
Hit(k) ==
  /\ entry' = IF Live(k) THEN Counted(k) ELSE Pruned(k)
  /\ passed' = IF Live(k) /\ entry'[k].count > Limit(k) THEN passed
               ELSE [passed EXCEPT ![k] = [a \in Ages |-> @[a] + 1]]

(* A request is counted before anything else is looked at.                 *)
Call(c, auth) == Hit(RateKey(c, auth)) /\ UNCHANGED credentials

Tick ==
  /\ entry' = [k \in Buckets |-> [entry[k] EXCEPT !.age =
       IF entry[k].count # 0 /\ @ < Window THEN @ + 1 ELSE @]]
  /\ passed' = [k \in Buckets |->
       [a \in Ages |-> IF a = 0 THEN 0 ELSE passed[k][a - 1]]]
  /\ UNCHANGED credentials

GateNext ==
  \/ \E c \in Clients :
       \/ \E t \in MemberTokens \cup {NoToken} : SetMemberToken(c, t)
       \/ \E t \in AccessTokens \cup {NoToken} : SetAccessToken(c, t)
       \/ \E kind \in Kinds : Call(c, kind.auth)
  \/ Tick

-----------------------------------------------------------------------------
(* The variables have their types.                                         *)
GateTypeOK ==
  /\ member \in [Clients -> MemberTokens \cup {NoToken}]
  /\ access \in [Clients -> AccessTokens \cup {NoToken}]
  /\ bearer \in [Clients -> Tokens \cup {NoToken}]
  /\ dedicated \in [Clients -> Tokens \cup {NoToken}]
  /\ entry \in [Buckets -> [age : 0..Window, count : Nat]]
  /\ passed \in [Buckets -> [Ages -> Nat]]

(* In whatever order tokens came and went, every operation takes its       *)
(* caller to be whom the client holds a token of now: a member operation   *)
(* the member, an admin operation the member too, or the principal if      *)
(* there is none, and a token that was cleared acts for nobody.            *)
HeadersSayWho ==
  \A c \in Clients, kind \in Kinds, manages \in BOOLEAN :
    Actor(c, kind, manages) \in
      CASE kind.auth = "open" -> {NoToken}
        [] kind.auth = "member" -> {member[c]}
        [] kind.auth = "principal" -> {access[c]}
        [] kind.auth = "admin" ->
             IF member[c] # NoToken THEN {member[c]} ELSE {access[c], NoToken}

(* A bucket lets through at most twice its limit less one in any Window    *)
(* ticks, however windows and pruning fall; and while a window is live it  *)
(* has let through what it counted, up to the limit: no call is refused    *)
(* that the limit still allowed.                                           *)
LimitsHold ==
  \A k \in Buckets :
    /\ passed[k][Window - 1] <= 2 * Limit(k) - 1
    /\ Live(k) => passed[k][entry[k].age] = Min({entry[k].count, Limit(k)})
=============================================================================

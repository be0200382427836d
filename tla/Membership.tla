----------------------------- MODULE Membership -----------------------------
(***************************************************************************)
(* The members of one server-encrypted channel and their personal tokens:  *)
(* channel.join, member.update and member.token.remint (chatv3-dm,         *)
(* service.channel.ts), the token of member.recovery.get                   *)
(* (service.recovery.ts), the token check in front of every member         *)
(* operation (helpers.ts), and the channel's own archive and delete.       *)
(*                                                                         *)
(* Each operation reads the member row in one statement and writes it in   *)
(* another, without a lock or a version check in between; requests run at  *)
(* the same time.  The client of a request may hold any token handed out.  *)
(***************************************************************************)
EXTENDS Naturals

CONSTANTS
  Handles,    (* handles members ask for                                   *)
  Creator,    (* the handle that created the channel                       *)
  Users,      (* verified authv2 principals                                *)
  NoUser,     (* an anonymous caller, a member bound to no principal       *)
  Requests,   (* requests that may run at the same time                    *)
  MaxMints    (* bound: number of tokens minted                            *)

ASSUME HandlesAssumption  == Creator \in Handles
ASSUME UsersAssumption    == NoUser \notin Users
ASSUME MaxMintsAssumption == MaxMints \in Nat \ {0}

(* "operator" has the rights of "owner", "observer" those of "member".      *)
Roles == {"owner", "member"}
Mints  == 1..MaxMints

(* A row of the members table.  "id" is the mint that gave the row its     *)
(* primary key, "secret" the one whose hash it stores.                     *)
Row == [state : {"absent", "active", "removed"}, role : Roles,
        id : 0..MaxMints, secret : 0..MaxMints, user : Users \cup {NoUser}]

NoRow == [state |-> "absent", role |-> "member", id |-> 0, secret |-> 0, user |-> NoUser]

Actor   == [id : 0..MaxMints, role : Roles]
NoActor == [id |-> 0, role |-> "member"]

(* A token handed to a client: cv3m_<id>_<secret>, for which handle, how.  *)
Token == [handle : Handles, id : Mints, secret : Mints,
          how : {"first", "again", "remint"}]

VARIABLES
  channel,   (* the channel row: "active", "archived" or "deleted"         *)
  row,       (* row[h]: the member row of handle h                         *)
  minted,    (* number of mints so far                                     *)
  handed,    (* the tokens handed out                                      *)
  pc,        (* pc[q]: what request q does next                            *)
  actor,     (* actor[q]: id and role of the row its token authenticated    *)
  target,    (* target[q]: the handle it works on                          *)
  read,      (* read[q]: that handle's row, as read                        *)
  ask        (* ask[q]: the request's input                                *)

request == <<pc, actor, target, read, ask>>
vars    == <<channel, row, minted, handed, request>>

(* A join asks with a principal or anonymously; an update asks for a role  *)
(* or a state; "keep" is a field left out.                                 *)
Asks  == [user : Users \cup {NoUser}, role : Roles \cup {"keep"},
          state : {"active", "removed", "keep"}]
NoAsk == [user |-> NoUser, role |-> "keep", state |-> "keep"]

(* channel.create has committed: the creator is the owner, and holds the   *)
(* first token.                                                            *)
Init ==
  /\ channel = "active"
  /\ \E u \in Users \cup {NoUser} :
       row = [h \in Handles |->
                IF h = Creator
                THEN [state |-> "active", role |-> "owner", id |-> 1, secret |-> 1, user |-> u]
                ELSE NoRow]
  /\ minted = 1
  /\ handed = {[handle |-> Creator, id |-> 1, secret |-> 1, how |-> "first"]}
  /\ pc = [q \in Requests |-> "idle"]
  /\ actor = [q \in Requests |-> NoActor]
  /\ target = [q \in Requests |-> Creator]
  /\ read = [q \in Requests |-> NoRow]
  /\ ask = [q \in Requests |-> NoAsk]

-----------------------------------------------------------------------------
(* The request ends and nothing of it is left.                             *)
End(q) ==
  /\ pc' = [pc EXCEPT ![q] = "idle"]
  /\ actor' = [actor EXCEPT ![q] = NoActor]
  /\ target' = [target EXCEPT ![q] = Creator]
  /\ read' = [read EXCEPT ![q] = NoRow]
  /\ ask' = [ask EXCEPT ![q] = NoAsk]

(* The request goes on with what it read of handle h.                      *)
Continue(q, phase, h, a) ==
  /\ pc' = [pc EXCEPT ![q] = phase]
  /\ target' = [target EXCEPT ![q] = h]
  /\ read' = [read EXCEPT ![q] = row[h]]
  /\ ask' = [ask EXCEPT ![q] = a]

(* A fresh random token for row id "id", handed to the caller.             *)
Hand(h, id, how) ==
  /\ minted < MaxMints /\ minted' = minted + 1
  /\ handed' = handed \cup {[handle |-> h, id |-> id, secret |-> minted + 1, how |-> how]}

(* The request fails, is refused, or its connection breaks: nothing is     *)
(* written.                                                                *)
Fail(q) ==
  /\ pc[q] # "idle" /\ End(q)
  /\ UNCHANGED <<channel, row, minted, handed>>

-----------------------------------------------------------------------------
(* channel.join, before its transaction, with an access key active at that *)
(* moment (ChannelKeys): the channel is active, the handle not in use.     *)
CheckJoin(q, h, u) ==
  /\ pc[q] = "idle"
  /\ channel = "active" /\ row[h].state # "active"
  /\ Continue(q, "join", h, [NoAsk EXCEPT !.user = u])
  /\ UNCHANGED <<channel, row, minted, handed, actor>>

(* Without the unique index on (channel, handle), or with an upsert on it  *)
(* (a variant of InsertMember).                                            *)
InsertMember_Upsert(q) ==
  LET h == target[q] IN
  /\ pc[q] = "join" /\ read[q].state = "absent" /\ channel # "deleted"
  /\ row' = [row EXCEPT ![h] = [state |-> "active", role |-> "member", id |-> minted + 1,
                                secret |-> minted + 1, user |-> ask[q].user]]
  /\ Hand(h, minted + 1, "first") /\ End(q)
  /\ UNCHANGED channel

(* The join of a new handle inserts its row, unless another request has,   *)
(* under an id and with a token minted together.                           *)
InsertMember(q) ==
  LET h == target[q] IN
  /\ pc[q] = "join" /\ read[q].state = "absent"
  /\ channel # "deleted" /\ row[h].state = "absent"
  /\ row' = [row EXCEPT ![h] = [state |-> "active", role |-> "member", id |-> minted + 1,
                                secret |-> minted + 1, user |-> ask[q].user]]
  /\ Hand(h, minted + 1, "first") /\ End(q)
  /\ UNCHANGED channel

(* The join of a removed handle updates its row: the token is minted for a *)
(* new id, the row keeps its own, and its role; an anonymous caller keeps  *)
(* the binding that was read.                                              *)
ReactivateMember(q) ==
  LET h == target[q] IN
  /\ pc[q] = "join" /\ read[q].state # "absent" /\ row[h].state # "absent"
  /\ row' = [row EXCEPT ![h] =
       [@ EXCEPT !.state = "active", !.secret = minted + 1,
                 !.user = IF ask[q].user # NoUser THEN ask[q].user ELSE read[q].user]]
  /\ Hand(h, minted + 1, "again") /\ End(q)
  /\ UNCHANGED channel

-----------------------------------------------------------------------------
(* A token opens the row whose id it names if that row is active and       *)
(* stores its secret.                                                      *)
Opens(t, h) ==
  row[h].state = "active" /\ row[h].id = t.id /\ row[h].secret = t.secret

(* The check in front of a member operation reads the caller's row.        *)
Authenticate(q, t, h) ==
  /\ pc[q] = "idle" /\ Opens(t, h)
  /\ pc' = [pc EXCEPT ![q] = "member"]
  /\ actor' = [actor EXCEPT ![q] = [id |-> row[h].id, role |-> row[h].role]]
  /\ UNCHANGED <<channel, row, minted, handed, target, read, ask>>

(* "A member can remove only itself": everything else takes an owner, by   *)
(* the role read at authentication.                                        *)
Allowed(q, h, a) ==
  \/ actor[q].role = "owner"
  \/ row[h].id = actor[q].id /\ a.role = "keep" /\ a.state = "removed"

(* member.update reads its target and checks the caller's rights.          *)
ReadTarget(q, h, a) ==
  /\ pc[q] = "member"
  /\ row[h].state # "absent" /\ Allowed(q, h, a)
  /\ Continue(q, "update", h, a)
  /\ UNCHANGED <<channel, row, minted, handed, actor>>

(* Fields left out written as such (a variant of WriteTarget).             *)
WriteTarget_NoDefaults(q) ==
  LET h == target[q] IN
  /\ pc[q] = "update" /\ row[h].state # "absent"
  /\ row' = [row EXCEPT ![h].role = ask[q].role, ![h].state = ask[q].state]
  /\ End(q)
  /\ UNCHANGED <<channel, minted, handed>>

(* The whole row written back (a variant of WriteTarget).                  *)
WriteTarget_WholeRow(q) ==
  LET h == target[q] IN
  /\ pc[q] = "update" /\ row[h].state # "absent"
  /\ row' = [row EXCEPT ![h] =
       [read[q] EXCEPT !.role = IF ask[q].role # "keep" THEN ask[q].role ELSE @,
                       !.state = IF ask[q].state # "keep" THEN ask[q].state ELSE @]]
  /\ End(q)
  /\ UNCHANGED <<channel, minted, handed>>

(* It writes what was asked for, and for what was not, what it read.       *)
WriteTarget(q) ==
  LET h == target[q] IN
  /\ pc[q] = "update" /\ row[h].state # "absent"
  /\ row' = [row EXCEPT ![h] =
       [@ EXCEPT !.role = IF ask[q].role # "keep" THEN ask[q].role ELSE read[q].role,
                 !.state = IF ask[q].state # "keep" THEN ask[q].state ELSE read[q].state]]
  /\ End(q)
  /\ UNCHANGED <<channel, minted, handed>>

-----------------------------------------------------------------------------
(* member.token.remint: a principal finds its active membership ...        *)
FindMembership(q, u, h) ==
  /\ pc[q] = "idle" /\ channel = "active"
  /\ row[h].state = "active" /\ row[h].user = u
  /\ Continue(q, "remint", h, [NoAsk EXCEPT !.user = u])
  /\ UNCHANGED <<channel, row, minted, handed, actor>>

(* ... as member.recovery.get does, in a channel that may be archived, for  *)
(* a client that asks for a token ...                                      *)
FindForRecovery(q, u, h) ==
  /\ pc[q] = "idle" /\ channel # "deleted"
  /\ row[h].state = "active" /\ row[h].user = u
  /\ Continue(q, "remint", h, [NoAsk EXCEPT !.user = u])
  /\ UNCHANGED <<channel, row, minted, handed, actor>>

(* A token minted for a new id, as join does (a variant of Remint).        *)
Remint_NewId(q) ==
  LET h == target[q] IN
  /\ pc[q] = "remint" /\ row[h].state # "absent"
  /\ row' = [row EXCEPT ![h].secret = minted + 1]
  /\ Hand(h, minted + 1, "remint") /\ End(q)
  /\ UNCHANGED channel

(* ... and replaces its token by a new one for the same id, whatever has   *)
(* become of the row meanwhile.                                            *)
Remint(q) ==
  LET h == target[q] IN
  /\ pc[q] = "remint" /\ row[h].state # "absent"
  /\ row' = [row EXCEPT ![h].secret = minted + 1]
  /\ Hand(h, row[h].id, "remint") /\ End(q)
  /\ UNCHANGED channel

-----------------------------------------------------------------------------
(* channel.archive and channel.unarchive.                                  *)
ArchiveChannel(status) ==
  /\ channel # "deleted" /\ channel' = status
  /\ UNCHANGED <<row, minted, handed, request>>

(* channel.delete: the rows of the members go with the channel's.          *)
DeleteChannel ==
  /\ channel # "deleted" /\ channel' = "deleted"
  /\ row' = [h \in Handles |-> NoRow]
  /\ UNCHANGED <<minted, handed, request>>

Join(q) ==
  \/ \E h \in Handles, u \in Users \cup {NoUser} : CheckJoin(q, h, u)
  \/ InsertMember(q) \/ ReactivateMember(q)

Update(q) ==
  \/ \E t \in handed, h \in Handles : Authenticate(q, t, h)
  \/ \E h \in Handles, a \in [user : {NoUser}, role : Roles \cup {"keep"},
                              state : {"active", "removed", "keep"}] : ReadTarget(q, h, a)
  \/ WriteTarget(q)

RemintToken(q) ==
  \/ \E u \in Users, h \in Handles : FindMembership(q, u, h) \/ FindForRecovery(q, u, h)
  \/ Remint(q)

Next ==
  \/ \E q \in Requests : Join(q) \/ Update(q) \/ RemintToken(q) \/ Fail(q)
  \/ \E status \in {"active", "archived"} : ArchiveChannel(status)
  \/ DeleteChannel

Spec == Init /\ [][Next]_vars

-----------------------------------------------------------------------------
(* The variables have their types.                                         *)
TypeOK ==
  /\ channel \in {"active", "archived", "deleted"}
  /\ row \in [Handles -> Row]
  /\ minted \in Mints
  /\ handed \subseteq Token
  /\ pc \in [Requests -> {"idle", "join", "member", "update", "remint"}]
  /\ actor \in [Requests -> Actor] /\ read \in [Requests -> Row]
  /\ target \in [Requests -> Handles]
  /\ ask \in [Requests -> Asks]

(* Of any number of requests that join with a new handle at the same time, *)
(* one is told that the handle is its own.                                 *)
OneFirstJoin ==
  \A t, u \in handed :
    t.handle = u.handle /\ t.how = "first" /\ u.how = "first" => t = u

(* While a member's row stores the secret of a token that a first join or  *)
(* a remint handed out, and the member is active, that token works:        *)
(* updates, re-joins and remints in flight together never split a secret   *)
(* from its row.                                                           *)
CurrentTokensWork ==
  \A t \in handed :
    /\ t.how # "again"
    /\ row[t.handle].secret = t.secret /\ row[t.handle].state = "active"
    => Opens(t, t.handle)

(* A token that a re-join or a remint replaced never works again, though   *)
(* updates write back what they read of the row before.                    *)
ReplacedTokensStayDead ==
  [][\A h \in Handles : row'[h].secret # row[h].secret =>
       \A t \in handed : t.handle = h => row'[h].secret # t.secret]_vars

(* The doc comment of join: it "creates/reactivates the membership, mints  *)
(* the personal member token" and returns it.  The token of a re-join      *)
(* names an id that no row has.                                            *)
RejoinTokensWork ==
  \A t \in handed :
    /\ t.how = "again"
    /\ row[t.handle].secret = t.secret /\ row[t.handle].state = "active"
    => Opens(t, t.handle)
=============================================================================

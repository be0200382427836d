-------------------------- MODULE MembershipProofs --------------------------
(***************************************************************************)
(* Theorems about Membership, for any handles, users, requests and number  *)
(* of mints.  The argument: a row's id never changes while the row exists, *)
(* a token that is not a re-join's names that id, and nothing was handed   *)
(* out for a handle without a row.                                         *)
(***************************************************************************)
EXTENDS Membership, TLAPS

(* Tokens handed out were minted before, and so were the secrets stored.   *)
MintedBefore == \A t \in handed : t.secret <= minted

(* Nothing is handed out for a handle that has no row, unless the channel  *)
(* is gone; and then there are no rows.                                    *)
NoRowNoToken ==
  /\ channel = "deleted" => \A h \in Handles : row[h].state = "absent"
  /\ channel # "deleted" =>
       \A h \in Handles : row[h].state = "absent" => \A t \in handed : t.handle # h

(* Tokens other than a re-join's name the id of their handle's row.        *)
TokensNameTheirRow ==
  \A t \in handed :
    t.how # "again" /\ row[t.handle].state # "absent" => row[t.handle].id = t.id

(* An update has read a row that existed.                                  *)
UpdatesReadRows == \A q \in Requests : pc[q] = "update" => read[q].state # "absent"

(* A row that exists has an id.                                            *)
RowsHaveIds == \A h \in Handles : row[h].state # "absent" => row[h].id \in Mints

(* The inductive invariant.                                                *)
IInv ==
  /\ TypeOK /\ RowsHaveIds /\ MintedBefore /\ NoRowNoToken /\ TokensNameTheirRow /\ UpdatesReadRows
  /\ OneFirstJoin

-----------------------------------------------------------------------------
(* The steps that touch neither the rows nor the tokens.                   *)
Frame ==
  \/ \E q \in Requests :
       \/ \E h \in Handles, u \in Users \cup {NoUser} : CheckJoin(q, h, u)
       \/ \E t \in handed, h \in Handles : Authenticate(q, t, h)
       \/ \E h \in Handles, a \in [user : {NoUser}, role : Roles \cup {"keep"},
                                   state : {"active", "removed", "keep"}] : ReadTarget(q, h, a)
       \/ \E u \in Users, h \in Handles : FindMembership(q, u, h) \/ FindForRecovery(q, u, h)
       \/ Fail(q)
  \/ UNCHANGED vars

(* They leave the rows and the tokens alone.                               *)
LEMMA FrameFacts == Frame => UNCHANGED <<channel, row, minted, handed>>
  BY DEF Frame, CheckJoin, Authenticate, ReadTarget, FindMembership, FindForRecovery, Fail, vars

(* Every step is one of those, an insert, a re-join, a write or a remint,  *)
(* or one of the channel's.                                                *)
LEMMA StepCases ==
  ASSUME [Next]_vars
  PROVE  \/ Frame
         \/ \E q \in Requests : InsertMember(q)
         \/ \E q \in Requests : ReactivateMember(q)
         \/ \E q \in Requests : WriteTarget(q)
         \/ \E q \in Requests : Remint(q)
         \/ \E status \in {"active", "archived"} : ArchiveChannel(status)
         \/ DeleteChannel
  BY DEF Next, Join, Update, RemintToken, Frame

(* The variables have their types at first.                                *)
LEMMA TypeInit == Init => TypeOK
  <1>. USE HandlesAssumption, UsersAssumption, MaxMintsAssumption
       DEF Init, TypeOK, Mints, Roles
  <1>1. ASSUME Init PROVE row \in [Handles -> Row]
    BY <1>1 DEF Row, NoRow
  <1>2. NoRow \in Row /\ NoActor \in Actor /\ NoAsk \in Asks
    BY DEF NoRow, Row, NoActor, Actor, NoAsk, Asks
  <1>3. [handle |-> Creator, id |-> 1, secret |-> 1, how |-> "first"] \in Token
    BY DEF Token
  <1>. QED BY <1>1, <1>2, <1>3

(* What is left of a request that has ended has its type.                  *)
LEMMA EndType ==
  ASSUME TypeOK, NEW q \in Requests, End(q)
  PROVE  /\ pc' \in [Requests -> {"idle", "join", "member", "update", "remint"}]
         /\ actor' \in [Requests -> Actor] /\ read' \in [Requests -> Row]
         /\ target' \in [Requests -> Handles]
         /\ ask' \in [Requests -> Asks]
  <1>1. NoRow \in Row /\ NoActor \in Actor /\ NoAsk \in Asks
    BY MaxMintsAssumption DEF NoRow, Row, NoActor, Actor, NoAsk, Asks, Roles
  <1>. QED BY <1>1, HandlesAssumption DEF End, TypeOK

(* Changing one row of the table by a row.                                 *)
LEMMA RowChange ==
  ASSUME row \in [Handles -> Row], NEW h \in Handles, NEW new \in Row,
         row' = [row EXCEPT ![h] = new]
  PROVE  row' \in [Handles -> Row] /\ row'[h] = new /\ \A g \in Handles \ {h} : row'[g] = row[g]
  OBVIOUS

(* What the inserts and updates write.                                     *)
LEMMA InsertFacts ==
  ASSUME TypeOK, NEW q \in Requests, InsertMember(q)
  PROVE  LET h == target[q] IN
         /\ h \in Handles /\ row' \in [Handles -> Row] /\ channel # "deleted"
         /\ row[h].state = "absent" /\ row'[h].state = "active"
         /\ row'[h].id = minted + 1 /\ row'[h].secret = minted + 1
         /\ \A g \in Handles \ {h} : row'[g] = row[g]
         /\ minted + 1 \in Mints /\ Hand(h, minted + 1, "first") /\ UNCHANGED channel
  <1>. DEFINE h == target[q]
              new == [state |-> "active", role |-> "member", id |-> minted + 1,
                      secret |-> minted + 1, user |-> ask[q].user]
  <1>1. h \in Handles /\ ask[q].user \in Users \cup {NoUser} BY DEF TypeOK, Asks
  <1>2. minted + 1 \in Mints
    BY MaxMintsAssumption DEF InsertMember, Hand, TypeOK, Mints
  <1>3. new \in Row BY <1>1, <1>2 DEF Row, Roles, Mints
  <1>4. row' = [row EXCEPT ![h] = new] BY DEF InsertMember
  <1>5. /\ row' \in [Handles -> Row] /\ row'[h] = new
        /\ \A g \in Handles \ {h} : row'[g] = row[g]
    BY <1>1, <1>3, <1>4, RowChange DEF TypeOK
  <1>. QED BY <1>1, <1>2, <1>5 DEF InsertMember

(* A re-join keeps the id of the row and replaces its secret.              *)
LEMMA ReactivateFacts ==
  ASSUME TypeOK, NEW q \in Requests, ReactivateMember(q)
  PROVE  LET h == target[q] IN
         /\ h \in Handles /\ row' \in [Handles -> Row]
         /\ row[h].state # "absent" /\ row'[h].state = "active"
         /\ row'[h].id = row[h].id /\ row'[h].secret = minted + 1
         /\ \A g \in Handles \ {h} : row'[g] = row[g]
         /\ minted + 1 \in Mints /\ Hand(h, minted + 1, "again") /\ UNCHANGED channel
  <1>. DEFINE h == target[q]
              u == IF ask[q].user # NoUser THEN ask[q].user ELSE read[q].user
              new == [row[h] EXCEPT !.state = "active", !.secret = minted + 1, !.user = u]
  <1>1. h \in Handles /\ u \in Users \cup {NoUser} /\ row[h] \in Row BY DEF TypeOK, Asks, Row
  <1>2. minted + 1 \in Mints
    BY MaxMintsAssumption DEF ReactivateMember, Hand, TypeOK, Mints
  <1>3. /\ new \in Row /\ new.state = "active" /\ new.id = row[h].id /\ new.secret = minted + 1
    <2>1. new = [row[h] EXCEPT !.state = "active", !.secret = minted + 1, !.user = u] OBVIOUS
    <2>2. minted + 1 \in 0..MaxMints BY <1>2, MaxMintsAssumption DEF Mints
    <2>. HIDE DEF new, u, h
    <2>. QED BY <1>1, <2>1, <2>2 DEF Row
  <1>4. row' = [row EXCEPT ![h] = new]
    BY DEF ReactivateMember
  <1>5. /\ row' \in [Handles -> Row] /\ row'[h] = new
        /\ \A g \in Handles \ {h} : row'[g] = row[g]
    BY <1>1, <1>3, <1>4, RowChange DEF TypeOK
  <1>. QED BY <1>1, <1>2, <1>3, <1>5 DEF ReactivateMember

(* An update keeps id and secret, and never leaves the row absent.         *)
LEMMA WriteFacts ==
  ASSUME TypeOK, UpdatesReadRows, NEW q \in Requests, WriteTarget(q)
  PROVE  LET h == target[q] IN
         /\ h \in Handles /\ row' \in [Handles -> Row]
         /\ row[h].state # "absent" /\ row'[h].state # "absent"
         /\ row'[h].id = row[h].id /\ row'[h].secret = row[h].secret
         /\ \A g \in Handles \ {h} : row'[g] = row[g]
         /\ UNCHANGED <<channel, minted, handed>>
  <1>. DEFINE h == target[q]
              role == IF ask[q].role # "keep" THEN ask[q].role ELSE read[q].role
              state == IF ask[q].state # "keep" THEN ask[q].state ELSE read[q].state
              new == [row[h] EXCEPT !.role = role, !.state = state]
  <1>1. h \in Handles /\ role \in Roles /\ row[h] \in Row BY DEF TypeOK, Asks, Row
  <1>2. state \in {"active", "removed"}
    BY DEF TypeOK, Asks, Row, UpdatesReadRows, WriteTarget
  <1>3. /\ new \in Row /\ new.state = state /\ new.id = row[h].id /\ new.secret = row[h].secret
    BY <1>1, <1>2 DEF Row
  <1>4. row' = [row EXCEPT ![h] = new]
    BY <1>1 DEF WriteTarget, TypeOK, Row
  <1>5. /\ row' \in [Handles -> Row] /\ row'[h] = new
        /\ \A g \in Handles \ {h} : row'[g] = row[g]
    BY <1>1, <1>3, <1>4, RowChange DEF TypeOK
  <1>. QED BY <1>1, <1>2, <1>3, <1>5 DEF WriteTarget

(* A remint keeps everything but the secret.                               *)
LEMMA RemintFacts ==
  ASSUME TypeOK, RowsHaveIds, NEW q \in Requests, Remint(q)
  PROVE  LET h == target[q] IN
         /\ h \in Handles /\ row' \in [Handles -> Row] /\ row[h].id \in Mints
         /\ row[h].state # "absent" /\ row'[h].state = row[h].state
         /\ row'[h].id = row[h].id /\ row'[h].secret = minted + 1
         /\ \A g \in Handles \ {h} : row'[g] = row[g]
         /\ minted + 1 \in Mints /\ Hand(h, row[h].id, "remint") /\ UNCHANGED channel
  <1>. DEFINE h == target[q]
              new == [row[h] EXCEPT !.secret = minted + 1]
  <1>1. h \in Handles /\ row[h] \in Row BY DEF TypeOK
  <1>2. minted + 1 \in Mints
    BY MaxMintsAssumption DEF Remint, Hand, TypeOK, Mints
  <1>3. /\ new \in Row /\ new.state = row[h].state /\ new.id = row[h].id /\ new.secret = minted + 1
    BY <1>1, <1>2 DEF Row, Mints
  <1>4. row' = [row EXCEPT ![h] = new]
    BY <1>1 DEF Remint, TypeOK, Row
  <1>5. /\ row' \in [Handles -> Row] /\ row'[h] = new
        /\ \A g \in Handles \ {h} : row'[g] = row[g]
    BY <1>1, <1>3, <1>4, RowChange DEF TypeOK
  <1>. QED BY <1>1, <1>2, <1>3, <1>5 DEF Remint, RowsHaveIds

(* What a token handed out is.                                             *)
LEMMA HandType ==
  ASSUME TypeOK, NEW h \in Handles, NEW id \in Mints, NEW how \in {"first", "again", "remint"},
         Hand(h, id, how)
  PROVE  /\ minted + 1 \in Mints /\ minted' = minted + 1
         /\ handed' \subseteq Token
         /\ handed' = handed \cup {[handle |-> h, id |-> id, secret |-> minted + 1, how |-> how]}
  <1>1. minted + 1 \in Mints BY MaxMintsAssumption DEF Hand, TypeOK, Mints
  <1>. QED BY <1>1 DEF Hand, TypeOK, Token

(* Every step keeps the types.                                             *)
LEMMA TypeStep == TypeOK /\ RowsHaveIds /\ UpdatesReadRows /\ [Next]_vars => TypeOK'
  <1>. SUFFICES ASSUME TypeOK, RowsHaveIds, UpdatesReadRows, [Next]_vars PROVE TypeOK'
    OBVIOUS
  <1>1. CASE Frame
    <2>1. UNCHANGED <<channel, row, minted, handed>> BY <1>1, FrameFacts
    <2>2. ASSUME NEW q \in Requests, NEW h \in Handles, NEW phase \in {"join", "update", "remint"},
                 NEW a \in Asks, Continue(q, phase, h, a), actor' = actor
          PROVE  TypeOK'
      BY <2>1, <2>2 DEF Continue, TypeOK
    <2>3. ASSUME NEW q \in Requests, NEW h \in Handles, NEW u \in Users \cup {NoUser},
                 CheckJoin(q, h, u)
          PROVE  TypeOK'
      <3>1. [NoAsk EXCEPT !.user = u] \in Asks BY DEF NoAsk, Asks
      <3>. QED BY <2>2, <2>3, <3>1 DEF CheckJoin
    <2>4. ASSUME NEW q \in Requests, NEW t \in handed, NEW h \in Handles, Authenticate(q, t, h)
          PROVE  TypeOK'
      <3>1. [id |-> row[h].id, role |-> row[h].role] \in Actor BY DEF TypeOK, Row, Actor
      <3>. QED BY <2>4, <3>1 DEF Authenticate, TypeOK
    <2>5. ASSUME NEW q \in Requests, NEW h \in Handles,
                 NEW a \in [user : {NoUser}, role : Roles \cup {"keep"},
                            state : {"active", "removed", "keep"}], ReadTarget(q, h, a)
          PROVE  TypeOK'
      <3>1. a \in Asks BY DEF Asks
      <3>. QED BY <2>2, <2>5, <3>1 DEF ReadTarget
    <2>6. ASSUME NEW q \in Requests, NEW u \in Users, NEW h \in Handles,
                 FindMembership(q, u, h) \/ FindForRecovery(q, u, h)
          PROVE  TypeOK'
      <3>1. [NoAsk EXCEPT !.user = u] \in Asks BY DEF NoAsk, Asks
      <3>. QED BY <2>2, <2>6, <3>1 DEF FindMembership, FindForRecovery
    <2>7. ASSUME NEW q \in Requests, Fail(q) PROVE TypeOK'
      BY <2>1, <2>7, EndType DEF Fail, TypeOK
    <2>8. CASE UNCHANGED vars BY <2>8 DEF vars, request, TypeOK
    <2>. QED BY <1>1, <2>3, <2>4, <2>5, <2>6, <2>7, <2>8 DEF Frame
  <1>2. ASSUME NEW q \in Requests, InsertMember(q) PROVE TypeOK'
    <2>1. minted' \in Mints /\ handed' \subseteq Token BY <1>2, InsertFacts, HandType
    <2>. QED BY <1>2, <2>1, InsertFacts, EndType DEF InsertMember, TypeOK
  <1>3. ASSUME NEW q \in Requests, ReactivateMember(q) PROVE TypeOK'
    <2>1. minted' \in Mints /\ handed' \subseteq Token BY <1>3, ReactivateFacts, HandType
    <2>. QED BY <1>3, <2>1, ReactivateFacts, EndType DEF ReactivateMember, TypeOK
  <1>4. ASSUME NEW q \in Requests, WriteTarget(q) PROVE TypeOK'
    BY <1>4, WriteFacts, EndType DEF WriteTarget, TypeOK
  <1>5. ASSUME NEW q \in Requests, Remint(q) PROVE TypeOK'
    <2>1. minted' \in Mints /\ handed' \subseteq Token BY <1>5, RemintFacts, HandType
    <2>. QED BY <1>5, <2>1, RemintFacts, EndType DEF Remint, TypeOK
  <1>6. ASSUME NEW status \in {"active", "archived"}, ArchiveChannel(status) PROVE TypeOK'
    BY <1>6 DEF ArchiveChannel, TypeOK, request
  <1>7. CASE DeleteChannel
    <2>1. NoRow \in Row BY MaxMintsAssumption DEF NoRow, Row, Roles
    <2>. QED BY <1>7, <2>1 DEF DeleteChannel, TypeOK, request
  <1>. QED BY <1>1, <1>2, <1>3, <1>4, <1>5, <1>6, <1>7, StepCases

-----------------------------------------------------------------------------
(* The rest of the inductive invariant holds at first.                     *)
LEMMA InvInit == Init => IInv
  <1>. SUFFICES ASSUME Init PROVE IInv OBVIOUS
  <1>1. TypeOK BY TypeInit
  <1>2. RowsHaveIds BY HandlesAssumption, MaxMintsAssumption DEF Init, RowsHaveIds, NoRow, Mints
  <1>5. MintedBefore BY DEF Init, MintedBefore
  <1>6. TokensNameTheirRow BY HandlesAssumption DEF Init, TokensNameTheirRow
  <1>3. NoRowNoToken /\ OneFirstJoin BY DEF Init, NoRowNoToken, OneFirstJoin, NoRow
  <1>4. UpdatesReadRows BY DEF Init, UpdatesReadRows
  <1>. QED BY <1>1, <1>2, <1>3, <1>4, <1>5, <1>6 DEF IInv

(* Rows keep their ids for as long as they exist; a new row has one.       *)
LEMMA IdsStep == TypeOK /\ RowsHaveIds /\ UpdatesReadRows /\ [Next]_vars => RowsHaveIds'
  <1>. SUFFICES ASSUME TypeOK, RowsHaveIds, UpdatesReadRows, [Next]_vars PROVE RowsHaveIds'
    OBVIOUS
  <1>1. CASE Frame BY <1>1, FrameFacts DEF RowsHaveIds
  <1>2. ASSUME NEW q \in Requests, InsertMember(q) PROVE RowsHaveIds'
    BY <1>2, InsertFacts DEF RowsHaveIds
  <1>3. ASSUME NEW q \in Requests, ReactivateMember(q) PROVE RowsHaveIds'
    BY <1>3, ReactivateFacts DEF RowsHaveIds
  <1>4. ASSUME NEW q \in Requests, WriteTarget(q) PROVE RowsHaveIds'
    BY <1>4, WriteFacts DEF RowsHaveIds
  <1>5. ASSUME NEW q \in Requests, Remint(q) PROVE RowsHaveIds'
    BY <1>5, RemintFacts DEF RowsHaveIds
  <1>6. ASSUME NEW status \in {"active", "archived"}, ArchiveChannel(status) PROVE RowsHaveIds'
    BY <1>6 DEF ArchiveChannel, RowsHaveIds
  <1>7. CASE DeleteChannel BY <1>7 DEF DeleteChannel, RowsHaveIds, NoRow
  <1>. QED BY <1>1, <1>2, <1>3, <1>4, <1>5, <1>6, <1>7, StepCases

(* An update's read is the row its ReadTarget found.                       *)
LEMMA ReadsStep == TypeOK /\ UpdatesReadRows /\ [Next]_vars => UpdatesReadRows'
  <1>. SUFFICES ASSUME TypeOK, UpdatesReadRows, [Next]_vars, NEW r \in Requests,
                       pc'[r] = "update"
                PROVE  read'[r].state # "absent"
    BY DEF UpdatesReadRows
  <1>1. ASSUME NEW q \in Requests, End(q) PROVE read'[r].state # "absent"
    BY <1>1 DEF End, TypeOK, UpdatesReadRows
  <1>2. ASSUME NEW q \in Requests, NEW h \in Handles, NEW phase, NEW a,
               phase = "update" => row[h].state # "absent", Continue(q, phase, h, a)
        PROVE  read'[r].state # "absent"
    BY <1>2 DEF Continue, TypeOK, UpdatesReadRows
  <1>3. ASSUME NEW q \in Requests, NEW h \in Handles, NEW u \in Users \cup {NoUser},
               CheckJoin(q, h, u)
        PROVE  read'[r].state # "absent"
    BY <1>2, <1>3 DEF CheckJoin
  <1>4. ASSUME NEW q \in Requests, NEW t \in handed, NEW h \in Handles, Authenticate(q, t, h)
        PROVE  read'[r].state # "absent"
    BY <1>4 DEF Authenticate, TypeOK, UpdatesReadRows
  <1>5. ASSUME NEW q \in Requests, NEW h \in Handles, NEW a, ReadTarget(q, h, a)
        PROVE  read'[r].state # "absent"
    BY <1>2, <1>5 DEF ReadTarget
  <1>6. ASSUME NEW q \in Requests, NEW u \in Users, NEW h \in Handles,
               FindMembership(q, u, h) \/ FindForRecovery(q, u, h)
        PROVE  read'[r].state # "absent"
    BY <1>2, <1>6 DEF FindMembership, FindForRecovery
  <1>7. CASE UNCHANGED request BY <1>7 DEF request, UpdatesReadRows
  <1>8. CASE Frame
    BY <1>1, <1>3, <1>4, <1>5, <1>6, <1>7, <1>8 DEF Frame, Fail, vars
  <1>. QED
    BY <1>1, <1>7, <1>8, StepCases
    DEF InsertMember, ReactivateMember, WriteTarget, Remint, ArchiveChannel, DeleteChannel

(* Secrets are minted in order.                                            *)
LEMMA MintedStep ==
  TypeOK /\ RowsHaveIds /\ UpdatesReadRows /\ MintedBefore /\ [Next]_vars => MintedBefore'
  <1>. SUFFICES ASSUME TypeOK, RowsHaveIds, UpdatesReadRows, MintedBefore, [Next]_vars
                PROVE  MintedBefore'
    OBVIOUS
  <1>1. ASSUME NEW h, NEW id, NEW how, Hand(h, id, how) PROVE MintedBefore'
    BY <1>1 DEF Hand, MintedBefore, TypeOK, Token, Mints
  <1>2. CASE UNCHANGED <<minted, handed>> BY <1>2 DEF MintedBefore
  <1>. QED
    BY <1>1, <1>2, FrameFacts, StepCases
    DEF InsertMember, ReactivateMember, WriteTarget, Remint, ArchiveChannel, DeleteChannel

(* Every token of a handle is handed out with its row there, or with it.   *)
LEMMA NoRowStep == IInv /\ [Next]_vars => NoRowNoToken'
  <1>. SUFFICES ASSUME IInv, [Next]_vars PROVE NoRowNoToken'
    OBVIOUS
  <1>. USE DEF IInv
  <1>1. CASE Frame BY <1>1, FrameFacts DEF NoRowNoToken
  <1>2. ASSUME NEW q \in Requests, NEW h \in Handles, NEW id, NEW how, Hand(h, id, how),
               channel # "deleted", UNCHANGED channel, row'[h].state # "absent",
               \A g \in Handles \ {h} : row'[g] = row[g]
        PROVE  NoRowNoToken'
    <2>1. \A t \in handed' : t \in handed \/ t.handle = h BY <1>2 DEF Hand
    <2>. QED BY <1>2, <2>1 DEF NoRowNoToken
  <1>3. ASSUME NEW q \in Requests, InsertMember(q) PROVE NoRowNoToken'
    BY <1>2, <1>3, InsertFacts
  <1>4. ASSUME NEW q \in Requests, ReactivateMember(q) PROVE NoRowNoToken'
    <2>1. channel # "deleted" BY <1>4, ReactivateFacts DEF NoRowNoToken
    <2>. QED BY <1>2, <1>4, <2>1, ReactivateFacts
  <1>5. ASSUME NEW q \in Requests, WriteTarget(q) PROVE NoRowNoToken'
    BY <1>5, WriteFacts DEF NoRowNoToken
  <1>6. ASSUME NEW q \in Requests, Remint(q) PROVE NoRowNoToken'
    <2>1. channel # "deleted" BY <1>6, RemintFacts DEF NoRowNoToken
    <2>. QED BY <1>2, <1>6, <2>1, RemintFacts
  <1>7. ASSUME NEW status \in {"active", "archived"}, ArchiveChannel(status)
        PROVE  NoRowNoToken'
    BY <1>7 DEF ArchiveChannel, NoRowNoToken
  <1>8. CASE DeleteChannel BY <1>8 DEF DeleteChannel, NoRowNoToken, NoRow
  <1>. QED BY <1>1, <1>3, <1>4, <1>5, <1>6, <1>7, <1>8, StepCases

(* First tokens name the id inserted with them, reminted ones the id read; *)
(* the row keeps it.                                                       *)
LEMMA NameStep == IInv /\ [Next]_vars => TokensNameTheirRow'
  <1>. SUFFICES ASSUME IInv, [Next]_vars PROVE TokensNameTheirRow'
    OBVIOUS
  <1>. USE DEF IInv
  <1>1. CASE Frame BY <1>1, FrameFacts DEF TokensNameTheirRow
  <1>2. ASSUME NEW h \in Handles, NEW id, NEW how, Hand(h, id, how),
               how = "again" \/ row'[h].id = id,
               \A t \in handed :
                 t.handle = h => t.how = "again" \/ row'[h].id = t.id,
               \A g \in Handles \ {h} : row'[g] = row[g]
        PROVE  TokensNameTheirRow'
    <2>1. \A t \in handed : t.handle \in Handles BY DEF TypeOK, Token
    <2>2. \A t \in handed' :
            t \in handed \/ (t.handle = h /\ t.id = id /\ t.how = how)
      BY <1>2 DEF Hand
    <2>. QED BY <1>2, <2>1, <2>2 DEF TokensNameTheirRow
  <1>3. ASSUME NEW q \in Requests, InsertMember(q) PROVE TokensNameTheirRow'
    <2>1. \A t \in handed : t.handle # target[q] BY <1>3, InsertFacts DEF NoRowNoToken
    <2>. QED BY <1>2, <1>3, <2>1, InsertFacts
  <1>4. ASSUME NEW q \in Requests, ReactivateMember(q) PROVE TokensNameTheirRow'
    BY <1>2, <1>4, ReactivateFacts DEF TokensNameTheirRow
  <1>5. ASSUME NEW q \in Requests, WriteTarget(q) PROVE TokensNameTheirRow'
    <2>1. \A t \in handed : t.handle \in Handles BY DEF TypeOK, Token
    <2>. QED BY <1>5, <2>1, WriteFacts DEF TokensNameTheirRow
  <1>6. ASSUME NEW q \in Requests, Remint(q) PROVE TokensNameTheirRow'
    BY <1>2, <1>6, RemintFacts DEF TokensNameTheirRow
  <1>7. ASSUME NEW status \in {"active", "archived"}, ArchiveChannel(status)
        PROVE  TokensNameTheirRow'
    BY <1>7 DEF ArchiveChannel, TokensNameTheirRow
  <1>8. CASE DeleteChannel
    <2>1. \A t \in handed : t.handle \in Handles BY DEF TypeOK, Token
    <2>. QED BY <1>8, <2>1 DEF DeleteChannel, TokensNameTheirRow, NoRow
  <1>. QED BY <1>1, <1>3, <1>4, <1>5, <1>6, <1>7, <1>8, StepCases

(* A first token is handed out only to a handle that had none.             *)
LEMMA FirstStep == IInv /\ [Next]_vars => OneFirstJoin'
  <1>. SUFFICES ASSUME IInv, [Next]_vars PROVE OneFirstJoin'
    OBVIOUS
  <1>. USE DEF IInv
  <1>1. CASE handed' = handed BY <1>1 DEF OneFirstJoin
  <1>2. ASSUME NEW h, NEW id, NEW how, Hand(h, id, how),
               how = "first" => \A t \in handed : t.handle # h
        PROVE  OneFirstJoin'
    BY <1>2 DEF Hand, OneFirstJoin
  <1>3. ASSUME NEW q \in Requests, InsertMember(q) PROVE OneFirstJoin'
    <2>1. \A t \in handed : t.handle # target[q] BY <1>3, InsertFacts DEF NoRowNoToken
    <2>. QED BY <1>2, <1>3, <2>1, InsertFacts
  <1>4. ASSUME NEW q \in Requests, ReactivateMember(q) PROVE OneFirstJoin'
    BY <1>2, <1>4 DEF ReactivateMember
  <1>5. ASSUME NEW q \in Requests, Remint(q) PROVE OneFirstJoin'
    BY <1>2, <1>5 DEF Remint
  <1>. QED
    BY <1>1, <1>3, <1>4, <1>5, FrameFacts, StepCases
    DEF WriteTarget, ArchiveChannel, DeleteChannel

(* Every step keeps the inductive invariant.                               *)
LEMMA InvStep == IInv /\ [Next]_vars => IInv'
  BY TypeStep, IdsStep, ReadsStep, MintedStep, NoRowStep, NameStep, FirstStep DEF IInv

-----------------------------------------------------------------------------
(* The strengthening holds in every reachable state.                       *)
THEOREM Invariance == Spec => []IInv
  <1>1. Init => IInv BY InvInit
  <1>2. IInv /\ [Next]_vars => IInv' BY InvStep
  <1>. QED BY <1>1, <1>2, PTL DEF Spec

(* The variables of the membership protocol keep their types.              *)
THEOREM TypeCorrect == Spec => []TypeOK
  <1>1. IInv => TypeOK BY DEF IInv
  <1>. QED BY <1>1, Invariance, PTL

(* Whatever joins of a new handle overlap, one token of a first join is    *)
(* handed out for it.                                                      *)
THEOREM FirstJoinsAreSingle == Spec => []OneFirstJoin
  <1>1. IInv => OneFirstJoin BY DEF IInv
  <1>. QED BY <1>1, Invariance, PTL

(* The token whose secret an active row stores opens it, unless it came    *)
(* from a re-join.                                                         *)
THEOREM StoredSecretsOpen == Spec => []CurrentTokensWork
  <1>1. IInv => CurrentTokensWork
    BY DEF IInv, TokensNameTheirRow, CurrentTokensWork, Opens
  <1>. QED BY <1>1, Invariance, PTL

(* No update, remint, re-join or deletion brings back a token that was     *)
(* replaced: a secret that a row takes is minted in that very step.        *)
THEOREM ReplacementIsFinal == Spec => ReplacedTokensStayDead
  <1>. DEFINE Dead == \A h \in Handles : row'[h].secret # row[h].secret =>
                        \A t \in handed : t.handle = h => row'[h].secret # t.secret
  <1>1. ASSUME IInv, [Next]_vars PROVE Dead
    <2>. USE <1>1 DEF IInv
    <2>1. \A t \in handed : t.secret # minted + 1 /\ t.secret # 0
      BY DEF MintedBefore, TypeOK, Token, Mints
    <2>2. ASSUME NEW q \in Requests, InsertMember(q) PROVE Dead
      BY <2>1, <2>2, InsertFacts
    <2>3. ASSUME NEW q \in Requests, ReactivateMember(q) PROVE Dead
      BY <2>1, <2>3, ReactivateFacts
    <2>4. ASSUME NEW q \in Requests, WriteTarget(q) PROVE Dead
      BY <2>4, WriteFacts
    <2>5. ASSUME NEW q \in Requests, Remint(q) PROVE Dead
      BY <2>1, <2>5, RemintFacts
    <2>6. CASE DeleteChannel BY <2>1, <2>6 DEF DeleteChannel, NoRow
    <2>7. CASE UNCHANGED row BY <2>7
    <2>. QED BY <2>2, <2>3, <2>4, <2>5, <2>6, <2>7, FrameFacts, StepCases DEF ArchiveChannel
  <1>. QED BY <1>1, Invariance, PTL DEF Spec, ReplacedTokensStayDead
=============================================================================

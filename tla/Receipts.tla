------------------------------ MODULE Receipts ------------------------------
(***************************************************************************)
(* How far the members of a room have come: message.read, .delivered and   *)
(* .ack, and the receipts a client derives the blue tick from (chatv3-dm,  *)
(* service.cursor.ts and its repository).                                  *)
(*                                                                         *)
(* A client posts its position whenever it likes and does not wait: posts  *)
(* overtake each other and get lost.  Each is one upsert of the member's   *)
(* row, whose three positions move separately.                             *)
(***************************************************************************)
EXTENDS Naturals, FiniteSets, FiniteSetsExt

CONSTANTS
  Members,     (* members of the channel                                   *)
  Fields,      (* positions: lastReadSeq, deliveredSeq, ackSeq             *)
  Read,        (* the one that stands for lastReadSeq                      *)
  LastSeq,     (* messages in the room                                     *)
  MaxPosts     (* bound: posts in flight                                   *)

ASSUME FieldsAssumption   == Read \in Fields
ASSUME PositionAssumption == LastSeq \in Nat /\ MaxPosts \in Nat

Positions == 0..LastSeq

VARIABLES
  active,    (* members whose row is active                                *)
  at,        (* at[m][f]: how far the member itself has come               *)
  posts,     (* posts in flight                                            *)
  row,       (* row[m][f]: the cursor row                                  *)
  hasRow,    (* members that have a cursor row                             *)
  posted     (* posted[m][f]: the highest position that reached the server *)

receiptVars == <<active, at, posts, row, hasRow, posted>>

Zero == [m \in Members |-> [f \in Fields |-> 0]]

ReceiptsInit ==
  /\ active = Members
  /\ at = Zero /\ row = Zero /\ posted = Zero
  /\ posts = {} /\ hasRow = {}

-----------------------------------------------------------------------------
(* A member reads on (or its client receives, or it acknowledges) and the  *)
(* client posts the position.                                              *)
Advance(m, f, n) ==
  /\ m \in active /\ n > at[m][f] /\ Cardinality(posts) < MaxPosts
  /\ at' = [at EXCEPT ![m][f] = n]
  /\ posts' = posts \cup {[by |-> m, field |-> f, seq |-> n]}
  /\ UNCHANGED <<active, row, hasRow, posted>>

(* It posts an old position again, from an earlier page.                   *)
PostAgain(m, f, n) ==
  /\ m \in active /\ n <= at[m][f] /\ Cardinality(posts) < MaxPosts
  /\ posts' = posts \cup {[by |-> m, field |-> f, seq |-> n]}
  /\ UNCHANGED <<active, at, row, hasRow, posted>>

(* The last post wins (a variant of Greatest).                             *)
Greatest_Last(x) == x.seq

(* The posted position is added to the stored one (a variant of Greatest). *)
Greatest_Sum(x) == row[x.by][x.field] + x.seq

(* The position stored when a post meets a row.                            *)
Greatest(x) == Max({row[x.by][x.field], x.seq})

(* The upsert: a new row has the other positions at 0, an old one keeps    *)
(* them.  The sender was active when the request was authenticated.        *)
Upsert(x) ==
  /\ row' = [row EXCEPT ![x.by][x.field] = IF x.by \in hasRow THEN Greatest(x) ELSE x.seq]
  /\ hasRow' = hasRow \cup {x.by}
  /\ posted' = [posted EXCEPT ![x.by][x.field] = Max({@, x.seq})]
  /\ posts' = posts \ {x}
  /\ UNCHANGED <<active, at>>

(* The post is lost, or refused.                                           *)
Lose(x) ==
  /\ posts' = posts \ {x}
  /\ UNCHANGED <<active, at, row, hasRow, posted>>

(* A member joins, is removed, or joins again; its cursor row stays.       *)
SetActive(m) ==
  /\ active' = IF m \in active THEN active \ {m} ELSE active \cup {m}
  /\ UNCHANGED <<at, posts, row, hasRow, posted>>

ReceiptsNext ==
  \/ \E m \in Members, f \in Fields, n \in Positions : Advance(m, f, n) \/ PostAgain(m, f, n)
  \/ \E x \in posts : Upsert(x) \/ Lose(x)
  \/ \E m \in Members : SetActive(m)

-----------------------------------------------------------------------------
(* The members of the receipts: all active ones.                           *)
Listed == active

(* The receipt: one without a row is at 0.                                 *)
Receipt(m, f) == IF m \in hasRow THEN row[m][f] ELSE 0

(* The tick a client derives from the receipts it is sent.                 *)
BlueTick(n) == \A m \in Listed : Receipt(m, Read) >= n

-----------------------------------------------------------------------------
(* The variables have their types.                                         *)
ReceiptsTypeOK ==
  /\ active \subseteq Members /\ hasRow \subseteq Members
  /\ {at, row, posted} \subseteq [Members -> [Fields -> Positions]]
  /\ posts \subseteq [by : Members, field : Fields, seq : Positions]

(* A blue tick on a message means that every active member has read it,    *)
(* whoever joined, left or came back, and however posts were overtaken;    *)
(* and a receipt shows the highest position that reached the server.       *)
ReceiptsAreTrue ==
  /\ \A n \in Positions : BlueTick(n) => \A m \in active : at[m][Read] >= n
  /\ \A m \in Members, f \in Fields : Receipt(m, f) = posted[m][f]
=============================================================================

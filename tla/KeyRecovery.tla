---------------------------- MODULE KeyRecovery ----------------------------
(***************************************************************************)
(* Recovering a member's channel secret on a new device                    *)
(* (chatv3-dm, service.recovery.ts).                                       *)
(*                                                                         *)
(* A user registers a public key with an encrypted backup of its private   *)
(* half.  For each membership, somebody who holds the channel's wrap       *)
(* secret seals it to that key and stores the package.  channel.rotate     *)
(* (service.channel.ts) replaces the secret and marks the channel's        *)
(* packages stale; registering another key marks the user's packages       *)
(* stale.  No operation locks what it read before it writes.               *)
(*                                                                         *)
(* Both mark with an UPDATE of the usable packages, inside a transaction   *)
(* at READ COMMITTED.  The UPDATE goes over the rows its snapshot shows    *)
(* usable, looks at each again, and locks it until the COMMIT; a row that  *)
(* appears or becomes usable after the snapshot is passed over.  Nobody    *)
(* else touches a locked row, and readers see it as it was, so that rows   *)
(* may as well be marked at the COMMIT: a transaction is two steps here,   *)
(* its snapshot and its COMMIT, and any request may come between.          *)
(*                                                                         *)
(* What a package really holds, "key" and "secret", is ciphertext to the   *)
(* server: it sees and compares only "version".                            *)
(***************************************************************************)
EXTENDS Naturals

CONSTANTS
  Users,        (* verified principals                                     *)
  Channels,     (* each user has a member row in each channel              *)
  Keys,         (* public keys                                             *)
  NoKey,        (* the key of a user without a backup                      *)
  Devices,      (* clients that register keys                              *)
  Helpers,      (* clients that store packages                             *)
  Readers,      (* clients that ask for recovery                           *)
  Rotators,     (* clients that rotate channels                            *)
  MaxVersion,   (* bound: key versions                                     *)
  MaxSecret     (* bound: rotations of a channel                           *)

ASSUME KeysAssumption   == NoKey \notin Keys
ASSUME BoundsAssumption == MaxVersion \in Nat \ {0} /\ MaxSecret \in Nat

Seats   == Channels \X Users        (* the member row of a user            *)
Secrets == 0..MaxSecret

(* A row of the user key backups; version 0 is no row.                     *)
Backup == [version : 0..MaxVersion, key : Keys \cup {NoKey}]

(* What a key or a secret was when a package with it was stored: out of    *)
(* date, the current one that a transaction past its snapshot was about to *)
(* replace, or the current one.                                            *)
Standing == {"old", "leaving", "current"}

(* A row of the member key packages, and, for the properties, how its key  *)
(* and its secret stood when it was stored.                                *)
Package == [status : {"none", "usable", "stale"}, version : 0..MaxVersion,
            key : Keys \cup {NoKey}, secret : Secrets,
            keyWas : Standing, secretWas : Standing]

NoPackage == [status |-> "none", version |-> 0, key |-> NoKey, secret |-> 0,
              keyWas |-> "old", secretWas |-> "old"]

(* Requests in progress: a registration with the row it read, the key it   *)
(* asks for and, while it is "marking", the packages of its snapshot; a    *)
(* rotation with those of its snapshot; a package that passed the checks;  *)
(* and a recovery.get with the backup it read and, at the end, its answer  *)
(* and what that holds.                                                    *)
Registration == [by : Devices, user : Users, read : Backup, ask : Keys,
                 step : {"read", "marking"}, seats : SUBSET Seats]
Rotation == [by : Rotators, channel : Channels, seats : SUBSET Seats]
Sealed   == [by : Helpers, seat : Seats, version : 0..MaxVersion, key : Keys, secret : Secrets]
Recovery == [by : Readers, user : Users, read : Backup, package : Backup,
             answer : {"none", "recoverable"}]

NoBackup == [version |-> 0, key |-> NoKey]

VARIABLES
  backup,    (* backup[u]: the user's row                                  *)
  issued,    (* every [user, version, key] stored: what clients may know   *)
  lost,      (* users for whom a registration wrote over another that had  *)
             (* committed after it read the row                            *)
  reverted,  (* those of them for whom it put an earlier key back          *)
  active,    (* the seats whose member row is active                       *)
  package,   (* package[s]                                                 *)
  secret,    (* secret[c]: number of the channel's current wrap secret     *)
  regs, puts, gets, rots   (* requests in progress                         *)

requests == <<regs, puts, gets, rots>>
history  == <<issued, lost, reverted>>
vars     == <<backup, history, active, package, secret, requests>>

Init ==
  /\ backup = [u \in Users |-> NoBackup]
  /\ issued = {} /\ lost = {} /\ reverted = {}
  /\ active = Seats
  /\ package = [s \in Seats |-> NoPackage]
  /\ secret = [c \in Channels |-> 0]
  /\ regs = {} /\ puts = {} /\ gets = {} /\ rots = {}

-----------------------------------------------------------------------------
(* The packages, those of some seats marked stale that are usable; how     *)
(* they stood when they were stored does not matter any more.              *)
Stale(seats) ==
  [s \in Seats |-> IF s \in seats /\ package[s].status = "usable"
                   THEN [package[s] EXCEPT !.status = "stale",
                                           !.keyWas = "old", !.secretWas = "old"]
                   ELSE package[s]]

(* Packages of removed members are passed over (a variant of SeatsIn).     *)
SeatsIn_Active(c) == {s \in active : s[1] = c}

(* The rows an UPDATE of a user's, or of a channel's, packages is about.   *)
SeatsOf(u)     == {s \in Seats : s[2] = u}
SeatsIn(c)     == {s \in Seats : s[1] = c}
Usables(seats) == {s \in seats : package[s].status = "usable"}

-----------------------------------------------------------------------------
(* user-key.register reads the user's row, inside its transaction but      *)
(* without a lock.                                                         *)
ReadBackup(d, u, k) ==
  /\ \A x \in regs : x.by # d
  /\ regs' = regs \cup {[by |-> d, user |-> u, read |-> backup[u], ask |-> k,
                         step |-> "read", seats |-> {}]}
  /\ UNCHANGED <<backup, history, active, package, secret, puts, gets, rots>>

(* The version stored by an update: a new public key gets the next one, a  *)
(* new backup of the same key keeps it.                                    *)
VersionFor_Kept(x) == x.read.version
VersionFor(x) == IF x.read.key # x.ask THEN x.read.version + 1 ELSE x.read.version

(* What the registration stores, and clients see from its COMMIT on.       *)
StoreBackup(x, v) ==
  /\ v <= MaxVersion
  /\ backup' = [backup EXCEPT ![x.user] = [version |-> v, key |-> x.ask]]
  /\ issued' = issued \cup {[user |-> x.user, version |-> v, key |-> x.ask]}
  /\ lost' = IF backup[x.user] # x.read THEN lost \cup {x.user} ELSE lost
  /\ reverted' = IF backup[x.user] # x.read /\ x.read.key = x.ask
                 THEN reverted \cup {x.user} ELSE reverted
  /\ regs' = regs \ {x}
  /\ UNCHANGED <<active, secret, puts, gets, rots>>

(* First registration: the client proposes the version; if a row has       *)
(* appeared meanwhile the unique index on the user refuses the insert.     *)
InsertBackup(x) ==
  /\ x.read.version = 0 /\ backup[x.user].version = 0
  /\ \E v \in 1..MaxVersion : StoreBackup(x, v)
  /\ UNCHANGED package

(* Later ones write the row by its id, whatever it has become, and hold    *)
(* its lock from there to the COMMIT.                                      *)
Unlocked(u) == \A x \in regs : x.user = u => x.step # "marking"

(* The key read is the one asked for: only the backup is written.          *)
RewriteBackup(x) ==
  /\ x.step = "read" /\ x.read.version # 0 /\ x.read.key = x.ask /\ Unlocked(x.user)
  /\ StoreBackup(x, VersionFor(x))
  /\ UNCHANGED package

(* It is another key: the row is written, and the UPDATE that marks the    *)
(* user's packages takes its snapshot ...                                  *)
UpdateBackup(x) ==
  /\ x.step = "read" /\ x.read.version # 0 /\ x.read.key # x.ask /\ Unlocked(x.user)
  /\ regs' = (regs \ {x}) \cup {[x EXCEPT !.step = "marking", !.seats = Usables(SeatsOf(x.user))]}
  /\ UNCHANGED <<backup, history, active, package, secret, puts, gets, rots>>

(* ... and both commit.                                                    *)
CommitRegistration(x) ==
  /\ x.step = "marking"
  /\ StoreBackup(x, VersionFor(x))
  /\ package' = Stale(x.seats)

(* The insert collides, the connection breaks, or Postgres ends a deadlock *)
(* of two transactions that mark: the transaction leaves nothing.          *)
FailRegistration(x) ==
  /\ regs' = regs \ {x}
  /\ UNCHANGED <<backup, history, active, package, secret, puts, gets, rots>>

-----------------------------------------------------------------------------
(* A package for any version (a variant of Accepted).                      *)
Accepted_AnyVersion(s, x) ==
  s \in active /\ backup[s[2]].version # 0 /\ x.user = s[2]

(* key-package.put accepts a package for an active member whose stored key *)
(* has the version the client names.                                       *)
Accepted(s, x) ==
  s \in active /\ x.user = s[2] /\ backup[s[2]].version = x.version

(* A client knows a key of the member and a secret of the channel, maybe   *)
(* old ones, and sealed the one to the other.  The check of the row and    *)
(* the version ...                                                         *)
CheckPut(h, s, x, g) ==
  /\ \A y \in puts : y.by # h
  /\ g <= secret[s[1]] /\ Accepted(s, x)
  /\ puts' = puts \cup {[by |-> h, seat |-> s, version |-> backup[s[2]].version,
                         key |-> x.key, secret |-> g]}
  /\ UNCHANGED <<backup, history, active, package, secret, regs, gets, rots>>

KeyStanding(p) ==
  IF backup[p.seat[2]] # [version |-> p.version, key |-> p.key] THEN "old"
  ELSE IF Unlocked(p.seat[2]) THEN "current" ELSE "leaving"

SecretStanding(p) ==
  IF secret[p.seat[1]] # p.secret THEN "old"
  ELSE IF \E x \in rots : x.channel = p.seat[1] THEN "leaving" ELSE "current"

(* The row as it is stored: usable again whatever it was.                  *)
Usable(p) ==
  [status |-> "usable", version |-> p.version, key |-> p.key, secret |-> p.secret,
   keyWas |-> KeyStanding(p), secretWas |-> SecretStanding(p)]

(* A new row refers to the backup by a foreign key, and waits for a        *)
(* registration that is changing the backup's version, which is part of a  *)
(* unique index; the update of a row that is there does not.               *)
MayRefer(s) ==
  package[s].status = "none" =>
    \A x \in regs : x.user = s[2] /\ x.step = "marking" => VersionFor(x) = backup[s[2]].version

(* ... and the upsert, a statement of its own.                             *)
StorePackage(p) ==
  /\ MayRefer(p.seat)
  /\ package' = [package EXCEPT ![p.seat] = Usable(p)]
  /\ puts' = puts \ {p}
  /\ UNCHANGED <<backup, history, active, secret, regs, gets, rots>>

FailPut(p) ==
  /\ puts' = puts \ {p}
  /\ UNCHANGED <<backup, history, active, package, secret, regs, gets, rots>>

-----------------------------------------------------------------------------
(* recovery.get reads the caller's backup; the reader is done with the     *)
(* answer it had ...                                                       *)
ReadKey(r, u) ==
  /\ \A x \in gets : x.by = r => x.answer # "none"
  /\ gets' = {x \in gets : x.by # r}
               \cup {[by |-> r, user |-> u, read |-> backup[u],
                      package |-> NoBackup, answer |-> "none"]}
  /\ UNCHANGED <<backup, history, active, package, secret, regs, puts, rots>>

(* The state it reports: "locked" stands for locked-needs-invite, "stale"  *)
(* for stale-needs-current-device.                                         *)
RecoveryState(x, s) ==
  IF s \notin active \/ x.read.version = 0 \/ package[s].status = "none"
  THEN "locked"
  ELSE IF package[s].status = "stale" THEN "stale" ELSE "recoverable"

(* ... then, in later statements, the member row and its package.  The     *)
(* channel the request named matters only from here on, and only the       *)
(* answer "recoverable" is followed further.                               *)
AnswerRecovery(x, s) ==
  /\ x.answer = "none" /\ s \in SeatsOf(x.user)
  /\ LET p == package[s]
         answered == [x EXCEPT !.answer = "recoverable",
                               !.package = [version |-> p.version, key |-> p.key]]
     IN gets' = (gets \ {x})
                  \cup (IF RecoveryState(x, s) = "recoverable" THEN {answered} ELSE {})
  /\ UNCHANGED <<backup, history, active, package, secret, regs, puts, rots>>

-----------------------------------------------------------------------------
(* channel.rotate marks the channel's packages before it inserts the new   *)
(* access key and the epochs: the UPDATE takes its snapshot ...  Rotations *)
(* of one channel overlap when they found no key to revoke in common       *)
(* (ChannelKeys).                                                          *)
StartRotation(a, c) ==
  /\ secret[c] < MaxSecret
  /\ \A x \in rots : x.by # a
  /\ rots' = rots \cup {[by |-> a, channel |-> c, seats |-> Usables(SeatsIn(c))]}
  /\ UNCHANGED <<backup, history, active, package, secret, regs, puts, gets>>

(* ... and with the COMMIT the channel's secret is another.                *)
CommitRotation(x) ==
  /\ secret[x.channel] < MaxSecret
  /\ secret' = [secret EXCEPT ![x.channel] = @ + 1]
  /\ package' = Stale(x.seats)
  /\ rots' = rots \ {x}
  /\ UNCHANGED <<backup, history, active, regs, puts, gets>>

AbortRotation(x) ==
  /\ rots' = rots \ {x}
  /\ UNCHANGED <<backup, history, active, package, secret, regs, puts, gets>>

(* A member is removed, or joins again under its row (Membership).         *)
SetMember(s) ==
  /\ active' = IF s \in active THEN active \ {s} ELSE active \cup {s}
  /\ UNCHANGED <<backup, history, package, secret, requests>>

Register ==
  \/ \E d \in Devices, u \in Users, k \in Keys : ReadBackup(d, u, k)
  \/ \E x \in regs : \/ InsertBackup(x) \/ RewriteBackup(x)
                      \/ UpdateBackup(x) \/ CommitRegistration(x)
                      \/ FailRegistration(x)

PutPackage ==
  \/ \E h \in Helpers, s \in Seats, x \in issued, g \in Secrets : CheckPut(h, s, x, g)
  \/ \E p \in puts : StorePackage(p) \/ FailPut(p)

GetRecovery ==
  \/ \E r \in Readers, u \in Users : ReadKey(r, u)
  \/ \E x \in gets, s \in Seats : AnswerRecovery(x, s)

Rotate ==
  \/ \E a \in Rotators, c \in Channels : StartRotation(a, c)
  \/ \E x \in rots : CommitRotation(x) \/ AbortRotation(x)

Next ==
  \/ Register \/ PutPackage \/ GetRecovery \/ Rotate
  \/ \E s \in Seats : SetMember(s)

Spec == Init /\ [][Next]_vars

-----------------------------------------------------------------------------
(* The variables have their types.                                         *)
TypeOK ==
  /\ backup \in [Users -> Backup]
  /\ issued \subseteq [user : Users, version : 1..MaxVersion, key : Keys]
  /\ lost \subseteq Users /\ reverted \subseteq lost
  /\ active \subseteq Seats
  /\ package \in [Seats -> Package]
  /\ secret \in [Channels -> Secrets]
  /\ regs \subseteq Registration /\ puts \subseteq Sealed /\ gets \subseteq Recovery
  /\ rots \subseteq Rotation

(* The server compares versions where keys are meant.  That is sound as    *)
(* long as a version never stands for two keys of a user, over the whole   *)
(* life of its backup: so it is, unless two registrations of the user      *)
(* overlapped and one wrote over the other.                                *)
VersionsNameKeys ==
  \A x, y \in issued :
    x.user = y.user /\ x.user \notin lost /\ x.version = y.version => x.key = y.key

(* The answer "recoverable", whose backup and package are read at          *)
(* different moments, may be trusted by a client that compares the two     *)
(* versions in it: the key in the backup then opens the package.           *)
RecoverableOpens ==
  \A x \in gets :
    /\ x.answer = "recoverable" /\ x.user \notin lost
    /\ x.package.version = x.read.version
    => x.package.key = x.read.key

(* A package stays usable only as long as it fits, for every one that was  *)
(* stored while its key and its secret were the current ones and no        *)
(* transaction past its snapshot was about to replace them.  So it is      *)
(* marked by whichever rotation or registration does replace them, however *)
(* these overlap with each other and with puts that take the row's place,  *)
(* and also when two registrations write over one another with different   *)
(* keys.  The code marks nothing for those who seal to what is old         *)
(* already, for those who store between the snapshot and the COMMIT of the *)
(* transaction that replaces it, and when a registration that read the row *)
(* earlier puts its key back.                                              *)
UsableFits ==
  \A s \in Seats :
    package[s].status = "usable" =>
      /\ package[s].secretWas = "current" => package[s].secret = secret[s[1]]
      /\ package[s].keyWas = "current" /\ s[2] \notin reverted =>
           backup[s[2]] = [version |-> package[s].version, key |-> package[s].key]
=============================================================================

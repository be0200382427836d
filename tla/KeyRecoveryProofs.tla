------------------------- MODULE KeyRecoveryProofs -------------------------
(***************************************************************************)
(* Theorems about KeyRecovery, for any users, channels, keys, clients and  *)
(* bounds.  The argument: as long as no registration of a user wrote over  *)
(* another, its backup is the newest version ever stored; whatever a       *)
(* package, a put or an answer holds was stored once under the version it  *)
(* names; so equal versions mean equal keys.  And the snapshot of a        *)
(* transaction that replaces a key or a secret has every usable package    *)
(* stored with it in time, so that its COMMIT marks them.                  *)
(***************************************************************************)
EXTENDS KeyRecovery, TLAPS

Version(u, v, k) == [user |-> u, version |-> v, key |-> k]

(* The backup of a user whose registrations never overlapped is the newest *)
(* version stored, and the only one of its number.                         *)
BackupIsNewest ==
  \A x \in issued : x.user \notin lost =>
    /\ x.version <= backup[x.user].version
    /\ x.version = backup[x.user].version => x.key = backup[x.user].key

(* What is named together was stored together: the key and version of a    *)
(* backup, of a package, of a put that passed its checks, and of both      *)
(* halves of an answer "recoverable".                                      *)
OnlyStoredIsNamed ==
  /\ \A u \in Users : backup[u].version # 0 =>
       Version(u, backup[u].version, backup[u].key) \in issued
  /\ \A s \in Seats : package[s].status # "none" =>
       Version(s[2], package[s].version, package[s].key) \in issued
  /\ \A p \in puts : Version(p.seat[2], p.version, p.key) \in issued
  /\ \A x \in gets :
       /\ x.read.version # 0 => Version(x.user, x.read.version, x.read.key) \in issued
       /\ x.answer = "recoverable" =>
            /\ x.read.version # 0
            /\ Version(x.user, x.package.version, x.package.key) \in issued

(* A registration or a rotation past its snapshot has every usable package *)
(* in it that was stored with the current key, or the current secret: one  *)
(* stored since then was not "current" but "leaving".                      *)
SnapshotsHaveWhatFits ==
  /\ \A x \in regs, s \in Seats :
       /\ x.step = "marking" /\ s[2] = x.user
       /\ package[s].status = "usable" /\ package[s].keyWas = "current"
       => s \in x.seats
  /\ \A x \in rots, s \in Seats :
       /\ s[1] = x.channel
       /\ package[s].status = "usable" /\ package[s].secretWas = "current"
       => s \in x.seats

(* A registration that marks has another key to store than it read.        *)
MarkingReplaces ==
  \A x \in regs : x.step = "marking" => x.read.version # 0 /\ x.read.key # x.ask

(* The inductive invariant.                                                *)
IInv ==
  /\ TypeOK /\ BackupIsNewest /\ OnlyStoredIsNamed /\ VersionsNameKeys
  /\ MarkingReplaces /\ SnapshotsHaveWhatFits /\ UsableFits

-----------------------------------------------------------------------------
(* Facts about rows.                                                       *)

LEMMA Bounds ==
  /\ MaxVersion \in Nat /\ MaxVersion >= 1 /\ MaxSecret \in Nat
  /\ 0 \in 0..MaxVersion /\ 0 \in Secrets /\ NoBackup \in Backup /\ NoPackage \in Package
  BY BoundsAssumption DEF Secrets, NoBackup, Backup, NoPackage, Package, Standing

LEMMA SeatParts ==
  ASSUME NEW s \in Seats
  PROVE  s[1] \in Channels /\ s[2] \in Users
  BY DEF Seats

(* Marking packages stale changes neither what they name nor the rows that *)
(* are not usable.                                                         *)
LEMMA StaleFacts ==
  ASSUME TypeOK, NEW S, package' = Stale(S)
  PROVE  /\ package' \in [Seats -> Package]
         /\ \A s \in Seats :
              \/ package'[s] = package[s] /\ (s \in S => package[s].status # "usable")
              \/ /\ s \in S /\ package[s].status = "usable" /\ package'[s].status = "stale"
                 /\ package'[s].version = package[s].version /\ package'[s].key = package[s].key
  <1>1. \A s \in Seats : package[s] \in Package BY DEF TypeOK
  <1>2. \A s \in Seats :
          [package[s] EXCEPT !.status = "stale", !.keyWas = "old", !.secretWas = "old"] \in Package
    BY <1>1 DEF Package, Standing
  <1>3. package' \in [Seats -> Package] BY <1>1, <1>2 DEF Stale
  <1>4. ASSUME NEW s \in Seats, s \in S, package[s].status = "usable"
        PROVE  /\ package'[s].status = "stale"
               /\ package'[s].version = package[s].version /\ package'[s].key = package[s].key
    <2>1. package'[s] = [package[s] EXCEPT !.status = "stale",
                                           !.keyWas = "old", !.secretWas = "old"]
      BY <1>4 DEF Stale
    <2>. QED BY <1>1, <2>1 DEF Package
  <1>5. ASSUME NEW s \in Seats, ~(s \in S /\ package[s].status = "usable")
        PROVE  package'[s] = package[s]
    BY <1>5 DEF Stale
  <1>. QED BY <1>3, <1>4, <1>5

LEMMA InvInit == Init => IInv
  <1>. SUFFICES ASSUME Init PROVE IInv OBVIOUS
  <1>1. TypeOK BY Bounds DEF Init, TypeOK
  <1>2. \A u \in Users : backup[u].version = 0 BY DEF Init, NoBackup
  <1>3. \A s \in Seats : package[s].status = "none" BY DEF Init, NoPackage
  <1>4. BackupIsNewest /\ VersionsNameKeys BY DEF Init, BackupIsNewest, VersionsNameKeys
  <1>5. OnlyStoredIsNamed BY <1>2, <1>3 DEF Init, OnlyStoredIsNamed
  <1>6. UsableFits BY <1>3 DEF UsableFits
  <1>7. MarkingReplaces /\ SnapshotsHaveWhatFits
    BY DEF Init, MarkingReplaces, SnapshotsHaveWhatFits
  <1>. QED BY <1>1, <1>4, <1>5, <1>6, <1>7 DEF IInv

-----------------------------------------------------------------------------
(* A registration stores a version.                                        *)

(* The new row is the newest version if it was computed from the row it    *)
(* replaces; otherwise its user is lost from now on.  "grows" is what an   *)
(* insert and an update have in common: unless lost, the row replaced was  *)
(* older, or the same.                                                     *)
LEMMA StoreFacts ==
  ASSUME IInv, NEW x \in regs, NEW v \in 1..MaxVersion, StoreBackup(x, v),
         x.user \notin lost' =>
           \/ backup[x.user].version < v
           \/ backup[x.user] = [version |-> v, key |-> x.ask]
  PROVE  /\ x.user \in Users /\ x.ask \in Keys
         /\ backup' \in [Users -> Backup]
         /\ issued' \subseteq [user : Users, version : 1..MaxVersion, key : Keys]
         /\ lost \subseteq lost' /\ lost' \subseteq Users /\ regs' \subseteq Registration
         /\ reverted \subseteq reverted' /\ reverted' \subseteq lost'
         /\ backup'[x.user] = [version |-> v, key |-> x.ask]
         /\ \A u \in Users \ {x.user} : backup'[u] = backup[u]
         /\ issued' = issued \cup {Version(x.user, v, x.ask)}
         /\ BackupIsNewest' /\ VersionsNameKeys'
  <1>. DEFINE u == x.user
              new == [version |-> v, key |-> x.ask]
              entry == Version(x.user, v, x.ask)
  <1>1. u \in Users /\ x.ask \in Keys BY DEF IInv, TypeOK, Registration
  <1>2. v \in Nat /\ v >= 1 /\ v <= MaxVersion /\ new \in Backup
    BY <1>1, Bounds DEF Backup
  <1>3. /\ backup' = [backup EXCEPT ![u] = new] /\ issued' = issued \cup {entry}
        /\ lost' = (IF backup[u] # x.read THEN lost \cup {u} ELSE lost) /\ regs' = regs \ {x}
        /\ reverted' = (IF backup[u] # x.read /\ x.read.key = x.ask
                        THEN reverted \cup {u} ELSE reverted)
    BY DEF StoreBackup, Version
  <1>4. entry \in [user : Users, version : 1..MaxVersion, key : Keys]
        /\ entry.user = u /\ entry.version = v /\ entry.key = x.ask
    BY <1>1 DEF Version
  <1>5. /\ backup' \in [Users -> Backup] /\ backup'[u] = new
        /\ \A w \in Users \ {u} : backup'[w] = backup[w]
    BY <1>1, <1>2, <1>3 DEF IInv, TypeOK
  <1>6. /\ issued' \subseteq [user : Users, version : 1..MaxVersion, key : Keys]
        /\ lost \subseteq lost' /\ lost' \subseteq Users /\ regs' \subseteq Registration
        /\ reverted \subseteq reverted' /\ reverted' \subseteq lost'
    BY <1>1, <1>3, <1>4 DEF IInv, TypeOK
  <1>. HIDE DEF u, new, entry
  <1>7. new.version = v /\ new.key = x.ask BY DEF new
  <1>8. ASSUME NEW y \in issued', y.user \notin lost'
        PROVE  /\ y.version <= backup'[y.user].version
               /\ y.version = backup'[y.user].version => y.key = backup'[y.user].key
    <2>1. CASE y = entry BY <1>2, <1>4, <1>5, <1>7, <2>1
    <2>2. CASE y \in issued /\ y.user # u
      BY <1>5, <1>6, <1>8, <2>2 DEF IInv, TypeOK, BackupIsNewest
    <2>3. CASE y \in issued /\ y.user = u
      <3>1. u \notin lost' /\ u \notin lost /\ y.version \in Nat /\ backup[u].version \in Nat
        BY <1>1, <1>6, <1>8, <2>3 DEF IInv, TypeOK, Backup
      <3>2. backup[u].version < v \/ backup[u] = new BY <3>1 DEF u, new
      <3>. QED BY <1>2, <1>5, <1>7, <2>3, <3>1, <3>2 DEF IInv, BackupIsNewest
    <2>. QED BY <1>3, <2>1, <2>2, <2>3
  <1>9. BackupIsNewest' BY <1>8 DEF BackupIsNewest
  <1>10. ASSUME NEW y \in issued, y.user = u, y.user \notin lost', y.version = v
         PROVE  y.key = x.ask
    <2>1. y \in issued' BY <1>3
    <2>. QED BY <1>5, <1>7, <1>8, <1>10, <2>1
  <1>11. VersionsNameKeys'
    <2>. SUFFICES ASSUME NEW y \in issued', NEW z \in issued', y.user = z.user,
                         y.user \notin lost', y.version = z.version
                  PROVE  y.key = z.key
      BY DEF VersionsNameKeys
    <2>1. CASE y \in issued /\ z \in issued
      BY <1>6, <2>1 DEF IInv, VersionsNameKeys
    <2>2. CASE y = entry \/ z = entry BY <1>3, <1>4, <1>10, <2>2
    <2>. QED BY <1>3, <2>1, <2>2
  <1>. QED BY <1>1, <1>3, <1>5, <1>6, <1>9, <1>11 DEF u, new, entry

(* With the packages of the user left alone or marked stale, the rest of   *)
(* the invariant follows, if the row is new only where no usable package   *)
(* fits it.                                                                *)
LEMMA StoreStep ==
  ASSUME IInv, NEW x \in regs, NEW v \in 1..MaxVersion, StoreBackup(x, v),
         x.user \notin lost' =>
           \/ backup[x.user].version < v
           \/ backup[x.user] = [version |-> v, key |-> x.ask],
         package' \in [Seats -> Package],
         \A s \in Seats :
           \/ package'[s] = package[s]
           \/ /\ package[s].status = "usable" /\ package'[s].status = "stale"
              /\ package'[s].version = package[s].version /\ package'[s].key = package[s].key,
         \A s \in Seats :
           /\ s[2] = x.user /\ s[2] \notin reverted'
           /\ package'[s].status = "usable" /\ package'[s].keyWas = "current"
           => backup[s[2]].version = 0 \/ backup[s[2]] = [version |-> v, key |-> x.ask]
  PROVE  IInv'
  <1>1. UNCHANGED <<active, secret, puts, gets, rots>> /\ regs' = regs \ {x} BY DEF StoreBackup
  <1>2. TypeOK' BY <1>1, StoreFacts DEF IInv, TypeOK
  <1>3. issued \subseteq issued' /\ Version(x.user, v, x.ask) \in issued' BY StoreFacts
  <1>4. OnlyStoredIsNamed'
    <2>1. ASSUME NEW u \in Users, backup'[u].version # 0
          PROVE  Version(u, backup'[u].version, backup'[u].key) \in issued'
      BY <1>3, <2>1, StoreFacts DEF IInv, OnlyStoredIsNamed
    <2>2. ASSUME NEW s \in Seats, package'[s].status # "none"
          PROVE  Version(s[2], package'[s].version, package'[s].key) \in issued'
      BY <1>3, <2>2 DEF IInv, OnlyStoredIsNamed
    <2>. QED BY <1>1, <1>3, <2>1, <2>2 DEF IInv, OnlyStoredIsNamed, Version
  <1>5. UsableFits'
    <2>. SUFFICES ASSUME NEW s \in Seats, package'[s].status = "usable"
                  PROVE  /\ package'[s].secretWas = "current" => package'[s].secret = secret[s[1]]
                         /\ package'[s].keyWas = "current" /\ s[2] \notin reverted' =>
                              backup'[s[2]] = [version |-> package'[s].version, key |-> package'[s].key]
      BY <1>1 DEF UsableFits
    <2>1. package'[s] = package[s] /\ s[2] \in Users BY SeatParts
    <2>2. package[s].secretWas = "current" => package[s].secret = secret[s[1]]
      BY <2>1 DEF IInv, UsableFits
    <2>3. ASSUME package[s].keyWas = "current", s[2] \notin reverted'
          PROVE  backup'[s[2]] = [version |-> package[s].version, key |-> package[s].key]
      <3>1. s[2] \notin reverted BY <2>3, StoreFacts
      <3>2. backup[s[2]] = [version |-> package[s].version, key |-> package[s].key]
        BY <2>1, <2>3, <3>1 DEF IInv, UsableFits
      <3>3. CASE s[2] # x.user BY <2>1, <3>2, <3>3, StoreFacts
      <3>4. CASE s[2] = x.user
        <4>1. Version(s[2], package[s].version, package[s].key) \in issued
          BY <2>1 DEF IInv, OnlyStoredIsNamed
        <4>2. package[s].version \in 1..MaxVersion
          BY <4>1 DEF IInv, TypeOK, Version
        <4>3. backup[s[2]].version # 0 BY <3>2, <4>2
        <4>4. backup[s[2]] = [version |-> v, key |-> x.ask] BY <2>1, <2>3, <3>4, <4>3
        <4>. QED BY <3>2, <3>4, <4>4, StoreFacts
      <3>. QED BY <3>3, <3>4
    <2>. QED BY <2>1, <2>2, <2>3
  <1>6. SnapshotsHaveWhatFits' /\ MarkingReplaces'
    BY <1>1 DEF IInv, SnapshotsHaveWhatFits, MarkingReplaces
  <1>. QED BY <1>2, <1>4, <1>5, <1>6, StoreFacts DEF IInv

LEMMA InsertStep ==
  ASSUME IInv, NEW x \in regs, InsertBackup(x)
  PROVE  IInv'
  <1>1. PICK v \in 1..MaxVersion : StoreBackup(x, v) BY DEF InsertBackup
  <1>2. backup[x.user].version = 0 /\ package' = package BY DEF InsertBackup
  <1>3. package' \in [Seats -> Package] BY <1>2 DEF IInv, TypeOK
  <1>4. backup[x.user].version < v BY <1>2
  <1>. QED BY <1>1, <1>2, <1>3, <1>4, StoreStep

LEMMA VersionBounds ==
  ASSUME IInv, NEW x \in regs, x.read.version # 0, StoreBackup(x, VersionFor(x))
  PROVE  /\ VersionFor(x) \in 1..MaxVersion
         /\ x.read \in Backup /\ x.read = [version |-> x.read.version, key |-> x.read.key]
         /\ x.user \notin lost' => backup[x.user] = x.read
  <1>1. x.read \in Backup BY DEF IInv, TypeOK, Registration
  <1>2. VersionFor(x) \in 1..MaxVersion BY <1>1, Bounds DEF VersionFor, StoreBackup, Backup
  <1>3. x.user \notin lost' => backup[x.user] = x.read BY DEF StoreBackup
  <1>. QED BY <1>1, <1>2, <1>3 DEF Backup

(* The same key is stored again; if that is not the key there was, it is   *)
(* one put back.                                                           *)
LEMMA RewriteStep ==
  ASSUME IInv, NEW x \in regs, RewriteBackup(x)
  PROVE  IInv'
  <1>. DEFINE v == VersionFor(x)
  <1>1. x.read.version # 0 /\ x.read.key = x.ask /\ StoreBackup(x, v) /\ package' = package
    BY DEF RewriteBackup
  <1>2. v = x.read.version BY <1>1 DEF VersionFor
  <1>3. x.read = [version |-> v, key |-> x.ask] BY <1>1, <1>2, VersionBounds
  <1>4. x.user \notin reverted' => backup[x.user] = x.read BY <1>1 DEF StoreBackup
  <1>5. package' \in [Seats -> Package] BY <1>1 DEF IInv, TypeOK
  <1>. QED BY <1>1, <1>3, <1>4, <1>5, StoreStep, VersionBounds

(* Another key is stored: no package is left usable that was current.      *)
LEMMA CommitRegistrationStep ==
  ASSUME IInv, NEW x \in regs, CommitRegistration(x)
  PROVE  IInv'
  <1>. DEFINE v == VersionFor(x)
  <1>1. x.step = "marking" /\ StoreBackup(x, v) /\ package' = Stale(x.seats)
    BY DEF CommitRegistration
  <1>. x.read.version # 0 /\ x.read.key # x.ask BY <1>1 DEF IInv, MarkingReplaces
  <1>2. x.read.version < v
    <2>1. x.read \in Backup BY <1>1, VersionBounds
    <2>2. x.read.version \in Nat BY <2>1 DEF Backup
    <2>. QED BY <2>2 DEF VersionFor
  <1>3. package' \in [Seats -> Package] BY <1>1, StaleFacts DEF IInv
  <1>4. \A s \in Seats :
          \/ package'[s] = package[s] /\ (s \in x.seats => package[s].status # "usable")
          \/ /\ s \in x.seats /\ package[s].status = "usable" /\ package'[s].status = "stale"
             /\ package'[s].version = package[s].version /\ package'[s].key = package[s].key
    BY <1>1, StaleFacts DEF IInv
  <1>5. ASSUME NEW s \in Seats, s[2] = x.user,
               package'[s].status = "usable", package'[s].keyWas = "current"
        PROVE  FALSE
    <2>1. package'[s] = package[s] /\ s \notin x.seats BY <1>4, <1>5
    <2>. QED BY <1>1, <1>5, <2>1 DEF IInv, SnapshotsHaveWhatFits
  <1>. QED BY <1>1, <1>2, <1>3, <1>4, <1>5, StoreStep, VersionBounds

-----------------------------------------------------------------------------
(* Steps that store no version.                                            *)

(* What is stored of versions is as before; what a package, a put or an    *)
(* answer names is either as before or named by something stored.          *)
LEMMA QuietStep ==
  ASSUME IInv, TypeOK', UsableFits', SnapshotsHaveWhatFits', MarkingReplaces',
         UNCHANGED <<backup, history>>,
         \A s \in Seats : package'[s].status # "none" =>
           Version(s[2], package'[s].version, package'[s].key) \in issued,
         \A p \in puts' : Version(p.seat[2], p.version, p.key) \in issued,
         \A x \in gets' :
           /\ x.read.version # 0 => Version(x.user, x.read.version, x.read.key) \in issued
           /\ x.answer = "recoverable" =>
                /\ x.read.version # 0
                /\ Version(x.user, x.package.version, x.package.key) \in issued
  PROVE  IInv'
  <1>1. BackupIsNewest' /\ VersionsNameKeys' BY DEF IInv, BackupIsNewest, VersionsNameKeys, history
  <1>2. OnlyStoredIsNamed' BY DEF IInv, OnlyStoredIsNamed, Version, history
  <1>. QED BY <1>1, <1>2 DEF IInv

(* The packages a step does not touch stay as they are, and so do the      *)
(* snapshots of transactions that were there before.                       *)
LEMMA SamePackages ==
  ASSUME IInv, UNCHANGED <<backup, history, package, secret>>
  PROVE  /\ UsableFits'
         /\ regs' \subseteq regs => MarkingReplaces'
         /\ regs' \subseteq regs /\ rots' \subseteq rots => SnapshotsHaveWhatFits'
         /\ \A s \in Seats : package'[s].status # "none" =>
              Version(s[2], package'[s].version, package'[s].key) \in issued
  <1>1. UsableFits' BY DEF IInv, UsableFits, history
  <1>2. regs' \subseteq regs => MarkingReplaces' BY DEF IInv, MarkingReplaces
  <1>3. regs' \subseteq regs /\ rots' \subseteq rots => SnapshotsHaveWhatFits'
    BY DEF IInv, SnapshotsHaveWhatFits
  <1>. QED BY <1>1, <1>2, <1>3 DEF IInv, OnlyStoredIsNamed

LEMMA ReadBackupStep ==
  ASSUME IInv, NEW d \in Devices, NEW u \in Users, NEW k \in Keys, ReadBackup(d, u, k)
  PROVE  IInv'
  <1>. DEFINE new == [by |-> d, user |-> u, read |-> backup[u], ask |-> k,
                      step |-> "read", seats |-> {}]
  <1>1. new \in Registration BY DEF IInv, TypeOK, Registration
  <1>2. regs' = regs \cup {new}
        /\ UNCHANGED <<backup, history, active, package, secret, puts, gets, rots>>
    BY DEF ReadBackup
  <1>3. TypeOK' BY <1>1, <1>2 DEF IInv, TypeOK, history
  <1>4. SnapshotsHaveWhatFits' /\ MarkingReplaces'
    BY <1>2 DEF IInv, SnapshotsHaveWhatFits, MarkingReplaces
  <1>. QED BY <1>2, <1>3, <1>4, QuietStep, SamePackages DEF IInv, OnlyStoredIsNamed

(* The snapshot of a registration has all usable packages of its user.     *)
LEMMA UpdateStep ==
  ASSUME IInv, NEW x \in regs, UpdateBackup(x)
  PROVE  IInv'
  <1>. DEFINE new == [x EXCEPT !.step = "marking", !.seats = Usables(SeatsOf(x.user))]
  <1>1. regs' = (regs \ {x}) \cup {new}
        /\ UNCHANGED <<backup, history, active, package, secret, puts, gets, rots>>
    BY DEF UpdateBackup
  <1>2. x \in Registration BY DEF IInv, TypeOK
  <1>3. new \in Registration /\ new.user = x.user /\ new.seats = Usables(SeatsOf(x.user))
        /\ new.read.version # 0 /\ new.read.key # new.ask
    BY <1>2 DEF UpdateBackup, Registration, Usables, SeatsOf
  <1>. HIDE DEF new
  <1>4. TypeOK' BY <1>1, <1>3 DEF IInv, TypeOK, history
  <1>5. \A s \in Seats : s[2] = new.user /\ package[s].status = "usable" => s \in new.seats
    BY <1>3 DEF Usables, SeatsOf
  <1>6. SnapshotsHaveWhatFits' /\ MarkingReplaces'
    BY <1>1, <1>3, <1>5 DEF IInv, SnapshotsHaveWhatFits, MarkingReplaces
  <1>. QED BY <1>1, <1>4, <1>6, QuietStep, SamePackages DEF IInv, OnlyStoredIsNamed

(* A request that fails leaves everything but itself.                      *)
LEMMA FailStep ==
  ASSUME IInv,
         \/ \E x \in regs : FailRegistration(x)
         \/ \E p \in puts : FailPut(p)
         \/ \E x \in rots : AbortRotation(x)
         \/ \E s \in Seats : SetMember(s)
         \/ UNCHANGED vars
  PROVE  IInv'
  <1>1. /\ UNCHANGED <<backup, history, package, secret, gets>> /\ active' \subseteq Seats
        /\ regs' \subseteq regs /\ puts' \subseteq puts /\ rots' \subseteq rots
    BY DEF FailRegistration, FailPut, AbortRotation, SetMember, requests, vars, IInv, TypeOK
  <1>2. TypeOK' BY <1>1 DEF IInv, TypeOK, history
  <1>. QED BY <1>1, <1>2, QuietStep, SamePackages DEF IInv, OnlyStoredIsNamed

(* A put that passes the checks names a version that was stored.           *)
LEMMA CheckPutStep ==
  ASSUME IInv, NEW h \in Helpers, NEW s \in Seats, NEW x \in issued, NEW g \in Secrets,
         CheckPut(h, s, x, g)
  PROVE  IInv'
  <1>. DEFINE new == [by |-> h, seat |-> s, version |-> backup[s[2]].version,
                      key |-> x.key, secret |-> g]
  <1>1. x.user = s[2] /\ backup[s[2]].version = x.version BY DEF CheckPut, Accepted
  <1>2. x = Version(s[2], backup[s[2]].version, x.key) /\ x.key \in Keys
        /\ backup[s[2]].version \in 0..MaxVersion
    BY <1>1, Bounds DEF IInv, TypeOK, Version
  <1>3. puts' = puts \cup {new} /\ UNCHANGED <<backup, history, active, package, secret, regs, gets, rots>>
    BY DEF CheckPut
  <1>4. new \in Sealed BY <1>2 DEF Sealed
  <1>5. TypeOK' BY <1>3, <1>4 DEF IInv, TypeOK, history
  <1>6. \A p \in puts' : Version(p.seat[2], p.version, p.key) \in issued
    BY <1>2, <1>3 DEF IInv, OnlyStoredIsNamed
  <1>7. \A y \in gets' :
           /\ y.read.version # 0 => Version(y.user, y.read.version, y.read.key) \in issued
           /\ y.answer = "recoverable" =>
                /\ y.read.version # 0
                /\ Version(y.user, y.package.version, y.package.key) \in issued
    BY <1>3 DEF IInv, OnlyStoredIsNamed
  <1>. QED BY <1>3, <1>5, <1>6, <1>7, QuietStep, SamePackages

(* A package that is stored fits what it is said to fit at that moment.    *)
LEMMA StorePackageStep ==
  ASSUME IInv, NEW p \in puts, StorePackage(p)
  PROVE  IInv'
  <1>. DEFINE t == p.seat
              new == Usable(p)
  <1>1. /\ t \in Seats /\ p.version \in 0..MaxVersion /\ p.key \in Keys /\ p.secret \in Secrets
    BY DEF IInv, TypeOK, Sealed
  <1>2. new \in Package /\ new.status = "usable" /\ new.version = p.version /\ new.key = p.key
        /\ new.secret = p.secret
        /\ new.keyWas = KeyStanding(p) /\ new.secretWas = SecretStanding(p)
    BY <1>1 DEF Usable, Package, KeyStanding, SecretStanding, Standing
  <1>3. /\ package' = [package EXCEPT ![t] = new] /\ puts' = puts \ {p}
        /\ UNCHANGED <<backup, history, active, secret, regs, gets, rots>>
    BY DEF StorePackage
  <1>. HIDE DEF t, new
  <1>4. /\ package' \in [Seats -> Package] /\ package'[t] = new
        /\ \A s \in Seats \ {t} : package'[s] = package[s]
    BY <1>1, <1>2, <1>3 DEF IInv, TypeOK, history
  <1>5. TypeOK' BY <1>3, <1>4 DEF IInv, TypeOK, history
  <1>6. UsableFits'
    <2>. SUFFICES ASSUME NEW s \in Seats, package'[s].status = "usable"
                  PROVE  /\ package'[s].secretWas = "current" => package'[s].secret = secret[s[1]]
                         /\ package'[s].keyWas = "current" /\ s[2] \notin reverted =>
                              backup[s[2]] = [version |-> package'[s].version, key |-> package'[s].key]
      BY <1>3 DEF UsableFits, history
    <2>1. CASE s = t BY <1>2, <1>4, <2>1 DEF KeyStanding, SecretStanding, t
    <2>2. CASE s # t BY <1>4, <2>2 DEF IInv, UsableFits
    <2>. QED BY <2>1, <2>2
  <1>9. SnapshotsHaveWhatFits'
    <2>1. ASSUME NEW x \in regs, x.step = "marking", t[2] = x.user
          PROVE  new.keyWas # "current"
      BY <1>2, <2>1 DEF KeyStanding, Unlocked, t
    <2>2. ASSUME NEW x \in rots, t[1] = x.channel
          PROVE  new.secretWas # "current"
      BY <1>2, <2>2 DEF SecretStanding, t
    <2>. QED BY <1>3, <1>4, <2>1, <2>2 DEF IInv, SnapshotsHaveWhatFits
  <1>10. MarkingReplaces' BY <1>3 DEF IInv, MarkingReplaces
  <1>7. Version(t[2], p.version, p.key) \in issued BY DEF IInv, OnlyStoredIsNamed, t
  <1>8. \A s \in Seats : package'[s].status # "none" =>
           Version(s[2], package'[s].version, package'[s].key) \in issued
    BY <1>2, <1>4, <1>7 DEF IInv, OnlyStoredIsNamed
  <1>. QED BY <1>3, <1>5, <1>6, <1>8, <1>9, <1>10, QuietStep DEF IInv, OnlyStoredIsNamed

LEMMA ReadKeyStep ==
  ASSUME IInv, NEW r \in Readers, NEW u \in Users, ReadKey(r, u)
  PROVE  IInv'
  <1>. DEFINE new == [by |-> r, user |-> u, read |-> backup[u],
                      package |-> NoBackup, answer |-> "none"]
  <1>1. gets' \subseteq gets \cup {new} /\ UNCHANGED <<backup, history, active, package, secret, regs, puts, rots>>
    BY DEF ReadKey
  <1>2. new \in Recovery BY Bounds DEF Recovery, IInv, TypeOK
  <1>3. TypeOK' BY <1>1, <1>2 DEF IInv, TypeOK, history
  <1>4. \A x \in gets' :
           /\ x.read.version # 0 => Version(x.user, x.read.version, x.read.key) \in issued
           /\ x.answer = "recoverable" =>
                /\ x.read.version # 0
                /\ Version(x.user, x.package.version, x.package.key) \in issued
    BY <1>1 DEF IInv, OnlyStoredIsNamed
  <1>5. \A p \in puts' : Version(p.seat[2], p.version, p.key) \in issued
    BY <1>1 DEF IInv, OnlyStoredIsNamed
  <1>. QED BY <1>1, <1>3, <1>4, <1>5, QuietStep, SamePackages

(* An answer "recoverable" holds a package of its user.                    *)
LEMMA AnswerStep ==
  ASSUME IInv, NEW x \in gets, NEW s \in Seats, AnswerRecovery(x, s)
  PROVE  IInv'
  <1>. DEFINE p == package[s]
              new == [x EXCEPT !.answer = "recoverable",
                               !.package = [version |-> p.version, key |-> p.key]]
  <1>1. x \in Recovery /\ p \in Package BY DEF IInv, TypeOK, history
  <1>2. /\ new \in Recovery /\ new.user = x.user /\ new.read = x.read
        /\ new.package.version = p.version /\ new.package.key = p.key
    BY <1>1 DEF Recovery, Package, Backup
  <1>3. /\ gets' = (gets \ {x}) \cup (IF RecoveryState(x, s) = "recoverable" THEN {new} ELSE {})
        /\ s \in SeatsOf(x.user)
        /\ UNCHANGED <<backup, history, active, package, secret, regs, puts, rots>>
    BY DEF AnswerRecovery
  <1>4. s[2] = x.user BY <1>3 DEF SeatsOf
  <1>. HIDE DEF new
  <1>5. TypeOK' BY <1>2, <1>3 DEF IInv, TypeOK, history
  <1>6. ASSUME RecoveryState(x, s) = "recoverable"
        PROVE  /\ new.read.version # 0 /\ Version(new.user, new.read.version, new.read.key) \in issued
               /\ Version(new.user, new.package.version, new.package.key) \in issued
    <2>1. x.read.version # 0 /\ p.status # "none" BY <1>6 DEF RecoveryState
    <2>. QED BY <1>2, <1>4, <2>1 DEF IInv, OnlyStoredIsNamed
  <1>7. \A y \in gets' :
           /\ y.read.version # 0 => Version(y.user, y.read.version, y.read.key) \in issued
           /\ y.answer = "recoverable" =>
                /\ y.read.version # 0
                /\ Version(y.user, y.package.version, y.package.key) \in issued
    BY <1>3, <1>6 DEF IInv, OnlyStoredIsNamed
  <1>8. \A y \in puts' : Version(y.seat[2], y.version, y.key) \in issued
    BY <1>3 DEF IInv, OnlyStoredIsNamed
  <1>. QED BY <1>3, <1>5, <1>7, <1>8, QuietStep, SamePackages

(* The snapshot of a rotation has all usable packages of its channel.      *)
LEMMA StartRotationStep ==
  ASSUME IInv, NEW a \in Rotators, NEW c \in Channels, StartRotation(a, c)
  PROVE  IInv'
  <1>. DEFINE new == [by |-> a, channel |-> c, seats |-> Usables(SeatsIn(c))]
  <1>1. rots' = rots \cup {new}
        /\ UNCHANGED <<backup, history, active, package, secret, regs, puts, gets>>
    BY DEF StartRotation
  <1>2. new \in Rotation BY DEF Rotation, Usables, SeatsIn
  <1>3. TypeOK' BY <1>1, <1>2 DEF IInv, TypeOK, history
  <1>4. \A s \in Seats : s[1] = new.channel /\ package[s].status = "usable" => s \in new.seats
    BY DEF Usables, SeatsIn
  <1>5. SnapshotsHaveWhatFits' BY <1>1, <1>4 DEF IInv, SnapshotsHaveWhatFits
  <1>. QED BY <1>1, <1>3, <1>5, QuietStep, SamePackages DEF IInv, OnlyStoredIsNamed

(* Its COMMIT leaves no package usable whose secret was current.           *)
LEMMA CommitRotationStep ==
  ASSUME IInv, NEW x \in rots, CommitRotation(x)
  PROVE  IInv'
  <1>. DEFINE c == x.channel
  <1>1. /\ secret[c] < MaxSecret /\ secret' = [secret EXCEPT ![c] = @ + 1]
        /\ package' = Stale(x.seats) /\ rots' = rots \ {x}
        /\ UNCHANGED <<backup, history, active, regs, puts, gets>>
    BY DEF CommitRotation
  <1>2. c \in Channels BY DEF IInv, TypeOK, Rotation
  <1>3. secret' \in [Channels -> Secrets]
        /\ \A d \in Channels \ {c} : secret'[d] = secret[d]
    BY <1>1, <1>2, Bounds DEF IInv, TypeOK, Secrets
  <1>4. package' \in [Seats -> Package] BY <1>1, StaleFacts DEF IInv
  <1>5. TypeOK' BY <1>1, <1>3, <1>4 DEF IInv, TypeOK, history
  <1>6. ASSUME NEW s \in Seats
        PROVE  /\ package'[s].version = package[s].version /\ package'[s].key = package[s].key
               /\ package'[s].status # "none" => package[s].status # "none"
               /\ package'[s].status = "usable" =>
                    package'[s] = package[s] /\ package[s].status = "usable" /\ s \notin x.seats
    BY <1>1, StaleFacts DEF IInv
  <1>7. \A s \in Seats : package'[s].status = "usable" /\ s[1] = c => package[s].secretWas # "current"
    BY <1>6 DEF IInv, SnapshotsHaveWhatFits
  <1>8. UsableFits'
    <2>1. \A s \in Seats : s[1] \in Channels BY SeatParts
    <2>. QED BY <1>1, <1>3, <1>6, <1>7, <2>1 DEF IInv, UsableFits, history
  <1>9. SnapshotsHaveWhatFits' /\ MarkingReplaces'
    BY <1>1, <1>6 DEF IInv, SnapshotsHaveWhatFits, MarkingReplaces
  <1>10. \A s \in Seats : package'[s].status # "none" =>
           Version(s[2], package'[s].version, package'[s].key) \in issued
    BY <1>6 DEF IInv, OnlyStoredIsNamed
  <1>. QED BY <1>1, <1>5, <1>8, <1>9, <1>10, QuietStep DEF IInv, OnlyStoredIsNamed

LEMMA InvStep == IInv /\ [Next]_vars => IInv'
  BY InsertStep, RewriteStep, UpdateStep, CommitRegistrationStep, ReadBackupStep, FailStep,
     CheckPutStep, StorePackageStep, ReadKeyStep, AnswerStep, StartRotationStep, CommitRotationStep
  DEF Next, Register, PutPackage, GetRecovery, Rotate

-----------------------------------------------------------------------------
(* The inductive invariant holds in every reachable state.                 *)
THEOREM Invariance == Spec => []IInv
  <1>. QED BY InvInit, InvStep, PTL DEF Spec

(* The variables of key recovery keep their types.                         *)
THEOREM TypeCorrect == Spec => []TypeOK
  <1>1. IInv => TypeOK BY DEF IInv
  <1>. QED BY <1>1, Invariance, PTL

(* A version names one key, over the life of a backup whose registrations  *)
(* did not write over one another.                                         *)
THEOREM VersionsAreKeys == Spec => []VersionsNameKeys
  <1>1. IInv => VersionsNameKeys BY DEF IInv
  <1>. QED BY <1>1, Invariance, PTL

(* An answer "recoverable" with two equal versions holds one key twice,    *)
(* although its halves were read at different moments.                     *)
THEOREM EqualVersionsOpen == Spec => []RecoverableOpens
  <1>1. ASSUME IInv PROVE RecoverableOpens
    <2>. SUFFICES ASSUME NEW x \in gets, x.answer = "recoverable", x.user \notin lost,
                         x.package.version = x.read.version
                  PROVE  x.package.key = x.read.key
      BY DEF RecoverableOpens
    <2>. DEFINE a == Version(x.user, x.read.version, x.read.key)
                b == Version(x.user, x.package.version, x.package.key)
    <2>1. a \in issued /\ b \in issued BY <1>1 DEF IInv, OnlyStoredIsNamed
    <2>2. a.user = b.user /\ a.user = x.user /\ a.version = b.version
          /\ a.key = x.read.key /\ b.key = x.package.key
      BY DEF Version
    <2>. HIDE DEF a, b
    <2>. QED BY <1>1, <2>1, <2>2 DEF IInv, VersionsNameKeys
  <1>. QED BY <1>1, Invariance, PTL

(* A package stored with current key and secret, and no transaction past   *)
(* its snapshot about to replace them, is usable only as long as it fits,  *)
(* however puts, registrations and rotations overlap.                      *)
THEOREM StalenessIsMarked == Spec => []UsableFits
  <1>1. IInv => UsableFits BY DEF IInv
  <1>. QED BY <1>1, Invariance, PTL
=============================================================================

------------------------- MODULE PgBootstrapProofs --------------------------
(***************************************************************************)
(* Theorems about PgBootstrap, for any hosts, journals, migrations and     *)
(* number of crashes.  The argument: whatever a host knows was recorded,   *)
(* and every entry before the one it is at is recorded, by it or by        *)
(* another host; so the tag it adds extends the prefix by one, and no      *)
(* statement of it can have committed under another tag.                   *)
(***************************************************************************)
EXTENDS PgBootstrap, TLAPS

(* A host past the reading of the tags has only recorded entries behind it.*)
BehindIsRecorded ==
  \A p \in Hosts :
    /\ known[p] \subseteq tags
    /\ \A i \in 1..Entries : i < entry[p] => i \in tags

(* A host in a transaction is at an entry of its journal.                  *)
AtAnEntry == \A p \in Hosts : pc[p] = "apply" => entry[p] \in 1..Journal[p]

(* The recorded entries are those up to some entry.  TagsArePrefix follows *)
(* from this; the other way round would take an induction.                 *)
TagsAreALevel == \E k \in 0..Entries : tags = 1..k

(* The inductive invariant.                                                *)
IInv ==
  /\ TypeOK /\ BehindIsRecorded /\ AtAnEntry /\ TagsAreALevel
  /\ TagsAreTheSchema /\ TagsArePrefix /\ ReadyMeansMigrated

Assumptions ==
  Entries \in Nat \ {0} /\ Journal \in [Hosts -> 1..Entries] /\ Size \in [1..Entries -> Nat \ {0}]

(* The assumptions on the constants.                                       *)
LEMMA AssumptionsHold == Assumptions
  BY EntriesAssumption, JournalAssumption, SizeAssumption DEF Assumptions

(* The inductive invariant holds at first.                                 *)
LEMMA InvInit == Init => IInv
  <1>. SUFFICES ASSUME Init PROVE IInv OBVIOUS
  <1>. USE AssumptionsHold DEF Assumptions
  <1>1. PICK k \in 0..Entries :
          /\ tags = 1..k
          /\ objects = UNION {ObjectsOf(i) : i \in 1..k}
          /\ tracking = (k > 0)
    BY DEF Init
  <1>2. objects \subseteq Objects BY <1>1 DEF Objects
  <1>3. TypeOK BY <1>1, <1>2, CrashesAssumption DEF Init, TypeOK
  <1>4. TagsAreTheSchema BY <1>1 DEF TagsAreTheSchema
  <1>5. TagsArePrefix BY <1>1 DEF TagsArePrefix
  <1>6. BehindIsRecorded /\ AtAnEntry /\ ReadyMeansMigrated
    BY DEF Init, BehindIsRecorded, AtAnEntry, ReadyMeansMigrated
  <1>7. TagsAreALevel BY <1>1 DEF TagsAreALevel
  <1>. QED BY <1>3, <1>4, <1>5, <1>6, <1>7 DEF IInv

(* The step that commits an entry; every other step leaves the tags and    *)
(* the schema alone.                                                       *)
LEMMA CommitFacts ==
  ASSUME IInv, NEW p \in Hosts, CommitEntry(p), entry[p] \notin tags
  PROVE  /\ entry[p] \in 1..Entries /\ tags' = tags \cup {entry[p]}
         /\ objects' = objects \cup ObjectsOf(entry[p])
         /\ entry' = [entry EXCEPT ![p] = @ + 1] /\ pc' = [pc EXCEPT ![p] = "entry"]
         /\ made' = [made EXCEPT ![p] = 0] /\ UNCHANGED <<tracking, known, crashes>>
  <1>1. entry[p] \in 1..Entries BY AssumptionsHold DEF IInv, AtAnEntry, CommitEntry, Assumptions
  <1>2. Pending(p) = ObjectsOf(entry[p]) BY DEF CommitEntry, Pending, ObjectsOf
  <1>. QED BY <1>1, <1>2 DEF CommitEntry, Advance, Goto

(* It records the first entry that was not recorded.                       *)
LEMMA CommitIsNext ==
  ASSUME IInv, NEW p \in Hosts, CommitEntry(p), entry[p] \notin tags,
         NEW k \in 0..Entries, tags = 1..k
  PROVE  entry[p] = k + 1 /\ k + 1 \in 0..Entries /\ tags' = 1..(k + 1)
  <1>. USE AssumptionsHold DEF Assumptions
  <1>1. entry[p] \in 1..Entries /\ tags' = tags \cup {entry[p]} BY CommitFacts
  <1>2. entry[p] > k BY <1>1
  <1>3. ~(k + 1 < entry[p])
    <2>1. k + 1 < entry[p] => k + 1 \in tags BY <1>1 DEF IInv, BehindIsRecorded
    <2>2. k + 1 \notin tags OBVIOUS
    <2>. QED BY <2>1, <2>2
  <1>4. entry[p] = k + 1
    <2>1. k \in Nat /\ entry[p] \in Nat BY <1>1
    <2>. QED BY <1>2, <1>3, <2>1
  <1>. QED BY <1>1, <1>4

(* The other steps.                                                        *)
Frame ==
  \/ \E p \in Hosts :
       \/ Start(p) \/ EnsureMigrationTable(p) \/ CreateMigrationTable(p) \/ ReadAppliedTags(p)
       \/ NextEntry(p) \/ Statement(p) \/ Crash(p)
       \/ CommitEntry(p) /\ entry[p] \in tags
  \/ UNCHANGED vars

(* They leave the tags and the schema alone.                               *)
LEMMA FrameFacts == Frame => UNCHANGED <<tags, objects>>
  BY DEF Frame, Start, EnsureMigrationTable, CreateMigrationTable, ReadAppliedTags,
         NextEntry, Statement, Crash, CommitEntry, vars, database

(* Every step is one of the two kinds.                                     *)
LEMMA StepCases ==
  ASSUME [Next]_vars
  PROVE  Frame \/ \E p \in Hosts : CommitEntry(p) /\ entry[p] \notin tags
  BY DEF Next, Setup, Frame

(* What a step of the other kind does to the host that takes it.           *)
LEMMA HostStep ==
  ASSUME IInv, Frame
  PROVE  /\ TypeOK' /\ BehindIsRecorded' /\ AtAnEntry' /\ ReadyMeansMigrated'
  <1>. USE AssumptionsHold DEF Assumptions, IInv
  <1>. DEFINE Good == TypeOK' /\ BehindIsRecorded' /\ AtAnEntry' /\ ReadyMeansMigrated'
  <1>0. UNCHANGED <<tags, objects>> BY FrameFacts
  <1>1. ASSUME NEW p \in Hosts, Down(p), tracking' \in BOOLEAN, crashes' \in 0..MaxCrashes
        PROVE  Good
    <2>1. TypeOK' BY <1>0, <1>1 DEF TypeOK, Down, Goto
    <2>2. BehindIsRecorded' BY <1>0, <1>1 DEF TypeOK, Down, BehindIsRecorded
    <2>3. AtAnEntry' BY <1>1 DEF TypeOK, Down, Goto, AtAnEntry
    <2>4. ReadyMeansMigrated' BY <1>0, <1>1 DEF TypeOK, Down, Goto, ReadyMeansMigrated
    <2>. QED BY <2>1, <2>2, <2>3, <2>4
  <1>2. ASSUME NEW p \in Hosts, NEW phase \in {"ensure", "create", "read"}, Goto(p, phase),
               UNCHANGED <<known, entry, made, crashes>>, tracking' \in BOOLEAN
        PROVE  Good
    BY <1>0, <1>2 DEF TypeOK, Goto, BehindIsRecorded, AtAnEntry, ReadyMeansMigrated
  <1>3. ASSUME NEW p \in Hosts, Start(p) PROVE Good
    BY <1>2, <1>3 DEF Start, database, TypeOK
  <1>4. ASSUME NEW p \in Hosts, EnsureMigrationTable(p) PROVE Good
    <2>1. UNCHANGED <<known, entry, made, crashes>> /\ tracking' \in BOOLEAN
      BY <1>4 DEF EnsureMigrationTable, database, TypeOK
    <2>. QED BY <1>2, <1>4, <2>1 DEF EnsureMigrationTable
  <1>5. ASSUME NEW p \in Hosts, CreateMigrationTable(p) PROVE Good
    <2>1. tracking' \in BOOLEAN /\ crashes' \in 0..MaxCrashes /\ UNCHANGED crashes
      BY <1>5 DEF CreateMigrationTable, TypeOK
    <2>. QED BY <1>1, <1>2, <1>5, <2>1 DEF CreateMigrationTable
  <1>6. ASSUME NEW p \in Hosts, ReadAppliedTags(p) PROVE Good
    <2>1. TypeOK' BY <1>0, <1>6 DEF ReadAppliedTags, TypeOK, Goto, database
    <2>2. BehindIsRecorded' BY <1>0, <1>6 DEF ReadAppliedTags, TypeOK, BehindIsRecorded
    <2>3. AtAnEntry' /\ ReadyMeansMigrated'
      BY <1>0, <1>6 DEF ReadAppliedTags, TypeOK, Goto, AtAnEntry, ReadyMeansMigrated
    <2>. QED BY <2>1, <2>2, <2>3
  <1>7. ASSUME NEW p \in Hosts, NextEntry(p) PROVE Good
    <2>0. /\ UNCHANGED <<tracking, known, made, crashes>> /\ Journal[p] \in 1..Entries
          /\ entry[p] \in 1..(Entries + 1)
      BY <1>7 DEF NextEntry, database, TypeOK
    <2>1. CASE entry[p] > Journal[p] /\ Goto(p, "ready") /\ UNCHANGED entry
      <3>1. 1..Journal[p] \subseteq tags BY <2>0, <2>1 DEF BehindIsRecorded
      <3>2. ReadyMeansMigrated' BY <1>0, <2>1, <3>1 DEF TypeOK, Goto, ReadyMeansMigrated
      <3>3. TypeOK' BY <1>0, <2>0, <2>1 DEF TypeOK, Goto
      <3>4. BehindIsRecorded' /\ AtAnEntry'
        BY <1>0, <2>0, <2>1 DEF TypeOK, Goto, BehindIsRecorded, AtAnEntry
      <3>. QED BY <3>2, <3>3, <3>4
    <2>2. CASE /\ entry[p] <= Journal[p] /\ entry[p] \in known[p]
               /\ entry' = [entry EXCEPT ![p] = @ + 1] /\ UNCHANGED pc
      <3>0. pc[p] = "entry" BY <1>7 DEF NextEntry
      <3>1. TypeOK' BY <1>0, <2>0, <2>2 DEF TypeOK
      <3>2. BehindIsRecorded' BY <1>0, <2>0, <2>2 DEF TypeOK, BehindIsRecorded
      <3>3. AtAnEntry' /\ ReadyMeansMigrated'
        BY <1>0, <2>2, <3>0 DEF TypeOK, AtAnEntry, ReadyMeansMigrated
      <3>. QED BY <3>1, <3>2, <3>3
    <2>3. CASE /\ entry[p] <= Journal[p] /\ entry[p] \notin known[p]
               /\ Goto(p, "apply") /\ UNCHANGED entry
      <3>1. TypeOK' BY <1>0, <2>0, <2>3 DEF TypeOK, Goto
      <3>2. AtAnEntry' BY <2>0, <2>3 DEF TypeOK, Goto, AtAnEntry
      <3>3. BehindIsRecorded' /\ ReadyMeansMigrated'
        BY <1>0, <2>0, <2>3 DEF TypeOK, Goto, BehindIsRecorded, ReadyMeansMigrated
      <3>. QED BY <3>1, <3>2, <3>3
    <2>. QED BY <1>7, <2>1, <2>2, <2>3 DEF NextEntry
  <1>8. ASSUME NEW p \in Hosts, Statement(p) PROVE Good
    <2>0. UNCHANGED <<tracking, crashes>> BY <1>8 DEF Statement, database
    <2>1. CASE Down(p) BY <1>1, <2>0, <2>1 DEF TypeOK
    <2>2. CASE made' = [made EXCEPT ![p] = @ + 1] /\ UNCHANGED <<pc, known, entry>>
      BY <1>0, <2>0, <2>2 DEF TypeOK, BehindIsRecorded, AtAnEntry, ReadyMeansMigrated
    <2>. QED BY <1>8, <2>1, <2>2 DEF Statement
  <1>9. ASSUME NEW p \in Hosts, Crash(p) PROVE Good
    <2>1. tracking' \in BOOLEAN /\ crashes' \in 0..MaxCrashes
      BY <1>9, CrashesAssumption DEF Crash, database, TypeOK
    <2>. QED BY <1>1, <1>9, <2>1 DEF Crash
  <1>10. ASSUME NEW p \in Hosts, CommitEntry(p), entry[p] \in tags PROVE Good
    BY <1>1, <1>10 DEF CommitEntry, TypeOK
  <1>11. CASE UNCHANGED vars
    BY <1>11 DEF vars, database, host, TypeOK, BehindIsRecorded, AtAnEntry, ReadyMeansMigrated
  <1>. QED BY <1>3, <1>4, <1>5, <1>6, <1>7, <1>8, <1>9, <1>10, <1>11 DEF Frame

(* Every step keeps the inductive invariant.                               *)
LEMMA InvStep == IInv /\ [Next]_vars => IInv'
  <1>. SUFFICES ASSUME IInv, [Next]_vars PROVE IInv' OBVIOUS
  <1>. USE AssumptionsHold DEF Assumptions
  <1>1. CASE Frame
    <2>1. TagsAreTheSchema' /\ TagsArePrefix' /\ TagsAreALevel'
      BY <1>1, FrameFacts DEF IInv, TagsAreTheSchema, TagsArePrefix, TagsAreALevel
    <2>. QED BY <1>1, <2>1, HostStep DEF IInv
  <1>2. ASSUME NEW p \in Hosts, CommitEntry(p), entry[p] \notin tags PROVE IInv'
    <2>. USE DEF IInv
    <2>1. /\ entry[p] \in 1..Entries /\ tags' = tags \cup {entry[p]}
          /\ objects' = objects \cup ObjectsOf(entry[p])
          /\ entry' = [entry EXCEPT ![p] = @ + 1] /\ pc' = [pc EXCEPT ![p] = "entry"]
          /\ made' = [made EXCEPT ![p] = 0] /\ UNCHANGED <<tracking, known, crashes>>
      BY <1>2, CommitFacts
    <2>2. TagsAreTheSchema' BY <2>1 DEF TagsAreTheSchema
    <2>3. tags' \subseteq 1..Entries BY <2>1 DEF TypeOK
    <2>4. objects' \subseteq Objects BY <2>1 DEF TypeOK, Objects
    <2>5. entry' \in [Hosts -> 1..(Entries + 1)] BY <2>1 DEF TypeOK
    <2>6. TypeOK' BY <2>1, <2>3, <2>4, <2>5 DEF TypeOK
    <2>7. BehindIsRecorded'
      <3>1. ASSUME NEW q \in Hosts, NEW i \in 1..Entries, i < entry'[q] PROVE i \in tags'
        BY <2>1, <3>1 DEF BehindIsRecorded, TypeOK
      <3>. QED BY <2>1, <3>1 DEF BehindIsRecorded
    <2>8. TagsArePrefix'
      <3>1. 1..entry[p] \subseteq tags' BY <2>1 DEF BehindIsRecorded
      <3>. QED BY <2>1, <3>1 DEF TagsArePrefix
    <2>9. AtAnEntry' BY <2>1 DEF AtAnEntry, TypeOK
    <2>10. ReadyMeansMigrated' BY <2>1 DEF ReadyMeansMigrated, TypeOK
    <2>11. TagsAreALevel' BY <1>2, CommitIsNext DEF TagsAreALevel
    <2>. QED BY <2>2, <2>6, <2>7, <2>8, <2>9, <2>10, <2>11
  <1>. QED BY <1>1, <1>2, StepCases

-----------------------------------------------------------------------------
(* The strengthening holds in every reachable state.                       *)
THEOREM Invariance == Spec => []IInv
  <1>1. Init => IInv BY InvInit
  <1>2. IInv /\ [Next]_vars => IInv' BY InvStep
  <1>. QED BY <1>1, <1>2, PTL DEF Spec

(* The variables of the bootstrap keep their types.                        *)
THEOREM TypeCorrect == Spec => []TypeOK
  <1>1. IInv => TypeOK BY DEF IInv
  <1>. QED BY <1>1, Invariance, PTL

(* The schema is what the recorded migrations create, never part of one.   *)
THEOREM MigrationsAreAtomic == Spec => []TagsAreTheSchema
  <1>1. IInv => TagsAreTheSchema BY DEF IInv
  <1>. QED BY <1>1, Invariance, PTL

(* Migrations are recorded in journal order, without gaps.                 *)
THEOREM MigrationsAreInOrder == Spec => []TagsArePrefix
  <1>1. IInv => TagsArePrefix BY DEF IInv
  <1>. QED BY <1>1, Invariance, PTL

(* Setup succeeds only on a database that has the whole journal.           *)
THEOREM SetupMeansMigrated == Spec => []ReadyMeansMigrated
  <1>1. IInv => ReadyMeansMigrated BY DEF IInv
  <1>. QED BY <1>1, Invariance, PTL

-----------------------------------------------------------------------------
(***************************************************************************)
(* Refinement.  Every migration creates something, so that a schema is at  *)
(* one level at most; the level is the number of entries recorded.         *)
(***************************************************************************)
Whole(k) == UNION {ObjectsOf(i) : i \in 1..k}

LEMMA LevelsDiffer ==
  ASSUME NEW j \in 0..Entries, NEW k \in 0..Entries, j < k
  PROVE  Whole(j) # Whole(k)
  <1>. USE AssumptionsHold DEF Assumptions
  <1>1. k \in 1..Entries /\ 1 \in 1..Size[k] OBVIOUS
  <1>2. <<k, 1>> \in ObjectsOf(k) BY <1>1 DEF ObjectsOf
  <1>3. <<k, 1>> \in Whole(k) BY <1>1, <1>2 DEF Whole
  <1>4. ASSUME <<k, 1>> \in Whole(j) PROVE FALSE
    <2>1. PICK i \in 1..j : <<k, 1>> \in ObjectsOf(i) BY <1>4 DEF Whole
    <2>2. i = k BY <2>1 DEF ObjectsOf
    <2>. QED BY <2>1, <2>2
  <1>. QED BY <1>3, <1>4

LEMMA LevelIs ==
  ASSUME NEW k \in 0..Entries, objects = Whole(k)
  PROVE  Level = k
  <1>1. \A j \in 0..Entries : objects = Whole(j) => j = k
    <2>. TAKE j \in 0..Entries
    <2>1. j \in Nat /\ k \in Nat /\ (j < k \/ k < j \/ j = k) BY AssumptionsHold DEF Assumptions
    <2>. QED BY <2>1, LevelsDiffer
  <1>2. \E j \in 0..Entries : objects = Whole(j) OBVIOUS
  <1>3. Level = CHOOSE j \in 0..Entries : objects = Whole(j) BY <1>2 DEF Level, Whole
  <1>. QED BY <1>1, <1>2, <1>3

(* The level is what the tags say.                                         *)
LEMMA LevelFacts ==
  ASSUME IInv
  PROVE  \E k \in 0..Entries : tags = 1..k /\ Level = k
  <1>1. PICK k \in 0..Entries : tags = 1..k BY DEF IInv, TagsAreALevel
  <1>2. objects = Whole(k) BY <1>1 DEF IInv, TagsAreTheSchema, Whole
  <1>. QED BY <1>1, <1>2, LevelIs

Up == {p \in Hosts : pc[p] = "ready"}

LEMMA InitIsALevel == Init => Levels!Init
  <1>. SUFFICES ASSUME Init PROVE Levels!Init OBVIOUS
  <1>1. PICK k \in 0..Entries : objects = Whole(k) BY DEF Init, Whole
  <1>2. Level = k BY <1>1, LevelIs
  <1>3. Up = {} BY DEF Init, Up
  <1>. QED BY <1>2, <1>3 DEF Levels!Init, Up

(* A commit of an entry is a migration.                                    *)
LEMMA CommitIsMigrate ==
  ASSUME IInv, NEW p \in Hosts, CommitEntry(p), entry[p] \notin tags
  PROVE  Levels!Migrate(p)
  <1>1. PICK k \in 0..Entries : tags = 1..k /\ Level = k BY LevelFacts
  <1>2. entry[p] = k + 1 /\ k + 1 \in 0..Entries /\ tags' = 1..(k + 1) BY <1>1, CommitIsNext
  <1>3. objects' = Whole(k + 1)
    <2>1. IInv' BY InvStep DEF Next, Setup
    <2>. QED BY <1>2, <2>1 DEF IInv, TagsAreTheSchema, Whole
  <1>4. Level' = k + 1
    <2>1. \A j \in 0..Entries : objects' = Whole(j) => j = k + 1
      <3>. TAKE j \in 0..Entries
      <3>1. j \in Nat /\ k \in Nat /\ (j < k + 1 \/ k + 1 < j \/ j = k + 1)
        BY AssumptionsHold DEF Assumptions
      <3>. QED BY <1>2, <1>3, <3>1, LevelsDiffer
    <2>2. \E j \in 0..Entries : objects' = Whole(j) BY <1>2, <1>3
    <2>3. Level' = CHOOSE j \in 0..Entries : objects' = Whole(j) BY <2>2 DEF Level, Whole
    <2>. QED BY <2>1, <2>2, <2>3
  <1>5. k < Journal[p]
    <2>1. entry[p] \in 1..Journal[p] /\ Journal[p] \in 1..Entries
      BY AssumptionsHold DEF IInv, AtAnEntry, CommitEntry, Assumptions
    <2>. QED BY <1>2, <2>1, AssumptionsHold DEF Assumptions
  <1>6. Up' = Up
    <2>1. pc[p] = "apply" /\ pc' = [pc EXCEPT ![p] = "entry"] BY CommitFacts DEF CommitEntry
    <2>. QED BY <2>1 DEF IInv, TypeOK, Up
  <1>. QED BY <1>1, <1>4, <1>5, <1>6 DEF Levels!Migrate, Up

(* Other steps leave the level; a host that ends its loop comes up, and    *)
(* one that goes anywhere else stops, if it was up.                        *)
LEMMA FrameRefines ==
  ASSUME IInv, Frame
  PROVE  [Levels!Next]_(Levels!vars)
  <1>1. Level' = Level BY FrameFacts DEF Level
  <1>2. ASSUME NEW p \in Hosts, NEW phase, phase # "ready", Goto(p, phase) PROVE Levels!Next
    <2>1. Up' = Up \ {p} BY <1>2 DEF Goto, IInv, TypeOK, Up
    <2>. QED BY <1>1, <2>1 DEF Levels!Next, Levels!Stop, Up
  <1>3. ASSUME UNCHANGED pc PROVE UNCHANGED Levels!vars
    BY <1>1, <1>3 DEF Levels!vars
  <1>4. ASSUME NEW p \in Hosts, NextEntry(p), Goto(p, "ready"), entry[p] > Journal[p]
        PROVE  Levels!Next
    <2>1. Up' = Up \cup {p} BY <1>4 DEF Goto, IInv, TypeOK, Up
    <2>2. PICK k \in 0..Entries : tags = 1..k /\ Level = k BY LevelFacts
    <2>3. Journal[p] \in 1..Entries /\ entry[p] \in 1..(Entries + 1)
      BY AssumptionsHold DEF Assumptions, IInv, TypeOK
    <2>4. Journal[p] \in tags BY <1>4, <2>3 DEF IInv, BehindIsRecorded
    <2>5. Journal[p] <= Level BY <2>2, <2>3, <2>4
    <2>. QED BY <1>1, <2>1, <2>5 DEF Levels!Next, Levels!ComeUp, Up
  <1>5. ASSUME NEW p \in Hosts,
               \/ Start(p) \/ EnsureMigrationTable(p) \/ CreateMigrationTable(p)
               \/ ReadAppliedTags(p) \/ NextEntry(p) \/ Statement(p) \/ Crash(p)
               \/ CommitEntry(p) /\ entry[p] \in tags
        PROVE  [Levels!Next]_(Levels!vars)
    <2>1. CASE \E phase \in {"down", "ensure", "create", "read", "entry", "apply"} : Goto(p, phase)
      BY <1>2, <2>1
    <2>2. CASE UNCHANGED pc BY <1>3, <2>2
    <2>3. CASE NextEntry(p) /\ Goto(p, "ready") /\ entry[p] > Journal[p] BY <1>4, <2>3
    <2>. QED BY <1>5, <2>1, <2>2, <2>3
         DEF Start, EnsureMigrationTable, CreateMigrationTable, ReadAppliedTags, NextEntry,
             Statement, Crash, CommitEntry, Down
  <1>6. CASE UNCHANGED vars BY <1>3, <1>6 DEF vars, host
  <1>. QED BY <1>5, <1>6 DEF Frame

(* The transactions of hosts that race, crash and differ in version        *)
(* implement migrations that happen at once, one level at a time.          *)
THEOREM BootstrapImplementsLevels == Spec => LevelsSpec
  <1>1. IInv /\ [Next]_vars => [Levels!Next]_(Levels!vars)
    BY StepCases, FrameRefines, CommitIsMigrate DEF Levels!Next
  <1>. QED BY InitIsALevel, <1>1, Invariance, PTL DEF Spec, LevelsSpec, Levels!Spec
=============================================================================

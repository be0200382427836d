---------------------------- MODULE PgBootstrap -----------------------------
(***************************************************************************)
(* applyChatv3PgSchema (chatv3-pg-bootstrap): hosts that start at the same *)
(* time, of one version of the package or of several, bring one database   *)
(* to the schema of their migration journals.  A host reads the tags of    *)
(* the migrations applied once, then runs every other entry in a           *)
(* transaction of its own that also records the tag.  There is no lock: a  *)
(* statement that creates what another transaction has created waits for   *)
(* it and fails if it committed.  A host whose setup throws, or that       *)
(* crashes, may be started again.                                          *)
(***************************************************************************)
EXTENDS Naturals

CONSTANTS
  Hosts,      (* the processes that run the plugin's setup                 *)
  Entries,    (* number of entries of the longest journal                  *)
  Journal,    (* Journal[p]: how many of them host p's package has         *)
  Size,       (* Size[i]: number of statements of entry i, none of which   *)
              (* is IF NOT EXISTS                                          *)
  MaxCrashes  (* bound: number of crashes and broken connections           *)

ASSUME EntriesAssumption == Entries \in Nat \ {0}
ASSUME JournalAssumption == Journal \in [Hosts -> 1..Entries]
ASSUME SizeAssumption    == Size \in [1..Entries -> Nat \ {0}]
ASSUME CrashesAssumption == MaxCrashes \in Nat

(* What statement j of entry i creates.                                    *)
ObjectsOf(i) == {<<i, j>> : j \in 1..Size[i]}
Objects      == UNION {ObjectsOf(i) : i \in 1..Entries}

VARIABLES
  tracking,  (* the table of tags exists                                   *)
  tags,      (* its rows: the entries recorded                             *)
  objects,   (* the committed schema                                       *)
  pc,        (* pc[p]: what host p does next                               *)
  known,     (* known[p]: the tags it has read                             *)
  entry,     (* entry[p]: the journal entry it is at                       *)
  made,      (* made[p]: statements executed in its open transaction       *)
  crashes    (* number of crashes so far                                   *)

database == <<tracking, tags, objects>>
host     == <<pc, known, entry, made>>
vars     == <<database, host, crashes>>

(* The database is empty, or an earlier version has set it up.             *)
Init ==
  /\ \E k \in 0..Entries :
       /\ tags = 1..k
       /\ objects = UNION {ObjectsOf(i) : i \in 1..k}
       /\ tracking = (k > 0)
  /\ pc = [p \in Hosts |-> "down"]
  /\ known = [p \in Hosts |-> {}]
  /\ entry = [p \in Hosts |-> 1]
  /\ made = [p \in Hosts |-> 0]
  /\ crashes = 0

Goto(p, phase) == pc' = [pc EXCEPT ![p] = phase]

(* Setup throws: a transaction that is open is rolled back.                *)
Down(p) ==
  /\ Goto(p, "down")
  /\ known' = [known EXCEPT ![p] = {}]
  /\ entry' = [entry EXCEPT ![p] = 1]
  /\ made' = [made EXCEPT ![p] = 0]

Start(p) ==
  /\ pc[p] = "down" /\ Goto(p, "ensure")
  /\ UNCHANGED <<database, known, entry, made, crashes>>

(* CREATE TABLE IF NOT EXISTS looks for the table ...                      *)
EnsureMigrationTable(p) ==
  /\ pc[p] = "ensure"
  /\ Goto(p, IF tracking THEN "read" ELSE "create")
  /\ UNCHANGED <<database, known, entry, made, crashes>>

(* ... and creates it, which fails when another host has done so since.    *)
CreateMigrationTable(p) ==
  /\ pc[p] = "create"
  /\ \/ tracking /\ Down(p)
     \/ ~tracking /\ Goto(p, "read") /\ UNCHANGED <<known, entry, made>>
  /\ tracking' = TRUE
  /\ UNCHANGED <<tags, objects, crashes>>

ReadAppliedTags(p) ==
  /\ pc[p] = "read"
  /\ known' = [known EXCEPT ![p] = tags]
  /\ Goto(p, "entry")
  /\ UNCHANGED <<database, entry, made, crashes>>

-----------------------------------------------------------------------------
(* The newest entry alone (a variant of NextEntry).                        *)
NextEntry_Newest(p) ==
  /\ pc[p] = "entry"
  /\ IF entry[p] > Journal[p] \/ Journal[p] \in known[p]
     THEN Goto(p, "ready") /\ UNCHANGED entry
     ELSE Goto(p, "apply") /\ entry' = [entry EXCEPT ![p] = Journal[p]]
  /\ UNCHANGED <<database, known, made, crashes>>

(* The loop over the journal: done, an entry to skip, or BEGIN.            *)
NextEntry(p) ==
  /\ pc[p] = "entry"
  /\ \/ entry[p] > Journal[p] /\ Goto(p, "ready") /\ UNCHANGED entry
     \/ /\ entry[p] <= Journal[p] /\ entry[p] \in known[p]
        /\ entry' = [entry EXCEPT ![p] = @ + 1] /\ UNCHANGED pc
     \/ /\ entry[p] <= Journal[p] /\ entry[p] \notin known[p]
        /\ Goto(p, "apply") /\ UNCHANGED entry
  /\ UNCHANGED <<database, known, made, crashes>>

(* What the open transaction of host q has created.                        *)
Pending(q) == {<<entry[q], j>> : j \in 1..made[q]}

(* Statements that commit one by one (a variant of Statement).             *)
Statement_Autocommit(p) ==
  LET o == <<entry[p], made[p] + 1>> IN
  /\ pc[p] = "apply" /\ made[p] < Size[entry[p]]
  /\ IF o \in objects
     THEN Down(p) /\ UNCHANGED objects
     ELSE /\ objects' = objects \cup {o} /\ made' = [made EXCEPT ![p] = @ + 1]
          /\ UNCHANGED <<pc, known, entry>>
  /\ UNCHANGED <<tracking, tags, crashes>>

(* The next statement of the entry waits for another transaction that has  *)
(* created the same object, and fails when it is there.                    *)
Statement(p) ==
  LET o == <<entry[p], made[p] + 1>> IN
  /\ pc[p] = "apply" /\ made[p] < Size[entry[p]]
  /\ \A q \in Hosts \ {p} : o \notin Pending(q)
  /\ \/ o \in objects /\ Down(p)
     \/ o \notin objects /\ made' = [made EXCEPT ![p] = @ + 1] /\ UNCHANGED <<pc, known, entry>>
  /\ UNCHANGED <<database, crashes>>

(* The entry is done; on to the next.                                      *)
Advance(p) ==
  /\ Goto(p, "entry")
  /\ entry' = [entry EXCEPT ![p] = @ + 1]
  /\ made' = [made EXCEPT ![p] = 0]
  /\ UNCHANGED known

(* The entry committed without its tag (a variant of CommitEntry).         *)
CommitEntry_NoTag(p) ==
  /\ pc[p] = "apply" /\ made[p] = Size[entry[p]]
  /\ objects' = objects \cup Pending(p)
  /\ Advance(p)
  /\ UNCHANGED <<tracking, tags, crashes>>

(* INSERT of the tag, which is the primary key, and COMMIT.                *)
CommitEntry(p) ==
  /\ pc[p] = "apply" /\ made[p] = Size[entry[p]]
  /\ IF entry[p] \in tags
     THEN Down(p) /\ UNCHANGED <<tags, objects>>
     ELSE /\ tags' = tags \cup {entry[p]}
          /\ objects' = objects \cup Pending(p)
          /\ Advance(p)
  /\ UNCHANGED <<tracking, crashes>>

(* A broken connection whose error is swallowed (a variant of Crash).      *)
Crash_Swallowed(p) ==
  /\ pc[p] = "apply" /\ crashes < MaxCrashes /\ crashes' = crashes + 1
  /\ Advance(p)
  /\ UNCHANGED database

(* The process, its machine or its connection dies; Postgres rolls back    *)
(* what was open.  A host that is up may also be stopped.                  *)
Crash(p) ==
  /\ pc[p] # "down" /\ crashes < MaxCrashes /\ crashes' = crashes + 1
  /\ Down(p)
  /\ UNCHANGED database

Setup(p) ==
  \/ EnsureMigrationTable(p) \/ CreateMigrationTable(p) \/ ReadAppliedTags(p)
  \/ NextEntry(p) \/ Statement(p) \/ CommitEntry(p)

Next == \E p \in Hosts : Start(p) \/ Setup(p) \/ Crash(p)

Spec == Init /\ [][Next]_vars

(* A setup that can go on goes on, and whoever runs the hosts starts one   *)
(* that is down; nothing makes a host crash.                               *)
Fairness == \A p \in Hosts : WF_vars(Start(p)) /\ WF_vars(Setup(p))

FairSpec == Spec /\ Fairness

-----------------------------------------------------------------------------
(* The variables have their types.                                         *)
TypeOK ==
  /\ tracking \in BOOLEAN /\ tags \subseteq 1..Entries /\ objects \subseteq Objects
  /\ pc \in [Hosts -> {"down", "ensure", "create", "read", "entry", "apply", "ready"}]
  /\ known \in [Hosts -> SUBSET (1..Entries)]
  /\ entry \in [Hosts -> 1..(Entries + 1)] /\ made \in [Hosts -> Nat]
  /\ crashes \in 0..MaxCrashes

(* A tag stands for its whole migration: the schema is exactly what the    *)
(* recorded entries create, whatever crashed half-way and however many     *)
(* hosts ran the same entry.                                               *)
TagsAreTheSchema == objects = UNION {ObjectsOf(i) : i \in tags}

(* Entries are applied in the order of the journal and none is left out,   *)
(* also by hosts whose journals differ in length: a later entry alters     *)
(* tables of an earlier one.                                               *)
TagsArePrefix == \A i \in tags : 1..i \subseteq tags

(* A host that is up finds every table and column its package knows.       *)
ReadyMeansMigrated == \A p \in Hosts : pc[p] = "ready" => 1..Journal[p] \subseteq tags

(* "Applies it idempotently via a tag journal": starting again after a     *)
(* failed or interrupted setup gets every host up in the end, however the  *)
(* hosts get in each other's way and wherever the setup stopped.           *)
HostsComeUp == <>[](\A p \in Hosts : pc[p] = "ready")

-----------------------------------------------------------------------------
(* The level the committed schema is at, read off the schema itself and    *)
(* not the tags; a schema that is at none has level Entries + 1.           *)
Level ==
  LET At(k) == objects = UNION {ObjectsOf(i) : i \in 1..k} IN
  IF \E k \in 0..Entries : At(k) THEN CHOOSE k \in 0..Entries : At(k) ELSE Entries + 1

Levels == INSTANCE SchemaLevels WITH
  level <- Level, up <- {p \in Hosts : pc[p] = "ready"}

(* The transactions of all hosts implement migrations that happen at once: *)
(* no crash, race or older host shows a schema between two levels, skips   *)
(* one or goes back to one.                                                *)
LevelsSpec == Levels!Spec
=============================================================================

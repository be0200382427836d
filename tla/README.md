# A TLA+ model of ChatV3

ChatV3 (`src/`) is a server for encrypted chat: spaces contain channels,
channels contain rooms, members post encrypted messages into rooms. The server
is a library that runs inside host processes in front of one PostgreSQL
database. This directory holds TLA+ modules translated from its source, TLC
runs that check them on small instances, and TLAPS proofs for every instance.

What makes the code hard is not in any one handler. Each handler reads some
rows, decides, and writes; the reads are often outside the transaction that
writes, the isolation level is READ COMMITTED, and any number of requests and
hosts do this at the same time. Every model therefore has one action per
statement or per group of statements that nothing can come between.

## 1. The system

| Part | State | Operations | Interacts with |
|---|---|---|---|
| Room log (`service.message.ts`) | rooms.lastSeq/status/currentEpoch, messages | send, list | room row lock; rotate, archive, delete change the room under it |
| Channel keys (`service.channel.ts`, `service.room.ts`) | channels, rooms, room-epochs, access-keys | channel create/archive/unarchive/delete/purge-before/rotate/epoch-keys, room create/archive/delete | the clients choose keys and epochs; rotate also marks key packages stale |
| Membership (`service.channel.ts`, `helpers.ts`) | members: status, role, tokenHash, userId | join, member.update, member.token.remint, token check | access keys admit members; recovery re-mints tokens |
| Key recovery (`service.recovery.ts`) | user-key-backups, member-key-packages | user-key register/get, key-package put/get, recovery.get | rotate and key registration mark packages stale |
| Cursors, spaces (`service.cursor.ts`, `service.space.ts`) | room-cursors, spaces | read, delivered, ack, receipts; create, ensure, archive | posted by clients at any time; ensure on every start of one |
| Presence, bindings, devices | one table each | upserts, inserts, deletes | read by clients; presence by time |
| Event stream, webhooks (`chatv3-host-plugin`) | in-memory bus, SSE streams; webhooks with failCount | subscribe, publish, heartbeat, dispatch | called after send and presence.set |
| Rate limiter (`rate-limit.ts`) | map of windows | hit, prune | in front of every operation |
| Schema bootstrap (`chatv3-pg-bootstrap`) | table of migration tags, the schema | applyChatv3PgSchema | run by every host's setup |
| Catalog and executor (`chatv3-kit`) | none: the table of operations | dispatch, authentication, validation | calls the services |
| Product client, light client core | key store, remembered invites, tokens | create, join, send, read, createRoom | HTTP and SSE |

Hard behaviour, by part:

* **Room log.** Seq allocation under a row lock next to inserts that can fail;
  an idempotency lookup that runs before the lock; a check of epoch and status
  before the transaction; readers that page by seq while commits land.
* **Channel keys.** Overlapping rotations, each revoking what its snapshot
  shows; rooms created, archived and deleted between the check and the commit.
* **Membership.** Read-then-write of a row without a version check; tokens
  that name a row id and are minted before or after the row is known.
* **Recovery.** Version numbers computed from an unlocked read; packages made
  usable after the rotation that should have made them stale.
* **Events.** Publication after commit, from many processes, without order,
  replay or back-pressure.
* **Bootstrap.** Hosts of several versions starting at the same time, and
  dying in the middle of a migration.
* **Client.** Overlapping calls that share one key store; one invite secret
  against many epochs; each join or remint kills the token before it.
* **Gate.** Two kinds of token in one header; windows that expire, are pruned
  and come back.

What makes each part correct is stated with its module below. `PROJECT.json`
lists every hazard at its line, with the properties about it or the reason
why there is none.

## 2. The modules

### SeqLog, MessageLog: one room's messages

`MessageLog` follows `message.send` statement by statement. `CheckRoom` is
`getRoomForMember`, `assertActive` and the epoch comparison, outside any
transaction. `FindByKey` is the idempotency lookup, `LockRoom` the
`SELECT ... FOR UPDATE` of lastSeq, `InsertMessage` the insert against the two
unique indexes and the foreign key, `Commit` bumpSeq and COMMIT. `Abort` is a
connection that breaks at any point; a reply may also be lost after the commit
("unknown"). `List` pages with afterSeq; `Archive`, `Delete` and `Rotate` are
what other requests do to the room. The caller's authentication and the fields
of the envelope that are only stored are left out; `call` stands for the
ciphertext. Rooms share no state in these operations, so one room is enough.

`SeqLog` is the promise without transactions: an append-only sequence in which
a caller stores one entry at the end, is given the entry of its key, or is
refused. `LogSpec` says that `MessageLog` implements it; committed messages
are the log, "stored" and "replayed" outcomes are the answers.

### ChannelKeys: rooms, epochs, access keys

`CreateChannel`, `CreateRoom` and the archive and delete actions are the
service methods. `channel.rotate` is five steps: `PlanRotation` (what the client
submits), `CheckRotation` (the comparison of submitted and active rooms,
outside the transaction), `SnapshotKeys` and `RevokeKeys` (the UPDATE that
revokes active keys takes its snapshot when it starts, waits for rows another
rotation has updated, and re-checks them), `CommitRotation` (key, epochs,
currentEpoch). `Refused` collects the foreign keys and unique indexes that make
an insert fail. `blob[r][e]` records only which key wraps an epoch. `covers`
is a history variable. `AnyEpoch` says whether clients may submit any epoch
number, which the server allows, or submit the one after the one they read.

A rotation also marks the channel's key packages stale; that table is in
`KeyRecovery`.

### Membership: member rows and their tokens

A request reads in one step and writes in another: `CheckJoin` then
`InsertMember` or `ReactivateMember`; `Authenticate`, `ReadTarget` then
`WriteTarget` (member.update writes the fields that were left out as it read
them); `FindMembership` or `FindForRecovery` then `Remint`. A token is the pair
of the row id it names and its secret; `minted` numbers the mints, so that an id and a
secret minted together are the same number. Hashing is one-to-one and random
values are fresh. Roles are folded to those with the same rights: operator with
owner, observer with member. Display names and devices are left out.

### PgBootstrap: concurrent migrations

`applyChatv3PgSchema` of each host: `EnsureMigrationTable` and
`CreateMigrationTable` (CREATE TABLE IF NOT EXISTS looks first and can still
collide), `ReadAppliedTags`, `NextEntry` (the loop), `Statement`, `CommitEntry`
(the tag and COMMIT). No statement of the SQL files is IF NOT EXISTS, so each
one creates an object that must not be there. Hosts may carry journals of
different lengths, the database may be set up already, and a host may crash
anywhere. The checks of the journal file on disk throw before anything happens
and are left out.

`SchemaLevels` is the promise to a host: the database is at a level, which only
goes up by one, and a host that is up was not below what its package needs.
`LevelsSpec` says that `PgBootstrap` implements it. The level is read off the
schema itself (the entries all of whose objects are committed), not off the
table of tags, so that a migration whose statements and tag did not commit
together is no step of it.

### KeyRecovery: user-key backups and member key packages

Each of the three operations reads in one step and writes in a later one:
`ReadBackup` then `InsertBackup`, `RewriteBackup` (the same public key) or
`UpdateBackup` (another one); `CheckPut` then `StorePackage`; `ReadKey`
(recovery.get's first read) then `AnswerRecovery`. `SetMember` is a removal or a
re-join.

The two transactions that mark packages stale are two steps each, with anything
in between. `UpdateBackup` and `StartRotation` take the snapshot of the marking
UPDATE: the packages usable at that moment. `CommitRegistration` and
`CommitRotation` mark those of them that still are and replace the key or the
secret; `FailRegistration` and `AbortRotation` leave nothing. Between snapshot and
COMMIT Postgres locks each row of the snapshot, after a second look. A put to such a
row comes before its lock, and is then marked as well, or waits for the COMMIT; readers
see the row as it was. So it makes no difference when within the transaction a row is marked. A put
that inserts a row, or re-uses a stale one, is not of the snapshot and passes
both. There is one exception: a new row refers to the backup by a foreign key and
needs a key-share lock on it, which waits for a registration that changes
keyVersion, a column of a unique index (`MayRefer`). Nothing else locks the backup
but `UpdateBackup` and `RewriteBackup` each other (`Unlocked`).

The server sees versions; the model also keeps which key and which secret a
package really holds, and every pair of version and key ever stored (`issued`),
from which its clients seal. History that no action reads are the users of whom
one registration wrote over another (`lost`) or put an earlier key back
(`reverted`), and for each package how its key and its secret stood when it was
stored (`keyWas`, `secretWas`: out of date, current, or current while a
transaction past its snapshot was about to replace it; forgotten when the row is
marked). Tenants, envelopes and KDF parameters are left out; authority (owner,
scoped admin) is not told apart, so any helper may put a package.

### EventFeed: from a committed send to its readers

`Commit` and `Publish` are the two halves of the plugin's `execute` for
message.send; `Open`, `Abort`, `Cancel` and `Heartbeat` are the callbacks of
`createChatv3SseResponse`, and `bus` with `holds` is the map of subscriber
sets, including an unsubscribe that still closes over a set the map has dropped.
A stream whose controller is closed is not cancelled, so that its subscription
and timer stay; the next `Heartbeat` throws outside any try, which ends the
process (`Restart`). `ListMessages` is the reader's call of message.list after
a hello or an event. `ListHooks` and `Post` are the webhook dispatch. Presence
events take the same way and make no reader list, and are left out. A removed
member's open stream goes on in the code and in the model.

### ClientKeys: what a client keeps

The asynchronous calls of `Chatv3Client`, in the steps between which another
call or another client can run: posting, the reply, and every blob that is opened.
Key id and wrap secret are read, and are set, in one synchronous step when the
key store is the SDK's `MemoryKeyStore`; a store that really waits inside
`setWrapSecret` would need them apart. Any call may throw at any point
(`Throw`). Calls of one client overlap, a room being created with a join or a remint under way, and two
remints with each other (a bound: not three). The server's half of each call is one step here, and in detail in
ChannelKeys and Membership. An epoch key is named by who generated it, an access key and its
wrap secret by one number. Archived rooms are left out; a send under an old
room row is refused by the server and changes nothing.

### Gate, Receipts, Spaces, and Host

`Gate` is the way of a request to an operation: the headers a client keeps in
step with its two tokens (`SyncHeaders`), the catalog's authority of every
operation (`Catalog`, as sets of operations with their authority), the bucket
and window it is counted in (`RateKey`, `Hit`, `Pruned`), and whom the executor
takes the caller to be (`Actor`). Time is a tick; a window is `Window` ticks.
`passed[k][a]` is history: the calls of bucket k let through in this tick and
the a before it, so that the limit over a window speaks of one number.
`Receipts` has the cursor posts of clients, in flight in any order, and the
upsert with GREATEST.
`Spaces` has create and ensure, the unique index, and the second look of an
ensure that lost the race. `SpaceDirectory` is what they promise: a slug names
one space for good, whoever makes it, and a caller is given that one or
refused; `DirectorySpec` says that `Spaces` implements it. `Host` puts the
three together. They share no state, so it explores each with the others at
rest.

## 3. The runs

| Run | Bounds | What it shows |
|---|---|---|
| message_log | 2 senders, 1 reader, 1 key, 2 epochs, 3 calls, page of 2 | the log is gap-free, one message per key, answers are true, only key races collide, readers miss nothing, epochs are published; sends end; the room implements SeqLog |
| message_log_same_key | same | **finding**: a send that races its own key gets a unique violation |
| channel_keys | 2 rooms, 4 keys, 2 rotators, 1 creator, 3 epochs | every room's epoch has a blob, some key stays active, active keys open the rooms they covered, blobs are final, epochs advance by one |
| channel_keys_new_room | 3 keys | **finding**: a room created around a rotation stays on a revoked key |
| channel_keys_server | 3 keys, any epoch | **finding**: a rotation of a server-encrypted channel breaks epoch-keys |
| membership | 2 handles, 1 principal, 2 requests, 3 mints | one first join per handle, current tokens work, replaced tokens stay dead |
| membership_rejoin | same | **finding**: the token of a re-join is never accepted |
| key_recovery | 1 user, 1 channel, 3 keys, 2 devices, 1 helper, 1 reader, 1 rotator, 2 versions, 1 rotation | a version names one key unless registrations wrote over one another; the answer recoverable with equal versions opens; a package stored while its key and secret were current, and not about to be replaced, is marked by whatever replaces them |
| event_feed | 2 streams, 2 requests, 1 webhook, 2 messages, 1 restart | an open stream is on the bus; its reader has everything published; every message is read over a stream that stays open, or its publication was given up |
| client_keys | 2 clients, 2 rooms, 3 access keys | keys fit their labels, blobs are wrapped under one pair, a join that ends well makes the channel readable, the client has its current token |
| host | 1 client, 2 member tokens, 1 AuthV2 token, windows of 2 ticks, limits of 2, pruning above 2 entries; 2 members, 2 positions, 2 messages, 2 posts; 2 slugs, 4 requests | operations act for whom the client holds tokens of; limits hold over any window; receipts and blue ticks are true; ensures agree; Spaces implements SpaceDirectory |
| pg_bootstrap | 2 new hosts and 1 old, 2 migrations (2 and 1 statements), 2 crashes | the schema is exactly that of the tags, in order; a host that is up is migrated; all hosts come up; PgBootstrap implements SchemaLevels |

Why the bounds are enough to be interesting. Three calls by two senders cover a
call, its concurrent rival and a retry; a page of two over three messages has a
full and a short page. Four key ids let two rotations overlap after a first one;
three epochs let a room be rotated twice. Two requests and three mints cover
every pair of overlapping operations on a row. Two entries, of which one has
two statements, cover a crash inside a migration and between two; the old host
stops after the first. Two registrations overlap a put, a read, a rotation and a removal: three keys and
two versions are enough for one version to be given to two keys, and for an
earlier key to be put back, and a package can be stored between the snapshots of two marks and
meet both. That rotations of one channel overlap is left to the proof.
Two streams are a broken one and a healthy one, or two generations of
one reader; two requests publish out of order. Three access keys let a client
keep one, be in the middle of a call with the next, and see a blob of the third. Limits of
two in windows of two ticks have all the positions of a burst around an edge, and
three buckets exceed the pruning bound of two. Four requests for a space are
two races, or one with a latecomer. The proofs remove the bounds for the safety
properties of all components.

The `TypeOK` of ChannelKeys, PgBootstrap, KeyRecovery and EventFeed is proved
and in no run.

Symmetry: key ids and rotators in ChannelKeys, requests in Membership, and the
permuted sets of MCKeyRecovery, MCClientKeys and MCHost are interchangeable, and
the runs that use it have no liveness property (`DirectorySpec` is a safety property
that treats all requests alike).
Deadlock checking is off everywhere: the bounds on calls, mints, keys and
epochs, and a deleted room or channel, really end a behaviour.

Each property is also run against a mutant: the `X_Y` definitions next to a
definition `X` are the plausible mistakes (a dropped lock, a missing index, a
swapped order) that it catches. No specification uses them.

### Fairness

`MessageLog!Fairness`: a statement that can run is run (Postgres executes
what a connection has sent), weakly fair per sender; the row lock is strongly
fair, because Postgres queues its waiters. Nothing makes a client call, or a
connection break. `PgBootstrap!Fairness`: a setup that can go on goes on;
and whoever runs the hosts starts one that is down. The second half is an
assumption about the deployment and not about this code: a host that loses the
race throws out of `setup` and does not try again by itself. Nothing makes a
host crash, and the number of crashes is bounded. `EventFeed!Fairness`: a
request that has committed goes on to publish or to give up, since nothing in `execute` waits for
anything but the database; and a reader that was told of something lists, which
is what the SDK's users subscribe for. Nothing makes a stream open, an abort
arrive or a webhook answer.

## 4. What the runs found

1. `message.send` promises the stored message for a repeated key. The lookup
   precedes the lock and is not repeated after it, and the violation of the
   unique index is not mapped, so a concurrent repeat is answered with an
   internal error. The message is still stored once (`OneMessagePerKey`).
2. `channel.rotate` says it re-keys every active room. A room created between
   its check and its commit is not, nor is one created afterwards by a client
   that remembers the old invite.
3. `channel.rotate` accepts server-encrypted channels; their epochs are then
   wrapped by a client, and `channel.epoch-keys` throws for all of them.
4. `channel.join` of a removed handle mints a token for a fresh member id, while
   the row keeps its own: the token is refused from the start. A remint gives a
   working one to a member bound to a principal in a server-encrypted channel.

Behaviour the models show and no line of the repository contradicts, so that no
run checks it: two overlapping rotations may leave two access keys active
(each opens the rooms it covered, as `KeyOpensItsRooms` says); `member.update`
may bring back the role or status it read before a concurrent update; a message
that passed the check may be stored under the epoch before a rotation or into a
room archived meanwhile.

In the parts added later:

* Two overlapping registrations of different keys compute the version from the
  same unlocked read and both store n + 1, although operations.ts:299-303 says that
  it is incremented by each. That is why `VersionsNameKeys` and
  `RecoverableOpens` speak of users who are not in `lost`.
* The marks of a registration and of a rotation work on the snapshot of an UPDATE. A put
  that is stored after that snapshot and before the COMMIT, over a stale row,
  stays usable with the key or the secret that the COMMIT replaces. So does a new
  row next to a rotation; next to a registration that changes the key it has
  to wait (`MayRefer`). For registrations this contradicts the same comment, which says that
  existing packages are marked stale; of rotations no line says what they do to
  packages. `UsableFits` leaves out the packages stored in this window and no others
  that were current: with `# "old"` in place of `= "current"` TLC finds the trace.
* A put that passed its checks before a rotation or a registration makes the package
  usable again after it. `sourceEpoch` is stored and never compared.
* A registration that read the row before another one committed, and asks for the key it
  read, puts that key and its version back, and marks nothing: the packages
  sealed to the other key stay usable (`reverted`).
* `recovery.get` may report "recoverable" with a backup of one version and a
  package of another; a client has to compare them.
* An aborted stream is closed and not cancelled: its subscription stays, and the heartbeat
  that follows is an uncaught exception (sse.ts:94-103).
* `SseTransport` listens to one event name: a client that asks for
  "chatv3.event" does not see the hello of an automatic reconnection and needs
  the polling fallback. The reader of the model lists on both.
* After a rotation, a join with the new invite throws on the first blob of an old epoch,
  although the server has admitted the member; the client keeps the token
  (`TokenIsCurrent`), and a second join is refused as "handle already active".
  Members who were there have no call to get the new epoch's key.
* Two remints, or a join and a remint, whose replies arrive in the other order leave
  the client with a dead token (`muddled`).
* A bucket passes up to 2 * limit - 1 calls within one window's length, and a
  restart forgets all windows. The bucket prefers Authorization, the token check the
  header of the member token.
* `streamUrl` (http.ts:80-90) promises the member token in the query; with an
  AuthV2 token set, `tokens.get()` is that one.
* Cursor positions are not compared with lastSeq by the server.

## 5. The proofs

Every theorem holds for all values of the constants under the named
assumptions next to them: sentinels are not members of the sets they are
sentinels for, bounds are natural numbers, journals and sizes are functions of
the right type.

* **MessageLogProofs.** `IInv` adds to the properties: a sender past the lock
  holds it and its seq is lastSeq + 1 (`LockInv`, `PendingInv`), or the room is
  gone; calls in progress have unique numbers (`CallInv`). Without the lock
  conjunct gap-freedom is not inductive: an insert could land anywhere. From it
  follow type correctness, gap-freedom, key uniqueness, the origin of
  collisions and epochs; `SendImplementsLog` is the refinement, with the step
  lemmas `CommitRefines`, `EndRefines`, `NextRefines`; the readers' and the
  answers' properties are proved with an invariant of their own on top.
* **ChannelKeysProofs.** The invariant ties a rotation in progress to the
  tables: its snapshot contains the active keys it will revoke, the rows it
  holds are still active until it commits, and no two hold the same row. That is why
  the key of a rotation that commits is active afterwards, and why rooms covered
  by a key that is still active cannot have been moved by another rotation.
* **MembershipProofs.** Ids never change while a row exists
  (`RowsHaveIds`, `TokensNameTheirRow`), nothing is handed out for a handle
  without a row (`NoRowNoToken`), and every stored secret is minted in the step
  that stores it (`MintedBefore`). The last is why a stale write-back cannot
  revive a token: it never touches the secret.
* **PgBootstrapProofs.** Everything before the entry a host is at is recorded,
  by it or by another (`BehindIsRecorded`); so a commit extends the prefix by
  one, whoever commits. `BootstrapImplementsLevels` is the refinement. It needs
  one conjunct more, `TagsAreALevel`: there is a number such that the recorded tags are
  those below it. It follows from the tags being a prefix, but only by
  induction on the journal; carried along as an invariant it needs none, since
  a commit adds the very next entry (`CommitIsNext`).
* **HostProofs.** Invariants of its own for each part. `GateInv`: the headers are the
  ones the tokens held ask for (`HeadersInSync`), so that operations act for
  whom the client holds tokens of; and `WindowInv`: while a window is live, it has let
  through what it counted, up to the limit, and whatever older calls a span of
  `Window` ticks reaches back to are fewer than the limit. The second part is why a
  bucket passes at most 2 * limit - 1 in any such span. `ReceiptsInv`: what is
  posted was reached, and a row holds the highest position posted, which
  GREATEST keeps. `SpacesInv`: a request that lost the race has a row to find
  (`LosersHaveAWinner`), which is why the second look of ensure never comes
  back empty. `SpacesImplementDirectory` also needs `IdsInv`: every row is named after
  the request that made it and that is done, so that a new id is fresh.
* **EventFeedProofs.** A stream that will still be cancelled is on the bus, in
  the very set it will unsubscribe from (`CancellingOnBus`); so no cancel drops
  the channel's entry, or another stream, with it, and a publication reaches
  every open stream. `CaughtUp` follows and needs no more.
* **KeyRecoveryProofs.** As long as no registration of a user wrote over another, the backup
  is the newest version ever stored (`BackupIsNewest`); and what a package, a put
  or an answer names together was stored together (`OnlyStoredIsNamed`). From
  these: a version names one key, and equal versions open. `UsableFits` needs to know
  what a transaction past its snapshot will mark: a usable package that was current when it
  was stored, and is, belongs to the snapshot of every transaction that is about to replace its key or
  its secret (`SnapshotsHaveWhatFits`); and a registration that marks really replaces the
  key of the backup, unless an earlier one is put back (`MarkingReplaces`). A put
  after the snapshot is "leaving" and does not break this, which is why the window is
  part of the statement and not of the model.
* **ClientKeysProofs.** The epochs of a room have no gaps (`EpochsInOrder`),
  so that a row is written once (the lemma `RowsStay`); every pair of key id and
  secret, in a key store or in a call, is of one access key (`PairsMatch`); what a
  call has still to open exists, and its token is held or on its way
  (`CallInv`). From it: filed keys are the room's, every blob opens for
  somebody, a join that ended well can read, and a member's client has its
  token unless a reply was lost or overtaken.

Only model-checked: `SendsEnd`, `HostsComeUp` and `MessagesGetRead` (liveness
under fairness is out of the prover's reach), and the runs that end in a
violation. Every other property of every run is stated by a theorem.

## 6. The plan

Every module is modelled, checked and, for safety, proved. What is left, in
this order:

1. **Membership**: an abstract specification of a handle (absent, in, out)
   and of the token it is held with, implemented by the overlapping joins and
   remints.
2. **ChannelKeys**: the same for a channel's key ring: a room is at an epoch,
   and moves to the next under a key that is active at that moment.
3. **KeyRecovery, ClientKeys**: action properties (a version never goes down, a
   filed key is never replaced by another), which the invariants above nearly
   state.

## 7. Not modelled

The cryptography itself (which key wraps what is all the models keep); HTTP and
input validation; presence, devices and bindings, which are single upserts, inserts and
deletes in which the last one wins; the listings that only read; the generated
SQL, packaging scripts and snapshots; storage and UI helpers of the light client core.

Of the hazards in `PROJECT.json`, those without a property: the deadlock of rotate and
channel.delete is resolved inside Postgres and shows here as an aborted
rotation; purge-before is a batch of independent deletes; the 200 and 500 row
limits are arithmetic on two constants; a send without an idempotency key, and
webhook delivery, promise nothing that could be checked; the write-backs of
member.update and of an anonymous re-join are modelled as they are.

----------------------------- MODULE EventFeed -----------------------------
(***************************************************************************)
(* How a message becomes known to the readers of a channel: the in-process *)
(* event bus and the event streams of chatv3-host-plugin (sse.ts), the     *)
(* publication after a committed message.send (plugin.ts), the webhooks it *)
(* wakes (webhooks.ts), and message.list, with which a reader fetches what *)
(* a stream only announces.                                                *)
(*                                                                         *)
(* One process serves one channel.  A message is committed in one step and *)
(* published in a later one, after a read of its room; requests overlap,   *)
(* and the process may stop in between.                                    *)
(***************************************************************************)
EXTENDS Naturals, FiniteSets

CONSTANTS
  Streams,      (* event streams, each of one reader                       *)
  Requests,     (* message.send requests that may run at the same time     *)
  Hooks,        (* webhooks of the channel                                 *)
  AllHooks,     (* a dispatch that has not listed the webhooks yet         *)
  MaxSeq,       (* bound: messages sent                                    *)
  MaxRestarts,  (* bound: restarts of the process                          *)
  MaxPosts      (* bound: webhook work in flight                           *)

ASSUME HooksAssumption  == AllHooks \notin Hooks
ASSUME BoundsAssumption == {MaxSeq, MaxRestarts, MaxPosts} \subseteq Nat

Seqs == 1..MaxSeq

VARIABLES
  lastSeq,    (* messages committed in the room                            *)
  publishing, (* publishing[q]: the message q has committed and not yet    *)
              (* published, 0 if none                                      *)
  dropped,    (* messages whose publication was given up                   *)
  state,      (* state[s]: "none", "open", "closing" (close was called,    *)
              (* bytes are queued), "closed", "cancelled"                  *)
  bus,        (* streams in the set the bus holds for the channel; {} is   *)
              (* no set                                                    *)
  holds,      (* holds[s]: the set the stream's unsubscribe closes over is *)
              (* the one the bus holds                                     *)
  timer,      (* timer[s]: its heartbeat interval is set                   *)
  unread,     (* unread[s]: the reader got a hello or an event, or the     *)
              (* stream holds one for it, and has not listed since         *)
  cursor,     (* cursor[s]: the reader has the messages up to here         *)
  hooks,      (* hooks[h]: "none", or the row: "ok" if its fail counter is *)
              (* 0, "failing" otherwise                                    *)
  posts,      (* webhook deliveries in flight                              *)
  restarts    (* restarts so far                                           *)

room    == <<lastSeq, publishing, dropped>>
streams == <<state, bus, holds, timer>>
readers == <<unread, cursor>>
wake    == <<hooks, posts>>
vars    == <<room, streams, readers, wake, restarts>>

Init ==
  /\ lastSeq = 0 /\ publishing = [q \in Requests |-> 0] /\ dropped = {}
  /\ state = [s \in Streams |-> "none"]
  /\ bus = {} /\ holds = [s \in Streams |-> FALSE] /\ timer = [s \in Streams |-> FALSE]
  /\ unread = [s \in Streams |-> FALSE] /\ cursor = [s \in Streams |-> 0]
  /\ hooks = [h \in Hooks |-> "none"] /\ posts = {}
  /\ restarts = 0

-----------------------------------------------------------------------------
(* message.send commits a new message, or finds the one its idempotency    *)
(* key names and will publish that one again.                              *)
Commit(q, m) ==
  /\ publishing[q] = 0
  /\ m \in 1..lastSeq \/ (m = lastSeq + 1 /\ m \in Seqs)
  /\ lastSeq' = IF m > lastSeq THEN m ELSE lastSeq
  /\ publishing' = [publishing EXCEPT ![q] = m]
  /\ UNCHANGED <<dropped, streams, readers, wake, restarts>>

(* A subscriber that throws ends the round (a variant of Reached).         *)
Reached_StopsAtBroken ==
  IF \A s \in bus : state[s] = "open" THEN bus ELSE {}

(* The streams an event reaches: enqueue throws on a closed or closing     *)
(* stream, and the bus goes on to the next one.                            *)
Reached == {s \in bus : state[s] = "open"}

(* The send's room is read, the event goes to every subscriber, and the    *)
(* webhook dispatch starts, which nobody waits for (and may be lost).      *)
Publish(q) ==
  /\ publishing[q] # 0
  /\ publishing' = [publishing EXCEPT ![q] = 0]
  /\ unread' = [s \in Streams |-> unread[s] \/ s \in Reached]
  /\ posts' \in {posts} \cup
       IF Cardinality(posts) < MaxPosts THEN {posts \cup {AllHooks}} ELSE {}
  /\ UNCHANGED <<lastSeq, dropped, streams, cursor, hooks, restarts>>

(* The room cannot be read any more: the event is dropped and the send     *)
(* still succeeds.                                                         *)
FailPublish(q) ==
  /\ publishing[q] # 0
  /\ publishing' = [publishing EXCEPT ![q] = 0]
  /\ dropped' = dropped \cup {publishing[q]}
  /\ UNCHANGED <<lastSeq, streams, readers, wake, restarts>>

-----------------------------------------------------------------------------
(* The stream gets a set of its own, which replaces the channel's (a       *)
(* variant of SetWith).                                                    *)
SetWith_Fresh(s) == {s}

(* The channel's set with a new subscriber.                                *)
SetWith(s) == bus \cup {s}

(* A reader's request is authenticated; then, in one synchronous step, the *)
(* stream says hello, subscribes and sets its timer.  A stream that was    *)
(* closed and never cancelled stays behind under another name.             *)
Open(s) ==
  /\ state[s] = "none" \/ (state[s] = "cancelled" /\ ~timer[s])
  /\ state' = [state EXCEPT ![s] = "open"]
  /\ bus' = SetWith(s)
  /\ holds' = [x \in Streams |-> x = s \/ (holds[x] /\ x \in bus')]
  /\ timer' = [timer EXCEPT ![s] = TRUE]
  /\ unread' = [unread EXCEPT ![s] = TRUE]
  /\ UNCHANGED <<room, cursor, wake, restarts>>

(* The host aborts the request's signal: the controller is closed, at once *)
(* if the reader has taken every byte.  Subscription and timer stay.       *)
Abort(s) ==
  /\ state[s] = "open"
  /\ \E x \in {"closing", "closed"} : state' = [state EXCEPT ![s] = x]
  /\ UNCHANGED <<room, bus, holds, timer, readers, wake, restarts>>

(* The last queued byte leaves a closing stream.                           *)
Drain(s) ==
  /\ state[s] = "closing"
  /\ state' = [state EXCEPT ![s] = "closed"]
  /\ UNCHANGED <<room, bus, holds, timer, readers, wake, restarts>>

(* A second cancel runs the callback again (a variant of Cancellable).     *)
Cancellable_Again(s) == state[s] \in {"open", "closing", "cancelled"}

(* The reader goes away and the host cancels the stream, which calls back  *)
(* at most once, and not on a closed stream.                               *)
Cancellable(s) == state[s] \in {"open", "closing"}

(* Unsubscribing removes the stream from the set it closes over; the       *)
(* channel's entry goes if that set is then empty, whichever set the entry *)
(* holds by now.                                                           *)
Cancel(s) ==
  /\ Cancellable(s)
  /\ state' = [state EXCEPT ![s] = "cancelled"]
  /\ bus' = IF holds[s] THEN bus \ {s} ELSE {}
  /\ holds' = [x \in Streams |-> holds[x] /\ bus' # {}]
  /\ timer' = [timer EXCEPT ![s] = FALSE]
  /\ UNCHANGED <<room, readers, wake, restarts>>

-----------------------------------------------------------------------------
(* The messages committed and not yet published.                           *)
Unpublished == {publishing[q] : q \in {r \in Requests : publishing[r] # 0}}

(* The process stops and starts again: everything in memory is lost, what  *)
(* a request had committed stays unpublished.                              *)
Restart ==
  /\ restarts < MaxRestarts
  /\ restarts' = restarts + 1
  /\ dropped' = dropped \cup Unpublished
  /\ publishing' = [q \in Requests |-> 0]
  /\ state' = [s \in Streams |-> "none"]
  /\ bus' = {} /\ holds' = [s \in Streams |-> FALSE] /\ timer' = [s \in Streams |-> FALSE]
  /\ unread' = [s \in Streams |-> FALSE]
  /\ posts' = {}
  /\ UNCHANGED <<lastSeq, cursor, hooks>>

(* The heartbeat of a stream that does not accept bytes any more throws in *)
(* the timer's callback: an uncaught exception ends the process.           *)
Heartbeat(s) == timer[s] /\ state[s] \in {"closing", "closed"} /\ Restart

-----------------------------------------------------------------------------
(* A reader told of something lists the messages after its cursor.         *)
ListMessages(s) ==
  /\ state[s] = "open" /\ unread[s]
  /\ unread' = [unread EXCEPT ![s] = FALSE]
  /\ cursor' = [cursor EXCEPT ![s] = lastSeq]
  /\ UNCHANGED <<room, streams, wake, restarts>>

-----------------------------------------------------------------------------
(* A hook is created or removed by an administrator.                       *)
CreateHook(h) ==
  /\ hooks[h] = "none"
  /\ hooks' = [hooks EXCEPT ![h] = "ok"]
  /\ UNCHANGED <<room, streams, readers, posts, restarts>>

RemoveHook(h) ==
  /\ hooks[h] # "none"
  /\ hooks' = [hooks EXCEPT ![h] = "none"]
  /\ UNCHANGED <<room, streams, readers, posts, restarts>>

(* The dispatch lists the active hooks that want the event ...             *)
ListHooks ==
  /\ AllHooks \in posts
  /\ posts' = (posts \ {AllHooks}) \cup {h \in Hooks : hooks[h] # "none"}
  /\ UNCHANGED <<room, streams, readers, hooks, restarts>>

(* ... and each post is answered, refused or timed out, once; the outcome  *)
(* is recorded in the row, if there still is one.                          *)
Post(h) ==
  /\ h \in posts
  /\ posts' = posts \ {h}
  /\ \E outcome \in {"ok", "failing"} :
       hooks' = [hooks EXCEPT ![h] = IF @ = "none" THEN @ ELSE outcome]
  /\ UNCHANGED <<room, streams, readers, restarts>>

-----------------------------------------------------------------------------
Finish(q) == Publish(q) \/ FailPublish(q)

Sending    == \E q \in Requests : Finish(q) \/ \E m \in Seqs : Commit(q, m)
Connecting == \E s \in Streams : Open(s) \/ Abort(s) \/ Drain(s) \/ Cancel(s) \/ Heartbeat(s)
Reading    == \E s \in Streams : ListMessages(s)
Waking     == ListHooks \/ \E h \in Hooks : CreateHook(h) \/ RemoveHook(h) \/ Post(h)

Next == Sending \/ Connecting \/ Reading \/ Waking \/ Restart

(* A request that committed goes on to publish, and a reader that was told *)
(* of something lists.                                                     *)
Fairness ==
  /\ \A q \in Requests : WF_vars(Finish(q))
  /\ \A s \in Streams : WF_vars(ListMessages(s))

Spec     == Init /\ [][Next]_vars
FairSpec == Spec /\ Fairness

-----------------------------------------------------------------------------
(* The variables have their types.                                         *)
TypeOK ==
  /\ lastSeq \in 0..MaxSeq /\ publishing \in [Requests -> 0..MaxSeq] /\ dropped \subseteq Seqs
  /\ state \in [Streams -> {"none", "open", "closing", "closed", "cancelled"}]
  /\ bus \subseteq Streams /\ holds \in [Streams -> BOOLEAN] /\ timer \in [Streams -> BOOLEAN]
  /\ unread \in [Streams -> BOOLEAN] /\ cursor \in [Streams -> 0..MaxSeq]
  /\ hooks \in [Hooks -> {"none", "ok", "failing"}] /\ posts \subseteq Hooks \cup {AllHooks}
  /\ restarts \in 0..MaxRestarts

(* However streams come and go, an open one is on the bus: no unsubscribe  *)
(* takes the channel's entry, or another stream, away with it.             *)
LiveStreamsOnBus == \A s \in Streams : state[s] = "open" => s \in bus /\ holds[s]

(* A reader that has followed its stream has every message, except those   *)
(* whose request has still to publish them and those whose publication was *)
(* given up.  There is no gap between the hello and the subscription, and  *)
(* no broken stream keeps an event from the others.                        *)
CaughtUp ==
  \A s \in Streams : state[s] = "open" /\ ~unread[s] =>
    \A m \in Seqs : cursor[s] < m /\ m <= lastSeq =>
      m \in dropped \/ \E q \in Requests : publishing[q] = m

(* A committed message is read over every stream that stays open, unless   *)
(* its publication was given up.                                           *)
MessagesGetRead ==
  \A s \in Streams, m \in Seqs :
    (state[s] = "open" /\ m <= lastSeq) ~> (state[s] # "open" \/ cursor[s] >= m \/ m \in dropped)
=============================================================================

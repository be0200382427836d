-------------------------- MODULE EventFeedProofs --------------------------
(***************************************************************************)
(* Theorems about EventFeed, for any streams, requests, webhooks, messages *)
(* and restarts.  The argument: a stream that can still be cancelled is in *)
(* the set the bus holds and unsubscribes from that very set, so that no   *)
(* cancel drops the channel's entry while somebody needs it; and every     *)
(* publication reaches the open streams, because they are all in the set.  *)
(***************************************************************************)
EXTENDS EventFeed, TLAPS

(* Streams that will be cancelled when their reader goes.                  *)
Cancelling == {s \in Streams : state[s] \in {"open", "closing"}}

(* Each of them is on the bus, and unsubscribes from the set it is in.     *)
CancellingOnBus == \A s \in Cancelling : s \in bus /\ holds[s]

(* The inductive invariant.                                                *)
IInv == TypeOK /\ CancellingOnBus /\ CaughtUp

States == {"none", "open", "closing", "closed", "cancelled"}

LEMMA InvInit == Init => IInv
  <1>. SUFFICES ASSUME Init PROVE IInv OBVIOUS
  <1>1. TypeOK BY BoundsAssumption DEF Init, TypeOK
  <1>2. CancellingOnBus BY DEF Init, CancellingOnBus, Cancelling
  <1>3. CaughtUp BY DEF Init, CaughtUp
  <1>. QED BY <1>1, <1>2, <1>3 DEF IInv

(* An open stream is on the bus.                                           *)
LEMMA OpenOnBus == CancellingOnBus => LiveStreamsOnBus
  BY DEF CancellingOnBus, Cancelling, LiveStreamsOnBus

-----------------------------------------------------------------------------
(* Sending.                                                                *)

LEMMA CommitStep ==
  ASSUME IInv, NEW q \in Requests, NEW m \in Seqs, Commit(q, m)
  PROVE  IInv'
  <1>. USE DEF IInv
  <1>1. /\ lastSeq' = (IF m > lastSeq THEN m ELSE lastSeq)
        /\ publishing' = [publishing EXCEPT ![q] = m] /\ publishing[q] = 0
        /\ UNCHANGED <<dropped, state, bus, holds, timer, unread, cursor, hooks, posts, restarts>>
    BY DEF Commit, streams, readers, wake
  <1>2. m \in Nat /\ m >= 1 /\ m <= MaxSeq /\ lastSeq \in Nat /\ m <= lastSeq + 1 /\ MaxSeq \in Nat
    BY BoundsAssumption DEF Commit, TypeOK, Seqs
  <1>3. TypeOK' BY <1>1, <1>2 DEF TypeOK
  <1>4. CancellingOnBus' BY <1>1 DEF CancellingOnBus, Cancelling
  <1>5. CaughtUp'
    <2>. SUFFICES ASSUME NEW s \in Streams, state[s] = "open", ~unread[s],
                         NEW n \in Seqs, cursor[s] < n, n <= lastSeq'
                  PROVE  n \in dropped \/ \E r \in Requests : publishing'[r] = n
      BY <1>1 DEF CaughtUp
    <2>1. n \in Nat /\ n >= 1 BY DEF Seqs
    <2>2. publishing'[q] = m /\ \A r \in Requests \ {q} : publishing'[r] = publishing[r]
      BY <1>1 DEF TypeOK
    <2>3. CASE n <= lastSeq BY <1>1, <2>1, <2>2, <2>3 DEF CaughtUp
    <2>4. CASE n > lastSeq
      <3>1. n = m BY <1>1, <1>2, <2>1, <2>4
      <3>. QED BY <2>2, <3>1
    <2>. QED BY <1>2, <2>1, <2>3, <2>4
  <1>. QED BY <1>3, <1>4, <1>5

(* The event of a publication reaches every open stream.                   *)
LEMMA PublishStep ==
  ASSUME IInv, NEW q \in Requests, Publish(q)
  PROVE  IInv'
  <1>. USE DEF IInv
  <1>1. /\ publishing' = [publishing EXCEPT ![q] = 0]
        /\ unread' = [s \in Streams |-> unread[s] \/ s \in Reached]
        /\ UNCHANGED <<lastSeq, dropped, state, bus, holds, timer, cursor, hooks, restarts>>
    BY DEF Publish, streams
  <1>2. posts' \subseteq Hooks \cup {AllHooks} BY DEF Publish, TypeOK
  <1>3. unread' \in [Streams -> BOOLEAN] BY <1>1 DEF TypeOK
  <1>4. publishing' \in [Requests -> 0..MaxSeq] BY <1>1, BoundsAssumption DEF TypeOK
  <1>5. TypeOK' BY <1>1, <1>2, <1>3, <1>4 DEF TypeOK
  <1>6. CancellingOnBus' BY <1>1 DEF CancellingOnBus, Cancelling
  <1>7. \A s \in Streams : state[s] = "open" => unread'[s]
    BY <1>1 DEF Reached, CancellingOnBus, Cancelling
  <1>8. CaughtUp' BY <1>1, <1>7 DEF CaughtUp
  <1>. QED BY <1>5, <1>6, <1>8

LEMMA FailPublishStep ==
  ASSUME IInv, NEW q \in Requests, FailPublish(q)
  PROVE  IInv'
  <1>. USE DEF IInv
  <1>1. /\ publishing' = [publishing EXCEPT ![q] = 0] /\ publishing[q] # 0
        /\ dropped' = dropped \cup {publishing[q]}
        /\ UNCHANGED <<lastSeq, state, bus, holds, timer, unread, cursor, hooks, posts, restarts>>
    BY DEF FailPublish, streams, readers, wake
  <1>2. publishing[q] \in Seqs BY <1>1, BoundsAssumption DEF TypeOK, Seqs
  <1>3. TypeOK' BY <1>1, <1>2, BoundsAssumption DEF TypeOK
  <1>4. CancellingOnBus' BY <1>1 DEF CancellingOnBus, Cancelling
  <1>5. \A r \in Requests : publishing'[r] = publishing[r] \/ publishing[r] \in dropped'
    BY <1>1 DEF TypeOK
  <1>6. CaughtUp' BY <1>1, <1>5 DEF CaughtUp
  <1>. QED BY <1>3, <1>4, <1>6

-----------------------------------------------------------------------------
(* Streams.                                                                *)

LEMMA OpenStep ==
  ASSUME IInv, NEW s \in Streams, Open(s)
  PROVE  IInv'
  <1>. USE DEF IInv
  <1>1. /\ state' = [state EXCEPT ![s] = "open"] /\ bus' = bus \cup {s}
        /\ holds' = [x \in Streams |-> x = s \/ (holds[x] /\ x \in bus')]
        /\ timer' = [timer EXCEPT ![s] = TRUE] /\ unread' = [unread EXCEPT ![s] = TRUE]
        /\ UNCHANGED <<lastSeq, publishing, dropped, cursor, hooks, posts, restarts>>
    BY DEF Open, SetWith, room, wake
  <1>2. holds' \in [Streams -> BOOLEAN] BY <1>1 DEF TypeOK
  <1>3. TypeOK' BY <1>1, <1>2 DEF TypeOK
  <1>4. CancellingOnBus' BY <1>1 DEF CancellingOnBus, Cancelling, TypeOK
  <1>5. CaughtUp' BY <1>1 DEF CaughtUp, TypeOK
  <1>. QED BY <1>3, <1>4, <1>5

LEMMA CloseStep ==
  ASSUME IInv, NEW s \in Streams, Abort(s) \/ Drain(s)
  PROVE  IInv'
  <1>. USE DEF IInv
  <1>1. /\ \E x \in {"closing", "closed"} : state' = [state EXCEPT ![s] = x]
        /\ state[s] \in {"open", "closing"}
        /\ UNCHANGED <<lastSeq, publishing, dropped, bus, holds, timer, unread, cursor, hooks,
                       posts, restarts>>
    BY DEF Abort, Drain, room, readers, wake
  <1>2. TypeOK' BY <1>1 DEF TypeOK
  <1>3. CancellingOnBus' BY <1>1 DEF CancellingOnBus, Cancelling, TypeOK
  <1>4. CaughtUp' BY <1>1 DEF CaughtUp, TypeOK
  <1>. QED BY <1>2, <1>3, <1>4

(* A stream that is cancelled leaves the others their set: it held the one *)
(* the bus holds.                                                          *)
LEMMA CancelStep ==
  ASSUME IInv, NEW s \in Streams, Cancel(s)
  PROVE  IInv'
  <1>. USE DEF IInv
  <1>1. /\ state' = [state EXCEPT ![s] = "cancelled"] /\ state[s] \in {"open", "closing"}
        /\ bus' = (IF holds[s] THEN bus \ {s} ELSE {})
        /\ holds' = [x \in Streams |-> holds[x] /\ bus' # {}]
        /\ timer' = [timer EXCEPT ![s] = FALSE]
        /\ UNCHANGED <<lastSeq, publishing, dropped, unread, cursor, hooks, posts, restarts>>
    BY DEF Cancel, Cancellable, room, readers, wake
  <1>2. bus' = bus \ {s} BY <1>1 DEF CancellingOnBus, Cancelling
  <1>3. holds' \in [Streams -> BOOLEAN] BY <1>1 DEF TypeOK
  <1>4. TypeOK' BY <1>1, <1>2, <1>3 DEF TypeOK
  <1>5. CancellingOnBus'
    <2>. SUFFICES ASSUME NEW x \in Streams, state'[x] \in {"open", "closing"}
                  PROVE  x \in bus' /\ holds'[x]
      BY DEF CancellingOnBus, Cancelling
    <2>1. x # s /\ state'[x] = state[x] BY <1>1 DEF TypeOK
    <2>2. x \in bus' BY <1>2, <2>1 DEF CancellingOnBus, Cancelling
    <2>. QED BY <1>1, <2>1, <2>2 DEF CancellingOnBus, Cancelling
  <1>6. CaughtUp' BY <1>1 DEF CaughtUp, TypeOK
  <1>. QED BY <1>4, <1>5, <1>6

LEMMA RestartStep ==
  ASSUME IInv, Restart
  PROVE  IInv'
  <1>. USE DEF IInv, Restart
  <1>1. Unpublished \subseteq Seqs BY BoundsAssumption DEF Unpublished, TypeOK, Seqs
  <1>2. TypeOK' BY <1>1, BoundsAssumption DEF TypeOK
  <1>3. CancellingOnBus' BY DEF CancellingOnBus, Cancelling
  <1>4. CaughtUp' BY DEF CaughtUp
  <1>. QED BY <1>2, <1>3, <1>4

LEMMA ListStep ==
  ASSUME IInv, NEW s \in Streams, ListMessages(s)
  PROVE  IInv'
  <1>. USE DEF IInv
  <1>1. /\ unread' = [unread EXCEPT ![s] = FALSE] /\ cursor' = [cursor EXCEPT ![s] = lastSeq]
        /\ UNCHANGED <<lastSeq, publishing, dropped, state, bus, holds, timer, hooks, posts, restarts>>
    BY DEF ListMessages, room, streams, wake
  <1>2. TypeOK' BY <1>1 DEF TypeOK
  <1>3. CancellingOnBus' BY <1>1 DEF CancellingOnBus, Cancelling
  <1>4. CaughtUp'
    <2>1. \A n \in Seqs : ~(lastSeq < n /\ n <= lastSeq) BY DEF TypeOK, Seqs
    <2>. QED BY <1>1, <2>1 DEF CaughtUp, TypeOK
  <1>. QED BY <1>2, <1>3, <1>4

(* Webhooks, and stuttering, touch neither the room nor the streams.       *)
LEMMA WakeStep ==
  ASSUME IInv, Waking \/ UNCHANGED vars
  PROVE  IInv'
  <1>. USE DEF IInv
  <1>1. UNCHANGED <<lastSeq, publishing, dropped, state, bus, holds, timer, unread, cursor, restarts>>
    BY DEF Waking, ListHooks, CreateHook, RemoveHook, Post, vars, room, streams, readers
  <1>2. hooks' \in [Hooks -> {"none", "ok", "failing"}]
    <2>1. ASSUME NEW h \in Hooks, Post(h) PROVE hooks' \in [Hooks -> {"none", "ok", "failing"}]
      BY <2>1 DEF TypeOK, Post
    <2>. QED BY <2>1 DEF TypeOK, Waking, ListHooks, CreateHook, RemoveHook, vars, wake
  <1>3. posts' \subseteq Hooks \cup {AllHooks}
    BY DEF TypeOK, Waking, ListHooks, CreateHook, RemoveHook, Post, vars, wake
  <1>4. TypeOK' BY <1>1, <1>2, <1>3 DEF TypeOK
  <1>5. CancellingOnBus' BY <1>1 DEF CancellingOnBus, Cancelling
  <1>6. CaughtUp' BY <1>1 DEF CaughtUp
  <1>. QED BY <1>4, <1>5, <1>6

LEMMA InvStep == IInv /\ [Next]_vars => IInv'
  BY CommitStep, PublishStep, FailPublishStep, OpenStep, CloseStep, CancelStep, RestartStep,
     ListStep, WakeStep
  DEF Next, Sending, Finish, Connecting, Heartbeat, Reading

-----------------------------------------------------------------------------
(* The inductive invariant holds in every reachable state.                 *)
THEOREM Invariance == Spec => []IInv
  <1>. QED BY InvInit, InvStep, PTL DEF Spec

(* The variables of the event feed keep their types.                       *)
THEOREM TypeCorrect == Spec => []TypeOK
  <1>1. IInv => TypeOK BY DEF IInv
  <1>. QED BY <1>1, Invariance, PTL

(* However streams are opened, aborted, cancelled and left behind, an open *)
(* one is in the set the bus publishes to.                                 *)
THEOREM OpenStreamsAreServed == Spec => []LiveStreamsOnBus
  <1>1. IInv => LiveStreamsOnBus BY OpenOnBus DEF IInv
  <1>. QED BY <1>1, Invariance, PTL

(* A reader that listed after its last event has every message that is     *)
(* neither still to be published nor given up.                             *)
THEOREM ReadersCatchUp == Spec => []CaughtUp
  <1>1. IInv => CaughtUp BY DEF IInv
  <1>. QED BY <1>1, Invariance, PTL
=============================================================================

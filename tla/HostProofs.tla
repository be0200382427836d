----------------------------- MODULE HostProofs -----------------------------
(***************************************************************************)
(* Theorems about Host and the three modules in it, for any clients,       *)
(* tokens, windows, limits, members, posts, slugs and requests.  Each      *)
(* module has an invariant of its own, preserved by its own steps; Host's  *)
(* steps are one module's with the others at rest.                         *)
(***************************************************************************)
EXTENDS Host, FiniteSetTheorems, TLAPS

-----------------------------------------------------------------------------
(* GATE                                                                    *)

(* What a client sends is what its two tokens make it send.                *)
HeadersInSync ==
  \A c \in Clients :
    /\ bearer[c] = Bearer(member[c], access[c])
    /\ dedicated[c] = Dedicated(c, member[c], access[c])

(* The windows of a bucket.  While one is live, it has let through what it *)
(* counted, up to the limit, and its first call is older than all others;  *)
(* what is older than the window, but not older than Window ticks, is less *)
(* than the limit, because the window before it was Window ticks long and  *)
(* began with a call.  Without a live window that older part is all there  *)
(* is, and the last tick is not part of it.                                *)
WindowInv(k) ==
  LET age == entry[k].age
      all == passed[k][age]
  IN IF Live(k)
     THEN /\ all = Min({entry[k].count, Limit(k)})
          /\ \A a \in Ages : a < age => passed[k][a] < all
          /\ \A a \in Ages : a >= age => passed[k][a] < all + Limit(k)
     ELSE /\ passed[k][0] = 0
          /\ \A a \in Ages : passed[k][a] < Limit(k)

(* The inductive invariant of the gate.                                    *)
GateInv == GateTypeOK /\ HeadersInSync /\ \A k \in Buckets : WindowInv(k)

(* The smaller and the larger of two numbers.                              *)
LEMMA MinOfTwo ==
  ASSUME NEW a \in Nat, NEW b \in Nat
  PROVE  Min({a, b}) = IF a <= b THEN a ELSE b
  BY DEF Min

LEMMA MaxOfTwo ==
  ASSUME NEW a \in Nat, NEW b \in Nat
  PROVE  Max({a, b}) = IF a >= b THEN a ELSE b
  BY DEF Max

(* Ages and limits, as the assumptions on the constants give them.         *)
LEMMA LimitsArePositive ==
  /\ Window \in Nat /\ Window >= 1
  /\ \A k : Limit(k) \in Nat /\ Limit(k) >= 1
  /\ Ages \subseteq Nat /\ 0 \in Ages /\ \A a : a \in Ages <=> a \in Nat /\ a < Window
  BY LimitsAssumption DEF Limit, Ages

LEMMA GateStart == GateInit => GateInv
  <1>. SUFFICES ASSUME GateInit PROVE GateInv OBVIOUS
  <1>. USE DEF GateInit
  <1>1. GateTypeOK
    <2>1. bearer \in [Clients -> Tokens \cup {NoToken}] BY DEF Tokens
    <2>2. dedicated \in [Clients -> Tokens \cup {NoToken}] BY DEF Tokens
    <2>3. entry \in [Buckets -> [age : 0..Window, count : Nat]]
      BY LimitsArePositive DEF NoEntry
    <2>. QED BY <2>1, <2>2, <2>3, LimitsArePositive DEF GateTypeOK
  <1>2. HeadersInSync BY DEF HeadersInSync, Bearer, Dedicated
  <1>3. ASSUME NEW k \in Buckets PROVE WindowInv(k)
    BY LimitsArePositive DEF WindowInv, Live, NoEntry
  <1>. QED BY <1>1, <1>2, <1>3 DEF GateInv

(* Setting a token puts both headers in step with both tokens.             *)
LEMMA SyncStep ==
  ASSUME GateInv, NEW c \in Clients,
         NEW m \in MemberTokens \cup {NoToken}, NEW a \in AccessTokens \cup {NoToken},
         SyncHeaders(c, m, a)
  PROVE  GateInv'
  <1>. USE DEF GateInv, SyncHeaders
  <1>1. Bearer(m, a) \in Tokens \cup {NoToken} /\ Dedicated(c, m, a) \in Tokens \cup {NoToken}
    BY DEF Bearer, Dedicated, Tokens
  <1>2. GateTypeOK' BY <1>1 DEF GateTypeOK, limiter
  <1>3. HeadersInSync'
    BY DEF HeadersInSync, GateTypeOK, Bearer, Dedicated
  <1>4. \A k \in Buckets : WindowInv(k)' BY DEF WindowInv, Live, limiter
  <1>. QED BY <1>2, <1>3, <1>4

(* A bucket without a live window gets one that begins with the call.      *)
LEMMA PrunedFacts ==
  ASSUME GateTypeOK, NEW k \in Buckets, entry' = Pruned(k)
  PROVE  /\ entry' \in [Buckets -> [age : 0..Window, count : Nat]]
         /\ entry'[k] = [age |-> 0, count |-> 1]
         /\ \A x \in Buckets \ {k} :
              \/ entry'[x] = entry[x]
              \/ entry[x].age >= Window /\ entry'[x] = NoEntry
  <1>. DEFINE with == [entry EXCEPT ![k] = [age |-> 0, count |-> 1]]
  <1>1. /\ with \in [Buckets -> [age : 0..Window, count : Nat]]
        /\ with[k] = [age |-> 0, count |-> 1]
        /\ \A x \in Buckets \ {k} : with[x] = entry[x]
    BY LimitsArePositive DEF GateTypeOK
  <1>2. NoEntry \in [age : 0..Window, count : Nat] BY LimitsArePositive DEF NoEntry
  <1>3. \/ entry' = with
        \/ entry' = [x \in Buckets |-> IF with[x].age < Window THEN with[x] ELSE NoEntry]
    BY DEF Pruned
  <1>. HIDE DEF with
  <1>4. CASE entry' = with BY <1>1, <1>4
  <1>5. CASE entry' = [x \in Buckets |-> IF with[x].age < Window THEN with[x] ELSE NoEntry]
    <2>1. entry' \in [Buckets -> [age : 0..Window, count : Nat]] BY <1>1, <1>2, <1>5
    <2>2. with[k].age = 0 BY <1>1
    <2>3. entry'[k] = with[k] BY <1>5, <2>2, LimitsArePositive
    <2>4. ASSUME NEW x \in Buckets \ {k}, entry'[x] # entry[x]
          PROVE  entry[x].age >= Window /\ entry'[x] = NoEntry
      <3>1. with[x] = entry[x] /\ entry[x].age \in 0..Window BY <1>1 DEF GateTypeOK
      <3>. QED BY <1>5, <2>4, <3>1, LimitsArePositive
    <2>. QED BY <1>1, <2>1, <2>3, <2>4
  <1>. QED BY <1>3, <1>4, <1>5

(* A call in a live window is counted, and passes up to the limit.         *)
LEMMA HitLive ==
  ASSUME GateTypeOK, NEW k \in Buckets, WindowInv(k), Live(k),
         Hit(k), UNCHANGED credentials
  PROVE  /\ GateTypeOK'
         /\ \A x \in Buckets \ {k} : entry'[x] = entry[x] /\ passed'[x] = passed[x]
         /\ WindowInv(k)'
  <1>. DEFINE n == entry[k].count
              g == entry[k].age
              p == IF n <= Limit(k) THEN n + 1 ELSE n
  <1>1. n \in Nat /\ n >= 1 /\ g \in Ages /\ g \in 0..Window
    BY LimitsArePositive DEF Live, GateTypeOK
  <1>2. /\ entry' \in [Buckets -> [age : 0..Window, count : Nat]]
        /\ entry'[k].count = p /\ entry'[k].age = g
        /\ \A x \in Buckets \ {k} : entry'[x] = entry[x]
    BY <1>1, LimitsArePositive DEF Hit, Counted, GateTypeOK
  <1>3. Live(k)' BY <1>1, <1>2, LimitsArePositive DEF Live
  <1>4. passed' = IF p > Limit(k) THEN passed
                  ELSE [passed EXCEPT ![k] = [a \in Ages |-> @[a] + 1]]
    BY <1>2 DEF Hit
  <1>5. passed' \in [Buckets -> [Ages -> Nat]] BY <1>4 DEF GateTypeOK
  <1>6. \A x \in Buckets \ {k} : passed'[x] = passed[x] BY <1>4 DEF GateTypeOK
  <1>7. \A a \in Ages : passed'[k][a] = IF p > Limit(k) THEN passed[k][a] ELSE passed[k][a] + 1
    BY <1>4 DEF GateTypeOK
  <1>8. Min({n, Limit(k)}) = (IF n <= Limit(k) THEN n ELSE Limit(k))
        /\ Min({p, Limit(k)}) = (IF p <= Limit(k) THEN p ELSE Limit(k))
    BY <1>1, MinOfTwo, LimitsArePositive
  <1>9. \A a \in Ages : passed[k][a] \in Nat BY DEF GateTypeOK
  <1>10. WindowInv(k)'
    <2>1. Limit(k)' = Limit(k) BY DEF Limit
    <2>2. passed'[k][g] = Min({p, Limit(k)})
      BY <1>1, <1>7, <1>8, LimitsArePositive DEF WindowInv
    <2>3. \A a \in Ages : a < g => passed'[k][a] < passed'[k][g]
      BY <1>1, <1>7, <1>9 DEF WindowInv
    <2>4. \A a \in Ages : a >= g => passed'[k][a] < passed'[k][g] + Limit(k)
      BY <1>1, <1>7, <1>9, LimitsArePositive DEF WindowInv
    <2>. QED BY <1>2, <1>3, <2>1, <2>2, <2>3, <2>4 DEF WindowInv
  <1>11. GateTypeOK' BY <1>2, <1>5 DEF GateTypeOK, credentials
  <1>. QED BY <1>2, <1>6, <1>10, <1>11

(* A call without a live window opens one and passes; other windows may be *)
(* deleted only when they are over.                                        *)
LEMMA HitOpens ==
  ASSUME GateTypeOK, NEW k \in Buckets, WindowInv(k), ~Live(k),
         Hit(k), UNCHANGED credentials
  PROVE  /\ GateTypeOK'
         /\ \A x \in Buckets \ {k} :
              /\ passed'[x] = passed[x]
              /\ \/ entry'[x] = entry[x]
                 \/ entry[x].age >= Window /\ entry'[x] = NoEntry
         /\ WindowInv(k)'
  <1>1. entry' = Pruned(k) /\ passed' = [passed EXCEPT ![k] = [a \in Ages |-> @[a] + 1]]
    BY DEF Hit
  <1>2. passed' \in [Buckets -> [Ages -> Nat]] BY <1>1 DEF GateTypeOK
  <1>3. GateTypeOK' BY <1>1, <1>2, PrunedFacts DEF GateTypeOK, credentials
  <1>4. \A x \in Buckets \ {k} : passed'[x] = passed[x] BY <1>1 DEF GateTypeOK
  <1>5. WindowInv(k)'
    <2>1. entry'[k].age = 0 /\ entry'[k].count = 1 BY <1>1, PrunedFacts
    <2>2. Live(k)' BY <2>1, LimitsArePositive DEF Live
    <2>3. Limit(k)' = Limit(k) /\ Min({1, Limit(k)}) = 1
      BY MinOfTwo, LimitsArePositive DEF Limit
    <2>4. \A a \in Ages : passed[k][a] \in Nat /\ passed'[k][a] = passed[k][a] + 1
      BY <1>1 DEF GateTypeOK
    <2>5. passed[k][0] = 0 /\ \A a \in Ages : passed[k][a] < Limit(k) BY DEF WindowInv
    <2>. QED BY <2>1, <2>2, <2>3, <2>4, <2>5, LimitsArePositive DEF WindowInv
  <1>. QED BY <1>1, <1>3, <1>4, <1>5, PrunedFacts

(* A bucket whose window is untouched, or over and deleted, is as before.  *)
LEMMA OtherBucket ==
  ASSUME GateTypeOK, NEW k \in Buckets, WindowInv(k), passed'[k] = passed[k],
         \/ entry'[k] = entry[k]
         \/ entry[k].age >= Window /\ entry'[k] = NoEntry
  PROVE  WindowInv(k)'
  <1>. Limit(k)' = Limit(k) BY DEF Limit
  <1>1. CASE entry'[k] = entry[k] BY <1>1 DEF WindowInv, Live
  <1>2. CASE entry[k].age >= Window /\ entry'[k] = NoEntry
    <2>1. ~Live(k) BY <1>2, LimitsArePositive DEF Live, GateTypeOK
    <2>2. ~Live(k)' BY <1>2 DEF Live, NoEntry
    <2>. QED BY <2>1, <2>2 DEF WindowInv
  <1>. QED BY <1>1, <1>2

LEMMA CallStep ==
  ASSUME GateInv, NEW c \in Clients, NEW kind \in Kinds, Call(c, kind.auth)
  PROVE  GateInv'
  <1>1. RateKey(c, kind.auth) \in Buckets
    BY DEF RateKey, Principal, GateInv, GateTypeOK, Buckets, Tokens
  <1>2. PICK k \in Buckets : Hit(k) /\ UNCHANGED credentials BY <1>1 DEF Call
  <1>3. GateTypeOK' /\ WindowInv(k)' BY <1>2, HitLive, HitOpens DEF GateInv
  <1>4. ASSUME NEW x \in Buckets \ {k} PROVE WindowInv(x)'
    <2>1. /\ passed'[x] = passed[x]
          /\ entry'[x] = entry[x] \/ (entry[x].age >= Window /\ entry'[x] = NoEntry)
      BY <1>1, <1>2, HitLive, HitOpens DEF GateInv
    <2>. QED BY <2>1, OtherBucket DEF GateInv
  <1>5. HeadersInSync' BY <1>2 DEF GateInv, HeadersInSync, credentials, Dedicated
  <1>. QED BY <1>3, <1>4, <1>5 DEF GateInv

(* A tick shifts the calls of a bucket by one, and ages its window.        *)
LEMMA TickStep ==
  ASSUME GateInv, Tick
  PROVE  GateInv'
  <1>. USE DEF GateInv
  <1>1. ASSUME NEW k \in Buckets
        PROVE  /\ entry'[k].count = entry[k].count
               /\ entry'[k].age = IF entry[k].count # 0 /\ entry[k].age < Window
                                  THEN entry[k].age + 1 ELSE entry[k].age
               /\ entry'[k] \in [age : 0..Window, count : Nat]
    <2>1. entry[k] \in [age : 0..Window, count : Nat] BY DEF GateTypeOK
    <2>. QED BY <2>1, LimitsArePositive DEF Tick
  <1>2. ASSUME NEW k \in Buckets, NEW a \in Ages
        PROVE  /\ passed'[k][a] = (IF a = 0 THEN 0 ELSE passed[k][a - 1])
               /\ passed[k][a] \in Nat /\ (a # 0 => a - 1 \in Ages /\ passed[k][a - 1] \in Nat)
    <2>1. a # 0 => a - 1 \in Ages BY LimitsArePositive
    <2>. QED BY <2>1 DEF Tick, GateTypeOK
  <1>3. GateTypeOK'
    <2>1. entry' \in [Buckets -> [age : 0..Window, count : Nat]] BY <1>1 DEF Tick
    <2>2. passed' = [k \in Buckets |-> [a \in Ages |-> IF a = 0 THEN 0 ELSE passed[k][a - 1]]]
      BY DEF Tick
    <2>3. passed' \in [Buckets -> [Ages -> Nat]] BY <1>2, <2>2
    <2>. QED BY <2>1, <2>3 DEF Tick, GateTypeOK, credentials
  <1>4. HeadersInSync' BY DEF Tick, HeadersInSync, credentials, Dedicated
  <1>5. ASSUME NEW k \in Buckets PROVE WindowInv(k)'
    <2>. DEFINE n == entry[k].count
                g == entry[k].age
    <2>1. n \in Nat /\ g \in Nat /\ g <= Window /\ Limit(k)' = Limit(k) /\ WindowInv(k)
      BY LimitsArePositive DEF GateTypeOK, Limit
    <2>2. CASE Live(k) /\ g + 1 < Window
      <3>1. g \in Ages /\ g + 1 \in Ages /\ entry'[k].age = g + 1 /\ entry'[k].count = n
        BY <1>1, <2>1, <2>2, LimitsArePositive DEF Live
      <3>2. Live(k)' BY <2>2, <3>1 DEF Live
      <3>3. passed'[k][g + 1] = passed[k][g] BY <1>2, <2>1, <3>1
      <3>4. passed[k][g] \in Nat /\ passed[k][g] >= 1
        BY <1>2, <2>1, <2>2, <3>1, MinOfTwo, LimitsArePositive DEF WindowInv, Live
      <3>5. \A a \in Ages : a < g + 1 => passed'[k][a] < passed[k][g]
        BY <1>2, <2>1, <2>2, <3>4, LimitsArePositive DEF WindowInv
      <3>6. \A a \in Ages : a >= g + 1 => passed'[k][a] < passed[k][g] + Limit(k)
        BY <1>2, <2>1, <2>2, <3>4, LimitsArePositive DEF WindowInv
      <3>7. passed[k][g] = Min({n, Limit(k)}) BY <2>2, <2>1 DEF WindowInv
      <3>. QED BY <2>1, <3>1, <3>2, <3>3, <3>5, <3>6, <3>7 DEF WindowInv
    <2>3. CASE Live(k) /\ g + 1 = Window
      <3>1. ~Live(k)' BY <1>1, <2>1, <2>3, LimitsArePositive DEF Live
      <3>2. g \in Ages /\ passed[k][g] \in Nat /\ passed[k][g] <= Limit(k)
        BY <1>2, <2>1, <2>3, MinOfTwo, LimitsArePositive DEF WindowInv, Live
      <3>3. \A a \in Ages : passed'[k][a] < Limit(k)
        BY <1>2, <2>1, <2>3, <3>2, LimitsArePositive DEF WindowInv
      <3>4. passed'[k][0] = 0 BY <1>2, LimitsArePositive
      <3>. QED BY <2>1, <3>1, <3>3, <3>4 DEF WindowInv
    <2>4. CASE ~Live(k)
      <3>1. ~Live(k)' BY <1>1, <2>1, <2>4, LimitsArePositive DEF Live
      <3>2. \A a \in Ages : passed'[k][a] < Limit(k)
        BY <1>2, <2>1, <2>4, LimitsArePositive DEF WindowInv
      <3>3. passed'[k][0] = 0 BY <1>2, LimitsArePositive
      <3>. QED BY <2>1, <3>1, <3>2, <3>3 DEF WindowInv
    <2>. QED BY <2>1, <2>2, <2>3, <2>4, LimitsArePositive DEF Live
  <1>. QED BY <1>3, <1>4, <1>5

LEMMA GateStep ==
  ASSUME GateInv, GateNext
  PROVE  GateInv'
  <1>1. ASSUME NEW c \in Clients, NEW t \in MemberTokens \cup {NoToken}, SetMemberToken(c, t)
        PROVE  GateInv'
    BY <1>1, SyncStep DEF SetMemberToken, GateInv, GateTypeOK
  <1>2. ASSUME NEW c \in Clients, NEW t \in AccessTokens \cup {NoToken}, SetAccessToken(c, t)
        PROVE  GateInv'
    BY <1>2, SyncStep DEF SetAccessToken, GateInv, GateTypeOK
  <1>. QED BY <1>1, <1>2, CallStep, TickStep DEF GateNext

LEMMA GateStutter ==
  ASSUME GateInv, UNCHANGED gateVars
  PROVE  GateInv'
  BY DEF GateInv, GateTypeOK, HeadersInSync, WindowInv, Live, Limit, gateVars, credentials,
         limiter, Dedicated

(* Every operation of the catalog asks for one of four authorities.        *)
LEMMA FourAuthorities == \A kind \in Kinds : kind.auth \in {"open", "principal", "member", "admin"}
  <1>. DEFINE S == {"open", "principal", "member", "admin"}
              Fine(ops) == \A o \in ops : o.auth \in S
  <1>1. \A ids : \A auth \in S : Fine(Ops(auth, ids)) BY DEF Ops
  <1>2. \A A, B : Fine(A) /\ Fine(B) => Fine(A \cup B) OBVIOUS
  <1>3. "open" \in S /\ "principal" \in S /\ "member" \in S /\ "admin" \in S OBVIOUS
  <1>. HIDE DEF Fine, S
  <1>4. Fine(SpaceOps) /\ Fine(RoomOps) BY <1>1, <1>2, <1>3 DEF SpaceOps, RoomOps
  <1>5. Fine(ChannelOps) BY <1>1, <1>2, <1>3 DEF ChannelOps
  <1>6. /\ Fine(RecoveryOps) /\ Fine(MessageOps) /\ Fine(CursorOps) /\ Fine(PresenceOps)
        /\ Fine(WebhookOps) /\ Fine(RotateOps) /\ Fine(DeviceOps) /\ Fine(BindingOps)
    BY <1>1, <1>3 DEF RecoveryOps, MessageOps, CursorOps, PresenceOps, WebhookOps, RotateOps,
                      DeviceOps, BindingOps
  <1>7. Fine(Catalog) BY <1>2, <1>4, <1>5, <1>6 DEF Catalog
  <1>. QED BY <1>7 DEF Fine, S, Kinds

(* The gate's properties follow from its invariant.                        *)
LEMMA GateProperties == GateInv => HeadersSayWho /\ LimitsHold
  <1>. SUFFICES ASSUME GateInv PROVE HeadersSayWho /\ LimitsHold OBVIOUS
  <1>1. HeadersSayWho
    <2>. SUFFICES ASSUME NEW c \in Clients, NEW kind \in Kinds, NEW manages \in BOOLEAN
                  PROVE  Actor(c, kind, manages) \in
                           CASE kind.auth = "open" -> {NoToken}
                             [] kind.auth = "member" -> {member[c]}
                             [] kind.auth = "principal" -> {access[c]}
                             [] kind.auth = "admin" ->
                                  IF member[c] # NoToken THEN {member[c]} ELSE {access[c], NoToken}
      BY DEF HeadersSayWho
    <2>1. /\ member[c] \in MemberTokens \cup {NoToken} /\ access[c] \in AccessTokens \cup {NoToken}
          /\ bearer[c] = IF access[c] = NoToken THEN member[c] ELSE access[c]
          /\ dedicated[c] = IF access[c] = NoToken THEN NoToken ELSE member[c]
      BY DEF GateInv, GateTypeOK, HeadersInSync, Bearer, Dedicated
    <2>2. Principal(c) = access[c] BY <2>1, TokensAssumption DEF Principal
    <2>3. MemberToken(c) = member[c] BY <2>1, TokensAssumption DEF MemberToken
    <2>4. (IF BearerToken(c) \in MemberTokens THEN BearerToken(c) ELSE NoToken) = member[c]
      BY <2>1, TokensAssumption DEF BearerToken
    <2>5. CASE kind.auth = "open" BY <2>5 DEF Actor
    <2>6. CASE kind.auth = "member" BY <2>4, <2>6 DEF Actor
    <2>7. CASE kind.auth = "principal" BY <2>2, <2>7 DEF Actor
    <2>8. CASE kind.auth = "admin" BY <2>2, <2>3, <2>8 DEF Actor
    <2>. QED BY <2>5, <2>6, <2>7, <2>8, FourAuthorities
  <1>2. LimitsHold
    <2>. SUFFICES ASSUME NEW k \in Buckets
                  PROVE  /\ passed[k][Window - 1] <= 2 * Limit(k) - 1
                         /\ Live(k) => passed[k][entry[k].age] = Min({entry[k].count, Limit(k)})
      BY DEF LimitsHold
    <2>1. Window - 1 \in Ages /\ Window - 1 \in Nat BY LimitsArePositive
    <2>2. \A a \in Ages : passed[k][a] \in Nat BY DEF GateInv, GateTypeOK
    <2>3. CASE Live(k)
      <3>1. entry[k].age \in Ages /\ entry[k].count \in Nat
        BY <2>3, LimitsArePositive DEF Live, GateInv, GateTypeOK
      <3>2. passed[k][entry[k].age] = Min({entry[k].count, Limit(k)})
        BY <2>3 DEF GateInv, WindowInv
      <3>3. passed[k][entry[k].age] <= Limit(k) BY <3>1, <3>2, MinOfTwo, LimitsArePositive
      <3>4. Window - 1 >= entry[k].age BY <3>1, LimitsArePositive
      <3>5. passed[k][Window - 1] < passed[k][entry[k].age] + Limit(k)
        BY <2>1, <2>3, <3>4 DEF GateInv, WindowInv
      <3>. QED BY <2>1, <2>2, <3>1, <3>2, <3>3, <3>5, LimitsArePositive
    <2>4. CASE ~Live(k)
      <3>1. passed[k][Window - 1] < Limit(k) BY <2>1, <2>4 DEF GateInv, WindowInv
      <3>. QED BY <2>1, <2>2, <2>4, <3>1, LimitsArePositive
    <2>. QED BY <2>3, <2>4
  <1>. QED BY <1>1, <1>2

-----------------------------------------------------------------------------
(* RECEIPTS                                                                *)

(* Nothing is posted that its member had not reached.                      *)
PostsWereReached == \A x \in posts : x.seq <= at[x.by][x.field]

(* A row is what reached the server, and nothing has reached the server of *)
(* a member without one.                                                   *)
RowsAreWhatWasPosted ==
  \A m \in Members, f \in Fields :
    /\ posted[m][f] = row[m][f]
    /\ m \notin hasRow => row[m][f] = 0
    /\ posted[m][f] <= at[m][f]

(* The inductive invariant of the receipts.                                *)
ReceiptsInv == ReceiptsTypeOK /\ PostsWereReached /\ RowsAreWhatWasPosted

(* Changing one position of a table of positions.                          *)
LEMMA PositionChange ==
  ASSUME NEW t \in [Members -> [Fields -> Positions]], NEW m \in Members, NEW f \in Fields,
         NEW n \in Positions
  PROVE  /\ [t EXCEPT ![m][f] = n] \in [Members -> [Fields -> Positions]]
         /\ \A x \in Members, g \in Fields :
              [t EXCEPT ![m][f] = n][x][g] = IF x = m /\ g = f THEN n ELSE t[x][g]
  OBVIOUS

LEMMA ReceiptsStart == ReceiptsInit => ReceiptsInv
  <1>. SUFFICES ASSUME ReceiptsInit PROVE ReceiptsInv OBVIOUS
  <1>1. 0 \in Positions BY PositionAssumption DEF Positions
  <1>2. Zero \in [Members -> [Fields -> Positions]] BY <1>1 DEF Zero
  <1>3. ReceiptsTypeOK BY <1>2 DEF ReceiptsInit, ReceiptsTypeOK
  <1>4. PostsWereReached /\ RowsAreWhatWasPosted
    BY DEF ReceiptsInit, PostsWereReached, RowsAreWhatWasPosted, Zero
  <1>. QED BY <1>3, <1>4 DEF ReceiptsInv

(* A member that comes further leaves what it posted before behind it.     *)
LEMMA AdvanceStep ==
  ASSUME ReceiptsInv, NEW m \in Members, NEW f \in Fields, NEW n \in Positions, Advance(m, f, n)
  PROVE  ReceiptsInv'
  <1>. USE DEF ReceiptsInv
  <1>1. /\ at' \in [Members -> [Fields -> Positions]] /\ n > at[m][f]
        /\ \A x \in Members, g \in Fields :
             at'[x][g] = IF x = m /\ g = f THEN n ELSE at[x][g]
    BY PositionChange DEF Advance, ReceiptsTypeOK
  <1>2. \A x \in Members, g \in Fields : at[x][g] \in Nat /\ posted[x][g] \in Nat /\ n \in Nat
    BY DEF ReceiptsTypeOK, Positions
  <1>3. /\ posts' = posts \cup {[by |-> m, field |-> f, seq |-> n]}
        /\ UNCHANGED <<active, row, hasRow, posted>>
    BY DEF Advance
  <1>4. ReceiptsTypeOK' BY <1>1, <1>3 DEF ReceiptsTypeOK
  <1>5. PostsWereReached'
    <2>1. ASSUME NEW x \in posts PROVE x.seq <= at'[x.by][x.field]
      <3>1. x.by \in Members /\ x.field \in Fields /\ x.seq \in Nat
        BY DEF ReceiptsTypeOK, Positions
      <3>. QED BY <1>1, <1>2, <3>1 DEF PostsWereReached
    <2>2. n <= at'[m][f] BY <1>1, <1>2
    <2>. QED BY <1>3, <2>1, <2>2 DEF PostsWereReached
  <1>6. RowsAreWhatWasPosted' BY <1>1, <1>2, <1>3 DEF RowsAreWhatWasPosted
  <1>. QED BY <1>4, <1>5, <1>6

LEMMA PostAgainStep ==
  ASSUME ReceiptsInv, NEW m \in Members, NEW f \in Fields, NEW n \in Positions, PostAgain(m, f, n)
  PROVE  ReceiptsInv'
  <1>. USE DEF ReceiptsInv, PostAgain
  <1>1. ReceiptsTypeOK' BY DEF ReceiptsTypeOK
  <1>2. PostsWereReached' BY DEF PostsWereReached
  <1>3. RowsAreWhatWasPosted' BY DEF RowsAreWhatWasPosted
  <1>. QED BY <1>1, <1>2, <1>3

(* The upsert makes row and highest posted position the same again, and    *)
(* neither passes where the member is.                                     *)
LEMMA UpsertStep ==
  ASSUME ReceiptsInv, NEW x \in posts, Upsert(x)
  PROVE  ReceiptsInv'
  <1>. USE DEF ReceiptsInv
  <1>. DEFINE m == x.by
              f == x.field
              was == row[m][f]
              top == posted[m][f]
              new == IF m \in hasRow THEN Greatest(x) ELSE x.seq
  <1>1. m \in Members /\ f \in Fields /\ x.seq \in Positions /\ x.seq \in Nat
        /\ was \in Nat /\ was \in Positions /\ top \in Nat /\ top \in Positions
    BY DEF ReceiptsTypeOK, Positions
  <1>2. Max({was, x.seq}) \in Positions /\ Max({top, x.seq}) \in Positions
    BY <1>1, MaxOfTwo
  <1>3. new \in Positions BY <1>1, <1>2 DEF Greatest
  <1>4. Max({top, x.seq}) <= at[m][f]
    BY <1>1, MaxOfTwo DEF PostsWereReached, RowsAreWhatWasPosted
  <1>5. new = Max({top, x.seq}) BY <1>1, MaxOfTwo DEF RowsAreWhatWasPosted, Greatest
  <1>6. row' = [row EXCEPT ![m][f] = new] /\ posted' = [posted EXCEPT ![m][f] = Max({top, x.seq})]
        /\ hasRow' = hasRow \cup {m} /\ posts' = posts \ {x} /\ UNCHANGED <<active, at>>
    BY <1>1 DEF Upsert, ReceiptsTypeOK
  <1>. HIDE DEF m, f, was, top, new
  <1>7. /\ row' \in [Members -> [Fields -> Positions]]
        /\ posted' \in [Members -> [Fields -> Positions]]
        /\ \A y \in Members, g \in Fields :
             /\ row'[y][g] = IF y = m /\ g = f THEN new ELSE row[y][g]
             /\ posted'[y][g] = IF y = m /\ g = f THEN Max({top, x.seq}) ELSE posted[y][g]
    BY <1>1, <1>2, <1>3, <1>6, PositionChange DEF ReceiptsTypeOK
  <1>8. ReceiptsTypeOK' BY <1>1, <1>6, <1>7 DEF ReceiptsTypeOK
  <1>9. PostsWereReached' BY <1>6 DEF PostsWereReached
  <1>10. RowsAreWhatWasPosted'
    <2>. SUFFICES ASSUME NEW y \in Members, NEW g \in Fields
                  PROVE  /\ posted'[y][g] = row'[y][g]
                         /\ y \notin hasRow' => row'[y][g] = 0
                         /\ posted'[y][g] <= at'[y][g]
      BY DEF RowsAreWhatWasPosted
    <2>1. CASE y = m /\ g = f BY <1>4, <1>5, <1>6, <1>7, <2>1
    <2>2. CASE y # m BY <1>6, <1>7, <2>2 DEF RowsAreWhatWasPosted
    <2>3. CASE y = m /\ g # f
      BY <1>6, <1>7, <2>3 DEF RowsAreWhatWasPosted
    <2>. QED BY <2>1, <2>2, <2>3
  <1>. QED BY <1>8, <1>9, <1>10

LEMMA ReceiptsStep ==
  ASSUME ReceiptsInv, ReceiptsNext
  PROVE  ReceiptsInv'
  <1>1. ASSUME NEW x \in posts, Lose(x) PROVE ReceiptsInv'
    BY <1>1 DEF ReceiptsInv, ReceiptsTypeOK, PostsWereReached, RowsAreWhatWasPosted, Lose
  <1>2. ASSUME NEW m \in Members, SetActive(m) PROVE ReceiptsInv'
    BY <1>2 DEF ReceiptsInv, ReceiptsTypeOK, PostsWereReached, RowsAreWhatWasPosted, SetActive
  <1>. QED BY <1>1, <1>2, AdvanceStep, PostAgainStep, UpsertStep DEF ReceiptsNext

LEMMA ReceiptsStutter ==
  ASSUME ReceiptsInv, UNCHANGED receiptVars
  PROVE  ReceiptsInv'
  BY DEF ReceiptsInv, ReceiptsTypeOK, PostsWereReached, RowsAreWhatWasPosted, receiptVars

(* A receipt is the highest position posted, which its member had reached. *)
LEMMA ReceiptsProperty == ReceiptsInv => ReceiptsAreTrue
  <1>. SUFFICES ASSUME ReceiptsInv PROVE ReceiptsAreTrue OBVIOUS
  <1>1. \A m \in Members, f \in Fields : Receipt(m, f) = posted[m][f]
    BY DEF ReceiptsInv, RowsAreWhatWasPosted, Receipt
  <1>2. ASSUME NEW n \in Positions, BlueTick(n), NEW m \in active PROVE at[m][Read] >= n
    <2>1. m \in Members /\ Read \in Fields /\ posted[m][Read] \in Nat /\ at[m][Read] \in Nat /\ n \in Nat
      BY FieldsAssumption DEF ReceiptsInv, ReceiptsTypeOK, Positions
    <2>2. Receipt(m, Read) >= n BY <1>2 DEF BlueTick, Listed
    <2>. QED BY <1>1, <2>1, <2>2 DEF ReceiptsInv, RowsAreWhatWasPosted
  <1>. QED BY <1>1, <1>2 DEF ReceiptsAreTrue

-----------------------------------------------------------------------------
(* SPACES                                                                  *)

(* A request that has lost the race for its slug is an ensure, and there   *)
(* is a winner for it to find: no operation deletes a space.               *)
LosersHaveAWinner == \A x \in asks : x.step = "winner" => x.does = "ensure" /\ space[x.slug] # NoSpace

(* The inductive invariant of the spaces.  Requests are numbered by their  *)
(* count, so that the count has to be a number.                            *)
SpacesInv == SpacesTypeOK /\ IsFiniteSet(asks) /\ LosersHaveAWinner /\ EnsureFindsTheSpace

Steps == {"find", "insert", "winner", "done"}

LEMMA SpacesStart == SpacesInit => SpacesInv
  BY FS_EmptySet, AsksAssumption
  DEF SpacesInit, SpacesInv, SpacesTypeOK, LosersHaveAWinner, EnsureFindsTheSpace, Ids

(* A request goes to another step.                                         *)
LEMMA GotoFacts ==
  ASSUME SpacesInv, NEW x \in asks, NEW step \in Steps, Goto(x, step),
         step = "winner" => x.does = "ensure" /\ space[x.slug] # NoSpace
  PROVE  /\ asks' \subseteq [id : Ids, does : {"create", "ensure"}, slug : Slugs, step : Steps]
         /\ IsFiniteSet(asks')
         /\ \A y \in asks' : y.step = "winner" => y.does = "ensure" /\ space[y.slug] # NoSpace
  <1>. DEFINE new == [x EXCEPT !.step = step]
  <1>1. asks' = (asks \ {x}) \cup {new} BY DEF Goto
  <1>2. x \in [id : Ids, does : {"create", "ensure"}, slug : Slugs, step : Steps]
    BY DEF SpacesInv, SpacesTypeOK, Steps
  <1>3. /\ new \in [id : Ids, does : {"create", "ensure"}, slug : Slugs, step : Steps]
        /\ new.step = step /\ new.does = x.does /\ new.slug = x.slug
    BY <1>2
  <1>. HIDE DEF new
  <1>4. IsFiniteSet(asks \ {x}) BY FS_RemoveElement DEF SpacesInv
  <1>5. IsFiniteSet(asks') BY <1>1, <1>4, FS_AddElement
  <1>6. asks' \subseteq [id : Ids, does : {"create", "ensure"}, slug : Slugs, step : Steps]
    BY <1>1, <1>3 DEF SpacesInv, SpacesTypeOK, Steps
  <1>7. \A y \in asks' : y.step = "winner" => y.does = "ensure" /\ space[y.slug] # NoSpace
    BY <1>1, <1>3 DEF SpacesInv, LosersHaveAWinner
  <1>. QED BY <1>5, <1>6, <1>7

(* A request goes on and nothing else changes.                             *)
LEMMA GotoStep ==
  ASSUME SpacesInv, NEW x \in asks, NEW step \in Steps, Goto(x, step),
         step = "winner" => x.does = "ensure" /\ space[x.slug] # NoSpace,
         UNCHANGED <<space, archived, answers>>
  PROVE  SpacesInv'
  <1>1. SpacesTypeOK' BY GotoFacts DEF SpacesInv, SpacesTypeOK, Steps
  <1>2. LosersHaveAWinner' BY GotoFacts DEF LosersHaveAWinner
  <1>3. EnsureFindsTheSpace' BY DEF SpacesInv, EnsureFindsTheSpace
  <1>. QED BY <1>1, <1>2, <1>3, GotoFacts DEF SpacesInv

(* A request is answered with the space of its slug, or, a create, with    *)
(* the conflict.                                                           *)
LEMMA ReplyStep ==
  ASSUME SpacesInv, NEW x \in asks, NEW answer \in Ids \cup {Conflict}, Reply(x, answer),
         space[x.slug] # NoSpace,
         answer = space[x.slug] \/ (x.does = "create" /\ answer = Conflict),
         UNCHANGED <<space, archived>>
  PROVE  SpacesInv'
  <1>. DEFINE new == [does |-> x.does, slug |-> x.slug, answer |-> answer]
  <1>1. Goto(x, "done") /\ answers' = answers \cup {new} BY DEF Reply
  <1>2. x.does \in {"create", "ensure"} /\ x.slug \in Slugs BY DEF SpacesInv, SpacesTypeOK
  <1>3. SpacesTypeOK'
    BY <1>1, <1>2, GotoFacts DEF SpacesInv, SpacesTypeOK, Steps
  <1>4. LosersHaveAWinner' BY <1>1, GotoFacts DEF LosersHaveAWinner, Steps
  <1>5. EnsureFindsTheSpace' BY <1>1 DEF SpacesInv, EnsureFindsTheSpace
  <1>6. IsFiniteSet(asks') BY <1>1, GotoFacts DEF Steps
  <1>. QED BY <1>3, <1>4, <1>5, <1>6 DEF SpacesInv

LEMMA AskStep ==
  ASSUME SpacesInv, NEW does \in {"create", "ensure"}, NEW g \in Slugs, Ask(does, g)
  PROVE  SpacesInv'
  <1>. DEFINE new == [id |-> Cardinality(asks) + 1, does |-> does, slug |-> g,
                      step |-> IF does = "ensure" THEN "find" ELSE "insert"]
  <1>1. asks' = asks \cup {new} /\ UNCHANGED <<space, archived, answers>> BY DEF Ask
  <1>2. Cardinality(asks) + 1 \in Ids
    BY FS_CardinalityType, AsksAssumption DEF SpacesInv, Ask, Ids
  <1>3. new \in [id : Ids, does : {"create", "ensure"}, slug : Slugs, step : Steps]
        /\ new.step # "winner"
    BY <1>2 DEF Steps
  <1>. HIDE DEF new
  <1>4. SpacesTypeOK' BY <1>1, <1>3 DEF SpacesInv, SpacesTypeOK, Steps
  <1>5. IsFiniteSet(asks') BY <1>1, FS_AddElement DEF SpacesInv
  <1>6. LosersHaveAWinner' BY <1>1, <1>3 DEF SpacesInv, LosersHaveAWinner
  <1>7. EnsureFindsTheSpace' BY <1>1 DEF SpacesInv, EnsureFindsTheSpace
  <1>. QED BY <1>4, <1>5, <1>6, <1>7 DEF SpacesInv

(* The insert of a new space: nobody had been answered for its slug.       *)
LEMMA InsertStep ==
  ASSUME SpacesInv, NEW x \in asks, Insert(x)
  PROVE  SpacesInv'
  <1>1. x.slug \in Slugs /\ x.id \in Ids /\ x.does \in {"create", "ensure"}
    BY DEF SpacesInv, SpacesTypeOK
  <1>2. CASE space[x.slug] # NoSpace
    <2>1. Collide(x) /\ UNCHANGED <<space, archived>> BY <1>2 DEF Insert
    <2>2. CASE x.does = "ensure"
      BY <1>2, <2>1, <2>2, GotoStep DEF Collide, Steps
    <2>3. CASE x.does = "create"
      BY <1>2, <2>1, <2>3, ReplyStep DEF Collide
    <2>. QED BY <1>1, <2>2, <2>3
  <1>3. CASE space[x.slug] = NoSpace
    <2>. DEFINE new == [does |-> x.does, slug |-> x.slug, answer |-> x.id]
    <2>1. /\ space' = [space EXCEPT ![x.slug] = x.id] /\ UNCHANGED archived
          /\ Goto(x, "done") /\ answers' = answers \cup {new}
      BY <1>3 DEF Insert, Reply
    <2>2. /\ space' \in [Slugs -> Ids \cup {NoSpace}] /\ space'[x.slug] = x.id /\ x.id # NoSpace
          /\ \A g \in Slugs : g # x.slug => space'[g] = space[g]
      BY <1>1, <2>1 DEF SpacesInv, SpacesTypeOK, Ids, NoSpace
    <2>3. SpacesTypeOK'
      BY <1>1, <2>1, <2>2, GotoFacts DEF SpacesInv, SpacesTypeOK, Steps
    <2>4. LosersHaveAWinner'
      <3>1. \A y \in asks' : y.slug \in Slugs /\ (y.step = "winner" => y.does = "ensure" /\ space[y.slug] # NoSpace)
        BY <2>1, GotoFacts DEF Steps
      <3>. QED BY <2>2, <3>1 DEF LosersHaveAWinner
    <2>5. EnsureFindsTheSpace'
      <3>1. \A y \in answers : y.slug \in Slugs /\ y.slug # x.slug
        BY <1>3 DEF SpacesInv, SpacesTypeOK, EnsureFindsTheSpace
      <3>2. \A y \in answers : /\ y.answer = space'[y.slug] \/ (y.does = "create" /\ y.answer = Conflict)
                               /\ space'[y.slug] # NoSpace
        BY <2>2, <3>1 DEF SpacesInv, EnsureFindsTheSpace
      <3>. QED BY <2>1, <2>2, <3>2 DEF EnsureFindsTheSpace
    <2>6. IsFiniteSet(asks') BY <2>1, GotoFacts DEF Steps
    <2>. QED BY <2>3, <2>4, <2>5, <2>6 DEF SpacesInv
  <1>. QED BY <1>2, <1>3

LEMMA SpacesStep ==
  ASSUME SpacesInv, SpacesNext
  PROVE  SpacesInv'
  <1>1. ASSUME NEW x \in asks, Find(x) PROVE SpacesInv'
    <2>1. x.slug \in Slugs /\ space[x.slug] \in Ids \cup {NoSpace} BY DEF SpacesInv, SpacesTypeOK
    <2>2. CASE space[x.slug] # NoSpace
      BY <1>1, <2>1, <2>2, ReplyStep DEF Find
    <2>3. CASE space[x.slug] = NoSpace
      BY <1>1, <2>3, GotoStep DEF Find, Steps
    <2>. QED BY <2>2, <2>3
  <1>2. ASSUME NEW x \in asks, FindWinner(x) PROVE SpacesInv'
    <2>1. x.slug \in Slugs /\ space[x.slug] \in Ids \cup {NoSpace} /\ space[x.slug] # NoSpace
      BY <1>2 DEF SpacesInv, SpacesTypeOK, LosersHaveAWinner, FindWinner
    <2>. QED BY <1>2, <2>1, ReplyStep DEF FindWinner
  <1>3. ASSUME NEW x \in asks, Break(x) PROVE SpacesInv'
    BY <1>3, GotoStep DEF Break, Steps
  <1>4. ASSUME NEW g \in Slugs, ArchiveSpace(g) PROVE SpacesInv'
    BY <1>4 DEF ArchiveSpace, SpacesInv, SpacesTypeOK, LosersHaveAWinner, EnsureFindsTheSpace
  <1>. QED BY <1>1, <1>2, <1>3, <1>4, AskStep, InsertStep DEF SpacesNext

LEMMA SpacesStutter ==
  ASSUME SpacesInv, UNCHANGED spaceVars
  PROVE  SpacesInv'
  BY DEF SpacesInv, SpacesTypeOK, LosersHaveAWinner, EnsureFindsTheSpace, spaceVars

(* Requests are told apart by their numbers, up to their count; a space is *)
(* named by the number of a request that is done; and only an ensure looks *)
(* for a space first.                                                      *)
IdsInv ==
  /\ \A x \in asks : x.id <= Cardinality(asks) /\ (x.step = "find" => x.does = "ensure")
  /\ \A x, y \in asks : x.id = y.id => x = y
  /\ \A g \in Slugs : /\ space[g] <= Cardinality(asks)
                      /\ \A x \in asks : x.step # "done" => space[g] # x.id

LEMMA IdsStart == SpacesInit => IdsInv
  BY FS_EmptySet DEF SpacesInit, IdsInv, NoSpace

(* A request that goes on keeps its number.                                *)
LEMMA GotoIds ==
  ASSUME SpacesInv, IdsInv, NEW x \in asks, NEW step \in Steps \ {"find"}, Goto(x, step)
  PROVE  /\ Cardinality(asks') = Cardinality(asks)
         /\ \A y \in asks' : y.id <= Cardinality(asks) /\ (y.step = "find" => y.does = "ensure")
         /\ \A y, z \in asks' : y.id = z.id => y = z
         /\ \A y \in asks' : y \in asks \ {x} \/ (y.id = x.id /\ y.step = step)
  <1>. DEFINE new == [x EXCEPT !.step = step]
              rest == asks \ {x}
  <1>1. asks' = rest \cup {new} BY DEF Goto
  <1>2. new.id = x.id /\ new.step = step BY DEF SpacesInv, SpacesTypeOK
  <1>. HIDE DEF new
  <1>3. \A y \in rest : y.id # x.id BY DEF IdsInv
  <1>4. new \notin rest BY <1>2, <1>3
  <1>5. /\ IsFiniteSet(rest) /\ Cardinality(rest) = Cardinality(asks) - 1
        /\ Cardinality(asks) \in Nat
    BY FS_RemoveElement, FS_CardinalityType DEF SpacesInv
  <1>6. Cardinality(rest \cup {new}) = Cardinality(rest) + 1 BY <1>4, <1>5, FS_AddElement
  <1>7. Cardinality(asks') = Cardinality(asks) BY <1>1, <1>5, <1>6
  <1>8. \A y \in asks' : y \in rest \/ (y.id = x.id /\ y.step = step) BY <1>1, <1>2
  <1>9. \A y \in asks' : y.id <= Cardinality(asks) /\ (y.step = "find" => y.does = "ensure")
    BY <1>8 DEF IdsInv
  <1>10. \A y, z \in asks' : y.id = z.id => y = z
    BY <1>1, <1>2, <1>3 DEF IdsInv
  <1>. QED BY <1>7, <1>8, <1>9, <1>10

(* The same when no space is made.                                         *)
LEMMA GotoKeepsIds ==
  ASSUME SpacesInv, IdsInv, NEW x \in asks, x.step # "done", NEW step \in Steps \ {"find"},
         Goto(x, step), UNCHANGED space
  PROVE  IdsInv'
  <1>1. ASSUME NEW g \in Slugs, NEW y \in asks', y.step # "done" PROVE space'[g] # y.id
    BY <1>1, GotoIds DEF IdsInv
  <1>2. \A g \in Slugs : space'[g] <= Cardinality(asks') BY GotoIds DEF IdsInv
  <1>3. \A y \in asks' : y.id <= Cardinality(asks') BY GotoIds
  <1>. QED BY <1>1, <1>2, <1>3, GotoIds DEF IdsInv

LEMMA IdsStep ==
  ASSUME SpacesInv, IdsInv, SpacesNext
  PROVE  IdsInv'
  <1>1. ASSUME NEW does \in {"create", "ensure"}, NEW g \in Slugs, Ask(does, g) PROVE IdsInv'
    <2>. DEFINE n == Cardinality(asks)
                new == [id |-> n + 1, does |-> does, slug |-> g,
                        step |-> IF does = "ensure" THEN "find" ELSE "insert"]
    <2>1. asks' = asks \cup {new} /\ UNCHANGED space BY <1>1 DEF Ask
    <2>2. n \in Nat BY FS_CardinalityType DEF SpacesInv
    <2>3. new.id = n + 1 /\ (new.step = "find" => new.does = "ensure") OBVIOUS
    <2>. HIDE DEF new
    <2>4. \A x \in asks : x.id \in Nat /\ x.id <= n BY DEF IdsInv, SpacesInv, SpacesTypeOK, Ids
    <2>5. new \notin asks BY <2>2, <2>3, <2>4
    <2>6. Cardinality(asks') = n + 1 BY <2>1, <2>5, FS_AddElement DEF SpacesInv
    <2>. HIDE DEF n
    <2>7. \A x \in asks' : x.id <= n + 1 /\ (x.step = "find" => x.does = "ensure")
      BY <2>1, <2>2, <2>3, <2>4 DEF IdsInv
    <2>8. \A x, y \in asks' : x.id = y.id => x = y
      BY <2>1, <2>2, <2>3, <2>4 DEF IdsInv
    <2>9. \A h \in Slugs : space[h] \in Nat /\ space[h] <= n
      BY DEF IdsInv, SpacesInv, SpacesTypeOK, Ids, NoSpace, n
    <2>10. \A h \in Slugs, x \in asks' : x.step # "done" => space[h] # x.id
      BY <2>1, <2>2, <2>3, <2>9 DEF IdsInv
    <2>11. \A h \in Slugs : space[h] <= n + 1 BY <2>2, <2>9
    <2>. QED BY <2>1, <2>6, <2>7, <2>8, <2>10, <2>11 DEF IdsInv
  <1>2. ASSUME NEW x \in asks, Insert(x), space[x.slug] = NoSpace PROVE IdsInv'
    <2>1. /\ space' = [space EXCEPT ![x.slug] = x.id] /\ Goto(x, "done") /\ x.step = "insert"
      BY <1>2 DEF Insert, Reply
    <2>2. "done" \in Steps \ {"find"} BY DEF Steps
    <2>3. \A g \in Slugs : space'[g] = space[g] \/ space'[g] = x.id
      BY <2>1 DEF SpacesInv, SpacesTypeOK
    <2>4. \A g \in Slugs : space'[g] <= Cardinality(asks')
      BY <2>1, <2>2, <2>3, GotoIds DEF IdsInv
    <2>5. \A y \in asks' : y.step # "done" => y \in asks \ {x}
      BY <2>1, <2>2, GotoIds
    <2>6. \A g \in Slugs, y \in asks' : y.step # "done" => space'[g] # y.id
      BY <2>3, <2>5 DEF IdsInv
    <2>7. \A y \in asks' : y.id <= Cardinality(asks') BY <2>1, <2>2, GotoIds
    <2>. QED BY <2>1, <2>2, <2>4, <2>6, <2>7, GotoIds DEF IdsInv
  <1>3. ASSUME NEW x \in asks, Insert(x), space[x.slug] # NoSpace PROVE IdsInv'
    <2>1. x.step # "done" /\ UNCHANGED space BY <1>3 DEF Insert
    <2>2. Goto(x, "winner") \/ Goto(x, "done") BY <1>3 DEF Insert, Collide, Reply
    <2>. QED BY <2>1, <2>2, GotoKeepsIds DEF Steps
  <1>4. ASSUME NEW x \in asks, Find(x) PROVE IdsInv'
    <2>1. x.step # "done" /\ UNCHANGED space BY <1>4 DEF Find
    <2>2. Goto(x, "insert") \/ Goto(x, "done") BY <1>4 DEF Find, Reply
    <2>. QED BY <2>1, <2>2, GotoKeepsIds DEF Steps
  <1>5. ASSUME NEW x \in asks, FindWinner(x) \/ Break(x) PROVE IdsInv'
    <2>1. x.step # "done" /\ UNCHANGED space /\ Goto(x, "done")
      BY <1>5 DEF FindWinner, Break, Reply
    <2>. QED BY <2>1, GotoKeepsIds DEF Steps
  <1>6. ASSUME NEW g \in Slugs, ArchiveSpace(g) PROVE IdsInv'
    BY <1>6 DEF ArchiveSpace, IdsInv
  <1>. QED BY <1>1, <1>2, <1>3, <1>4, <1>5, <1>6 DEF SpacesNext

LEMMA IdsStutter ==
  ASSUME IdsInv, UNCHANGED spaceVars
  PROVE  IdsInv'
  BY DEF IdsInv, spaceVars

(* Every step of a request is a step of the directory or leaves it alone:  *)
(* an insert makes the space of a slug, and every other reply gives it, or *)
(* refuses.                                                                *)
LEMMA SpacesRefine ==
  ASSUME SpacesInv, IdsInv, SpacesNext
  PROVE  [Directory!Next]_(Directory!vars)
  <1>. USE DEF Directory!Tell
  <1>0. \A x \in asks : x.slug \in Slugs /\ x.id \in Ids /\ x.does \in {"create", "ensure"}
    BY DEF SpacesInv, SpacesTypeOK
  <1>1. ASSUME NEW does \in {"create", "ensure"}, NEW g \in Slugs, Ask(does, g)
        PROVE  UNCHANGED Directory!vars
    BY <1>1 DEF Ask, Directory!vars
  <1>2. ASSUME NEW x \in asks, Insert(x), space[x.slug] = NoSpace
        PROVE  Directory!Make(x.does, x.slug)
    <2>1. x.id \notin {space[h] : h \in Slugs} BY <1>2 DEF IdsInv, Insert
    <2>. QED BY <1>0, <1>2, <2>1 DEF Insert, Reply, Directory!Make
  <1>3. ASSUME NEW x \in asks, Insert(x), space[x.slug] # NoSpace
        PROVE  Directory!Refuse(x.slug) \/ UNCHANGED Directory!vars
    BY <1>0, <1>3 DEF Insert, Collide, Reply, Directory!Refuse, Directory!vars
  <1>4. ASSUME NEW x \in asks, Find(x)
        PROVE  Directory!Give(x.slug) \/ UNCHANGED Directory!vars
    BY <1>4 DEF Find, Reply, IdsInv, Directory!Give, Directory!vars
  <1>5. ASSUME NEW x \in asks, FindWinner(x)
        PROVE  Directory!Give(x.slug)
    <2>1. space[x.slug] # NoSpace /\ x.does = "ensure"
      BY <1>5 DEF SpacesInv, LosersHaveAWinner, FindWinner
    <2>. QED BY <1>5, <2>1 DEF FindWinner, Reply, Directory!Give
  <1>6. ASSUME NEW x \in asks, Break(x) PROVE UNCHANGED Directory!vars
    BY <1>6 DEF Break, Directory!vars
  <1>7. ASSUME NEW g \in Slugs, ArchiveSpace(g) PROVE UNCHANGED Directory!vars
    BY <1>7 DEF ArchiveSpace, Directory!vars
  <1>. QED BY <1>0, <1>1, <1>2, <1>3, <1>4, <1>5, <1>6, <1>7 DEF SpacesNext, Directory!Next

-----------------------------------------------------------------------------
(* HOST                                                                    *)

(* The invariants of the parts hold in every reachable state: a step       *)
(* of one part leaves the others as they are.                              *)
IInv == GateInv /\ ReceiptsInv /\ SpacesInv /\ IdsInv

THEOREM Invariance == Spec => []IInv
  <1>1. Init => IInv BY GateStart, ReceiptsStart, SpacesStart, IdsStart DEF Init, IInv
  <1>2. ASSUME IInv, [Next]_vars PROVE IInv'
    <2>. USE <1>2 DEF IInv
    <2>1. CASE GateNext /\ UNCHANGED <<receiptVars, spaceVars>>
      BY <2>1, GateStep, ReceiptsStutter, SpacesStutter, IdsStutter
    <2>2. CASE ReceiptsNext /\ UNCHANGED <<gateVars, spaceVars>>
      BY <2>2, GateStutter, ReceiptsStep, SpacesStutter, IdsStutter
    <2>3. CASE SpacesNext /\ UNCHANGED <<gateVars, receiptVars>>
      BY <2>3, GateStutter, ReceiptsStutter, SpacesStep, IdsStep
    <2>4. CASE UNCHANGED vars
      BY <2>4, GateStutter, ReceiptsStutter, SpacesStutter, IdsStutter DEF vars
    <2>. QED BY <2>1, <2>2, <2>3, <2>4 DEF Next
  <1>. QED BY <1>1, <1>2, PTL DEF Spec

(* The variables of gate, receipts and spaces keep their types.            *)
THEOREM TypeCorrect == Spec => []TypeOK
  <1>1. IInv => TypeOK BY DEF IInv, GateInv, ReceiptsInv, SpacesInv, TypeOK
  <1>. QED BY <1>1, Invariance, PTL

(* Whatever tokens a client sets and clears, in whatever order, every      *)
(* operation of the catalog acts for whom it holds a token of.             *)
THEOREM CallersAreWhoTheyHoldTokensOf == Spec => []HeadersSayWho
  <1>1. IInv => HeadersSayWho BY GateProperties DEF IInv
  <1>. QED BY <1>1, Invariance, PTL

(* For any window, limit and bound on entries: no bucket lets through      *)
(* twice its limit within a window's length, and no live window refuses a  *)
(* call below its limit.                                                   *)
THEOREM RateIsLimited == Spec => []LimitsHold
  <1>1. IInv => LimitsHold BY GateProperties DEF IInv
  <1>. QED BY <1>1, Invariance, PTL

(* However posts are overtaken and lost, and members come and go, a blue   *)
(* tick means that every active member has read the message.               *)
THEOREM BlueTicksAreTrue == Spec => []ReceiptsAreTrue
  <1>1. IInv => ReceiptsAreTrue BY ReceiptsProperty DEF IInv
  <1>. QED BY <1>1, Invariance, PTL

(* However creates and ensures of a slug overlap, they agree on its space. *)
THEOREM EnsuresAgree == Spec => []EnsureFindsTheSpace
  <1>1. IInv => EnsureFindsTheSpace BY DEF IInv, SpacesInv
  <1>. QED BY <1>1, Invariance, PTL

(* Creates and ensures, statement by statement and next to everything else *)
(* the host does, implement a directory in which each happens at once.     *)
THEOREM SpacesImplementDirectory == Spec => DirectorySpec
  <1>1. Init => Directory!Init BY DEF Init, SpacesInit, Directory!Init
  <1>2. ASSUME IInv, [Next]_vars PROVE [Directory!Next]_(Directory!vars)
    <2>1. CASE SpacesNext BY <1>2, <2>1, SpacesRefine DEF IInv
    <2>2. CASE UNCHANGED spaceVars BY <2>2 DEF spaceVars, Directory!vars
    <2>. QED BY <1>2, <2>1, <2>2 DEF Next, vars
  <1>. QED BY <1>1, <1>2, Invariance, PTL DEF Spec, DirectorySpec, Directory!Spec
=============================================================================

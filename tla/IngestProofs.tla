------------------------------ MODULE IngestProofs ------------------------------
(***************************************************************************)
(* What Ingest guarantees for every set of nodes and messages: the bound   *)
(* of the limiter, however the connections of the bridge are interleaved,  *)
(* lost and made again; the names the updates carry, and their order; and  *)
(* what the mesh says of a platform.                                       *)
(***************************************************************************)
EXTENDS Ingest, TLAPS

LimiterType ==
  /\ now \in Nat
  /\ buckets \in [Node -> [tokens : Nat, last_check : Nat]]
  /\ granted \in [Node -> Seq(Nat)]

\* A bucket is within its capacity, and nothing was granted after its last check.
Settled ==
  Limited => \A n \in Node :
    /\ buckets[n].tokens <= Capacity
    /\ buckets[n].last_check <= now
    /\ \A i \in DOMAIN granted[n] : granted[n][i] <= buckets[n].last_check

\* What was granted since a grant, and what is left, comes from the burst and
\* from what was earned since.
Paid ==
  Limited =>
    \A n \in Node : \A i \in DOMAIN granted[n] :
      (Len(granted[n]) - i + 1) * OneToken + buckets[n].tokens
        <= Capacity + (buckets[n].last_check - granted[n][i]) * Refill

LimiterInv == LimiterType /\ Settled /\ Paid /\ WindowBound

-----------------------------------------------------------------------------

LEMMA CapacityNat == Capacity \in Nat
  BY LimiterAssumption DEF Capacity

LEMMA Earned ==
  ASSUME NEW a \in Int, NEW b \in Int, NEW c \in Int, NEW r \in Int
  PROVE  (a - b) * r + (b - c) * r = (a - c) * r
  OBVIOUS

LEMMA OneMore ==
  ASSUME NEW k \in Int, NEW t \in Int
  PROVE  (k + 1) * t = k * t + t
  OBVIOUS

\* What a check finds in a bucket.
LEMMA FilledType ==
  ASSUME LimiterType, Settled, Limited, NEW n \in Node
  PROVE  /\ Filled(n) \in Nat
         /\ Filled(n) <= Capacity
         /\ Filled(n) <= buckets[n].tokens + (now - buckets[n].last_check) * Refill
<1>1. /\ buckets[n].tokens \in Nat /\ buckets[n].last_check \in Nat /\ now \in Nat
      /\ now - buckets[n].last_check \in Nat /\ Refill \in Nat
  BY LimiterAssumption DEF LimiterType, Settled
<1>2. (now - buckets[n].last_check) * Refill \in Nat
  BY <1>1
<1>3. QED
  BY <1>1, <1>2, CapacityNat DEF Filled, Lesser

LEMMA LimiterInitially == LimiterInit => LimiterInv
<1> SUFFICES ASSUME LimiterInit PROVE LimiterInv
  OBVIOUS
<1>1. \A n \in Node : granted[n] = << >> /\ buckets[n] = [tokens |-> Capacity, last_check |-> 0]
  BY DEF LimiterInit
<1>2. LimiterType
  BY CapacityNat DEF LimiterInit, LimiterType
<1>3. Settled /\ Paid /\ WindowBound
  BY <1>1, CapacityNat DEF LimiterInit, Settled, Paid, WindowBound
<1>4. QED
  BY <1>2, <1>3 DEF LimiterInv

\* A check that finds a token.
LEMMA Grants ==
  ASSUME LimiterInv, NEW n \in Node, Limited, Check(n, TRUE)
  PROVE  LimiterInv'
<1> DEFINE f == Filled(n)  g == granted[n]  len == Len(granted[n])
           tokens == buckets[n].tokens  last == buckets[n].last_check
<1>1. /\ f \in Nat /\ f <= Capacity /\ f <= tokens + (now - last) * Refill
  BY FilledType DEF LimiterInv
<1>2. /\ now' = now /\ f >= OneToken
      /\ buckets' = [buckets EXCEPT ![n] = [tokens |-> f - OneToken, last_check |-> now]]
      /\ granted' = [granted EXCEPT ![n] = Append(g, now)]
  BY DEF Check
<1>3. /\ g \in Seq(Nat) /\ len \in Nat /\ now \in Nat /\ tokens \in Nat /\ last \in Nat
      /\ OneToken \in Nat \ {0} /\ Refill \in Nat /\ last <= now /\ f - OneToken \in Nat
  BY <1>1, <1>2, LimiterAssumption DEF LimiterInv, LimiterType, Settled
<1>4. /\ granted'[n] = Append(g, now) /\ Append(g, now) \in Seq(Nat)
      /\ Len(Append(g, now)) = len + 1 /\ DOMAIN Append(g, now) = 1..(len + 1)
      /\ \A i \in 1..len : Append(g, now)[i] = g[i] /\ g[i] \in Nat
      /\ Append(g, now)[len + 1] = now /\ DOMAIN g = 1..len
  BY <1>2, <1>3 DEF LimiterInv, LimiterType
<1>5. /\ buckets'[n].tokens = f - OneToken /\ buckets'[n].last_check = now
      /\ \A m \in Node \ {n} : buckets'[m] = buckets[m] /\ granted'[m] = granted[m]
  BY <1>2 DEF LimiterInv, LimiterType
<1>6. LimiterType'
  BY <1>2, <1>3, <1>4 DEF LimiterInv, LimiterType
<1>7. Settled'
  <2> SUFFICES ASSUME NEW m \in Node
               PROVE  /\ buckets'[m].tokens <= Capacity /\ buckets'[m].last_check <= now'
                      /\ \A i \in DOMAIN granted'[m] : granted'[m][i] <= buckets'[m].last_check
    BY DEF Settled, Limited, Capacity
  <2>1. CASE m = n
    <3>1. \A i \in 1..len : g[i] <= now
      <4>1. \A i \in DOMAIN g : g[i] <= last
        BY DEF LimiterInv, Settled
      <4> HIDE DEF g, len, last
      <4>2. \A i \in 1..len : g[i] <= last /\ g[i] \in Nat
        BY <4>1, <1>4
      <4> QED BY <4>2, <1>3
    <3>2. \A i \in 1..(len + 1) : Append(g, now)[i] <= now
      BY <3>1, <1>3, <1>4
    <3>3. f - OneToken <= Capacity
      BY <1>1, <1>3, CapacityNat
    <3> QED BY <2>1, <3>2, <3>3, <1>2, <1>3, <1>4, <1>5
  <2>2. CASE m # n
    BY <2>2, <1>2, <1>5 DEF LimiterInv, Settled
  <2> QED BY <2>1, <2>2
<1> HIDE DEF f, g, len, tokens, last
\* Of the grants since grant i, the last takes a token of what is there.
<1>8. ASSUME NEW i \in 1..(len + 1)
      PROVE  ((len + 1) - i + 1) * OneToken + (f - OneToken)
               <= Capacity + (now - Append(g, now)[i]) * Refill
  <2>1. CASE i = len + 1
    <3>1. Append(g, now)[i] = now /\ (len + 1) - i + 1 = 1
      BY <2>1, <1>3, <1>4
    <3>2. (now - now) * Refill = 0 /\ 1 * OneToken = OneToken
      BY <1>3
    <3>3. OneToken + (f - OneToken) = f
      BY <1>1, <1>3
    <3>4. f <= Capacity + 0
      BY <1>1, CapacityNat
    <3> QED BY ONLY <3>1, <3>2, <3>3, <3>4
  <2>2. CASE i \in 1..len
    <3> DEFINE t == g[i]
               owed == (len - i + 1) * OneToken
               since == (last - t) * Refill
               earned == (now - last) * Refill
    <3>1. owed + tokens <= Capacity + since
      BY <2>2, <1>4 DEF LimiterInv, Paid, g, len, tokens, last
    <3>2. ((len + 1) - i + 1) * OneToken = owed + OneToken
      <4>1. len - i + 1 \in Int /\ (len + 1) - i + 1 = (len - i + 1) + 1
        BY <1>3, <2>2
      <4>2. ((len - i + 1) + 1) * OneToken = (len - i + 1) * OneToken + OneToken
        BY <4>1, <1>3, OneMore
      <4> QED BY <4>1, <4>2
    <3>3. t \in Nat /\ Append(g, now)[i] = t
      BY <2>2, <1>4
    <3>4. (now - t) * Refill = earned + since
      BY <1>3, <3>3, Earned
    <3>5. owed \in Int /\ since \in Int /\ earned \in Int
      BY <1>3, <3>3, <2>2
    <3>6. f <= tokens + earned
      BY <1>1
    <3> HIDE DEF owed, since, earned, t
    <3>7. (owed + OneToken) + (f - OneToken) <= Capacity + (earned + since)
      BY <3>1, <3>5, <3>6, <1>1, <1>3, CapacityNat
    <3> QED BY ONLY <3>2, <3>3, <3>4, <3>7
  <2>3. i = len + 1 \/ i \in 1..len
    BY <1>3
  <2> QED BY ONLY <2>1, <2>2, <2>3
<1>9. Paid'
  <2> SUFFICES ASSUME NEW m \in Node, NEW i \in DOMAIN granted'[m]
               PROVE  (Len(granted'[m]) - i + 1) * OneToken + buckets'[m].tokens
                        <= Capacity + (buckets'[m].last_check - granted'[m][i]) * Refill
    BY DEF Paid, Capacity
  <2>1. CASE m = n
    <3>1. /\ i \in 1..(len + 1) /\ granted'[m][i] = Append(g, now)[i]
          /\ Len(granted'[m]) = len + 1
          /\ buckets'[m].tokens = f - OneToken /\ buckets'[m].last_check = now
      BY <2>1, <1>4, <1>5
    <3>2. ((len + 1) - i + 1) * OneToken + (f - OneToken)
            <= Capacity + (now - Append(g, now)[i]) * Refill
      BY <3>1, <1>8
    <3> QED BY ONLY <3>1, <3>2, Zenon
  <2>2. CASE m # n
    BY <2>2, <1>5 DEF LimiterInv, Paid
  <2> QED BY <2>1, <2>2
<1>10. WindowBound'
  <2> SUFFICES ASSUME NEW m \in Node, NEW i \in DOMAIN granted'[m], NEW j \in DOMAIN granted'[m],
                      i <= j
               PROVE  (j - i + 1) * OneToken
                        <= Capacity + (granted'[m][j] - granted'[m][i]) * Refill
    BY DEF WindowBound, Capacity
  <2>1. CASE m # n
    BY <2>1, <1>5 DEF LimiterInv, WindowBound
  <2>2. CASE m = n /\ j \in 1..len
    <3>1. i \in 1..len /\ granted'[m][i] = g[i] /\ granted'[m][j] = g[j]
      BY <2>2, <1>3, <1>4
    <3> QED BY <3>1, <2>2, <1>4 DEF LimiterInv, WindowBound, g
  <2>3. CASE m = n /\ j = len + 1
    <3>1. granted'[m][j] = now /\ granted'[m][i] = Append(g, now)[i] /\ i \in 1..(len + 1)
      BY <2>3, <1>4
    <3> DEFINE t == Append(g, now)[i]
               owed == ((len + 1) - i + 1) * OneToken
               earned == (now - t) * Refill
    <3>2. t \in Nat
      BY <3>1, <1>3, <1>4
    <3>3. owed \in Int /\ earned \in Int
      <4> HIDE DEF t
      <4>1. i \in Int /\ len \in Int /\ now \in Int /\ t \in Int
        BY <3>1, <3>2, <1>3
      <4>2. OneToken \in Int /\ Refill \in Int
        BY <1>3
      <4>3. (len + 1) - i + 1 \in Int /\ now - t \in Int
        BY ONLY <4>1
      <4> QED BY ONLY <4>2, <4>3
    <3>4. owed + (f - OneToken) <= Capacity + earned
      BY <3>1, <1>8
    <3>5. owed <= Capacity + earned
      <4> HIDE DEF owed, earned
      <4> QED BY <3>3, <3>4, <1>3, CapacityNat
    <3>6. j = len + 1
      BY <2>3
    <3>7. granted'[m][i] = t
      BY <3>1
    <3> QED BY ONLY <3>1, <3>5, <3>6, <3>7, Zenon
  <2>4. m # n \/ (m = n /\ j \in 1..len) \/ (m = n /\ j = len + 1)
    BY <1>3, <1>4
  <2> QED BY ONLY <2>1, <2>2, <2>3, <2>4
<1>11. QED
  BY <1>6, <1>7, <1>9, <1>10 DEF LimiterInv

\* A check that finds none: the bucket is brought up to date all the same.
LEMMA Refuses ==
  ASSUME LimiterInv, NEW n \in Node, Limited, Check(n, FALSE)
  PROVE  LimiterInv'
<1> DEFINE f == Filled(n)  tokens == buckets[n].tokens  last == buckets[n].last_check
<1>1. /\ f \in Nat /\ f <= Capacity /\ f <= tokens + (now - last) * Refill
  BY FilledType DEF LimiterInv
<1>2. /\ now' = now /\ granted' = granted
      /\ buckets' = [buckets EXCEPT ![n] = [tokens |-> f, last_check |-> now]]
  BY DEF Check
<1>3. /\ buckets'[n].tokens = f /\ buckets'[n].last_check = now
      /\ \A m \in Node \ {n} : buckets'[m] = buckets[m]
  BY <1>2 DEF LimiterInv, LimiterType
<1>4. /\ now \in Nat /\ tokens \in Nat /\ last \in Nat /\ last <= now
      /\ OneToken \in Nat /\ Refill \in Nat
      /\ \A m \in Node : granted[m] \in Seq(Nat)
  BY LimiterAssumption DEF LimiterInv, LimiterType, Settled
<1>5. LimiterType'
  BY <1>1, <1>2, <1>4 DEF LimiterInv, LimiterType
<1> HIDE DEF f, tokens, last
<1>6. Settled'
  <2> SUFFICES ASSUME NEW m \in Node
               PROVE  /\ buckets'[m].tokens <= Capacity /\ buckets'[m].last_check <= now'
                      /\ \A i \in DOMAIN granted'[m] : granted'[m][i] <= buckets'[m].last_check
    BY DEF Settled, Limited, Capacity
  <2>1. CASE m = n
    <3>1. \A i \in DOMAIN granted[n] : granted[n][i] \in Nat /\ granted[n][i] <= last
      BY <1>4 DEF LimiterInv, Settled, last
    <3>2. \A i \in DOMAIN granted[n] : granted[n][i] <= now
      BY <3>1, <1>4
    <3> QED BY <2>1, <3>2, <1>1, <1>2, <1>3, <1>4
  <2>2. CASE m # n
    BY <2>2, <1>2, <1>3 DEF LimiterInv, Settled
  <2> QED BY <2>1, <2>2
<1>7. Paid'
  <2> SUFFICES ASSUME NEW m \in Node, NEW i \in DOMAIN granted'[m]
               PROVE  (Len(granted'[m]) - i + 1) * OneToken + buckets'[m].tokens
                        <= Capacity + (buckets'[m].last_check - granted'[m][i]) * Refill
    BY DEF Paid, Capacity
  <2>1. CASE m = n
    <3> DEFINE t == granted[n][i]
               owed == (Len(granted[n]) - i + 1) * OneToken
               since == (last - t) * Refill
               earned == (now - last) * Refill
    <3>1. t \in Nat /\ Len(granted[n]) - i + 1 \in Int
      BY <1>2, <1>4, <2>1
    <3>2. owed \in Int /\ since \in Int /\ earned \in Int
      BY <1>4, <3>1
    <3>3. owed + tokens <= Capacity + since
      BY <2>1, <1>2 DEF LimiterInv, Paid, tokens, last
    <3>4. (now - t) * Refill = earned + since
      BY <1>4, <3>1, Earned
    <3>5. f <= tokens + earned
      BY <1>1
    <3> HIDE DEF owed, since, earned, t
    <3>6. owed + f <= Capacity + (now - t) * Refill
      BY <3>2, <3>3, <3>4, <3>5, <1>1, <1>4, CapacityNat
    <3> QED BY <3>6, <2>1, <1>2, <1>3 DEF owed, t
  <2>2. CASE m # n
    BY <2>2, <1>2, <1>3 DEF LimiterInv, Paid
  <2> QED BY <2>1, <2>2
<1>8. WindowBound'
  BY <1>2 DEF LimiterInv, WindowBound, Limited, Capacity
<1>9. QED
  BY <1>5, <1>6, <1>7, <1>8 DEF LimiterInv

LEMMA CheckStep ==
  ASSUME LimiterInv, NEW n \in Node, NEW allowed \in BOOLEAN, Check(n, allowed)
  PROVE  LimiterInv'
<1>1. CASE Limited /\ allowed
  BY <1>1, Grants
<1>2. CASE Limited /\ ~allowed
  BY <1>2, Refuses
\* Without a limit every check is granted, and nothing is promised.
<1>3. CASE ~Limited
  <2>1. ~Limited'
    BY <1>3 DEF Limited
  <2>2. LimiterType'
    BY <1>3 DEF Check, LimiterInv, LimiterType
  <2> QED BY <2>1, <2>2 DEF LimiterInv, Settled, Paid, WindowBound
<1>4. QED
  BY <1>1, <1>2, <1>3

LEMMA TickStep ==
  ASSUME LimiterInv, Tick
  PROVE  LimiterInv'
<1>1. UNCHANGED << buckets, granted >> /\ now' = now + 1
  BY DEF Tick
<1>2. LimiterType'
  BY <1>1 DEF LimiterInv, LimiterType
<1>3. Settled'
  <2>1. now \in Nat /\ \A n \in Node : buckets[n].last_check \in Nat
    BY DEF LimiterInv, LimiterType
  <2>2. \A n \in Node : buckets[n].last_check <= now => buckets[n].last_check <= now + 1
    BY <2>1
  <2> QED BY <1>1, <2>2 DEF LimiterInv, Settled, Limited, Capacity
<1>4. Paid' /\ WindowBound'
  BY <1>1 DEF LimiterInv, Paid, WindowBound, Limited, Capacity
<1>5. QED
  BY <1>2, <1>3, <1>4 DEF LimiterInv

LEMMA LimiterStep == LimiterInv /\ [LimiterNext]_limiterVars => LimiterInv'
<1> SUFFICES ASSUME LimiterInv, [LimiterNext]_limiterVars PROVE LimiterInv'
  OBVIOUS
<1>1. CASE Tick
  BY <1>1, TickStep
<1>2. CASE \E n \in Node, allowed \in BOOLEAN : Check(n, allowed)
  BY <1>2, CheckStep
<1>3. CASE UNCHANGED limiterVars
  BY <1>3 DEF limiterVars, LimiterInv, LimiterType, Settled, Paid, WindowBound, Limited, Capacity
<1>4. QED
  BY <1>1, <1>2, <1>3 DEF LimiterNext

-----------------------------------------------------------------------------

\* No node is granted more in any window than a burst and what the window earns,
\* for every rate and burst (rate_limit.rs:38-50, 72-82).
THEOREM LimiterBound == LimiterSpec => []WindowBound
<1>1. LimiterInit => LimiterInv
  BY LimiterInitially
<1>2. LimiterInv /\ [LimiterNext]_limiterVars => LimiterInv'
  BY LimiterStep
<1>3. LimiterInv => WindowBound
  BY DEF LimiterInv
<1>4. QED
  BY <1>1, <1>2, <1>3, PTL DEF LimiterSpec

-----------------------------------------------------------------------------
(***************************************************************************)
(* The bridge and its limiter.                                             *)
(***************************************************************************)

LEMMA AsksTheLimiter == [Next]_vars => [LimiterNext]_limiterVars
<1> SUFFICES ASSUME [Next]_vars PROVE [LimiterNext]_limiterVars
  OBVIOUS
<1>1. CASE TimePasses
  BY <1>1 DEF TimePasses, LimiterNext
<1>2. ASSUME NEW fails \in BOOLEAN, Publish(fails) PROVE UNCHANGED limiterVars
  BY <1>2 DEF Publish
<1>3. ASSUME NEW c \in Conn, Accept(c) \/ SendUpdate(c) \/ Lose(c) PROVE UNCHANGED limiterVars
  <2>1. CASE Accept(c)
    BY <2>1 DEF Accept
  <2>2. CASE SendUpdate(c)
    BY <2>2 DEF SendUpdate
  <2>3. CASE Lose(c)
    BY <2>3 DEF Lose
  <2> QED BY <1>3, <2>1, <2>2, <2>3
<1>4. ASSUME NEW c \in Conn, NEW m \in Message, Read(c, m) PROVE [LimiterNext]_limiterVars
  <2>1. PICK allowed \in BOOLEAN :
          IF m.content = "DetectionReport" THEN Check(m.node, allowed)
                                           ELSE allowed /\ UNCHANGED limiterVars
    BY <1>4 DEF Read
  <2>2. m.node \in Node
    BY IngestAssumption
  <2> QED BY <2>1, <2>2 DEF LimiterNext
<1>5. CASE UNCHANGED vars
  BY <1>5 DEF vars
<1>6. QED
  BY <1>1, <1>2, <1>3, <1>4, <1>5 DEF Next

\* What reaches the application of a node's detections is within the node's
\* limit, by whatever connections they come (bridge.rs:560-571,
\* rate_limit.rs:57-84).
THEOREM IngestBound == Spec => []WindowBound
<1>1. Spec => LimiterSpec
  <2>1. Init => LimiterInit
    BY DEF Init
  <2> QED BY <2>1, AsksTheLimiter, PTL DEF Spec, LimiterSpec
<1>2. QED
  BY <1>1, LimiterBound, PTL

-----------------------------------------------------------------------------
(***************************************************************************)
(* The nodes a lost connection leaves behind.                              *)
(***************************************************************************)

SessionType ==
  /\ session \in [Conn -> {"closed", "open", "closing"}]
  /\ registered \in [Conn -> SUBSET Node]
  /\ registry = [n \in Node |-> registry[n]]

\* A connection stands for the first node that registered on it.
OneNodeEach == \A c \in Conn : \A n, k \in registered[c] : n = k

\* A node is there by a connection that will take it along, or it was claimed.
Vouched ==
  \A n \in Node : registry[n].present =>
    n \in strayed \/ \E c \in Conn : session[c] = "open" /\ n \in registered[c]

GhostInv == SessionType /\ OneNodeEach /\ Vouched

LEMMA GhostInitially == Init => GhostInv
<1> SUFFICES ASSUME Init PROVE GhostInv
  OBVIOUS
<1>1. \A n \in Node : ~registry[n].present
  BY DEF Init
<1>2. SessionType /\ OneNodeEach
  BY DEF Init, SessionType, OneNodeEach
<1>3. QED
  BY <1>1, <1>2 DEF GhostInv, Vouched

LEMMA AcceptVouches ==
  ASSUME GhostInv, NEW c \in Conn, Accept(c)
  PROVE  GhostInv'
<1>1. /\ session[c] = "closed" /\ session' = [session EXCEPT ![c] = "open"]
      /\ registered' = [registered EXCEPT ![c] = {}]
      /\ registry' = registry /\ strayed' = strayed
  BY DEF Accept, dataVars
<1>2. SessionType' /\ OneNodeEach'
  BY <1>1 DEF GhostInv, SessionType, OneNodeEach
<1>3. \A b \in Conn : session[b] = "open" => session'[b] = "open" /\ registered'[b] = registered[b]
  BY <1>1 DEF GhostInv, SessionType
<1>4. QED
  BY <1>1, <1>2, <1>3 DEF GhostInv, Vouched

LEMMA SendVouches ==
  ASSUME GhostInv, NEW c \in Conn, SendUpdate(c)
  PROVE  GhostInv'
<1>1. /\ session' = IF session[c] = "closing" THEN [session EXCEPT ![c] = "closed"] ELSE session
      /\ UNCHANGED << registered, registry, strayed >>
  BY DEF SendUpdate, dataVars
<1>2. SessionType' /\ OneNodeEach'
  BY <1>1 DEF GhostInv, SessionType, OneNodeEach
<1>3. \A b \in Conn : session[b] = "open" => session'[b] = "open"
  BY <1>1 DEF GhostInv, SessionType
<1>4. QED
  BY <1>1, <1>2, <1>3 DEF GhostInv, Vouched

\* The clean up removes the one node the connection stands for.
LEMMA LoseVouches ==
  ASSUME GhostInv, NEW c \in Conn, Lose(c)
  PROVE  GhostInv'
<1>1. /\ session' = [session EXCEPT ![c] = IF registered[c] = {} THEN "closed" ELSE "closing"]
      /\ UNCHANGED << registered, strayed >>
      /\ \/ registered[c] = {} /\ registry' = registry
         \/ \E n \in registered[c] : Remove(n)
  BY DEF Lose
<1>2. OneNodeEach'
  BY <1>1 DEF GhostInv, OneNodeEach
<1>3. session' \in [Conn -> {"closed", "open", "closing"}] /\ registered' \in [Conn -> SUBSET Node]
  BY <1>1 DEF GhostInv, SessionType
<1>4. \A b \in Conn \ {c} : session'[b] = session[b]
  BY <1>1 DEF GhostInv, SessionType
<1>5. CASE registered[c] = {} /\ registry' = registry
  BY <1>1, <1>2, <1>3, <1>4, <1>5 DEF GhostInv, SessionType, Vouched
<1>6. ASSUME NEW n \in registered[c], Remove(n) PROVE GhostInv'
  <2>1. n \in Node /\ registered[c] = {n}
    BY DEF GhostInv, SessionType, OneNodeEach
  <2>2. registry' = [registry EXCEPT ![n] = [present |-> FALSE, last_position |-> {}]]
    BY <1>6 DEF Remove
  <2>3. SessionType'
    BY <1>3, <2>2 DEF GhostInv, SessionType
  <2>4. ~registry'[n].present /\ \A k \in Node \ {n} : registry'[k] = registry[k]
    BY <2>1, <2>2 DEF GhostInv, SessionType
  <2>5. Vouched'
    BY <1>1, <1>4, <2>1, <2>4 DEF GhostInv, Vouched
  <2> QED BY <1>2, <2>3, <2>5 DEF GhostInv
<1>7. QED
  BY <1>1, <1>5, <1>6

LEMMA ReadVouches ==
  ASSUME GhostInv, NEW c \in Conn, NEW m \in Message, Read(c, m)
  PROVE  GhostInv'
<1>1. /\ session[c] = "open" /\ session' = session
      /\ registered' = IF m.content = "Registration" /\ registered[c] = {}
                         THEN [registered EXCEPT ![c] = {m.node}] ELSE registered
      /\ \/ UNCHANGED << registry, strayed >>
         \/ /\ Upsert(m.node, {})
            /\ strayed' = IF m.node \in registered'[c] THEN strayed ELSE strayed \union {m.node}
  BY DEF Read
<1>2. m.node \in Node
  BY IngestAssumption
<1>3. /\ registered' \in [Conn -> SUBSET Node] /\ OneNodeEach'
      /\ \A b \in Conn : registered[b] \subseteq registered'[b]
  BY <1>1, <1>2 DEF GhostInv, SessionType, OneNodeEach
<1>4. CASE UNCHANGED << registry, strayed >>
  <2>1. SessionType'
    BY <1>1, <1>3, <1>4 DEF GhostInv, SessionType
  <2>2. Vouched'
    BY <1>1, <1>3, <1>4 DEF GhostInv, Vouched
  <2> QED BY <1>3, <2>1, <2>2 DEF GhostInv
<1>5. CASE /\ Upsert(m.node, {})
           /\ strayed' = IF m.node \in registered'[c] THEN strayed ELSE strayed \union {m.node}
  <2>1. SessionType'
    BY <1>1, <1>3, <1>5 DEF GhostInv, SessionType, Upsert
  <2>2. \A k \in Node \ {m.node} : registry'[k] = registry[k]
    BY <1>5 DEF GhostInv, SessionType, Upsert
  <2>3. strayed \subseteq strayed' /\ (m.node \in strayed' \/ m.node \in registered'[c])
    BY <1>5
  <2>4. Vouched'
    BY <1>1, <1>3, <2>2, <2>3 DEF GhostInv, Vouched
  <2> QED BY <1>3, <2>1, <2>4 DEF GhostInv
<1>6. QED
  BY <1>1, <1>4, <1>5

LEMMA GhostStep == GhostInv /\ [Next]_vars => GhostInv'
<1> SUFFICES ASSUME GhostInv, [Next]_vars PROVE GhostInv'
  OBVIOUS
<1>1. CASE UNCHANGED << session, registered, registry, strayed >>
  BY <1>1 DEF GhostInv, SessionType, OneNodeEach, Vouched
<1>2. CASE TimePasses \/ (\E fails \in BOOLEAN : Publish(fails)) \/ UNCHANGED vars
  BY <1>1, <1>2 DEF TimePasses, Publish, vars, dataVars, sessionVars
<1>3. ASSUME NEW c \in Conn,
             Accept(c) \/ SendUpdate(c) \/ Lose(c) \/ \E m \in Message : Read(c, m)
      PROVE  GhostInv'
  BY <1>3, AcceptVouches, SendVouches, LoseVouches, ReadVouches
<1>4. QED
  BY <1>2, <1>3 DEF Next

\* However connections register, report and are lost, and in whatever order, once
\* none is open a node that is still there was claimed by one that had not
\* registered as it (bridge.rs:382, 415-433, 466-468).
THEOREM GhostsClaimed == Spec => []GhostsWereClaimed
<1>1. Init => GhostInv
  BY GhostInitially
<1>2. GhostInv /\ [Next]_vars => GhostInv'
  BY GhostStep
<1>3. GhostInv => GhostsWereClaimed
  BY DEF GhostInv, Vouched, GhostsWereClaimed
<1>4. QED
  BY <1>1, <1>2, <1>3, PTL DEF Spec

-----------------------------------------------------------------------------
(***************************************************************************)
(* The updates, and what the mesh makes of them. What a connection can     *)
(* have made is the Body of a message, or the end of a node: nobody has    *)
(* given the registry a position, so that a bearing makes nothing.         *)
(***************************************************************************)

Body == (UNION { RouteMessage(m, {}, allowed) : m \in Message, allowed \in BOOLEAN })
          \union { [kind |-> "NodeDisconnected", node |-> n] : n \in Node }

Update == [from : Conn, nth : Nat, body : Body]

\* What an update says is whose it is, in degrees and metres.
InDegrees(p) == p.latitude = "deg" /\ p.longitude = "deg" /\ p.altitude = "m"

Faithful(b) ==
  /\ b.kind = "Detected" => b.track.track_id \in Object /\ InDegrees(b.track.position)
  /\ b.kind \in {"Registered", "StatusUpdated"} => b.node \in Node
  /\ b.kind = "Registered" => b.advertisement.status # "unspecified"
  /\ b.kind = "StatusUpdated" => \A d, e \in b.report.delta : d = e

\* All coordinate systems that are read are read in degrees and metres.
LEMMA LocationInDegrees ==
  ASSUME NEW loc, NEW p \in LocationToTrackPosition(loc)
  PROVE  InDegrees(p)
<1> DEFINE cs == loc.cs
           angle == CASE cs \in {1, 3} -> AngleUnit[cs]
                      [] cs \in {2, 4} -> ToDegrees(AngleUnit[cs])
                      [] cs = 5 -> IF AngleUnit[cs] = "m" THEN "deg" ELSE "wrong"
           height == IF cs \in {3, 4} THEN FeetToMetres(HeightUnit[cs]) ELSE HeightUnit[cs]
<1>1. /\ cs \in 1..5
      /\ p = [at |-> loc.at, latitude |-> angle, longitude |-> angle, altitude |-> height,
              z |-> loc.z, cep_m |-> ErrorsToMetres(AngleUnit[cs], cs)]
  BY DEF LocationToTrackPosition
<1>2. angle = "deg"
  BY <1>1 DEF AngleUnit, ToDegrees
<1>3. height = "m"
  BY <1>1 DEF HeightUnit, FeetToMetres
<1> HIDE DEF angle, height
<1>4. QED
  BY <1>1, <1>2, <1>3 DEF InDegrees

LEMMA RoutesFaithfully ==
  ASSUME NEW m \in Message, NEW allowed \in BOOLEAN, NEW b \in RouteMessage(m, {}, allowed)
  PROVE  Faithful(b)
<1>1. m.node \in Node /\ m.object \in Object /\ m.fix \in {"location", "bearing", "none"}
  BY IngestAssumption
<1>2. CASE m.content = "Registration"
  <2>1. b = [kind |-> "Registered", node |-> m.node, advertisement |-> FromRegistration(m)]
    BY <1>2 DEF RouteMessage
  <2> QED BY <1>1, <2>1 DEF Faithful, FromRegistration
<1>3. CASE m.content = "StatusReport"
  <2>1. b = [kind |-> "StatusUpdated", node |-> m.node, report |-> FromStatusReport(m)]
    BY <1>3 DEF RouteMessage
  <2>2. \A d, e \in FromStatusReport(m).delta : d = e
    BY DEF FromStatusReport
  <2> QED BY <1>1, <2>1, <2>2 DEF Faithful
<1>4. CASE m.content = "DetectionReport" /\ allowed
  <2>1. PICK t \in FromDetectionReport(m, {}) :
          b = [kind |-> "Detected", node |-> m.node, track |-> t]
    BY <1>4 DEF RouteMessage
  <2>2. PICK p \in LocationToTrackPosition(m.location) :
          t = [track_id |-> m.object, position |-> p, class |-> m.class, source |-> m.node]
    BY <1>1 DEF FromDetectionReport
  <2>3. InDegrees(p)
    BY LocationInDegrees
  <2> QED BY <1>1, <2>1, <2>2, <2>3 DEF Faithful
<1>5. CASE m.content \notin {"Registration", "StatusReport"} /\ ~(m.content = "DetectionReport" /\ allowed)
  <2>1. b.kind \in {"Alerted", "TaskAcknowledged", "AlertAcknowledged", "Ignored"}
    BY <1>5 DEF RouteMessage
  <2> QED BY <2>1 DEF Faithful
<1>6. QED
  BY <1>2, <1>3, <1>4, <1>5

LEMMA BodyFaithful == \A b \in Body : Faithful(b)
<1> SUFFICES ASSUME NEW b \in Body PROVE Faithful(b)
  OBVIOUS
<1>1. CASE b \in UNION { RouteMessage(m, {}, allowed) : m \in Message, allowed \in BOOLEAN }
  <2>1. PICK result \in { RouteMessage(m, {}, allowed) : m \in Message, allowed \in BOOLEAN } :
          b \in result
    BY <1>1
  <2>2. PICK m \in Message, allowed \in BOOLEAN : result = RouteMessage(m, {}, allowed)
    BY <2>1
  <2> QED BY <2>1, <2>2, RoutesFaithfully
<1>2. CASE b \in { [kind |-> "NodeDisconnected", node |-> n] : n \in Node }
  BY <1>2 DEF Faithful
<1>3. QED
  BY <1>1, <1>2 DEF Body

\* The last writer of a field wins, and a field it does not write stays.
LEMMA FieldOfMerge ==
  ASSUME NEW document, NEW fields, NEW name
  PROVE  Field(Merge(document, fields), name) =
           IF Field(fields, name) = {} THEN Field(document, name) ELSE Field(fields, name)
  BY DEF Field, Merge

LEMMA FieldOfUnion ==
  ASSUME NEW a, NEW b, NEW name
  PROVE  Field(a \union b, name) = Field(a, name) \union Field(b, name)
  BY DEF Field

LEMMA FieldOfOne ==
  ASSUME NEW written, NEW value, NEW name
  PROVE  Field({<< written, value >>}, name) = IF written = name THEN {value} ELSE {}
<1> DEFINE pair == << written, value >>
<1>1. pair[1] = written /\ pair[2] = value
  OBVIOUS
<1> HIDE DEF pair
<1>2. Field({pair}, name) = IF written = name THEN {value} ELSE {}
  BY <1>1 DEF Field
<1>3. QED
  BY <1>2 DEF pair

LEMMA FieldOfNone == \A name : Field({}, name) = {}
  BY DEF Field

LEMMA FieldOfWhen ==
  ASSUME NEW condition \in BOOLEAN, NEW written, NEW value, NEW name
  PROVE  Field(When(condition, written, value), name) =
           IF condition /\ written = name THEN {value} ELSE {}
  BY FieldOfOne, FieldOfNone DEF When

\* A detection says where it was, and how high if it was not at zero.
LEMMA FieldOfTrack ==
  ASSUME NEW t
  PROVE  /\ Field(TrackToFields(t), "lat") = {<< t.position.at, t.position.latitude >>}
         /\ Field(TrackToFields(t), "lon") = {<< t.position.at, t.position.longitude >>}
         /\ Field(TrackToFields(t), "hae") =
              IF t.position.z = "zero" THEN {} ELSE {<< t.position.z, t.position.altitude >>}
<1> DEFINE p == t.position
           lat == {<< "lat", << p.at, p.latitude >> >>}
           lon == {<< "lon", << p.at, p.longitude >> >>}
           hae == When(p.z # "zero", "hae", << p.z, p.altitude >>)
           class == When(t.class # "", "sapient_classification", t.class)
           source == When(t.source # "", "sapient_source_node_id", t.source)
<1>1. TrackToFields(t) = lat \union (lon \union (hae \union (class \union source)))
  BY DEF TrackToFields, PositionFields
<1>2. \A name : Field(TrackToFields(t), name) =
        Field(lat, name) \union (Field(lon, name) \union (Field(hae, name)
          \union (Field(class, name) \union Field(source, name))))
  <2> HIDE DEF lat, lon, hae, class, source
  <2> TAKE name
  <2>1. Field(class \union source, name) = Field(class, name) \union Field(source, name)
    BY FieldOfUnion
  <2>2. Field(hae \union (class \union source), name)
          = Field(hae, name) \union (Field(class, name) \union Field(source, name))
    BY <2>1, FieldOfUnion
  <2>3. Field(lon \union (hae \union (class \union source)), name)
          = Field(lon, name) \union (Field(hae, name)
              \union (Field(class, name) \union Field(source, name)))
    BY <2>2, FieldOfUnion
  <2>4. QED
    BY <1>1, <2>3, FieldOfUnion
<1>3. \A name : /\ Field(lat, name) = IF "lat" = name THEN {<< p.at, p.latitude >>} ELSE {}
                /\ Field(lon, name) = IF "lon" = name THEN {<< p.at, p.longitude >>} ELSE {}
  BY FieldOfOne
<1>4. \A name : Field(hae, name) =
        IF p.z # "zero" /\ "hae" = name THEN {<< p.z, p.altitude >>} ELSE {}
  <2> TAKE name
  <2>1. p.z = "zero" => hae = {}
    BY DEF When
  <2>2. p.z # "zero" => hae = {<< "hae", << p.z, p.altitude >> >>}
    BY DEF When
  <2>3. Field({<< "hae", << p.z, p.altitude >> >>}, name) =
          IF "hae" = name THEN {<< p.z, p.altitude >>} ELSE {}
    BY FieldOfOne
  <2> HIDE DEF hae, p
  <2>4. QED
    BY <2>1, <2>2, <2>3, FieldOfNone
<1>5. \A name : /\ "sapient_classification" # name => Field(class, name) = {}
                /\ "sapient_source_node_id" # name => Field(source, name) = {}
  BY FieldOfWhen
<1> HIDE DEF lat, lon, hae, class, source
<1>6. QED
  BY <1>2, <1>3, <1>4, <1>5

\* A platform's status is written unless it is unspecified, whatever its states.
LEMMA FieldOfPlatform ==
  ASSUME NEW advertisement, NEW states
  PROVE  Field(PlatformToFields(advertisement, states), "operational_status") =
           IF advertisement.status = "unspecified" THEN {} ELSE {advertisement.status}
<1> DEFINE status == When(advertisement.status # "unspecified", "operational_status",
                          advertisement.status)
           rest == When(advertisement.capabilities # {}, "capabilities", advertisement.capabilities)
                     \union StateFields(states)
<1>1. \A p \in rest : p[1] # "operational_status"
  BY DEF When, StateFields, PositionFields
<1>2. Field(status, "operational_status") =
        IF advertisement.status = "unspecified" THEN {} ELSE {advertisement.status}
  BY FieldOfWhen
<1>3. PlatformToFields(advertisement, states) = status \union rest
  BY DEF PlatformToFields
<1> HIDE DEF status, rest
<1>4. Field(status \union rest, "operational_status") = Field(status, "operational_status")
  BY <1>1 DEF Field
<1>5. QED
  BY <1>2, <1>3, <1>4

\* A status report writes the status that comes with its mode, if any.
LEMMA FieldOfStatus ==
  ASSUME NEW n, NEW report, \A d, e \in report.delta : d = e
  PROVE  Field(StatusToFields(n, report), "operational_status") =
           { d.status : d \in report.delta } \ {"unspecified"}
<1>1. CASE report.delta = {}
  BY <1>1, FieldOfPlatform DEF StatusToFields
<1>2. CASE report.delta # {}
  <2>1. PICK d \in report.delta : report.delta = {d}
    BY <1>2
  <2>2. (CHOOSE e \in report.delta : TRUE) = d
    BY <2>1
  <2>3. StatusToFields(n, report) = PlatformToFields(d, {report.state})
    BY <1>2, <2>2 DEF StatusToFields
  <2> QED BY <2>1, <2>3, FieldOfPlatform
<1>3. QED
  BY <1>1, <1>2

-----------------------------------------------------------------------------

IngestType ==
  /\ log \in Seq(Update) /\ updates \in Seq(Update)
  /\ held \in [Conn -> SUBSET Update]
  /\ routed \in [Conn -> Nat]
  /\ registry = [n \in Node |-> registry[n]]
  /\ \A n \in Node : registry[n].last_position = {}
  /\ tracks = [o \in Object |-> tracks[o]]
  /\ platforms = [n \in Node |-> platforms[n]]
  /\ failures \in Nat

\* What waits is the end of the log.
Backlogged ==
  /\ Len(updates) <= Len(log)
  /\ \A i \in 1..Len(updates) : updates[i] = log[Len(log) - Len(updates) + i]

\* What a connection has in hand is the last it made.
HeldIsLast == \A c \in Conn : \A u \in held[c] : u.from = c /\ u.nth = routed[c]

IngestInv ==
  /\ IngestType /\ Backlogged /\ HeldIsLast
  /\ InTurn /\ HeartbeatKeepsStatus /\ TrackFollowsLatest

LEMMA IngestInitially == Init => IngestInv
<1> SUFFICES ASSUME Init PROVE IngestInv
  OBVIOUS
<1>1. /\ log = << >> /\ updates = << >> /\ failures = 0
      /\ held = [c \in Conn |-> {}] /\ routed = [c \in Conn |-> 0]
      /\ registry = [n \in Node |-> [present |-> FALSE, last_position |-> {}]]
      /\ tracks = [o \in Object |-> NoFields] /\ platforms = [n \in Node |-> NoFields]
  BY DEF Init
<1>2. IngestType
  BY <1>1 DEF IngestType
<1>3. Backlogged /\ HeldIsLast
  BY <1>1 DEF Backlogged, HeldIsLast
<1>4. InTurn
  BY <1>1 DEF InTurn
<1>5. Published = {}
  BY <1>1 DEF Published
<1>6. /\ \A n \in Node : Latest(Tells(n)) = {} /\ Field(platforms[n], "operational_status") = {}
      /\ \A o \in Object : /\ Latest(Moves(o)) = {} /\ Latest(Flies(o)) = {}
                           /\ \A name : Field(tracks[o], name) = {}
  BY <1>1, <1>5, FieldOfNone DEF Latest, Tells, Moves, Flies, NoFields
<1>7. HeartbeatKeepsStatus /\ TrackFollowsLatest
  BY <1>6 DEF HeartbeatKeepsStatus, TrackFollowsLatest
<1>8. QED
  BY <1>2, <1>3, <1>4, <1>7 DEF IngestInv

\* What nothing is sent or published by leaves the mesh as it was.
LEMMA FollowsAsBefore ==
  ASSUME HeartbeatKeepsStatus, TrackFollowsLatest, UNCHANGED << log, updates, meshVars >>
  PROVE  HeartbeatKeepsStatus' /\ TrackFollowsLatest' /\ (Backlogged => Backlogged')
<1>1. log' = log /\ updates' = updates /\ tracks' = tracks /\ platforms' = platforms
      /\ failures' = failures
  BY DEF meshVars
<1>2. Published' = Published
  BY <1>1 DEF Published
<1>3. \A n \in Node : Tells(n)' = Tells(n)
  BY <1>1, <1>2 DEF Tells
<1>4. \A o \in Object : Moves(o)' = Moves(o)
  BY <1>1, <1>2 DEF Moves
<1>5. \A o \in Object : Flies(o)' = Flies(o)
  BY <1>1, <1>4 DEF Flies
<1>6. HeartbeatKeepsStatus'
  BY <1>1, <1>3 DEF HeartbeatKeepsStatus, Latest
<1>7. TrackFollowsLatest'
  BY <1>1, <1>4, <1>5 DEF TrackFollowsLatest, Latest
<1>8. QED
  BY <1>1, <1>6, <1>7 DEF Backlogged

LEMMA QuietKeeps ==
  ASSUME IngestInv, UNCHANGED << log, updates, meshVars, held, routed, registry >>
  PROVE  IngestInv'
<1>1. IngestType' /\ HeldIsLast' /\ InTurn'
  <2>1. IngestType'
    BY DEF IngestInv, IngestType, meshVars
  <2>2. HeldIsLast'
    BY DEF IngestInv, HeldIsLast
  <2>3. InTurn'
    BY DEF IngestInv, InTurn
  <2> QED BY <2>1, <2>2, <2>3
<1>2. QED
  BY <1>1, FollowsAsBefore DEF IngestInv

\* A connection makes an update.
LEMMA HoldKeeps ==
  ASSUME IngestInv, NEW c \in Conn, held[c] = {}, NEW body \in Body, Hold(c, body),
         UNCHANGED << log, updates, meshVars >>,
         registry' = [n \in Node |-> registry'[n]],
         \A n \in Node : registry'[n].last_position = {}
  PROVE  IngestInv'
<1> DEFINE u == [from |-> c, nth |-> routed[c] + 1, body |-> body]
<1>1. /\ held' = [held EXCEPT ![c] = {u}]
      /\ routed' = [routed EXCEPT ![c] = routed[c] + 1]
  BY DEF Hold
<1>2. held \in [Conn -> SUBSET Update] /\ routed \in [Conn -> Nat] /\ routed[c] \in Nat
  BY DEF IngestInv, IngestType
<1>3. u \in Update /\ u.from = c /\ u.nth = routed[c] + 1
  BY <1>2 DEF Update
<1> HIDE DEF u
<1>4. /\ held'[c] = {u} /\ routed'[c] = routed[c] + 1
      /\ \A d \in Conn \ {c} : held'[d] = held[d] /\ routed'[d] = routed[d]
  BY <1>1, <1>2
<1>5. IngestType'
  <2>1. held' \in [Conn -> SUBSET Update] /\ routed' \in [Conn -> Nat]
    BY <1>1, <1>2, <1>3
  <2> QED BY <2>1 DEF IngestInv, IngestType, meshVars
<1>6. HeldIsLast'
  BY <1>3, <1>4 DEF IngestInv, HeldIsLast
<1>7. InTurn'
  <2> SUFFICES ASSUME NEW d \in Conn
               PROVE  LET sent == { i \in DOMAIN log : log[i].from = d }
                      IN  /\ \A i, j \in sent : i < j => log[i].nth < log[j].nth
                          /\ \A i \in sent : \A v \in held'[d] : log[i].nth < v.nth
                          /\ { log[i].nth : i \in sent } \union { v.nth : v \in held'[d] }
                               = 1..routed'[d]
    BY DEF InTurn
  <2> DEFINE sent == { i \in DOMAIN log : log[i].from = d }
             nths == { log[i].nth : i \in sent }
  <2>1. /\ \A i, j \in sent : i < j => log[i].nth < log[j].nth
        /\ \A i \in sent : \A v \in held[d] : log[i].nth < v.nth
        /\ nths \union { v.nth : v \in held[d] } = 1..routed[d]
    BY DEF IngestInv, InTurn
  <2>2. CASE d = c
    <3>1. nths = 1..routed[c]
      BY <2>1, <2>2
    <3>2. \A i \in sent : log[i].nth \in 1..routed[c]
      BY <3>1
    <3>3. \A i \in sent : log[i].nth < u.nth
      BY <3>2, <1>2, <1>3
    <3>4. { v.nth : v \in held'[d] } = {routed[c] + 1}
      BY <2>2, <1>3, <1>4
    <3>5. 1..(routed[c] + 1) = 1..routed[c] \union {routed[c] + 1}
      BY <1>2
    <3> HIDE DEF sent
    <3> QED BY <2>1, <2>2, <3>1, <3>3, <3>4, <3>5, <1>4 DEF sent
  <2>3. CASE d # c
    BY <2>1, <2>3, <1>4
  <2> QED BY <2>2, <2>3
<1>8. QED
  BY <1>5, <1>6, <1>7, FollowsAsBefore DEF IngestInv

LEMMA ReadKeeps ==
  ASSUME IngestInv, NEW c \in Conn, NEW m \in Message, Read(c, m)
  PROVE  IngestInv'
<1>1. held[c] = {} /\ UNCHANGED << log, updates, meshVars >>
  BY DEF Read
<1>2. m.node \in Node
  BY IngestAssumption
<1>3. SensorPosition(m.node) = {}
  BY <1>2 DEF IngestInv, IngestType, SensorPosition
<1>4. PICK allowed \in BOOLEAN :
        \/ UNCHANGED << registry, held, routed >>
        \/ \E body \in RouteMessage(m, {}, allowed) :
             /\ Hold(c, body)
             /\ Upsert(m.node, {}) \/ registry' = registry
  BY <1>3 DEF Read
<1>5. CASE UNCHANGED << registry, held, routed >>
  BY <1>1, <1>5, QuietKeeps
<1>6. ASSUME NEW body \in RouteMessage(m, {}, allowed), Hold(c, body),
             Upsert(m.node, {}) \/ registry' = registry
      PROVE  IngestInv'
  <2>1. body \in Body
    BY DEF Body
  <2>2. /\ registry' = [n \in Node |-> registry'[n]]
        /\ \A n \in Node : registry'[n].last_position = {}
    BY <1>2, <1>6 DEF IngestInv, IngestType, Upsert
  <2> QED BY <1>1, <1>6, <2>1, <2>2, HoldKeeps
<1>7. QED
  BY <1>4, <1>5, <1>6

LEMMA LoseKeeps ==
  ASSUME IngestInv, GhostInv, NEW c \in Conn, Lose(c)
  PROVE  IngestInv'
<1>1. held[c] = {} /\ UNCHANGED << log, updates, meshVars >>
  BY DEF Lose
<1>2. \/ UNCHANGED << held, routed, registry >>
      \/ \E n \in registered[c] : Remove(n) /\ Hold(c, [kind |-> "NodeDisconnected", node |-> n])
  BY DEF Lose
<1>3. ASSUME NEW n \in registered[c], Remove(n), Hold(c, [kind |-> "NodeDisconnected", node |-> n])
      PROVE  IngestInv'
  <2>1. n \in Node
    BY DEF GhostInv, SessionType
  <2>2. [kind |-> "NodeDisconnected", node |-> n] \in Body
    BY <2>1 DEF Body
  <2>3. /\ registry' = [k \in Node |-> registry'[k]]
        /\ \A k \in Node : registry'[k].last_position = {}
    BY <1>3, <2>1 DEF IngestInv, IngestType, Remove
  <2> QED BY <1>1, <1>3, <2>2, <2>3, HoldKeeps
<1>4. QED
  BY <1>1, <1>2, <1>3, QuietKeeps

\* The update in hand is sent.
LEMMA SendKeeps ==
  ASSUME IngestInv, NEW c \in Conn, SendUpdate(c)
  PROVE  IngestInv'
<1>1. PICK u \in held[c] :
        /\ held' = [held EXCEPT ![c] = {}]
        /\ updates' = Append(updates, u) /\ log' = Append(log, u)
        /\ UNCHANGED << routed, registry, tracks, platforms, failures >>
  BY DEF SendUpdate, dataVars, meshVars
<1>2. /\ log \in Seq(Update) /\ updates \in Seq(Update)
      /\ held \in [Conn -> SUBSET Update] /\ routed \in [Conn -> Nat]
  BY DEF IngestInv, IngestType
<1>3. u \in Update /\ u.from = c /\ u.nth = routed[c] /\ routed[c] \in Nat
  BY <1>2 DEF IngestInv, HeldIsLast
<1> DEFINE len == Len(log)  waiting == Len(updates)
<1>4. /\ log' \in Seq(Update) /\ updates' \in Seq(Update)
      /\ Len(log') = len + 1 /\ Len(updates') = waiting + 1
      /\ len \in Nat /\ waiting \in Nat /\ waiting <= len
      /\ DOMAIN log = 1..len /\ DOMAIN log' = 1..(len + 1)
      /\ \A i \in 1..len : log'[i] = log[i]
      /\ log'[len + 1] = u
      /\ \A i \in 1..waiting : updates'[i] = updates[i]
      /\ updates'[waiting + 1] = u
  BY <1>1, <1>2, <1>3 DEF IngestInv, Backlogged
<1>5. held'[c] = {} /\ \A d \in Conn \ {c} : held'[d] = held[d]
  BY <1>1, <1>2
<1>6. IngestType'
  <2>1. held' \in [Conn -> SUBSET Update]
    BY <1>1, <1>2
  <2> QED BY <1>1, <1>4, <2>1 DEF IngestInv, IngestType
<1>7. Backlogged'
  <2>1. \A i \in 1..waiting : updates[i] = log[len - waiting + i]
    BY DEF IngestInv, Backlogged
  <2>2. ASSUME NEW i \in 1..(waiting + 1)
        PROVE  updates'[i] = log'[(len + 1) - (waiting + 1) + i]
    <3>1. CASE i = waiting + 1
      BY <1>4, <3>1
    <3>2. CASE i \in 1..waiting
      <4>1. len - waiting + i \in 1..len /\ (len + 1) - (waiting + 1) + i = len - waiting + i
        BY <1>4, <3>2
      <4> QED BY <1>4, <2>1, <3>2, <4>1
    <3> QED BY <3>1, <3>2, <1>4
  <2> QED BY <1>4, <2>2 DEF Backlogged
<1>8. HeldIsLast'
  BY <1>1, <1>5 DEF IngestInv, HeldIsLast
<1>9. InTurn'
  <2> SUFFICES ASSUME NEW d \in Conn
               PROVE  LET sent == { i \in DOMAIN log' : log'[i].from = d }
                      IN  /\ \A i, j \in sent : i < j => log'[i].nth < log'[j].nth
                          /\ \A i \in sent : \A v \in held'[d] : log'[i].nth < v.nth
                          /\ { log'[i].nth : i \in sent } \union { v.nth : v \in held'[d] }
                               = 1..routed'[d]
    BY DEF InTurn
  <2> DEFINE sent == { i \in DOMAIN log : log[i].from = d }
             after == { i \in DOMAIN log' : log'[i].from = d }
             nths == { log[i].nth : i \in sent }
  <2>1. /\ \A i, j \in sent : i < j => log[i].nth < log[j].nth
        /\ \A i \in sent : \A v \in held[d] : log[i].nth < v.nth
        /\ nths \union { v.nth : v \in held[d] } = 1..routed[d]
    BY DEF IngestInv, InTurn
  <2>2. sent \subseteq 1..len
    BY <1>4
  <2>3. CASE d = c
    <3>1. after = sent \union {len + 1}
      BY <2>3, <1>3, <1>4
    <3>2. { v.nth : v \in held[c] } = {routed[c]}
      BY <1>3 DEF IngestInv, HeldIsLast
    <3>3. \A i \in sent : log'[i].nth < log'[len + 1].nth
      BY <2>1, <2>2, <2>3, <1>4
    <3>4. \A i \in sent : ~(len + 1 < i)
      BY <2>2, <1>4
    <3> HIDE DEF sent, after
    <3>5. \A i, j \in after : i < j => log'[i].nth < log'[j].nth
      <4> SUFFICES ASSUME NEW i \in after, NEW j \in after, i < j
                   PROVE  log'[i].nth < log'[j].nth
        OBVIOUS
      <4>1. i \in sent
        BY <3>1, <3>4, <1>4, <2>2
      <4>2. CASE j \in sent
        BY <4>1, <4>2, <2>1, <2>2, <1>4
      <4>3. CASE j = len + 1
        BY <4>1, <4>3, <3>3
      <4> QED BY <3>1, <4>2, <4>3
    <3>6. { log'[i].nth : i \in after } = nths \union {routed[c]}
      BY <3>1, <1>3, <1>4, <2>2
    <3> QED BY <3>2, <3>5, <3>6, <2>1, <2>3, <1>1, <1>5 DEF after
  <2>4. CASE d # c
    <3>1. after = sent
      BY <2>4, <1>3, <1>4
    <3>2. \A i \in sent : log'[i] = log[i]
      BY <2>2, <1>4
    <3> HIDE DEF sent, after
    <3> QED BY <3>1, <3>2, <2>1, <2>4, <1>1, <1>5 DEF after
  <2> QED BY <2>3, <2>4
\* Nothing is published by it.
<1>10. Published' = Published /\ \A i \in Published : i \in 1..len /\ log'[i] = log[i]
  <2>1. (len + 1) - (waiting + 1) = len - waiting /\ 1..(len - waiting) \subseteq 1..len
    BY <1>4
  <2> QED BY <1>4, <2>1 DEF Published
<1>11. /\ \A n \in Node : Tells(n)' = Tells(n) /\ Latest(Tells(n))' = Latest(Tells(n))
       /\ \A o \in Object : /\ Moves(o)' = Moves(o) /\ Latest(Moves(o))' = Latest(Moves(o))
                            /\ Flies(o)' = Flies(o) /\ Latest(Flies(o))' = Latest(Flies(o))
  <2>1. \A n \in Node : Tells(n)' = Tells(n) /\ Tells(n) \subseteq Published
    BY <1>10 DEF Tells
  <2>2. \A o \in Object : Moves(o)' = Moves(o) /\ Moves(o) \subseteq Published
    BY <1>10 DEF Moves
  <2>3. \A o \in Object : Flies(o)' = Flies(o) /\ Flies(o) \subseteq Published
    BY <1>10, <2>2 DEF Flies
  <2>4. \A n \in Node : Latest(Tells(n))' = Latest(Tells(n))
    BY <1>10, <2>1 DEF Latest
  <2>5. \A o \in Object : Latest(Moves(o))' = Latest(Moves(o))
    BY <1>10, <2>2 DEF Latest
  <2>6. \A o \in Object : Latest(Flies(o))' = Latest(Flies(o))
    BY <1>10, <2>3 DEF Latest
  <2> QED BY <2>1, <2>2, <2>3, <2>4, <2>5, <2>6
<1>12. HeartbeatKeepsStatus'
  BY <1>1, <1>11 DEF IngestInv, HeartbeatKeepsStatus
<1>13. TrackFollowsLatest'
  BY <1>1, <1>11 DEF IngestInv, TrackFollowsLatest
<1>14. QED
  BY <1>6, <1>7, <1>8, <1>9, <1>12, <1>13 DEF IngestInv

\* The last of what was said is the latest.
LEMMA LatestIsLast ==
  ASSUME NEW said, NEW k, \A i \in said : i <= k /\ ~(k <= i), k <= k
  PROVE  Latest(said \union {k}) = {log[k].body}
  BY DEF Latest

LEMMA PublishKeeps ==
  ASSUME IngestInv, NEW fails \in BOOLEAN, Publish(fails)
  PROVE  IngestInv'
<1> DEFINE len == Len(log)  waiting == Len(updates)  k == len - waiting + 1
           b == log[k].body
<1>1. /\ log \in Seq(Update) /\ updates \in Seq(Update) /\ updates # << >>
      /\ updates' = Tail(updates)
      /\ UNCHANGED << log, held, routed, registry >>
  BY DEF Publish, dataVars, IngestInv, IngestType
<1>2. /\ len \in Nat /\ waiting \in Nat \ {0} /\ waiting <= len
      /\ Len(updates') = waiting - 1 /\ updates' \in Seq(Update)
      /\ \A i \in 1..(waiting - 1) : updates'[i] = updates[i + 1]
      /\ k \in 1..len
  BY <1>1 DEF IngestInv, Backlogged
<1>3. Head(updates) = log[k]
  <2>1. Head(updates) = updates[1] /\ 1 \in 1..waiting
    BY <1>1, <1>2
  <2> QED BY <2>1, <1>2 DEF IngestInv, Backlogged
<1>4. b \in Body /\ Faithful(b)
  <2>1. log[k] \in Update
    BY <1>1, <1>2
  <2>2. b \in Body
    BY <2>1 DEF Update
  <2> QED BY <2>2, BodyFaithful
<1> HIDE DEF b
\* What becomes of the documents.
<1>5. failures' = 0 =>
        /\ failures = 0
        /\ \A o \in Object :
             tracks'[o] = IF b.kind = "Detected" /\ b.track.track_id = o
                            THEN Merge(tracks[o], TrackToFields(b.track)) ELSE tracks[o]
        /\ \A n \in Node :
             platforms'[n] =
               IF b.kind = "Registered" /\ b.node = n
                 THEN Merge(platforms[n], PlatformToFields(b.advertisement, {}))
               ELSE IF b.kind = "StatusUpdated" /\ b.node = n
                 THEN Merge(platforms[n], StatusToFields(b.node, b.report))
               ELSE platforms[n]
  <2>1. CASE fails
    BY <2>1 DEF Publish, IngestInv, IngestType
  <2>2. CASE ~fails
    <3>1. /\ failures' = failures
          /\ tracks' = IF b.kind = "Detected"
                         THEN [tracks EXCEPT ![b.track.track_id] =
                                 Merge(@, TrackToFields(b.track))]
                         ELSE tracks
          /\ platforms' =
               CASE b.kind = "Registered" ->
                      [platforms EXCEPT ![b.node] =
                         Merge(@, PlatformToFields(b.advertisement, {}))]
                 [] b.kind = "StatusUpdated" ->
                      [platforms EXCEPT ![b.node] = Merge(@, StatusToFields(b.node, b.report))]
                 [] OTHER -> platforms
      BY <1>3, <2>2 DEF Publish, b
    <3>2. \A o \in Object :
            tracks'[o] = IF b.kind = "Detected" /\ b.track.track_id = o
                           THEN Merge(tracks[o], TrackToFields(b.track)) ELSE tracks[o]
      BY <3>1 DEF IngestInv, IngestType
    <3>3. \A n \in Node :
            platforms'[n] =
              IF b.kind = "Registered" /\ b.node = n
                THEN Merge(platforms[n], PlatformToFields(b.advertisement, {}))
              ELSE IF b.kind = "StatusUpdated" /\ b.node = n
                THEN Merge(platforms[n], StatusToFields(b.node, b.report))
              ELSE platforms[n]
      BY <3>1 DEF IngestInv, IngestType
    <3> QED BY <3>1, <3>2, <3>3
  <2> QED BY <2>1, <2>2
<1>6. IngestType'
  <2>1. failures' \in Nat
    BY DEF Publish, IngestInv, IngestType
  <2>2. tracks' = [o \in Object |-> tracks'[o]]
    BY DEF Publish, IngestInv, IngestType
  <2>3. platforms' = [n \in Node |-> platforms'[n]]
    BY DEF Publish, IngestInv, IngestType
  <2> QED BY <1>1, <1>2, <2>1, <2>2, <2>3 DEF IngestInv, IngestType
<1>7. Backlogged'
  <2>1. \A i \in 1..waiting : updates[i] = log[len - waiting + i]
    BY DEF IngestInv, Backlogged
  <2>2. ASSUME NEW i \in 1..(waiting - 1)
        PROVE  updates'[i] = log[len - (waiting - 1) + i]
    <3>1. i + 1 \in 1..waiting /\ len - waiting + (i + 1) = len - (waiting - 1) + i
      BY <1>2
    <3> QED BY <1>2, <2>1, <3>1
  <2> HIDE DEF len, waiting, k
  <2>3. Len(updates') <= Len(log') /\ Len(log') = len
    BY <1>1, <1>2 DEF len
  <2>4. \A i \in 1..Len(updates') : updates'[i] = log'[Len(log') - Len(updates') + i]
    BY <1>1, <1>2, <2>2, <2>3
  <2> QED BY <2>3, <2>4 DEF Backlogged
<1>8. HeldIsLast' /\ InTurn'
  BY <1>1 DEF IngestInv, HeldIsLast, InTurn
\* One more is published, the last.
<1>9. Published' = Published \union {k} /\ \A i \in Published : i <= k /\ ~(k <= i)
  BY <1>1, <1>2 DEF Published
<1>10. k <= k
  BY <1>2
<1> HIDE DEF k
<1>11. \A o \in Object :
         Moves(o)' = IF b.kind = "Detected" /\ b.track.track_id = o
                       THEN Moves(o) \union {k} ELSE Moves(o)
  BY <1>1, <1>9 DEF Moves, b
<1>12. \A o \in Object :
         Flies(o)' = IF b.kind = "Detected" /\ b.track.track_id = o /\ b.track.position.z # "zero"
                       THEN Flies(o) \union {k} ELSE Flies(o)
  <2>1. \A i \in Published : i # k
    BY <1>9, <1>10
  <2>2. \A o \in Object : Moves(o) \subseteq Published
    BY DEF Moves
  <2> QED BY <1>1, <1>11, <2>1, <2>2 DEF Flies, b
<1>13. \A n \in Node :
         Tells(n)' = IF b.kind \in {"Registered", "StatusUpdated"} /\ b.node = n /\ Status(b) # {}
                       THEN Tells(n) \union {k} ELSE Tells(n)
  BY <1>1, <1>9 DEF Tells, b
<1>14. \A said : Latest(said)' = Latest(said)
  BY <1>1 DEF Latest
<1>15. TrackFollowsLatest'
  <2> SUFFICES ASSUME failures' = 0, NEW o \in Object
               PROVE  /\ Field(tracks'[o], "lat")
                           = { << u.track.position.at, "deg" >> : u \in Latest(Moves(o))' }
                      /\ Field(tracks'[o], "lon") = Field(tracks'[o], "lat")
                      /\ Field(tracks'[o], "hae")
                           = { << u.track.position.z, "m" >> : u \in Latest(Flies(o))' }
    BY DEF TrackFollowsLatest
  <2>1. /\ Field(tracks[o], "lat")
             = { << u.track.position.at, "deg" >> : u \in Latest(Moves(o)) }
        /\ Field(tracks[o], "lon") = Field(tracks[o], "lat")
        /\ Field(tracks[o], "hae")
             = { << u.track.position.z, "m" >> : u \in Latest(Flies(o)) }
    BY <1>5 DEF IngestInv, TrackFollowsLatest
  <2>2. \A i \in Moves(o) : i <= k /\ ~(k <= i)
    BY <1>9 DEF Moves
  <2>3. \A i \in Flies(o) : i <= k /\ ~(k <= i)
    BY <2>2 DEF Flies
  <2>4. CASE b.kind = "Detected" /\ b.track.track_id = o
    <3>1. tracks'[o] = Merge(tracks[o], TrackToFields(b.track)) /\ InDegrees(b.track.position)
      BY <1>4, <1>5, <2>4 DEF Faithful
    <3>2. Latest(Moves(o))' = {b}
      BY <1>1, <1>10, <1>11, <2>2, <2>4, LatestIsLast DEF Latest, b
    <3>3. /\ Field(tracks'[o], "lat") = {<< b.track.position.at, "deg" >>}
          /\ Field(tracks'[o], "lon") = {<< b.track.position.at, "deg" >>}
          /\ b.track.position.z # "zero" =>
               Field(tracks'[o], "hae") = {<< b.track.position.z, "m" >>}
          /\ b.track.position.z = "zero" => Field(tracks'[o], "hae") = Field(tracks[o], "hae")
      <4> DEFINE fields == TrackToFields(b.track)
      <4>1. /\ Field(fields, "lat") = {<< b.track.position.at, "deg" >>}
            /\ Field(fields, "lon") = {<< b.track.position.at, "deg" >>}
            /\ b.track.position.z # "zero" => Field(fields, "hae") = {<< b.track.position.z, "m" >>}
            /\ b.track.position.z = "zero" => Field(fields, "hae") = {}
        BY <3>1, FieldOfTrack DEF InDegrees
      <4> HIDE DEF fields
      <4>2. \A name : Field(tracks'[o], name) =
              IF Field(fields, name) = {} THEN Field(tracks[o], name) ELSE Field(fields, name)
        BY <3>1, FieldOfMerge DEF fields
      <4> QED BY <4>1, <4>2
    <3>4. CASE b.track.position.z = "zero"
      <4>1. Latest(Flies(o))' = Latest(Flies(o))
        BY <1>1, <1>12, <3>4 DEF Latest
      <4> QED BY <2>1, <3>2, <3>3, <3>4, <4>1
    <3>5. CASE b.track.position.z # "zero"
      <4>1. Latest(Flies(o))' = {b}
        BY <1>1, <1>10, <1>12, <2>3, <2>4, <3>5, LatestIsLast DEF Latest, b
      <4> QED BY <3>2, <3>3, <3>5, <4>1
    <3> QED BY <3>4, <3>5
  <2>5. CASE ~(b.kind = "Detected" /\ b.track.track_id = o)
    <3>1. tracks'[o] = tracks[o]
      BY <1>5, <2>5
    <3>2. Latest(Moves(o))' = Latest(Moves(o)) /\ Latest(Flies(o))' = Latest(Flies(o))
      BY <1>1, <1>11, <1>12, <2>5 DEF Latest
    <3> QED BY <2>1, <3>1, <3>2
  <2> QED BY <2>4, <2>5
<1>16. HeartbeatKeepsStatus'
  <2> SUFFICES ASSUME failures' = 0, NEW n \in Node
               PROVE  Field(platforms'[n], "operational_status")
                        = UNION { Status(u) : u \in Latest(Tells(n))' }
    BY DEF HeartbeatKeepsStatus
  <2>1. Field(platforms[n], "operational_status") = UNION { Status(u) : u \in Latest(Tells(n)) }
    BY <1>5 DEF IngestInv, HeartbeatKeepsStatus
  <2>2. \A i \in Tells(n) : i <= k /\ ~(k <= i)
    BY <1>9 DEF Tells
  <2>3. CASE b.kind \in {"Registered", "StatusUpdated"} /\ b.node = n
    <3>1. Field(platforms'[n], "operational_status") =
            IF Status(b) = {} THEN Field(platforms[n], "operational_status") ELSE Status(b)
      <4>1. CASE b.kind = "Registered"
        <5>1. platforms'[n] = Merge(platforms[n], PlatformToFields(b.advertisement, {}))
          BY <1>5, <2>3, <4>1
        <5>2. b.advertisement.status # "unspecified" /\ Status(b) = {b.advertisement.status}
          BY <1>4, <4>1 DEF Faithful, Status
        <5> DEFINE fields == PlatformToFields(b.advertisement, {})
        <5>3. Field(fields, "operational_status") = Status(b)
          BY <5>2, FieldOfPlatform
        <5>4. platforms'[n] = Merge(platforms[n], fields)
          BY <5>1
        <5>5. Status(b) # {}
          BY <5>2
        <5> HIDE DEF fields
        <5> QED BY <5>3, <5>4, <5>5, FieldOfMerge
      <4>2. CASE b.kind = "StatusUpdated"
        <5>1. platforms'[n] = Merge(platforms[n], StatusToFields(b.node, b.report))
          BY <1>5, <2>3, <4>2
        <5>2. /\ \A d, e \in b.report.delta : d = e
              /\ Status(b) = { d.status : d \in b.report.delta } \ {"unspecified"}
          BY <1>4, <4>2 DEF Faithful, Status
        <5> DEFINE fields == StatusToFields(b.node, b.report)
        <5>3. Field(fields, "operational_status") = Status(b)
          BY <5>2, FieldOfStatus
        <5>4. platforms'[n] = Merge(platforms[n], fields)
          BY <5>1
        <5> HIDE DEF fields
        <5> QED BY <5>3, <5>4, FieldOfMerge
      <4> QED BY <2>3, <4>1, <4>2
    <3>2. CASE Status(b) = {}
      <4>1. Latest(Tells(n))' = Latest(Tells(n))
        BY <1>1, <1>13, <3>2 DEF Latest
      <4> QED BY <2>1, <3>1, <3>2, <4>1
    <3>3. CASE Status(b) # {}
      <4>1. Latest(Tells(n))' = {b}
        BY <1>1, <1>10, <1>13, <2>2, <2>3, <3>3, LatestIsLast DEF Latest, b
      <4> QED BY <3>1, <3>3, <4>1
    <3> QED BY <3>2, <3>3
  <2>4. CASE ~(b.kind \in {"Registered", "StatusUpdated"} /\ b.node = n)
    <3>1. platforms'[n] = platforms[n]
      BY <1>5, <2>4
    <3>2. Latest(Tells(n))' = Latest(Tells(n))
      BY <1>1, <1>13, <2>4 DEF Latest
    <3> QED BY <2>1, <3>1, <3>2
  <2> QED BY <2>3, <2>4
<1>17. QED
  BY <1>6, <1>7, <1>8, <1>15, <1>16 DEF IngestInv

LEMMA IngestStep == IngestInv /\ GhostInv /\ [Next]_vars => IngestInv'
<1> SUFFICES ASSUME IngestInv, GhostInv, [Next]_vars PROVE IngestInv'
  OBVIOUS
<1>1. CASE TimePasses \/ UNCHANGED vars \/ \E c \in Conn : Accept(c)
  <2>1. UNCHANGED << log, updates, meshVars, held, routed, registry >>
    BY <1>1 DEF TimePasses, Accept, vars, dataVars, channelVars
  <2> QED BY <2>1, QuietKeeps
<1>2. ASSUME NEW fails \in BOOLEAN, Publish(fails) PROVE IngestInv'
  BY <1>2, PublishKeeps
<1>3. ASSUME NEW c \in Conn, SendUpdate(c) \/ Lose(c) \/ \E m \in Message : Read(c, m)
      PROVE  IngestInv'
  BY <1>3, SendKeeps, LoseKeeps, ReadKeeps
<1>4. QED
  BY <1>1, <1>2, <1>3 DEF Next

LEMMA IngestAlways == Spec => []IngestInv
<1>1. Init => IngestInv /\ GhostInv
  BY IngestInitially, GhostInitially
<1>2. (IngestInv /\ GhostInv) /\ [Next]_vars => (IngestInv /\ GhostInv)'
  BY IngestStep, GhostStep
<1>3. QED
  BY <1>1, <1>2, PTL DEF Spec

\* However many connections send at once and are lost, the updates of each are
\* in the channel as it made them (bridge.rs:458, 469-473).
THEOREM UpdatesInTurn == Spec => []InTurn
<1>1. IngestInv => InTurn
  BY DEF IngestInv
<1>2. QED
  BY <1>1, IngestAlways, PTL

\* The status of a platform on the mesh is the last its node has told
\* (mesh_fields.rs:125-140, subscriber.rs:54-67).
THEOREM StatusIsTheLatest == Spec => []HeartbeatKeepsStatus
<1>1. IngestInv => HeartbeatKeepsStatus
  BY DEF IngestInv
<1>2. QED
  BY <1>1, IngestAlways, PTL

\* A track on the mesh is where it was last seen, in degrees and metres, whatever
\* the sensors sent (mesh_fields.rs:43-49, 148-155, detection.rs:232-361).
THEOREM TrackIsTheLatest == Spec => []TrackFollowsLatest
<1>1. IngestInv => TrackFollowsLatest
  BY DEF IngestInv
<1>2. QED
  BY <1>1, IngestAlways, PTL

=============================================================================

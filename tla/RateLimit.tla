------------------------------- MODULE RateLimit -------------------------------
(***************************************************************************)
(* DetectionLimiter (peat-sapient/src/rate_limit.rs): a token bucket per   *)
(* node, filled by the time that passes between two calls of check().      *)
(*                                                                         *)
(* Time is counted in ticks and tokens in fractions: Refill fractions are  *)
(* earned per tick and OneToken of them buy a detection. The code counts   *)
(* in f64; its rounding is left out.                                       *)
(***************************************************************************)
EXTENDS Integers, Sequences

CONSTANTS
  Node,     \* node ids, as the messages claim them
  Refill,   \* max_per_second, in fractions of a token per tick
  OneToken, \* the fractions of a token
  Burst,    \* burst_size
  MaxTime   \* bound of the clock, for TLC

ASSUME LimiterAssumption ==
  /\ Refill \in Nat /\ Burst \in Nat /\ OneToken \in Nat \ {0} /\ MaxTime \in Nat

VARIABLES
  now,
  buckets, \* per node, its tokens and the time of the last check
  granted  \* per node, the times at which check() returned true

limiterVars == << now, buckets, granted >>

Capacity == Burst * OneToken

Limited == Refill > 0 /\ Burst > 0

\* A bucket is made full at the first check, which comes to the same as a full
\* one from the start. None is ever removed.
LimiterInit ==
  /\ now = 0
  /\ buckets = [n \in Node |-> [tokens |-> Capacity, last_check |-> 0]]
  /\ granted = [n \in Node |-> << >>]

Lesser(a, b) == IF a <= b THEN a ELSE b

\* A slip used by the configurations: the tokens have no cap.
FilledUncapped(n) == buckets[n].tokens + (now - buckets[n].last_check) * Refill

\* The tokens a check finds.
Filled(n) ==
  Lesser(buckets[n].tokens + (now - buckets[n].last_check) * Refill, Capacity)

\* check(): the answer, and what it does to the bucket.
Check(n, allowed) ==
  /\ allowed = (~Limited \/ Filled(n) >= OneToken)
  /\ buckets' = IF ~Limited THEN buckets
                ELSE [buckets EXCEPT
                        ![n] = [tokens |-> IF allowed THEN Filled(n) - OneToken ELSE Filled(n),
                                last_check |-> now]]
  /\ granted' = IF allowed THEN [granted EXCEPT ![n] = Append(@, now)] ELSE granted
  /\ UNCHANGED now

Tick ==
  /\ now < MaxTime
  /\ now' = now + 1
  /\ UNCHANGED << buckets, granted >>

LimiterNext == Tick \/ \E n \in Node, allowed \in BOOLEAN : Check(n, allowed)

LimiterSpec == LimiterInit /\ [][LimiterNext]_limiterVars

-----------------------------------------------------------------------------
(***************************************************************************)
(* Properties.                                                             *)
(***************************************************************************)

\* In no window does a node get more than a burst and what the window has
\* earned, whatever came before it: neither a long silence nor a connection
\* lost and made again saves up more (rate_limit.rs:38-50, 72-82).
WindowBound ==
  Limited =>
    \A n \in Node : \A i, j \in DOMAIN granted[n] :
      i <= j => (j - i + 1) * OneToken <= Capacity + (granted[n][j] - granted[n][i]) * Refill

=============================================================================

------------------------------- MODULE Flood -------------------------------
(***************************************************************************)
(* goirc's flood control (rateLimit in connection.go) beside a server that *)
(* counts by Hybrid's algorithm: each line a client sends costs it so many *)
(* seconds, and a client that is too far ahead of the clock is dropped.    *)
(***************************************************************************)
EXTENDS Integers

CONSTANTS
  Limit,           \* 10 seconds
  LinePenalty,     \* 2 seconds
  CharsPerUnit,    \* characters that cost a unit of time, 120 a second
  LongIdle         \* bound: no difference is made between longer pauses

LineTime(chars) == LinePenalty + chars \div CharsPerUnit

ASSUME FloodConstants ==
  /\ Limit \in Nat /\ LinePenalty \in Nat
  /\ CharsPerUnit \in Nat \ {0} /\ LongIdle \in Nat

VARIABLES
  badness,
  elapsed,  \* since conn.lastsent
  asleep,   \* how long write has still to sleep
  penalty   \* what the server counts, beyond its clock

floodVars == <<badness, elapsed, asleep, penalty>>

NoLess(x) == IF x < 0 THEN 0 ELSE x

\* conn.lastsent is at first the time at which the client was made.
FloodInit == badness = 0 /\ elapsed = 0 /\ asleep = 0 /\ penalty = 0

\* Mutated form: the sleep makes up for the excess only.
RateLimitJustEnough(chars) ==
  /\ badness' = NoLess(badness + LineTime(chars) - elapsed)
  /\ elapsed' = 0
  /\ asleep' = NoLess(badness' - Limit - LineTime(chars))
  /\ penalty' = penalty

RateLimit(chars) ==
  /\ badness' = NoLess(badness + LineTime(chars) - elapsed)
  /\ elapsed' = 0
  /\ asleep' = IF badness' > Limit THEN LineTime(chars) ELSE 0
  /\ penalty' = penalty

\* The line reaches the server.
Arrives(chars) ==
  /\ asleep = 0
  /\ penalty' = penalty + LineTime(chars)
  /\ UNCHANGED <<badness, elapsed, asleep>>

TimePasses ==
  /\ elapsed' = IF elapsed < LongIdle THEN elapsed + 1 ELSE LongIdle
  /\ asleep' = NoLess(asleep - 1) /\ penalty' = NoLess(penalty - 1)
  /\ badness' = badness
=============================================================================

----------------------------- MODULE TokenBucket -----------------------------
(***************************************************************************)
(* The per-client rate limiter of security.rs (struct Bucket).             *)
(*                                                                         *)
(* The code keeps tokens as an f64 that refills by cap/period per second.  *)
(* Here a bucket holds the same quantity in whole units: one token is      *)
(* `period' units and a second refills `cap' units, so every value the     *)
(* code computes for instants on whole seconds is an integer.              *)
(***************************************************************************)
EXTENDS Integers

\* Instant::saturating_duration_since: an earlier `now' counts as no time.
Elapsed(now, earlier) == IF now > earlier THEN now - earlier ELSE 0

\* A fresh bucket is full.
NewBucket(cap, period, now) == [units |-> cap * period, updated |-> now]

\* The units after the refill at the start of take, capped at a full bucket.
Refilled(b, cap, period, now) ==
    LET sum == b.units + Elapsed(now, b.updated) * cap
    IN  IF sum < cap * period THEN sum ELSE cap * period

\* take succeeds when one whole token is there.
CanTake(b, cap, period, now) == Refilled(b, cap, period, now) >= period

\* The bucket after take: the refill is kept and stamped even on refusal.
Take(b, cap, period, now) ==
    LET units == Refilled(b, cap, period, now)
    IN  [units   |-> IF units >= period THEN units - period ELSE units,
         updated |-> now]

\* Mutant: rounded down.
RetryAfterEarly(b, cap, period, now) ==
    (period - Refilled(b, cap, period, now)) \div cap

\* The number of seconds a refused caller is told to wait: the time the
\* missing part of a token needs, rounded up, at least one.
RetryAfter(b, cap, period, now) ==
    LET missing == period - Refilled(b, cap, period, now)
        wait    == (missing + cap - 1) \div cap
    IN  IF wait < 1 THEN 1 ELSE wait

=============================================================================

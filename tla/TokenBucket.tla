---------------------------- MODULE TokenBucket ----------------------------
(***************************************************************************)
(* The rate limiter of minicaddy/src/rate_limiter.rs, shared by all the    *)
(* connections of a listener behind a mutex.                               *)
(*                                                                         *)
(* Time is counted in the unit in which a token's fraction accrues: in one *)
(* tick the bucket gains one unit, COST units make a token, the capacity   *)
(* is BURST units (so rate = 1/COST tokens per tick, and elapsed * rate is *)
(* the number of ticks).  The code's f64 arithmetic is taken as exact.     *)
(***************************************************************************)
EXTENDS Integers

CONSTANTS
    COST,      \* units in one token
    BURST,     \* capacity in units
    MaxStep    \* bound: longest time between two steps

ASSUME BucketAssumption ==
    /\ COST \in Nat \ {0}
    /\ BURST \in Nat
    /\ MaxStep \in Nat

VARIABLES
    clock,        \* Instant::now()
    tokens,       \* units in the bucket at last_refill
    last_refill,
    since,        \* start of a window of time an observer looks at
    spent         \* units consumed by requests admitted in that window

vars == <<clock, tokens, last_refill, since, spent>>

Init ==
    /\ clock = 0
    /\ tokens = BURST
    /\ last_refill = 0
    /\ since = 0
    /\ spent = 0

\* The refill: what has accrued, up to the capacity
Refill == IF tokens + (clock - last_refill) <= BURST
          THEN tokens + (clock - last_refill)
          ELSE BURST

\* Mutants: a request costs nothing; a full token is not enough
Consumed_free(t) == t
Charged_more_than_full(t) == IF t > COST THEN COST ELSE 0

Consumed(t) == IF t >= COST THEN t - COST ELSE t
Charged(t) == IF t >= COST THEN COST ELSE 0

\* Mutant: the refill time is not kept
try_consume_no_refill_time ==
    /\ tokens' = Consumed(Refill)
    /\ spent' = spent + Charged(Refill)
    /\ UNCHANGED <<clock, since, last_refill>>

\* try_consume, whole under the lock: the time is read inside it
try_consume ==
    /\ tokens' = Consumed(Refill)
    /\ last_refill' = clock
    /\ spent' = spent + Charged(Refill)
    /\ UNCHANGED <<clock, since>>

Elapse(d) ==
    /\ clock' = clock + d
    /\ UNCHANGED <<tokens, last_refill, since, spent>>

\* The observer starts a new window
Observe ==
    /\ since' = clock
    /\ spent' = 0
    /\ UNCHANGED <<clock, tokens, last_refill>>

Next == try_consume \/ (\E d \in 1 .. MaxStep : Elapse(d)) \/ Observe

Spec == Init /\ [][Next]_vars

-----------------------------------------------------------------------------
(* Properties *)

\* The bucket never holds more than its capacity, and never less than nothing.
TypeOK ==
    /\ clock \in Nat
    /\ tokens \in 0 .. BURST
    /\ last_refill \in 0 .. clock
    /\ since \in 0 .. clock
    /\ spent \in Nat

\* In no window of time, wherever it starts, is more admitted than the burst
\* plus what accrues during the window.
WindowBound == spent <= BURST + (clock - since)

\* What makes WindowBound inductive: the units still in the bucket count too,
\* and nothing is spent in a window before the first refill in it.
BucketInv ==
    /\ last_refill < since => spent = 0
    /\ last_refill >= since => tokens + spent <= BURST + (last_refill - since)

\* A limiter that has been left alone for COST ticks admits the next request,
\* provided a whole token fits into the bucket.
AdmitsAfterPause ==
    [][try_consume /\ clock - last_refill >= COST /\ BURST >= COST
          => spent' = spent + COST]_vars
=============================================================================

------------------------------ MODULE RateLimit ------------------------------
(***************************************************************************)
(* consumeRateLimit (src/src/lib/security/rate-limit.ts) for one key.      *)
(*                                                                         *)
(* A request notes the time, waits for the advisory lock of its key, and   *)
(* then counts itself in the fixed window of the bucket by that time.  The *)
(* retention deletes buckets that are over, without the lock.  Requests of *)
(* one instant are alike, so they are counted and not named.               *)
(***************************************************************************)
EXTENDS Integers

CONSTANTS
  MaxRequests, \* bound: requests made
  Limit,       \* admitted requests per window
  Window,      \* length of a window
  MaxDelay,    \* how long a request may wait for the lock before Prisma gives it up
  Horizon      \* bound: the last instant

\* A transaction of Prisma lasts some seconds, a window a minute and more.
ASSUME RateAssumption ==
  /\ MaxRequests \in Nat /\ Limit \in Nat \ {0} /\ Window \in Nat \ {0}
  /\ MaxDelay \in Nat /\ 2 * MaxDelay <= Window
  /\ Horizon \in Nat

VARIABLES
  now,
  bucket,    \* the RateLimitBucket row
  waiting,   \* by instant: requests made then that wait for the lock
  admitted,  \* by instant: requests made then or later that were let through
  made       \* requests so far

rateVars == <<now, bucket, waiting, admitted, made>>

Instants == 0..Horizon
NoBucket == [count |-> 0, expires |-> 0]

RateInit ==
  /\ now = 0
  /\ bucket = NoBucket
  /\ waiting = [t \in Instants |-> 0]
  /\ admitted = [t \in Instants |-> 0]
  /\ made = 0

\* A request made at the given instant is let through.
Admit(t) == admitted' = [s \in Instants |-> IF s <= t THEN admitted[s] + 1 ELSE admitted[s]]

Ask ==
  /\ made < MaxRequests
  /\ made' = made + 1
  /\ waiting' = [waiting EXCEPT ![now] = @ + 1]
  /\ UNCHANGED <<now, bucket, admitted>>

\* Mutant: the window is over when it has begun before the request, not when it has expired.
WindowBegun(t) == bucket = NoBucket \/ bucket.expires - Window < t

\* A window is over at the very instant it expires.
WindowOver(t) == bucket = NoBucket \/ bucket.expires <= t

\* The transaction under pg_advisory_xact_lock.
Consume(t) ==
  /\ waiting[t] > 0
  /\ waiting' = [waiting EXCEPT ![t] = @ - 1]
  /\ \/ /\ WindowOver(t)
        /\ bucket' = [count |-> 1, expires |-> t + Window]
        /\ Admit(t)
     \/ /\ ~WindowOver(t)
        /\ bucket.count >= Limit
        /\ UNCHANGED <<bucket, admitted>>
     \/ /\ ~WindowOver(t)
        /\ bucket.count < Limit
        /\ bucket' = [bucket EXCEPT !.count = @ + 1]
        /\ Admit(t)
  /\ UNCHANGED <<now, made>>

\* runDataRetention deletes the buckets whose window is over by its own clock.
PurgeBuckets ==
  /\ bucket # NoBucket
  /\ bucket.expires < now
  /\ bucket' = NoBucket
  /\ UNCHANGED <<now, waiting, admitted, made>>

Tick ==
  /\ now < Horizon
  /\ \A t \in Instants : waiting[t] > 0 => now < t + MaxDelay
  /\ now' = now + 1
  /\ UNCHANGED <<bucket, waiting, admitted, made>>

RateNext == Ask \/ (\E t \in Instants : Consume(t)) \/ PurgeBuckets \/ Tick

RateSpec == RateInit /\ [][RateNext]_rateVars

RateTypeOK ==
  /\ now \in Instants
  /\ bucket \in [count : 0..Limit, expires : 0..(Horizon + Window)]
  /\ waiting \in [Instants -> Nat]
  /\ admitted \in [Instants -> Nat]
  /\ made \in 0..MaxRequests

\* The requests made from the first instant to the last that were let through.
Through(first, last) ==
  admitted[first] - IF last + 1 \in Instants THEN admitted[last + 1] ELSE 0

\* No more than two windows' worth of requests is let through within a window's length, wherever
\* it lies against the windows, less twice the time a request may wait for the lock: it counts
\* itself by an older time, and opens a window that old when the retention has deleted the bucket.
BurstBounded ==
  /\ RateTypeOK
  /\ \A t \in Instants : Through(t, t + Window - 2 * MaxDelay) <= 2 * Limit

=============================================================================

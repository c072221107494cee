----------------------------- MODULE RateLimiter -----------------------------
(***************************************************************************)
(* middleware.IPRateLimit: a map from client addresses to the requests     *)
(* counted in a fixed window, under a mutex.  The clock is read before the *)
(* mutex is taken, so requests are judged in another order than their      *)
(* times, against times that are already past.  The map is pruned by the   *)
(* requests themselves, once per window.                                   *)
(*                                                                         *)
(* router.go makes a limiter for each guarded route; this is one of them.  *)
(***************************************************************************)
EXTENDS Integers, FiniteSets

CONSTANTS
    Addresses,  \* ctx.ClientIP()
    Waiters,    \* goroutines that serve requests
    Limit,      \* maxRequests, the default put in for nonsense
    Window,     \* the length of a window, in ticks
    Slack,      \* bound on the ticks that a goroutine waits for the mutex
    Retries,    \* bound on the refused requests of an address in a window
    LastTick    \* bound on the ticks that pass

ASSUME LimiterAssumption ==
    /\ Limit \in Nat \ {0} /\ Window \in Nat \ {0}
    /\ Slack \in 0..(Window - 1)
    /\ Retries \in Nat /\ LastTick \in Nat

VARIABLES
    clock,        \* time.Now()
    buckets,      \* buckets[a]: start of a's window, and the requests in it
    lastCleanup,
    arrived,      \* arrived[w]: the request that w serves, its time read
    passed        \* passed[a]: when, and as which of its bucket, requests of a
                  \*            were let through lately (history)

limiterVars == <<clock, buckets, lastCleanup, arrived, passed>>

None == [address |-> "none", time |-> 0]
Span == Window - Slack  \* what the history covers
-----------------------------------------------------------------------------
Counted(a) == IF a \in DOMAIN buckets THEN buckets[a].count ELSE 0

\* The handler reads the clock, before it takes the mutex.
ReadClock(w, a) ==
    /\ arrived[w] = None /\ Counted(a) < Limit + Retries
    /\ arrived' = [arrived EXCEPT ![w] = [address |-> a, time |-> clock]]
    /\ UNCHANGED <<clock, buckets, lastCleanup, passed>>

\* Faulty: nothing is ever forgotten.
Pruned_Nothing(now) == buckets

\* pruneExpiredRateLimitBuckets
Pruned(now) ==
    [a \in {b \in DOMAIN buckets : now - buckets[b].start < Window} |-> buckets[a]]

\* Faulty: the bucket is a copy, and not written back while its window lasts.
Stored_NewOnly(kept, a, bucket) ==
    IF a \in DOMAIN kept /\ bucket.start = kept[a].start THEN kept
    ELSE [b \in DOMAIN kept \cup {a} |-> IF b = a THEN bucket ELSE kept[b]]

Stored(kept, a, bucket) ==
    [b \in DOMAIN kept \cup {a} |-> IF b = a THEN bucket ELSE kept[b]]

\* The section under the mutex.
Judge(w) ==
    LET a   == arrived[w].address
        now == arrived[w].time
        due == now - lastCleanup >= Window
        kept == IF due THEN Pruned(now) ELSE buckets
        running == a \in DOMAIN kept /\ now - kept[a].start < Window
        bucket == IF running THEN [kept[a] EXCEPT !.count = @ + 1]
                  ELSE [start |-> now, count |-> 1]
    IN  /\ arrived[w] # None
        /\ lastCleanup' = IF due THEN now ELSE lastCleanup
        /\ buckets' = Stored(kept, a, bucket)
        /\ passed' = IF bucket.count <= Limit
                     THEN [passed EXCEPT ![a] = @ \cup {[at |-> clock, as |-> bucket]}]
                     ELSE passed
        /\ arrived' = [arrived EXCEPT ![w] = None]
        /\ UNCHANGED clock

\* Nobody waits for the mutex longer than Slack.
ClockTicks ==
    /\ clock < LastTick
    /\ \A w \in Waiters : arrived[w] # None => clock - arrived[w].time < Slack
    /\ clock' = clock + 1
    /\ passed' = [a \in Addresses |-> {p \in passed[a] : p.at + Span > clock'}]
    /\ UNCHANGED <<buckets, lastCleanup, arrived>>

\* A new process starts with an empty map.
LimiterRestarts ==
    /\ buckets' = <<>> /\ lastCleanup' = clock
    /\ arrived' = [w \in Waiters |-> None]
    /\ passed' = [a \in Addresses |-> {}]
    /\ UNCHANGED clock
-----------------------------------------------------------------------------
LimiterInit ==
    /\ clock = 0 /\ lastCleanup = 0
    /\ buckets = <<>>
    /\ arrived = [w \in Waiters |-> None]
    /\ passed = [a \in Addresses |-> {}]

LimiterNext ==
    \/ \E w \in Waiters : Judge(w) \/ \E a \in Addresses : ReadClock(w, a)
    \/ ClockTicks \/ LimiterRestarts

LimiterSpec == LimiterInit /\ [][LimiterNext]_limiterVars
-----------------------------------------------------------------------------
\* However the requests overtake one another at the mutex, and whenever the
\* map is pruned, within any window less the wait an address gets fewer than
\* twice the limit through (the end of one window and all of the next), as long
\* as the process lives.
FewerThanTwice == \A a \in Addresses : Cardinality(passed[a]) < 2 * Limit

\* The map does not grow with every address that was ever seen: after a request
\* it holds only addresses that came within the last two windows.
StaleBucketsGo ==
    [][\A w \in Waiters : arrived[w] # None /\ arrived'[w] = None =>
         \A a \in DOMAIN buckets' :
           arrived[w].time - buckets'[a].start < 2 * Window]_limiterVars
=============================================================================

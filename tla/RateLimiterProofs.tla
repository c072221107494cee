-------------------------- MODULE RateLimiterProofs --------------------------
(***************************************************************************)
(* The map of the limiter holds only recent addresses, and no address gets *)
(* twice the limit through within a window less the wait for the mutex:    *)
(* for every limit, window and number of clients, and however long         *)
(* goroutines wait, as long as it is less than a window.                   *)
(***************************************************************************)
EXTENDS RateLimiter, FiniteSetTheorems, TLAPS

Waiting(w) == arrived[w] # None

\* The inductive invariant: no bucket had run out when the map was last pruned,
\* and a request that waits is hardly older than the clock.
LimiterInv ==
    /\ clock \in Nat /\ lastCleanup \in 0..clock
    /\ arrived \in [Waiters -> [address : Addresses, time : 0..clock] \cup {None}]
    /\ \A w \in Waiters : Waiting(w) => clock - arrived[w].time <= Slack
    /\ DOMAIN buckets \subseteq Addresses
    /\ \A a \in DOMAIN buckets : /\ buckets[a].start \in Nat
                                 /\ lastCleanup - buckets[a].start < Window

\* The invariant holds of a new process.
LEMMA LimiterStarts == LimiterInit => LimiterInv
BY LimiterAssumption DEF LimiterInit, LimiterInv, Waiting, None

\* What the section under the mutex does to the map, whichever way it goes.
LEMMA JudgeKeepsRecent ==
    ASSUME LimiterInv, NEW w \in Waiters, Judge(w)
    PROVE  /\ LimiterInv'
           /\ \A a \in DOMAIN buckets' :
                arrived[w].time - buckets'[a].start < 2 * Window
<1> DEFINE a   == arrived[w].address
           now == arrived[w].time
           due == now - lastCleanup >= Window
           kept == IF due THEN Pruned(now) ELSE buckets
           running == a \in DOMAIN kept /\ now - kept[a].start < Window
           bucket == IF running THEN [kept[a] EXCEPT !.count = @ + 1]
                     ELSE [start |-> now, count |-> 1]
<1>1. /\ a \in Addresses /\ now \in 0..clock
      /\ clock \in Nat /\ lastCleanup \in 0..clock /\ clock - now <= Slack
      /\ Window \in Nat \ {0} /\ Slack \in 0..(Window - 1)
  <2>1. arrived[w] # None BY DEF Judge
  <2>2. arrived[w] \in [address : Addresses, time : 0..clock]
    BY <2>1 DEF LimiterInv
  <2> QED BY <2>1, <2>2, LimiterAssumption DEF LimiterInv, Waiting
<1>2. \A b \in DOMAIN kept : /\ b \in DOMAIN buckets /\ kept[b] = buckets[b]
                             /\ due => now - kept[b].start < Window
  BY DEF Pruned
<1>3. /\ buckets' = Stored(kept, a, bucket)
      /\ lastCleanup' = IF due THEN now ELSE lastCleanup
      /\ arrived' = [arrived EXCEPT ![w] = None] /\ clock' = clock
  BY DEF Judge
<1>4. DOMAIN buckets' = DOMAIN kept \cup {a} /\ DOMAIN buckets' \subseteq Addresses
  BY <1>1, <1>2, <1>3 DEF Stored, LimiterInv
<1>5. ASSUME NEW b \in DOMAIN buckets'
      PROVE  \/ buckets'[b].start = now
             \/ b \in DOMAIN kept /\ buckets'[b].start = buckets[b].start
  <2>1. buckets'[b] = IF b = a THEN bucket ELSE kept[b]
    BY <1>3, <1>4 DEF Stored
  <2>2. CASE b = a /\ ~running
    BY <2>1, <2>2
  <2>3. CASE b = a /\ running
    <3>1. bucket.start = kept[a].start BY <2>3
    <3> QED BY <2>1, <2>3, <3>1, <1>2
  <2>4. CASE b # a
    BY <2>1, <2>4, <1>2, <1>4
  <2> QED BY <2>2, <2>3, <2>4
<1>6. ASSUME NEW b \in DOMAIN buckets'
      PROVE  /\ buckets'[b].start \in Nat
             /\ lastCleanup' - buckets'[b].start < Window
             /\ now - buckets'[b].start < 2 * Window
  <2> HIDE DEF a, now, due, kept, bucket, running
  <2>1. CASE buckets'[b].start = now
    BY <2>1, <1>1, <1>3
  <2>2. CASE b \in DOMAIN kept /\ buckets'[b].start = buckets[b].start
    <3>1. /\ buckets[b].start \in Nat
          /\ lastCleanup - buckets[b].start < Window
          /\ due => now - buckets[b].start < Window
      BY <1>2, <2>2 DEF LimiterInv
    <3>2. ~due => now - lastCleanup < Window BY <1>1 DEF due
    <3> QED BY <2>2, <3>1, <3>2, <1>1, <1>3
  <2> QED BY <1>5, <2>1, <2>2
<1>7. /\ lastCleanup' \in 0..clock'
      /\ arrived' \in [Waiters -> [address : Addresses, time : 0..clock'] \cup {None}]
      /\ \A v \in Waiters : Waiting(v)' => Waiting(v) /\ arrived'[v] = arrived[v]
  BY <1>1, <1>3 DEF LimiterInv, Waiting
<1> QED BY <1>1, <1>3, <1>4, <1>6, <1>7 DEF LimiterInv

\* Every step keeps the invariant.
LEMMA LimiterSteps == LimiterInv /\ [LimiterNext]_limiterVars => LimiterInv'
<1> SUFFICES ASSUME LimiterInv, [LimiterNext]_limiterVars PROVE LimiterInv'
  OBVIOUS
<1> USE LimiterAssumption
<1>1. ASSUME NEW w \in Waiters, Judge(w) PROVE LimiterInv'
  BY <1>1, JudgeKeepsRecent
<1>2. ASSUME NEW w \in Waiters, NEW a \in Addresses, ReadClock(w, a) PROVE LimiterInv'
  <2>1. [address |-> a, time |-> clock] \in [address : Addresses, time : 0..clock]
    BY DEF LimiterInv
  <2> QED BY <1>2, <2>1 DEF ReadClock, LimiterInv, Waiting
<1>3. CASE ClockTicks
  <2>1. clock' = clock + 1 /\ UNCHANGED <<buckets, lastCleanup, arrived>>
    BY <1>3 DEF ClockTicks
  <2>2. arrived' \in [Waiters -> [address : Addresses, time : 0..clock'] \cup {None}]
    BY <2>1 DEF LimiterInv
  <2>3. ASSUME NEW w \in Waiters, Waiting(w)' PROVE clock' - arrived'[w].time <= Slack
    <3>1. arrived[w] \in [address : Addresses, time : 0..clock]
      BY <2>1, <2>3 DEF LimiterInv, Waiting
    <3>2. arrived[w].time \in 0..clock BY <3>1
    <3>3. clock - arrived[w].time < Slack BY <2>1, <2>3, <1>3 DEF ClockTicks, Waiting
    <3> QED BY <2>1, <3>2, <3>3 DEF LimiterInv
  <2> QED BY <2>1, <2>2, <2>3 DEF LimiterInv
<1>4. CASE LimiterRestarts
  BY <1>4 DEF LimiterRestarts, LimiterInv, Waiting, None
<1>5. CASE UNCHANGED limiterVars
  BY <1>5 DEF limiterVars, LimiterInv, Waiting
<1> QED BY <1>1, <1>2, <1>3, <1>4, <1>5 DEF LimiterNext

\* The invariant of the limiter.
THEOREM LimiterInvariance == LimiterSpec => []LimiterInv
BY LimiterStarts, LimiterSteps, PTL DEF LimiterSpec

\* rateLimitBucket: however many addresses come, and however their requests
\* overtake one another at the mutex, the map holds those of the last two
\* windows only (pruneExpiredRateLimitBuckets).
THEOREM MapStaysRecent == LimiterSpec => StaleBucketsGo
<1> DEFINE Recent ==
      \A w \in Waiters : arrived[w] # None /\ arrived'[w] = None =>
        \A a \in DOMAIN buckets' : arrived[w].time - buckets'[a].start < 2 * Window
<1>1. LimiterInv /\ LimiterNext => Recent
  <2> SUFFICES ASSUME LimiterInv, LimiterNext,
                      NEW w \in Waiters, arrived[w] # None, arrived'[w] = None,
                      NEW a \in DOMAIN buckets'
               PROVE  arrived[w].time - buckets'[a].start < 2 * Window
    OBVIOUS
  <2>1. ASSUME NEW v \in Waiters, Judge(v)
        PROVE  arrived[w].time - buckets'[a].start < 2 * Window
    <3>1. v = w BY <2>1 DEF Judge, LimiterInv
    <3> QED BY <2>1, <3>1, JudgeKeepsRecent
  <2>2. ASSUME NEW v \in Waiters, NEW b \in Addresses, ReadClock(v, b) PROVE FALSE
    <3>1. v # w BY <2>2 DEF ReadClock
    <3> QED BY <2>2, <3>1 DEF ReadClock, LimiterInv
  <2>3. CASE ClockTicks BY <2>3 DEF ClockTicks
  <2>4. CASE LimiterRestarts BY <2>4 DEF LimiterRestarts
  <2> QED BY <2>1, <2>2, <2>3, <2>4 DEF LimiterNext
<1>2. LimiterInv /\ [LimiterNext]_limiterVars => [Recent]_limiterVars
  BY <1>1
<1> QED BY <1>2, LimiterInvariance, PTL DEF LimiterSpec, StaleBucketsGo
-----------------------------------------------------------------------------
(***************************************************************************)
(* How many get through.  A bucket is opened at a time when its address    *)
(* has fewer than Limit recent requests, and from the end of its window on *)
(* its first request is no longer recent: whoever opened it read the clock *)
(* at its start, and was let through Slack later at the latest.            *)
(***************************************************************************)
Bucket == [start : Nat, count : Nat \ {0}]

\* How many of a bucket's requests were let through.
Admitted(b) == IF b.count <= Limit THEN b.count ELSE Limit

\* The recent requests of a that cannot be the first of a bucket of this start.
Later(a, start) == {p \in passed[a] : p.at > start + Slack}

\* What a bucket says of its address.
Bounds(a, b) ==
    /\ b \in Bucket
    /\ Cardinality(passed[a]) < Limit + Admitted(b)
    /\ Cardinality(Later(a, b.start)) < Admitted(b)

PassInv ==
    /\ DOMAIN passed = Addresses
    /\ \A a \in Addresses :
         /\ IsFiniteSet(passed[a])
         /\ \A p \in passed[a] : p.at \in 0..clock /\ p.at + Span > clock
         /\ a \in DOMAIN buckets => Bounds(a, buckets[a])
         /\ a \notin DOMAIN buckets => Cardinality(passed[a]) < Limit

\* When a bucket has run out, its address has fewer than Limit recent requests.
LEMMA RunOutLeavesFew ==
    ASSUME LimiterInv, PassInv, NEW a \in DOMAIN buckets, NEW now \in 0..clock,
           now - buckets[a].start >= Window
    PROVE  Cardinality(passed[a]) < Limit
<1>1. /\ a \in Addresses /\ buckets[a].start \in Nat /\ clock \in Nat
      /\ buckets[a].count \in Nat
      /\ Cardinality(Later(a, buckets[a].start)) < Admitted(buckets[a])
  BY DEF LimiterInv, PassInv, Bounds, Bucket
<1>2. \A p \in passed[a] : p.at > buckets[a].start + Slack
  BY <1>1, LimiterAssumption DEF PassInv, Span
<1>3. Later(a, buckets[a].start) = passed[a] BY <1>2 DEF Later
<1>4. Admitted(buckets[a]) <= Limit BY <1>1, LimiterAssumption DEF Admitted
<1>5. Cardinality(passed[a]) \in Nat BY <1>1, FS_CardinalityType DEF PassInv
<1>6. Admitted(buckets[a]) \in Nat BY <1>1, LimiterAssumption DEF Admitted
<1> QED BY <1>1, <1>3, <1>4, <1>5, <1>6, LimiterAssumption

\* What the section under the mutex does, told with values: a request of some
\* a, whose clock read now, makes a's bucket b and leaves every other address
\* as it was, or forgets it when its bucket has run out.
LEMMA JudgeInValues ==
    ASSUME LimiterInv, PassInv, NEW w \in Waiters, Judge(w)
    PROVE  \E a \in Addresses, now \in 0..clock, b \in Bucket :
             /\ clock' = clock /\ clock - now <= Slack
             /\ DOMAIN passed' = Addresses
             /\ a \in DOMAIN buckets' /\ buckets'[a] = b
             /\ \/ b.count <= Limit /\ passed'[a] = passed[a] \cup {[at |-> clock, as |-> b]}
                \/ ~(b.count <= Limit) /\ passed'[a] = passed[a]
             /\ \/ b.start = now /\ b.count = 1 /\ Cardinality(passed[a]) < Limit
                \/ /\ a \in DOMAIN buckets
                   /\ b.start = buckets[a].start /\ b.count = buckets[a].count + 1
             /\ \A c \in Addresses \ {a} :
                  /\ passed'[c] = passed[c]
                  /\ c \in DOMAIN buckets' => c \in DOMAIN buckets /\ buckets'[c] = buckets[c]
                  /\ c \notin DOMAIN buckets' => Cardinality(passed[c]) < Limit
<1> DEFINE a   == arrived[w].address
           now == arrived[w].time
           due == now - lastCleanup >= Window
           kept == IF due THEN Pruned(now) ELSE buckets
           running == a \in DOMAIN kept /\ now - kept[a].start < Window
           bucket == IF running THEN [kept[a] EXCEPT !.count = @ + 1]
                     ELSE [start |-> now, count |-> 1]
           entry == [at |-> clock, as |-> bucket]
<1>1. /\ a \in Addresses /\ now \in 0..clock
      /\ clock \in Nat /\ clock - now <= Slack
      /\ Window \in Nat \ {0} /\ Slack \in 0..(Window - 1) /\ Limit \in Nat \ {0}
  <2>1. arrived[w] # None BY DEF Judge
  <2>2. arrived[w] \in [address : Addresses, time : 0..clock]
    BY <2>1 DEF LimiterInv
  <2> QED BY <2>1, <2>2, LimiterAssumption DEF LimiterInv, Waiting
<1>2. \A b \in Addresses : b \in DOMAIN kept => b \in DOMAIN buckets /\ kept[b] = buckets[b]
  BY DEF Pruned
<1>3. \A b \in Addresses : b \notin DOMAIN kept => Cardinality(passed[b]) < Limit
  <2> TAKE b \in Addresses
  <2>1. CASE b \notin DOMAIN buckets BY <2>1 DEF PassInv
  <2>2. CASE b \in DOMAIN buckets /\ b \notin DOMAIN kept
    <3>1. now - buckets[b].start >= Window
      <4>1. ~(now - buckets[b].start < Window) BY <2>2 DEF Pruned
      <4>2. buckets[b].start \in Nat BY <2>2 DEF LimiterInv
      <4> QED BY <4>1, <4>2, <1>1
    <3> QED BY <3>1, <2>2, <1>1, RunOutLeavesFew
  <2> QED BY <2>1, <2>2
<1>4. /\ buckets' = Stored(kept, a, bucket) /\ clock' = clock
      /\ passed' = IF bucket.count <= Limit
                   THEN [passed EXCEPT ![a] = @ \cup {entry}] ELSE passed
  BY DEF Judge
<1>5. DOMAIN buckets' = DOMAIN kept \cup {a} /\ DOMAIN passed' = Addresses
  BY <1>4 DEF Stored, PassInv
<1>6. buckets'[a] = bucket BY <1>4, <1>5 DEF Stored
<1>7. \A c \in Addresses \ {a} :
        /\ passed'[c] = passed[c]
        /\ c \in DOMAIN buckets' => c \in DOMAIN buckets /\ buckets'[c] = buckets[c]
        /\ c \notin DOMAIN buckets' => Cardinality(passed[c]) < Limit
  <2> TAKE c \in Addresses \ {a}
  <2>1. passed'[c] = passed[c] BY <1>4 DEF PassInv
  <2>2. c \in DOMAIN buckets' => c \in DOMAIN kept /\ buckets'[c] = kept[c]
    BY <1>4, <1>5 DEF Stored
  <2>3. c \notin DOMAIN buckets' => c \notin DOMAIN kept BY <1>5
  <2> QED BY <2>1, <2>2, <2>3, <1>2, <1>3
<1>8. \/ bucket.count <= Limit /\ passed'[a] = passed[a] \cup {entry}
      \/ ~(bucket.count <= Limit) /\ passed'[a] = passed[a]
  BY <1>1, <1>4 DEF PassInv
<1>9. \/ bucket.start = now /\ bucket.count = 1 /\ Cardinality(passed[a]) < Limit
      \/ /\ a \in DOMAIN buckets
         /\ bucket.start = buckets[a].start /\ bucket.count = buckets[a].count + 1
  <2>1. CASE ~running
    <3>1. bucket.start = now /\ bucket.count = 1 BY <2>1
    <3>2. Cardinality(passed[a]) < Limit
      <4>1. CASE a \notin DOMAIN kept BY <4>1, <1>1, <1>3
      <4>2. CASE a \in DOMAIN kept
        <5>1. a \in DOMAIN buckets /\ ~(now - buckets[a].start < Window)
          BY <4>2, <2>1, <1>1, <1>2
        <5>2. buckets[a].start \in Nat BY <5>1 DEF LimiterInv
        <5> QED BY <5>1, <5>2, <1>1, RunOutLeavesFew
      <4> QED BY <4>1, <4>2
    <3> QED BY <3>1, <3>2
  <2>2. CASE running
    <3>1. a \in DOMAIN buckets /\ kept[a] = buckets[a] BY <2>2, <1>1, <1>2
    <3>2. bucket = [buckets[a] EXCEPT !.count = @ + 1] BY <2>2, <3>1
    <3>3. buckets[a] \in Bucket
      BY <3>1, <1>1 DEF PassInv, Bounds
    <3> QED BY <3>1, <3>2, <3>3 DEF Bucket
  <2> QED BY <2>1, <2>2
<1>10. bucket \in Bucket
  <2>1. CASE ~running BY <2>1, <1>1 DEF Bucket
  <2>2. CASE running
    <3>1. a \in DOMAIN buckets /\ kept[a] = buckets[a] BY <2>2, <1>1, <1>2
    <3>2. buckets[a] \in Bucket BY <3>1, <1>1 DEF PassInv, Bounds
    <3>3. bucket = [buckets[a] EXCEPT !.count = @ + 1] BY <2>2, <3>1
    <3> QED BY <3>2, <3>3 DEF Bucket
  <2> QED BY <2>1, <2>2
<1> HIDE DEF a, now, bucket, kept, due, running
<1> QED BY <1>1, <1>4, <1>5, <1>6, <1>7, <1>8, <1>9, <1>10

\* The section under the mutex keeps the count.
LEMMA JudgeKeepsCount ==
    ASSUME LimiterInv, PassInv, NEW w \in Waiters, Judge(w)
    PROVE  PassInv'
<1>1. PICK a \in Addresses, now \in 0..clock, b \in Bucket :
             /\ clock' = clock /\ clock - now <= Slack
             /\ DOMAIN passed' = Addresses
             /\ a \in DOMAIN buckets' /\ buckets'[a] = b
             /\ \/ b.count <= Limit /\ passed'[a] = passed[a] \cup {[at |-> clock, as |-> b]}
                \/ ~(b.count <= Limit) /\ passed'[a] = passed[a]
             /\ \/ b.start = now /\ b.count = 1 /\ Cardinality(passed[a]) < Limit
                \/ /\ a \in DOMAIN buckets
                   /\ b.start = buckets[a].start /\ b.count = buckets[a].count + 1
             /\ \A c \in Addresses \ {a} :
                  /\ passed'[c] = passed[c]
                  /\ c \in DOMAIN buckets' => c \in DOMAIN buckets /\ buckets'[c] = buckets[c]
                  /\ c \notin DOMAIN buckets' => Cardinality(passed[c]) < Limit
  BY JudgeInValues
<1> DEFINE entry == [at |-> clock, as |-> b]
<1>2. /\ clock \in Nat /\ Limit \in Nat \ {0} /\ Slack \in Nat /\ Window \in Nat
      /\ Slack < Window
  BY LimiterAssumption DEF LimiterInv
<1>3. ASSUME NEW c \in Addresses, c # a
      PROVE  /\ c \in DOMAIN buckets' => Bounds(c, buckets[c])'
             /\ c \notin DOMAIN buckets' => Cardinality(passed'[c]) < Limit
             /\ IsFiniteSet(passed'[c])
             /\ \A p \in passed'[c] : p.at \in 0..clock' /\ p.at + Span > clock'
  <2>1. c \in DOMAIN buckets' => Bounds(c, buckets[c]) /\ buckets'[c] = buckets[c]
    BY <1>1, <1>3 DEF PassInv
  <2>2. passed'[c] = passed[c] BY <1>1, <1>3
  <2> QED BY <2>1, <2>2, <1>1, <1>3 DEF PassInv, Bounds, Later, Admitted
<1>4. /\ IsFiniteSet(passed[a]) /\ Cardinality(passed[a]) \in Nat
      /\ \A p \in passed[a] : p.at \in 0..clock /\ p.at + Span > clock
  BY FS_CardinalityType DEF PassInv
<1>5. /\ IsFiniteSet(passed'[a])
      /\ \A p \in passed'[a] : p.at \in 0..clock' /\ p.at + Span > clock'
      /\ Cardinality(passed'[a]) <= Cardinality(passed[a]) + (IF b.count <= Limit THEN 1 ELSE 0)
      /\ Cardinality(passed'[a]) \in Nat
  <2>1. CASE ~(b.count <= Limit) /\ passed'[a] = passed[a]
    BY <2>1, <1>1, <1>4
  <2>2. CASE b.count <= Limit /\ passed'[a] = passed[a] \cup {entry}
    <3>1. /\ IsFiniteSet(passed[a] \cup {entry})
          /\ Cardinality(passed[a] \cup {entry}) =
               IF entry \in passed[a] THEN Cardinality(passed[a]) ELSE Cardinality(passed[a]) + 1
      BY <1>4, FS_AddElement
    <3>2. entry.at = clock /\ clock + Span > clock BY <1>2 DEF Span
    <3>3. \A p \in passed'[a] : p.at \in 0..clock' /\ p.at + Span > clock'
      BY <3>2, <2>2, <1>1, <1>2, <1>4
    <3> HIDE DEF entry
    <3> QED BY <3>1, <3>3, <2>2, <1>4
  <2> QED BY <2>1, <2>2, <1>1
<1>6. Bounds(a, b)'
  <2>1. CASE b.start = now /\ b.count = 1 /\ Cardinality(passed[a]) < Limit
    <3>1. Later(a, b.start)' = {}
      BY <2>1, <1>1, <1>2, <1>5 DEF Later
    <3>2. Cardinality({}) = 0 BY FS_EmptySet
    <3>3. Admitted(b) = 1 BY <2>1, <1>2 DEF Admitted
    <3>4. Cardinality(passed'[a]) < Limit + 1 BY <2>1, <1>2, <1>4, <1>5
    <3> QED BY <2>1, <3>1, <3>2, <3>3, <3>4, <1>1, <1>2 DEF Bounds, Admitted
  <2>2. CASE /\ a \in DOMAIN buckets
             /\ b.start = buckets[a].start /\ b.count = buckets[a].count + 1
    <3>1. /\ Bounds(a, buckets[a])
          /\ buckets[a].count \in Nat \ {0} /\ buckets[a].start \in Nat
      BY <2>2 DEF PassInv, Bounds, Bucket
    <3>2. b \in Bucket /\ b.count \in Nat \ {0} /\ b.start \in Nat BY <1>1 DEF Bucket
    <3>3. Admitted(b) = Admitted(buckets[a]) + (IF b.count <= Limit THEN 1 ELSE 0)
      BY <2>2, <3>1, <3>2, <1>2 DEF Admitted
    <3>4. Admitted(b) \in Nat /\ Admitted(buckets[a]) \in Nat
      BY <3>1, <3>2, <1>2 DEF Admitted
    <3>5. Cardinality(passed'[a]) < Limit + Admitted(b)
      BY <3>1, <3>3, <3>4, <1>2, <1>4, <1>5 DEF Bounds
    <3>6. Cardinality(Later(a, b.start)') < Admitted(b)
      <4> DEFINE before == Later(a, b.start)
                 after  == {p \in passed'[a] : p.at > b.start + Slack}
      <4>1. after = Later(a, b.start)' BY DEF Later
      <4>2. /\ IsFiniteSet(before) /\ Cardinality(before) \in Nat
        BY <1>4, FS_Subset, FS_CardinalityType DEF Later
      <4>3. Cardinality(before) < Admitted(buckets[a])
        BY <3>1, <2>2 DEF Bounds
      <4>4. CASE ~(b.count <= Limit) /\ passed'[a] = passed[a]
        <5>1. after = before BY <4>4 DEF Later
        <5> HIDE DEF before, after
        <5> QED BY <5>1, <4>1, <4>2, <4>3, <4>4, <3>3, <3>4
      <4>5. CASE b.count <= Limit /\ passed'[a] = passed[a] \cup {entry}
        <5>1. after \subseteq before \cup {entry} BY <4>5 DEF Later
        <5>2. /\ IsFiniteSet(before \cup {entry})
              /\ Cardinality(before \cup {entry}) =
                   IF entry \in before THEN Cardinality(before) ELSE Cardinality(before) + 1
          BY <4>2, FS_AddElement
        <5>3. Cardinality(after) <= Cardinality(before \cup {entry}) /\ IsFiniteSet(after)
          BY <5>1, <5>2, FS_Subset
        <5>4. Cardinality(after) \in Nat BY <5>3, FS_CardinalityType
        <5> HIDE DEF before, after, entry
        <5> QED BY <5>2, <5>3, <5>4, <4>1, <4>2, <4>3, <4>5, <3>3, <3>4
      <4> QED BY <4>4, <4>5, <1>1
    <3> QED BY <3>2, <3>5, <3>6 DEF Bounds, Admitted
  <2> QED BY <2>1, <2>2, <1>1
<1> QED BY <1>1, <1>3, <1>5, <1>6 DEF PassInv

\* Time only forgets requests.
LEMMA TickKeepsCount ==
    ASSUME LimiterInv, PassInv, ClockTicks
    PROVE  PassInv'
<1>1. /\ clock \in Nat /\ clock' = clock + 1 /\ buckets' = buckets
      /\ passed' = [a \in Addresses |-> {p \in passed[a] : p.at + Span > clock'}]
      /\ Limit \in Nat \ {0} /\ Span \in Nat
  BY LimiterAssumption DEF LimiterInv, ClockTicks, Span
<1>2. ASSUME NEW a \in Addresses
      PROVE  /\ IsFiniteSet(passed'[a])
             /\ \A p \in passed'[a] : p.at \in 0..clock' /\ p.at + Span > clock'
             /\ a \in DOMAIN buckets' => Bounds(a, buckets[a])'
             /\ a \notin DOMAIN buckets' => Cardinality(passed'[a]) < Limit
  <2>1. IsFiniteSet(passed[a]) /\ passed'[a] \subseteq passed[a]
    BY <1>1 DEF PassInv
  <2>2. /\ IsFiniteSet(passed'[a]) /\ Cardinality(passed'[a]) <= Cardinality(passed[a])
        /\ Cardinality(passed'[a]) \in Nat /\ Cardinality(passed[a]) \in Nat
    BY <2>1, FS_Subset, FS_CardinalityType
  <2>3. \A p \in passed'[a] : p.at \in 0..clock' /\ p.at + Span > clock'
    BY <1>1 DEF PassInv
  <2>4. ASSUME a \in DOMAIN buckets' PROVE Bounds(a, buckets[a])'
    <3>1. Bounds(a, buckets[a]) BY <1>1, <2>4 DEF PassInv
    <3> DEFINE start == buckets[a].start
               before == {p \in passed[a] : p.at > start + Slack}
               after  == {p \in passed'[a] : p.at > start + Slack}
    <3>2. after \subseteq before BY <2>1
    <3>3. IsFiniteSet(before) BY <2>1, FS_Subset
    <3>4. /\ Cardinality(after) <= Cardinality(before)
          /\ Cardinality(after) \in Nat /\ Cardinality(before) \in Nat
      BY <3>2, <3>3, FS_Subset, FS_CardinalityType
    <3>5. buckets[a].count \in Nat /\ Admitted(buckets[a]) \in Nat
      BY <3>1, <1>1 DEF Bounds, Bucket, Admitted
    <3>6. Cardinality(before) < Admitted(buckets[a]) BY <3>1 DEF Bounds, Later
    <3>7. after = Later(a, start)' BY <1>1 DEF Later
    <3> HIDE DEF before, after
    <3>8. Cardinality(Later(a, start)') < Admitted(buckets[a]) BY <3>4, <3>5, <3>6, <3>7
    <3>9. Cardinality(passed'[a]) < Limit + Admitted(buckets[a])
      BY <2>2, <3>1, <3>5, <1>1 DEF Bounds
    <3> QED BY <3>1, <3>8, <3>9, <1>1 DEF Bounds, Admitted
  <2>5. a \notin DOMAIN buckets' => Cardinality(passed'[a]) < Limit
    <3>1. a \notin DOMAIN buckets => Cardinality(passed[a]) < Limit BY DEF PassInv
    <3> QED BY <3>1, <2>2, <1>1
  <2> QED BY <2>2, <2>3, <2>4, <2>5
<1> QED BY <1>1, <1>2 DEF PassInv

\* Nothing else is let through.
LEMMA CountHolds == LimiterSpec => []PassInv
<1>1. LimiterInit => PassInv
  BY FS_EmptySet, LimiterAssumption DEF LimiterInit, PassInv
<1>2. LimiterInv /\ PassInv /\ [LimiterNext]_limiterVars => PassInv'
  <2> SUFFICES ASSUME LimiterInv, PassInv, [LimiterNext]_limiterVars PROVE PassInv'
    OBVIOUS
  <2>1. ASSUME NEW w \in Waiters, Judge(w) PROVE PassInv'
    BY <2>1, JudgeKeepsCount
  <2>2. ASSUME NEW w \in Waiters, NEW a \in Addresses, ReadClock(w, a) PROVE PassInv'
    BY <2>2 DEF ReadClock, PassInv, Bounds, Later, Admitted
  <2>3. CASE ClockTicks BY <2>3, TickKeepsCount
  <2>4. CASE LimiterRestarts
    BY <2>4, FS_EmptySet, LimiterAssumption DEF LimiterRestarts, PassInv
  <2>5. CASE UNCHANGED limiterVars
    BY <2>5 DEF limiterVars, PassInv, Bounds, Later, Admitted
  <2> QED BY <2>1, <2>2, <2>3, <2>4, <2>5 DEF LimiterNext
<1> QED BY <1>1, <1>2, LimiterInvariance, PTL DEF LimiterSpec

\* IPRateLimit lets no address get twice the limit through within a window less
\* the longest wait for the mutex, however requests overtake one another there.
THEOREM LimitHolds == LimiterSpec => []FewerThanTwice
<1>1. LimiterInv /\ PassInv => FewerThanTwice
  <2> SUFFICES ASSUME LimiterInv, PassInv, NEW a \in Addresses
               PROVE  Cardinality(passed[a]) < 2 * Limit
    BY DEF FewerThanTwice
  <2>1. Limit \in Nat \ {0} BY LimiterAssumption
  <2>2. Cardinality(passed[a]) \in Nat BY FS_CardinalityType DEF PassInv
  <2>3. CASE a \notin DOMAIN buckets BY <2>1, <2>2, <2>3 DEF PassInv
  <2>4. CASE a \in DOMAIN buckets
    <3>1. Cardinality(passed[a]) < Limit + Admitted(buckets[a]) /\ buckets[a].count \in Nat
      BY <2>4 DEF PassInv, Bounds, Bucket
    <3>2. Admitted(buckets[a]) \in 0..Limit BY <3>1, <2>1 DEF Admitted
    <3> QED BY <2>1, <2>2, <3>1, <3>2
  <2> QED BY <2>3, <2>4
<1> QED BY <1>1, LimiterInvariance, CountHolds, PTL
=============================================================================

----------------------------- MODULE VectorClock -----------------------------
(***************************************************************************)
(* The vector clocks of internal/service/vector_clock.go: comparison,      *)
(* merge and the bump the server makes in its own name.  A clock travels   *)
(* as a JSON object of non-negative 64-bit counters.  A key that is        *)
(* missing from the object reads as 0 in every operation of the source,    *)
(* so a clock is a total function here.                                    *)
(***************************************************************************)
EXTENDS Integers

CONSTANTS Actors,   \* the keys a clock may have: devices and "server-cleanup"
          MaxInt    \* the largest value of a counter (2^63 - 1 in the source)

ASSUME MaxIntAssumption == MaxInt \in Nat \ {0}

\* What parseVectorClockJSON accepts: no counter is negative.
Clock == [Actors -> 0..MaxInt]

\* The clock "{}", the default of the vector_clock column.
EmptyClock == [k \in Actors |-> 0]

(***************************************************************************)
(* compareVectorClock(incoming, current)                                   *)
(***************************************************************************)
SomeGreater(a, b) == \E k \in Actors : a[k] > b[k]

\* Faulty: only the incoming side is looked at.
Compare_OneSided(incoming, current) ==
    IF SomeGreater(incoming, current) THEN "newer" ELSE "older"

Compare(incoming, current) ==
    CASE ~SomeGreater(incoming, current) /\ ~SomeGreater(current, incoming) -> "equal"
      [] SomeGreater(incoming, current) /\ ~SomeGreater(current, incoming)  -> "newer"
      [] ~SomeGreater(incoming, current) /\ SomeGreater(current, incoming)  -> "older"
      [] OTHER                                                              -> "conflict"

Newer(a, b) == Compare(a, b) = "newer"

(***************************************************************************)
(* mergeVectorClocks(left, right)                                          *)
(***************************************************************************)
\* Faulty: the sides are merged the wrong way round.
Merge_Least(left, right) ==
    [k \in Actors |-> IF right[k] < left[k] THEN right[k] ELSE left[k]]

Merge(left, right) ==
    [k \in Actors |-> IF right[k] > left[k] THEN right[k] ELSE left[k]]

(***************************************************************************)
(* bumpVectorClock(clock, actor, minimum).  The addition is Go's int64     *)
(* addition: one past MaxInt is the smallest negative number.              *)
(***************************************************************************)
Wrap(n) == IF n > MaxInt THEN n - 2 * (MaxInt + 1) ELSE n

\* Faulty: the minimum replaces the count.
Bump_Minimum(clock, actor, minimum) == [clock EXCEPT ![actor] = minimum]

\* Faulty: the actor counts down.
Bump_Down(clock, actor, minimum) == [clock EXCEPT ![actor] = @ - 1]

Bump(clock, actor, minimum) ==
    LET next == Wrap(clock[actor] + 1)
    IN  [clock EXCEPT ![actor] = IF minimum > next THEN minimum ELSE next]
-----------------------------------------------------------------------------
(***************************************************************************)
(* The laws the services rely on.  A clock stands for the history of       *)
(* events it has seen: the first clock[k] events of every actor k.         *)
(***************************************************************************)
History(clock) == {e \in Actors \X (1..MaxInt) : e[2] <= clock[e[1]]}

\* Comparison is inclusion of histories: "newer" means that nothing the other
\* side saw is missing, "conflict" that each side saw something of its own.
ComparesHistories(a, b) ==
    LET within == History(a) \subseteq History(b)
        covers == History(b) \subseteq History(a)
    IN  Compare(a, b) = CASE within /\ covers  -> "equal"
                          [] covers /\ ~within -> "newer"
                          [] within /\ ~covers -> "older"
                          [] OTHER              -> "conflict"

\* A merge has seen what either side saw and nothing else, and is strictly
\* newer than both sides of a conflict (Delete-Wins relies on it).
MergesHistories(a, b) ==
    /\ Merge(a, b) \in Clock
    /\ History(Merge(a, b)) = History(a) \cup History(b)
    /\ Compare(a, b) = "conflict" => Newer(Merge(a, b), a) /\ Newer(Merge(a, b), b)

\* A server's bump is newer than what it bumps, below the end of the range.
BumpsForward(a, actor, minimum) ==
    a[actor] < MaxInt => /\ Bump(a, actor, minimum) \in Clock
                         /\ Newer(Bump(a, actor, minimum), a)
=============================================================================

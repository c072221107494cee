-------------------------- MODULE VectorClockProofs --------------------------
(***************************************************************************)
(* The laws of VectorClock for every set of actors and every width.        *)
(***************************************************************************)
EXTENDS VectorClock, TLAPS

\* What compareVectorClock's "newer" says, counter by counter.
LEMMA NewerMeans ==
    ASSUME NEW a \in Clock, NEW b \in Clock
    PROVE  Newer(a, b) <=> /\ \A k \in Actors : a[k] >= b[k]
                           /\ \E k \in Actors : a[k] > b[k]
  <1>1. \A k \in Actors : a[k] \in Int /\ b[k] \in Int
    BY MaxIntAssumption DEF Clock
  <1>2. SomeGreater(b, a) <=> ~(\A k \in Actors : a[k] >= b[k])
    BY <1>1 DEF SomeGreater
  <1> QED
    BY <1>2 DEF Newer, Compare, SomeGreater

\* What compareVectorClock's "conflict" says.
LEMMA ConflictMeans ==
    ASSUME NEW a \in Clock, NEW b \in Clock
    PROVE  Compare(a, b) = "conflict" <=> SomeGreater(a, b) /\ SomeGreater(b, a)
  BY DEF Compare

\* "Newer" is transitive: a chain of accepted updates never comes back to an
\* older clock, so a delayed copy of any of them is refused.
THEOREM NewerTransitive ==
    \A a, b, c \in Clock : Newer(a, b) /\ Newer(b, c) => Newer(a, c)
  <1> SUFFICES ASSUME NEW a \in Clock, NEW b \in Clock, NEW c \in Clock,
                      Newer(a, b), Newer(b, c)
               PROVE  Newer(a, c)
    OBVIOUS
  <1>1. \A k \in Actors : a[k] \in Int /\ b[k] \in Int /\ c[k] \in Int
    BY MaxIntAssumption DEF Clock
  <1>2. \A k \in Actors : a[k] >= b[k] /\ b[k] >= c[k]
    BY NewerMeans
  <1>3. ASSUME NEW k \in Actors PROVE a[k] >= c[k]
    <2>1. a[k] \in Int /\ b[k] \in Int /\ c[k] \in Int
      BY <1>1
    <2>2. a[k] >= b[k] /\ b[k] >= c[k]
      BY <1>2
    <2> QED
      BY <2>1, <2>2
  <1>4. PICK k \in Actors : a[k] > b[k]
    BY NewerMeans
  <1>5. a[k] > c[k]
    BY <1>1, <1>2, <1>4
  <1> QED
    BY <1>3, <1>5, NewerMeans

\* A clock is not newer than itself, nor than a clock that is newer than it.
LEMMA NewerAsymmetric ==
    ASSUME NEW a \in Clock, NEW b \in Clock, Newer(a, b)
    PROVE  ~Newer(b, a) /\ a # b
  <1>1. \A k \in Actors : a[k] \in Int /\ b[k] \in Int
    BY MaxIntAssumption DEF Clock
  <1> QED
    BY <1>1, NewerMeans

LEMMA MergeInClock ==
    ASSUME NEW a \in Clock, NEW b \in Clock
    PROVE  Merge(a, b) \in Clock
  BY MaxIntAssumption DEF Clock, Merge

\* mergeVectorClocks joins the two histories, and the merge of a conflict is
\* newer than both of its sides.
THEOREM MergeJoins == \A a, b \in Clock : MergesHistories(a, b)
  <1> SUFFICES ASSUME NEW a \in Clock, NEW b \in Clock
               PROVE  MergesHistories(a, b)
    OBVIOUS
  <1>1. \A k \in Actors : a[k] \in 0..MaxInt /\ b[k] \in 0..MaxInt
    BY DEF Clock
  <1>2. \A k \in Actors : Merge(a, b)[k] = IF b[k] > a[k] THEN b[k] ELSE a[k]
    BY DEF Merge
  <1>3. History(Merge(a, b)) = History(a) \cup History(b)
    <2>1. \A k \in Actors, n \in 1..MaxInt :
             n <= Merge(a, b)[k] <=> (n <= a[k] \/ n <= b[k])
      BY <1>1, <1>2, MaxIntAssumption
    <2> QED
      BY <2>1 DEF History
  <1>4. ASSUME Compare(a, b) = "conflict"
        PROVE  Newer(Merge(a, b), a) /\ Newer(Merge(a, b), b)
    <2>1. SomeGreater(a, b) /\ SomeGreater(b, a)
      BY <1>4, ConflictMeans
    <2>2. /\ \A k \in Actors : Merge(a, b)[k] >= a[k] /\ Merge(a, b)[k] >= b[k]
          /\ \E k \in Actors : Merge(a, b)[k] > a[k]
          /\ \E k \in Actors : Merge(a, b)[k] > b[k]
      BY <1>1, <1>2, <2>1, MaxIntAssumption DEF SomeGreater
    <2> QED
      BY <2>2, NewerMeans, MergeInClock
  <1> QED
    BY <1>3, <1>4, MergeInClock DEF MergesHistories

\* compareVectorClock decides inclusion of histories: there are no other cases
\* and no two overlap.
THEOREM CompareDecides == \A a, b \in Clock : ComparesHistories(a, b)
  <1>1. ASSUME NEW a \in Clock, NEW b \in Clock
        PROVE  SomeGreater(a, b) <=> ~(History(a) \subseteq History(b))
    <2>1. \A k \in Actors : a[k] \in 0..MaxInt /\ b[k] \in 0..MaxInt
      BY DEF Clock
    <2>2. ASSUME SomeGreater(a, b) PROVE ~(History(a) \subseteq History(b))
      <3>1. PICK k \in Actors : a[k] > b[k]
        BY <2>2 DEF SomeGreater
      <3>2. a[k] \in 1..MaxInt
        BY <2>1, <3>1, MaxIntAssumption
      <3>3. <<k, a[k]>> \in History(a)
        BY <2>1, <3>2 DEF History
      <3>4. <<k, a[k]>> \notin History(b)
        BY <2>1, <3>1 DEF History
      <3> QED
        BY <3>3, <3>4
    <2>3. ASSUME ~SomeGreater(a, b) PROVE History(a) \subseteq History(b)
      <3>1. ASSUME NEW k \in Actors PROVE a[k] <= b[k]
        <4>1. a[k] \in Int /\ b[k] \in Int
          BY <2>1, MaxIntAssumption
        <4>2. ~(a[k] > b[k])
          BY <2>3 DEF SomeGreater
        <4> QED
          BY <4>1, <4>2
      <3> SUFFICES ASSUME NEW e \in History(a) PROVE e \in History(b)
        OBVIOUS
      <3>2. e \in Actors \X (1..MaxInt) /\ e[2] <= a[e[1]]
        BY DEF History
      <3>3. e[1] \in Actors /\ e[2] \in 1..MaxInt
        BY <3>2
      <3>4. a[e[1]] <= b[e[1]] /\ a[e[1]] \in Int /\ b[e[1]] \in Int
        BY <2>1, <3>1, <3>3
      <3>5. e[2] <= b[e[1]]
        BY <3>2, <3>3, <3>4
      <3> QED
        BY <3>2, <3>5 DEF History
    <2> QED
      BY <2>2, <2>3
  <1> QED
    BY <1>1 DEF ComparesHistories, Compare

\* bumpVectorClock makes a newer clock unless the counter is at its limit.
THEOREM BumpAdvances ==
    \A a \in Clock, actor \in Actors, minimum \in 0..MaxInt :
       BumpsForward(a, actor, minimum)
  <1> SUFFICES ASSUME NEW a \in Clock, NEW actor \in Actors, NEW minimum \in 0..MaxInt,
                      a[actor] < MaxInt
               PROVE  Bump(a, actor, minimum) \in Clock /\ Newer(Bump(a, actor, minimum), a)
    BY DEF BumpsForward
  <1> DEFINE bumped == Bump(a, actor, minimum)
  <1>1. \A k \in Actors : a[k] \in 0..MaxInt
    BY DEF Clock
  <1>2. Wrap(a[actor] + 1) = a[actor] + 1
    BY <1>1, MaxIntAssumption DEF Wrap
  <1>3. /\ bumped[actor] \in 0..MaxInt /\ bumped[actor] > a[actor]
        /\ \A k \in Actors \ {actor} : bumped[k] = a[k]
    BY <1>1, <1>2, MaxIntAssumption DEF Bump, Clock
  <1>4. bumped \in Clock
    BY <1>1, <1>3 DEF Bump, Clock
  <1>5. Newer(bumped, a)
    <2> HIDE DEF bumped
    <2>1. ASSUME NEW k \in Actors PROVE bumped[k] >= a[k]
      <3>1. a[k] \in Int /\ bumped[actor] \in Int
        BY <1>1, <1>3, MaxIntAssumption
      <3>2. CASE k = actor
        BY <3>1, <3>2, <1>3
      <3>3. CASE k # actor
        BY <3>1, <3>3, <1>3
      <3> QED
        BY <3>2, <3>3
    <2> QED
      BY <1>3, <1>4, <2>1, NewerMeans
  <1> QED
    BY <1>4, <1>5
=============================================================================

------------------------ MODULE ConfigLifecycleProofs ------------------------
(***************************************************************************)
(* What the store promises clients that name the asset of every upload     *)
(* (BoundClients): clocks that only move forward, operations that change a *)
(* row at most once, tombstones that stay until a device has seen them,    *)
(* and, in sum, the life cycle of AssetLifecycle.                          *)
(***************************************************************************)
EXTENDS ConfigStoreProofs

(***************************************************************************)
(* Bound clients never reach the legacy statements, so no row is written   *)
(* back: every row has an asset and every write of it is made under the    *)
(* lock.                                                                   *)
(***************************************************************************)
BoundHandler(s) ==
    /\ s.at \notin {"bind", "save"}
    /\ s.at # "idle" => s.in.asset # NoAsset

BoundInv ==
    /\ \A id \in Ids : Exists(id) => rows[id].asset \in Assets /\ id < nextId
    /\ \A h \in Handlers : BoundHandler(handler[h])

LEMMA BoundDispatch ==
    ASSUME NEW in, NEW id, NEW r, in.asset # NoAsset, r.asset # NoAsset
    PROVE  \/ Dispatch(in, id, r) = Idle
           \/ Dispatch(in, id, r) = At("mutate", [in EXCEPT !.asset = r.asset], 0, NoRow)
  BY Zenon DEF Dispatch

LEMMA BoundHandlersStep ==
    ASSUME BoundClients, Inv, BoundInv, NEW h \in Handlers, Handle(h)
    PROVE  \A g \in Handlers : BoundHandler(handler'[g])
  <1>0. BoundHandler(Idle) /\ handler \in [Handlers -> HandlerState]
        /\ handler[h] \in HandlerState /\ BoundHandler(handler[h])
    BY DEF BoundHandler, Idle, Inv, InvOf, TypeOK, BoundInv
  <1>1. ASSUME NEW s, BoundHandler(s), handler' = [handler EXCEPT ![h] = s]
        PROVE  \A g \in Handlers : BoundHandler(handler'[g])
    BY <1>0, <1>1 DEF BoundInv
  <1>2. ASSUME NEW in \in KeptUpload, in.asset # NoAsset, NEW id \in Ids, Exists(id)
        PROVE  BoundHandler(Dispatch(in, id, rows[id]))
    <2>1. rows[id].asset # NoAsset
      BY <1>2, NamesAssumption DEF BoundInv
    <2>2. BoundHandler(At("mutate", [in EXCEPT !.asset = rows[id].asset], 0, NoRow))
      BY <1>2, <2>1 DEF BoundHandler, At, KeptUpload
    <2> QED
      BY <1>0, <1>2, <2>1, <2>2, BoundDispatch
  <1>3. ASSUME NEW in \in UploadInputs, FindUploadTarget(h, in)
        PROVE  \A g \in Handlers : BoundHandler(handler'[g])
    <2>1. in \in KeptUpload /\ in.asset # NoAsset
      BY UploadInputKept, ClosedSets DEF BoundClients
    <2>2. BoundHandler(At("create", in, 0, NoRow))
      BY <2>1 DEF BoundHandler, At
    <2>3. \E s : BoundHandler(s) /\ handler' = [handler EXCEPT ![h] = s]
      BY <1>2, <1>3, <2>1, <2>2 DEF FindUploadTarget, Holds
    <2> QED
      BY <1>1, <2>3
  <1>4. ASSUME CreateUpload(h) PROVE \A g \in Handlers : BoundHandler(handler'[g])
    <2>1. handler[h].at = "create"
      BY <1>4 DEF CreateUpload
    <2>2. BoundHandler([handler[h] EXCEPT !.at = "winner"])
      BY <1>0, <2>1 DEF BoundHandler, HandlerState
    <2>3. \E s : BoundHandler(s) /\ handler' = [handler EXCEPT ![h] = s]
      BY <1>0, <1>4, <2>2 DEF CreateUpload
    <2> QED
      BY <1>1, <2>3
  <1>5. ASSUME FindWinner(h) PROVE \A g \in Handlers : BoundHandler(handler'[g])
    <2>1. handler[h].in \in KeptUpload /\ handler[h].in.asset # NoAsset
      BY <1>0, <1>5 DEF HandlerState, KeptUpload, BoundHandler, FindWinner
    <2>2. \E s : BoundHandler(s) /\ handler' = [handler EXCEPT ![h] = s]
      BY <1>0, <1>2, <1>5, <2>1 DEF FindWinner, Holds
    <2> QED
      BY <1>1, <2>2
  <1>6. CASE CheckBinding(h) \/ SaveLegacy(h) \/ MutateUpload(h)
    BY <1>0, <1>1, <1>6 DEF CheckBinding, SaveLegacy, MutateUpload, BoundHandler
  <1> QED
    BY <1>3, <1>4, <1>5, <1>6 DEF Handle

LEMMA OthersKeepHandlers ==
    ASSUME [Next]_vars
    PROVE  \/ \E h \in Handlers : Handle(h)
           \/ UNCHANGED handler
           \/ handler' = [h \in Handlers |-> Idle]
  <1>1. ASSUME NEW o \in Ops, Operate(o) PROVE UNCHANGED handler
    BY <1>1 DEF Operate, DeleteAsset, RestoreAsset, PurgeAsset, Apply
  <1>2. ASSUME NEW w \in Workers, Sweep(w) PROVE UNCHANGED handler
    BY <1>2 DEF Sweep, ListExpired, PurgeExpired, PurgeFails, ListCandidates,
                JudgeCandidates, ReclaimTombstones
  <1>3. ASSUME NEW d \in Devices, Acknowledge(d) PROVE UNCHANGED handler
    BY <1>3 DEF Acknowledge, CheckAck, AcknowledgeDevice
  <1>4. ASSUME NEW id \in Ids, DeleteLegacy(id) PROVE UNCHANGED handler
    BY <1>4 DEF DeleteLegacy, requestVars
  <1>5. CASE Crash \/ Tick \/ UNCHANGED vars
    BY <1>5 DEF Crash, Tick, vars
  <1> QED
    BY <1>1, <1>2, <1>3, <1>4, <1>5 DEF Next

\* With BoundInv a table step is simpler: nothing is written back, and what
\* disappears is a tombstone.
LEMMA BoundTable ==
    ASSUME Inv, BoundInv, TableStep
    PROVE  \/ UNCHANGED <<rows, seq>> /\ nextId' \in {nextId, nextId + 1}
           \/ \E r \in Row : Insert(r) /\ r.asset \in Assets /\ ~Exists(nextId)
           \/ \E id \in Ids, r \in Row : Change(id, r)
           \/ \E gone \in SUBSET Ids : Remove(gone)
  <1>1. \A id \in Ids, r \in Row : ~WriteBack(id, r)
    BY DEF WriteBack, BoundInv, BoundHandler
  <1>2. ASSUME NEW r \in Row, Insert(r) PROVE r.asset \in Assets /\ ~Exists(nextId)
    <2>1. r.asset # NoAsset
      BY <1>2 DEF Insert, BoundInv, BoundHandler
    <2>2. ~Exists(nextId)
      BY <1>2, BoundsAssumption DEF Insert, BoundInv, Ids
    <2> QED
      BY <2>1, <2>2 DEF Row
  <1> QED
    BY <1>1, <1>2 DEF TableStep

\* The rows stay bound, whoever takes the step.
LEMMA BoundRows ==
    ASSUME Inv, BoundInv, TableStep
    PROVE  \A id \in Ids : Exists(id)' => rows'[id].asset \in Assets /\ id < nextId'
  <1>0. nextId \in Nat /\ Ids \subseteq Nat
    BY BoundsAssumption DEF Inv, InvOf, TypeOK, Ids
  <1>1. CASE UNCHANGED rows /\ nextId' \in {nextId, nextId + 1}
    <2> SUFFICES ASSUME NEW id \in Ids, Exists(id)'
                 PROVE  rows'[id].asset \in Assets /\ id < nextId'
      OBVIOUS
    <2>1. rows[id].asset \in Assets /\ id < nextId /\ id \in Nat
      BY <1>0, <1>1 DEF BoundInv, Exists
    <2> QED
      BY <1>0, <1>1, <2>1
  <1>2. ASSUME NEW r \in Row, Insert(r), r.asset \in Assets
        PROVE  \A id \in Ids : Exists(id)' => rows'[id].asset \in Assets /\ id < nextId'
    <2>1. /\ nextId \in Ids /\ nextId' = nextId + 1 /\ rows'[nextId].asset = r.asset
          /\ \A j \in Ids \ {nextId} : rows'[j] = rows[j]
      BY <1>2, CommitMeans DEF Insert
    <2> QED
      BY <1>0, <1>2, <2>1 DEF BoundInv, Exists
  <1>3. ASSUME NEW k \in Ids, NEW r \in Row, Change(k, r)
        PROVE  \A id \in Ids : Exists(id)' => rows'[id].asset \in Assets /\ id < nextId'
    <2>1. /\ Exists(k) /\ nextId' = nextId /\ rows'[k].asset = rows[k].asset
          /\ \A j \in Ids \ {k} : rows'[j] = rows[j]
      BY <1>3, CommitMeans DEF Change, Moves, Exists
    <2> QED
      BY <2>1 DEF BoundInv, Exists
  <1>4. ASSUME NEW gone \in SUBSET Ids, Remove(gone)
        PROVE  \A id \in Ids : Exists(id)' => rows'[id].asset \in Assets /\ id < nextId'
    BY <1>4 DEF Remove, BoundInv, Exists, NoRow
  <1> QED
    BY <1>1, <1>2, <1>3, <1>4, BoundTable

LEMMA BoundStep == BoundClients /\ RoomInv /\ BoundInv /\ [Next]_vars => BoundInv'
  <1> SUFFICES ASSUME BoundClients, RoomInv, BoundInv, [Next]_vars PROVE BoundInv'
    OBVIOUS
  <1>1. \A h \in Handlers : BoundHandler(handler'[h])
    BY RoomInvMeans, BoundHandlersStep, OthersKeepHandlers DEF BoundInv, BoundHandler, Idle
  <1>2. \A id \in Ids : Exists(id)' => rows'[id].asset \in Assets /\ id < nextId'
    BY RoomInvMeans, BoundRows, NextTable
  <1> QED
    BY <1>1, <1>2 DEF BoundInv

LEMMA BoundInit == BoundClients /\ Init => BoundInv
  BY BoundsAssumption DEF BoundClients, Init, BoundInv, BoundHandler, Idle, Ids, Exists, NoRow

\* What clients that bind every upload to an asset keep true of the rows.
THEOREM BoundInvariance == BoundClients => (Spec => []BoundInv)
  <1> SUFFICES ASSUME BoundClients PROVE Spec => []BoundInv
    OBVIOUS
  <1>1. Init => BoundInv
    BY BoundInit
  <1>2. RoomInv /\ BoundInv /\ [Next]_vars => BoundInv'
    BY BoundStep
  <1> QED
    BY <1>1, <1>2, Invariance, PTL DEF Spec
-----------------------------------------------------------------------------
(***************************************************************************)
(* Clocks move forward.                                                    *)
(***************************************************************************)
LEMMA ForwardStep ==
    ASSUME Inv, BoundInv, TableStep, NEW id \in Ids, Exists(id), rows'[id].state # "none"
    PROVE  rows'[id].clock = rows[id].clock \/ Newer(rows'[id].clock, rows[id].clock)
  <1>1. ASSUME NEW r \in Row, Insert(r), ~Exists(nextId)
        PROVE  rows'[id] = rows[id]
    BY <1>1, CommitMeans DEF Insert
  <1>2. ASSUME NEW k \in Ids, NEW r \in Row, Change(k, r)
        PROVE  rows'[id] = rows[id] \/ Newer(rows'[id].clock, rows[id].clock)
    BY <1>2, CommitMeans DEF Change
  <1>3. ASSUME NEW gone \in SUBSET Ids, Remove(gone)
        PROVE  rows'[id] = rows[id]
    BY <1>3 DEF Remove, NoRow
  <1> QED
    BY <1>1, <1>2, <1>3, BoundTable

\* No write, of any client or of a sweep, takes a row back to an older or a
\* concurrent clock.
THEOREM ClocksMoveForward == BoundClients => (Spec => ClockForward)
  <1> SUFFICES ASSUME BoundClients PROVE Spec => ClockForward
    OBVIOUS
  <1>1. RoomInv /\ BoundInv /\ [Next]_vars => [\A id \in Ids :
             Exists(id) /\ rows'[id].state # "none" =>
                rows'[id].clock = rows[id].clock \/ Newer(rows'[id].clock, rows[id].clock)]_vars
    BY NextTable, RoomInvMeans, ForwardStep
  <1> QED
    BY <1>1, BoundInvariance, Invariance, PTL DEF Spec, ClockForward

LEMMA OverwriteStep ==
    ASSUME Inv, BoundInv, TableStep, NEW id \in Ids,
           IsDeleted(rows[id]), rows'[id].state = "active"
    PROVE  Newer(rows'[id].clock, rows[id].clock)
  <1>0. Exists(id) /\ rows'[id] # rows[id]
    BY DEF IsDeleted, Exists
  <1>1. ASSUME NEW r \in Row, Insert(r), ~Exists(nextId) PROVE FALSE
    BY <1>0, <1>1, CommitMeans DEF Insert
  <1>2. ASSUME NEW k \in Ids, NEW r \in Row, Change(k, r)
        PROVE  Newer(rows'[id].clock, rows[id].clock)
    BY <1>0, <1>2, CommitMeans DEF Change
  <1>3. ASSUME NEW gone \in SUBSET Ids, Remove(gone) PROVE FALSE
    BY <1>0, <1>3 DEF Remove, NoRow
  <1> QED
    BY <1>0, <1>1, <1>2, <1>3, BoundTable

\* The document's promise that an older version never overwrites a newer
\* tombstone: a legacy upload breaks it, clients that name their assets cannot.
THEOREM TombstonesResistBoundClients == BoundClients => (Spec => TombstoneNotOverwritten)
  <1> SUFFICES ASSUME BoundClients PROVE Spec => TombstoneNotOverwritten
    OBVIOUS
  <1>1. RoomInv /\ BoundInv /\ [Next]_vars => [\A id \in Ids :
             IsDeleted(rows[id]) /\ rows'[id].state = "active" =>
                Newer(rows'[id].clock, rows[id].clock)]_vars
    BY NextTable, RoomInvMeans, OverwriteStep
  <1> QED
    BY <1>1, BoundInvariance, Invariance, PTL DEF Spec, TombstoneNotOverwritten
-----------------------------------------------------------------------------
(***************************************************************************)
(* Operations take effect at most once.  The reason is not the identifier  *)
(* of the last operation, which a later operation overwrites, but the      *)
(* clock: once an operation has changed a row, the row's clock covers the  *)
(* operation's clock for as long as the row exists, so every later         *)
(* delivery is refused.                                                    *)
(***************************************************************************)
Covers(a, b) == \A k \in Actors : a[k] >= b[k]

OnceFor(o, id) ==
    /\ effects[o][id] \in {0, 1}
    /\ effects[o][id] = 1 =>
         /\ id < nextId
         /\ \E i \in Intents : issued[o] = {i} /\ (Exists(id) => Covers(rows[id].clock, i.clock))

OnceInv == \A o \in Ops, id \in Ids : OnceFor(o, id)

LEMMA CoversMeans ==
    ASSUME NEW a \in Clock, NEW b \in Clock
    PROVE  /\ Covers(a, b) <=> ~SomeGreater(b, a)
           /\ Newer(a, b) => Covers(a, b)
           /\ Compare(a, b) \in {"newer", "conflict"} => SomeGreater(a, b)
  <1>1. \A k \in Actors : a[k] \in Int /\ b[k] \in Int
    BY MaxIntAssumption DEF Clock
  <1>2. Covers(a, b) <=> ~SomeGreater(b, a)
    BY <1>1 DEF Covers, SomeGreater
  <1>3. Newer(a, b) => Covers(a, b)
    BY <1>2, NewerMeans DEF Covers
  <1>4. Compare(a, b) \in {"newer", "conflict"} => SomeGreater(a, b)
    BY ConflictMeans, NewerMeans DEF Newer, SomeGreater
  <1> QED
    BY <1>2, <1>3, <1>4

LEMMA CoversTransitive ==
    ASSUME NEW a \in Clock, NEW b \in Clock, NEW c \in Clock, Covers(a, b), Covers(b, c)
    PROVE  Covers(a, c)
  <1> SUFFICES ASSUME NEW k \in Actors PROVE a[k] >= c[k]
    BY DEF Covers
  <1>1. a[k] \in Int /\ b[k] \in Int /\ c[k] \in Int
    BY MaxIntAssumption DEF Clock
  <1>2. a[k] >= b[k] /\ b[k] >= c[k]
    BY DEF Covers
  <1> QED
    BY <1>1, <1>2

LEMMA DeleteClockCovers ==
    ASSUME NEW a \in Clock, NEW b \in Clock
    PROVE  Covers(DeleteClock(a, b), a)
  <1>1. \A k \in Actors : a[k] \in Int /\ b[k] \in Int
    BY MaxIntAssumption DEF Clock
  <1>2. Covers(Merge(a, b), a) /\ Covers(a, a)
    BY <1>1 DEF Covers, Merge
  <1> QED
    BY <1>2 DEF DeleteClock

\* What an operation does, in the terms of OnceInv.
LEMMA OperateMeans ==
    ASSUME Inv, NEW o \in Ops, Operate(o)
    PROVE  \E i \in Intents, id \in Ids :
              /\ issued[o] \subseteq {i} /\ Exists(id) /\ SomeGreater(i.clock, rows[id].clock)
              /\ issued' = [issued EXCEPT ![o] = {i}]
              /\ effects' = [effects EXCEPT ![o][id] = @ + 1]
              /\ Covers(rows'[id].clock, i.clock)
              /\ UNCHANGED nextId
  <1> PICK i \in Intents : DeleteAsset(o, i) \/ RestoreAsset(o, i) \/ PurgeAsset(o, i)
    BY DEF Operate
  <1>0. i.clock \in Clock /\ issued[o] \subseteq {i} /\ i.asset \in Assets
    BY InputsAssumption DEF Intent, DeleteAsset, RestoreAsset, PurgeAsset
  <1>1. ASSUME NEW id \in Ids, NEW r \in Row, Apply(o, i, id, r), Covers(r.clock, i.clock)
        PROVE  /\ issued' = [issued EXCEPT ![o] = {i}]
               /\ effects' = [effects EXCEPT ![o][id] = @ + 1]
               /\ Covers(rows'[id].clock, i.clock)
               /\ UNCHANGED nextId
    <2> DEFINE signed == [r EXCEPT !.lastOp = o]
    <2>1. signed \in Row /\ signed.clock = r.clock
      BY DEF Row
    <2>2. Commit(id, signed)
      BY <1>1 DEF Apply
    <2> HIDE DEF signed
    <2>3. rows'[id].clock = signed.clock
      BY <2>1, <2>2, CommitMeans
    <2> QED
      BY <1>1, <2>1, <2>3 DEF Apply
  <1>2. ASSUME DeleteAsset(o, i)
        PROVE  \E id \in Ids, r \in Row :
                  /\ Exists(id) /\ SomeGreater(i.clock, rows[id].clock)
                  /\ Covers(r.clock, i.clock) /\ Apply(o, i, id, r)
    <2> PICK id \in Ids, days \in Retentions :
          /\ Holds(id, i.asset)
          /\ rows[id].state # "purged"
          /\ Compare(i.clock, rows[id].clock) \in {"newer", "conflict"}
          /\ Apply(o, i, id, Trashed(rows[id], DeleteClock(i.clock, rows[id].clock), days))
      BY <1>2 DEF DeleteAsset
    <2> DEFINE clock == DeleteClock(i.clock, rows[id].clock)
               new == Trashed(rows[id], clock, days)
    <2>0. rows[id] \in Row /\ RowOK(Clock, rows[id])
      BY DEF Inv, InvOf, TypeOK
    <2>a. rows[id].state \in {"active", "deleted"}
      BY <2>0 DEF Row, Holds, Exists
    <2>b. rows[id].asset # NoAsset
      BY <1>0, NamesAssumption DEF Holds
    <2>c. rows[id].clock \in Clock
      BY <2>0 DEF Row
    <2>1. /\ rows[id] \in Row /\ RowOK(Clock, rows[id]) /\ rows[id].clock \in Clock
          /\ rows[id].state \in {"active", "deleted"} /\ rows[id].asset # NoAsset
      BY <2>0, <2>a, <2>b, <2>c
    <2>3. clock \in Clock /\ Covers(clock, i.clock)
      BY <1>0, <2>1, ClosedSets, DeleteClockBelow, DeleteClockCovers DEF RowOK
    <2> HIDE DEF clock
    <2>4. new \in Row /\ new.clock = clock
      BY <2>1, <2>3, ClosedSets, TrashedOK DEF Inv
    <2>5. SomeGreater(i.clock, rows[id].clock)
      BY <1>0, <2>1, CoversMeans
    <2>6. Apply(o, i, id, new)
      BY DEF clock
    <2> HIDE DEF new
    <2> QED
      BY <2>3, <2>4, <2>5, <2>6 DEF Holds
  <1>3. ASSUME RestoreAsset(o, i)
        PROVE  \E id \in Ids, r \in Row :
                  /\ Exists(id) /\ SomeGreater(i.clock, rows[id].clock)
                  /\ Covers(r.clock, i.clock) /\ Apply(o, i, id, r)
    <2> PICK id \in Ids :
          /\ Holds(id, i.asset) /\ Restorable(rows[id], i.clock)
          /\ Apply(o, i, id, Restored(rows[id], i.clock))
      BY <1>3 DEF RestoreAsset
    <2> DEFINE new == Restored(rows[id], i.clock)
    <2>1. rows[id] \in Row /\ rows[id].clock \in Clock
      BY DEF Inv, InvOf, TypeOK, Row
    <2>2. new \in Row /\ new.clock = i.clock
      BY <1>0, <2>1 DEF Restored, Row, Nil
    <2>3. Covers(i.clock, i.clock) /\ SomeGreater(i.clock, rows[id].clock)
      BY <1>0, <2>1, CoversMeans, MaxIntAssumption
        DEF Restorable, Newer, SomeGreater, Clock, Covers
    <2> HIDE DEF new
    <2> QED
      BY <2>2, <2>3 DEF new, Holds
  <1>4. ASSUME PurgeAsset(o, i)
        PROVE  \E id \in Ids, r \in Row :
                  /\ Exists(id) /\ SomeGreater(i.clock, rows[id].clock)
                  /\ Covers(r.clock, i.clock) /\ Apply(o, i, id, r)
    <2> DEFINE new(id) == [rows[id] EXCEPT !.state = "purged", !.clock = i.clock,
                                           !.blob = NoBlob, !.purgeAfter = Nil]
    <2> PICK id \in Ids :
          /\ Holds(id, i.asset) /\ Newer(i.clock, rows[id].clock)
          /\ Apply(o, i, id, new(id))
      BY <1>4 DEF PurgeAsset
    <2>1. rows[id] \in Row /\ rows[id].clock \in Clock
      BY DEF Inv, InvOf, TypeOK, Row
    <2>2. new(id) \in Row /\ new(id).clock = i.clock
      BY <1>0, <2>1 DEF Row, Nil
    <2>3. Covers(i.clock, i.clock) /\ SomeGreater(i.clock, rows[id].clock)
      BY <1>0, <2>1, CoversMeans, MaxIntAssumption DEF Newer, SomeGreater, Clock, Covers
    <2> HIDE DEF new
    <2> QED
      BY <2>2, <2>3 DEF Holds
  <1>5. PICK id \in Ids, r \in Row :
           /\ Exists(id) /\ SomeGreater(i.clock, rows[id].clock)
           /\ Covers(r.clock, i.clock) /\ Apply(o, i, id, r)
    BY <1>2, <1>3, <1>4
  <1> QED
    BY <1>0, <1>1, <1>5

\* The other steps leave the operations' history alone.
LEMMA OthersKeepHistory ==
    ASSUME [Next]_vars
    PROVE  (\E o \in Ops : Operate(o)) \/ UNCHANGED <<issued, effects>>
  <1>1. ASSUME NEW h \in Handlers, Handle(h) PROVE UNCHANGED <<issued, effects>>
    BY <1>1 DEF Handle, FindUploadTarget, CreateUpload, FindWinner, CheckBinding,
                SaveLegacy, MutateUpload
  <1>2. ASSUME NEW w \in Workers, Sweep(w) PROVE UNCHANGED <<issued, effects>>
    BY <1>2 DEF Sweep, ListExpired, PurgeExpired, PurgeFails, ListCandidates,
                JudgeCandidates, ReclaimTombstones
  <1>3. ASSUME NEW d \in Devices, Acknowledge(d) PROVE UNCHANGED <<issued, effects>>
    BY <1>3 DEF Acknowledge, CheckAck, AcknowledgeDevice
  <1>4. ASSUME NEW id \in Ids, DeleteLegacy(id) PROVE UNCHANGED <<issued, effects>>
    BY <1>4 DEF DeleteLegacy, requestVars
  <1>5. CASE Crash \/ Tick \/ UNCHANGED vars
    BY <1>5 DEF Crash, Tick, vars
  <1> QED
    BY <1>1, <1>2, <1>3, <1>4, <1>5 DEF Next

\* A row that existed stays ahead of a clock it covers; an id that was drawn
\* is not drawn again.
LEMMA CoveredStays ==
    ASSUME Inv, Inv', BoundInv, TableStep, NEW id \in Ids, id < nextId,
           NEW clock \in Clock, Exists(id) => Covers(rows[id].clock, clock)
    PROVE  /\ id < nextId'
           /\ Exists(id)' => Covers(rows'[id].clock, clock)
  <1>0. nextId \in Int /\ id \in Int
    BY BoundsAssumption DEF Inv, InvOf, TypeOK, Ids
  <1>1. nextId' \in {nextId, nextId + 1}
    BY DEF TableStep, Insert, WriteBack, Change, Remove
  <1>2. Exists(id)' => Exists(id)
    <2>1. ASSUME NEW r \in Row, Insert(r) PROVE rows'[id] = rows[id]
      BY <1>0, <2>1, CommitMeans DEF Insert
    <2>2. ASSUME NEW k \in Ids, NEW r \in Row, Change(k, r) PROVE Exists(id)' => Exists(id)
      BY <2>2, CommitMeans DEF Change, Moves, Exists
    <2>3. ASSUME NEW gone \in SUBSET Ids, Remove(gone) PROVE Exists(id)' => Exists(id)
      BY <2>3 DEF Remove, NoRow, Exists
    <2> QED
      BY <2>1, <2>2, <2>3, BoundTable DEF Exists
  <1>3. ASSUME Exists(id)' PROVE Covers(rows'[id].clock, clock)
    <2>1. rows[id].clock \in Clock /\ rows'[id].clock \in Clock
      BY DEF Inv, InvOf, TypeOK, Row
    <2>2. rows'[id].clock = rows[id].clock \/ Covers(rows'[id].clock, rows[id].clock)
      BY <1>2, <1>3, <2>1, ForwardStep, CoversMeans DEF Exists
    <2> QED
      BY <1>2, <1>3, <2>1, <2>2, CoversTransitive
  <1> QED
    BY <1>0, <1>1, <1>3

LEMMA OnceStep ==
    ASSUME Inv, Inv', BoundInv, OnceInv, TableStep,
           (\E o \in Ops : Operate(o)) \/ UNCHANGED <<issued, effects>>
    PROVE  OnceInv'
  <1> SUFFICES ASSUME NEW o \in Ops, NEW id \in Ids PROVE OnceFor(o, id)'
    BY DEF OnceInv
  <1>0. OnceFor(o, id)
    BY DEF OnceInv
  <1>1. ASSUME effects[o][id] = 1, effects'[o][id] = 1, issued'[o] = issued[o]
        PROVE  OnceFor(o, id)'
    <2> PICK i \in Intents : issued[o] = {i} /\ (Exists(id) => Covers(rows[id].clock, i.clock))
      BY <1>0, <1>1 DEF OnceFor
    <2>1. i.clock \in Clock /\ id < nextId
      BY <1>0, <1>1, InputsAssumption DEF Intent, OnceFor
    <2>2. id < nextId' /\ (Exists(id)' => Covers(rows'[id].clock, i.clock))
      BY <1>0, <2>1, CoveredStays
    <2> QED
      BY <1>1, <2>2 DEF OnceFor, Exists, Covers
  <1>2. CASE UNCHANGED <<issued, effects>>
    BY <1>0, <1>1, <1>2 DEF OnceFor
  <1>3. ASSUME NEW p \in Ops, Operate(p) PROVE OnceFor(o, id)'
    <2> PICK i \in Intents, k \in Ids :
              /\ issued[p] \subseteq {i} /\ Exists(k) /\ SomeGreater(i.clock, rows[k].clock)
              /\ issued' = [issued EXCEPT ![p] = {i}]
              /\ effects' = [effects EXCEPT ![p][k] = @ + 1]
              /\ Covers(rows'[k].clock, i.clock)
              /\ UNCHANGED nextId
      BY <1>3, OperateMeans
    <2>0. effects \in [Ops -> [Ids -> Nat]] /\ issued \in [Ops -> SUBSET Intents]
      BY DEF Inv, InvOf, TypeOK
    <2>1. CASE o = p /\ id = k
      <3>1. effects[o][id] = 0
        <4> SUFFICES ASSUME effects[o][id] = 1 PROVE FALSE
          BY <1>0 DEF OnceFor
        <4>1. Covers(rows[id].clock, i.clock)
          BY <1>0, <2>1 DEF OnceFor
        <4>2. i.clock \in Clock /\ rows[id].clock \in Clock
          BY InputsAssumption DEF Intent, Inv, InvOf, TypeOK, Row
        <4> QED
          BY <2>1, <4>1, <4>2, CoversMeans
      <3>2. effects'[o][id] = 1 /\ issued'[o] = {i}
        BY <2>0, <2>1, <3>1
      <3>3. id < nextId'
        BY <2>1 DEF BoundInv
      <3> QED
        BY <2>1, <3>2, <3>3 DEF OnceFor, Covers, Exists
    <2>2. CASE ~(o = p /\ id = k)
      <3>1. effects'[o][id] = effects[o][id]
        BY <2>0, <2>2
      <3>2. ASSUME effects[o][id] = 1 PROVE issued'[o] = issued[o]
        <4>1. CASE o = p
          <5>1. PICK j \in Intents : issued[o] = {j}
            BY <1>0, <3>2 DEF OnceFor
          <5>2. j = i
            BY <4>1, <5>1
          <5> QED
            BY <2>0, <4>1, <5>1, <5>2
        <4>2. CASE o # p
          BY <2>0, <4>2
        <4> QED
          BY <4>1, <4>2
      <3> QED
        BY <1>0, <1>1, <3>1, <3>2 DEF OnceFor
    <2> QED
      BY <2>1, <2>2
  <1> QED
    BY <1>2, <1>3

\* "Idempotent retry": a lifecycle operation changes a row at most once,
\* however often, however late and in whatever order it is delivered.
THEOREM OperationsActOnce == BoundClients => (Spec => []AtMostOnce)
  <1> SUFFICES ASSUME BoundClients PROVE Spec => []AtMostOnce
    OBVIOUS
  <1>1. Init => OnceInv
    BY DEF Init, OnceInv, OnceFor
  <1>2. OnceInv => AtMostOnce
    BY DEF OnceInv, OnceFor, AtMostOnce
  <1>3. RoomInv /\ BoundInv /\ OnceInv /\ [Next]_vars => OnceInv'
    BY NextTable, NextInv, RoomInvMeans, RoomInvMeansNext, OnceStep, OthersKeepHistory
  <1> QED
    BY <1>1, <1>2, <1>3, BoundInvariance, Invariance, PTL DEF Spec
-----------------------------------------------------------------------------
(***************************************************************************)
(* Refinement.  A step of the table is a step of AssetLifecycle, because a *)
(* row is found by its asset and only by it.                               *)
(***************************************************************************)
\* What AssetPhase and AssetVersion show of any table without duplicates.
LEMMA RowOfMeans ==
    ASSUME NEW a, NEW id \in Ids, Holds(id, a),
           \A i \in Ids : Holds(i, a) => i = id
    PROVE  Held(a) /\ RowOf(a) = rows[id]
  <1>1. (CHOOSE i \in Ids : Holds(i, a)) = id
    OBVIOUS
  <1> QED
    BY <1>1 DEF Held, RowOf

LEMMA RowOfMeansNext ==
    ASSUME NEW a, NEW id \in Ids, Holds(id, a)',
           \A i \in Ids : Holds(i, a)' => i = id
    PROVE  Held(a)' /\ RowOf(a)' = rows'[id]
  <1>1. (CHOOSE i \in Ids : Holds(i, a))' = id
    BY DEF Holds, Exists
  <1> QED
    BY <1>1 DEF Held, RowOf

\* The life of one asset: where it is, before and after a step.
Phase(a)   == IF Held(a) THEN RowOf(a).state ELSE "none"
Version(a) == IF Held(a) THEN RowOf(a).clock ELSE EmptyClock

LEMMA PhasesOfRows ==
    /\ AssetPhase = [a \in Assets |-> Phase(a)]
    /\ AssetVersion = [a \in Assets |-> Version(a)]
  BY DEF AssetPhase, AssetVersion, Phase, Version

LEMMA PhasesOfRowsNext ==
    /\ AssetPhase' = [a \in Assets |-> Phase(a)']
    /\ AssetVersion' = [a \in Assets |-> Version(a)']
  BY DEF AssetPhase, AssetVersion, Phase, Version

LEMMA UntouchedAsset ==
    ASSUME OneRowPerAsset, OneRowPerAsset', NEW a \in Assets,
           \A i \in Ids : Holds(i, a) \/ Holds(i, a)' => rows'[i] = rows[i]
    PROVE  Phase(a)' = Phase(a) /\ Version(a)' = Version(a)
  <1>1. \A i \in Ids : Holds(i, a)' <=> Holds(i, a)
    BY DEF Holds, Exists
  <1>2. CASE Held(a)
    <2> PICK id \in Ids : Holds(id, a)
      BY <1>2 DEF Held
    <2>1. RowOf(a) = rows[id] /\ RowOf(a)' = rows'[id] /\ Held(a)'
      BY <1>1, RowOfMeans, RowOfMeansNext DEF OneRowPerAsset
    <2> QED
      BY <1>2, <2>1 DEF Phase, Version
  <1>3. CASE ~Held(a)
    <2>1. ~Held(a)'
      BY <1>1, <1>3 DEF Held
    <2> QED
      BY <1>3, <2>1 DEF Phase, Version
  <1> QED
    BY <1>2, <1>3

\* Lifecycle's own vocabulary is that of the store.
LEMMA SameVocabulary ==
    /\ Lifecycle!Clock = Clock /\ Lifecycle!EmptyClock = EmptyClock
    /\ \A a, b : Lifecycle!Newer(a, b) <=> Newer(a, b)
  BY DEF Lifecycle!Clock, Clock, Lifecycle!EmptyClock, EmptyClock, Lifecycle!Newer, Newer,
         Lifecycle!Compare, Compare, Lifecycle!SomeGreater, SomeGreater

\* One asset moves, from phase "from" to phase "to".
LEMMA OneAssetMoves ==
    ASSUME NEW a \in Assets, NEW from, NEW to,
           Phase(a) \in from, Phase(a)' = to, Version(a)' \in Clock,
           \A b \in Assets \ {a} : Phase(b)' = Phase(b) /\ Version(b)' = Version(b)
    PROVE  Lifecycle!Step(a, from, to)
  <1>1. AssetPhase' = [AssetPhase EXCEPT ![a] = to] /\ AssetPhase[a] \in from
    BY PhasesOfRows, PhasesOfRowsNext
  <1>2. /\ AssetVersion'[a] \in Clock
        /\ AssetVersion' = [AssetVersion EXCEPT ![a] = AssetVersion'[a]]
    BY PhasesOfRows, PhasesOfRowsNext
  <1> QED
    BY <1>1, <1>2, SameVocabulary DEF Lifecycle!Step

LEMMA RefinementStep ==
    ASSUME Inv, Inv', BoundInv, BoundInv', OneRowPerAsset, OneRowPerAsset', TableStep
    PROVE  Lifecycle!LifecycleNext \/ UNCHANGED <<AssetPhase, AssetVersion>>
  <1>1. CASE UNCHANGED rows
    <2>1. \A a \in Assets : Phase(a)' = Phase(a) /\ Version(a)' = Version(a)
      BY <1>1, UntouchedAsset
    <2> QED
      BY <2>1, PhasesOfRows, PhasesOfRowsNext
  <1>2. ASSUME NEW id \in Ids, NEW r \in Row, Commit(id, r), NEW a \in Assets,
               r.state # "none", r.asset = a, Exists(id) => rows[id].asset = a
        PROVE  /\ Phase(a)' = r.state /\ Version(a)' = r.clock /\ Version(a)' \in Clock
               /\ \A b \in Assets \ {a} : Phase(b)' = Phase(b) /\ Version(b)' = Version(b)
    <2>1. /\ rows'[id].asset = a /\ rows'[id].state = r.state /\ rows'[id].clock = r.clock
          /\ \A j \in Ids \ {id} : rows'[j] = rows[j]
      BY <1>2, CommitMeans
    <2>2. Holds(id, a)'
      BY <1>2, <2>1 DEF Holds, Exists
    <2>3. Held(a)' /\ RowOf(a)' = rows'[id]
      BY <2>2, RowOfMeansNext DEF OneRowPerAsset
    <2>4. \A b \in Assets \ {a} : Phase(b)' = Phase(b) /\ Version(b)' = Version(b)
      <3> SUFFICES ASSUME NEW b \in Assets \ {a}
                   PROVE  Phase(b)' = Phase(b) /\ Version(b)' = Version(b)
        OBVIOUS
      <3>1. \A i \in Ids : Holds(i, b) \/ Holds(i, b)' => i # id
        BY <1>2, <2>1 DEF Holds
      <3> QED
        BY <2>1, <3>1, UntouchedAsset
    <2> QED
      BY <2>1, <2>3, <2>4 DEF Phase, Version, Row
  <1>3. ASSUME NEW r \in Row, Insert(r), r.asset \in Assets, ~Exists(nextId)
        PROVE  Lifecycle!LifecycleNext
    <2>1. ~Held(r.asset)
      BY <1>3, NamesAssumption DEF Insert, Taken, Held, Holds
    <2>2. Phase(r.asset) = "none"
      BY <2>1 DEF Phase
    <2>3. Lifecycle!Step(r.asset, {"none"}, "active")
      BY <1>2, <1>3, <2>2, OneAssetMoves DEF Insert
    <2> QED
      BY <1>3, <2>3 DEF Lifecycle!LifecycleNext, Lifecycle!Create
  <1>4. ASSUME NEW id \in Ids, NEW r \in Row, Change(id, r)
        PROVE  Lifecycle!LifecycleNext
    <2>0. Exists(id) /\ rows[id].asset \in Assets
      BY <1>4 DEF Change, Moves, Exists, BoundInv
    <2> PICK a \in Assets : a = rows[id].asset
      BY <2>0
    <2>1. Holds(id, a) /\ r.asset = a /\ a = rows[id].asset
      BY <1>4, <2>0 DEF Change, Holds
    <2>2. Phase(a) = rows[id].state /\ Version(a) = rows[id].clock
      BY <2>1, RowOfMeans DEF OneRowPerAsset, Phase, Version
    <2>3. /\ Phase(a)' = r.state /\ Version(a)' = r.clock /\ Version(a)' \in Clock
          /\ \A b \in Assets \ {a} : Phase(b)' = Phase(b) /\ Version(b)' = Version(b)
      BY <1>2, <1>4, <2>1 DEF Change, Moves
    <2>4. Lifecycle!Newer(AssetVersion'[a], AssetVersion[a])
      BY <1>4, <2>1, <2>2, <2>3, PhasesOfRows, PhasesOfRowsNext, SameVocabulary DEF Change
    <2>5. \A from, to : Phase(a) \in from /\ r.state = to => Lifecycle!Move(a, from, to)
      BY <2>1, <2>3, <2>4, OneAssetMoves DEF Lifecycle!Move
    <2>6. CASE rows[id].state = "active" /\ r.state = "active"
      BY <2>1, <2>2, <2>5, <2>6 DEF Lifecycle!LifecycleNext, Lifecycle!Edit
    <2>7. CASE rows[id].state \in {"active", "deleted"} /\ r.state = "deleted"
      BY <2>1, <2>2, <2>5, <2>7 DEF Lifecycle!LifecycleNext, Lifecycle!Delete
    <2>8. CASE rows[id].state = "deleted" /\ r.state = "active"
      BY <2>1, <2>2, <2>5, <2>8 DEF Lifecycle!LifecycleNext, Lifecycle!Restore
    <2>9. CASE rows[id].state = "deleted" /\ r.state = "purged"
      BY <2>1, <2>2, <2>5, <2>9 DEF Lifecycle!LifecycleNext, Lifecycle!Purge
    <2> QED
      BY <1>4, <2>6, <2>7, <2>8, <2>9 DEF Change, Moves
  <1>5. ASSUME NEW gone \in SUBSET Ids, Remove(gone)
        PROVE  Lifecycle!LifecycleNext
    <2> DEFINE lost == {id \in gone : Exists(id)}
               assets == {rows[id].asset : id \in lost}
    <2>1. \A id \in lost : rows[id].asset \in Assets /\ rows[id].state = "purged"
      BY <1>5, NamesAssumption DEF Remove, BoundInv
    <2>2. ASSUME NEW a \in assets
          PROVE  /\ a \in Assets /\ Phase(a) = "purged"
                 /\ Phase(a)' = "none" /\ Version(a)' = EmptyClock
      <3> PICK id \in lost : rows[id].asset = a
        OBVIOUS
      <3>1. a \in Assets /\ Holds(id, a) /\ rows[id].state = "purged"
        BY <2>1 DEF Holds
      <3>2. Phase(a) = "purged"
        BY <3>1, RowOfMeans DEF OneRowPerAsset, Phase
      <3>3. ~Held(a)'
        BY <1>5, <3>1 DEF Remove, OneRowPerAsset, Held, Holds, Exists, NoRow
      <3> QED
        BY <3>1, <3>2, <3>3 DEF Phase, Version
    <2>3. ASSUME NEW a \in Assets \ assets
          PROVE  Phase(a)' = Phase(a) /\ Version(a)' = Version(a)
      <3>1. \A i \in Ids : Holds(i, a) => i \notin gone
        BY <2>3 DEF Holds
      <3>2. \A i \in Ids : Holds(i, a)' => i \notin gone
        BY <1>5 DEF Remove, Holds, Exists, NoRow
      <3> QED
        BY <1>5, <3>1, <3>2, UntouchedAsset DEF Remove
    <2> HIDE DEF assets
    <2>4. /\ assets \in SUBSET Assets
          /\ \A a \in assets : AssetPhase[a] = "purged"
      BY <2>2, PhasesOfRows
    <2>5. /\ AssetPhase' = [a \in Assets |-> IF a \in assets THEN "none" ELSE AssetPhase[a]]
          /\ AssetVersion' = [a \in Assets |-> IF a \in assets THEN EmptyClock ELSE AssetVersion[a]]
      BY <2>2, <2>3, PhasesOfRows, PhasesOfRowsNext
    <2>6. Lifecycle!Reclaim(assets)
      BY <2>4, <2>5, SameVocabulary DEF Lifecycle!Reclaim
    <2> QED
      BY <2>4, <2>6 DEF Lifecycle!LifecycleNext
  <1> QED
    BY <1>1, <1>3, <1>4, <1>5, BoundTable

\* A store of bound clients starts without any asset.
LEMMA LifecycleStarts == BoundClients /\ Init => Lifecycle!LifecycleInit
  <1> SUFFICES ASSUME BoundClients, Init PROVE Lifecycle!LifecycleInit
    OBVIOUS
  <1>1. \A id \in Ids : ~Exists(id)
    BY BoundsAssumption DEF Init, BoundClients, Exists, NoRow, Ids
  <1>2. \A a \in Assets : ~Held(a)
    BY <1>1 DEF Held, Holds
  <1> QED
    BY <1>2, SameVocabulary DEF Lifecycle!LifecycleInit, AssetPhase, AssetVersion

\* Every step of every client, sweep and collector is a step of the life cycle
\* of an asset, or invisible.
THEOREM StoreImplementsLifecycle == BoundClients => (Spec => ImplementsLifecycle)
  <1> SUFFICES ASSUME BoundClients PROVE Spec => ImplementsLifecycle
    OBVIOUS
  <1>1. Init => Lifecycle!LifecycleInit
    BY LifecycleStarts
  <1>2. /\ RoomInv /\ BoundInv /\ OneRowPerAsset /\ Inv' /\ BoundInv' /\ OneRowPerAsset'
        /\ [Next]_vars
        => [Lifecycle!LifecycleNext]_(Lifecycle!lifecycleVars)
    BY NextTable, RoomInvMeans, RefinementStep DEF Lifecycle!lifecycleVars
  <1> QED
    BY <1>1, <1>2, AssetsHaveOneRow, BoundInvariance, Invariance, PTL
      DEF Spec, ImplementsLifecycle, Lifecycle!LifecycleSpec
-----------------------------------------------------------------------------
(***************************************************************************)
(* The collector.  It selects candidates, judges them and deletes them by  *)
(* three statements without a transaction; the judgement holds until the   *)
(* deletion because a tombstone's row does not change, its id is not used  *)
(* again, days do not go back and watermarks do not fall.                  *)
(***************************************************************************)
Old(id)  == rows[id].state = "purged" /\ rows[id].updatedAt + TombstoneDays <= today
Seen(id) == \E d \in Devices : ack[d] >= rows[id].rev

\* What sweep state s says of row id.
JudgedFor(s, id) ==
    id \in s.ids =>
      /\ s.at \in {"judge", "reclaim"} => id < nextId /\ (Exists(id) => Old(id))
      /\ s.at = "reclaim" => (Exists(id) => Seen(id))

JudgedInv == \A w \in Workers, id \in Ids : JudgedFor(sweep[w], id)

LEMMA TombstoneStays ==
    ASSUME Inv, BoundInv, TableStep, NEW id \in Ids, id < nextId,
           Exists(id) => rows[id].state = "purged"
    PROVE  rows'[id] = rows[id] \/ ~Exists(id)'
  <1>1. ASSUME NEW r \in Row, Insert(r) PROVE rows'[id] = rows[id]
    <2>1. id # nextId
      BY BoundsAssumption DEF Ids
    <2> QED
      BY <1>1, <2>1, CommitMeans DEF Insert
  <1>2. ASSUME NEW k \in Ids, NEW r \in Row, Change(k, r) PROVE rows'[id] = rows[id]
    BY <1>2, CommitMeans DEF Change, Moves, Exists
  <1>3. ASSUME NEW gone \in SUBSET Ids, Remove(gone) PROVE rows'[id] = rows[id] \/ ~Exists(id)'
    BY <1>3 DEF Remove, NoRow, Exists
  <1> QED
    BY <1>1, <1>2, <1>3, BoundTable

LEMMA TodayStep ==
    ASSUME Inv, [Next]_vars
    PROVE  today' \in {today, today + 1}
  <1>1. ASSUME NEW h \in Handlers, Handle(h) PROVE UNCHANGED today
    BY <1>1 DEF Handle, FindUploadTarget, CreateUpload, FindWinner, CheckBinding,
                SaveLegacy, MutateUpload
  <1>2. ASSUME NEW o \in Ops, Operate(o) PROVE UNCHANGED today
    BY <1>2 DEF Operate, DeleteAsset, RestoreAsset, PurgeAsset, Apply
  <1>3. ASSUME NEW w \in Workers, Sweep(w) PROVE UNCHANGED today
    BY <1>3 DEF Sweep, ListExpired, PurgeExpired, PurgeFails, ListCandidates,
                JudgeCandidates, ReclaimTombstones
  <1>4. ASSUME NEW d \in Devices, Acknowledge(d) PROVE UNCHANGED today
    BY <1>4 DEF Acknowledge, CheckAck, AcknowledgeDevice
  <1>5. CASE Crash \/ Tick \/ UNCHANGED vars \/ \E id \in Ids : DeleteLegacy(id)
    BY <1>5 DEF Crash, Tick, vars, DeleteLegacy
  <1> QED
    BY <1>1, <1>2, <1>3, <1>4, <1>5 DEF Next

\* A judgement made in one state holds in the next.
LEMMA JudgementStays ==
    ASSUME Inv, Inv', BoundInv, TableStep, [Next]_vars, NEW s, NEW id \in Ids, JudgedFor(s, id)
    PROVE  JudgedFor(s, id)'
  <1> SUFFICES ASSUME id \in s.ids, s.at \in {"judge", "reclaim"}
               PROVE  /\ id < nextId' /\ (Exists(id)' => Old(id)')
                      /\ s.at = "reclaim" => (Exists(id)' => Seen(id)')
    BY DEF JudgedFor
  <1>1. id < nextId /\ (Exists(id) => Old(id))
    BY DEF JudgedFor
  <1>2. nextId \in Int /\ id \in Int /\ nextId' \in {nextId, nextId + 1}
    <2>1. nextId \in Int /\ id \in Int
      BY BoundsAssumption DEF Inv, InvOf, TypeOK, Ids
    <2>2. nextId' \in {nextId, nextId + 1}
      BY DEF TableStep, Insert, WriteBack, Change, Remove
    <2> QED
      BY <2>1, <2>2
  <1>3. CASE ~Exists(id)'
    BY <1>1, <1>2, <1>3
  <1>4. CASE Exists(id)'
    <2>1. rows'[id] = rows[id] /\ Exists(id)
      BY <1>1, <1>4, TombstoneStays DEF Old, Exists
    <2>2. Old(id)'
      <3>1. rows[id].updatedAt \in Int /\ TombstoneDays \in Int /\ today \in Int
        BY BoundsAssumption DEF Inv, InvOf, TypeOK, Row, Days
      <3>2. rows[id].updatedAt + TombstoneDays <= today'
        BY <1>1, <2>1, <3>1, TodayStep DEF Old
      <3> QED
        BY <1>1, <2>1, <3>2 DEF Old
    <2>3. s.at = "reclaim" => Seen(id)'
      <3> SUFFICES ASSUME s.at = "reclaim" PROVE Seen(id)'
        OBVIOUS
      <3> PICK d \in Devices : ack[d] >= rows[id].rev
        BY <2>1 DEF JudgedFor, Seen
      <3>1. ack[d] \in Int /\ rows[id].rev \in Int
        BY DEF Inv, InvOf, TypeOK, Row, Unseen
      <3>2. ack'[d] \in Int /\ ack'[d] >= ack[d]
        BY AckStep DEF Inv, InvOf, TypeOK, Unseen
      <3>3. ack'[d] >= rows'[id].rev
        BY <2>1, <3>1, <3>2
      <3> QED
        BY <3>3 DEF Seen
    <2> QED
      BY <1>1, <1>2, <2>2, <2>3
  <1> QED
    BY <1>3, <1>4

\* Only a sweep's own statements change what it has judged.
LEMMA OthersKeepSweeps ==
    ASSUME [Next]_vars
    PROVE  (\E w \in Workers : Sweep(w)) \/ Crash \/ UNCHANGED sweep
  <1>1. ASSUME NEW h \in Handlers, Handle(h) PROVE UNCHANGED sweep
    BY <1>1 DEF Handle, FindUploadTarget, CreateUpload, FindWinner, CheckBinding,
                SaveLegacy, MutateUpload
  <1>2. ASSUME NEW o \in Ops, Operate(o) PROVE UNCHANGED sweep
    BY <1>2 DEF Operate, DeleteAsset, RestoreAsset, PurgeAsset, Apply
  <1>3. ASSUME NEW d \in Devices, Acknowledge(d) PROVE UNCHANGED sweep
    BY <1>3 DEF Acknowledge, CheckAck, AcknowledgeDevice
  <1>4. CASE Tick \/ UNCHANGED vars \/ \E id \in Ids : DeleteLegacy(id)
    BY <1>4 DEF Tick, vars, DeleteLegacy
  <1> QED
    BY <1>1, <1>2, <1>3, <1>4 DEF Next

LEMMA JudgedStep ==
    RoomInv /\ BoundInv /\ SweepsInPast /\ JudgedInv /\ [Next]_vars => JudgedInv'
  <1> SUFFICES ASSUME RoomInv, BoundInv, SweepsInPast, JudgedInv, [Next]_vars,
                      NEW v \in Workers, NEW id \in Ids
               PROVE  JudgedFor(sweep[v], id)'
    BY DEF JudgedInv
  <1> Inv /\ Inv'
    BY RoomInvMeans, RoomInvMeansNext, NextInv
  <1>0. /\ TableStep /\ sweep \in [Workers -> SweepState]
        /\ \A w \in Workers : sweep[w] \in SweepState
    BY NextTable DEF Inv, InvOf, TypeOK
  <1>1. CASE sweep'[v] = sweep[v]
    <2> PICK s : s = sweep[v]
      OBVIOUS
    <2>1. JudgedFor(s, id)'
      BY <1>0, JudgementStays DEF JudgedInv
    <2> QED
      BY <1>1, <2>1 DEF JudgedFor
  <1>2. CASE sweep'[v].ids = {} \/ sweep'[v].at \notin {"judge", "reclaim"}
    BY <1>2 DEF JudgedFor
  <1>3. ASSUME Sweep(v), sweep'[v] # sweep[v] PROVE JudgedFor(sweep[v], id)'
    <2>1. CASE ListExpired(v)
      <3>1. PICK listed : sweep' = [sweep EXCEPT ![v] =
                      [Resting EXCEPT !.at = "purge", !.now = today, !.todo = listed]]
        BY <2>1 DEF ListExpired
      <3>2. sweep'[v].ids = {}
        BY <1>0, <3>1 DEF Resting
      <3> QED
        BY <1>2, <3>2
    <2>5. CASE ReclaimTombstones(v)
      <3>1. sweep'[v].ids = {}
        BY <1>0, <2>5 DEF ReclaimTombstones, Resting
      <3> QED
        BY <1>2, <3>1
    <2>2. ASSUME NEW a \in Assets, PurgeExpired(v, a) \/ PurgeFails(v, a)
          PROVE  JudgedFor(sweep[v], id)'
      <3>1. sweep'[v].at = "purge"
        BY <1>0, <2>2 DEF PurgeExpired, PurgeFails, SweepState
      <3> QED
        BY <1>2, <3>1
    <2>3. ASSUME NEW room \in 0..BatchLimit, ListCandidates(v, room)
          PROVE  JudgedFor(sweep[v], id)'
      <3> DEFINE written == [i \in Ids |-> rows[i].rev]
                 old == {i \in Ids : /\ TombstoneDays > 0 /\ rows[i].state = "purged"
                                     /\ rows[i].updatedAt <= sweep[v].now - TombstoneDays}
                 batch == First(room, old, written)
      <3>1. batch \subseteq old
        BY DEF First
      <3>2. \/ sweep'[v] = Resting
            \/ sweep'[v] = [sweep[v] EXCEPT !.at = "judge", !.ids = batch]
        BY <1>0, <2>3 DEF ListCandidates
      <3>3. ASSUME id \in batch PROVE id < nextId /\ Old(id)
        <4>1. /\ rows[id].state = "purged" /\ rows[id].updatedAt <= sweep[v].now - TombstoneDays
          BY <3>1, <3>3
        <4>2. /\ rows[id].updatedAt \in Int /\ TombstoneDays \in Int /\ today \in Int
              /\ sweep[v].now \in Int /\ sweep[v].now <= today
          BY <1>0, BoundsAssumption DEF Inv, InvOf, TypeOK, Row, Days, SweepState, SweepsInPast
        <4>3. rows[id].updatedAt + TombstoneDays <= today
          BY <4>1, <4>2
        <4>4. id < nextId
          BY <4>1 DEF BoundInv, Exists
        <4> QED
          BY <4>1, <4>3, <4>4 DEF Old
      <3> HIDE DEF batch
      <3>4. CASE sweep'[v] = Resting
        BY <1>2, <3>4 DEF Resting
      <3>5. CASE sweep'[v] = [sweep[v] EXCEPT !.at = "judge", !.ids = batch]
        <4>1. sweep'[v].at = "judge" /\ sweep'[v].ids = batch
          BY <1>0, <3>5 DEF SweepState
        <4>2. UNCHANGED <<rows, nextId, today>>
          BY <2>3 DEF ListCandidates
        <4> QED
          BY <3>3, <4>1, <4>2 DEF JudgedFor, Old, Exists
      <3> QED
        BY <3>2, <3>4, <3>5
    <2>4. CASE JudgeCandidates(v)
      <3> DEFINE eligible == {i \in sweep[v].ids : Eligible(i)}
      <3>1. \/ sweep'[v] = Resting
            \/ sweep'[v] = [sweep[v] EXCEPT !.at = "reclaim", !.ids = eligible]
        BY <1>0, <2>4 DEF JudgeCandidates
      <3>2. ASSUME id \in eligible PROVE id < nextId /\ Old(id) /\ Seen(id)
        <4>1. id \in sweep[v].ids /\ Eligible(id) /\ sweep[v].at = "judge"
          BY <2>4, <3>2 DEF JudgeCandidates
        <4>2. Exists(id) /\ Seen(id)
          BY <4>1 DEF Eligible, Registered, Seen
        <4> QED
          BY <4>1, <4>2 DEF JudgedInv, JudgedFor
      <3> HIDE DEF eligible
      <3>3. CASE sweep'[v] = Resting
        BY <1>2, <3>3 DEF Resting
      <3>4. CASE sweep'[v] = [sweep[v] EXCEPT !.at = "reclaim", !.ids = eligible]
        <4>1. sweep'[v].at = "reclaim" /\ sweep'[v].ids = eligible
          BY <1>0, <3>4 DEF SweepState
        <4>2. UNCHANGED <<rows, nextId, today, ack>>
          BY <2>4 DEF JudgeCandidates
        <4> QED
          BY <3>2, <4>1, <4>2 DEF JudgedFor, Old, Seen, Exists
      <3> QED
        BY <3>1, <3>3, <3>4
    <2> QED
      BY <1>3, <2>1, <2>2, <2>3, <2>4, <2>5 DEF Sweep
  <1>4. ASSUME NEW w \in Workers, Sweep(w), w # v PROVE sweep'[v] = sweep[v]
    <2>1. PICK s : sweep' = [sweep EXCEPT ![w] = s]
      BY <1>0, <1>4 DEF Sweep, ListExpired, PurgeExpired, PurgeFails, ListCandidates,
                        JudgeCandidates, ReclaimTombstones
    <2> QED
      BY <1>0, <1>4, <2>1
  <1>5. CASE Crash
    BY <1>2, <1>5 DEF Crash, Resting
  <1> QED
    BY <1>1, <1>3, <1>4, <1>5, OthersKeepSweeps

LEMMA SeenStep ==
    ASSUME Inv, BoundInv, JudgedInv, TableStep, NEW id \in Ids,
           Exists(id), rows'[id].state = "none"
    PROVE  rows[id].state = "purged" /\ Old(id) /\ Seen(id)
  <1>1. ASSUME NEW k \in Ids, NEW r \in Row, Commit(k, r), r.state # "none" PROVE FALSE
    BY <1>1, CommitMeans DEF Exists
  <1>2. ASSUME NEW gone \in SUBSET Ids, Remove(gone)
        PROVE  rows[id].state = "purged" /\ Old(id) /\ Seen(id)
    <2>1. id \in gone
      BY <1>2 DEF Remove, Exists
    <2>2. rows[id].asset # NoAsset
      BY NamesAssumption DEF BoundInv
    <2>3. PICK w \in Workers : sweep[w].at = "reclaim" /\ id \in sweep[w].ids
                             /\ rows[id].state = "purged"
      BY <1>2, <2>1, <2>2 DEF Remove
    <2> QED
      BY <2>3 DEF JudgedInv, JudgedFor
  <1>3. ASSUME NEW r \in Row, Insert(r) PROVE FALSE
    BY <1>1, <1>3 DEF Insert
  <1>4. ASSUME NEW k \in Ids, NEW r \in Row, Change(k, r) PROVE FALSE
    BY <1>1, <1>4 DEF Change, Moves
  <1> QED
    BY <1>2, <1>3, <1>4, BoundTable DEF Exists

\* A tombstone goes only when it is old and some device has acknowledged it:
\* the three statements of the collector act as one in this respect.  (That
\* every device has acknowledged it is more than they ensure.)
THEOREM TombstonesStayUntilSeen == BoundClients => (Spec => ReclaimOnlySeen)
  <1> SUFFICES ASSUME BoundClients PROVE Spec => ReclaimOnlySeen
    OBVIOUS
  <1>1. Init => SweepsInPast /\ JudgedInv
    BY DEF Init, SweepsInPast, JudgedInv, JudgedFor, Resting
  <1>2. RoomInv /\ BoundInv /\ JudgedInv /\ [Next]_vars => [\A id \in Ids :
             Exists(id) /\ rows'[id].state = "none" =>
               \/ rows[id].asset = NoAsset
               \/ /\ rows[id].state = "purged"
                  /\ rows[id].updatedAt + TombstoneDays <= today
                  /\ \E d \in Devices : ack[d] >= rows[id].rev]_vars
    BY NextTable, RoomInvMeans, SeenStep DEF Old, Seen
  <1> QED
    BY <1>1, <1>2, SweepsStep, JudgedStep, BoundInvariance, Invariance, PTL
      DEF Spec, ReclaimOnlySeen
=============================================================================

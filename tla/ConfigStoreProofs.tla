-------------------------- MODULE ConfigStoreProofs --------------------------
(***************************************************************************)
(* What holds of the configuration store for every number of rows,         *)
(* handlers, sweeps and devices, every set of uploads and operations and   *)
(* every retention: its types and the shape of its rows, and what a step   *)
(* may do to the table of rows, from which it follows for any mix of old   *)
(* and new clients that an asset has one row, that revisions order the     *)
(* changes, that deadlines are kept and that watermarks only rise.         *)
(***************************************************************************)
EXTENDS ConfigStore, VectorClockProofs

(***************************************************************************)
(* The inductive invariant.  TypeOK and TombstoneShape are not inductive:  *)
(* a sweep can purge a row only while the row's clock has room for one     *)
(* more count, and a legacy upload writes back a row it read long ago, so  *)
(* what a handler carries matters as much as what the table holds.         *)
(*                                                                         *)
(* The invariant has the clocks of rows that are not purged in a set S,    *)
(* which may be any set that holds the clients' clocks and their merges:   *)
(* all clocks, or those with room.  Only the sweep needs the room.         *)
(***************************************************************************)
ClosedClocks(S) ==
    /\ S \subseteq Clock /\ EmptyClock \in S
    /\ \A u \in UploadInputs : u.clock \in S
    /\ \A i \in Intents : i.clock \in S
    /\ \A a, b \in S : Merge(a, b) \in S

RowOK(S, r) ==
    /\ WellShaped(r)
    /\ r.state # "purged" => r.clock \in S

\* A row that a handler may still write back.
Writable(S, r) ==
    /\ r.state = "active" /\ r.deletedAt = Nil /\ r.purgeAfter = Nil
    /\ r.blob # NoBlob /\ r.clock \in S

HandlerOK(S, s) ==
    /\ s.in.clock \in S
    /\ s.at # "idle" => s.in.blob \in Blobs
    /\ s.at \in {"bind", "save"} => s.id \in Ids /\ Writable(S, s.row)
    /\ s.at = "bind" => s.row.asset = NoAsset /\ s.in.asset # NoAsset
    /\ s.at \in {"mutate", "winner"} => s.in.asset # NoAsset

InvOf(S) ==
    /\ TypeOK
    /\ \A id \in Ids : RowOK(S, rows[id])
    /\ \A h \in Handlers : HandlerOK(S, handler[h])

Roomy == {clock \in Clock : \A k \in Actors : clock[k] < MaxInt}

Inv     == InvOf(Clock)
RoomInv == InvOf(Roomy)
-----------------------------------------------------------------------------
(***************************************************************************)
(* The values the actions compute.                                         *)
(***************************************************************************)
\* The two sets of clocks that matter.
LEMMA ClosedSets == ClosedClocks(Clock) /\ ClosedClocks(Roomy)
  <1>1. EmptyClock \in Roomy
    BY MaxIntAssumption DEF EmptyClock, Clock, Roomy
  <1>2. ASSUME NEW u \in UploadInputs PROVE u.clock \in Roomy
    BY InputsAssumption DEF Upload, Roomy
  <1>3. ASSUME NEW i \in Intents PROVE i.clock \in Roomy
    BY InputsAssumption DEF Intent, Roomy
  <1>4. ASSUME NEW a \in Roomy, NEW b \in Roomy PROVE Merge(a, b) \in Roomy
    <2>1. Merge(a, b) \in Clock
      BY MergeInClock DEF Roomy
    <2> QED
      BY <2>1 DEF Merge, Roomy
  <1>5. Roomy \subseteq Clock
    BY DEF Roomy
  <1> QED
    BY <1>1, <1>2, <1>3, <1>4, <1>5, MergeInClock DEF ClosedClocks

LEMMA NoRowOK ==
    ASSUME NEW S, ClosedClocks(S)
    PROVE  NoRow \in Row /\ RowOK(S, NoRow) /\ EmptyClock \in S /\ EmptyClock \in Clock
  <1>1. EmptyClock \in Clock /\ EmptyClock \in S
    BY DEF ClosedClocks
  <1>2. NoRow \in Row
    BY <1>1, BoundsAssumption DEF NoRow, Row, Days, Nil
  <1>3. RowOK(S, NoRow)
    BY <1>1 DEF RowOK, NoRow, WellShaped, IsDeleted, Nil
  <1> QED
    BY <1>1, <1>2, <1>3

LEMMA IdleOK ==
    ASSUME NEW S, ClosedClocks(S)
    PROVE  Idle \in HandlerState /\ HandlerOK(S, Idle)
  BY NoRowOK, BoundsAssumption DEF Idle, HandlerState, HandlerOK

\* The input of an upload, as a handler keeps it.
KeptUpload == [id: 0..MaxId, asset: Assets \cup {NoAsset},
               blob: Blobs \cup {NoBlob}, clock: Clock]

LEMMA UploadInputKept ==
    ASSUME NEW S, ClosedClocks(S), NEW in \in UploadInputs
    PROVE  in \in KeptUpload /\ in.blob \in Blobs /\ in.clock \in S
  BY InputsAssumption DEF Upload, KeptUpload, ClosedClocks

\* updateLegacyConfig, on a row it may write, yields a row it may write.
LEMMA LegacyDecisionOK ==
    ASSUME NEW S, ClosedClocks(S), NEW in \in KeptUpload, in.blob \in Blobs, in.clock \in S,
           NEW id \in Ids, NEW r \in Row, Writable(S, r)
    PROVE  /\ LegacyDecision(in, id, r) \in HandlerState
           /\ HandlerOK(S, LegacyDecision(in, id, r))
  <1> DEFINE saved == [r EXCEPT
                 !.asset = IF r.asset = NoAsset THEN in.asset ELSE r.asset,
                 !.blob = in.blob, !.clock = in.clock, !.state = "active"]
  <1>1. in.blob # NoBlob
    BY NamesAssumption
  <1>2. saved \in Row
    BY DEF Row, KeptUpload
  <1>3. Writable(S, saved)
    BY <1>1 DEF Row, Writable
  <1>4. At("save", in, id, saved) \in HandlerState /\ HandlerOK(S, At("save", in, id, saved))
    BY <1>2, <1>3 DEF At, HandlerState, HandlerOK, KeptUpload, Ids
  <1> QED
    BY <1>4, IdleOK DEF LegacyDecision

\* updateExistingUpload, on any row that exists.
LEMMA DispatchOK ==
    ASSUME NEW S, ClosedClocks(S), NEW in \in KeptUpload, in.blob \in Blobs, in.clock \in S,
           NEW id \in Ids, NEW r \in Row, RowOK(S, r), r.state # "none"
    PROVE  Dispatch(in, id, r) \in HandlerState /\ HandlerOK(S, Dispatch(in, id, r))
  <1>1. CASE IsDeleted(r)
    BY <1>1, IdleOK DEF Dispatch
  <1>2. CASE ~IsDeleted(r)
    <2>1. Writable(S, r)
      BY <1>2 DEF Row, RowOK, WellShaped, IsDeleted, Writable
    <2>2. /\ At("bind", in, id, r) \in HandlerState
          /\ r.asset = NoAsset /\ in.asset # NoAsset => HandlerOK(S, At("bind", in, id, r))
      BY <2>1 DEF At, HandlerState, HandlerOK, KeptUpload, Ids
    <2>3. LET bound == At("mutate", [in EXCEPT !.asset = r.asset], 0, NoRow)
          IN  r.asset # NoAsset => bound \in HandlerState /\ HandlerOK(S, bound)
      BY NoRowOK, BoundsAssumption DEF At, HandlerState, HandlerOK, KeptUpload, Row
    <2>4. /\ LegacyDecision(in, id, r) \in HandlerState
          /\ HandlerOK(S, LegacyDecision(in, id, r))
      BY <2>1, LegacyDecisionOK
    <2>5. \/ Dispatch(in, id, r) = Idle
          \/ /\ Dispatch(in, id, r) = At("bind", in, id, r)
             /\ r.asset = NoAsset /\ in.asset # NoAsset
          \/ /\ Dispatch(in, id, r) = At("mutate", [in EXCEPT !.asset = r.asset], 0, NoRow)
             /\ r.asset # NoAsset
          \/ Dispatch(in, id, r) = LegacyDecision(in, id, r)
      BY <1>2, Zenon DEF Dispatch
    <2> QED
      BY <2>2, <2>3, <2>4, <2>5, IdleOK
  <1> QED
    BY <1>1, <1>2
-----------------------------------------------------------------------------
(***************************************************************************)
(* What the actions do to the tables, in the terms of the invariant.       *)
(***************************************************************************)
RowsOK(S) == rows \in [Ids -> Row] /\ \A id \in Ids : RowOK(S, rows[id])
HandlersOK(S) == /\ handler \in [Handlers -> HandlerState]
              /\ \A h \in Handlers : HandlerOK(S, handler[h])

\* A commit keeps the table well formed if the row it writes is.
LEMMA CommitOK ==
    ASSUME NEW S, ClosedClocks(S), InvOf(S), NEW id \in Ids, NEW r \in Row, RowOK(S, r), Commit(id, r)
    PROVE  RowsOK(S)' /\ seq' \in Nat
  <1> DEFINE new == [r EXCEPT !.rev = seq + 1, !.updatedAt = today]
  <1>1. seq + 1 \in Nat /\ today \in Days
    BY BoundsAssumption DEF InvOf, TypeOK, Days
  <1>2. new \in Row
    BY <1>1 DEF Row
  <1>3. RowOK(S, new)
    BY DEF Row, RowOK, WellShaped, IsDeleted
  <1>4. rows' = [rows EXCEPT ![id] = new] /\ seq' = seq + 1
    BY DEF Commit
  <1> HIDE DEF new
  <1> QED
    BY <1>1, <1>2, <1>3, <1>4 DEF InvOf, TypeOK, RowsOK

LEMMA NoCommitOK ==
    ASSUME NEW S, ClosedClocks(S), InvOf(S), UNCHANGED rows
    PROVE  RowsOK(S)'
  BY DEF InvOf, TypeOK, RowsOK

LEMMA HandlerSetOK ==
    ASSUME NEW S, ClosedClocks(S), InvOf(S), NEW h \in Handlers, NEW s \in HandlerState, HandlerOK(S, s),
           handler' = [handler EXCEPT ![h] = s]
    PROVE  HandlersOK(S)'
  BY DEF InvOf, TypeOK, HandlersOK

LEMMA HandlersKeptOK ==
    ASSUME NEW S, ClosedClocks(S), InvOf(S), UNCHANGED handler
    PROVE  HandlersOK(S)'
  BY DEF InvOf, TypeOK, HandlersOK

\* The seven variables whose types need no more than the action itself.
OthersOK ==
    /\ seq \in Nat /\ nextId \in 1..(MaxId + 1) /\ today \in 1..MaxDay
    /\ sweep \in [Workers -> SweepState]
    /\ ack \in [Devices -> Nat \cup {Unseen}]
    /\ acking \in [Devices -> Nat \cup {Unseen}]
    /\ issued \in [Ops -> SUBSET Intents]
    /\ effects \in [Ops -> [Ids -> Nat]]

LEMMA InvParts ==
    ASSUME NEW S, RowsOK(S)', HandlersOK(S)', OthersOK'
    PROVE  InvOf(S)'
  BY DEF InvOf, TypeOK, RowsOK, HandlersOK, OthersOK
-----------------------------------------------------------------------------
(***************************************************************************)
(* The uploads.                                                            *)
(***************************************************************************)
LEMMA HandleInv ==
    ASSUME NEW S, ClosedClocks(S), InvOf(S), NEW h \in Handlers, Handle(h)
    PROVE  InvOf(S)'
  <1>0. /\ handler[h] \in HandlerState /\ HandlerOK(S, handler[h])
        /\ handler[h].in \in KeptUpload
    BY DEF InvOf, TypeOK, HandlerState, KeptUpload
  <1>1. ASSUME NEW in \in UploadInputs, FindUploadTarget(h, in) PROVE InvOf(S)'
    <2>1. /\ in \in KeptUpload /\ in.blob \in Blobs /\ in.clock \in S
      BY UploadInputKept
    <2>2. /\ At("create", in, 0, NoRow) \in HandlerState
          /\ HandlerOK(S, At("create", in, 0, NoRow))
      BY <2>1, NoRowOK, BoundsAssumption DEF At, HandlerState, HandlerOK, KeptUpload
    <2>3. ASSUME NEW id \in Ids, rows[id].state # "none"
          PROVE  /\ Dispatch(in, id, rows[id]) \in HandlerState
                 /\ HandlerOK(S, Dispatch(in, id, rows[id]))
      BY <2>1, <2>3, DispatchOK DEF InvOf, TypeOK
    <2>4. \E s \in HandlerState : HandlerOK(S, s) /\ handler' = [handler EXCEPT ![h] = s]
      BY <1>1, <2>2, <2>3 DEF FindUploadTarget, Exists, Holds
    <2>5. HandlersOK(S)'
      BY <2>4, HandlerSetOK
    <2>6. OthersOK'
      BY <1>1 DEF InvOf, TypeOK, OthersOK, FindUploadTarget
    <2> QED
      BY <1>1, <2>5, <2>6, NoCommitOK, InvParts DEF FindUploadTarget
  <1>2. ASSUME CreateUpload(h) PROVE InvOf(S)'
    <2> DEFINE new == [NoRow EXCEPT !.state = "active", !.asset = handler[h].in.asset,
                                    !.blob = handler[h].in.blob,
                                    !.clock = handler[h].in.clock]
    <2>1. handler[h].at = "create" /\ nextId \in Ids
      BY <1>2 DEF CreateUpload
    <2>2. handler[h].in.blob \in Blobs /\ handler[h].in.clock \in S
      BY <1>0, <2>1 DEF HandlerOK
    <2>3. new \in Row /\ RowOK(S, new)
      <3>1. new \in Row
        BY <1>0, NoRowOK DEF Row, KeptUpload
      <3>2. RowOK(S, new)
        BY <2>2, NamesAssumption DEF RowOK, WellShaped, IsDeleted, NoRow, Nil
      <3> QED
        BY <3>1, <3>2
    <2>4. RowsOK(S)' /\ seq' \in Nat
      <3>1. CASE Commit(nextId, new)
        BY <2>1, <2>3, <3>1, CommitOK
      <3>2. CASE NoCommit
        BY <3>2, NoCommitOK DEF NoCommit, InvOf, TypeOK
      <3> QED
        BY <1>2, <3>1, <3>2 DEF CreateUpload
    <2>5. LET s == [handler[h] EXCEPT !.at = "winner"]
          IN  handler[h].in.asset # NoAsset => s \in HandlerState /\ HandlerOK(S, s)
      BY <1>0, <2>1 DEF HandlerState, HandlerOK
    <2>6. HandlersOK(S)'
      <3>1. \E s \in HandlerState : HandlerOK(S, s) /\ handler' = [handler EXCEPT ![h] = s]
        BY <1>2, <2>5, IdleOK DEF CreateUpload
      <3> QED
        BY <3>1, HandlerSetOK
    <2>7. OthersOK'
      BY <1>2, <2>1, <2>4, BoundsAssumption
        DEF InvOf, TypeOK, OthersOK, CreateUpload, Ids
    <2> QED
      BY <2>4, <2>6, <2>7, InvParts
  <1>3. ASSUME FindWinner(h) PROVE InvOf(S)'
    <2>1. handler[h].in.blob \in Blobs /\ handler[h].in.clock \in S
      BY <1>0, <1>3 DEF HandlerOK, FindWinner
    <2>2. ASSUME NEW id \in Ids, rows[id].state # "none"
          PROVE  /\ Dispatch(handler[h].in, id, rows[id]) \in HandlerState
                 /\ HandlerOK(S, Dispatch(handler[h].in, id, rows[id]))
      BY <1>0, <2>1, <2>2, DispatchOK DEF InvOf, TypeOK
    <2>3. \E s \in HandlerState : HandlerOK(S, s) /\ handler' = [handler EXCEPT ![h] = s]
      BY <1>3, <2>2, IdleOK DEF FindWinner, Exists, Holds
    <2>4. HandlersOK(S)'
      BY <2>3, HandlerSetOK
    <2>5. OthersOK'
      BY <1>3 DEF InvOf, TypeOK, OthersOK, FindWinner
    <2> QED
      BY <1>3, <2>4, <2>5, NoCommitOK, InvParts DEF FindWinner
  <1>4. ASSUME CheckBinding(h) PROVE InvOf(S)'
    <2>1. /\ handler[h].in.blob \in Blobs /\ handler[h].in.clock \in S
          /\ handler[h].id \in Ids /\ Writable(S, handler[h].row) /\ handler[h].row \in Row
      BY <1>0, <1>4 DEF HandlerState, HandlerOK, CheckBinding
    <2>2. /\ LegacyDecision(handler[h].in, handler[h].id, handler[h].row) \in HandlerState
          /\ HandlerOK(S, LegacyDecision(handler[h].in, handler[h].id, handler[h].row))
      BY <1>0, <2>1, LegacyDecisionOK
    <2>3. \E s \in HandlerState : HandlerOK(S, s) /\ handler' = [handler EXCEPT ![h] = s]
      BY <1>4, <2>2, IdleOK DEF CheckBinding
    <2>4. HandlersOK(S)'
      BY <2>3, HandlerSetOK
    <2>5. OthersOK'
      BY <1>4 DEF InvOf, TypeOK, OthersOK, CheckBinding
    <2> QED
      BY <1>4, <2>4, <2>5, NoCommitOK, InvParts DEF CheckBinding
  <1>5. ASSUME SaveLegacy(h) PROVE InvOf(S)'
    <2>1. handler[h].id \in Ids /\ Writable(S, handler[h].row) /\ handler[h].row \in Row
      BY <1>0, <1>5 DEF HandlerState, HandlerOK, SaveLegacy
    <2>2. RowOK(S, handler[h].row)
      BY <2>1 DEF Writable, RowOK, WellShaped, IsDeleted
    <2>3. RowsOK(S)' /\ seq' \in Nat
      <3>1. CASE Commit(handler[h].id, handler[h].row)
        BY <2>1, <2>2, <3>1, CommitOK
      <3>2. CASE NoCommit
        BY <3>2, NoCommitOK DEF NoCommit, InvOf, TypeOK
      <3> QED
        BY <1>5, <3>1, <3>2 DEF SaveLegacy
    <2>4. HandlersOK(S)'
      BY <1>5, HandlerSetOK, IdleOK DEF SaveLegacy
    <2>5. OthersOK'
      BY <1>5, <2>3 DEF InvOf, TypeOK, OthersOK, SaveLegacy
    <2> QED
      BY <2>3, <2>4, <2>5, InvParts
  <1>6. ASSUME MutateUpload(h) PROVE InvOf(S)'
    <2> DEFINE new(id) == [rows[id] EXCEPT !.blob = handler[h].in.blob,
                                           !.clock = handler[h].in.clock]
    <2>1. handler[h].in.blob \in Blobs /\ handler[h].in.clock \in S
      BY <1>0, <1>6 DEF HandlerOK, MutateUpload
    <2>2. ASSUME NEW id \in Ids, Holds(id, handler[h].in.asset),
                 AcceptsEdit(handler[h].in, rows[id])
          PROVE  new(id) \in Row /\ RowOK(S, new(id))
      <3>1. rows[id] \in Row /\ RowOK(S, rows[id])
        BY DEF InvOf, TypeOK
      <3>2. rows[id].state = "active"
        BY <2>2, <3>1 DEF Holds, Exists, AcceptsEdit, IsDeleted, Row
      <3>3. new(id) \in Row
        BY <1>0, <3>1 DEF Row, KeptUpload
      <3>4. RowOK(S, new(id))
        BY <2>1, <3>1, <3>2, NamesAssumption DEF Row, RowOK, WellShaped, IsDeleted
      <3> QED
        BY <3>3, <3>4
    <2>3. RowsOK(S)' /\ seq' \in Nat
      <3>1. ASSUME NEW id \in Ids, Holds(id, handler[h].in.asset),
                   AcceptsEdit(handler[h].in, rows[id]), Commit(id, new(id))
            PROVE  RowsOK(S)' /\ seq' \in Nat
        BY <2>2, <3>1, CommitOK
      <3>2. CASE NoCommit
        BY <3>2, NoCommitOK DEF NoCommit, InvOf, TypeOK
      <3> QED
        BY <1>6, <3>1, <3>2 DEF MutateUpload
    <2>4. HandlersOK(S)'
      BY <1>6, HandlerSetOK, IdleOK DEF MutateUpload
    <2>5. OthersOK'
      BY <1>6, <2>3 DEF InvOf, TypeOK, OthersOK, MutateUpload
    <2> QED
      BY <2>3, <2>4, <2>5, InvParts
  <1> QED
    BY <1>1, <1>2, <1>3, <1>4, <1>5, <1>6 DEF Handle
-----------------------------------------------------------------------------
(***************************************************************************)
(* The lifecycle operations.                                               *)
(***************************************************************************)
LEMMA ApplyInv ==
    ASSUME NEW S, ClosedClocks(S), InvOf(S), NEW o \in Ops, NEW i \in Intents, NEW id \in Ids,
           NEW r \in Row, RowOK(S, r), Apply(o, i, id, r)
    PROVE  InvOf(S)'
  <1> DEFINE signed == [r EXCEPT !.lastOp = o]
  <1>1. signed \in Row
    BY DEF Row
  <1>2. RowOK(S, signed)
    BY DEF Row, RowOK, WellShaped, IsDeleted
  <1>3. RowsOK(S)' /\ seq' \in Nat
    BY <1>1, <1>2, CommitOK DEF Apply
  <1>4. HandlersOK(S)'
    BY HandlersKeptOK DEF Apply
  <1>5. /\ effects' \in [Ops -> [Ids -> Nat]]
        /\ issued' \in [Ops -> SUBSET Intents]
    BY DEF InvOf, TypeOK, Apply
  <1>6. OthersOK'
    BY <1>3, <1>5 DEF InvOf, TypeOK, OthersOK, Apply
  <1> QED
    BY <1>3, <1>4, <1>6, InvParts

\* A deletion leaves a clock below the limit: a merge invents no counts.
LEMMA DeleteClockBelow ==
    ASSUME NEW S, ClosedClocks(S), NEW a \in S, NEW b \in S
    PROVE  DeleteClock(a, b) \in Clock /\ DeleteClock(a, b) \in S
  BY DEF ClosedClocks, DeleteClock

\* What a deletion makes of a row that is not purged.
LEMMA TrashedOK ==
    ASSUME NEW S, ClosedClocks(S), InvOf(S), NEW r \in Row, RowOK(S, r), r.state \in {"active", "deleted"},
           r.asset # NoAsset, NEW clock \in Clock, clock \in S, NEW days \in Retentions
    PROVE  /\ Trashed(r, clock, days) \in Row /\ RowOK(S, Trashed(r, clock, days))
           /\ Trashed(r, clock, days).clock = clock
  <1> DEFINE since == IF r.deletedAt = Nil THEN today ELSE r.deletedAt
             due == IF r.deletedAt = Nil THEN today + days ELSE r.purgeAfter
             new == [r EXCEPT !.state = "deleted", !.clock = clock,
                              !.deletedAt = since, !.purgeAfter = due]
  <1>1. Trashed(r, clock, days) = new
    BY DEF Trashed, Row
  <1>2. r.state = "deleted" <=> r.deletedAt # Nil
    BY DEF RowOK, WellShaped, IsDeleted
  <1>3. today \in Nat \ {0} /\ days \in Nat
    BY BoundsAssumption DEF InvOf, TypeOK
  <1>4. since \in Nat /\ since # Nil /\ due \in Nat /\ due # Nil
    BY <1>2, <1>3 DEF Row, Nil, RowOK, WellShaped
  <1> HIDE DEF since, due
  <1>5. new \in Row
    BY <1>4 DEF Row
  <1>6. RowOK(S, new)
    BY <1>4 DEF Row, RowOK, WellShaped, IsDeleted
  <1>7. new.clock = clock
    BY DEF Row
  <1> QED
    BY <1>1, <1>5, <1>6, <1>7

LEMMA OperateInv ==
    ASSUME NEW S, ClosedClocks(S), InvOf(S), NEW o \in Ops, Operate(o)
    PROVE  InvOf(S)'
  <1> PICK i \in Intents : DeleteAsset(o, i) \/ RestoreAsset(o, i) \/ PurgeAsset(o, i)
    BY DEF Operate
  <1>0. i.clock \in Clock /\ i.clock \in S /\ i.asset \in Assets /\ i.asset # NoAsset
    BY InputsAssumption, NamesAssumption DEF Intent, ClosedClocks
  <1>1. ASSUME DeleteAsset(o, i) PROVE InvOf(S)'
    <2> PICK id \in Ids, days \in Retentions :
          /\ Holds(id, i.asset)
          /\ rows[id].state # "purged"
          /\ Apply(o, i, id, Trashed(rows[id], DeleteClock(i.clock, rows[id].clock), days))
      BY <1>1 DEF DeleteAsset
    <2>1. /\ rows[id] \in Row /\ RowOK(S, rows[id]) /\ rows[id].clock \in Clock
          /\ rows[id].state \in {"active", "deleted"} /\ rows[id].asset # NoAsset
      BY <1>0 DEF InvOf, TypeOK, Row, Holds, Exists
    <2>2. /\ DeleteClock(i.clock, rows[id].clock) \in Clock
          /\ DeleteClock(i.clock, rows[id].clock) \in S
      BY <1>0, <2>1, DeleteClockBelow DEF RowOK
    <2>3. LET r == Trashed(rows[id], DeleteClock(i.clock, rows[id].clock), days)
          IN  r \in Row /\ RowOK(S, r)
      BY <2>1, <2>2, TrashedOK
    <2> QED
      BY <2>3, ApplyInv
  <1>2. ASSUME RestoreAsset(o, i) PROVE InvOf(S)'
    <2> PICK id \in Ids :
          /\ Restorable(rows[id], i.clock)
          /\ Apply(o, i, id, Restored(rows[id], i.clock))
      BY <1>2 DEF RestoreAsset
    <2>1. rows[id] \in Row /\ RowOK(S, rows[id]) /\ rows[id].state = "deleted"
      BY DEF InvOf, TypeOK, Restorable
    <2>2. Restored(rows[id], i.clock) \in Row
      BY <1>0, <2>1 DEF Row, Restored, Nil
    <2>3. RowOK(S, Restored(rows[id], i.clock))
      BY <1>0, <2>1 DEF Row, RowOK, WellShaped, IsDeleted, Restored, Nil
    <2> QED
      BY <2>2, <2>3, ApplyInv
  <1>3. ASSUME PurgeAsset(o, i) PROVE InvOf(S)'
    <2> DEFINE new(id) == [rows[id] EXCEPT !.state = "purged", !.clock = i.clock,
                                           !.blob = NoBlob, !.purgeAfter = Nil]
    <2> PICK id \in Ids : rows[id].state = "deleted" /\ Apply(o, i, id, new(id))
      BY <1>3 DEF PurgeAsset
    <2>1. rows[id] \in Row /\ RowOK(S, rows[id])
      BY DEF InvOf, TypeOK
    <2>2. new(id) \in Row
      BY <1>0, <2>1 DEF Row, Nil
    <2>3. RowOK(S, new(id))
      BY <1>0, <2>1 DEF Row, RowOK, WellShaped, IsDeleted, Nil
    <2> QED
      BY <2>2, <2>3, ApplyInv
  <1> QED
    BY <1>1, <1>2, <1>3
-----------------------------------------------------------------------------
(***************************************************************************)
(* The sweeps.                                                             *)
(***************************************************************************)
\* The tombstone a sweep makes: its clock has room for the sweep's count.
LEMMA SweptOK ==
    ASSUME NEW r \in Row, RowOK(Roomy, r), r.state = "deleted", NEW now \in Days
    PROVE  LET new == [r EXCEPT !.state = "purged", !.clock = Bump(r.clock, Cleaner, now),
                                !.blob = NoBlob, !.purgeAfter = Nil, !.lastOp = SystemOp]
           IN  new \in Row /\ RowOK(Roomy, new)
  <1>1. now \in 0..MaxInt
    BY BoundsAssumption, MaxIntAssumption DEF Days
  <1>2. r.clock \in Clock /\ r.clock[Cleaner] < MaxInt
    BY NamesAssumption DEF Row, RowOK, Roomy
  <1>3. Bump(r.clock, Cleaner, now) \in Clock
    BY <1>1, <1>2, NamesAssumption, BumpAdvances DEF BumpsForward
  <1> DEFINE new(clock) == [r EXCEPT !.state = "purged", !.clock = clock,
                                     !.blob = NoBlob, !.purgeAfter = Nil, !.lastOp = SystemOp]
  <1>4. ASSUME NEW clock \in Clock PROVE new(clock) \in Row /\ RowOK(Roomy, new(clock))
    <2>1. new(clock) \in Row
      BY DEF Row, Nil
    <2>2. RowOK(Roomy, new(clock))
      BY DEF Row, RowOK, WellShaped, IsDeleted, Nil
    <2> QED
      BY <2>1, <2>2
  <1> QED
    BY <1>3, <1>4

LEMMA SweepInv ==
    ASSUME InvOf(Roomy), NEW w \in Workers, Sweep(w)
    PROVE  InvOf(Roomy)'
  <1> ClosedClocks(Roomy)
    BY ClosedSets
  <1>0. sweep[w] \in SweepState /\ sweep \in [Workers -> SweepState] /\ Resting \in SweepState
    BY BoundsAssumption DEF InvOf, TypeOK, SweepState, Resting, Days
  <1>1. ASSUME ListExpired(w) PROVE InvOf(Roomy)'
    <2> DEFINE due == [id \in Ids |-> rows[id].purgeAfter]
               expired == {id \in Ids : /\ rows[id].state = "deleted"
                                        /\ due[id] # Nil /\ due[id] <= today}
               listed == {rows[id].asset : id \in First(BatchLimit, expired, due)}
    <2>1. First(BatchLimit, expired, due) \subseteq expired
      BY DEF First
    <2>2. \A id \in expired : rows[id].asset \in Assets
      BY DEF InvOf, TypeOK, Row, RowOK, WellShaped, IsDeleted
    <2>3. listed \in SUBSET Assets
      BY <2>1, <2>2
    <2>4. sweep' = [sweep EXCEPT ![w] =
                      [Resting EXCEPT !.at = "purge", !.now = today, !.todo = listed]]
      BY <1>1 DEF ListExpired
    <2> HIDE DEF listed
    <2>5. today \in Days
      BY BoundsAssumption DEF InvOf, TypeOK, Days
    <2>6. [Resting EXCEPT !.at = "purge", !.now = today, !.todo = listed] \in SweepState
      BY <1>0, <2>3, <2>5 DEF SweepState
    <2>7. sweep' \in [Workers -> SweepState]
      BY <1>0, <2>4, <2>6
    <2>8. OthersOK'
      BY <1>1, <2>7 DEF InvOf, TypeOK, OthersOK, ListExpired
    <2> QED
      BY <1>1, <2>8, NoCommitOK, HandlersKeptOK, InvParts DEF ListExpired
  <1>2. ASSUME NEW a \in Assets, PurgeExpired(w, a) PROVE InvOf(Roomy)'
    <2>1. RowsOK(Roomy)' /\ seq' \in Nat
      <3> DEFINE new(id) == [rows[id] EXCEPT !.state = "purged",
                               !.clock = Bump(rows[id].clock, Cleaner, sweep[w].now),
                               !.blob = NoBlob, !.purgeAfter = Nil, !.lastOp = SystemOp]
      <3>1. ASSUME NEW id \in Ids, StillExpired(rows[id], sweep[w].now), Commit(id, new(id))
            PROVE  RowsOK(Roomy)' /\ seq' \in Nat
        <4>1. rows[id] \in Row /\ RowOK(Roomy, rows[id]) /\ rows[id].state = "deleted"
          BY <3>1 DEF InvOf, TypeOK, StillExpired
        <4>2. sweep[w].now \in Days
          BY <1>0 DEF SweepState
        <4>3. new(id) \in Row /\ RowOK(Roomy, new(id))
          BY <4>1, <4>2, SweptOK
        <4> HIDE DEF new
        <4> QED
          BY <3>1, <4>3, CommitOK
      <3>2. CASE NoCommit
        BY <3>2, NoCommitOK DEF NoCommit, InvOf, TypeOK
      <3> QED
        BY <1>2, <3>1, <3>2 DEF PurgeExpired
    <2>2. sweep' \in [Workers -> SweepState]
      <3>1. [sweep[w] EXCEPT !.todo = @ \ {a}] \in SweepState
        BY <1>0 DEF SweepState
      <3> QED
        BY <1>0, <1>2, <3>1 DEF PurgeExpired
    <2>3. OthersOK'
      BY <1>2, <2>1, <2>2 DEF InvOf, TypeOK, OthersOK, PurgeExpired
    <2> QED
      BY <1>2, <2>1, <2>3, HandlersKeptOK, InvParts DEF PurgeExpired
  <1>3. ASSUME NEW a \in Assets, PurgeFails(w, a) PROVE InvOf(Roomy)'
    <2>1. [sweep[w] EXCEPT !.todo = @ \ {a}] \in SweepState
      BY <1>0 DEF SweepState
    <2>2. sweep' \in [Workers -> SweepState]
      BY <1>0, <1>3, <2>1 DEF PurgeFails
    <2>3. OthersOK'
      BY <1>3, <2>2 DEF InvOf, TypeOK, OthersOK, PurgeFails
    <2> QED
      BY <1>3, <2>3, NoCommitOK, HandlersKeptOK, InvParts DEF PurgeFails
  <1>4. ASSUME NEW room \in 0..BatchLimit, ListCandidates(w, room) PROVE InvOf(Roomy)'
    <2> DEFINE written == [id \in Ids |-> rows[id].rev]
               old == {id \in Ids : /\ TombstoneDays > 0 /\ rows[id].state = "purged"
                                    /\ rows[id].updatedAt <= sweep[w].now - TombstoneDays}
               batch == First(room, old, written)
    <2>1. batch \in SUBSET Ids
      BY DEF First
    <2>2. sweep' = [sweep EXCEPT ![w] = IF batch = {} THEN Resting
                                        ELSE [@ EXCEPT !.at = "judge", !.ids = batch]]
      BY <1>4 DEF ListCandidates
    <2> HIDE DEF batch
    <2>3. [sweep[w] EXCEPT !.at = "judge", !.ids = batch] \in SweepState
      BY <1>0, <2>1 DEF SweepState
    <2>4. sweep' \in [Workers -> SweepState]
      BY <1>0, <2>2, <2>3
    <2>5. OthersOK'
      BY <1>4, <2>4 DEF InvOf, TypeOK, OthersOK, ListCandidates
    <2> QED
      BY <1>4, <2>5, NoCommitOK, HandlersKeptOK, InvParts DEF ListCandidates
  <1>5. ASSUME JudgeCandidates(w) PROVE InvOf(Roomy)'
    <2> DEFINE eligible == {id \in sweep[w].ids : Eligible(id)}
    <2>1. eligible \in SUBSET Ids
      BY <1>0 DEF SweepState
    <2>2. sweep' = [sweep EXCEPT ![w] = IF eligible = {} THEN Resting
                                        ELSE [@ EXCEPT !.at = "reclaim", !.ids = eligible]]
      BY <1>5 DEF JudgeCandidates
    <2> HIDE DEF eligible
    <2>3. [sweep[w] EXCEPT !.at = "reclaim", !.ids = eligible] \in SweepState
      BY <1>0, <2>1 DEF SweepState
    <2>4. sweep' \in [Workers -> SweepState]
      BY <1>0, <2>2, <2>3
    <2>5. OthersOK'
      BY <1>5, <2>4 DEF InvOf, TypeOK, OthersOK, JudgeCandidates
    <2> QED
      BY <1>5, <2>5, NoCommitOK, HandlersKeptOK, InvParts DEF JudgeCandidates
  <1>6. ASSUME ReclaimTombstones(w) PROVE InvOf(Roomy)'
    <2>1. RowsOK(Roomy)'
      BY <1>6, NoRowOK DEF InvOf, TypeOK, RowsOK, ReclaimTombstones
    <2>2. OthersOK'
      BY <1>0, <1>6 DEF InvOf, TypeOK, OthersOK, ReclaimTombstones
    <2> QED
      BY <1>6, <2>1, <2>2, HandlersKeptOK, InvParts DEF ReclaimTombstones
  <1> QED
    BY <1>1, <1>2, <1>3, <1>4, <1>5, <1>6 DEF Sweep
-----------------------------------------------------------------------------
(***************************************************************************)
(* The other actions, and the whole.                                       *)
(***************************************************************************)
LEMMA DeleteLegacyInv ==
    ASSUME NEW S, ClosedClocks(S), InvOf(S), NEW id \in Ids, DeleteLegacy(id)
    PROVE  InvOf(S)'
  <1>1. RowsOK(S)'
    BY NoRowOK DEF InvOf, TypeOK, RowsOK, DeleteLegacy
  <1>2. OthersOK'
    BY DEF InvOf, TypeOK, OthersOK, DeleteLegacy, requestVars
  <1> QED
    BY <1>1, <1>2, HandlersKeptOK, InvParts DEF DeleteLegacy, requestVars

LEMMA AcknowledgeInv ==
    ASSUME NEW S, ClosedClocks(S), InvOf(S), NEW d \in Devices, Acknowledge(d)
    PROVE  InvOf(S)'
  <1>1. UNCHANGED <<rows, handler>>
    BY DEF Acknowledge, CheckAck, AcknowledgeDevice
  <1>2. OthersOK'
    <2>1. ASSUME NEW revision \in AckInputs, CheckAck(d, revision) PROVE OthersOK'
      BY <2>1, InputsAssumption DEF InvOf, TypeOK, OthersOK, CheckAck
    <2>2. ASSUME AcknowledgeDevice(d) PROVE OthersOK'
      BY <2>2 DEF InvOf, TypeOK, OthersOK, AcknowledgeDevice, Watermark, Unseen
    <2> QED
      BY <2>1, <2>2 DEF Acknowledge
  <1> QED
    BY <1>1, <1>2, NoCommitOK, HandlersKeptOK, InvParts

LEMMA CrashInv ==
    ASSUME NEW S, ClosedClocks(S), InvOf(S), Crash
    PROVE  InvOf(S)'
  <1>1. HandlersOK(S)'
    BY IdleOK DEF Crash, HandlersOK
  <1>2. OthersOK'
    BY BoundsAssumption DEF InvOf, TypeOK, OthersOK, Crash, SweepState, Resting, Days
  <1> QED
    BY <1>1, <1>2, NoCommitOK, InvParts DEF Crash

LEMMA TickInv ==
    ASSUME NEW S, ClosedClocks(S), InvOf(S), Tick
    PROVE  InvOf(S)'
  <1>1. OthersOK'
    BY BoundsAssumption DEF InvOf, TypeOK, OthersOK, Tick
  <1> QED
    BY <1>1, NoCommitOK, HandlersKeptOK, InvParts DEF Tick

LEMMA InitInv ==
    ASSUME NEW S, ClosedClocks(S), Init
    PROVE  InvOf(S)
  <1> DEFINE blob == CHOOSE b \in Blobs : TRUE
  <1>1. blob \in Blobs /\ blob # NoBlob
    BY NamesAssumption
  <1>2. ASSUME NEW id \in Ids PROVE LegacyRow(id) \in Row /\ RowOK(S, LegacyRow(id))
    <2>1. LegacyRow(id) = [NoRow EXCEPT !.state = "active", !.rev = id, !.blob = blob]
      BY DEF LegacyRow
    <2> HIDE DEF blob
    <2>2. id \in Nat
      BY BoundsAssumption DEF Ids
    <2>3. LegacyRow(id) \in Row
      BY <1>1, <2>1, <2>2, NoRowOK DEF Row
    <2>4. RowOK(S, LegacyRow(id))
      BY <1>1, <2>1, NoRowOK DEF RowOK, WellShaped, IsDeleted, NoRow, Nil
    <2> QED
      BY <2>3, <2>4
  <1>3. rows \in [Ids -> Row] /\ \A id \in Ids : RowOK(S, rows[id])
    BY <1>2, NoRowOK DEF Init
  <1>4. handler \in [Handlers -> HandlerState] /\ \A h \in Handlers : HandlerOK(S, handler[h])
    BY IdleOK DEF Init
  <1>5. OthersOK
    BY BoundsAssumption DEF Init, OthersOK, SweepState, Resting, Days, Unseen
  <1> QED
    BY <1>3, <1>4, <1>5 DEF InvOf, TypeOK, OthersOK

\* Clocks with room are clocks.
LEMMA RoomInvMeans ==
    ASSUME RoomInv
    PROVE  Inv
  BY DEF Roomy, RoomInv, Inv, InvOf, RowOK, HandlerOK, Writable

LEMMA RoomInvMeansNext ==
    ASSUME RoomInv'
    PROVE  Inv'
  BY DEF Roomy, RoomInv, Inv, InvOf, RowOK, HandlerOK, Writable

LEMMA NextInv == RoomInv /\ [Next]_vars => RoomInv'
  <1> SUFFICES ASSUME RoomInv, [Next]_vars PROVE RoomInv'
    OBVIOUS
  <1>1. CASE UNCHANGED vars
    BY <1>1 DEF vars, RoomInv, InvOf, TypeOK
  <1>2. CASE Next
    BY <1>2, ClosedSets, HandleInv, DeleteLegacyInv, OperateInv, AcknowledgeInv, SweepInv,
       CrashInv, TickInv DEF Next, RoomInv
  <1> QED
    BY <1>1, <1>2

\* The types, and the shape of every row that is stored or carried.
THEOREM Invariance == Spec => [](RoomInv /\ Inv)
  <1>1. Init => RoomInv
    BY InitInv, ClosedSets DEF RoomInv
  <1> QED
    BY <1>1, NextInv, RoomInvMeans, PTL DEF Spec

\* Every value the store ever holds is of its column's type; in particular a
\* clock bumped by any number of sweeps never leaves the 64-bit range.
THEOREM TypeCorrect == Spec => []TypeOK
  <1>1. Inv => TypeOK
    BY DEF Inv, InvOf
  <1> QED
    BY <1>1, Invariance, PTL

\* Deadlines, deletion times, ciphertexts and asset identifiers agree with the
\* state of every row, also when old clients write back rows they read before.
THEOREM TombstonesWellShaped == Spec => []TombstoneShape
  <1>1. Inv => TombstoneShape
    BY DEF Inv, InvOf, RowOK, TombstoneShape
  <1> QED
    BY <1>1, Invariance, PTL
-----------------------------------------------------------------------------
(***************************************************************************)
(* What any step does to the table, whoever takes it: one of five things.  *)
(* The theorems below need no more of the actions than this.               *)
(***************************************************************************)
\* A first upload.
Insert(r) ==
    /\ nextId \in Ids /\ nextId' = nextId + 1
    /\ r.state = "active" /\ ~Taken(nextId, r.asset)
    /\ \E h \in Handlers : /\ handler[h].at = "create" /\ r.asset = handler[h].in.asset
                          /\ r.blob = handler[h].in.blob /\ handler'[h] = Idle
    /\ Commit(nextId, r)

\* A legacy upload writes back the row it once read.
WriteBack(id, r) ==
    /\ r.state = "active" /\ ~Taken(id, r.asset)
    /\ \E h \in Handlers : handler[h].at = "save"
    /\ Commit(id, r) /\ UNCHANGED nextId

\* The moves of a row's state.
Moves == {<<"active", "active">>, <<"active", "deleted">>, <<"deleted", "deleted">>,
          <<"deleted", "active">>, <<"deleted", "purged">>}

\* An edit, a lifecycle operation or a sweep changes the row of an asset.
Change(id, r) ==
    /\ rows[id].asset # NoAsset /\ r.asset = rows[id].asset
    /\ <<rows[id].state, r.state>> \in Moves
    /\ Newer(r.clock, rows[id].clock)
    /\ rows[id].state = "deleted" /\ r.state = "deleted"
         => r.purgeAfter = rows[id].purgeAfter
    /\ rows[id].state = "deleted" /\ r.state = "purged"
         => r.lastOp \in Ops \/ \E w \in Workers : rows[id].purgeAfter <= sweep[w].now
    /\ \/ r.blob = rows[id].blob \/ r.state = "purged"
       \/ \E h \in Handlers : /\ handler[h].at = "mutate" /\ r.blob = handler[h].in.blob
                             /\ handler'[h] = Idle
    /\ Commit(id, r) /\ UNCHANGED nextId

\* Rows disappear: unbound ones, or the tombstones that a sweep judged.
Remove(gone) ==
    /\ rows' = [id \in Ids |-> IF id \in gone THEN NoRow ELSE rows[id]]
    /\ UNCHANGED <<seq, nextId>>
    /\ \/ \A id \in gone : rows[id].asset = NoAsset
       \/ \E w \in Workers : /\ sweep[w].at = "reclaim" /\ gone \subseteq sweep[w].ids
                            /\ \A id \in gone : rows[id].state = "purged"

TableStep ==
    \/ UNCHANGED <<rows, seq>> /\ nextId' \in {nextId, nextId + 1}
    \/ \E r \in Row : Insert(r)
    \/ \E id \in Ids, r \in Row : WriteBack(id, r) \/ Change(id, r)
    \/ \E gone \in SUBSET Ids : Remove(gone)

LEMMA CreateTable ==
    ASSUME Inv, NEW h \in Handlers, CreateUpload(h)
    PROVE  \/ NoCommit /\ nextId' = nextId + 1
           \/ \E r \in Row : Insert(r)
  <1> DEFINE new == [NoRow EXCEPT !.state = "active", !.asset = handler[h].in.asset,
                                  !.blob = handler[h].in.blob,
                                  !.clock = handler[h].in.clock]
  <1>1. handler[h].in \in KeptUpload /\ handler \in [Handlers -> HandlerState]
    BY DEF Inv, InvOf, TypeOK, HandlerState, KeptUpload
  <1>2. /\ new \in Row /\ new.asset = handler[h].in.asset /\ new.state = "active"
        /\ new.blob = handler[h].in.blob
    BY <1>1, NoRowOK, ClosedSets DEF Row, KeptUpload, NoRow
  <1>3. CASE ~Taken(nextId, handler[h].in.asset) /\ Commit(nextId, new) /\ handler'[h] = Idle
    <2>1. Insert(new)
      <3> HIDE DEF new
      <3> QED
        BY <1>2, <1>3 DEF Insert, CreateUpload
    <2> QED
      BY <1>2, <2>1
  <1>4. CASE NoCommit
    BY <1>4 DEF CreateUpload
  <1> QED
    BY <1>1, <1>3, <1>4 DEF CreateUpload

LEMMA MutateTable ==
    ASSUME Inv, NEW h \in Handlers, MutateUpload(h)
    PROVE  \/ NoCommit /\ UNCHANGED nextId
           \/ \E id \in Ids, r \in Row : Change(id, r)
  <1> DEFINE new(id) == [rows[id] EXCEPT !.blob = handler[h].in.blob,
                                         !.clock = handler[h].in.clock]
  <1>0. /\ HandlerOK(Clock, handler[h]) /\ handler[h].in \in KeptUpload
        /\ handler \in [Handlers -> HandlerState]
    BY DEF Inv, InvOf, TypeOK, HandlerState, KeptUpload
  <1>1. ASSUME NEW id \in Ids, Holds(id, handler[h].in.asset),
               AcceptsEdit(handler[h].in, rows[id]), Commit(id, new(id))
        PROVE  Change(id, new(id)) /\ new(id) \in Row
    <2>1. rows[id] \in Row /\ RowOK(Clock, rows[id])
      BY DEF Inv, InvOf, TypeOK
    <2>2. rows[id].state = "active" /\ Newer(handler[h].in.clock, rows[id].clock)
      BY <1>1, <2>1 DEF Holds, Exists, AcceptsEdit, IsDeleted, Row
    <2>3. /\ new(id) \in Row /\ new(id).asset = rows[id].asset
          /\ new(id).state = "active" /\ new(id).clock = handler[h].in.clock
          /\ new(id).blob = handler[h].in.blob
      BY <1>0, <2>1, <2>2 DEF Row, KeptUpload
    <2>4. rows[id].asset # NoAsset
      BY <1>0, <1>1 DEF MutateUpload, Holds, HandlerOK
    <2>5. handler[h].at = "mutate" /\ handler'[h] = Idle /\ UNCHANGED nextId
      BY <1>0 DEF MutateUpload
    <2> HIDE DEF new
    <2> QED
      BY <1>1, <2>2, <2>3, <2>4, <2>5 DEF Change, Moves
  <1> QED
    BY <1>1 DEF MutateUpload

LEMMA HandleTable ==
    ASSUME Inv, NEW h \in Handlers, Handle(h)
    PROVE  TableStep
  <1>1. CASE (\E in \in UploadInputs : FindUploadTarget(h, in)) \/ FindWinner(h) \/ CheckBinding(h)
    BY <1>1 DEF TableStep, FindUploadTarget, FindWinner, CheckBinding
  <1>2. CASE CreateUpload(h)
    BY <1>2, CreateTable DEF TableStep, NoCommit
  <1>3. ASSUME SaveLegacy(h) PROVE TableStep
    <2>1. handler[h].id \in Ids /\ Writable(Clock, handler[h].row) /\ handler[h].row \in Row
      BY <1>3 DEF Inv, InvOf, TypeOK, HandlerState, HandlerOK, SaveLegacy
    <2>2. CASE NoCommit
      BY <1>3, <2>2 DEF NoCommit, TableStep, SaveLegacy
    <2>3. CASE ~NoCommit
      <3>1. WriteBack(handler[h].id, handler[h].row)
        BY <1>3, <2>1, <2>3 DEF WriteBack, SaveLegacy, Writable
      <3> QED
        BY <2>1, <3>1 DEF TableStep
    <2> QED
      BY <2>2, <2>3
  <1>4. CASE MutateUpload(h)
    BY <1>4, MutateTable DEF TableStep, NoCommit
  <1> QED
    BY <1>1, <1>2, <1>3, <1>4 DEF Handle

\* A deletion's clock is newer than the clock it was compared with.
LEMMA DeleteClockNewer ==
    ASSUME NEW a \in Clock, NEW b \in Clock, Compare(a, b) \in {"newer", "conflict"}
    PROVE  Newer(DeleteClock(a, b), b)
  BY MergeJoins DEF DeleteClock, MergesHistories, Newer

\* The operations of clients change one row, and count their effect on it.
LEMMA ApplyTable ==
    ASSUME Inv, NEW o \in Ops, NEW i \in Intents, NEW id \in Ids, NEW r \in Row,
           rows[id].asset # NoAsset, r.asset = rows[id].asset,
           <<rows[id].state, r.state>> \in Moves, Newer(r.clock, rows[id].clock),
           rows[id].state = "deleted" /\ r.state = "deleted"
             => r.purgeAfter = rows[id].purgeAfter,
           r.blob = rows[id].blob \/ r.state = "purged",
           Apply(o, i, id, r)
    PROVE  \E k \in Ids, s \in Row : Change(k, s)
  <1> DEFINE signed == [r EXCEPT !.lastOp = o]
  <1>1. /\ signed \in Row /\ signed.asset = r.asset /\ signed.state = r.state
        /\ signed.clock = r.clock /\ signed.purgeAfter = r.purgeAfter
        /\ signed.lastOp \in Ops /\ signed.blob = r.blob
    BY DEF Row
  <1>2. Commit(id, signed) /\ UNCHANGED nextId
    BY DEF Apply
  <1> HIDE DEF signed
  <1>3. Change(id, signed)
    BY <1>1, <1>2 DEF Change
  <1> QED
    BY <1>1, <1>3

LEMMA OperateTable ==
    ASSUME Inv, NEW o \in Ops, Operate(o)
    PROVE  \E id \in Ids, r \in Row : Change(id, r)
  <1> DEFINE Goal == \E id \in Ids, r \in Row : Change(id, r)
  <1> PICK i \in Intents : DeleteAsset(o, i) \/ RestoreAsset(o, i) \/ PurgeAsset(o, i)
    BY DEF Operate
  <1>0. i.clock \in Clock /\ i.asset \in Assets /\ i.asset # NoAsset
    BY InputsAssumption, NamesAssumption DEF Intent
  <1>1. ASSUME DeleteAsset(o, i) PROVE Goal
    <2> PICK id \in Ids, days \in Retentions :
          /\ Holds(id, i.asset)
          /\ rows[id].state # "purged"
          /\ Compare(i.clock, rows[id].clock) \in {"newer", "conflict"}
          /\ Apply(o, i, id, Trashed(rows[id], DeleteClock(i.clock, rows[id].clock), days))
      BY <1>1 DEF DeleteAsset
    <2> DEFINE clock == DeleteClock(i.clock, rows[id].clock)
               new == Trashed(rows[id], clock, days)
    <2>1. /\ rows[id] \in Row /\ RowOK(Clock, rows[id]) /\ rows[id].clock \in Clock
          /\ rows[id].state \in {"active", "deleted"} /\ rows[id].asset # NoAsset
      BY <1>0 DEF Inv, InvOf, TypeOK, Row, Holds, Exists
    <2>2. clock \in Clock /\ Newer(clock, rows[id].clock)
      BY <1>0, <2>1, ClosedSets, DeleteClockBelow, DeleteClockNewer DEF RowOK
    <2> HIDE DEF clock
    <2>3. new \in Row
      BY <2>1, <2>2, ClosedSets, TrashedOK DEF Inv
    <2>4. /\ new.state = "deleted" /\ new.clock = clock /\ new.asset = rows[id].asset
          /\ rows[id].state = "deleted" => new.purgeAfter = rows[id].purgeAfter
          /\ new.blob = rows[id].blob
      BY <2>1 DEF Trashed, Row, RowOK, WellShaped, IsDeleted
    <2>5. Apply(o, i, id, new)
      BY DEF clock
    <2> HIDE DEF new
    <2> QED
      BY <2>1, <2>2, <2>3, <2>4, <2>5, ApplyTable DEF Moves
  <1>2. ASSUME RestoreAsset(o, i) PROVE Goal
    <2> PICK id \in Ids :
          /\ Holds(id, i.asset) /\ Restorable(rows[id], i.clock)
          /\ Apply(o, i, id, Restored(rows[id], i.clock))
      BY <1>2 DEF RestoreAsset
    <2> DEFINE new == Restored(rows[id], i.clock)
    <2>1. rows[id] \in Row /\ rows[id].state = "deleted" /\ rows[id].asset # NoAsset
      BY <1>0 DEF Inv, InvOf, TypeOK, Restorable, Holds
    <2>2. Newer(i.clock, rows[id].clock)
      BY DEF Restorable
    <2>3. /\ new \in Row /\ new.state = "active" /\ new.clock = i.clock
          /\ new.asset = rows[id].asset /\ new.blob = rows[id].blob
      BY <1>0, <2>1 DEF Restored, Row, Nil
    <2> HIDE DEF new
    <2> QED
      BY <2>1, <2>2, <2>3, ApplyTable DEF Moves, new
  <1>3. ASSUME PurgeAsset(o, i) PROVE Goal
    <2> DEFINE new(id) == [rows[id] EXCEPT !.state = "purged", !.clock = i.clock,
                                           !.blob = NoBlob, !.purgeAfter = Nil]
    <2> PICK id \in Ids :
          /\ Holds(id, i.asset) /\ rows[id].state = "deleted"
          /\ Newer(i.clock, rows[id].clock) /\ Apply(o, i, id, new(id))
      BY <1>3 DEF PurgeAsset
    <2>1. rows[id] \in Row /\ rows[id].asset # NoAsset
      BY <1>0 DEF Inv, InvOf, TypeOK, Holds
    <2>2. /\ new(id) \in Row /\ new(id).state = "purged" /\ new(id).clock = i.clock
          /\ new(id).asset = rows[id].asset
      BY <1>0, <2>1 DEF Row, Nil
    <2> HIDE DEF new
    <2> QED
      BY <2>1, <2>2, ApplyTable DEF Moves
  <1> QED
    BY <1>1, <1>2, <1>3

LEMMA SweepTable ==
    ASSUME RoomInv, NEW w \in Workers, Sweep(w)
    PROVE  TableStep
  <1>0. sweep[w] \in SweepState
    BY DEF RoomInv, InvOf, TypeOK
  <1>1. CASE \/ ListExpired(w) \/ JudgeCandidates(w)
             \/ \E room \in 0..BatchLimit : ListCandidates(w, room)
             \/ \E a \in Assets : PurgeFails(w, a)
    BY <1>1 DEF TableStep, ListExpired, ListCandidates, JudgeCandidates, PurgeFails
  <1>2. ASSUME NEW a \in Assets, PurgeExpired(w, a) PROVE TableStep
    <2> DEFINE new(id) == [rows[id] EXCEPT !.state = "purged",
                             !.clock = Bump(rows[id].clock, Cleaner, sweep[w].now),
                             !.blob = NoBlob, !.purgeAfter = Nil, !.lastOp = SystemOp]
    <2>1. ASSUME NEW id \in Ids, Holds(id, a), StillExpired(rows[id], sweep[w].now),
                 Commit(id, new(id))
          PROVE  TableStep
      <3>1. /\ rows[id] \in Row /\ RowOK(Roomy, rows[id]) /\ rows[id].state = "deleted"
            /\ rows[id].asset # NoAsset /\ sweep[w].now \in Days
        BY <1>0, <2>1, NamesAssumption DEF RoomInv, InvOf, TypeOK, StillExpired, Holds, SweepState
      <3>2. /\ new(id) \in Row /\ new(id).state = "purged"
            /\ new(id).asset = rows[id].asset
            /\ new(id).clock = Bump(rows[id].clock, Cleaner, sweep[w].now)
        <4>1. new(id) \in Row
          BY <3>1, SweptOK
        <4> QED
          BY <3>1, <4>1 DEF Row
      <3>3. Newer(Bump(rows[id].clock, Cleaner, sweep[w].now), rows[id].clock)
        <4>1. /\ rows[id].clock \in Clock /\ rows[id].clock[Cleaner] < MaxInt
              /\ sweep[w].now \in 0..MaxInt
          BY <3>1, NamesAssumption, BoundsAssumption, MaxIntAssumption
            DEF Row, RowOK, Roomy, Days
        <4> QED
          BY <4>1, NamesAssumption, BumpAdvances DEF BumpsForward
      <3>4. rows[id].purgeAfter <= sweep[w].now
        BY <2>1 DEF StillExpired
      <3>5. UNCHANGED nextId
        BY <1>2 DEF PurgeExpired
      <3> HIDE DEF new
      <3>6. Change(id, new(id))
        BY <2>1, <3>1, <3>2, <3>3, <3>4, <3>5 DEF Change, Moves
      <3> QED
        BY <3>2, <3>6 DEF TableStep
    <2>2. CASE NoCommit
      BY <1>2, <2>2 DEF NoCommit, TableStep, PurgeExpired
    <2> QED
      BY <1>2, <2>1, <2>2 DEF PurgeExpired
  <1>3. ASSUME ReclaimTombstones(w) PROVE TableStep
    <2> DEFINE gone == {id \in sweep[w].ids : rows[id].state = "purged"}
    <2>1. gone \in SUBSET Ids
      BY <1>0 DEF SweepState
    <2>2. Remove(gone)
      BY <1>3 DEF Remove, ReclaimTombstones
    <2> QED
      BY <2>1, <2>2 DEF TableStep
  <1> QED
    BY <1>1, <1>2, <1>3 DEF Sweep

LEMMA NextTable == RoomInv /\ [Next]_vars => TableStep
  <1> SUFFICES ASSUME RoomInv, [Next]_vars PROVE TableStep
    OBVIOUS
  <1>1. CASE UNCHANGED vars \/ Crash \/ Tick \/ \E d \in Devices : Acknowledge(d)
    BY <1>1 DEF vars, TableStep, Crash, Tick, Acknowledge, CheckAck, AcknowledgeDevice
  <1>2. ASSUME NEW id \in Ids, DeleteLegacy(id) PROVE TableStep
    <2>1. Remove({id})
      BY <1>2 DEF Remove, DeleteLegacy, RoomInv, InvOf, TypeOK
    <2> QED
      BY <2>1 DEF TableStep
  <1> QED
    BY <1>1, <1>2, RoomInvMeans, HandleTable, OperateTable, SweepTable DEF Next, TableStep
-----------------------------------------------------------------------------
(***************************************************************************)
(* One row per asset, and revisions that order the rows.                   *)
(***************************************************************************)
\* The row a commit writes.
Committed(r) == [r EXCEPT !.rev = seq + 1, !.updatedAt = today]

LEMMA CommitMeans ==
    ASSUME Inv, NEW id \in Ids, NEW r \in Row, Commit(id, r)
    PROVE  /\ rows' = [rows EXCEPT ![id] = Committed(r)] /\ seq' = seq + 1
           /\ Committed(r).asset = r.asset /\ Committed(r).state = r.state
           /\ Committed(r).clock = r.clock /\ Committed(r).rev = seq + 1
           /\ Committed(r).purgeAfter = r.purgeAfter /\ Committed(r).lastOp = r.lastOp
           /\ rows'[id] = Committed(r)
           /\ \A j \in Ids \ {id} : rows'[j] = rows[j]
           /\ seq \in Nat
  <1>1. /\ Committed(r).asset = r.asset /\ Committed(r).state = r.state
        /\ Committed(r).clock = r.clock /\ Committed(r).rev = seq + 1
        /\ Committed(r).purgeAfter = r.purgeAfter /\ Committed(r).lastOp = r.lastOp
    BY DEF Committed, Row
  <1>2. rows' = [rows EXCEPT ![id] = Committed(r)] /\ seq' = seq + 1
    BY DEF Commit, Committed
  <1> QED
    BY <1>1, <1>2 DEF Inv, InvOf, TypeOK

LEMMA OneRowStep ==
    ASSUME Inv, TableStep, OneRowPerAsset
    PROVE  OneRowPerAsset'
  <1>1. ASSUME NEW id \in Ids, NEW r \in Row, Commit(id, r),
               ~Taken(id, r.asset) \/ (Exists(id) /\ r.asset = rows[id].asset)
        PROVE  OneRowPerAsset'
    <2> SUFFICES ASSUME NEW a \in Assets, NEW i \in Ids, NEW j \in Ids,
                        Holds(i, a)', Holds(j, a)'
                 PROVE  i = j
      BY DEF OneRowPerAsset
    <2>1. /\ \A k \in Ids \ {id} : rows'[k] = rows[k]
          /\ rows'[id].asset = r.asset
      BY <1>1, CommitMeans
    <2>2. a # NoAsset
      BY NamesAssumption
    <2>3. \A k \in Ids \ {id} : Holds(k, a)' => Holds(k, a)
      BY <2>1 DEF Holds, Exists
    <2>4. ASSUME NEW k \in Ids \ {id}, Holds(k, a)', Holds(id, a)' PROVE FALSE
      <3>1. Holds(k, a) /\ r.asset = a
        BY <2>1, <2>3, <2>4 DEF Holds
      <3>2. Taken(id, a)
        BY <2>2, <3>1 DEF Taken
      <3> QED
        BY <1>1, <3>1, <3>2 DEF Holds, OneRowPerAsset
    <2> QED
      BY <2>3, <2>4 DEF OneRowPerAsset
  <1>2. ASSUME NEW r \in Row, Insert(r) PROVE OneRowPerAsset'
    BY <1>1, <1>2 DEF Insert
  <1>3. ASSUME NEW id \in Ids, NEW r \in Row, WriteBack(id, r) PROVE OneRowPerAsset'
    BY <1>1, <1>3 DEF WriteBack
  <1>4. ASSUME NEW id \in Ids, NEW r \in Row, Change(id, r) PROVE OneRowPerAsset'
    <2>1. Exists(id)
      BY <1>4 DEF Change, Moves, Exists
    <2> QED
      BY <1>1, <1>4, <2>1 DEF Change
  <1>5. ASSUME NEW gone \in SUBSET Ids, Remove(gone) PROVE OneRowPerAsset'
    BY <1>5 DEF Remove, OneRowPerAsset, Holds, Exists, NoRow
  <1>6. CASE UNCHANGED rows
    BY <1>6 DEF OneRowPerAsset, Holds, Exists
  <1> QED
    BY <1>2, <1>3, <1>4, <1>5, <1>6 DEF TableStep

LEMMA RevisionsStep ==
    ASSUME Inv, TableStep, RevisionsDistinct
    PROVE  RevisionsDistinct'
  <1>0. seq \in Nat
    BY DEF Inv, InvOf, TypeOK
  <1>1. ASSUME NEW id \in Ids, NEW r \in Row, Commit(id, r)
        PROVE  RevisionsDistinct'
    <2>1. /\ \A k \in Ids \ {id} : rows'[k] = rows[k]
          /\ rows'[id].rev = seq + 1 /\ seq' = seq + 1
      BY <1>1, CommitMeans
    <2>2. \A k \in Ids \ {id} : Exists(k)' => Exists(k) /\ rows[k].rev \in 1..seq
      BY <2>1 DEF RevisionsDistinct, Exists
    <2>3. \A k \in Ids \ {id} : Exists(k)' => rows'[k].rev \in 1..seq' /\ rows'[k].rev # seq + 1
      BY <1>0, <2>1, <2>2
    <2> QED
      BY <1>0, <2>1, <2>2, <2>3 DEF RevisionsDistinct
  <1>2. ASSUME NEW gone \in SUBSET Ids, Remove(gone) PROVE RevisionsDistinct'
    BY <1>2 DEF Remove, RevisionsDistinct, Exists, NoRow
  <1>3. CASE UNCHANGED <<rows, seq>>
    BY <1>3 DEF RevisionsDistinct, Exists
  <1> QED
    BY <1>1, <1>2, <1>3 DEF TableStep, Insert, WriteBack, Change

LEMMA InitUnique == Init => OneRowPerAsset /\ RevisionsDistinct
  <1> SUFFICES ASSUME Init PROVE OneRowPerAsset /\ RevisionsDistinct
    OBVIOUS
  <1>1. \A id \in Ids : /\ rows[id].asset = NoAsset
                        /\ Exists(id) => rows[id].rev = id /\ id <= LegacyCount
    BY DEF Init, LegacyRow, NoRow, Exists
  <1>2. OneRowPerAsset
    BY <1>1, NamesAssumption DEF OneRowPerAsset, Holds
  <1>3. RevisionsDistinct
    BY <1>1, BoundsAssumption DEF RevisionsDistinct, Init, Ids
  <1> QED
    BY <1>2, <1>3

\* Whichever handlers create and bind rows at the same time, and whatever rows
\* they read before, no asset ever has two rows.
THEOREM AssetsHaveOneRow == Spec => []OneRowPerAsset
  <1>1. RoomInv /\ OneRowPerAsset /\ [Next]_vars => OneRowPerAsset'
    BY NextTable, RoomInvMeans, OneRowStep
  <1> QED
    BY <1>1, InitUnique, Invariance, PTL DEF Spec

\* A pull that orders by server_revision sees every row at a place of its own,
\* at or below the newest revision.
THEOREM RevisionsOrderRows == Spec => []RevisionsDistinct
  <1>1. RoomInv /\ RevisionsDistinct /\ [Next]_vars => RevisionsDistinct'
    BY NextTable, RoomInvMeans, RevisionsStep
  <1> QED
    BY <1>1, InitUnique, Invariance, PTL DEF Spec
-----------------------------------------------------------------------------
(***************************************************************************)
(* Deadlines and watermarks.                                               *)
(***************************************************************************)
LEMMA DeadlineStep ==
    ASSUME Inv, TableStep, NEW id \in Ids,
           rows[id].state = "deleted", rows'[id].state = "deleted"
    PROVE  rows'[id].purgeAfter = rows[id].purgeAfter
  <1>1. ASSUME NEW k \in Ids, NEW r \in Row, Commit(k, r),
               k = id => r.state = "active" \/ r.purgeAfter = rows[id].purgeAfter
                      \/ r.state # "deleted"
        PROVE  rows'[id].purgeAfter = rows[id].purgeAfter
    BY <1>1, CommitMeans
  <1>2. ASSUME NEW r \in Row, Insert(r) PROVE rows'[id].purgeAfter = rows[id].purgeAfter
    BY <1>1, <1>2 DEF Insert
  <1>3. ASSUME NEW k \in Ids, NEW r \in Row, WriteBack(k, r) \/ Change(k, r)
        PROVE  rows'[id].purgeAfter = rows[id].purgeAfter
    BY <1>1, <1>3 DEF WriteBack, Change
  <1>4. ASSUME NEW gone \in SUBSET Ids, Remove(gone)
        PROVE  rows'[id].purgeAfter = rows[id].purgeAfter
    BY <1>4 DEF Remove, NoRow
  <1> QED
    BY <1>2, <1>3, <1>4 DEF TableStep

\* Deleting again never moves a deadline.
THEOREM DeadlinesKept == Spec => DeadlineKept
  <1>1. RoomInv /\ [Next]_vars => [\A id \in Ids :
             rows[id].state = "deleted" /\ rows'[id].state = "deleted"
                => rows'[id].purgeAfter = rows[id].purgeAfter]_vars
    BY NextTable, RoomInvMeans, DeadlineStep
  <1> QED
    BY <1>1, Invariance, PTL DEF Spec, DeadlineKept

\* No sweep's notion of "now" runs ahead of the clock.
SweepsInPast == \A w \in Workers : sweep[w].now <= today

LEMMA SweepsStep == Inv /\ SweepsInPast /\ [Next]_vars => SweepsInPast'
  <1> SUFFICES ASSUME Inv, SweepsInPast, [Next]_vars PROVE SweepsInPast'
    OBVIOUS
  <1>0. /\ sweep \in [Workers -> SweepState] /\ today \in Nat
        /\ Resting \in SweepState /\ Resting.now <= today
    BY BoundsAssumption DEF Inv, InvOf, TypeOK, SweepState, Resting, Days
  <1>1. CASE UNCHANGED <<sweep, today>>
    BY <1>1 DEF SweepsInPast
  <1>2. ASSUME NEW w \in Workers, NEW s, sweep' = [sweep EXCEPT ![w] = s],
               s.now <= today, UNCHANGED today
        PROVE  SweepsInPast'
    BY <1>0, <1>2 DEF SweepsInPast
  <1>3. ASSUME NEW w \in Workers, Sweep(w) PROVE SweepsInPast'
    <2>1. sweep[w].now <= today /\ sweep[w] \in SweepState
      BY <1>0 DEF SweepsInPast
    <2>2. UNCHANGED today
      BY <1>3 DEF Sweep, ListExpired, PurgeExpired, PurgeFails, ListCandidates,
                  JudgeCandidates, ReclaimTombstones
    <2>3. CASE ListExpired(w)
      <3>1. PICK listed : sweep' = [sweep EXCEPT ![w] =
                      [Resting EXCEPT !.at = "purge", !.now = today, !.todo = listed]]
        BY <2>3 DEF ListExpired
      <3>2. [Resting EXCEPT !.at = "purge", !.now = today, !.todo = listed].now <= today
        BY <1>0 DEF Resting
      <3> QED
        BY <1>0, <1>2, <2>2, <3>1, <3>2
    <2>4. ASSUME NEW a \in Assets, PurgeExpired(w, a) \/ PurgeFails(w, a) PROVE SweepsInPast'
      <3>1. sweep' = [sweep EXCEPT ![w] = [sweep[w] EXCEPT !.todo = @ \ {a}]]
        BY <1>0, <2>4 DEF PurgeExpired, PurgeFails
      <3>2. [sweep[w] EXCEPT !.todo = @ \ {a}].now = sweep[w].now
        BY <2>1 DEF SweepState
      <3> QED
        BY <1>2, <2>1, <2>2, <3>1, <3>2
    <2>5. ASSUME JudgeCandidates(w) \/ \E room \in 0..BatchLimit : ListCandidates(w, room)
          PROVE  SweepsInPast'
      <3>1. PICK step, kept : \/ sweep' = [sweep EXCEPT ![w] = Resting]
                             \/ sweep' = [sweep EXCEPT ![w] =
                                  [sweep[w] EXCEPT !.at = step, !.ids = kept]]
        BY <1>0, <2>5 DEF ListCandidates, JudgeCandidates
      <3>2. [sweep[w] EXCEPT !.at = step, !.ids = kept].now = sweep[w].now
        BY <2>1 DEF SweepState
      <3> QED
        BY <1>0, <1>2, <2>1, <2>2, <3>1, <3>2
    <2>6. CASE ReclaimTombstones(w)
      BY <1>0, <1>2, <2>2, <2>6 DEF ReclaimTombstones
    <2> QED
      BY <1>3, <2>3, <2>4, <2>5, <2>6 DEF Sweep
  <1>4. CASE Crash
    BY <1>0, <1>4 DEF Crash, SweepsInPast
  <1>5. CASE Tick
    <2> SUFFICES ASSUME NEW w \in Workers PROVE sweep[w].now <= today + 1
      BY <1>5 DEF Tick, SweepsInPast
    <2>1. sweep[w].now \in Int /\ sweep[w].now <= today
      BY <1>0, BoundsAssumption DEF SweepsInPast, SweepState, Days
    <2> QED
      BY <1>0, <2>1
  <1>6. ASSUME NEW h \in Handlers, Handle(h) PROVE UNCHANGED <<sweep, today>>
    BY <1>6 DEF Handle, FindUploadTarget, CreateUpload, FindWinner, CheckBinding,
                SaveLegacy, MutateUpload
  <1>7. ASSUME NEW id \in Ids, DeleteLegacy(id) PROVE UNCHANGED <<sweep, today>>
    BY <1>7 DEF DeleteLegacy
  <1>8. ASSUME NEW o \in Ops, Operate(o) PROVE UNCHANGED <<sweep, today>>
    BY <1>8 DEF Operate, DeleteAsset, RestoreAsset, PurgeAsset, Apply
  <1>9. ASSUME NEW d \in Devices, Acknowledge(d) PROVE UNCHANGED <<sweep, today>>
    BY <1>9 DEF Acknowledge, CheckAck, AcknowledgeDevice
  <1>10. CASE UNCHANGED vars
    BY <1>1, <1>10 DEF vars
  <1> QED
    BY <1>1, <1>3, <1>4, <1>5, <1>6, <1>7, <1>8, <1>9, <1>10 DEF Next

LEMMA EarlyPurgeStep ==
    ASSUME Inv, SweepsInPast, TableStep, NEW id \in Ids,
           rows[id].state = "deleted", rows'[id].state = "purged"
    PROVE  rows'[id].lastOp \in Ops \/ rows[id].purgeAfter <= today
  <1> DEFINE Goal == rows'[id].lastOp \in Ops \/ rows[id].purgeAfter <= today
  <1>1. ASSUME NEW k \in Ids, NEW r \in Row, Commit(k, r), r.state = "active"
        PROVE  FALSE
    BY <1>1, CommitMeans
  <1>2. ASSUME NEW k \in Ids, NEW r \in Row, Change(k, r) PROVE Goal
    <2>1. /\ k = id /\ r.state = "purged" /\ rows'[id].lastOp = r.lastOp
      BY <1>2, CommitMeans DEF Change
    <2>2. \A w \in Workers : rows[id].purgeAfter <= sweep[w].now => rows[id].purgeAfter <= today
      <3> SUFFICES ASSUME NEW w \in Workers, rows[id].purgeAfter <= sweep[w].now
                   PROVE  rows[id].purgeAfter <= today
        OBVIOUS
      <3>1. /\ rows[id].purgeAfter \in Int /\ sweep[w].now \in Int /\ today \in Int
            /\ sweep[w].now <= today
        BY BoundsAssumption DEF SweepsInPast, Inv, InvOf, TypeOK, SweepState, Days, Row
      <3> QED
        BY <3>1
    <2> QED
      BY <1>2, <2>1, <2>2 DEF Change
  <1>3. ASSUME NEW gone \in SUBSET Ids, Remove(gone) PROVE FALSE
    BY <1>3 DEF Remove, NoRow
  <1> QED
    BY <1>1, <1>2, <1>3 DEF TableStep, Insert, WriteBack

\* A sweep purges nothing before its deadline, whatever happened to the row
\* between the sweep's reading and its transaction.
THEOREM PurgesAreDue == Spec => NoEarlyPurge
  <1>1. Init => SweepsInPast
    BY DEF Init, SweepsInPast, Resting
  <1>2. RoomInv /\ SweepsInPast /\ [Next]_vars => [\A id \in Ids :
             rows[id].state = "deleted" /\ rows'[id].state = "purged"
                => rows'[id].lastOp \in Ops \/ rows[id].purgeAfter <= today]_vars
    BY NextTable, RoomInvMeans, EarlyPurgeStep
  <1> QED
    BY <1>1, <1>2, SweepsStep, Invariance, PTL DEF Spec, NoEarlyPurge

LEMMA AckStep ==
    ASSUME Inv, [Next]_vars
    PROVE  \A d \in Devices : ack'[d] >= ack[d]
  <1>0. /\ ack \in [Devices -> Nat \cup {Unseen}]
        /\ \A d \in Devices : ack[d] \in Int /\ acking[d] \in Int
    BY DEF Inv, InvOf, TypeOK, Unseen
  <1>1. CASE UNCHANGED ack
    BY <1>0, <1>1
  <1>2. ASSUME NEW d \in Devices, AcknowledgeDevice(d)
        PROVE  \A e \in Devices : ack'[e] >= ack[e]
    BY <1>0, <1>2 DEF AcknowledgeDevice, Watermark
  <1>3. UNCHANGED ack \/ \E d \in Devices : AcknowledgeDevice(d)
    <2>1. ASSUME NEW h \in Handlers, Handle(h) PROVE UNCHANGED ack
      BY <2>1 DEF Handle, FindUploadTarget, CreateUpload, FindWinner, CheckBinding,
                  SaveLegacy, MutateUpload
    <2>2. ASSUME NEW o \in Ops, Operate(o) PROVE UNCHANGED ack
      BY <2>2 DEF Operate, DeleteAsset, RestoreAsset, PurgeAsset, Apply
    <2>3. ASSUME NEW w \in Workers, Sweep(w) PROVE UNCHANGED ack
      BY <2>3 DEF Sweep, ListExpired, PurgeExpired, PurgeFails, ListCandidates,
                  JudgeCandidates, ReclaimTombstones
    <2>4. ASSUME NEW d \in Devices, Acknowledge(d)
          PROVE  UNCHANGED ack \/ AcknowledgeDevice(d)
      BY <2>4 DEF Acknowledge, CheckAck
    <2>5. CASE Crash \/ Tick \/ UNCHANGED vars \/ \E id \in Ids : DeleteLegacy(id)
      BY <2>5 DEF Crash, Tick, vars, DeleteLegacy
    <2> QED
      BY <2>1, <2>2, <2>3, <2>4, <2>5 DEF Next
  <1> QED
    BY <1>1, <1>2, <1>3

\* A watermark never falls, in whatever order acknowledgements are stored.
THEOREM WatermarksRise == Spec => AckMonotone
  <1>1. RoomInv /\ [Next]_vars => [\A d \in Devices : ack'[d] >= ack[d]]_vars
    BY AckStep, RoomInvMeans
  <1> QED
    BY <1>1, Invariance, PTL DEF Spec, AckMonotone
-----------------------------------------------------------------------------
(***************************************************************************)
(* The laws of the vector clocks, where they are used.                     *)
(***************************************************************************)
LEMMA ClocksMeet ==
    ASSUME TypeOK
    PROVE  StoredClocks \subseteq Clock /\ ArrivingClocks \subseteq Clock
  <1>1. StoredClocks \subseteq Clock
    BY DEF StoredClocks, TypeOK, Row
  <1>2. ArrivingClocks \subseteq Clock
    BY InputsAssumption DEF ArrivingClocks, Upload, Intent
  <1> QED
    BY <1>1, <1>2

\* Whatever is stored, an arriving clock is judged by the events each side has
\* seen, and by nothing else.
THEOREM ComparisonsAreInclusions == Spec => []ComparisonIsInclusion
  <1>1. TypeOK => ComparisonIsInclusion
    BY ClocksMeet, CompareDecides DEF ComparisonIsInclusion
  <1> QED
    BY <1>1, TypeCorrect, PTL

\* A Delete-Wins merge with a stored clock loses no event and invents none.
THEOREM MergesAreJoins == Spec => []MergeIsJoin
  <1>1. TypeOK => MergeIsJoin
    BY ClocksMeet, MergeJoins DEF MergeIsJoin
  <1> QED
    BY <1>1, TypeCorrect, PTL

\* The server's bump of a stored clock is newer than it.
THEOREM BumpsAreNewer == Spec => []BumpIsNewer
  <1>1. \A minimum \in Days \cup {MaxInt} : minimum \in 0..MaxInt
    BY BoundsAssumption, MaxIntAssumption DEF Days
  <1>2. TypeOK => BumpIsNewer
    BY <1>1, ClocksMeet, BumpAdvances, NamesAssumption DEF BumpIsNewer
  <1> QED
    BY <1>2, TypeCorrect, PTL
=============================================================================

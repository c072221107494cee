----------------------------- MODULE ConfigStore -----------------------------
(***************************************************************************)
(* The encrypted-configuration store: the server_configs rows of one user  *)
(* and every operation of the server that writes them - uploads, deletion, *)
(* restoration, purging, the legacy numeric-id deletion, the cleanup sweep *)
(* and the acknowledgements that allow a tombstone to be reclaimed.        *)
(*                                                                         *)
(* Each write runs in a transaction that first takes the user's row FOR    *)
(* UPDATE, so the transactions of a user are serial and each is one        *)
(* action.  What the services read OUTSIDE a transaction - the target of   *)
(* an upload, the list of expired rows, the candidates of the collector,   *)
(* the maximum revision - is an action of its own, and whatever they read  *)
(* may be stale when it is used.                                           *)
(*                                                                         *)
(* Clients are external: any request the constants allow may arrive at any *)
(* moment, and a lifecycle operation, once issued, may be delivered any    *)
(* number of times, at any later moment and in any order.                  *)
(***************************************************************************)
EXTENDS VectorClock, FiniteSets

CONSTANTS
    Assets,         \* client-generated asset identifiers
    Blobs,          \* ciphertexts
    Ops,            \* operation identifiers of lifecycle requests
    Devices,        \* device identifiers that acknowledge revisions
    Handlers,       \* goroutines that serve uploads
    Workers,        \* goroutines that sweep: the ticker's and an administrator's
    UploadInputs,   \* the uploads clients may send
    Intents,        \* the lifecycle operations clients may issue
    AckInputs,      \* the revisions devices may acknowledge
    LegacyCount,    \* rows that predate asset identifiers
    Retentions,     \* the values recent_deleted_retention_days takes
    TombstoneDays,  \* tombstone_retention_days, 0 for "keep for ever"
    BatchLimit,     \* cleanup_batch_limit
    Cleaner,        \* the actor "server-cleanup"
    MaxId,          \* bound on the rows ever inserted
    MaxRev,         \* bound on the revisions at which clients still send
    MaxDay          \* bound on the days that pass

NoAsset == ""       \* the column's default: a row not yet bound to an asset
NoOp    == ""
NoBlob  == "empty"  \* the zero-length blob a purge leaves
Nil     == 0        \* the SQL NULL of a day; day 1 is the first
Unseen  == -1       \* a device without a sync_device_states row

Ids  == 1..MaxId
Days == 0..MaxDay
SystemOp == "system"  \* the random operation id a sweep generates

Upload == [id: 0..MaxId, asset: Assets \cup {NoAsset}, blob: Blobs, clock: Clock]
Intent == [kind: {"delete", "restore", "purge"}, asset: Assets, clock: Clock]

ASSUME NamesAssumption ==
    /\ NoAsset \notin Assets /\ NoBlob \notin Blobs
    /\ {NoOp, SystemOp} \cap Ops = {}
    /\ Blobs # {} /\ Cleaner \in Actors
ASSUME BoundsAssumption ==
    /\ MaxId \in Nat /\ MaxRev \in Nat /\ MaxDay \in Nat \ {0} /\ MaxDay < MaxInt
    /\ LegacyCount \in 0..MaxId /\ TombstoneDays \in Nat /\ BatchLimit \in Nat \ {0}
    /\ Retentions \subseteq Nat
\* No client counts to the end of the 64-bit range.
ASSUME InputsAssumption ==
    /\ UploadInputs \subseteq Upload /\ Intents \subseteq Intent /\ AckInputs \subseteq Nat
    /\ \A u \in UploadInputs : \A k \in Actors : u.clock[k] < MaxInt
    /\ \A i \in Intents : \A k \in Actors : i.clock[k] < MaxInt

VARIABLES
    rows,     \* rows[id]: a row of server_configs; state "none" when there is none
    seq,      \* the last id of config_sync_changes: the newest server_revision
    nextId,   \* the next value of the server_configs id sequence
    today,    \* the wall clock, in days
    handler,  \* handler[h]: how far the upload that h serves has come
    sweep,    \* sweep[w]: how far the cleanup run of w has come
    ack,      \* ack[d]: last_ack_revision of device d
    acking,   \* acking[d]: a revision AcknowledgeSync has checked, not yet stored
    issued,   \* issued[o]: what a client asks for under operation id o
    effects   \* effects[o][id]: how often o changed row id (a history variable)

requestVars == <<handler, issued>>
ackVars     == <<ack, acking>>
vars == <<rows, seq, nextId, today, handler, sweep, ack, acking, issued, effects>>
-----------------------------------------------------------------------------
(***************************************************************************)
(* The row table.                                                          *)
(***************************************************************************)
Row == [state: {"none", "active", "deleted", "purged"},
        asset: Assets \cup {NoAsset},
        blob: Blobs \cup {NoBlob},
        clock: Clock,
        deletedAt: Nat,
        purgeAfter: Nat,
        lastOp: Ops \cup {NoOp, SystemOp},
        rev: Nat,
        updatedAt: Days]

NoRow == [state |-> "none", asset |-> NoAsset, blob |-> NoBlob, clock |-> EmptyClock,
          deletedAt |-> Nil, purgeAfter |-> Nil, lastOp |-> NoOp, rev |-> 0,
          updatedAt |-> 0]

Exists(id)    == rows[id].state # "none"
IsDeleted(r)  == r.state \in {"deleted", "purged"}
Holds(id, a)  == Exists(id) /\ rows[id].asset = a

\* Faulty: the partial unique index is missing.
Taken_NoIndex(id, a) == FALSE

\* uq_server_configs_user_asset_nonempty: another row already holds the asset.
Taken(id, a) == a # NoAsset /\ \E other \in Ids \ {id} : Holds(other, a)

\* tx.Save and appendConfigChange: the row, its revision and its updated_at.
Commit(id, r) ==
    /\ seq' = seq + 1
    /\ rows' = [rows EXCEPT ![id] = [r EXCEPT !.rev = seq + 1, !.updatedAt = today]]

NoCommit == UNCHANGED <<rows, seq>>

\* Bound: clients send nothing more once MaxRev revisions exist.
Quota == seq < MaxRev
-----------------------------------------------------------------------------
(***************************************************************************)
(* Upload.  A handler is "idle" or at the statement it executes next:      *)
(*   create  INSERT a new row           winner  re-read after a conflict   *)
(*   bind    look for a row that holds the asset                           *)
(*   mutate  MutateByAssetID            save    whole-row UPDATE           *)
(* A failed request is answered and forgotten.                             *)
(***************************************************************************)
HandlerState == [at: {"idle", "create", "winner", "bind", "mutate", "save"},
                 in: [id: 0..MaxId, asset: Assets \cup {NoAsset},
                      blob: Blobs \cup {NoBlob}, clock: Clock],
                 id: 0..MaxId,   \* the row a legacy update writes
                 row: Row]       \* that row as it was read, or as it will be saved

Idle == [at |-> "idle", id |-> 0, row |-> NoRow,
         in |-> [id |-> 0, asset |-> NoAsset, blob |-> NoBlob, clock |-> EmptyClock]]

At(step, in, id, row) == [at |-> step, in |-> in, id |-> id, row |-> row]

\* updateLegacyConfig up to its repository call, on the row that was read.
LegacyDecision(in, id, r) ==
    IF Newer(in.clock, r.clock)
    THEN At("save", in, id,
            [r EXCEPT !.asset = IF r.asset = NoAsset THEN in.asset ELSE r.asset,
                      !.blob = in.blob, !.clock = in.clock, !.state = "active"])
    ELSE Idle

\* updateExistingUpload up to its next database access.
Dispatch(in, id, r) ==
    CASE IsDeleted(r) -> Idle
      [] ~IsDeleted(r) /\ in.asset # NoAsset /\ r.asset \notin {NoAsset, in.asset} -> Idle
      [] ~IsDeleted(r) /\ in.asset # NoAsset /\ r.asset = NoAsset ->
            At("bind", in, id, r)
      [] ~IsDeleted(r) /\ r.asset # NoAsset /\ in.asset \in {NoAsset, r.asset} ->
            At("mutate", [in EXCEPT !.asset = r.asset], 0, NoRow)
      [] OTHER -> LegacyDecision(in, id, r)

\* Upload: the request is valid and its target is read, without a lock.
FindUploadTarget(h, in) ==
    /\ Quota /\ handler[h].at = "idle"
    /\ LET found == IF in.id # 0
                    THEN {id \in Ids : id = in.id /\ Exists(id)}
                    ELSE {id \in Ids : in.asset # NoAsset /\ Holds(id, in.asset)}
       IN  \/ /\ found = {} /\ in.id = 0
              /\ handler' = [handler EXCEPT ![h] = At("create", in, 0, NoRow)]
           \/ \E id \in found :
              handler' = [handler EXCEPT ![h] = Dispatch(in, id, rows[id])]
    /\ UNCHANGED <<rows, seq, nextId, today, sweep, ack, acking, issued, effects>>

\* createUpload: the INSERT commits, or it fails: the unique index refuses it,
\* or the database does.  The id it drew is spent either way.
CreateUpload(h) ==
    /\ handler[h].at = "create" /\ nextId \in Ids
    /\ nextId' = nextId + 1
    /\ LET in == handler[h].in
       IN  \/ /\ ~Taken(nextId, in.asset)
              /\ Commit(nextId, [NoRow EXCEPT !.state = "active", !.asset = in.asset,
                                              !.blob = in.blob, !.clock = in.clock])
              /\ handler' = [handler EXCEPT ![h] = Idle]
           \/ /\ NoCommit
              /\ handler' = [handler EXCEPT ![h] =
                                IF in.asset = NoAsset THEN Idle ELSE [@ EXCEPT !.at = "winner"]]
    /\ UNCHANGED <<today, sweep, ack, acking, issued, effects>>

\* createUpload after the conflict: the winner is read and treated as existing.
FindWinner(h) ==
    /\ handler[h].at = "winner"
    /\ LET in == handler[h].in
           found == {id \in Ids : Holds(id, in.asset)}
       IN  \/ found = {} /\ handler' = [handler EXCEPT ![h] = Idle]
           \/ \E id \in found :
              handler' = [handler EXCEPT ![h] = Dispatch(in, id, rows[id])]
    /\ UNCHANGED <<rows, seq, nextId, today, sweep, ack, acking, issued, effects>>

\* updateExistingUpload: no other row may hold the asset the legacy row gets.
CheckBinding(h) ==
    /\ handler[h].at = "bind"
    /\ LET at == handler[h]
       IN  handler' = [handler EXCEPT ![h] =
                         IF Taken(at.id, at.in.asset) THEN Idle
                         ELSE LegacyDecision(at.in, at.id, at.row)]
    /\ UNCHANGED <<rows, seq, nextId, today, sweep, ack, acking, issued, effects>>

\* Faulty: only the columns that the upload edited are written.
SaveLegacy_Columns(h) ==
    /\ handler[h].at = "save"
    /\ LET id == handler[h].id
           new == handler[h].row
       IN  IF Taken(id, new.asset)
           THEN NoCommit
           ELSE Commit(id, [rows[id] EXCEPT !.asset = new.asset, !.blob = new.blob,
                                            !.clock = new.clock, !.state = new.state])
    /\ handler' = [handler EXCEPT ![h] = Idle]
    /\ UNCHANGED <<nextId, today, sweep, ack, acking, issued, effects>>

\* serverConfigRepository.Update: Save writes every column of the row as it
\* was read and edited, and inserts it again when it is gone.
SaveLegacy(h) ==
    /\ handler[h].at = "save"
    /\ IF Taken(handler[h].id, handler[h].row.asset)
       THEN NoCommit
       ELSE Commit(handler[h].id, handler[h].row)
    /\ handler' = [handler EXCEPT ![h] = Idle]
    /\ UNCHANGED <<nextId, today, sweep, ack, acking, issued, effects>>

\* Faulty: a concurrent edit is accepted too.
AcceptsEdit_Concurrent(in, r) ==
    ~IsDeleted(r) /\ Compare(in.clock, r.clock) \in {"newer", "conflict"}

\* The callback of updateAssetBoundConfig, when it returns true.
AcceptsEdit(in, r) == ~IsDeleted(r) /\ Newer(in.clock, r.clock)

\* updateAssetBoundConfig: compared with the row as it is under the lock.
MutateUpload(h) ==
    /\ handler[h].at = "mutate"
    /\ LET in == handler[h].in
       IN  \/ \E id \in Ids :
              /\ Holds(id, in.asset) /\ AcceptsEdit(in, rows[id])
              /\ Commit(id, [rows[id] EXCEPT !.blob = in.blob, !.clock = in.clock])
           \/ /\ \A id \in Ids : Holds(id, in.asset) => ~AcceptsEdit(in, rows[id])
              /\ NoCommit
    /\ handler' = [handler EXCEPT ![h] = Idle]
    /\ UNCHANGED <<nextId, today, sweep, ack, acking, issued, effects>>

\* Delete: the numeric-id deletion of old clients.  No revision is assigned.
DeleteLegacy(id) ==
    /\ Quota /\ Exists(id) /\ rows[id].asset = NoAsset
    /\ rows' = [rows EXCEPT ![id] = NoRow]
    /\ UNCHANGED <<seq, nextId, today, sweep, ack, acking, effects>>
    /\ UNCHANGED requestVars
-----------------------------------------------------------------------------
(***************************************************************************)
(* The lifecycle operations: each is one MutateByAssetID transaction.      *)
(***************************************************************************)
\* Operation o, asked for with intent i, changes row id to r.  The first
\* delivery that does so ties the operation identifier to its intent.
Apply(o, i, id, r) ==
    /\ Commit(id, [r EXCEPT !.lastOp = o])
    /\ effects' = [effects EXCEPT ![o][id] = @ + 1]
    /\ issued' = [issued EXCEPT ![o] = {i}]
    /\ UNCHANGED <<nextId, today, handler, sweep, ack, acking>>

\* Faulty: a concurrent deletion leaves the row's clock as it is.
DeleteClock_NoMerge(incoming, current) ==
    IF Compare(incoming, current) = "conflict" THEN current ELSE incoming

\* The clock a deletion leaves: Delete-Wins merges a concurrent one.
DeleteClock(incoming, current) ==
    IF Compare(incoming, current) = "conflict" THEN Merge(incoming, current) ELSE incoming

\* Faulty: every deletion starts a new retention period.
Trashed_NewDeadline(r, clock, days) ==
    [r EXCEPT !.state = "deleted", !.clock = clock,
              !.deletedAt = today, !.purgeAfter = today + days]

\* What DeleteAsset makes of a row; policy and time are those of its request.
Trashed(r, clock, days) ==
    LET first == r.deletedAt = Nil
    IN  [r EXCEPT !.state = "deleted", !.clock = clock,
                  !.deletedAt = IF first THEN today ELSE @,
                  !.purgeAfter = IF first THEN today + days ELSE @]

DeleteAsset(o, i) ==
    /\ Quota /\ issued[o] \subseteq {i} /\ i.kind = "delete"
    /\ \E id \in Ids, days \in Retentions :
         LET r == rows[id]
         IN  /\ Holds(id, i.asset)
             /\ ~(r.lastOp = o /\ IsDeleted(r))
             /\ r.state # "purged"
             /\ Compare(i.clock, r.clock) \in {"newer", "conflict"}
             /\ Apply(o, i, id, Trashed(r, DeleteClock(i.clock, r.clock), days))

\* Faulty: a purged asset can be restored.
Restorable_AnyTombstone(r, clock) == IsDeleted(r) /\ Newer(clock, r.clock)

Restorable(r, clock) == r.state = "deleted" /\ Newer(clock, r.clock)

\* Faulty: the deadline survives the restoration.
Restored_KeepsDeadline(r, clock) ==
    [r EXCEPT !.state = "active", !.clock = clock, !.deletedAt = Nil]

Restored(r, clock) ==
    [r EXCEPT !.state = "active", !.clock = clock, !.deletedAt = Nil, !.purgeAfter = Nil]

RestoreAsset(o, i) ==
    /\ Quota /\ issued[o] \subseteq {i} /\ i.kind = "restore"
    /\ \E id \in Ids :
         /\ Holds(id, i.asset) /\ Restorable(rows[id], i.clock)
         /\ Apply(o, i, id, Restored(rows[id], i.clock))

PurgeAsset(o, i) ==
    /\ Quota /\ issued[o] \subseteq {i} /\ i.kind = "purge"
    /\ \E id \in Ids :
         LET r == rows[id]
         IN  /\ Holds(id, i.asset)
             /\ r.state = "deleted"
             /\ Newer(i.clock, r.clock)
             /\ Apply(o, i, id, [r EXCEPT !.state = "purged", !.clock = i.clock,
                                       !.blob = NoBlob, !.purgeAfter = Nil])
-----------------------------------------------------------------------------
(***************************************************************************)
(* Acknowledgements: the revision is checked, then stored, by two          *)
(* statements of their own.                                                *)
(***************************************************************************)
CheckAck(d, revision) ==
    /\ Quota /\ acking[d] = Unseen
    /\ revision = 0 \/ \E id \in Ids : rows[id].rev >= revision
    /\ acking' = [acking EXCEPT ![d] = revision]
    /\ UNCHANGED <<rows, seq, nextId, today, handler, sweep, ack, issued, effects>>

\* Faulty: the upsert overwrites the stored watermark.
Watermark_Overwritten(stored, revision) == revision

\* The upsert's GREATEST; a first acknowledgement registers the device.
Watermark(stored, revision) == IF revision > stored THEN revision ELSE stored

AcknowledgeDevice(d) ==
    /\ acking[d] # Unseen
    /\ ack' = [ack EXCEPT ![d] = Watermark(@, acking[d])]
    /\ acking' = [acking EXCEPT ![d] = Unseen]
    /\ UNCHANGED <<rows, seq, nextId, today, handler, sweep, issued, effects>>
-----------------------------------------------------------------------------
(***************************************************************************)
(* The cleanup sweep.  A run is "idle" or at its next statement:           *)
(*   purge   purge the listed assets one by one, or list the candidates    *)
(*   judge   keep the candidates every device has acknowledged             *)
(*   reclaim DELETE the rows that were kept                                *)
(***************************************************************************)
SweepState == [at: {"idle", "purge", "judge", "reclaim"},
               now: Days, todo: SUBSET Assets, ids: SUBSET Ids]

Resting == [at |-> "idle", now |-> 0, todo |-> {}, ids |-> {}]

\* ORDER BY key, id LIMIT n
First(n, S, key) ==
    {i \in S : Cardinality({j \in S : \/ key[j] < key[i]
                                      \/ key[j] = key[i] /\ j < i}) < n}

\* ListExpiredDeleted.  Other users' rows share the batch; they leave in the
\* sweep that lists them, so none of them holds a place for long.
ListExpired(w) ==
    /\ sweep[w].at = "idle"
    /\ LET due == [id \in Ids |-> rows[id].purgeAfter]
           expired == {id \in Ids : /\ rows[id].state = "deleted"
                                    /\ due[id] # Nil /\ due[id] <= today}
       IN  sweep' = [sweep EXCEPT ![w] =
                       [Resting EXCEPT !.at = "purge", !.now = today,
                          !.todo = {rows[id].asset : id \in First(BatchLimit, expired, due)}]]
    /\ UNCHANGED <<rows, seq, nextId, today, handler, ack, acking, issued, effects>>

\* Faulty: the sweep trusts the list it read.
StillExpired_Trusting(r, now) == r.state = "deleted"

\* Faulty: the boundary day is excluded.
StillExpired_Strict(r, now) ==
    /\ r.state = "deleted" /\ r.purgeAfter # Nil /\ r.purgeAfter < now

\* The row is judged again under the lock: it may have been restored meanwhile.
StillExpired(r, now) ==
    /\ r.state = "deleted" /\ r.purgeAfter # Nil /\ r.purgeAfter <= now

PurgeExpired(w, a) ==
    /\ sweep[w].at = "purge" /\ a \in sweep[w].todo
    /\ sweep' = [sweep EXCEPT ![w].todo = @ \ {a}]
    /\ \/ \E id \in Ids :
          /\ Holds(id, a) /\ StillExpired(rows[id], sweep[w].now)
          /\ Commit(id, [rows[id] EXCEPT !.state = "purged",
                           !.clock = Bump(rows[id].clock, Cleaner, sweep[w].now),
                           !.blob = NoBlob, !.purgeAfter = Nil, !.lastOp = SystemOp])
       \/ /\ \A id \in Ids : ~(Holds(id, a) /\ StillExpired(rows[id], sweep[w].now))
          /\ NoCommit
    /\ UNCHANGED <<nextId, today, handler, ack, acking, issued, effects>>

\* One asset's transaction fails: it is counted and the loop goes on.
PurgeFails(w, a) ==
    /\ sweep[w].at = "purge" /\ a \in sweep[w].todo
    /\ sweep' = [sweep EXCEPT ![w].todo = @ \ {a}]
    /\ UNCHANGED <<rows, seq, nextId, today, handler, ack, acking, issued, effects>>

\* DeleteAcknowledgedPurgedBefore: old tombstones, oldest first - updated_at
\* follows the revision, finer than the days here.  The LIMIT is taken over all
\* users and before anybody asks what is acknowledged, so the older tombstones
\* of others (external) leave this user any room in the batch, none included.
ListCandidates(w, room) ==
    /\ sweep[w].at = "purge" /\ sweep[w].todo = {}
    /\ LET written == [id \in Ids |-> rows[id].rev]
           old == {id \in Ids : /\ TombstoneDays > 0 /\ rows[id].state = "purged"
                                /\ rows[id].updatedAt <= sweep[w].now - TombstoneDays}
           batch == First(room, old, written)
       IN  sweep' = [sweep EXCEPT ![w] =
                       IF batch = {} THEN Resting
                       ELSE [@ EXCEPT !.at = "judge", !.ids = batch]]
    /\ UNCHANGED <<rows, seq, nextId, today, handler, ack, acking, issued, effects>>

Registered == {d \in Devices : ack[d] # Unseen}

\* Faulty: a user without registered devices counts as fully acknowledged.
Eligible_NoDevices(id) ==
    Exists(id) /\ \A d \in Registered : ack[d] >= rows[id].rev

\* Faulty: the watermark has to be past the tombstone.
Eligible_Strict(id) ==
    Exists(id) /\ Registered # {} /\ \A d \in Registered : ack[d] > rows[id].rev

Eligible(id) ==
    Exists(id) /\ Registered # {} /\ \A d \in Registered : ack[d] >= rows[id].rev

JudgeCandidates(w) ==
    /\ sweep[w].at = "judge"
    /\ LET eligible == {id \in sweep[w].ids : Eligible(id)}
       IN  sweep' = [sweep EXCEPT ![w] =
                       IF eligible = {} THEN Resting
                       ELSE [@ EXCEPT !.at = "reclaim", !.ids = eligible]]
    /\ UNCHANGED <<rows, seq, nextId, today, handler, ack, acking, issued, effects>>

ReclaimTombstones(w) ==
    /\ sweep[w].at = "reclaim"
    /\ rows' = [id \in Ids |-> IF id \in sweep[w].ids /\ rows[id].state = "purged"
                               THEN NoRow ELSE rows[id]]
    /\ sweep' = [sweep EXCEPT ![w] = Resting]
    /\ UNCHANGED <<seq, nextId, today, handler, ack, acking, issued, effects>>

\* The process dies: every request and sweep under way is lost, and
\* committed rows are all that is left.
Crash ==
    /\ handler' = [h \in Handlers |-> Idle]
    /\ sweep' = [w \in Workers |-> Resting]
    /\ acking' = [d \in Devices |-> Unseen]
    /\ UNCHANGED <<rows, seq, nextId, today, ack, issued, effects>>

Tick ==
    /\ today < MaxDay
    /\ today' = today + 1
    /\ UNCHANGED <<rows, seq, nextId, handler, sweep, ack, acking, issued, effects>>
-----------------------------------------------------------------------------
(***************************************************************************)
(* MigrateDatabase leaves the rows that predate asset identifiers active,  *)
(* unbound, and with a first revision each.                                *)
(***************************************************************************)
LegacyRow(id) == [NoRow EXCEPT !.state = "active", !.rev = id,
                               !.blob = CHOOSE b \in Blobs : TRUE]

Init ==
    /\ rows = [id \in Ids |-> IF id <= LegacyCount THEN LegacyRow(id) ELSE NoRow]
    /\ seq = LegacyCount
    /\ nextId = LegacyCount + 1
    /\ today = 1
    /\ handler = [h \in Handlers |-> Idle]
    /\ sweep = [w \in Workers |-> Resting]
    /\ ack = [d \in Devices |-> Unseen]
    /\ acking = [d \in Devices |-> Unseen]
    /\ issued = [o \in Ops |-> {}]
    /\ effects = [o \in Ops |-> [id \in Ids |-> 0]]

Handle(h) ==
    \/ \E in \in UploadInputs : FindUploadTarget(h, in)
    \/ CreateUpload(h) \/ FindWinner(h) \/ CheckBinding(h)
    \/ SaveLegacy(h) \/ MutateUpload(h)

Operate(o) ==
    \E i \in Intents : DeleteAsset(o, i) \/ RestoreAsset(o, i) \/ PurgeAsset(o, i)

Acknowledge(d) == (\E revision \in AckInputs : CheckAck(d, revision)) \/ AcknowledgeDevice(d)

Sweep(w) ==
    \/ ListExpired(w) \/ (\E a \in Assets : PurgeExpired(w, a) \/ PurgeFails(w, a))
    \/ (\E room \in 0..BatchLimit : ListCandidates(w, room))
    \/ JudgeCandidates(w) \/ ReclaimTombstones(w)

Next ==
    \/ \E h \in Handlers : Handle(h)
    \/ \E id \in Ids : DeleteLegacy(id)
    \/ \E o \in Ops : Operate(o)
    \/ \E d \in Devices : Acknowledge(d)
    \/ \E w \in Workers : Sweep(w)
    \/ Crash \/ Tick

Spec == Init /\ [][Next]_vars
-----------------------------------------------------------------------------
(***************************************************************************)
(* Fairness.  The ticker goroutine runs for as long as the process does    *)
(* and a restarted process starts it again, so a sweep that can go on goes *)
(* on.  A statement that is tried again in every sweep does not fail, or   *)
(* meet a crash, every time.                                               *)
(***************************************************************************)
Fairness ==
    /\ \A w \in Workers : WF_vars(Sweep(w))
    /\ \A w \in Workers : \A a \in Assets : SF_vars(PurgeExpired(w, a))
    /\ \A w \in Workers : SF_vars(JudgeCandidates(w)) /\ SF_vars(ReclaimTombstones(w))

FairSpec == Spec /\ Fairness
-----------------------------------------------------------------------------
(***************************************************************************)
(* Invariants.                                                             *)
(***************************************************************************)
TypeOK ==
    /\ rows \in [Ids -> Row]
    /\ seq \in Nat /\ nextId \in 1..(MaxId + 1) /\ today \in 1..MaxDay
    /\ handler \in [Handlers -> HandlerState]
    /\ sweep \in [Workers -> SweepState]
    /\ ack \in [Devices -> Nat \cup {Unseen}]
    /\ acking \in [Devices -> Nat \cup {Unseen}]
    /\ issued \in [Ops -> SUBSET Intents]
    /\ effects \in [Ops -> [Ids -> Nat]]

\* An asset has at most one row, whichever handlers create and bind rows at
\* the same time (the index of migrate.go, the re-read of createUpload).
OneRowPerAsset ==
    \A a \in Assets : \A i, j \in Ids : Holds(i, a) /\ Holds(j, a) => i = j

WellShaped(r) ==
    /\ (r.state = "deleted") <=> (r.purgeAfter # Nil)
    /\ IsDeleted(r) <=> (r.deletedAt # Nil)
    /\ IsDeleted(r) => r.asset # NoAsset
    /\ r.state # "none" => ((r.state = "purged") <=> (r.blob = NoBlob))

\* Exactly the deleted rows have a deadline, a tombstone always names its
\* asset, and its ciphertext is gone exactly when it is purged: a sweep that
\* lists by purge_after neither misses a deleted row nor meets another, and
\* can address what it lists by asset_id.
TombstoneShape == \A id \in Ids : WellShaped(rows[id])

\* No two rows carry the same server_revision and none is ahead of the change
\* log, so ORDER BY server_revision is a total order that a cursor can cut.
RevisionsDistinct ==
    \A i \in Ids : Exists(i) =>
      /\ rows[i].rev \in 1..seq
      /\ \A j \in Ids \ {i} : Exists(j) => rows[i].rev # rows[j].rev

\* However often and however late a lifecycle operation is delivered, it
\* changes a row at most once ("idempotent retry").
AtMostOnce == \A o \in Ops : \A id \in Ids : effects[o][id] <= 1
-----------------------------------------------------------------------------
(***************************************************************************)
(* The laws of VectorClock on the clocks that meet in the store, those     *)
(* that sweeps have bumped included.                                       *)
(***************************************************************************)
StoredClocks   == {rows[id].clock : id \in {i \in Ids : Exists(i)}}
ArrivingClocks == {in.clock : in \in UploadInputs} \cup {i.clock : i \in Intents}

\* Whatever was stored, compareVectorClock judges what arrives by the events
\* each side has seen.
ComparisonIsInclusion ==
    \A c \in StoredClocks, d \in ArrivingClocks : ComparesHistories(d, c)

\* A Delete-Wins merge has seen what either side saw and nothing else.
MergeIsJoin ==
    \A c \in StoredClocks, d \in ArrivingClocks : MergesHistories(d, c)

\* The server's own bump is newer than any stored clock, whatever minimum, as
\* long as the counter has not reached the end of its range.
BumpIsNewer ==
    \A c \in StoredClocks, minimum \in Days \cup {MaxInt} : BumpsForward(c, Cleaner, minimum)
-----------------------------------------------------------------------------
(***************************************************************************)
(* Action and temporal properties.                                         *)
(***************************************************************************)
\* A row's deadline is set once: deleting a deleted asset again, under any
\* operation id and any clock, does not move it.
DeadlineKept ==
    [][\A id \in Ids : rows[id].state = "deleted" /\ rows'[id].state = "deleted"
          => rows'[id].purgeAfter = rows[id].purgeAfter]_vars

\* A sweep purges nothing whose deadline lies ahead, even when the row it
\* listed was restored and deleted again before its transaction.
NoEarlyPurge ==
    [][\A id \in Ids : rows[id].state = "deleted" /\ rows'[id].state = "purged"
          => rows'[id].lastOp \in Ops \/ rows[id].purgeAfter <= today]_vars

\* A row disappears only as an unbound legacy row, or as an old tombstone
\* that at least one device has acknowledged.
ReclaimOnlySeen ==
    [][\A id \in Ids : Exists(id) /\ rows'[id].state = "none" =>
          \/ rows[id].asset = NoAsset
          \/ /\ rows[id].state = "purged"
             /\ rows[id].updatedAt + TombstoneDays <= today
             /\ \E d \in Devices : ack[d] >= rows[id].rev]_vars

\* While a row exists its clock only moves forward: nobody's write undoes what
\* another client was told is stored.
ClockForward ==
    [][\A id \in Ids : Exists(id) /\ rows'[id].state # "none" =>
          rows'[id].clock = rows[id].clock \/ Newer(rows'[id].clock, rows[id].clock)]_vars

\* Acknowledgements may arrive late and out of order; the watermark stays.
AckMonotone == [][\A d \in Devices : ack'[d] >= ack[d]]_vars

\* Conflict invariant 2 of ASSET_DELETION_SYNC.md: an update from an older
\* version never overwrites a newer tombstone.
TombstoneNotOverwritten ==
    [][\A id \in Ids : IsDeleted(rows[id]) /\ rows'[id].state = "active" =>
          Newer(rows'[id].clock, rows[id].clock)]_vars

\* The same document: a tombstone is reclaimed only when every registered
\* device has acknowledged its revision.
ReclaimOnlyAcknowledged ==
    [][\A id \in Ids : rows[id].state = "purged" /\ rows'[id].state = "none" =>
          \A d \in Registered : ack[d] >= rows[id].rev]_vars

\* The same document: an acknowledged watermark never exceeds the largest
\* revision that exists for the user.
AckWithinMax ==
    \A d \in Registered : ack[d] = 0 \/ \E id \in Ids : rows[id].rev >= ack[d]

\* An expired row does not stay recoverable: a sweep purges it, unless a
\* client restores or purges it first.
ExpiredLeaves ==
    \A id \in Ids : (rows[id].state = "deleted" /\ rows[id].purgeAfter <= today)
                        ~> rows[id].state # "deleted"

\* As long as the older tombstones of other users keep leaving room in the batch,
\* one that is old and stays acknowledged by every device is reclaimed, however
\* many compete for the room.  Without that room it may starve: tombstones that
\* no device acknowledges hold their places for ever.
Reclaimable(id) ==
    /\ rows[id].state = "purged" /\ TombstoneDays > 0
    /\ rows[id].updatedAt + TombstoneDays <= today
    /\ Registered # {} /\ \A d \in Registered : ack[d] >= rows[id].rev

RoomRecurs ==
    \A w \in Workers : SF_vars(\E room \in 1..BatchLimit : ListCandidates(w, room))

TombstonesLeave == RoomRecurs => \A id \in Ids : []<>~Reclaimable(id)
-----------------------------------------------------------------------------
(***************************************************************************)
(* Refinement: seen through its asset identifiers, the store implements    *)
(* AssetLifecycle once its clients all name assets (BoundClients).         *)
(***************************************************************************)
BoundClients == LegacyCount = 0 /\ \A u \in UploadInputs : u.asset # NoAsset

Held(a)  == \E id \in Ids : Holds(id, a)
RowOf(a) == rows[CHOOSE id \in Ids : Holds(id, a)]

AssetPhase   == [a \in Assets |-> IF Held(a) THEN RowOf(a).state ELSE "none"]
AssetVersion == [a \in Assets |-> IF Held(a) THEN RowOf(a).clock ELSE EmptyClock]

Lifecycle == INSTANCE AssetLifecycle WITH phase <- AssetPhase, version <- AssetVersion

\* Every write of every client, sweep and collector is a step of the life
\* cycle of some asset: clocks go forward, deleted assets come back only by a
\* restore, purged ones never.
ImplementsLifecycle == Lifecycle!LifecycleSpec
=============================================================================

------------------------------ MODULE SyncFeed ------------------------------
(***************************************************************************)
(* The sync feed of one user: the revisions that transactions draw from    *)
(* the change log, PullChanges, the cursors and acknowledgements of the    *)
(* user's devices, and the migration bundles that rewind all of it.        *)
(*                                                                         *)
(* ConfigStore decides which writes happen; here a write is only the       *)
(* revision it gives a row.  A revision is drawn when the change is        *)
(* inserted and seen when its transaction commits, so the order of the two *)
(* is what a cursor depends on.  Devices are external: they follow the     *)
(* order of work of docs/ASSET_DELETION_SYNC.md and may stop anywhere.     *)
(***************************************************************************)
EXTENDS Integers, FiniteSets

CONSTANTS
    Ids,           \* rows of the user
    Transactions,  \* goroutines that write them
    Devices,
    Exporters,     \* administrators' requests that export a bundle
    PageLimit,     \* the limit of a pull
    MaxRev,        \* bound on the revisions drawn
    MaxBundles,    \* bound on the bundles kept
    MaxRestores    \* bound on the restores of a bundle

ASSUME FeedAssumption ==
    /\ IsFiniteSet(Ids) /\ PageLimit \in Nat \ {0}
    /\ MaxRev \in Nat /\ MaxBundles \in Nat /\ MaxRestores \in Nat

VARIABLES
    row,     \* row[id]: the committed version of a row of server_configs
    seq,     \* the id sequence of config_sync_changes
    log,     \* the largest committed id of config_sync_changes
    tx,      \* tx[t]: the transaction of t and the revisions it has drawn
    dev,     \* dev[d]: device d
    ack,     \* last_ack_revision of d, 0 while it has not registered
    acking,  \* a revision AcknowledgeSync has checked, not yet stored; 0 for none
    export,  \* export[x]: how far the export of x has come, table by table
    bundles, \* the files of finished exports; each can be restored at any time
    epoch,   \* how many bundles were restored (a history variable)
    intact   \* history: no restore fell between the reads of the rows and of
             \* the change log that are now in force

bundleVars == <<export, bundles, epoch, intact>>
vars == <<row, seq, log, tx, dev, ack, acking, bundleVars>>
-----------------------------------------------------------------------------
\* A version of a row is known by its revision and by the epoch it was
\* written in: a restore makes revisions that were given away drawable again.
Version == [rev: Nat, epoch: Nat]
NoRow   == [rev |-> 0, epoch |-> 0]
Rows    == [Ids -> Version]
Exists(id) == row[id] # NoRow

Transaction == [open: BOOLEAN, drawn: [Ids -> Nat]]
NoTx == [open |-> FALSE, drawn |-> [id \in Ids |-> 0]]

\* A device is idle, or waits for one of the two reads of a pull, or has a
\* page (or the order to reset) in hand and is about to apply or persist it.
Device == [at: {"idle", "list", "apply", "persist", "reset"},
           cursor: Nat,   \* the persisted next_cursor
           page: Rows,    \* the items in hand
           next: Nat,     \* their next_cursor
           copy: Rows,    \* what the device has applied
           since: Nat]    \* the epoch in which it last pulled from 0 (history)

\* The tables of a bundle; it is whole when no restore replaced them between
\* the read of the rows and that of the change log.
Bundle == [rows: Rows, log: Nat, ack: [Devices -> Nat], whole: BOOLEAN]
Export == [step: {"none", "rows", "changes"}, rows: Rows, log: Nat, whole: BOOLEAN]
NoExport == [step |-> "none", rows |-> [id \in Ids |-> NoRow], log |-> 0, whole |-> FALSE]

Init ==
    /\ row = [id \in Ids |-> NoRow] /\ seq = 0 /\ log = 0
    /\ tx = [t \in Transactions |-> NoTx]
    /\ dev = [d \in Devices |->
                [at |-> "idle", cursor |-> 0, page |-> [id \in Ids |-> NoRow],
                 next |-> 0, copy |-> [id \in Ids |-> NoRow], since |-> 0]]
    /\ ack = [d \in Devices |-> 0] /\ acking = [d \in Devices |-> 0]
    /\ export = [x \in Exporters |-> NoExport] /\ bundles = {}
    /\ epoch = 0 /\ intact = TRUE
-----------------------------------------------------------------------------
(***************************************************************************)
(* Writes.  A transaction locks the user's row, appends one change for     *)
(* each row it writes, and commits them together.                          *)
(***************************************************************************)
\* Faulty: the user's row is not locked.
MayLock_Always == TRUE

\* lockConfigUser: the row is free.
MayLock == \A t \in Transactions : ~tx[t].open

Begin(t) ==
    /\ ~tx[t].open /\ MayLock /\ seq < MaxRev
    /\ tx' = [tx EXCEPT ![t].open = TRUE]
    /\ UNCHANGED <<row, seq, log, dev, ack, acking, bundleVars>>

\* appendConfigChange.
Draw(t, id) ==
    /\ tx[t].open /\ tx[t].drawn[id] = 0 /\ seq < MaxRev
    /\ seq' = seq + 1
    /\ tx' = [tx EXCEPT ![t].drawn[id] = seq + 1]
    /\ UNCHANGED <<row, log, dev, ack, acking, bundleVars>>

LargestOf(a, b) == IF a > b THEN a ELSE b

Commit(t) ==
    /\ tx[t].open
    /\ LET drawn == tx[t].drawn
       IN  /\ row' = [id \in Ids |-> IF drawn[id] = 0 THEN row[id]
                                     ELSE [rev |-> drawn[id], epoch |-> epoch]]
           /\ log' \in {log} \cup {drawn[id] : id \in Ids}
           /\ log' >= log /\ \A id \in Ids : log' >= drawn[id]
    /\ tx' = [tx EXCEPT ![t] = NoTx]
    /\ UNCHANGED <<seq, dev, ack, acking, bundleVars>>

\* The transaction fails; the sequence does not take back what it drew.
Abort(t) ==
    /\ tx[t].open
    /\ tx' = [tx EXCEPT ![t] = NoTx]
    /\ UNCHANGED <<row, seq, log, dev, ack, acking, bundleVars>>

\* Another user's change takes a number of the same sequence.
OtherUser ==
    /\ seq < MaxRev
    /\ seq' = seq + 1
    /\ log' \in {log, seq + 1}
    /\ UNCHANGED <<row, tx, dev, ack, acking, bundleVars>>

\* DeleteByIDAndUserID: the row goes, under the user's lock and unlogged.
DeleteLegacy(id) ==
    /\ Exists(id) /\ MayLock
    /\ row' = [row EXCEPT ![id] = NoRow]
    /\ UNCHANGED <<seq, log, tx, dev, ack, acking, bundleVars>>

\* The DELETE of the collector: it waits for whoever has written the row.
Reclaim(id) ==
    /\ Exists(id) /\ \A t \in Transactions : tx[t].drawn[id] = 0
    /\ row' = [row EXCEPT ![id] = NoRow]
    /\ UNCHANGED <<seq, log, tx, dev, ack, acking, bundleVars>>
-----------------------------------------------------------------------------
(***************************************************************************)
(* Pulls.                                                                  *)
(***************************************************************************)
\* afterRevision > MaxRevisionByUserID.
Ahead(revision) == revision > 0 /\ \A id \in Ids : row[id].rev < revision

\* Faulty: the query starts one revision too late.
Changed_OffByOne(cursor) == {id \in Ids : row[id].rev > cursor + 1}

\* ListChangedByUserID: the rows after the cursor, and the first of them.
Changed(cursor) == {id \in Ids : row[id].rev > cursor}

FirstPage(cursor) ==
    {id \in Changed(cursor) :
        Cardinality({i \in Changed(cursor) : row[i].rev < row[id].rev}) < PageLimit}

\* Faulty: the next cursor is the largest revision, not the page's last.
NextCursor_Max(cursor, items) ==
    {r \in {cursor} \cup {row[id].rev : id \in Ids} :
        r >= cursor /\ \A id \in Ids : row[id].rev <= r}

\* nextCursor: the revision of the last item, or the cursor of an empty page.
NextCursor(cursor, items) ==
    {r \in IF items = {} THEN {cursor} ELSE {row[id].rev : id \in items} :
        \A id \in items : row[id].rev <= r}

\* A device that is done with a pull keeps the cursor it has persisted.
Rest(state, cursor) ==
    [state EXCEPT !.at = "idle", !.cursor = cursor, !.page = [id \in Ids |-> NoRow],
                  !.next = 0]

\* PullChanges, first read.
PullMax(d) ==
    /\ dev[d].at = "idle"
    /\ dev' = [dev EXCEPT ![d].at = IF Ahead(dev[d].cursor) THEN "reset" ELSE "list"]
    /\ UNCHANGED <<row, seq, log, tx, ack, acking, bundleVars>>

\* PullChanges, second read.
PullPage(d) ==
    /\ dev[d].at = "list"
    /\ LET cursor == dev[d].cursor
           items  == FirstPage(cursor)
       IN  \E next \in NextCursor(cursor, items) :
           dev' = [dev EXCEPT ![d].at = "apply",
                              ![d].page = [id \in Ids |-> IF id \in items THEN row[id] ELSE NoRow],
                              ![d].next = next,
                              ![d].since = IF cursor = 0 THEN epoch ELSE @]
    /\ UNCHANGED <<row, seq, log, tx, ack, acking, bundleVars>>

ApplyPage(d) ==
    /\ dev[d].at = "apply"
    /\ dev' = [dev EXCEPT ![d].at = "persist",
                          ![d].copy = [id \in Ids |-> IF dev[d].page[id] = NoRow THEN @[id]
                                                      ELSE dev[d].page[id]]]
    /\ UNCHANGED <<row, seq, log, tx, ack, acking, bundleVars>>

PersistCursor(d) ==
    /\ dev[d].at = "persist"
    /\ dev' = [dev EXCEPT ![d] = Rest(@, @.next)]
    /\ UNCHANGED <<row, seq, log, tx, ack, acking, bundleVars>>

\* reset_required: the device starts over; what it holds stays until replaced.
ResetCursor(d) ==
    /\ dev[d].at = "reset"
    /\ dev' = [dev EXCEPT ![d] = Rest(@, 0)]
    /\ UNCHANGED <<row, seq, log, tx, ack, acking, bundleVars>>

\* The request fails, the answer is lost, or the device stops half-way.
Interrupt(d) ==
    /\ dev[d].at # "idle"
    /\ dev' = [dev EXCEPT ![d] = Rest(@, @.cursor)]
    /\ UNCHANGED <<row, seq, log, tx, ack, acking, bundleVars>>
-----------------------------------------------------------------------------
(***************************************************************************)
(* Acknowledgements: a device acknowledges the cursor it has persisted.    *)
(***************************************************************************)
\* AcknowledgeSync up to the upsert.
CheckAck(d) ==
    /\ dev[d].at = "idle" /\ dev[d].cursor > 0
    /\ acking[d] = 0 /\ ~Ahead(dev[d].cursor)
    /\ acking' = [acking EXCEPT ![d] = dev[d].cursor]
    /\ UNCHANGED <<row, seq, log, tx, dev, ack, bundleVars>>

\* AcknowledgeDevice, or the request fails before it.
StoreAck(d) ==
    /\ acking[d] # 0
    /\ ack' \in {ack, [ack EXCEPT ![d] = LargestOf(@, acking[d])]}
    /\ acking' = [acking EXCEPT ![d] = 0]
    /\ UNCHANGED <<row, seq, log, tx, dev, bundleVars>>
-----------------------------------------------------------------------------
(***************************************************************************)
(* Migration bundles.  An export reads table after table, without a        *)
(* transaction; a restore replaces all tables in one, which waits for the  *)
(* locks of the writers but not for another administrator's export.  A     *)
(* bundle is a file: it may be restored late, and more than once.          *)
(***************************************************************************)
ExportRows(x) ==
    /\ export[x].step = "none" /\ epoch < MaxRestores
    /\ export' = [export EXCEPT ![x].step = "rows", ![x].rows = row, ![x].whole = intact]
    /\ UNCHANGED <<row, seq, log, tx, dev, ack, acking, bundles, epoch, intact>>

ExportChanges(x) ==
    /\ export[x].step = "rows"
    /\ export' = [export EXCEPT ![x].step = "changes", ![x].log = log]
    /\ UNCHANGED <<row, seq, log, tx, dev, ack, acking, bundles, epoch, intact>>

\* The last table that matters here is read and the file is handed out.
Finish(x, tables) ==
    /\ export[x].step = "changes" /\ Cardinality(bundles) < MaxBundles
    /\ bundles' = bundles \cup {[rows |-> tables, log |-> export[x].log, ack |-> ack,
                                whole |-> export[x].whole]}
    /\ export' = [export EXCEPT ![x] = NoExport]
    /\ UNCHANGED <<row, seq, log, tx, dev, ack, acking, epoch, intact>>

\* Faulty: the rows are read after the change log.
ExportAcks_RowsLast(x) == Finish(x, row)

ExportAcks(x) == Finish(x, export[x].rows)

\* restoreData, setval on the largest restored id included.  An export that has
\* read the rows and not yet the change log will read the rewound one.
Replace(b, last) ==
    /\ MayLock /\ epoch < MaxRestores
    /\ row' = b.rows /\ log' = b.log /\ seq' = last /\ ack' = b.ack
    /\ epoch' = epoch + 1 /\ intact' = b.whole
    /\ export' = [x \in Exporters |->
         [export[x] EXCEPT !.whole = @ /\ export[x].step # "rows"]]
    /\ UNCHANGED <<tx, dev, acking, bundles>>

\* Faulty: the sequence is set one too low.
Restore_SequenceLow(b) == Replace(b, b.log - 1)

Restore(b) == Replace(b, b.log)
-----------------------------------------------------------------------------
Pull(d) ==
    \/ PullMax(d) \/ PullPage(d) \/ ApplyPage(d) \/ PersistCursor(d)
    \/ ResetCursor(d) \/ Interrupt(d)

Write(t) == Begin(t) \/ (\E id \in Ids : Draw(t, id)) \/ Commit(t) \/ Abort(t)

Next ==
    \/ \E t \in Transactions : Write(t)
    \/ OtherUser
    \/ \E id \in Ids : DeleteLegacy(id) \/ Reclaim(id)
    \/ \E d \in Devices : Pull(d) \/ CheckAck(d) \/ StoreAck(d)
    \/ \E x \in Exporters : ExportRows(x) \/ ExportChanges(x) \/ ExportAcks(x)
    \/ \E b \in bundles : Restore(b)

Spec == Init /\ [][Next]_vars

(***************************************************************************)
(* Fairness.  A transaction ends, a device keeps pulling, and what it may  *)
(* be interrupted in does not fail for ever.                               *)
(***************************************************************************)
Fairness ==
    /\ \A t \in Transactions : WF_vars(Commit(t) \/ Abort(t))
    /\ \A d \in Devices : /\ WF_vars(PullMax(d)) /\ SF_vars(PullPage(d))
                         /\ SF_vars(ApplyPage(d)) /\ SF_vars(PersistCursor(d))
                         /\ SF_vars(ResetCursor(d))

FairSpec == Spec /\ Fairness
-----------------------------------------------------------------------------
(***************************************************************************)
(* Properties.                                                             *)
(***************************************************************************)
TypeOK ==
    /\ row \in Rows /\ seq \in Nat /\ log \in Nat
    /\ tx \in [Transactions -> Transaction]
    /\ dev \in [Devices -> Device]
    /\ ack \in [Devices -> Nat] /\ acking \in [Devices -> Nat]
    /\ export \in [Exporters -> Export] /\ bundles \subseteq Bundle
    /\ epoch \in Nat /\ intact \in BOOLEAN

Covered ==
    \A i \in Ids : Exists(i) =>
        /\ row[i].rev \in 1..log
        /\ \A j \in Ids \ {i} : row[i].rev # row[j].rev

\* The sequence is never behind a row, a restored one included, so the next
\* revision is newer than all of them and no two rows share one: the export
\* reads the rows before the change log that restores the sequence.  That order
\* answers for the writers; a restore between the two reads undoes it, nothing
\* in the code prevents that, and of the tables of such a bundle nothing is
\* claimed.
SequenceCoversRows == intact => Covered

\* Whatever the cursor of a device has passed, the device holds in its present
\* version: no transaction commits a revision behind a cursor, and no page
\* skips a row.  Of a device that has not started over since the last restore
\* nothing is claimed, nor of the tables of a bundle whose export was crossed by
\* a restore.
NothingSkipped ==
    intact => \A d \in Devices : \A id \in Ids :
        (dev[d].since = epoch /\ Exists(id) /\ row[id].rev <= dev[d].cursor)
            => dev[d].copy[id] = row[id]

\* README.md and ASSET_DELETION_SYNC.md: a device whose cursor has passed a row
\* it does not hold, which only a restore brings about, is told to start over.
ResetWhereNeeded ==
    \A d \in Devices : \A id \in Ids :
        (Exists(id) /\ row[id].rev <= dev[d].cursor /\ dev[d].copy[id] # row[id])
            => Ahead(dev[d].cursor)

\* A row whose revision a device has acknowledged is the version the device
\* holds, however late acknowledgements arrive and whatever resets it went
\* through: so the collector takes no tombstone that the device has not seen.
AcknowledgedIsApplied ==
    epoch = 0 => \A d \in Devices : \A id \in Ids :
        (Exists(id) /\ row[id].rev <= ack[d]) => dev[d].copy[id] = row[id]

\* Once writes stop, a device that keeps pulling comes to hold every row.
Converged ==
    intact => \A d \in Devices : dev[d].since = epoch =>
        \A id \in Ids : Exists(id) => dev[d].copy[id] = row[id]
Converges == <>[]Converged
=============================================================================

----------------------------- MODULE FeedProofs ------------------------------
(***************************************************************************)
(* What a cursor has passed and what a device has acknowledged are the     *)
(* present versions of the rows, for any number of rows, transactions,     *)
(* devices, restores and any page limit.                                   *)
(*                                                                         *)
(* The argument: only one transaction of a user is open, and what it has   *)
(* drawn is larger than every revision that is committed.  Every cursor    *)
(* and acknowledgement is at most a committed revision ("settled"), so a   *)
(* commit never changes a row behind one.                                  *)
(*                                                                         *)
(* A bundle whose export another restore crossed breaks all of this, so    *)
(* the invariant tells the tables that are intact, and the exports and     *)
(* files that are whole, from the others.                                  *)
(***************************************************************************)
EXTENDS SyncFeed, FiniteSetTheorems, TLAPS

(***************************************************************************)
(* The inductive invariant.                                                *)
(***************************************************************************)
\* A table whose rows have revisions of their own, none above last.
Covers(table, last) ==
    \A i \in Ids : table[i] # NoRow =>
        /\ table[i].rev \in 1..last
        /\ \A j \in Ids \ {i} : table[i].rev # table[j].rev

LockInv ==
    \A t \in Transactions :
        /\ ~tx[t].open => \A id \in Ids : tx[t].drawn[id] = 0
        /\ tx[t].open => \A u \in Transactions : tx[u].open => u = t

DrawnInv ==
    /\ log <= seq
    /\ \A t \in Transactions : \A id \in Ids : tx[t].drawn[id] # 0 =>
        /\ tx[t].drawn[id] <= seq
        /\ \A j \in Ids : /\ row[j].rev < tx[t].drawn[id]
                          /\ j # id => tx[t].drawn[j] # tx[t].drawn[id]

\* What the exports and the finished files hold, the ones aside that a restore
\* crossed.
FilesInv ==
    /\ \A b \in bundles : b.whole => Covers(b.rows, b.log)
    /\ \A x \in Exporters : export[x].whole =>
          /\ export[x].step = "rows" => intact /\ Covers(export[x].rows, log)
          /\ export[x].step = "changes" => Covers(export[x].rows, export[x].log)

\* The server while its tables are intact.
ServerInv == TypeOK /\ LockInv /\ DrawnInv /\ Covered

\* No row can still be committed at or below the revision.
Settled(revision) ==
    /\ revision <= seq
    /\ \A t \in Transactions : \A id \in Ids :
          tx[t].drawn[id] # 0 => revision < tx[t].drawn[id]

\* What a device that has started over since the last restore relies on.
PullInv(d) ==
    dev[d].since = epoch =>
        /\ Settled(dev[d].cursor)
        /\ \A id \in Ids : Exists(id) /\ row[id].rev <= dev[d].cursor
              => dev[d].copy[id] = row[id]
        /\ dev[d].at \in {"apply", "persist"} =>
              Settled(dev[d].next) /\ dev[d].cursor <= dev[d].next
        /\ dev[d].at = "apply" => \A id \in Ids : Exists(id) /\ row[id].rev <= dev[d].next
              => dev[d].page[id] = IF row[id].rev > dev[d].cursor THEN row[id] ELSE NoRow
        /\ dev[d].at = "persist" => \A id \in Ids : Exists(id) /\ row[id].rev <= dev[d].next
              => dev[d].copy[id] = row[id]

AckInv(d) ==
    epoch = 0 =>
        /\ Settled(ack[d]) /\ Settled(acking[d])
        /\ \A id \in Ids : Exists(id) /\ (row[id].rev <= ack[d] \/ row[id].rev <= acking[d])
              => dev[d].copy[id] = row[id]
        /\ dev[d].at = "apply" => \A id \in Ids : Exists(id) /\ dev[d].page[id] # NoRow
              => \/ dev[d].page[id] = row[id]
                 \/ row[id].rev > ack[d] /\ row[id].rev > acking[d]

\* The tables are intact until the first restore, and no device is ahead of
\* the restores.
EpochInv ==
    /\ epoch = 0 => intact
    /\ \A d \in Devices : dev[d].since <= epoch

IntactInv == DrawnInv /\ Covered /\ \A d \in Devices : PullInv(d) /\ AckInv(d)

Inv == TypeOK /\ LockInv /\ FilesInv /\ EpochInv /\ (intact => IntactInv)
-----------------------------------------------------------------------------
(***************************************************************************)
(* Types.                                                                  *)
(***************************************************************************)
LEMMA NoRowIsVersion == NoRow \in Version /\ NoRow.rev = 0
  BY DEF NoRow, Version

\* A page, as PullPage stores it, and what a device holds after it, are tables.
LEMMA PageIsTable ==
  ASSUME NEW a \in Rows, NEW S
  PROVE  [id \in Ids |-> IF id \in S THEN a[id] ELSE NoRow] \in Rows
  BY NoRowIsVersion DEF Rows

LEMMA CopyIsTable ==
  ASSUME NEW a \in Rows, NEW b \in Rows
  PROVE  [id \in Ids |-> IF a[id] = NoRow THEN b[id] ELSE a[id]] \in Rows
  BY NoRowIsVersion DEF Rows

LEMMA RestType ==
  ASSUME NEW state \in Device, NEW cursor \in Nat
  PROVE  Rest(state, cursor) \in Device
<1>1. [id \in Ids |-> NoRow] \in Rows
  BY NoRowIsVersion DEF Rows
<1> QED
  BY <1>1 DEF Rest, Device

\* The next cursor of a page is a number.
LEMMA NextIsNat ==
  ASSUME TypeOK, NEW cursor \in Nat, NEW next \in NextCursor(cursor, FirstPage(cursor))
  PROVE  next \in Nat
  BY DEF TypeOK, Rows, Version, NextCursor, FirstPage, Changed

LEMMA InitType == Init => TypeOK
<1> SUFFICES ASSUME Init PROVE TypeOK
  OBVIOUS
<1>1. [id \in Ids |-> NoRow] \in Rows
  BY NoRowIsVersion DEF Rows
<1>2. row \in Rows /\ seq \in Nat /\ log \in Nat /\ epoch \in Nat
  BY <1>1 DEF Init
<1>3. tx \in [Transactions -> Transaction]
  BY DEF Init, NoTx, Transaction
<1>4. dev \in [Devices -> Device]
  BY <1>1 DEF Init, Device
<1>5. ack \in [Devices -> Nat] /\ acking \in [Devices -> Nat]
  BY DEF Init
<1>6. export \in [Exporters -> Export] /\ bundles \subseteq Bundle /\ intact \in BOOLEAN
  BY <1>1 DEF Init, NoExport, Export
<1> QED
  BY <1>2, <1>3, <1>4, <1>5, <1>6 DEF TypeOK

LEMMA WriteType ==
  ASSUME TypeOK, NEW t \in Transactions, Write(t)
  PROVE  TypeOK'
<1>1. CASE Begin(t)
  BY <1>1 DEF TypeOK, Begin, Transaction, bundleVars
<1>2. ASSUME NEW id \in Ids, Draw(t, id) PROVE TypeOK'
  <2>1. seq' \in Nat
    BY <1>2 DEF TypeOK, Draw
  <2>2. tx' \in [Transactions -> Transaction]
    <3>1. [tx[t].drawn EXCEPT ![id] = seq + 1] \in [Ids -> Nat]
      BY DEF TypeOK, Transaction
    <3>2. tx' = [tx EXCEPT ![t] = [tx[t] EXCEPT !.drawn = [tx[t].drawn EXCEPT ![id] = seq + 1]]]
      BY <1>2 DEF TypeOK, Transaction, Draw
    <3> QED
      BY <3>1, <3>2 DEF TypeOK, Transaction
  <2> QED
    BY <1>2, <2>1, <2>2 DEF TypeOK, Draw, bundleVars
<1>3. CASE Commit(t)
  <2>1. tx[t].drawn \in [Ids -> Nat] /\ epoch \in Nat
    BY DEF TypeOK, Transaction
  <2>2. row' \in Rows
    BY <1>3, <2>1 DEF TypeOK, Commit, Rows, Version
  <2>3. log' \in Nat
    BY <1>3, <2>1 DEF TypeOK, Commit
  <2>4. tx' \in [Transactions -> Transaction]
    BY <1>3 DEF TypeOK, Commit, NoTx, Transaction
  <2> QED
    BY <1>3, <2>2, <2>3, <2>4 DEF TypeOK, Commit, bundleVars
<1>4. CASE Abort(t)
  BY <1>4 DEF TypeOK, Abort, NoTx, Transaction, bundleVars
<1> QED
  BY <1>1, <1>2, <1>3, <1>4 DEF Write

LEMMA PullType ==
  ASSUME TypeOK, NEW d \in Devices, Pull(d)
  PROVE  TypeOK'
<1>0. dev[d] \in Device
  BY DEF TypeOK
<1> SUFFICES \E new \in Device : dev' = [dev EXCEPT ![d] = new]
  <2>1. UNCHANGED <<row, seq, log, tx, ack, acking, bundleVars>>
    BY DEF Pull, PullMax, PullPage, ApplyPage, PersistCursor, ResetCursor, Interrupt
  <2> QED
    BY <2>1 DEF TypeOK, bundleVars
<1>1. CASE PullMax(d)
  BY <1>0, <1>1 DEF TypeOK, PullMax, Device
<1>2. CASE PullPage(d)
  <2>1. PICK next \in NextCursor(dev[d].cursor, FirstPage(dev[d].cursor)) :
          dev' = [dev EXCEPT ![d].at = "apply",
                    ![d].page = [id \in Ids |-> IF id \in FirstPage(dev[d].cursor)
                                                THEN row[id] ELSE NoRow],
                    ![d].next = next,
                    ![d].since = IF dev[d].cursor = 0 THEN epoch ELSE @]
    BY <1>2 DEF PullPage
  <2>2. next \in Nat
    BY <1>0, <2>1, NextIsNat DEF Device
  <2>3. [id \in Ids |-> IF id \in FirstPage(dev[d].cursor) THEN row[id] ELSE NoRow] \in Rows
    <3>1. PICK items : items = FirstPage(dev[d].cursor)
      OBVIOUS
    <3>2. row \in Rows
      BY DEF TypeOK
    <3> QED
      BY <3>1, <3>2, PageIsTable
  <2> QED
    BY <1>0, <2>1, <2>2, <2>3 DEF TypeOK, Device
<1>3. CASE ApplyPage(d)
  <2>1. [id \in Ids |-> IF dev[d].page[id] = NoRow THEN dev[d].copy[id]
                        ELSE dev[d].page[id]] \in Rows
    BY <1>0, CopyIsTable DEF Device
  <2> QED
    BY <1>0, <1>3, <2>1 DEF TypeOK, ApplyPage, Device
<1>4. CASE PersistCursor(d)
  <2>1. dev' = [dev EXCEPT ![d] = Rest(dev[d], dev[d].next)] /\ dev[d].next \in Nat
    BY <1>0, <1>4 DEF PersistCursor, Device, TypeOK
  <2> QED
    BY <1>0, <2>1, RestType
<1>5. CASE ResetCursor(d)
  <2>1. dev' = [dev EXCEPT ![d] = Rest(dev[d], 0)]
    BY <1>5 DEF ResetCursor, TypeOK
  <2> QED
    BY <1>0, <2>1, RestType
<1>6. CASE Interrupt(d)
  <2>1. dev' = [dev EXCEPT ![d] = Rest(dev[d], dev[d].cursor)] /\ dev[d].cursor \in Nat
    BY <1>0, <1>6 DEF Interrupt, Device, TypeOK
  <2> QED
    BY <1>0, <2>1, RestType
<1> QED
  BY <1>1, <1>2, <1>3, <1>4, <1>5, <1>6 DEF Pull

LEMMA ExportType ==
  ASSUME TypeOK, NEW x \in Exporters, ExportRows(x) \/ ExportChanges(x) \/ ExportAcks(x)
  PROVE  TypeOK'
<1>0. /\ export[x] \in Export /\ row \in Rows /\ log \in Nat /\ intact \in BOOLEAN
      /\ ack \in [Devices -> Nat]
  BY DEF TypeOK
<1>1. CASE ExportRows(x)
  BY <1>0, <1>1 DEF TypeOK, ExportRows, Export
<1>2. CASE ExportChanges(x)
  BY <1>0, <1>2 DEF TypeOK, ExportChanges, Export
<1>3. CASE ExportAcks(x)
  <2>1. NoExport \in Export
    BY NoRowIsVersion DEF NoExport, Export, Rows
  <2>2. [rows |-> export[x].rows, log |-> export[x].log, ack |-> ack,
         whole |-> export[x].whole] \in Bundle
    BY <1>0 DEF Export, Bundle
  <2> QED
    BY <1>3, <2>1, <2>2 DEF TypeOK, ExportAcks, Finish
<1> QED
  BY <1>1, <1>2, <1>3

LEMMA RestoreType ==
  ASSUME TypeOK, NEW b \in bundles, Restore(b)
  PROVE  TypeOK'
<1>1. b \in Bundle
  BY DEF TypeOK
<1>2. row' \in Rows /\ log' \in Nat /\ seq' \in Nat /\ ack' \in [Devices -> Nat]
      /\ intact' \in BOOLEAN /\ epoch' \in Nat
  BY <1>1 DEF Restore, Replace, Bundle, TypeOK
<1>3. export' \in [Exporters -> Export]
  BY DEF Restore, Replace, TypeOK, Export
<1> QED
  BY <1>2, <1>3 DEF Restore, Replace, TypeOK

LEMMA NextType == TypeOK /\ [Next]_vars => TypeOK'
<1> SUFFICES ASSUME TypeOK, [Next]_vars PROVE TypeOK'
  OBVIOUS
<1>1. ASSUME NEW t \in Transactions, Write(t) PROVE TypeOK'
  BY <1>1, WriteType
<1>2. CASE OtherUser
  BY <1>2 DEF TypeOK, OtherUser, bundleVars
<1>3. ASSUME NEW id \in Ids, DeleteLegacy(id) \/ Reclaim(id) PROVE TypeOK'
  <2>1. row' \in Rows
    BY <1>3, NoRowIsVersion DEF TypeOK, DeleteLegacy, Reclaim, Rows
  <2> QED
    BY <1>3, <2>1 DEF TypeOK, DeleteLegacy, Reclaim, bundleVars
<1>4. ASSUME NEW d \in Devices, Pull(d) PROVE TypeOK'
  BY <1>4, PullType
<1>5. ASSUME NEW d \in Devices, CheckAck(d) \/ StoreAck(d) PROVE TypeOK'
  <2>1. dev[d].cursor \in Nat /\ LargestOf(ack[d], acking[d]) \in Nat
    BY DEF TypeOK, Device, LargestOf
  <2>2. ack' \in [Devices -> Nat] /\ acking' \in [Devices -> Nat]
    BY <1>5, <2>1 DEF TypeOK, CheckAck, StoreAck
  <2> QED
    BY <1>5, <2>2 DEF TypeOK, CheckAck, StoreAck, bundleVars
<1>6. ASSUME NEW x \in Exporters, ExportRows(x) \/ ExportChanges(x) \/ ExportAcks(x)
      PROVE  TypeOK'
  BY <1>6, ExportType
<1>7. ASSUME NEW b \in bundles, Restore(b) PROVE TypeOK'
  BY <1>7, RestoreType
<1>8. CASE UNCHANGED vars
  BY <1>8 DEF TypeOK, vars, bundleVars
<1> QED
  BY <1>1, <1>2, <1>3, <1>4, <1>5, <1>6, <1>7, <1>8 DEF Next
-----------------------------------------------------------------------------
(***************************************************************************)
(* The server: locks, revisions and bundles.                               *)
(***************************************************************************)
LEMMA InitServer == Init => LockInv /\ FilesInv /\ DrawnInv /\ Covered
  BY DEF Init, LockInv, FilesInv, DrawnInv, Covered, NoTx, NoExport, NoRow, Exists

LEMMA CoversRows == Covered <=> Covers(row, log)
  BY DEF Covered, Covers, Exists

LEMMA CoversMore ==
  ASSUME NEW table, NEW a \in Nat, NEW b \in Nat, a <= b, Covers(table, a)
  PROVE  Covers(table, b)
  BY DEF Covers

LEMMA CoversLess ==
  ASSUME NEW table \in Rows, NEW a \in Nat, NEW id \in Ids, Covers(table, a)
  PROVE  Covers([table EXCEPT ![id] = NoRow], a)
  BY NoRowIsVersion DEF Covers, Rows, Version

\* What the step of a device leaves alone.
LEMMA PullKeepsServer ==
  ASSUME NEW d \in Devices, Pull(d) \/ CheckAck(d) \/ StoreAck(d)
  PROVE  UNCHANGED <<row, seq, log, tx, bundleVars>>
  BY DEF Pull, PullMax, PullPage, ApplyPage, PersistCursor, ResetCursor, Interrupt,
         CheckAck, StoreAck

LEMMA BeginServer ==
  ASSUME ServerInv, NEW t \in Transactions, Begin(t)
  PROVE  LockInv' /\ DrawnInv' /\ Covered'
<1>0. tx \in [Transactions -> Transaction]
  BY DEF ServerInv, TypeOK
<1>1. /\ \A u \in Transactions : ~tx[u].open /\ tx'[u].drawn = tx[u].drawn
      /\ \A u \in Transactions : tx'[u].open => u = t
      /\ UNCHANGED <<row, seq, log>>
  BY <1>0 DEF Begin, MayLock, Transaction
<1>2. LockInv'
  BY <1>1 DEF ServerInv, LockInv
<1>3. DrawnInv'
  BY <1>1 DEF ServerInv, DrawnInv
<1>4. Covered'
  BY DEF Begin, ServerInv, Covered, Exists
<1> QED
  BY <1>2, <1>3, <1>4

LEMMA DrawServer ==
  ASSUME ServerInv, NEW t \in Transactions, NEW id \in Ids, Draw(t, id)
  PROVE  LockInv' /\ DrawnInv' /\ Covered'
<1>0. /\ tx \in [Transactions -> Transaction] /\ row \in Rows
      /\ seq \in Nat /\ log \in Nat
  BY DEF ServerInv, TypeOK
<1>1. /\ tx'[t].open = tx[t].open
      /\ tx'[t].drawn = [tx[t].drawn EXCEPT ![id] = seq + 1]
      /\ \A u \in Transactions \ {t} : tx'[u] = tx[u]
      /\ tx[t].open /\ seq' = seq + 1 /\ log' = log /\ row' = row
  BY <1>0 DEF Draw, Transaction
<1>2. tx[t].drawn \in [Ids -> Nat]
  BY <1>0 DEF Transaction
<1>3. LockInv'
  <2>1. \A u \in Transactions : tx'[u].open = tx[u].open
    BY <1>1
  <2>2. \A u \in Transactions : ~tx[u].open => u # t
    BY <1>1
  <2> QED
    BY <1>1, <2>1, <2>2 DEF ServerInv, LockInv
<1>4. \A j \in Ids : row[j].rev \in Nat /\ row[j].rev <= seq
  <2>1. \A j \in Ids : row[j] \in Version
    BY <1>0 DEF Rows
  <2>2. \A j \in Ids : row[j] # NoRow => row[j].rev <= log
    BY <1>0 DEF ServerInv, Covered, Exists
  <2> QED
    BY <1>0, <2>1, <2>2, NoRowIsVersion DEF Version, ServerInv, DrawnInv
<1>5. DrawnInv'
  <2>1. log' <= seq'
    BY <1>0, <1>1 DEF ServerInv, DrawnInv
  <2>2. ASSUME NEW u \in Transactions, NEW i \in Ids, tx'[u].drawn[i] # 0
        PROVE  /\ tx'[u].drawn[i] <= seq'
               /\ \A j \in Ids : /\ row'[j].rev < tx'[u].drawn[i]
                                 /\ j # i => tx'[u].drawn[j] # tx'[u].drawn[i]
    <3>1. CASE u = t
      <4>1. \A j \in Ids : tx[t].drawn[j] # 0 => tx[t].drawn[j] <= seq
        BY DEF ServerInv, DrawnInv
      <4>2. CASE i = id
        BY <1>0, <1>1, <1>2, <1>4, <3>1, <4>1, <4>2
      <4>3. CASE i # id
        <5>1. tx'[u].drawn[i] = tx[t].drawn[i] /\ tx[t].drawn[i] # 0
          BY <1>1, <1>2, <2>2, <3>1, <4>3
        <5>2. /\ tx[t].drawn[i] <= seq
              /\ \A j \in Ids : /\ row[j].rev < tx[t].drawn[i]
                                /\ j # i => tx[t].drawn[j] # tx[t].drawn[i]
          BY <5>1 DEF ServerInv, DrawnInv
        <5> QED
          BY <1>0, <1>1, <1>2, <3>1, <4>3, <5>1, <5>2
      <4> QED
        BY <4>2, <4>3
    <3>2. CASE u # t
      <4>1. tx'[u] = tx[u]
        BY <1>1, <3>2
      <4>2. tx[u].drawn[i] \in Nat /\ tx[u].drawn[i] <= seq
        BY <1>0, <2>2, <4>1 DEF ServerInv, DrawnInv, Transaction
      <4> QED
        BY <1>0, <1>1, <2>2, <4>1, <4>2 DEF ServerInv, DrawnInv
    <3> QED
      BY <3>1, <3>2
  <2> QED
    BY <2>1, <2>2 DEF DrawnInv
<1>6. Covered'
  BY DEF Draw, ServerInv, Covered, Exists
<1> QED
  BY <1>3, <1>5, <1>6

LEMMA CommitServer ==
  ASSUME ServerInv, NEW t \in Transactions, Commit(t)
  PROVE  LockInv' /\ DrawnInv' /\ Covered'
<1>0. /\ tx \in [Transactions -> Transaction] /\ row \in Rows
      /\ seq \in Nat /\ log \in Nat
  BY DEF ServerInv, TypeOK
<1>1. tx[t].drawn \in [Ids -> Nat] /\ tx[t].open
  BY <1>0 DEF Transaction, Commit
<1>2. /\ \A i \in Ids : row'[i] = IF tx[t].drawn[i] = 0 THEN row[i]
                                  ELSE [rev |-> tx[t].drawn[i], epoch |-> epoch]
      /\ log' \in Nat /\ log' >= log /\ \A i \in Ids : log' >= tx[t].drawn[i]
      /\ log' = log \/ \E i \in Ids : log' = tx[t].drawn[i]
  BY <1>0, <1>1 DEF Commit
<1>3. /\ tx' = [tx EXCEPT ![t] = [open |-> FALSE, drawn |-> [id \in Ids |-> 0]]]
      /\ seq' = seq
  BY DEF Commit, NoTx
<1>4. \A u \in Transactions : ~tx'[u].open /\ \A i \in Ids : tx'[u].drawn[i] = 0
  BY <1>0, <1>1, <1>3 DEF ServerInv, LockInv, Transaction
<1>5. LockInv'
  BY <1>4 DEF LockInv
<1>6. DrawnInv'
  <2>1. log' <= seq
    BY <1>0, <1>1, <1>2 DEF ServerInv, DrawnInv
  <2> QED
    BY <1>3, <1>4, <2>1 DEF DrawnInv
<1>7. Covered'
  <2>1. \A i \in Ids : row[i] \in Version
    BY <1>0 DEF Rows
  <2>2. \A i \in Ids : tx[t].drawn[i] # 0 =>
           \A j \in Ids : /\ row[j].rev < tx[t].drawn[i]
                          /\ j # i => tx[t].drawn[j] # tx[t].drawn[i]
    BY DEF ServerInv, DrawnInv
  <2>3. \A i \in Ids : row[i] # NoRow =>
           row[i].rev \in 1..log /\ \A j \in Ids \ {i} : row[i].rev # row[j].rev
    BY DEF ServerInv, Covered, Exists
  <2>4. ASSUME NEW i \in Ids
        PROVE  row'[i].rev = IF tx[t].drawn[i] = 0 THEN row[i].rev ELSE tx[t].drawn[i]
    <3>1. CASE tx[t].drawn[i] = 0
      BY <1>2, <3>1
    <3>2. CASE tx[t].drawn[i] # 0
      <4>1. row'[i] = [rev |-> tx[t].drawn[i], epoch |-> epoch]
        BY <1>2, <3>2
      <4> QED
        BY <3>2, <4>1
    <3> QED
      BY <3>1, <3>2
  <2>5. ASSUME NEW i \in Ids, row'[i] # NoRow
        PROVE  row'[i].rev \in 1..log' /\ \A j \in Ids \ {i} : row'[i].rev # row'[j].rev
    <3>1. CASE tx[t].drawn[i] = 0
      <4>1. row'[i] = row[i] /\ row[i] # NoRow
        BY <1>2, <2>5, <3>1
      <4> QED
        BY <1>0, <1>1, <1>2, <2>1, <2>2, <2>3, <2>4, <4>1 DEF Version
    <3>2. CASE tx[t].drawn[i] # 0
      BY <1>0, <1>1, <1>2, <2>1, <2>2, <2>4, <3>2 DEF Version
    <3> QED
      BY <3>1, <3>2
  <2> QED
    BY <2>5 DEF Covered, Exists
<1> QED
  BY <1>5, <1>6, <1>7

LEMMA AbortServer ==
  ASSUME ServerInv, NEW t \in Transactions, Abort(t)
  PROVE  LockInv' /\ DrawnInv' /\ Covered'
<1>0. tx \in [Transactions -> Transaction]
  BY DEF ServerInv, TypeOK
<1>1. tx' = [tx EXCEPT ![t] = [open |-> FALSE, drawn |-> [id \in Ids |-> 0]]]
  BY DEF Abort, NoTx
<1>2. LockInv'
  BY <1>0, <1>1 DEF ServerInv, LockInv, Transaction
<1>3. DrawnInv'
  BY <1>0, <1>1 DEF ServerInv, DrawnInv, Abort, Transaction
<1>4. Covered'
  BY DEF Abort, ServerInv, Covered, Exists
<1> QED
  BY <1>2, <1>3, <1>4

LEMMA OtherUserServer ==
  ASSUME ServerInv, OtherUser
  PROVE  LockInv' /\ DrawnInv' /\ Covered'
<1>0. /\ tx \in [Transactions -> Transaction] /\ row \in Rows
      /\ seq \in Nat /\ log \in Nat
  BY DEF ServerInv, TypeOK
<1>1. /\ log' \in Nat /\ log' >= log /\ log' <= seq' /\ seq' = seq + 1
      /\ row' = row /\ tx' = tx
  BY <1>0 DEF OtherUser, ServerInv, DrawnInv
<1>2. LockInv'
  BY <1>1 DEF ServerInv, LockInv
<1>3. DrawnInv'
  <2>1. \A u \in Transactions : tx[u].drawn \in [Ids -> Nat]
    BY <1>0 DEF Transaction
  <2> QED
    BY <1>0, <1>1, <2>1 DEF ServerInv, DrawnInv
<1>4. Covered'
  BY <1>0, <1>1 DEF ServerInv, Covered, Exists
<1> QED
  BY <1>2, <1>3, <1>4

LEMMA RemoveServer ==
  ASSUME ServerInv, NEW id \in Ids, DeleteLegacy(id) \/ Reclaim(id)
  PROVE  LockInv' /\ DrawnInv' /\ Covered'
<1>0. /\ tx \in [Transactions -> Transaction] /\ row \in Rows
      /\ seq \in Nat /\ log \in Nat
  BY DEF ServerInv, TypeOK
<1>1. /\ row' = [row EXCEPT ![id] = NoRow]
      /\ UNCHANGED <<seq, log, tx>>
  BY DEF DeleteLegacy, Reclaim
<1>2. LockInv'
  BY <1>1 DEF ServerInv, LockInv, Covers
<1>3. \A j \in Ids : row'[j].rev \in Nat /\ row'[j].rev <= row[j].rev
  BY <1>0, <1>1, NoRowIsVersion DEF Rows, Version
<1>4. DrawnInv'
  <2>1. \A u \in Transactions : tx[u].drawn \in [Ids -> Nat]
    BY <1>0 DEF Transaction
  <2>2. \A j \in Ids : row[j].rev \in Nat
    BY <1>0 DEF Rows, Version
  <2> QED
    BY <1>0, <1>1, <1>3, <2>1, <2>2 DEF ServerInv, DrawnInv
<1>5. Covered'
  BY <1>0, <1>1, NoRowIsVersion DEF ServerInv, Covered, Exists, Rows, Version
<1> QED
  BY <1>2, <1>4, <1>5

\* A restore of a bundle that no other restore crossed.
LEMMA RestoreServer ==
  ASSUME TypeOK, LockInv, FilesInv, NEW b \in bundles, Restore(b), b.whole
  PROVE  DrawnInv' /\ Covered'
<1>1. /\ b \in Bundle /\ tx \in [Transactions -> Transaction]
      /\ row' = b.rows /\ log' = b.log /\ seq' = b.log /\ tx' = tx
      /\ \A u \in Transactions : ~tx[u].open
  BY DEF TypeOK, Restore, Replace, MayLock
<1>2. \A u \in Transactions : \A id \in Ids : tx'[u].drawn[id] = 0
  BY <1>1 DEF LockInv
<1>3. DrawnInv'
  BY <1>1, <1>2 DEF DrawnInv, Bundle
<1>4. Covers(b.rows, b.log)
  BY DEF FilesInv
<1> QED
  BY <1>1, <1>3, <1>4 DEF Covers, Covered, Exists

\* The user's lock has one holder, whatever the tables hold.
LEMMA LockStep ==
  ASSUME TypeOK, LockInv, [Next]_vars
  PROVE  LockInv'
<1>0. tx \in [Transactions -> Transaction]
  BY DEF TypeOK
<1>1. ASSUME NEW t \in Transactions, Begin(t) PROVE LockInv'
  <2>1. /\ \A u \in Transactions : ~tx[u].open /\ tx'[u].drawn = tx[u].drawn
        /\ \A u \in Transactions : tx'[u].open => u = t
    BY <1>0, <1>1 DEF Begin, MayLock, Transaction
  <2> QED
    BY <2>1 DEF LockInv
<1>2. ASSUME NEW t \in Transactions, NEW id \in Ids, Draw(t, id) PROVE LockInv'
  <2>1. /\ tx[t].open /\ tx'[t].open
        /\ \A u \in Transactions \ {t} : tx'[u] = tx[u]
    BY <1>0, <1>2 DEF Draw, Transaction
  <2> QED
    BY <2>1 DEF LockInv
<1>3. ASSUME NEW t \in Transactions, Commit(t) \/ Abort(t) PROVE LockInv'
  <2>1. tx' = [tx EXCEPT ![t] = [open |-> FALSE, drawn |-> [id \in Ids |-> 0]]]
    BY <1>3 DEF Commit, Abort, NoTx
  <2> QED
    BY <1>0, <2>1 DEF LockInv, Transaction
<1>4. ASSUME UNCHANGED tx PROVE LockInv'
  BY <1>4 DEF LockInv
<1>5. ASSUME NEW d \in Devices, Pull(d) \/ CheckAck(d) \/ StoreAck(d) PROVE UNCHANGED tx
  BY <1>5, PullKeepsServer
<1>6. ASSUME NEW id \in Ids, DeleteLegacy(id) \/ Reclaim(id) PROVE UNCHANGED tx
  BY <1>6 DEF DeleteLegacy, Reclaim
<1>7. ASSUME NEW x \in Exporters, ExportRows(x) \/ ExportChanges(x) \/ ExportAcks(x)
      PROVE  UNCHANGED tx
  BY <1>7 DEF ExportRows, ExportChanges, ExportAcks, Finish
<1>8. ASSUME NEW b \in bundles, Restore(b) PROVE UNCHANGED tx
  BY <1>8 DEF Restore, Replace
<1>9. OtherUser \/ UNCHANGED vars => UNCHANGED tx
  BY DEF OtherUser, vars
<1> QED
  BY <1>1, <1>2, <1>3, <1>4, <1>5, <1>6, <1>7, <1>8, <1>9 DEF Next, Write

\* A step that is no restore keeps the intact server.
Restores == \E b \in bundles : Restore(b)

LEMMA ServerStep ==
  ASSUME ServerInv, [Next]_vars, ~Restores
  PROVE  ServerInv'
<1>0. TypeOK' /\ LockInv'
  BY NextType, LockStep DEF ServerInv
<1> SUFFICES DrawnInv' /\ Covered'
  BY <1>0 DEF ServerInv
<1>1. ASSUME UNCHANGED <<row, seq, log, tx>> PROVE DrawnInv' /\ Covered'
  BY <1>1 DEF ServerInv, DrawnInv, Covered, Exists
<1>2. ASSUME NEW t \in Transactions, Write(t) PROVE DrawnInv' /\ Covered'
  BY <1>2, BeginServer, DrawServer, CommitServer, AbortServer DEF Write
<1>3. ASSUME NEW d \in Devices, Pull(d) \/ CheckAck(d) \/ StoreAck(d)
      PROVE  DrawnInv' /\ Covered'
  BY <1>1, <1>3, PullKeepsServer
<1>4. ASSUME NEW x \in Exporters, ExportRows(x) \/ ExportChanges(x) \/ ExportAcks(x)
      PROVE  DrawnInv' /\ Covered'
  BY <1>1, <1>4 DEF ExportRows, ExportChanges, ExportAcks, Finish
<1>5. CASE UNCHANGED vars
  BY <1>1, <1>5 DEF vars
<1> QED
  BY <1>2, <1>3, <1>4, <1>5, OtherUserServer, RemoveServer DEF Next, Restores

\* What is exported while the tables are intact, and no restore crosses, is
\* covered: the change log is read last, and it only grows.
LEMMA FilesStep ==
  ASSUME TypeOK, FilesInv, intact => DrawnInv /\ Covered, [Next]_vars
  PROVE  FilesInv'
<1>0. /\ log \in Nat /\ log' \in Nat /\ seq \in Nat /\ export \in [Exporters -> Export]
  BY NextType DEF TypeOK
<1>1. ASSUME UNCHANGED <<export, bundles, intact>>, intact => log <= log'
      PROVE  FilesInv'
  <2>1. ASSUME NEW x \in Exporters, export[x].whole, export[x].step = "rows"
        PROVE  intact /\ Covers(export[x].rows, log')
    <3>1. intact /\ Covers(export[x].rows, log)
      BY <2>1 DEF FilesInv
    <3>2. log <= log'
      BY <1>1, <3>1
    <3> QED
      BY <1>0, <3>1, <3>2, CoversMore
  <2> QED
    BY <1>1, <2>1 DEF FilesInv
<1>2. ASSUME NEW t \in Transactions, Write(t) PROVE FilesInv'
  <2>1. UNCHANGED <<export, bundles, intact>>
    BY <1>2 DEF Write, Begin, Draw, Commit, Abort, bundleVars
  <2>2. log <= log'
    BY <1>0, <1>2 DEF Write, Begin, Draw, Commit, Abort
  <2> QED
    BY <1>1, <2>1, <2>2
<1>3. CASE OtherUser
  <2>1. UNCHANGED <<export, bundles, intact>> /\ log' \in {log, seq + 1}
    BY <1>3 DEF OtherUser, bundleVars
  <2> QED
    BY <1>0, <1>1, <2>1 DEF DrawnInv
<1>4. ASSUME NEW id \in Ids, DeleteLegacy(id) \/ Reclaim(id) PROVE FilesInv'
  BY <1>0, <1>1, <1>4 DEF DeleteLegacy, Reclaim, bundleVars
<1>5. ASSUME NEW d \in Devices, Pull(d) \/ CheckAck(d) \/ StoreAck(d) PROVE FilesInv'
  BY <1>0, <1>1, <1>5, PullKeepsServer DEF bundleVars
<1>6. ASSUME NEW x \in Exporters, ExportRows(x) PROVE FilesInv'
  <2>1. /\ export'[x].step = "rows" /\ export'[x].rows = row /\ export'[x].whole = intact
        /\ \A y \in Exporters \ {x} : export'[y] = export[y]
        /\ UNCHANGED <<log, bundles, intact>>
    BY <1>0, <1>6 DEF ExportRows, Export
  <2>2. intact => Covers(row, log)
    BY CoversRows
  <2> QED
    BY <1>0, <2>1, <2>2 DEF FilesInv
<1>7. ASSUME NEW x \in Exporters, ExportChanges(x) PROVE FilesInv'
  <2>1. /\ export[x].step = "rows"
        /\ export'[x].step = "changes" /\ export'[x].log = log
        /\ export'[x].rows = export[x].rows /\ export'[x].whole = export[x].whole
        /\ \A y \in Exporters \ {x} : export'[y] = export[y]
        /\ UNCHANGED <<log, bundles, intact>>
    BY <1>0, <1>7 DEF ExportChanges, Export
  <2> QED
    BY <1>0, <2>1 DEF FilesInv
<1>8. ASSUME NEW x \in Exporters, ExportAcks(x) PROVE FilesInv'
  <2>1. /\ export[x].step = "changes" /\ export' = [export EXCEPT ![x] = NoExport]
        /\ bundles' = bundles \cup {[rows |-> export[x].rows, log |-> export[x].log,
                                     ack |-> ack, whole |-> export[x].whole]}
        /\ UNCHANGED <<log, intact>>
    BY <1>8 DEF ExportAcks, Finish
  <2>2. \A b \in bundles' : b.whole => Covers(b.rows, b.log)
    BY <2>1 DEF FilesInv
  <2>3. \A y \in Exporters \ {x} : export'[y] = export[y]
    BY <2>1
  <2>4. ~export'[x].whole
    BY <1>0, <2>1 DEF NoExport
  <2> QED
    BY <2>1, <2>2, <2>3, <2>4 DEF FilesInv
<1>9. ASSUME NEW b \in bundles, Restore(b) PROVE FilesInv'
  <2>1. bundles' = bundles
    BY <1>9 DEF Restore, Replace
  <2>2. ASSUME NEW x \in Exporters
        PROVE  /\ export'[x].step = export[x].step /\ export'[x].rows = export[x].rows
               /\ export'[x].log = export[x].log
               /\ export'[x].whole => export[x].whole /\ export[x].step # "rows"
    BY <1>0, <1>9 DEF Restore, Replace, Export
  <2> QED
    BY <2>1, <2>2 DEF FilesInv
<1>10. CASE UNCHANGED vars
  BY <1>0, <1>1, <1>10 DEF vars, bundleVars
<1> QED
  BY <1>2, <1>3, <1>4, <1>5, <1>6, <1>7, <1>8, <1>9, <1>10 DEF Next

\* A device starts over in the present epoch.
LEMMA SinceStep ==
  ASSUME TypeOK, [Next]_vars, NEW d \in Devices
  PROVE  dev'[d].since \in {dev[d].since, epoch}
<1>0. dev \in [Devices -> Device]
  BY DEF TypeOK
<1>1. ASSUME NEW e \in Devices, PullPage(e) PROVE dev'[d].since \in {dev[d].since, epoch}
  <2>1. PICK items : items = [id \in Ids |-> IF id \in FirstPage(dev[e].cursor)
                                             THEN row[id] ELSE NoRow]
    OBVIOUS
  <2>2. PICK next : dev' = [dev EXCEPT ![e].at = "apply", ![e].page = items, ![e].next = next,
                               ![e].since = IF dev[e].cursor = 0 THEN epoch ELSE @]
    BY <1>1, <2>1 DEF PullPage
  <2> QED
    BY <1>0, <2>2 DEF Device
<1>2. ASSUME NEW e \in Devices, Pull(e), ~PullPage(e)
      PROVE  dev'[d].since = dev[d].since
  <2>1. CASE PullMax(e)
    BY <1>0, <2>1 DEF PullMax, Device
  <2>2. CASE ApplyPage(e)
    BY <1>0, <2>2 DEF ApplyPage, Device
  <2>3. ASSUME NEW cursor, dev' = [dev EXCEPT ![e] = Rest(dev[e], cursor)]
        PROVE  dev'[d].since = dev[d].since
    BY <1>0, <2>3 DEF Rest, Device
  <2>4. CASE PersistCursor(e) \/ ResetCursor(e) \/ Interrupt(e)
    <3>1. \E cursor : dev' = [dev EXCEPT ![e] = Rest(dev[e], cursor)]
      BY <1>0, <2>4 DEF PersistCursor, ResetCursor, Interrupt
    <3> QED
      BY <2>3, <3>1
  <2> QED
    BY <1>2, <2>1, <2>2, <2>4 DEF Pull
<1>3. ASSUME UNCHANGED dev PROVE dev'[d].since = dev[d].since
  BY <1>3
<1>4. ASSUME NEW t \in Transactions, Write(t) PROVE UNCHANGED dev
  BY <1>4 DEF Write, Begin, Draw, Commit, Abort
<1>5. ASSUME NEW id \in Ids, DeleteLegacy(id) \/ Reclaim(id) PROVE UNCHANGED dev
  BY <1>5 DEF DeleteLegacy, Reclaim
<1>6. ASSUME NEW x \in Exporters, ExportRows(x) \/ ExportChanges(x) \/ ExportAcks(x)
      PROVE  UNCHANGED dev
  BY <1>6 DEF ExportRows, ExportChanges, ExportAcks, Finish
<1>7. ASSUME NEW b \in bundles, Restore(b) PROVE UNCHANGED dev
  BY <1>7 DEF Restore, Replace
<1>8. ASSUME NEW e \in Devices, CheckAck(e) \/ StoreAck(e) PROVE UNCHANGED dev
  BY <1>8 DEF CheckAck, StoreAck
<1>9. OtherUser \/ UNCHANGED vars => UNCHANGED dev
  BY DEF OtherUser, vars
<1> QED
  BY <1>1, <1>2, <1>3, <1>4, <1>5, <1>6, <1>7, <1>8, <1>9 DEF Next

\* The tables stop being intact with a restore only, and no device gets ahead.
LEMMA EpochStep ==
  ASSUME TypeOK, EpochInv, [Next]_vars
  PROVE  EpochInv' /\ (~Restores => UNCHANGED <<epoch, intact>>)
<1>0. epoch \in Nat /\ dev \in [Devices -> Device]
  BY DEF TypeOK
<1>1. CASE Restores
  <2>1. dev' = dev /\ epoch' = epoch + 1
    BY <1>1 DEF Restores, Restore, Replace
  <2>2. \A d \in Devices : dev[d].since \in Nat
    BY <1>0 DEF Device
  <2> QED
    BY <1>0, <1>1, <2>1, <2>2 DEF EpochInv
<1>2. CASE ~Restores
  <2>1. UNCHANGED <<epoch, intact>>
    <3>1. ASSUME NEW t \in Transactions, Write(t) PROVE UNCHANGED <<epoch, intact>>
      BY <3>1 DEF Write, Begin, Draw, Commit, Abort, bundleVars
    <3>2. ASSUME NEW id \in Ids, DeleteLegacy(id) \/ Reclaim(id)
          PROVE  UNCHANGED <<epoch, intact>>
      BY <3>2 DEF DeleteLegacy, Reclaim, bundleVars
    <3>3. ASSUME NEW x \in Exporters, ExportRows(x) \/ ExportChanges(x) \/ ExportAcks(x)
          PROVE  UNCHANGED <<epoch, intact>>
      BY <3>3 DEF ExportRows, ExportChanges, ExportAcks, Finish
    <3>4. OtherUser \/ UNCHANGED vars => UNCHANGED <<epoch, intact>>
      BY DEF OtherUser, vars, bundleVars
    <3> QED
      BY <1>2, <3>1, <3>2, <3>3, <3>4, PullKeepsServer DEF Next, Restores, bundleVars
  <2>2. ASSUME NEW d \in Devices
        PROVE  dev'[d].since \in {dev[d].since, epoch}
    BY <1>0, <1>2, SinceStep
  <2> QED
    BY <1>0, <2>1, <2>2 DEF EpochInv
<1> QED
  BY <1>1, <1>2
-----------------------------------------------------------------------------
(***************************************************************************)
(* Devices while the server works.  Writers, deletions and exports touch   *)
(* no device, and what they commit is ahead of every settled revision.     *)
(***************************************************************************)
Calm ==
    /\ UNCHANGED <<dev, ack, acking, epoch>>
    /\ seq <= seq'
    /\ \A t \in Transactions : \A id \in Ids : tx'[t].drawn[id] # 0 =>
          tx'[t].drawn[id] = tx[t].drawn[id] \/ tx'[t].drawn[id] > seq
    /\ \A id \in Ids :
          \/ row'[id] \in {row[id], NoRow}
          \/ \E t \in Transactions : /\ tx[t].drawn[id] # 0
                                     /\ row'[id].rev = tx[t].drawn[id]

LEMMA CalmSteps ==
  ASSUME TypeOK,
         \/ \E t \in Transactions : Write(t)
         \/ OtherUser
         \/ \E id \in Ids : DeleteLegacy(id) \/ Reclaim(id)
         \/ \E x \in Exporters : ExportRows(x) \/ ExportChanges(x) \/ ExportAcks(x)
  PROVE  Calm
<1>0. /\ tx \in [Transactions -> Transaction] /\ row \in Rows /\ seq \in Nat
      /\ \A t \in Transactions : tx[t].drawn \in [Ids -> Nat]
  BY DEF TypeOK, Transaction
<1>1. ASSUME NEW t \in Transactions, Begin(t) PROVE Calm
  <2>1. \A u \in Transactions : tx'[u].drawn = tx[u].drawn
    BY <1>0, <1>1 DEF Begin, Transaction
  <2> QED
    BY <1>0, <1>1, <2>1 DEF Begin, Calm, bundleVars
<1>2. ASSUME NEW t \in Transactions, NEW id \in Ids, Draw(t, id) PROVE Calm
  <2>1. /\ tx'[t].drawn = [tx[t].drawn EXCEPT ![id] = seq + 1]
        /\ \A u \in Transactions \ {t} : tx'[u] = tx[u]
        /\ seq' = seq + 1
    BY <1>0, <1>2 DEF Draw, Transaction
  <2>2. ASSUME NEW u \in Transactions, NEW i \in Ids
        PROVE  tx'[u].drawn[i] = tx[u].drawn[i] \/ tx'[u].drawn[i] > seq
    BY <1>0, <2>1
  <2> QED
    BY <1>0, <1>2, <2>1, <2>2 DEF Draw, Calm, bundleVars
<1>3. ASSUME NEW t \in Transactions, Commit(t) \/ Abort(t) PROVE Calm
  <2>1. tx' = [tx EXCEPT ![t] = [open |-> FALSE, drawn |-> [id \in Ids |-> 0]]]
    BY <1>3 DEF Commit, Abort, NoTx
  <2>2. \A u \in Transactions : \A i \in Ids :
           tx'[u].drawn[i] # 0 => tx'[u].drawn[i] = tx[u].drawn[i]
    BY <1>0, <2>1
  <2>3. ASSUME NEW id \in Ids
        PROVE  \/ row'[id] = row[id]
               \/ tx[t].drawn[id] # 0 /\ row'[id].rev = tx[t].drawn[id]
    <3>1. CASE Abort(t)
      BY <3>1 DEF Abort
    <3>2. CASE Commit(t) /\ tx[t].drawn[id] = 0
      BY <3>2 DEF Commit
    <3>3. CASE Commit(t) /\ tx[t].drawn[id] # 0
      <4>1. row'[id] = [rev |-> tx[t].drawn[id], epoch |-> epoch]
        BY <3>3 DEF Commit
      <4> QED
        BY <3>3, <4>1
    <3> QED
      BY <1>3, <3>1, <3>2, <3>3
  <2>4. UNCHANGED <<dev, ack, acking, epoch, seq>>
    BY <1>3 DEF Commit, Abort, bundleVars
  <2> QED
    BY <1>0, <2>2, <2>3, <2>4 DEF Calm
<1>4. CASE OtherUser
  BY <1>0, <1>4 DEF OtherUser, Calm, bundleVars
<1>5. ASSUME NEW id \in Ids, DeleteLegacy(id) \/ Reclaim(id) PROVE Calm
  <2>1. /\ row' = [row EXCEPT ![id] = NoRow]
        /\ UNCHANGED <<seq, tx, dev, ack, acking, epoch>>
    BY <1>5 DEF DeleteLegacy, Reclaim, bundleVars
  <2>2. \A i \in Ids : row'[i] \in {row[i], NoRow}
    BY <1>0, <2>1 DEF Rows
  <2> QED
    BY <1>0, <2>1, <2>2 DEF Calm
<1>6. ASSUME NEW x \in Exporters, ExportRows(x) \/ ExportChanges(x) \/ ExportAcks(x)
      PROVE  Calm
  <2>1. UNCHANGED <<row, seq, tx, dev, ack, acking, epoch>>
    BY <1>6 DEF ExportRows, ExportChanges, ExportAcks, Finish
  <2> QED
    BY <1>0, <2>1 DEF Calm
<1> QED
  BY <1>1, <1>2, <1>3, <1>4, <1>5, <1>6 DEF Write

\* A settled revision stays settled, and a row that changes moves ahead of it.
LEMMA SettledStays ==
  ASSUME TypeOK, TypeOK', Calm, NEW r \in Nat, Settled(r)
  PROVE  /\ r <= seq'
         /\ \A t \in Transactions : \A id \in Ids :
               tx'[t].drawn[id] # 0 => r < tx'[t].drawn[id]
         /\ \A id \in Ids : row'[id] # NoRow => row'[id] = row[id] \/ row'[id].rev > r
<1>0. /\ seq \in Nat /\ seq' \in Nat
      /\ \A t \in Transactions : tx[t].drawn \in [Ids -> Nat] /\ tx'[t].drawn \in [Ids -> Nat]
  BY DEF TypeOK, Transaction
<1>1. r <= seq'
  BY <1>0 DEF Calm, Settled
<1>2. ASSUME NEW t \in Transactions, NEW id \in Ids, tx'[t].drawn[id] # 0
      PROVE  r < tx'[t].drawn[id]
  <2>1. tx'[t].drawn[id] = tx[t].drawn[id] \/ tx'[t].drawn[id] > seq
    BY <1>2 DEF Calm
  <2>2. r <= seq /\ (tx[t].drawn[id] # 0 => r < tx[t].drawn[id])
    BY DEF Settled
  <2>3. tx[t].drawn[id] \in Nat /\ tx'[t].drawn[id] \in Nat
    BY <1>0
  <2> QED
    BY <1>0, <1>2, <2>1, <2>2, <2>3
<1>3. ASSUME NEW id \in Ids, row'[id] # NoRow, row'[id] # row[id]
      PROVE  row'[id].rev > r
  <2>1. PICK t \in Transactions : tx[t].drawn[id] # 0 /\ row'[id].rev = tx[t].drawn[id]
    BY <1>3 DEF Calm
  <2>2. r < tx[t].drawn[id]
    BY <2>1 DEF Settled
  <2>3. tx[t].drawn[id] \in Nat
    BY <1>0
  <2> QED
    BY <2>1, <2>2, <2>3
<1> QED
  BY <1>1, <1>2, <1>3

\* Calm steps keep what the devices rely on.
LEMMA CalmKeepsPull ==
  ASSUME ServerInv, ServerInv', Calm, NEW d \in Devices, PullInv(d)
  PROVE  PullInv(d)'
<1>0. /\ TypeOK /\ TypeOK' /\ dev[d] \in Device /\ dev' = dev /\ epoch' = epoch
  BY DEF ServerInv, TypeOK, Calm
<1>1. dev[d].cursor \in Nat /\ dev[d].next \in Nat
  BY <1>0 DEF Device
<1> SUFFICES ASSUME dev[d].since = epoch PROVE PullInv(d)'
  BY <1>0 DEF PullInv
<1>2. /\ Settled(dev[d].cursor)'
      /\ \A id \in Ids : row'[id] # NoRow => row'[id] = row[id] \/ row'[id].rev > dev[d].cursor
  <2>1. Settled(dev[d].cursor)
    BY DEF PullInv
  <2> QED
    BY <1>0, <1>1, <2>1, SettledStays DEF Settled
<1>3. ASSUME dev[d].at \in {"apply", "persist"}
      PROVE  /\ Settled(dev[d].next)'
             /\ \A id \in Ids : row'[id] # NoRow => row'[id] = row[id] \/ row'[id].rev > dev[d].next
  <2>1. Settled(dev[d].next)
    BY <1>3 DEF PullInv
  <2> QED
    BY <1>0, <1>1, <2>1, SettledStays DEF Settled
<1>4. \A id \in Ids : row'[id].rev \in Nat
  BY <1>0 DEF TypeOK, Rows, Version
<1>5. \A id \in Ids : row'[id] # NoRow /\ row'[id].rev <= dev[d].cursor
         => dev[d].copy[id] = row'[id]
  BY <1>1, <1>2, <1>4 DEF PullInv, Exists
<1>6. ASSUME dev[d].at = "apply", NEW id \in Ids, row'[id] # NoRow, row'[id].rev <= dev[d].next
      PROVE  dev[d].page[id] = IF row'[id].rev > dev[d].cursor THEN row'[id] ELSE NoRow
  <2>1. row'[id] = row[id]
    BY <1>1, <1>3, <1>4, <1>6
  <2>2. row[id] # NoRow /\ row[id].rev <= dev[d].next
    BY <1>6, <2>1
  <2> QED
    BY <1>6, <2>1, <2>2 DEF PullInv, Exists
<1>7. ASSUME dev[d].at = "persist", NEW id \in Ids, row'[id] # NoRow, row'[id].rev <= dev[d].next
      PROVE  dev[d].copy[id] = row'[id]
  <2>1. row'[id] = row[id]
    BY <1>1, <1>3, <1>4, <1>7
  <2> QED
    BY <1>7, <2>1 DEF PullInv, Exists
<1>8. dev[d].at \in {"apply", "persist"} => dev[d].cursor <= dev[d].next
  BY DEF PullInv
<1> QED
  BY <1>0, <1>2, <1>3, <1>5, <1>6, <1>7, <1>8 DEF PullInv, Exists

LEMMA CalmKeepsAck ==
  ASSUME ServerInv, ServerInv', Calm, NEW d \in Devices, AckInv(d)
  PROVE  AckInv(d)'
<1>0. /\ TypeOK /\ TypeOK' /\ dev' = dev /\ epoch' = epoch /\ ack' = ack /\ acking' = acking
  BY DEF ServerInv, Calm
<1>1. ack[d] \in Nat /\ acking[d] \in Nat
  BY <1>0 DEF TypeOK
<1> SUFFICES ASSUME epoch = 0 PROVE AckInv(d)'
  BY <1>0 DEF AckInv
<1>2. /\ Settled(ack[d])'
      /\ \A id \in Ids : row'[id] # NoRow => row'[id] = row[id] \/ row'[id].rev > ack[d]
  <2>1. Settled(ack[d])
    BY DEF AckInv
  <2> QED
    BY <1>0, <1>1, <2>1, SettledStays DEF Settled
<1>3. /\ Settled(acking[d])'
      /\ \A id \in Ids : row'[id] # NoRow => row'[id] = row[id] \/ row'[id].rev > acking[d]
  <2>1. Settled(acking[d])
    BY DEF AckInv
  <2> QED
    BY <1>0, <1>1, <2>1, SettledStays DEF Settled
<1>4. \A id \in Ids : row'[id].rev \in Nat
  BY <1>0 DEF TypeOK, Rows, Version
<1>5. ASSUME NEW id \in Ids, row'[id] # NoRow,
             row'[id].rev <= ack[d] \/ row'[id].rev <= acking[d]
      PROVE  dev[d].copy[id] = row'[id]
  <2>1. row'[id] = row[id]
    BY <1>1, <1>2, <1>3, <1>4, <1>5
  <2> QED
    BY <1>5, <2>1 DEF AckInv, Exists
<1>6. ASSUME dev[d].at = "apply", NEW id \in Ids, row'[id] # NoRow, dev[d].page[id] # NoRow
      PROVE  \/ dev[d].page[id] = row'[id]
             \/ row'[id].rev > ack[d] /\ row'[id].rev > acking[d]
  <2>1. CASE row'[id] = row[id]
    BY <1>6, <2>1 DEF AckInv, Exists
  <2>2. CASE row'[id] # row[id]
    BY <1>2, <1>3, <1>6, <2>2
  <2> QED
    BY <2>1, <2>2
<1> QED
  BY <1>0, <1>2, <1>3, <1>5, <1>6 DEF AckInv, Exists
-----------------------------------------------------------------------------
(***************************************************************************)
(* The steps of devices.                                                   *)
(***************************************************************************)
\* A page is closed downwards: it holds every changed row up to its last.
LEMMA PageIsPrefix ==
  ASSUME TypeOK, NEW cursor \in Nat, NEW m \in FirstPage(cursor), NEW id \in Ids,
         row[id].rev > cursor, row[id].rev <= row[m].rev
  PROVE  id \in FirstPage(cursor)
<1> DEFINE Before(i) == {j \in Changed(cursor) : row[j].rev < row[i].rev}
<1>0. \A i \in Ids : row[i].rev \in Nat
  BY DEF TypeOK, Rows, Version
<1>1. id \in Changed(cursor) /\ m \in Changed(cursor) /\ Changed(cursor) \subseteq Ids
  BY DEF Changed, FirstPage
<1>2. IsFiniteSet(Changed(cursor))
  BY <1>1, FS_Subset, FeedAssumption
<1>3. Before(id) \subseteq Before(m)
  BY <1>0, <1>1
<1>4. IsFiniteSet(Before(m))
  <2>1. Before(m) \in SUBSET Changed(cursor)
    OBVIOUS
  <2> QED
    BY <1>2, <2>1, FS_Subset
<1>5. Cardinality(Before(id)) <= Cardinality(Before(m))
  BY <1>3, <1>4, FS_Subset
<1>6. Cardinality(Before(m)) \in Nat /\ Cardinality(Before(id)) \in Nat
  <2>1. IsFiniteSet(Before(id))
    BY <1>3, <1>4, FS_Subset
  <2> QED
    BY <1>4, <2>1, FS_CardinalityType
<1>7. Cardinality(Before(m)) < PageLimit
  BY DEF FirstPage
<1>8. Cardinality(Before(id)) < PageLimit
  BY <1>5, <1>6, <1>7, FeedAssumption
<1> QED
  BY <1>1, <1>8 DEF FirstPage

\* What PullPage hands to the device, and how far it is complete.
LEMMA PageIsComplete ==
  ASSUME TypeOK, NEW cursor \in Nat, NEW next \in NextCursor(cursor, FirstPage(cursor))
  PROVE  /\ next \in Nat /\ cursor <= next
         /\ next = cursor \/ \E m \in Ids : next = row[m].rev
         /\ \A id \in Ids : row[id].rev <= next =>
               (id \in FirstPage(cursor) <=> row[id].rev > cursor)
<1> DEFINE items == FirstPage(cursor)
<1>0. \A i \in Ids : row[i].rev \in Nat
  BY DEF TypeOK, Rows, Version
<1>1. \A i \in items : i \in Ids /\ row[i].rev > cursor
  BY DEF FirstPage, Changed
<1>2. CASE items = {}
  <2>1. next = cursor
    BY <1>2 DEF NextCursor
  <2> QED
    BY <1>0, <1>1, <2>1
<1>3. CASE items # {}
  <2>1. PICK m \in items : next = row[m].rev
    BY <1>3 DEF NextCursor
  <2>2. \A id \in Ids : row[id].rev > cursor /\ row[id].rev <= next => id \in items
    BY <2>1, PageIsPrefix
  <2> QED
    BY <1>0, <1>1, <2>1, <2>2
<1> QED
  BY <1>2, <1>3

\* A committed revision is settled.
LEMMA CommittedIsSettled ==
  ASSUME ServerInv, NEW id \in Ids
  PROVE  Settled(row[id].rev)
<1>0. row[id] \in Version /\ seq \in Nat /\ log \in Nat
  BY DEF ServerInv, TypeOK, Rows
<1>1. row[id].rev <= seq
  <2>1. CASE row[id] = NoRow
    BY <1>0, <2>1, NoRowIsVersion
  <2>2. CASE row[id] # NoRow
    BY <1>0, <2>2 DEF ServerInv, Covered, DrawnInv, Exists
  <2> QED
    BY <2>1, <2>2
<1> QED
  BY <1>1 DEF Settled, ServerInv, DrawnInv

\* Only the device that takes a step changes, and Settled does not.
LEMMA OtherDevices ==
  ASSUME TypeOK, NEW d \in Devices, Pull(d) \/ CheckAck(d) \/ StoreAck(d),
         NEW e \in Devices, e # d, PullInv(e), AckInv(e)
  PROVE  PullInv(e)' /\ AckInv(e)'
<1>1. dev'[e] = dev[e] /\ ack'[e] = ack[e] /\ acking'[e] = acking[e]
  BY DEF TypeOK, Pull, PullMax, PullPage, ApplyPage, PersistCursor, ResetCursor, Interrupt,
         CheckAck, StoreAck
<1>2. UNCHANGED <<row, seq, tx, epoch>>
  BY PullKeepsServer DEF bundleVars
<1> QED
  BY <1>1, <1>2 DEF PullInv, AckInv, Settled, Exists

LEMMA PullPageKeeps ==
  ASSUME ServerInv, NEW d \in Devices, PullPage(d), PullInv(d), AckInv(d)
  PROVE  PullInv(d)' /\ AckInv(d)'
<1>0. TypeOK /\ dev[d] \in Device /\ epoch \in Nat /\ seq \in Nat
  BY DEF ServerInv, TypeOK
<1>1. PICK c \in Nat : c = dev[d].cursor
  BY <1>0 DEF Device
<1>2. PICK next \in NextCursor(c, FirstPage(c)) :
        dev' = [dev EXCEPT ![d].at = "apply",
                  ![d].page = [id \in Ids |-> IF id \in FirstPage(c) THEN row[id] ELSE NoRow],
                  ![d].next = next,
                  ![d].since = IF c = 0 THEN epoch ELSE @]
  BY <1>1 DEF PullPage
<1>3. /\ dev'[d].at = "apply" /\ dev'[d].cursor = c /\ dev'[d].next = next
      /\ dev'[d].copy = dev[d].copy
      /\ dev'[d].since = IF c = 0 THEN epoch ELSE dev[d].since
      /\ \A id \in Ids : dev'[d].page[id] = IF id \in FirstPage(c) THEN row[id] ELSE NoRow
  BY <1>0, <1>1, <1>2 DEF TypeOK, Device
<1>4. UNCHANGED <<row, seq, tx, ack, acking, epoch>>
  BY DEF PullPage, bundleVars
<1>5. /\ next \in Nat /\ c <= next
      /\ next = c \/ \E m \in Ids : next = row[m].rev
      /\ \A id \in Ids : row[id].rev <= next => (id \in FirstPage(c) <=> row[id].rev > c)
  BY <1>0, PageIsComplete
<1>6. PullInv(d)'
  <2> SUFFICES ASSUME dev'[d].since = epoch PROVE PullInv(d)'
    BY <1>4 DEF PullInv
  <2>2. Settled(c) /\ \A id \in Ids : Exists(id) /\ row[id].rev <= c
                        => dev[d].copy[id] = row[id]
    <3>1. CASE c = 0
      <4>1. \A t \in Transactions : tx[t].drawn \in [Ids -> Nat]
        BY <1>0 DEF TypeOK, Transaction
      <4>2. \A id \in Ids : Exists(id) => row[id].rev \in Nat /\ row[id].rev >= 1
        BY <1>0 DEF ServerInv, Covered, TypeOK
      <4> QED
        BY <1>0, <3>1, <4>1, <4>2 DEF Settled
    <3>2. CASE c # 0
      BY <1>1, <1>3, <3>2 DEF PullInv
    <3> QED
      BY <3>1, <3>2
  <2>3. Settled(next)
    BY <1>5, <2>2, CommittedIsSettled
  <2> QED
    BY <1>3, <1>4, <1>5, <2>2, <2>3 DEF PullInv, Settled, Exists
<1>7. AckInv(d)'
  BY <1>3, <1>4 DEF AckInv, Settled, Exists
<1> QED
  BY <1>6, <1>7

LEMMA ApplyPageKeeps ==
  ASSUME ServerInv, NEW d \in Devices, ApplyPage(d), PullInv(d), AckInv(d)
  PROVE  PullInv(d)' /\ AckInv(d)'
<1>0. /\ TypeOK /\ dev[d] \in Device /\ dev[d].cursor \in Nat /\ dev[d].next \in Nat
      /\ epoch \in Nat /\ dev[d].since \in Nat /\ dev[d].at = "apply"
      /\ ack[d] \in Nat /\ acking[d] \in Nat
      /\ \A id \in Ids : row[id].rev \in Nat
  BY DEF ServerInv, TypeOK, Device, Rows, Version, ApplyPage
<1>1. /\ dev'[d].at = "persist" /\ dev'[d].cursor = dev[d].cursor
      /\ dev'[d].next = dev[d].next /\ dev'[d].since = dev[d].since
      /\ \A id \in Ids : dev'[d].copy[id] = IF dev[d].page[id] = NoRow THEN dev[d].copy[id]
                                            ELSE dev[d].page[id]
  BY <1>0 DEF ApplyPage, TypeOK, Device
<1>2. UNCHANGED <<row, seq, tx, ack, acking, epoch>>
  BY DEF ApplyPage, bundleVars
<1>3. PullInv(d)'
  <2> SUFFICES ASSUME dev[d].since = epoch PROVE PullInv(d)'
    BY <1>1, <1>2 DEF PullInv
  <2>1. /\ Settled(dev[d].cursor) /\ Settled(dev[d].next) /\ dev[d].cursor <= dev[d].next
    BY <1>0 DEF PullInv
  <2>2. ASSUME NEW id \in Ids, Exists(id), row[id].rev <= dev[d].next
        PROVE  dev'[d].copy[id] = row[id]
    <3>1. dev[d].page[id] = IF row[id].rev > dev[d].cursor THEN row[id] ELSE NoRow
      BY <1>0, <2>2 DEF PullInv
    <3>2. row[id].rev <= dev[d].cursor => dev[d].copy[id] = row[id]
      BY <2>2 DEF PullInv
    <3>3. CASE row[id].rev > dev[d].cursor
      BY <1>1, <2>2, <3>1, <3>3 DEF Exists
    <3>4. CASE row[id].rev <= dev[d].cursor
      BY <1>0, <1>1, <3>1, <3>2, <3>4
    <3> QED
      BY <1>0, <3>3, <3>4
  <2>3. \A id \in Ids : Exists(id) /\ row[id].rev <= dev[d].cursor => dev'[d].copy[id] = row[id]
    BY <1>0, <2>1, <2>2
  <2> QED
    BY <1>1, <1>2, <2>1, <2>2, <2>3 DEF PullInv, Settled, Exists
<1>4. AckInv(d)'
  <2> SUFFICES ASSUME epoch = 0 PROVE AckInv(d)'
    BY <1>2 DEF AckInv
  <2>1. ASSUME NEW id \in Ids, Exists(id), row[id].rev <= ack[d] \/ row[id].rev <= acking[d]
        PROVE  dev'[d].copy[id] = row[id]
    <3>1. dev[d].copy[id] = row[id]
      BY <2>1 DEF AckInv
    <3>2. dev[d].page[id] # NoRow => dev[d].page[id] = row[id]
      BY <1>0, <2>1 DEF AckInv
    <3> QED
      BY <1>1, <3>1, <3>2
  <2> QED
    BY <1>1, <1>2, <2>1 DEF AckInv, Settled, Exists
<1> QED
  BY <1>3, <1>4

\* The device is done with its pull, at a cursor that is as good as the last.
LEMMA RestKeeps ==
  ASSUME ServerInv, NEW d \in Devices, PullInv(d), AckInv(d), NEW cursor \in Nat,
         dev' = [dev EXCEPT ![d] = Rest(@, cursor)],
         UNCHANGED <<row, seq, tx, ack, acking, epoch>>,
         dev[d].since = epoch =>
            /\ Settled(cursor)
            /\ \A id \in Ids : Exists(id) /\ row[id].rev <= cursor
                  => dev[d].copy[id] = row[id]
  PROVE  PullInv(d)' /\ AckInv(d)'
<1>1. /\ dev'[d].at = "idle" /\ dev'[d].cursor = cursor /\ dev'[d].copy = dev[d].copy
      /\ dev'[d].since = dev[d].since
  BY DEF ServerInv, TypeOK, Device, Rest
<1>2. PullInv(d)'
  BY <1>1 DEF PullInv, Settled, Exists
<1>3. AckInv(d)'
  BY <1>1 DEF AckInv, Settled, Exists
<1> QED
  BY <1>2, <1>3

LEMMA PullKeeps ==
  ASSUME ServerInv, NEW d \in Devices, Pull(d), PullInv(d), AckInv(d)
  PROVE  PullInv(d)' /\ AckInv(d)'
<1>0. /\ TypeOK /\ dev[d] \in Device /\ dev[d].cursor \in Nat /\ dev[d].next \in Nat
      /\ seq \in Nat
  BY DEF ServerInv, TypeOK, Device
<1>1. CASE PullMax(d)
  <2>1. /\ dev'[d].at \in {"reset", "list"} /\ dev'[d].cursor = dev[d].cursor
        /\ dev'[d].copy = dev[d].copy /\ dev'[d].since = dev[d].since
    BY <1>0, <1>1 DEF PullMax, TypeOK, Device
  <2>2. UNCHANGED <<row, seq, tx, ack, acking, epoch>>
    BY <1>1 DEF PullMax, bundleVars
  <2>3. PullInv(d)'
    BY <2>1, <2>2 DEF PullInv, Settled, Exists
  <2>4. AckInv(d)'
    BY <2>1, <2>2 DEF AckInv, Settled, Exists
  <2> QED
    BY <2>3, <2>4
<1>2. CASE PullPage(d)
  BY <1>2, PullPageKeeps
<1>3. CASE ApplyPage(d)
  BY <1>3, ApplyPageKeeps
<1>4. CASE PersistCursor(d)
  <2>1. /\ dev' = [dev EXCEPT ![d] = Rest(@, dev[d].next)]
        /\ UNCHANGED <<row, seq, tx, ack, acking, epoch>> /\ dev[d].at = "persist"
    BY <1>0, <1>4 DEF PersistCursor, TypeOK, bundleVars
  <2>2. dev[d].since = epoch =>
          /\ Settled(dev[d].next)
          /\ \A id \in Ids : Exists(id) /\ row[id].rev <= dev[d].next
                => dev[d].copy[id] = row[id]
    BY <2>1 DEF PullInv
  <2>3. PICK c \in Nat : c = dev[d].next
    BY <1>0
  <2> QED
    BY <2>1, <2>2, <2>3, RestKeeps
<1>5. CASE ResetCursor(d)
  <2>1. /\ dev' = [dev EXCEPT ![d] = Rest(@, 0)]
        /\ UNCHANGED <<row, seq, tx, ack, acking, epoch>>
    BY <1>5 DEF ResetCursor, bundleVars
  <2>2. Settled(0)
    <3>1. \A t \in Transactions : tx[t].drawn \in [Ids -> Nat]
      BY <1>0 DEF TypeOK, Transaction
    <3> QED
      BY <1>0, <3>1 DEF Settled
  <2>3. \A id \in Ids : Exists(id) => ~(row[id].rev <= 0)
    BY <1>0 DEF ServerInv, Covered, TypeOK
  <2> QED
    BY <2>1, <2>2, <2>3, RestKeeps
<1>6. CASE Interrupt(d)
  <2>1. /\ dev' = [dev EXCEPT ![d] = Rest(@, dev[d].cursor)]
        /\ UNCHANGED <<row, seq, tx, ack, acking, epoch>>
    BY <1>0, <1>6 DEF Interrupt, TypeOK, bundleVars
  <2>2. dev[d].since = epoch =>
          /\ Settled(dev[d].cursor)
          /\ \A id \in Ids : Exists(id) /\ row[id].rev <= dev[d].cursor
                => dev[d].copy[id] = row[id]
    BY DEF PullInv
  <2>3. PICK c \in Nat : c = dev[d].cursor
    BY <1>0
  <2> QED
    BY <2>1, <2>2, <2>3, RestKeeps
<1> QED
  BY <1>1, <1>2, <1>3, <1>4, <1>5, <1>6 DEF Pull

LEMMA AckKeeps ==
  ASSUME ServerInv, EpochInv, NEW d \in Devices, CheckAck(d) \/ StoreAck(d),
         PullInv(d), AckInv(d)
  PROVE  PullInv(d)' /\ AckInv(d)'
<1>0. /\ TypeOK /\ dev[d] \in Device /\ dev[d].since \in Nat /\ epoch \in Nat /\ seq \in Nat
      /\ ack[d] \in Nat /\ acking[d] \in Nat /\ dev[d].cursor \in Nat
      /\ \A id \in Ids : row[id].rev \in Nat
  BY DEF ServerInv, TypeOK, Device, Rows, Version
<1>1. UNCHANGED <<row, seq, tx, dev, epoch>>
  BY DEF CheckAck, StoreAck, bundleVars
<1>2. PullInv(d)'
  BY <1>1 DEF PullInv, Settled, Exists
<1>3. AckInv(d)'
  <2> SUFFICES ASSUME epoch = 0 PROVE AckInv(d)'
    BY <1>1 DEF AckInv
  <2>1. /\ Settled(ack[d]) /\ Settled(acking[d])
        /\ \A id \in Ids : Exists(id) /\ (row[id].rev <= ack[d] \/ row[id].rev <= acking[d])
              => dev[d].copy[id] = row[id]
    BY DEF AckInv
  <2>2. CASE CheckAck(d)
    <3>1. ack'[d] = ack[d] /\ acking'[d] = dev[d].cursor /\ dev[d].at = "idle"
      BY <1>0, <2>2 DEF CheckAck, TypeOK
    <3>2. Settled(dev[d].cursor) /\ \A id \in Ids : Exists(id) /\ row[id].rev <= dev[d].cursor
             => dev[d].copy[id] = row[id]
      BY <1>0 DEF PullInv, EpochInv
    <3> QED
      BY <1>1, <2>1, <3>1, <3>2 DEF AckInv, Settled, Exists
  <2>3. CASE StoreAck(d)
    <3>1. ack'[d] \in {ack[d], acking[d]} /\ acking'[d] = 0
      BY <1>0, <2>3 DEF StoreAck, TypeOK, LargestOf
    <3>2. ack[d] <= ack'[d] /\ ack'[d] \in Nat
      BY <1>0, <2>3 DEF StoreAck, TypeOK, LargestOf
    <3>3. Settled(0)
      <4>1. \A t \in Transactions : tx[t].drawn \in [Ids -> Nat]
        BY <1>0 DEF TypeOK, Transaction
      <4> QED
        BY <1>0, <4>1 DEF Settled
    <3>4. ASSUME NEW id \in Ids, Exists(id), row[id].rev <= ack'[d] \/ row[id].rev <= 0
          PROVE  dev[d].copy[id] = row[id]
      BY <1>0, <2>1, <3>1, <3>4
    <3>5. dev[d].at = "apply" => \A id \in Ids : Exists(id) /\ dev[d].page[id] # NoRow
              => dev[d].page[id] = row[id] \/ (row[id].rev > ack'[d] /\ row[id].rev > 0)
      BY <1>0, <3>1 DEF AckInv
    <3> QED
      BY <1>1, <2>1, <3>1, <3>3, <3>4, <3>5 DEF AckInv, Settled, Exists
  <2> QED
    BY <2>2, <2>3
<1> QED
  BY <1>2, <1>3

LEMMA RestoreKeeps ==
  ASSUME TypeOK, EpochInv, Restores, NEW d \in Devices
  PROVE  PullInv(d)' /\ AckInv(d)'
<1>1. dev' = dev /\ epoch' = epoch + 1 /\ epoch \in Nat /\ dev[d].since \in Nat
  BY DEF Restores, Restore, Replace, TypeOK, Device
<1>2. dev[d].since <= epoch
  BY DEF EpochInv
<1> QED
  BY <1>1, <1>2 DEF PullInv, AckInv
-----------------------------------------------------------------------------
LEMMA InitInv == Init => Inv
<1> SUFFICES ASSUME Init PROVE Inv
  OBVIOUS
<1>1. TypeOK /\ LockInv /\ FilesInv /\ DrawnInv /\ Covered
  BY InitType, InitServer
<1>2. ASSUME NEW d \in Devices PROVE PullInv(d) /\ AckInv(d)
  BY DEF Init, PullInv, AckInv, Settled, NoTx, NoRow, Exists
<1>3. EpochInv
  BY DEF Init, EpochInv
<1> QED
  BY <1>1, <1>2, <1>3 DEF Inv, IntactInv

\* While the tables are intact, every step but a restore keeps what is known of
\* the devices.
LEMMA DevicesStep ==
  ASSUME ServerInv, ServerInv', EpochInv, [Next]_vars, ~Restores,
         \A d \in Devices : PullInv(d) /\ AckInv(d)
  PROVE  \A d \in Devices : PullInv(d)' /\ AckInv(d)'
<1> SUFFICES ASSUME NEW d \in Devices PROVE PullInv(d)' /\ AckInv(d)'
  OBVIOUS
<1>1. TypeOK
  BY DEF ServerInv
<1>2. PullInv(d) /\ AckInv(d)
  OBVIOUS
<1>3. CASE Calm
  BY <1>2, <1>3, CalmKeepsPull, CalmKeepsAck
<1>4. ASSUME NEW e \in Devices, Pull(e) \/ CheckAck(e) \/ StoreAck(e)
      PROVE  PullInv(d)' /\ AckInv(d)'
  <2>1. CASE e = d
    BY <1>2, <1>4, <2>1, PullKeeps, AckKeeps
  <2>2. CASE e # d
    BY <1>1, <1>2, <1>4, <2>2, OtherDevices
  <2> QED
    BY <2>1, <2>2
<1>5. CASE UNCHANGED vars
  BY <1>2, <1>5 DEF vars, bundleVars, PullInv, AckInv, Settled, Exists
<1> QED
  BY <1>1, <1>3, <1>4, <1>5, CalmSteps DEF Next, Restores

LEMMA InductiveStep == Inv /\ [Next]_vars => Inv'
<1> SUFFICES ASSUME Inv, [Next]_vars PROVE Inv'
  OBVIOUS
<1>1. /\ TypeOK /\ LockInv /\ FilesInv /\ EpochInv
      /\ intact => IntactInv /\ ServerInv
  BY DEF Inv, IntactInv, ServerInv
<1>2. TypeOK' /\ LockInv' /\ FilesInv' /\ EpochInv'
  BY <1>1, NextType, LockStep, FilesStep, EpochStep DEF IntactInv
<1>3. ASSUME ~Restores, intact' PROVE IntactInv'
  <2>1. IntactInv /\ ServerInv
    BY <1>1, <1>3, EpochStep
  <2>2. ServerInv'
    BY <1>3, <2>1, ServerStep
  <2>3. \A d \in Devices : PullInv(d)' /\ AckInv(d)'
    BY <1>1, <1>3, <2>1, <2>2, DevicesStep DEF IntactInv
  <2> QED
    BY <2>2, <2>3 DEF IntactInv, ServerInv
<1>4. ASSUME NEW b \in bundles, Restore(b), intact' PROVE IntactInv'
  <2>1. b.whole
    BY <1>4 DEF Restore, Replace
  <2>2. DrawnInv' /\ Covered'
    BY <1>1, <1>4, <2>1, RestoreServer
  <2>3. \A d \in Devices : PullInv(d)' /\ AckInv(d)'
    BY <1>1, <1>4, RestoreKeeps DEF Restores
  <2> QED
    BY <2>2, <2>3 DEF IntactInv
<1> QED
  BY <1>2, <1>3, <1>4 DEF Inv, Restores

\* Every reachable state satisfies the inductive invariant.
THEOREM FeedInvariance == Spec => []Inv
  BY InitInv, InductiveStep, PTL DEF Spec

\* Every variable keeps its type.
THEOREM FeedTypes == Spec => []TypeOK
<1>1. Inv => TypeOK
  BY DEF Inv
<1> QED
  BY <1>1, FeedInvariance, PTL

\* Whatever is written while a bundle is exported, its restore leaves no row
\* ahead of the sequence, and no two rows with one revision - except a bundle
\* whose export another restore crossed, and until a sound one is restored.
THEOREM RevisionsStayCovered == Spec => []SequenceCoversRows
<1>1. Inv => SequenceCoversRows
  BY DEF Inv, IntactInv, SequenceCoversRows
<1> QED
  BY <1>1, FeedInvariance, PTL

\* What the cursor of a device has passed, the device holds, unless a bundle
\* was restored since it last started over, or the tables are those of a bundle
\* that a restore crossed.
THEOREM CursorSkipsNothing == Spec => []NothingSkipped
<1>1. Inv => NothingSkipped
  BY DEF Inv, IntactInv, PullInv, NothingSkipped
<1> QED
  BY <1>1, FeedInvariance, PTL

\* Until a bundle is restored, what a device has acknowledged it holds.
THEOREM AcknowledgementsAreHonest == Spec => []AcknowledgedIsApplied
<1>1. Inv => AcknowledgedIsApplied
  BY DEF Inv, EpochInv, IntactInv, AckInv, AcknowledgedIsApplied
<1> QED
  BY <1>1, FeedInvariance, PTL
=============================================================================

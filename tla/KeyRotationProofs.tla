-------------------------- MODULE KeyRotationProofs --------------------------
(***************************************************************************)
(* What holds of rotations and migrations for every number of clients,     *)
(* keys, handlers and rows, and every set of uploads: nothing is lost and  *)
(* nothing comes back when the ciphertexts of a user are replaced, a       *)
(* rotation leaves no recoverable row behind, devices with a former key    *)
(* are fenced off unless a save of the account undoes the rotation's       *)
(* token_version, and the store keeps what ConfigStoreProofs and           *)
(* ConfigLifecycleProofs show of it without them.                          *)
(***************************************************************************)
EXTENDS KeyRotation, ConfigLifecycleProofs, FiniteSetTheorems

(***************************************************************************)
(* The inductive invariant.  A snapshot is used long after it was taken,   *)
(* so it has to be tied to the rows as they are now: while a row's clock   *)
(* is the one in the snapshot, its text is too.  An admitted upload is     *)
(* used long after its token was compared, so it has to be tied to the     *)
(* master key of that moment: as long as no save has undone a rotation,    *)
(* the account's version is in the tokens of no other key.                 *)
(***************************************************************************)
KeysOK ==
    /\ tokenVersion \in Nat /\ saves \in 0..MaxSaves
    /\ masterKey \in Keys /\ undone \in BOOLEAN
    /\ tokens \in [Keys -> SUBSET Nat] /\ copies \in [Savers -> SUBSET Copy]
    /\ tokenVersion \in tokens[masterKey]
    /\ \A s \in Savers : \A copy \in copies[s] : copy.version \in tokens[copy.key]
    /\ ~undone => \A k \in Keys : \A v \in tokens[k] :
                     v <= tokenVersion /\ (v = tokenVersion => k = masterKey)

SnapshotOK(items) ==
    /\ DOMAIN items \subseteq Ids
    /\ \A id \in DOMAIN items :
         /\ items[id] \in Item
         /\ Exists(id) /\ Covers(rows[id].clock, items[id].clock)
         /\ rows[id].clock = items[id].clock /\ Readable(id)
              => TextOf[rows[id].blob] = TextOf[items[id].blob]

RewritesOK ==
    /\ DOMAIN rewrite = Rewriters
    /\ \A c \in Rewriters :
         /\ rewrite[c].kind \in {"none", "rotate", "migrate"}
         /\ rewrite[c].kind = "rotate" => tokens[c] = {}
         /\ SnapshotOK(rewrite[c].items)

AdmissionOK(h) ==
    /\ ~undone => \A a \in admitted[h] : KeyOf[a.in.blob] = a.under
    /\ handler[h].at # "idle" => \E a \in admitted[h] : a.in.blob = handler[h].in.blob

AdmissionsOK ==
    /\ admitted \in [Handlers -> SUBSET Admission]
    /\ \A h \in Handlers : AdmissionOK(h)

Fresh == \A id \in Ids : Exists(id) => id < nextId

RotationInv == Inv /\ KeysOK /\ RewritesOK /\ AdmissionsOK /\ Fresh
-----------------------------------------------------------------------------
(***************************************************************************)
(* The values the two requests compute.                                    *)
(***************************************************************************)
\* There is a ciphertext for whatever a client seals.
LEMMA SealedMeans ==
    ASSUME NEW t \in Texts, NEW k \in Keys, NEW f \in Formats
    PROVE  /\ Sealed(t, k, f) \in Blobs
           /\ TextOf[Sealed(t, k, f)] = t /\ KeyOf[Sealed(t, k, f)] = k
  BY RotationAssumption DEF Sealed

\* What a client finds in a ciphertext.
LEMMA OpenedMeans ==
    ASSUME NEW b \in Blobs
    PROVE  TextOf[b] \in Texts /\ KeyOf[b] \in Keys /\ FormatOf[b] \in Formats
  BY RotationAssumption

\* A migrating client's bump stays in the 64-bit range, also at its end.
LEMMA SignerBumpInClock ==
    ASSUME NEW a \in Clock
    PROVE  Bump(a, Signer, 0) \in Clock
  <1>1. Signer \in Actors /\ a[Signer] \in 0..MaxInt /\ MaxInt \in Nat
    BY RotationAssumption, MaxIntAssumption DEF Clock
  <1> DEFINE next == Wrap(a[Signer] + 1)
  <1>2. (IF 0 > next THEN 0 ELSE next) \in 0..MaxInt
    BY <1>1 DEF Wrap
  <1> HIDE DEF next
  <1>3. Bump(a, Signer, 0) = [a EXCEPT ![Signer] = IF 0 > next THEN 0 ELSE next]
    BY DEF Bump, next
  <1> QED
    BY <1>2, <1>3 DEF Clock

\* The rows that a request has to cover hold ciphertexts.
LEMMA LiveMeans ==
    ASSUME Inv, NEW id \in Live
    PROVE  /\ id \in Ids /\ rows[id] \in Row /\ rows[id].state \in {"active", "deleted"}
           /\ rows[id].blob \in Blobs /\ rows[id].clock \in Clock
           /\ Exists(id) /\ Readable(id)
  <1>1. /\ id \in Ids /\ rows[id] \in Row /\ WellShaped(rows[id])
        /\ rows[id].state \notin {"none", "purged"}
    BY DEF Live, Inv, InvOf, TypeOK, RowOK
  <1> QED
    BY <1>1 DEF Row, WellShaped, Exists, Readable

\* The loop gives every row a revision of its own.
Rank(S, id) == Cardinality({j \in S : j <= id})

LEMMA RanksDiffer ==
    ASSUME NEW S \in SUBSET Ids
    PROVE  /\ Cardinality(S) \in Nat
           /\ \A id \in S : Rank(S, id) \in 1..Cardinality(S)
           /\ \A i, j \in S : i # j => Rank(S, i) # Rank(S, j)
  <1> DEFINE upTo(id) == {j \in S : j <= id}
  <1>1. IsFiniteSet(S) /\ S \subseteq Int
    <2>1. IsFiniteSet(Ids) /\ Ids \subseteq Int
      BY FS_Interval, BoundsAssumption DEF Ids
    <2> QED
      BY <2>1, FS_Subset
  <1>2. Cardinality(S) \in Nat
    BY <1>1, FS_CardinalityType
  <1>3. ASSUME NEW id \in S
        PROVE  /\ upTo(id) \in SUBSET S /\ id \in upTo(id) /\ IsFiniteSet(upTo(id))
               /\ Cardinality(upTo(id)) \in 1..Cardinality(S)
    <2>1. upTo(id) \in SUBSET S /\ id \in upTo(id)
      BY <1>1
    <2>2. IsFiniteSet(upTo(id)) /\ Cardinality(upTo(id)) <= Cardinality(S)
      BY <1>1, <2>1, FS_Subset
    <2>3. Cardinality(upTo(id)) \in Nat /\ Cardinality(upTo(id)) # 0
      BY <2>1, <2>2, FS_CardinalityType, FS_EmptySet
    <2>4. \A n, m \in Nat : n # 0 /\ n <= m => n \in 1..m
      OBVIOUS
    <2>5. Cardinality(upTo(id)) \in 1..Cardinality(S)
      BY <1>2, <2>2, <2>3, <2>4
    <2> QED
      BY <2>1, <2>2, <2>5
  <1>4. ASSUME NEW i \in S, NEW j \in S, i < j
        PROVE  Cardinality(upTo(i)) # Cardinality(upTo(j))
    <2>0. /\ \A k \in S : k <= i => k <= j
          /\ j <= j /\ ~(j <= i)
      BY <1>1, <1>4
    <2>1. upTo(i) \in SUBSET upTo(j) /\ j \notin upTo(i) /\ j \in upTo(j)
      BY <2>0
    <2>2. upTo(i) # upTo(j)
      BY <2>1
    <2>3. IsFiniteSet(upTo(j))
      BY <1>3
    <2> QED
      BY <2>3, <2>1, <2>2, FS_Subset
  <1>5. \A i, j \in S : i # j => i < j \/ j < i
    BY <1>1
  <1> QED
    BY <1>2, <1>3, <1>4, <1>5 DEF Rank

Stamped(r, revision, day) == [r EXCEPT !.rev = revision, !.updatedAt = day]

Resaved(r, clock, blob) == [r EXCEPT !.clock = clock, !.blob = blob]

\* Every row of S is stored under a new revision of its own.
StoresAll(S, new) ==
    /\ seq' \in Nat /\ seq' >= seq
    /\ rows' = [id \in Ids |-> rows'[id]]
    /\ \A id \in Ids \ S : rows'[id] = rows[id]
    /\ \E rev \in [S -> (seq + 1)..seq'] :
         /\ \A id \in S : rows'[id] = Stamped(new[id], rev[id], today)
         /\ \A i, j \in S : i # j => rev[i] # rev[j]

LEMMA CommitAllMeans ==
    ASSUME Inv, NEW S \in SUBSET Ids, NEW new, CommitAll(S, new)
    PROVE  StoresAll(S, new)
  <1> DEFINE rank == [id \in S |-> Rank(S, id)]
             rev  == [id \in S |-> seq + rank[id]]
             size == Cardinality(S)
  <1>1. seq \in Nat /\ seq' = seq + size
    BY DEF CommitAll, Inv, InvOf, TypeOK
  <1>2. /\ size \in Nat
        /\ \A id \in S : rank[id] \in 1..size
        /\ \A i, j \in S : i # j => rank[i] # rank[j]
    BY RanksDiffer
  <1>3. rows' = [id \in Ids |-> IF id \in S
                   THEN Stamped(new[id], seq + rank[id], today) ELSE rows[id]]
    BY DEF CommitAll, Rank, Stamped
  <1> HIDE DEF rank, size
  <1>4. /\ \A id \in S : seq + rank[id] \in (seq + 1)..seq'
        /\ \A i, j \in S : i # j => seq + rank[i] # seq + rank[j]
        /\ seq' \in Nat /\ seq' >= seq
    BY <1>1, <1>2
  <1>5. /\ rev \in [S -> (seq + 1)..seq']
        /\ \A i, j \in S : i # j => rev[i] # rev[j]
        /\ \A id \in S : rev[id] = seq + rank[id]
    BY <1>4
  <1> HIDE DEF rev
  <1>6. /\ rows' = [id \in Ids |-> rows'[id]]
        /\ \A id \in Ids \ S : rows'[id] = rows[id]
        /\ \A id \in S : rows'[id] = Stamped(new[id], rev[id], today)
    BY <1>3, <1>5
  <1> QED
    BY <1>4, <1>5, <1>6 DEF StoresAll
-----------------------------------------------------------------------------
(***************************************************************************)
(* What any step does to the table: an upload or an operation of a client  *)
(* as in ConfigStoreProofs, or the ciphertexts of all live rows change.    *)
(***************************************************************************)
Reseal ==
    /\ seq' \in Nat /\ seq' >= seq
    /\ rows' \in [Ids -> Row]
    /\ \A id \in Ids \ Live : rows'[id] = rows[id]
    /\ \A id \in Live :
         /\ rows'[id].state = rows[id].state /\ rows'[id].asset = rows[id].asset
         /\ rows'[id].deletedAt = rows[id].deletedAt
         /\ rows'[id].purgeAfter = rows[id].purgeAfter
         /\ rows'[id].blob \in Blobs
         /\ TextOf[rows'[id].blob] = TextOf[rows[id].blob]
         /\ rows'[id].clock = rows[id].clock \/ Newer(rows'[id].clock, rows[id].clock)
         /\ rows'[id].rev \in (seq + 1)..seq'
         /\ \A j \in Live \ {id} : rows'[id].rev # rows'[j].rev
    /\ UNCHANGED <<nextId, today, handler, sweep, ack, acking, issued, effects>>

\* A snapshot that has the clocks of the rows has their texts, too.
LEMMA SnapshotIsCurrent ==
    ASSUME Inv, NEW items, SnapshotOK(items), CoversSnapshot(items), SameClocks(items)
    PROVE  /\ DOMAIN items = Live /\ Live \in SUBSET Ids
           /\ \A id \in Live : /\ items[id] \in Item
                               /\ items[id].clock = rows[id].clock
                               /\ TextOf[items[id].blob] = TextOf[rows[id].blob]
                               /\ TextOf[items[id].blob] \in Texts
                               /\ KeyOf[items[id].blob] \in Keys
                               /\ FormatOf[items[id].blob] \in Formats
  <1>1. DOMAIN items = Live /\ Live \in SUBSET Ids
    BY DEF CoversSnapshot, Live
  <1> SUFFICES ASSUME NEW id \in Live
               PROVE  /\ items[id] \in Item /\ items[id].clock = rows[id].clock
                      /\ TextOf[items[id].blob] = TextOf[rows[id].blob]
                      /\ TextOf[items[id].blob] \in Texts
                      /\ KeyOf[items[id].blob] \in Keys
                      /\ FormatOf[items[id].blob] \in Formats
    BY <1>1
  <1>2. items[id] \in Item /\ items[id].clock = rows[id].clock
    BY <1>1 DEF SnapshotOK, SameClocks
  <1>3. TextOf[items[id].blob] = TextOf[rows[id].blob]
    BY <1>1, <1>2, LiveMeans DEF SnapshotOK
  <1>4. items[id].blob \in Blobs
    BY <1>2 DEF Item
  <1> QED
    BY <1>2, <1>3, <1>4, OpenedMeans

\* The row that a request saves, as it is stored.
LEMMA RewrittenRow ==
    ASSUME NEW r \in Row, NEW clock \in Clock, NEW blob \in Blobs,
           NEW q \in Nat, NEW d \in Days
    PROVE  LET v == Resaved(r, clock, blob)
               w == Stamped(v, q, d)
           IN  /\ w \in Row /\ w.blob = blob /\ w.clock = clock /\ w.rev = q
               /\ w.state = r.state /\ w.asset = r.asset
               /\ w.deletedAt = r.deletedAt /\ w.purgeAfter = r.purgeAfter
               /\ v.blob = blob
  BY DEF Row, Stamped, Resaved

\* Saving a new clock and ciphertext in every live row is a Reseal.
SavedRow(id, r) ==
    \E blob \in Blobs, clock \in Clock :
       /\ r = Resaved(rows[id], clock, blob)
       /\ TextOf[blob] = TextOf[rows[id].blob]
       /\ clock = rows[id].clock \/ Newer(clock, rows[id].clock)

LEMMA ResealOK ==
    ASSUME Inv, NEW new, CommitAll(Live, new), \A id \in Live : SavedRow(id, new[id]),
           UNCHANGED <<nextId, today, handler, sweep, ack, acking, issued, effects>>
    PROVE  Reseal /\ \A id \in Live : rows'[id].blob = new[id].blob
  <1> PICK S \in SUBSET Ids : S = Live
    BY DEF Live
  <1>1. StoresAll(S, new)
    BY CommitAllMeans
  <1>2. PICK rev \in [S -> (seq + 1)..seq'] :
          /\ \A id \in S : rows'[id] = Stamped(new[id], rev[id], today)
          /\ \A i, j \in S : i # j => rev[i] # rev[j]
    BY <1>1 DEF StoresAll
  <1>3. today \in Days /\ seq \in Nat /\ \A id \in Ids : rows[id] \in Row
    <2>1. /\ today \in 1..MaxDay /\ MaxDay \in Nat
          /\ seq \in Nat /\ rows \in [Ids -> Row]
      BY BoundsAssumption DEF Inv, InvOf, TypeOK
    <2> QED
      BY <2>1 DEF Days
  <1>4. ASSUME NEW id \in S
        PROVE  /\ rows'[id] \in Row /\ rows'[id].blob = new[id].blob
               /\ rows'[id].state = rows[id].state /\ rows'[id].asset = rows[id].asset
               /\ rows'[id].deletedAt = rows[id].deletedAt
               /\ rows'[id].purgeAfter = rows[id].purgeAfter
               /\ rows'[id].blob \in Blobs
               /\ TextOf[rows'[id].blob] = TextOf[rows[id].blob]
               /\ rows'[id].clock = rows[id].clock \/ Newer(rows'[id].clock, rows[id].clock)
               /\ rows'[id].rev = rev[id]
    <2> PICK blob \in Blobs, clock \in Clock :
                /\ new[id] = Resaved(rows[id], clock, blob)
                /\ TextOf[blob] = TextOf[rows[id].blob]
                /\ clock = rows[id].clock \/ Newer(clock, rows[id].clock)
      BY DEF SavedRow
    <2> PICK r \in Row : r = rows[id]
      BY <1>3
    <2>1. /\ rows'[id] = Stamped(new[id], rev[id], today)
          /\ new[id] = Resaved(r, clock, blob)
          /\ rev[id] \in Nat
      BY <1>2, <1>3
    <2>2. /\ rows'[id] \in Row /\ rows'[id].blob = blob /\ rows'[id].clock = clock
          /\ rows'[id].state = r.state /\ rows'[id].asset = r.asset
          /\ rows'[id].deletedAt = r.deletedAt /\ rows'[id].purgeAfter = r.purgeAfter
          /\ rows'[id].rev = rev[id] /\ new[id].blob = blob
      BY <1>3, <2>1, RewrittenRow
    <2> QED
      BY <2>2
  <1>5. rows' \in [Ids -> Row]
    BY <1>1, <1>3, <1>4 DEF StoresAll
  <1> QED
    BY <1>1, <1>2, <1>4, <1>5 DEF Reseal, StoresAll

LEMMA RotateMeans ==
    ASSUME RotationInv, NEW c \in Rewriters, Rotate(c)
    PROVE  Reseal /\ \A id \in Live : KeyOf[rows'[id].blob] = c
  <1> DEFINE items == rewrite[c].items
             new == [id \in DOMAIN items |->
                       [rows[id] EXCEPT !.blob =
                          Sealed(TextOf[items[id].blob], c, FormatOf[items[id].blob])]]
  <1>1. SnapshotOK(items) /\ CoversSnapshot(items) /\ SameClocks(items) /\ Inv /\ c \in Keys
    BY DEF Rotate, RotationInv, RewritesOK, Keys
  <1> HIDE DEF items
  <1>2. /\ DOMAIN items = Live
        /\ \A id \in Live : /\ TextOf[items[id].blob] = TextOf[rows[id].blob]
                            /\ TextOf[items[id].blob] \in Texts
                            /\ FormatOf[items[id].blob] \in Formats
    BY <1>1, SnapshotIsCurrent
  <1>3. ASSUME NEW id \in Live
        PROVE  /\ SavedRow(id, new[id])
               /\ KeyOf[new[id].blob] = c
    <2> PICK blob : blob = Sealed(TextOf[items[id].blob], c, FormatOf[items[id].blob])
      OBVIOUS
    <2>1. blob \in Blobs /\ TextOf[blob] = TextOf[rows[id].blob] /\ KeyOf[blob] = c
      BY <1>1, <1>2, SealedMeans
    <2> PICK r \in Row : r = rows[id] /\ r.clock \in Clock
      BY <1>1, LiveMeans
    <2>2. new[id] = [r EXCEPT !.blob = blob]
      BY <1>2
    <2>3. new[id] = Resaved(r, r.clock, blob) /\ new[id].blob = blob
      BY <2>2 DEF Row, Resaved
    <2> HIDE DEF new
    <2> QED
      BY <2>1, <2>3 DEF SavedRow
  <1>4. /\ CommitAll(Live, new)
        /\ UNCHANGED <<nextId, today, handler, sweep, ack, acking, issued, effects>>
    BY <1>2 DEF Rotate, items
  <1> HIDE DEF new
  <1>5. Reseal /\ \A id \in Live : rows'[id].blob = new[id].blob
    BY <1>1, <1>3, <1>4, ResealOK
  <1> QED
    BY <1>3, <1>5

LEMMA MigrateMeans ==
    ASSUME RotationInv, NEW c \in Rewriters, Migrate(c)
    PROVE  Reseal /\ \A id \in Live : KeyOf[rows'[id].blob] = KeyOf[rows[id].blob]
  <1> DEFINE items == rewrite[c].items
             next(id) == Bump(items[id].clock, Signer, 0)
             new == [id \in DOMAIN items |->
                       [rows[id] EXCEPT !.clock = next(id), !.blob =
                          Sealed(TextOf[items[id].blob], KeyOf[items[id].blob], "OTC2")]]
  <1>1. /\ SnapshotOK(items) /\ CoversSnapshot(items) /\ SameClocks(items)
        /\ SameDigests(items) /\ Inv
        /\ \A id \in DOMAIN items : Newer(next(id), items[id].clock)
    BY DEF Migrate, RotationInv, RewritesOK
  <1>4. /\ CommitAll(DOMAIN items, new)
        /\ UNCHANGED <<nextId, today, handler, sweep, ack, acking, issued, effects>>
    BY DEF Migrate
  <1> HIDE DEF items
  <1>2. /\ DOMAIN items = Live
        /\ \A id \in Live : /\ items[id].blob = rows[id].blob
                            /\ items[id].clock = rows[id].clock
                            /\ TextOf[items[id].blob] \in Texts
                            /\ KeyOf[items[id].blob] \in Keys
                            /\ Newer(next(id), rows[id].clock)
    BY <1>1, SnapshotIsCurrent DEF SameDigests
  <1>3. ASSUME NEW id \in Live
        PROVE  /\ SavedRow(id, new[id])
               /\ KeyOf[new[id].blob] = KeyOf[rows[id].blob]
    <2> PICK blob : blob = Sealed(TextOf[items[id].blob], KeyOf[items[id].blob], "OTC2")
      OBVIOUS
    <2>1. /\ blob \in Blobs /\ TextOf[blob] = TextOf[rows[id].blob]
          /\ KeyOf[blob] = KeyOf[rows[id].blob]
      BY <1>2, SealedMeans DEF Formats
    <2> PICK r \in Row : r = rows[id] /\ r.clock \in Clock
      BY <1>1, LiveMeans
    <2> PICK clock \in Clock : clock = next(id)
      BY <1>2, SignerBumpInClock
    <2>2. new[id] = [r EXCEPT !.clock = clock, !.blob = blob]
      BY <1>2
    <2>3. new[id] = Resaved(r, clock, blob) /\ new[id].blob = blob
      BY <2>2 DEF Row, Resaved
    <2>4. Newer(clock, r.clock)
      BY <1>2
    <2> HIDE DEF new
    <2> QED
      BY <2>1, <2>2, <2>3, <2>4 DEF SavedRow
  <1> HIDE DEF new
  <1>5. Reseal /\ \A id \in Live : rows'[id].blob = new[id].blob
    BY <1>1, <1>2, <1>3, <1>4, ResealOK
  <1> QED
    BY <1>3, <1>5

PlainStep ==
    \/ UNCHANGED <<rows, seq>> /\ nextId' \in {nextId, nextId + 1}
    \/ \E r \in Row : Insert(r)
    \/ \E id \in Ids, r \in Row : Change(id, r)

\* An admitted upload is served as the store serves any upload.
LEMMA ServeMeans ==
    ASSUME Inv, AdmissionsOK, NEW h \in Handlers, Serve(h)
    PROVE  Handle(h) /\ PlainStep
  <1>1. CASE \E a \in admitted[h] : FindUploadTarget(h, a.in)
    <2> PICK a \in admitted[h] : FindUploadTarget(h, a.in)
      BY <1>1
    <2>1. a.in \in UploadInputs
      BY DEF AdmissionsOK, Admission
    <2> QED
      BY <2>1 DEF Handle, FindUploadTarget, PlainStep
  <1>2. CASE FindWinner(h)
    BY <1>2 DEF Handle, FindWinner, PlainStep
  <1>3. CASE CreateUpload(h)
    BY <1>3, CreateTable DEF Handle, PlainStep, NoCommit
  <1>4. CASE MutateUpload(h)
    BY <1>4, MutateTable DEF Handle, PlainStep, NoCommit
  <1> QED
    BY <1>1, <1>2, <1>3, <1>4 DEF Serve

\* A request or a scan reads or saves the account.
AccountStep == \E s \in Savers : ReadAccount(s) \/ SaveAccount(s) \/ SaveFails(s)

LEMMA AccountAlone ==
    ASSUME AccountStep
    PROVE  UNCHANGED vars /\ UNCHANGED <<admitted, rewrite>>
  BY DEF AccountStep, ReadAccount, SaveAccount, SaveFails

LEMMA RotationTable ==
    ASSUME RotationInv, [RotationNext]_allVars
    PROVE  PlainStep \/ (Reseal /\ \E c \in Rewriters : Rotate(c) \/ Migrate(c))
  <1>0. Inv /\ AdmissionsOK
    BY DEF RotationInv
  <1>1. ASSUME NEW h \in Handlers, Serve(h) PROVE PlainStep
    BY <1>0, <1>1, ServeMeans
  <1>2. ASSUME NEW o \in Ops, Operate(o) PROVE PlainStep
    BY <1>0, <1>2, OperateTable DEF PlainStep
  <1>3. CASE \E c \in Rewriters : Rotate(c) \/ Migrate(c)
    BY <1>3, RotateMeans, MigrateMeans
  <1>4. ASSUME UNCHANGED <<rows, seq, nextId>> PROVE PlainStep
    BY <1>4 DEF PlainStep
  <1>5. ASSUME NEW h \in Handlers, RequestFails(h) \/ \E in \in UploadInputs : Admit(h, in)
        PROVE  PlainStep
    BY <1>4, <1>5 DEF RequestFails, Admit, vars
  <1>6. ASSUME NEW c \in Rewriters,
               RewriteFails(c) \/ \E kind \in {"rotate", "migrate"} : SendRewrite(c, kind)
        PROVE  PlainStep
    BY <1>4, <1>6 DEF RewriteFails, SendRewrite, vars
  <1>7. CASE RotationCrash \/ UNCHANGED allVars
    BY <1>4, <1>7 DEF RotationCrash, Crash, allVars, vars
  <1>8. CASE AccountStep
    BY <1>4, <1>8, AccountAlone DEF vars
  <1> QED
    BY <1>1, <1>2, <1>3, <1>5, <1>6, <1>7, <1>8 DEF RotationNext, AccountStep
-----------------------------------------------------------------------------
(***************************************************************************)
(* The store's own invariant.                                              *)
(***************************************************************************)
LEMMA ResealInv ==
    ASSUME Inv, Reseal
    PROVE  Inv'
  <1>1. ASSUME NEW id \in Ids PROVE RowOK(Clock, rows'[id])
    <2>1. rows'[id] \in Row
      BY <1>1 DEF Reseal
    <2>2. CASE id \in Live
      <3>1. /\ WellShaped(rows[id]) /\ rows[id].state \in {"active", "deleted"}
            /\ rows[id].blob \in Blobs /\ rows'[id].blob \in Blobs
            /\ rows'[id].state = rows[id].state /\ rows'[id].asset = rows[id].asset
            /\ rows'[id].deletedAt = rows[id].deletedAt
            /\ rows'[id].purgeAfter = rows[id].purgeAfter
        BY <2>2, LiveMeans DEF Inv, InvOf, RowOK, Reseal
      <3>2. NoBlob \notin Blobs
        BY NamesAssumption
      <3> QED
        BY <2>1, <3>1, <3>2 DEF RowOK, WellShaped, IsDeleted, Row
    <2>3. CASE id \notin Live
      BY <2>3 DEF Reseal, Inv, InvOf
    <2> QED
      BY <2>2, <2>3
  <1>2. RowsOK(Clock)'
    BY <1>1 DEF RowsOK, Reseal
  <1>3. HandlersOK(Clock)'
    BY HandlersKeptOK, ClosedSets DEF Reseal, Inv
  <1>4. OthersOK'
    BY DEF Reseal, OthersOK, Inv, InvOf, TypeOK
  <1> QED
    BY <1>2, <1>3, <1>4, InvParts DEF Inv

LEMMA RotationInvStep ==
    ASSUME RotationInv, [RotationNext]_allVars
    PROVE  Inv'
  <1>0. Inv /\ AdmissionsOK /\ ClosedClocks(Clock)
    BY ClosedSets DEF RotationInv
  <1>1. ASSUME NEW h \in Handlers, Serve(h) PROVE Inv'
    BY <1>0, <1>1, ServeMeans, HandleInv DEF Inv
  <1>2. ASSUME NEW o \in Ops, Operate(o) PROVE Inv'
    BY <1>0, <1>2, OperateInv DEF Inv
  <1>3. CASE \E c \in Rewriters : Rotate(c) \/ Migrate(c)
    BY <1>0, <1>3, RotateMeans, MigrateMeans, ResealInv
  <1>4. ASSUME UNCHANGED vars PROVE Inv'
    BY <1>0, <1>4 DEF vars, Inv, InvOf, TypeOK
  <1>5. ASSUME NEW h \in Handlers, RequestFails(h) PROVE Inv'
    <2>1. HandlersOK(Clock)'
      BY <1>0, <1>5, IdleOK, HandlerSetOK DEF RequestFails, Inv
    <2>2. RowsOK(Clock)'
      BY <1>0, <1>5, NoCommitOK DEF RequestFails, Inv
    <2>3. OthersOK'
      BY <1>0, <1>5 DEF RequestFails, OthersOK, Inv, InvOf, TypeOK
    <2> QED
      BY <2>1, <2>2, <2>3, InvParts DEF Inv
  <1>6. ASSUME NEW h \in Handlers, NEW in \in UploadInputs, Admit(h, in) PROVE Inv'
    BY <1>4, <1>6 DEF Admit
  <1>7. ASSUME NEW c \in Rewriters,
               RewriteFails(c) \/ \E kind \in {"rotate", "migrate"} : SendRewrite(c, kind)
        PROVE  Inv'
    BY <1>4, <1>7 DEF RewriteFails, SendRewrite
  <1>8. CASE RotationCrash
    BY <1>0, <1>8, CrashInv DEF RotationCrash, Inv
  <1>9. CASE UNCHANGED allVars \/ AccountStep
    BY <1>4, <1>9, AccountAlone DEF allVars
  <1> QED
    BY <1>1, <1>2, <1>3, <1>5, <1>6, <1>7, <1>8, <1>9 DEF RotationNext, AccountStep

\* An id that a row has was drawn.
LEMMA FreshStep ==
    ASSUME RotationInv, [RotationNext]_allVars
    PROVE  Fresh'
  <1>0. /\ nextId \in Nat /\ Ids \subseteq Nat /\ Fresh /\ Inv
    BY BoundsAssumption DEF RotationInv, Inv, InvOf, TypeOK, Ids
  <1>1. CASE UNCHANGED rows /\ nextId' \in {nextId, nextId + 1}
    BY <1>0, <1>1 DEF Fresh, Exists
  <1>2. ASSUME NEW r \in Row, Insert(r) PROVE Fresh'
    <2>1. /\ nextId \in Ids /\ nextId' = nextId + 1
          /\ \A j \in Ids \ {nextId} : rows'[j] = rows[j]
      BY <1>0, <1>2, CommitMeans DEF Insert
    <2> QED
      BY <1>0, <2>1 DEF Fresh, Exists
  <1>3. ASSUME NEW k \in Ids, NEW r \in Row, Change(k, r) PROVE Fresh'
    <2>1. Exists(k) /\ nextId' = nextId /\ \A j \in Ids \ {k} : rows'[j] = rows[j]
      BY <1>0, <1>3, CommitMeans DEF Change, Moves, Exists
    <2> QED
      BY <1>0, <2>1 DEF Fresh, Exists
  <1>4. CASE Reseal
    <2>1. \A id \in Ids : Exists(id)' <=> Exists(id)
      BY <1>4 DEF Reseal, Exists
    <2> QED
      BY <1>0, <1>4, <2>1 DEF Fresh, Reseal
  <1> QED
    BY <1>1, <1>2, <1>3, <1>4, RotationTable DEF PlainStep
-----------------------------------------------------------------------------
(***************************************************************************)
(* Keys and token versions.                                                *)
(***************************************************************************)
SameKeys == UNCHANGED <<tokenVersion, masterKey, tokens, saves, undone>>

\* Only a rotation, whose client's key is new, and saves of the account touch
\* them.
LEMMA KeysChange ==
    ASSUME RotationInv, [RotationNext]_allVars
    PROVE  \/ SameKeys
           \/ \E c \in Rewriters :
                /\ Rotate(c) /\ tokens[c] = {}
                /\ tokenVersion' = tokenVersion + 1 /\ masterKey' = c
                /\ tokens' = [tokens EXCEPT ![c] = @ \cup {tokenVersion + 1}]
                /\ UNCHANGED <<copies, saves, undone>>
           \/ \E s \in Savers : SaveAccount(s)
  <1>1. ASSUME NEW h \in Handlers,
               Serve(h) \/ RequestFails(h) \/ \E in \in UploadInputs : Admit(h, in)
        PROVE  SameKeys
    BY <1>1 DEF Serve, RequestFails, Admit, SameKeys, accountVars
  <1>2. ASSUME NEW c \in Rewriters,
               \/ RewriteFails(c) \/ Migrate(c)
               \/ \E kind \in {"rotate", "migrate"} : SendRewrite(c, kind)
        PROVE  SameKeys
    BY <1>2 DEF RewriteFails, Migrate, SendRewrite, SameKeys, accountVars
  <1>3. ASSUME NEW c \in Rewriters, Rotate(c)
        PROVE  /\ tokens[c] = {}
               /\ tokenVersion' = tokenVersion + 1 /\ masterKey' = c
               /\ tokens' = [tokens EXCEPT ![c] = @ \cup {tokenVersion + 1}]
               /\ UNCHANGED <<copies, saves, undone>>
    BY <1>3 DEF Rotate, RotationInv, RewritesOK
  <1>4. CASE RotationCrash \/ UNCHANGED allVars \/ UNCHANGED rotationVars
    BY <1>4 DEF RotationCrash, allVars, rotationVars, accountVars, SameKeys
  <1>5. ASSUME NEW s \in Savers, ReadAccount(s) \/ SaveFails(s) PROVE SameKeys
    BY <1>5 DEF ReadAccount, SaveFails, SameKeys
  <1> QED
    BY <1>1, <1>2, <1>3, <1>4, <1>5 DEF RotationNext

\* What a copy says of the account was so when it was read.
LEMMA CopiesChange ==
    ASSUME RotationInv, [RotationNext]_allVars
    PROVE  /\ copies' \in [Savers -> SUBSET Copy]
           /\ \A s \in Savers : copies'[s] \subseteq
                copies[s] \cup {[version |-> tokenVersion, key |-> masterKey]}
  <1> DEFINE read == [version |-> tokenVersion, key |-> masterKey]
  <1>0. copies \in [Savers -> SUBSET Copy] /\ read \in Copy
    BY DEF RotationInv, KeysOK, Copy
  <1> HIDE DEF read
  <1>1. ASSUME NEW S \in SUBSET Copy, NEW s \in Savers, S \subseteq {read},
               copies' = [copies EXCEPT ![s] = S]
        PROVE  /\ copies' \in [Savers -> SUBSET Copy]
               /\ \A t \in Savers : copies'[t] \subseteq copies[t] \cup {read}
    BY <1>0, <1>1
  <1>2. ASSUME UNCHANGED copies
        PROVE  /\ copies' \in [Savers -> SUBSET Copy]
               /\ \A t \in Savers : copies'[t] \subseteq copies[t] \cup {read}
    BY <1>0, <1>2
  <1>3. ASSUME NEW s \in Savers, ReadAccount(s)
        PROVE  \E S \in SUBSET Copy : S \subseteq {read} /\ copies' = [copies EXCEPT ![s] = S]
    BY <1>0, <1>3 DEF ReadAccount, read
  <1>4. ASSUME NEW s \in Savers, SaveAccount(s) \/ SaveFails(s)
        PROVE  \E S \in SUBSET Copy : S \subseteq {read} /\ copies' = [copies EXCEPT ![s] = S]
    BY <1>4 DEF SaveAccount, SaveFails
  <1>5. ASSUME NEW h \in Handlers,
               Serve(h) \/ RequestFails(h) \/ \E in \in UploadInputs : Admit(h, in)
        PROVE  UNCHANGED copies
    BY <1>5 DEF Serve, RequestFails, Admit, accountVars
  <1>6. ASSUME NEW c \in Rewriters,
               \/ Rotate(c) \/ Migrate(c) \/ RewriteFails(c)
               \/ \E kind \in {"rotate", "migrate"} : SendRewrite(c, kind)
        PROVE  UNCHANGED copies
    BY <1>6 DEF Rotate, RewriteFails, Migrate, SendRewrite, accountVars
  <1>7. ASSUME UNCHANGED allVars \/ UNCHANGED rotationVars
        PROVE  UNCHANGED copies
    BY <1>7 DEF allVars, rotationVars, accountVars
  <1> DEFINE Good == /\ copies' \in [Savers -> SUBSET Copy]
                     /\ \A t \in Savers : copies'[t] \subseteq copies[t] \cup {read}
  <1>8. ASSUME RotationCrash PROVE Good
    <2>1. copies' = [s \in Savers |-> {}]
      BY <1>8 DEF RotationCrash
    <2> QED
      BY <2>1
  <1>9. ASSUME NEW s \in Savers, ReadAccount(s) \/ SaveAccount(s) \/ SaveFails(s) PROVE Good
    BY <1>1, <1>3, <1>4, <1>9
  <1>10. ASSUME UNCHANGED copies PROVE Good
    BY <1>2, <1>10
  <1> HIDE DEF Good
  <1>11. \/ UNCHANGED copies \/ RotationCrash
         \/ \E s \in Savers : ReadAccount(s) \/ SaveAccount(s) \/ SaveFails(s)
    BY <1>5, <1>6, <1>7 DEF RotationNext
  <1>12. Good
    BY <1>8, <1>9, <1>10, <1>11
  <1> QED
    BY <1>12 DEF Good, read

\* What SaveAccount computes, whichever copy it saves.
SavedAs(key, v, S) ==
    /\ tokens[key] # {} /\ tokenVersion' = v /\ saves' \in 0..MaxSaves
    /\ undone' = (undone \/ v < tokenVersion \/ key # masterKey)
    /\ masterKey' = masterKey
    /\ masterKey \in S /\ S \subseteq {masterKey, key}
    /\ tokens' = [k \in Keys |-> IF k \in S THEN tokens[k] \cup {v} ELSE tokens[k]]

LEMMA SaveValues ==
    ASSUME KeysOK, NEW s \in Savers, SaveAccount(s)
    PROVE  \E key \in Keys, v \in Nat, S \in SUBSET Keys : SavedAs(key, v, S)
  <1> PICK copy \in copies[s], raise \in {0, 1} :
        /\ saves < MaxSaves /\ tokenVersion' = copy.version + raise
        /\ undone' = (undone \/ copy.version + raise < tokenVersion \/ copy.key # masterKey)
        /\ saves' \in {saves, saves + 1} /\ masterKey' = masterKey
        /\ tokens' = [k \in Keys |-> IF k = masterKey \/ (raise = 1 /\ k = copy.key)
                                       THEN tokens[k] \cup {copy.version + raise} ELSE tokens[k]]
    BY DEF SaveAccount
  <1> PICK v : /\ v = copy.version + raise
               /\ undone' = (undone \/ v < tokenVersion \/ copy.key # masterKey)
    BY Zenon
  <1> DEFINE S == {k \in {masterKey, copy.key} : k = masterKey \/ raise = 1}
  <1>1. /\ copy.version \in Nat /\ copy.key \in Keys /\ tokens[copy.key] # {}
        /\ saves \in 0..MaxSaves /\ MaxSaves \in Nat /\ masterKey \in Keys
    BY RotationAssumption DEF KeysOK, Copy
  <1>2. v \in Nat /\ saves' \in 0..MaxSaves
    BY <1>1
  <1>3. /\ tokens' = [k \in Keys |-> IF k \in S THEN tokens[k] \cup {v} ELSE tokens[k]]
        /\ S \subseteq {masterKey, copy.key} /\ masterKey \in S /\ S \in SUBSET Keys
    BY <1>1
  <1> HIDE DEF S
  <1>4. tokenVersion' = v /\ masterKey' = masterKey
    OBVIOUS
  <1>5. SavedAs(copy.key, v, S)
    BY <1>1, <1>2, <1>3, <1>4, Zenon DEF SavedAs
  <1> QED
    BY <1>1, <1>2, <1>3, <1>5

\* A save hands tokens to keys that had some.
LEMMA SaveMeans ==
    ASSUME KeysOK, NEW s \in Savers, SaveAccount(s)
    PROVE  /\ tokenVersion' \in Nat /\ saves' \in 0..MaxSaves /\ masterKey' = masterKey
           /\ tokens' \in [Keys -> SUBSET Nat] /\ tokenVersion' \in tokens'[masterKey]
           /\ \A k \in Keys : /\ tokens[k] \subseteq tokens'[k]
                              /\ tokens'[k] \subseteq tokens[k] \cup {tokenVersion'}
                              /\ tokens[k] = {} => tokens'[k] = {}
  <1> PICK key \in Keys, v \in Nat, S \in SUBSET Keys : SavedAs(key, v, S)
    BY SaveValues
  <1>1. /\ masterKey \in Keys /\ tokens \in [Keys -> SUBSET Nat] /\ tokens[masterKey] # {}
    BY DEF KeysOK
  <1>2. /\ tokens[key] # {} /\ tokenVersion' = v /\ saves' \in 0..MaxSaves
        /\ masterKey' = masterKey /\ masterKey \in S /\ S \subseteq {masterKey, key}
        /\ tokens' = [k \in Keys |-> IF k \in S THEN tokens[k] \cup {v} ELSE tokens[k]]
    BY Zenon DEF SavedAs
  <1> QED
    BY <1>1, <1>2

\* As long as it undoes nothing, it hands them to the master key only.
LEMMA SaveUndoes ==
    ASSUME KeysOK, NEW s \in Savers, SaveAccount(s)
    PROVE  \/ undone' = TRUE
           \/ /\ undone' = undone /\ tokenVersion' >= tokenVersion
              /\ \A k \in Keys \ {masterKey} : tokens'[k] = tokens[k]
  <1> PICK key \in Keys, v \in Nat, S \in SUBSET Keys : SavedAs(key, v, S)
    BY SaveValues
  <1>1. tokenVersion \in Nat /\ undone \in BOOLEAN
    BY DEF KeysOK
  <1>2. CASE v < tokenVersion \/ key # masterKey
    BY <1>2, Zenon DEF SavedAs
  <1>3. CASE ~(v < tokenVersion \/ key # masterKey)
    <2>1. undone' = undone
      BY <1>1, <1>3, Zenon DEF SavedAs
    <2>2. /\ tokenVersion' = v /\ S \subseteq {masterKey, key}
          /\ tokens' = [k \in Keys |-> IF k \in S THEN tokens[k] \cup {v} ELSE tokens[k]]
      BY Zenon DEF SavedAs
    <2>3. tokenVersion' >= tokenVersion /\ \A k \in Keys \ {masterKey} : tokens'[k] = tokens[k]
      BY <1>1, <1>3, <2>2
    <2> QED
      BY <2>1, <2>3
  <1> QED
    BY <1>2, <1>3, Zenon

LEMMA KeysStep ==
    ASSUME RotationInv, [RotationNext]_allVars
    PROVE  KeysOK' /\ (~undone' => ~undone)
                   /\ \A k \in Keys : tokens[k] \subseteq tokens'[k]
  <1>0. KeysOK
    BY DEF RotationInv
  <1>1. /\ tokenVersion \in Nat /\ saves \in 0..MaxSaves
        /\ masterKey \in Keys /\ undone \in BOOLEAN
        /\ tokens \in [Keys -> SUBSET Nat]
        /\ tokenVersion \in tokens[masterKey]
        /\ \A s \in Savers : \A copy \in copies[s] :
             copy.version \in tokens[copy.key] /\ copy.key \in Keys
    BY <1>0 DEF KeysOK, Copy
  <1> DEFINE Fits == /\ tokenVersion' \in Nat /\ saves' \in 0..MaxSaves
                     /\ masterKey' \in Keys /\ undone' \in BOOLEAN
                     /\ tokens' \in [Keys -> SUBSET Nat]
                     /\ tokenVersion' \in tokens'[masterKey']
             Alone == ~undone' => \A k \in Keys : \A v \in tokens'[k] :
                         v <= tokenVersion' /\ (v = tokenVersion' => k = masterKey')
             Grows == /\ ~undone' => ~undone
                      /\ \A k \in Keys : tokens[k] \subseteq tokens'[k]
  <1>2. ASSUME SameKeys PROVE Fits /\ Alone /\ Grows
    <2>1. /\ tokenVersion' = tokenVersion /\ saves' = saves /\ masterKey' = masterKey
          /\ undone' = undone /\ tokens' = tokens
      BY <1>2 DEF SameKeys
    <2>2. ~undone => \A k \in Keys : \A v \in tokens[k] :
                       v <= tokenVersion /\ (v = tokenVersion => k = masterKey)
      BY <1>0 DEF KeysOK
    <2>3. Fits
      BY <1>1, <2>1
    <2> QED
      BY <2>1, <2>2, <2>3, Zenon
  <1>3. ASSUME NEW c \in Rewriters, tokens[c] = {},
               tokenVersion' = tokenVersion + 1, masterKey' = c,
               tokens' = [tokens EXCEPT ![c] = @ \cup {tokenVersion + 1}],
               UNCHANGED <<copies, saves, undone>>
        PROVE  Fits /\ Alone /\ Grows
    <2>1. c \in Keys
      BY DEF Keys
    <2>2. /\ tokens'[c] = {tokenVersion + 1}
          /\ \A k \in Keys \ {c} : tokens'[k] = tokens[k]
          /\ tokens' \in [Keys -> SUBSET Nat]
      BY <1>1, <1>3, <2>1
    <2>3. ASSUME ~undone, NEW k \in Keys \ {c}, NEW v \in tokens[k]
          PROVE  v <= tokenVersion + 1 /\ v # tokenVersion + 1
      BY <1>0, <1>1, <2>3 DEF KeysOK
    <2>4. Alone
      BY <1>1, <1>3, <2>2, <2>3
    <2> QED
      BY <1>1, <1>3, <2>1, <2>2, <2>4
  <1>4. ASSUME NEW s \in Savers, SaveAccount(s) PROVE Fits /\ Alone /\ Grows
    <2>1. /\ tokenVersion' \in Nat /\ saves' \in 0..MaxSaves
          /\ masterKey' = masterKey
          /\ tokens' \in [Keys -> SUBSET Nat] /\ tokenVersion' \in tokens'[masterKey]
          /\ \A k \in Keys : /\ tokens[k] \subseteq tokens'[k]
                             /\ tokens'[k] \subseteq tokens[k] \cup {tokenVersion'}
      BY <1>0, <1>4, SaveMeans
    <2>2. \/ undone' = TRUE
          \/ /\ undone' = undone /\ tokenVersion' >= tokenVersion
             /\ \A k \in Keys \ {masterKey} : tokens'[k] = tokens[k]
      BY <1>0, <1>4, SaveUndoes, Zenon
    <2>3. CASE undone' = TRUE
      BY <1>1, <2>1, <2>3, Zenon
    <2>4. ASSUME undone' = undone, tokenVersion' >= tokenVersion,
                 \A k \in Keys \ {masterKey} : tokens'[k] = tokens[k]
          PROVE  Fits /\ Alone /\ Grows
      <3>1. ASSUME ~undone, NEW k \in Keys, NEW v \in tokens'[k]
            PROVE  v <= tokenVersion' /\ (v = tokenVersion' => k = masterKey)
        <4>1. \A w \in tokens[k] :
                 w \in Nat /\ w <= tokenVersion /\ (w = tokenVersion => k = masterKey)
          BY <1>0, <1>1, <3>1 DEF KeysOK
        <4>2. v \in tokens[k] \cup {tokenVersion'} /\ (k # masterKey => v \in tokens[k])
          BY <2>1, <2>4, <3>1
        <4> QED
          BY <1>1, <2>1, <2>4, <4>1, <4>2
      <3>2. masterKey' \in Keys /\ undone' \in BOOLEAN
        BY <1>1, <2>1, <2>4
      <3> QED
        BY <2>1, <2>4, <3>1, <3>2, Zenon
    <2> QED
      BY <2>2, <2>3, <2>4, Zenon
  <1> HIDE DEF Fits, Alone, Grows
  <1>5. Fits /\ Alone /\ Grows
    BY <1>2, <1>3, <1>4, KeysChange, Zenon
  <1>6. ASSUME NEW s \in Savers, NEW copy \in copies'[s]
        PROVE  copy.version \in tokens'[copy.key]
    <2>1. copy \in copies[s] \/ copy = [version |-> tokenVersion, key |-> masterKey]
      BY <1>6, CopiesChange
    <2>2. copy.key \in Keys /\ copy.version \in tokens[copy.key]
      BY <1>1, <2>1
    <2> QED
      BY <1>5, <2>2 DEF Grows
  <1>7. copies' \in [Savers -> SUBSET Copy]
    BY CopiesChange
  <1> QED
    BY <1>5, <1>6, <1>7 DEF Fits, Alone, Grows, KeysOK

\* The key that a waiting rotation brings is handed no token.
LEMMA NewKeysStay ==
    ASSUME RotationInv, [RotationNext]_allVars, NEW c \in Rewriters,
           tokens[c] = {}, ~Rotate(c)
    PROVE  tokens'[c] = {}
  <1>1. KeysOK /\ c \in Keys /\ tokens \in [Keys -> SUBSET Nat]
    BY DEF RotationInv, KeysOK, Keys
  <1>2. ASSUME SameKeys PROVE tokens'[c] = {}
    BY <1>2 DEF SameKeys
  <1>3. ASSUME NEW s \in Savers, SaveAccount(s) PROVE tokens'[c] = {}
    BY <1>1, <1>3, SaveMeans
  <1>4. ASSUME NEW d \in Rewriters, Rotate(d),
               tokens' = [tokens EXCEPT ![d] = @ \cup {tokenVersion + 1}]
        PROVE  tokens'[c] = {}
    BY <1>1, <1>4
  <1> QED
    BY <1>2, <1>3, <1>4, KeysChange, Zenon
-----------------------------------------------------------------------------
(***************************************************************************)
(* Snapshots.                                                              *)
(***************************************************************************)
LEMMA CoversStrictly ==
    ASSUME NEW a \in Clock, NEW b \in Clock, NEW c \in Clock, Newer(a, b), Covers(b, c)
    PROVE  Covers(a, c) /\ a # c
  <1>1. \A k \in Actors : a[k] \in Int /\ b[k] \in Int /\ c[k] \in Int
    BY MaxIntAssumption DEF Clock
  <1>2. (\A k \in Actors : a[k] >= b[k]) /\ \E k \in Actors : a[k] > b[k]
    BY NewerMeans
  <1> QED
    BY <1>1, <1>2 DEF Covers

\* A request may be as old as it likes: the rows it lists still exist, ahead of
\* the clocks it lists or with the text it lists.
LEMMA SnapshotStays ==
    ASSUME RotationInv, [RotationNext]_allVars, NEW items, SnapshotOK(items)
    PROVE  SnapshotOK(items)'
  <1>0. Inv /\ Inv' /\ Fresh
    BY RotationInvStep DEF RotationInv
  <1> SUFFICES ASSUME NEW id \in DOMAIN items
               PROVE  /\ Exists(id)' /\ Covers(rows'[id].clock, items[id].clock)
                      /\ rows'[id].clock = items[id].clock /\ Readable(id)'
                           => TextOf[rows'[id].blob] = TextOf[items[id].blob]
    BY DEF SnapshotOK
  <1>1. /\ id \in Ids /\ Exists(id) /\ Covers(rows[id].clock, items[id].clock)
        /\ rows[id].clock = items[id].clock /\ Readable(id)
             => TextOf[rows[id].blob] = TextOf[items[id].blob]
        /\ items[id].clock \in Clock
    BY DEF SnapshotOK, Item
  <1>2. rows[id].clock \in Clock /\ rows'[id].clock \in Clock
    BY <1>0, <1>1 DEF Inv, InvOf, TypeOK, Row
  <1>3. ASSUME rows'[id] = rows[id]
        PROVE  /\ Exists(id)' /\ Covers(rows'[id].clock, items[id].clock)
               /\ rows'[id].clock = items[id].clock /\ Readable(id)'
                    => TextOf[rows'[id].blob] = TextOf[items[id].blob]
    BY <1>1, <1>3 DEF Exists, Readable
  <1>4. ASSUME NEW r \in Row, Insert(r) PROVE rows'[id] = rows[id]
    <2>1. id # nextId
      BY <1>0, <1>1, BoundsAssumption DEF Fresh, Ids
    <2> QED
      BY <1>0, <1>1, <1>4, <2>1, CommitMeans DEF Insert
  <1>5. ASSUME NEW k \in Ids, NEW r \in Row, Change(k, r), k = id
        PROVE  /\ Exists(id)' /\ Covers(rows'[id].clock, items[id].clock)
               /\ rows'[id].clock # items[id].clock
    <2>1. rows'[id].clock = r.clock /\ rows'[id].state = r.state /\ r.state # "none"
      BY <1>0, <1>5, CommitMeans DEF Change, Moves
    <2>2. Newer(rows'[id].clock, rows[id].clock)
      BY <1>5, <2>1 DEF Change
    <2> QED
      BY <1>1, <1>2, <2>1, <2>2, CoversStrictly DEF Exists
  <1>6. ASSUME NEW k \in Ids, NEW r \in Row, Change(k, r), k # id PROVE rows'[id] = rows[id]
    BY <1>0, <1>1, <1>6, CommitMeans DEF Change
  <1>7. ASSUME Reseal, id \in Live
        PROVE  /\ Exists(id)' /\ Covers(rows'[id].clock, items[id].clock)
               /\ rows'[id].clock = items[id].clock
                    => TextOf[rows'[id].blob] = TextOf[items[id].blob]
    <2>1. /\ rows'[id].state = rows[id].state
          /\ TextOf[rows'[id].blob] = TextOf[rows[id].blob]
          /\ rows'[id].clock = rows[id].clock \/ Newer(rows'[id].clock, rows[id].clock)
      BY <1>7 DEF Reseal
    <2>2. Readable(id)
      BY <1>7, <1>0, LiveMeans
    <2> QED
      BY <1>1, <1>2, <2>1, <2>2, CoversStrictly DEF Exists
  <1>8. ASSUME Reseal, id \notin Live PROVE rows'[id] = rows[id]
    BY <1>1, <1>8 DEF Reseal
  <1> QED
    BY <1>1, <1>3, <1>4, <1>5, <1>6, <1>7, <1>8, RotationTable DEF PlainStep

LEMMA NoItemsOK == SnapshotOK(NoRewrite.items)
  BY DEF SnapshotOK, NoRewrite

LEMMA NoItemsOKNext == SnapshotOK(NoRewrite.items)'
  BY DEF SnapshotOK, NoRewrite

\* A client's request stays as it was sent, ends, or is sent now.
LEMMA RewriteChanges ==
    ASSUME RewritesOK, [RotationNext]_allVars
    PROVE  /\ DOMAIN rewrite' = Rewriters
           /\ \A c \in Rewriters :
                \/ rewrite'[c] = rewrite[c] \/ rewrite'[c] = NoRewrite
                \/ \E kind \in {"rotate", "migrate"} : SendRewrite(c, kind)
  <1>0. DOMAIN rewrite = Rewriters
    BY DEF RewritesOK
  <1>1. ASSUME UNCHANGED rewrite
        PROVE  DOMAIN rewrite' = Rewriters /\ \A c \in Rewriters : rewrite'[c] = rewrite[c]
    BY <1>0, <1>1
  <1>2. ASSUME NEW d \in Rewriters, NEW w, rewrite' = [rewrite EXCEPT ![d] = w]
        PROVE  /\ DOMAIN rewrite' = Rewriters
               /\ \A c \in Rewriters \ {d} : rewrite'[c] = rewrite[c]
               /\ rewrite'[d] = w
    BY <1>0, <1>2
  <1>3. ASSUME NEW d \in Rewriters, Rotate(d) \/ Migrate(d) \/ RewriteFails(d)
        PROVE  rewrite' = [rewrite EXCEPT ![d] = NoRewrite]
    BY <1>3 DEF Rotate, Migrate, RewriteFails
  <1>4. ASSUME NEW d \in Rewriters, NEW kind \in {"rotate", "migrate"}, SendRewrite(d, kind)
        PROVE  \E w : rewrite' = [rewrite EXCEPT ![d] = w]
    BY <1>4 DEF SendRewrite
  <1>5. ASSUME NEW h \in Handlers,
               Serve(h) \/ RequestFails(h) \/ \E in \in UploadInputs : Admit(h, in)
        PROVE  UNCHANGED rewrite
    BY <1>5 DEF Serve, RequestFails, Admit
  <1>6. CASE UNCHANGED allVars \/ UNCHANGED rotationVars \/ AccountStep
    BY <1>1, <1>6, AccountAlone DEF allVars, rotationVars
  <1>7. CASE RotationCrash
    BY <1>7 DEF RotationCrash
  <1>8. CASE \E d \in Rewriters : Rotate(d) \/ Migrate(d) \/ RewriteFails(d)
    BY <1>2, <1>3, <1>8
  <1>9. CASE \E d \in Rewriters : \E kind \in {"rotate", "migrate"} : SendRewrite(d, kind)
    BY <1>2, <1>4, <1>9
  <1> QED
    BY <1>1, <1>5, <1>6, <1>7, <1>8, <1>9 DEF RotationNext, AccountStep

LEMMA RewritesStep ==
    ASSUME RotationInv, [RotationNext]_allVars
    PROVE  RewritesOK'
  <1>0. Inv /\ RewritesOK /\ KeysOK
    BY DEF RotationInv
  <1> DEFINE FitsNext(c) == /\ rewrite'[c].kind \in {"none", "rotate", "migrate"}
                            /\ rewrite'[c].kind = "rotate" => tokens'[c] = {}
                            /\ SnapshotOK(rewrite[c].items)'
  <1>1. ASSUME NEW c \in Rewriters, rewrite'[c] = NoRewrite PROVE FitsNext(c)
    <2>1. rewrite'[c].kind = "none" /\ rewrite'[c].items = NoRewrite.items
      BY <1>1 DEF NoRewrite
    <2> QED
      BY <2>1, NoItemsOKNext
  <1>2. ASSUME NEW c \in Rewriters, rewrite'[c] = rewrite[c], rewrite'[c] # NoRewrite
        PROVE  FitsNext(c)
    <2> PICK items : items = rewrite[c].items
      OBVIOUS
    <2>1. SnapshotOK(items)'
      BY <1>0, SnapshotStays DEF RewritesOK
    <2>2. SnapshotOK(rewrite[c].items)'
      BY <1>2, <2>1
    <2>3. ASSUME rewrite[c].kind = "rotate" PROVE tokens'[c] = {}
      <3>1. tokens[c] = {}
        BY <1>0, <2>3 DEF RewritesOK
      <3>2. ~Rotate(c)
        BY <1>0, <1>2 DEF Rotate, RewritesOK
      <3> QED
        BY <3>1, <3>2, NewKeysStay
    <2> QED
      BY <1>0, <1>2, <2>2, <2>3 DEF RewritesOK
  <1>3. ASSUME NEW c \in Rewriters, NEW kind \in {"rotate", "migrate"}, SendRewrite(c, kind)
        PROVE  FitsNext(c)
    <2> DEFINE items == [id \in Live |-> [clock |-> rows[id].clock, blob |-> rows[id].blob]]
    <2>1. /\ rewrite'[c] = [kind |-> kind, items |-> items]
          /\ kind = "rotate" => tokens[c] = {}
          /\ UNCHANGED <<rows, tokens>>
      BY <1>0, <1>3 DEF SendRewrite, RewritesOK, vars, accountVars
    <2>2. DOMAIN items = Live /\ Live \subseteq Ids
      BY DEF Live
    <2>3. ASSUME NEW id \in Live
          PROVE  /\ items[id] \in Item /\ Exists(id)
                 /\ items[id].clock = rows[id].clock /\ items[id].blob = rows[id].blob
                 /\ Covers(rows[id].clock, items[id].clock)
      <3>1. rows[id].clock \in Clock /\ rows[id].blob \in Blobs /\ Exists(id)
        BY <1>0, LiveMeans
      <3>2. \A k \in Actors : rows[id].clock[k] >= rows[id].clock[k]
        BY <3>1, MaxIntAssumption DEF Clock
      <3> QED
        BY <3>1, <3>2 DEF Item, Covers
    <2> HIDE DEF items
    <2> PICK its : its = items
      OBVIOUS
    <2>4. SnapshotOK(its)
      BY <2>2, <2>3 DEF SnapshotOK
    <2>5. SnapshotOK(its)'
      BY <2>1, <2>4 DEF SnapshotOK, Exists, Readable
    <2>6. rewrite'[c].items = its /\ rewrite'[c].kind = kind
      BY <2>1
    <2>7. SnapshotOK(rewrite[c].items)'
      BY <2>5, <2>6
    <2> QED
      BY <2>1, <2>6, <2>7
  <1> HIDE DEF FitsNext
  <1>4. DOMAIN rewrite' = Rewriters /\ \A c \in Rewriters : FitsNext(c)
    BY <1>0, <1>1, <1>2, <1>3, RewriteChanges
  <1> QED
    BY <1>4 DEF FitsNext, RewritesOK
-----------------------------------------------------------------------------
(***************************************************************************)
(* Admissions.                                                             *)
(***************************************************************************)
\* Whatever a handler decides about an upload, it carries the upload's
\* ciphertext.
Carries(s, in) == s.at # "idle" => s.in.blob = in.blob

LEMMA DispatchCarries ==
    ASSUME NEW in \in KeptUpload, NEW id, NEW r
    PROVE  Carries(Dispatch(in, id, r), in)
  <1>1. Carries(Idle, in)
    BY DEF Carries, Idle
  <1>2. ASSUME NEW step, NEW k, NEW w PROVE Carries(At(step, in, k, w), in)
    BY DEF Carries, At
  <1>3. ASSUME NEW step, NEW a, NEW k, NEW w
        PROVE  Carries(At(step, [in EXCEPT !.asset = a], k, w), in)
    BY DEF Carries, At, KeptUpload
  <1>4. Carries(LegacyDecision(in, id, r), in)
    BY <1>1, <1>2 DEF LegacyDecision
  <1> HIDE DEF Carries
  <1> QED
    BY <1>1, <1>2, <1>3, <1>4, Zenon DEF Dispatch

LEMMA ServeCarries ==
    ASSUME RotationInv, NEW h \in Handlers, Serve(h)
    PROVE  /\ \A g \in Handlers \ {h} : handler'[g] = handler[g]
           /\ handler'[h].at # "idle" =>
                \E a \in admitted[h] : a.in.blob = handler'[h].in.blob
           /\ handler[h].at # "idle" => \E a \in admitted[h] : a.in.blob = handler[h].in.blob
  <1>0. /\ handler \in [Handlers -> HandlerState] /\ handler[h] \in HandlerState
        /\ admitted[h] \in SUBSET Admission /\ AdmissionOK(h)
    BY DEF RotationInv, Inv, InvOf, TypeOK, AdmissionsOK
  <1>1. ASSUME NEW s, handler' = [handler EXCEPT ![h] = s],
               s.at # "idle" => \E a \in admitted[h] : a.in.blob = s.in.blob
        PROVE  /\ \A g \in Handlers \ {h} : handler'[g] = handler[g]
               /\ handler'[h].at # "idle" =>
                    \E a \in admitted[h] : a.in.blob = handler'[h].in.blob
    BY <1>0, <1>1
  <1>2. handler[h].at # "idle" => \E a \in admitted[h] : a.in.blob = handler[h].in.blob
    BY <1>0 DEF AdmissionOK
  <1>3. Idle.at = "idle"
    BY DEF Idle
  <1>4. ASSUME NEW a \in admitted[h], FindUploadTarget(h, a.in)
        PROVE  \E s : /\ handler' = [handler EXCEPT ![h] = s]
                      /\ s.at # "idle" => a.in.blob = s.in.blob
    <2>1. a.in \in KeptUpload
      BY <1>0, UploadInputKept, ClosedSets DEF Admission
    <2>2. Carries(At("create", a.in, 0, NoRow), a.in)
      BY DEF Carries, At
    <2>3. \E s : handler' = [handler EXCEPT ![h] = s] /\ Carries(s, a.in)
      BY <1>4, <2>1, <2>2, DispatchCarries DEF FindUploadTarget
    <2> QED
      BY <2>3 DEF Carries
  <1>5. ASSUME FindWinner(h)
        PROVE  \E s : /\ handler' = [handler EXCEPT ![h] = s]
                      /\ s.at # "idle" => handler[h].in.blob = s.in.blob
    <2>1. handler[h].in \in KeptUpload
      BY <1>0 DEF HandlerState, KeptUpload
    <2>2. Carries(Idle, handler[h].in)
      BY DEF Carries, Idle
    <2>3. \E s : handler' = [handler EXCEPT ![h] = s] /\ Carries(s, handler[h].in)
      BY <1>5, <2>1, <2>2, DispatchCarries DEF FindWinner
    <2> QED
      BY <2>3 DEF Carries
  <1>6. ASSUME CreateUpload(h)
        PROVE  \E s : /\ handler' = [handler EXCEPT ![h] = s]
                      /\ s.at # "idle" => handler[h].in.blob = s.in.blob
    <2>1. [handler[h] EXCEPT !.at = "winner"].in = handler[h].in
      BY <1>0 DEF HandlerState
    <2>2. \/ handler' = [handler EXCEPT ![h] = Idle]
          \/ handler' = [handler EXCEPT ![h] = [handler[h] EXCEPT !.at = "winner"]]
      BY <1>0, <1>6 DEF CreateUpload
    <2> QED
      BY <1>3, <2>1, <2>2
  <1>7. ASSUME MutateUpload(h) PROVE handler' = [handler EXCEPT ![h] = Idle]
    BY <1>7 DEF MutateUpload
  <1>8. \E s : /\ handler' = [handler EXCEPT ![h] = s]
               /\ s.at # "idle" => \E a \in admitted[h] : a.in.blob = s.in.blob
    <2>1. CASE \E a \in admitted[h] : FindUploadTarget(h, a.in)
      BY <1>4, <2>1
    <2>2. CASE FindWinner(h)
      <3>1. handler[h].at # "idle"
        BY <2>2 DEF FindWinner
      <3> QED
        BY <1>2, <1>5, <2>2, <3>1
    <2>3. CASE CreateUpload(h)
      <3>1. handler[h].at # "idle"
        BY <2>3 DEF CreateUpload
      <3> QED
        BY <1>2, <1>6, <2>3, <3>1
    <2>4. CASE MutateUpload(h)
      BY <1>3, <1>7, <2>4
    <2> QED
      BY <2>1, <2>2, <2>3, <2>4 DEF Serve
  <1> QED
    BY <1>1, <1>2, <1>8

LEMMA AdmissionsStep ==
    ASSUME RotationInv, [RotationNext]_allVars
    PROVE  AdmissionsOK'
  <1>0. /\ AdmissionsOK /\ admitted \in [Handlers -> SUBSET Admission]
        /\ handler \in [Handlers -> HandlerState]
        /\ KeysOK /\ (~undone' => ~undone)
    BY KeysStep DEF RotationInv, AdmissionsOK, Inv, InvOf, TypeOK
  <1> DEFINE Backed(h, s, as) == s.at # "idle" => \E a \in as : a.in.blob = s.in.blob
  <1>1. ASSUME NEW h \in Handlers, NEW as \in SUBSET Admission, as \subseteq admitted[h],
               admitted'[h] = as, Backed(h, handler'[h], as)
        PROVE  AdmissionOK(h)'
    <2>1. ASSUME ~undone', NEW a \in as PROVE KeyOf[a.in.blob] = a.under
      BY <1>0, <1>1, <2>1 DEF AdmissionsOK, AdmissionOK
    <2> QED
      BY <1>1, <2>1 DEF AdmissionOK
  <1>2. ASSUME NEW h \in Handlers PROVE Backed(h, handler[h], admitted[h])
    BY <1>0 DEF AdmissionsOK, AdmissionOK
  <1>3. Idle.at = "idle"
    BY DEF Idle
  <1>4. ASSUME UNCHANGED <<handler, admitted>> PROVE AdmissionsOK'
    <2>1. \A h \in Handlers : AdmissionOK(h)'
      BY <1>0, <1>1, <1>2, <1>4
    <2> QED
      BY <1>0, <1>4, <2>1 DEF AdmissionsOK
  <1>5. ASSUME NEW h \in Handlers, NEW as \in SUBSET Admission, as \subseteq admitted[h],
               admitted' = [admitted EXCEPT ![h] = as],
               \A g \in Handlers \ {h} : handler'[g] = handler[g],
               Backed(h, handler'[h], as)
        PROVE  AdmissionsOK'
    <2>1. admitted' \in [Handlers -> SUBSET Admission]
      BY <1>0, <1>5
    <2>2. AdmissionOK(h)'
      BY <1>0, <1>1, <1>5
    <2>3. ASSUME NEW g \in Handlers \ {h} PROVE AdmissionOK(g)'
      <3>1. admitted'[g] = admitted[g] /\ admitted[g] \in SUBSET Admission
        BY <1>0, <1>5
      <3> QED
        BY <1>1, <1>2, <1>5, <3>1
    <2> QED
      BY <2>1, <2>2, <2>3 DEF AdmissionsOK
  <1>6. ASSUME NEW h \in Handlers, NEW in \in UploadInputs, Admit(h, in) PROVE AdmissionsOK'
    <2> DEFINE token == [in |-> in, under |-> masterKey]
    <2>1. token \in Admission /\ (~undone => KeyOf[token.in.blob] = token.under)
      <3>1. tokenVersion \in tokens[KeyOf[in.blob]]
        BY <1>6 DEF Admit, TokenCurrent
      <3>2. masterKey \in Keys /\ KeyOf[in.blob] \in Keys
        BY <1>0, OpenedMeans, InputsAssumption DEF KeysOK, Upload
      <3> QED
        BY <1>0, <3>1, <3>2 DEF KeysOK, Admission
    <2>2. admitted' = [admitted EXCEPT ![h] = {token}] /\ UNCHANGED handler /\ handler[h].at = "idle"
      BY <1>6 DEF Admit, vars
    <2> HIDE DEF token
    <2>3. admitted' \in [Handlers -> SUBSET Admission]
      BY <1>0, <2>1, <2>2
    <2>4. AdmissionOK(h)'
      BY <1>0, <2>1, <2>2 DEF AdmissionOK
    <2>5. ASSUME NEW g \in Handlers \ {h} PROVE AdmissionOK(g)'
      <3>1. admitted'[g] = admitted[g] /\ admitted[g] \in SUBSET Admission
        BY <1>0, <2>2
      <3> QED
        BY <1>1, <1>2, <2>2, <3>1
    <2> QED
      BY <2>3, <2>4, <2>5 DEF AdmissionsOK
  <1>7. ASSUME NEW h \in Handlers, Serve(h) PROVE AdmissionsOK'
    <2>1. /\ \A g \in Handlers \ {h} : handler'[g] = handler[g]
          /\ Backed(h, handler'[h], admitted[h])
      BY <1>7, ServeCarries
    <2>2. admitted' = [admitted EXCEPT ![h] = IF handler'[h].at = "idle" THEN {} ELSE admitted[h]]
      BY <1>7 DEF Serve
    <2> PICK as : as = IF handler'[h].at = "idle" THEN {} ELSE admitted[h]
      OBVIOUS
    <2>3. /\ as \in SUBSET Admission /\ as \subseteq admitted[h]
          /\ Backed(h, handler'[h], as)
      BY <1>0, <2>1
    <2>4. admitted' = [admitted EXCEPT ![h] = as]
      BY <2>2
    <2> QED
      BY <1>5, <2>1, <2>3, <2>4
  <1>8. ASSUME NEW h \in Handlers, RequestFails(h) PROVE AdmissionsOK'
    <2>1. /\ admitted' = [admitted EXCEPT ![h] = {}]
          /\ handler' = [handler EXCEPT ![h] = Idle]
      BY <1>8 DEF RequestFails
    <2>2. handler'[h] = Idle /\ \A g \in Handlers \ {h} : handler'[g] = handler[g]
      BY <1>0, <2>1
    <2> PICK as : as = {}
      OBVIOUS
    <2>3. /\ as \in SUBSET Admission /\ as \subseteq admitted[h]
          /\ Backed(h, handler'[h], as) /\ admitted' = [admitted EXCEPT ![h] = as]
      BY <1>3, <2>1, <2>2
    <2> QED
      BY <1>5, <2>2, <2>3
  <1>9. CASE RotationCrash
    <2>1. \A h \in Handlers : admitted'[h] = {} /\ handler'[h].at = "idle"
      BY <1>3, <1>9 DEF RotationCrash, Crash
    <2> QED
      BY <1>9, <2>1 DEF AdmissionsOK, AdmissionOK, RotationCrash
  <1>10. ASSUME NEW c \in Rewriters,
                \/ Rotate(c) \/ Migrate(c) \/ RewriteFails(c)
                \/ \E kind \in {"rotate", "migrate"} : SendRewrite(c, kind)
         PROVE  UNCHANGED <<handler, admitted>>
    BY <1>10 DEF Rotate, Migrate, RewriteFails, SendRewrite, vars
  <1>11. ASSUME NEW o \in Ops, Operate(o), UNCHANGED rotationVars
         PROVE  UNCHANGED <<handler, admitted>>
    BY <1>11 DEF Operate, DeleteAsset, RestoreAsset, PurgeAsset, Apply, rotationVars
  <1>12. CASE UNCHANGED allVars \/ AccountStep
    BY <1>4, <1>12, AccountAlone DEF allVars, vars, rotationVars
  <1> QED
    BY <1>4, <1>6, <1>7, <1>8, <1>9, <1>10, <1>11, <1>12 DEF RotationNext, AccountStep
-----------------------------------------------------------------------------
(***************************************************************************)
(* The whole.                                                              *)
(***************************************************************************)
LEMMA RotationInitInv == RotationInit => RotationInv
  <1> SUFFICES ASSUME RotationInit PROVE RotationInv
    OBVIOUS
  <1>0. Init
    BY DEF RotationInit
  <1>1. Inv
    BY <1>0, InitInv, ClosedSets DEF Inv
  <1>2. KeysOK
    <2>1. /\ FirstKey \in Keys /\ tokenVersion = 0 /\ masterKey = FirstKey
          /\ saves = 0 /\ undone = FALSE
          /\ tokens = [k \in Keys |-> IF k = FirstKey THEN {0} ELSE {}]
          /\ copies = [s \in Savers |-> {}]
      BY DEF RotationInit, Keys
    <2>2. saves \in 0..MaxSaves
      BY <2>1, RotationAssumption
    <2>3. tokenVersion \in tokens[masterKey] /\ tokens \in [Keys -> SUBSET Nat]
      BY <2>1
    <2>4. \A k \in Keys : \A v \in tokens[k] :
             v <= tokenVersion /\ (v = tokenVersion => k = masterKey)
      BY <2>1
    <2>5. undone \in BOOLEAN /\ copies \in [Savers -> SUBSET Copy]
      BY <2>1
    <2>6. \A s \in Savers : copies[s] = {}
      BY <2>1
    <2>7. tokenVersion \in Nat /\ masterKey \in Keys
      BY <2>1
    <2> HIDE <2>1
    <2> QED
      BY <2>2, <2>3, <2>4, <2>5, <2>6, <2>7, Zenon DEF KeysOK
  <1>3. RewritesOK
    <2>1. \A c \in Rewriters : rewrite[c] = NoRewrite
      BY DEF RotationInit
    <2>2. NoRewrite.kind = "none"
      BY DEF NoRewrite
    <2> QED
      BY <2>1, <2>2, NoItemsOK DEF RewritesOK, RotationInit
  <1>4. AdmissionsOK
    BY <1>0 DEF AdmissionsOK, AdmissionOK, RotationInit, Init, Idle
  <1>5. Fresh
    BY <1>0, BoundsAssumption DEF Fresh, Init, Exists, NoRow, Ids
  <1> QED
    BY <1>1, <1>2, <1>3, <1>4, <1>5 DEF RotationInv

LEMMA RotationNextInv == RotationInv /\ [RotationNext]_allVars => RotationInv'
  BY RotationInvStep, KeysStep, RewritesStep, AdmissionsStep, FreshStep DEF RotationInv

\* Snapshots and admissions that are used long after they were taken stay tied
\* to the rows and the keys as they are.
THEOREM RotationInvariance == RotationSpec => []RotationInv
  BY RotationInitInv, RotationNextInv, PTL DEF RotationSpec

\* Every value stays of its type; in particular snapshots list real rows and
\* the versions in tokens and in copies of the account are token versions.
THEOREM RotationTypes == RotationSpec => []RotationTypeOK
  <1>1. RotationInv => RotationTypeOK
    <2> SUFFICES ASSUME RotationInv PROVE RotationTypeOK
      OBVIOUS
    <2>1. TypeOK
      BY DEF RotationInv, Inv, InvOf
    <2> QED
      BY <2>1 DEF RotationTypeOK, RotationInv, KeysOK, RewritesOK, SnapshotOK, AdmissionsOK
  <1> QED
    BY <1>1, RotationInvariance, PTL
-----------------------------------------------------------------------------
(***************************************************************************)
(* The revisions and the clocks of re-encrypted rows.                      *)
(***************************************************************************)
LEMMA PlainIsTableStep ==
    ASSUME PlainStep
    PROVE  TableStep
  BY DEF PlainStep, TableStep

LEMMA ResealRevisions ==
    ASSUME Inv, Reseal, RevisionsDistinct
    PROVE  RevisionsDistinct'
  <1>0. seq \in Nat /\ seq' \in Nat /\ seq' >= seq
    BY DEF Inv, InvOf, TypeOK, Reseal
  <1>1. ASSUME NEW i \in Ids, i \in Live
        PROVE  /\ rows'[i].rev \in (seq + 1)..seq'
               /\ \A j \in Live \ {i} : rows'[j].rev # rows'[i].rev
    BY <1>1 DEF Reseal
  <1>2. ASSUME NEW i \in Ids \ Live, Exists(i)'
        PROVE  /\ rows'[i].rev \in 1..seq
               /\ \A j \in (Ids \ Live) \ {i} : Exists(j)' => rows'[j].rev # rows'[i].rev
    <2>1. \A j \in Ids \ Live : rows'[j] = rows[j]
      BY DEF Reseal
    <2> QED
      BY <1>2, <2>1 DEF RevisionsDistinct, Exists
  <1> SUFFICES ASSUME NEW i \in Ids, Exists(i)'
               PROVE  /\ rows'[i].rev \in 1..seq'
                      /\ \A j \in Ids \ {i} : Exists(j)' => rows'[i].rev # rows'[j].rev
    BY DEF RevisionsDistinct
  <1>3. CASE i \in Live
    <2>1. rows'[i].rev \in 1..seq' /\ rows'[i].rev > seq
      BY <1>0, <1>1, <1>3
    <2>2. \A j \in Ids \ Live : Exists(j)' => rows'[i].rev # rows'[j].rev
      BY <1>0, <1>2, <2>1
    <2> QED
      BY <1>1, <1>3, <2>1, <2>2
  <1>4. CASE i \notin Live
    <2>1. rows'[i].rev \in 1..seq' /\ rows'[i].rev <= seq
      BY <1>0, <1>2, <1>4
    <2>2. \A j \in Live : rows'[i].rev # rows'[j].rev
      <3> TAKE j \in Live
      <3>1. rows'[j].rev \in (seq + 1)..seq'
        BY <1>1 DEF Live
      <3> QED
        BY <1>0, <2>1, <3>1
    <2> QED
      BY <1>2, <1>4, <2>1, <2>2
  <1> QED
    BY <1>3, <1>4

\* A rotation gives every row a revision of its own, so a pull misses none of
\* the rows that it re-encrypted.
THEOREM RotationRevisionsOrderRows == RotationSpec => []RevisionsDistinct
  <1>1. RotationInit => RevisionsDistinct
    BY InitUnique DEF RotationInit
  <1>2. RotationInv /\ RevisionsDistinct /\ [RotationNext]_allVars => RevisionsDistinct'
    BY RotationTable, PlainIsTableStep, RevisionsStep, ResealRevisions DEF RotationInv
  <1> QED
    BY <1>1, <1>2, RotationInvariance, PTL DEF RotationSpec

\* The re-encrypted rows keep their assets.
THEOREM RotationKeepsOneRow == RotationSpec => []OneRowPerAsset
  <1>1. RotationInit => OneRowPerAsset
    BY InitUnique DEF RotationInit
  <1>2. ASSUME Reseal, OneRowPerAsset PROVE OneRowPerAsset'
    <2>1. ASSUME NEW id \in Ids, NEW a PROVE Holds(id, a)' <=> Holds(id, a)
      BY <1>2 DEF Reseal, Holds, Exists
    <2> QED
      BY <1>2, <2>1 DEF OneRowPerAsset
  <1>3. RotationInv /\ OneRowPerAsset /\ [RotationNext]_allVars => OneRowPerAsset'
    BY <1>2, RotationTable, PlainIsTableStep, OneRowStep DEF RotationInv
  <1> QED
    BY <1>1, <1>3, RotationInvariance, PTL DEF RotationSpec

LEMMA RotationForwardStep ==
    ASSUME RotationInv, [RotationNext]_allVars, NEW id \in Ids, Exists(id)
    PROVE  /\ Exists(id)'
           /\ rows'[id].clock = rows[id].clock \/ Newer(rows'[id].clock, rows[id].clock)
  <1>0. Inv /\ Fresh
    BY DEF RotationInv
  <1>1. ASSUME NEW r \in Row, Insert(r) PROVE rows'[id] = rows[id]
    <2>1. id # nextId
      BY <1>0, BoundsAssumption DEF Fresh, Ids
    <2> QED
      BY <1>0, <1>1, <2>1, CommitMeans DEF Insert
  <1>2. ASSUME NEW k \in Ids, NEW r \in Row, Change(k, r)
        PROVE  \/ rows'[id] = rows[id]
               \/ Newer(rows'[id].clock, rows[id].clock) /\ rows'[id].state # "none"
    BY <1>0, <1>2, CommitMeans DEF Change, Moves
  <1>3. CASE Reseal
    BY <1>3 DEF Reseal, Exists
  <1> QED
    BY <1>1, <1>2, <1>3, RotationTable DEF PlainStep, Exists

\* Rotations and migrations, too, take no row back to an older or a concurrent
\* clock - also when the migrating actor's counter is at the end of its range.
THEOREM RotationClocksForward == RotationSpec => ClockForward
  <1>1. RotationInv /\ [RotationNext]_allVars => [\A id \in Ids :
             Exists(id) /\ rows'[id].state # "none" =>
                rows'[id].clock = rows[id].clock \/ Newer(rows'[id].clock, rows[id].clock)]_vars
    BY RotationForwardStep
  <1> QED
    BY <1>1, RotationInvariance, PTL DEF RotationSpec, ClockForward
-----------------------------------------------------------------------------
(***************************************************************************)
(* Contents and keys.                                                      *)
(***************************************************************************)
LEMMA ResealKeepsContent ==
    ASSUME Inv, Reseal, NEW id \in Ids
    PROVE  /\ rows'[id].state = rows[id].state
           /\ Readable(id) => TextOf[rows'[id].blob] = TextOf[rows[id].blob]
  <1>1. CASE id \in Live
    BY <1>1 DEF Reseal
  <1>2. CASE id \notin Live
    BY <1>2 DEF Reseal
  <1> QED
    BY <1>1, <1>2

\* Re-encryption is invisible to whoever reads the plaintext.
THEOREM ReencryptionIsInvisible == RotationSpec => ReencryptionKeepsContent
  <1>1. RotationInv /\ [RotationNext]_allVars =>
          [\A c \in Rewriters : Rotate(c) \/ Migrate(c) =>
             \A id \in Ids : /\ rows'[id].state = rows[id].state
                             /\ Readable(id) => TextOf[rows'[id].blob] = TextOf[rows[id].blob]]_allVars
    BY RotateMeans, MigrateMeans, ResealKeepsContent DEF RotationInv
  <1> QED
    BY <1>1, RotationInvariance, PTL DEF RotationSpec, ReencryptionKeepsContent

\* A migration that was built before a rotation does not bring the old master
\* key back.
THEOREM MigrationsKeepKeys == RotationSpec => MigrationKeepsKey
  <1>1. RotationInv /\ [RotationNext]_allVars =>
          [\A c \in Rewriters : Migrate(c) =>
             \A id \in Live : KeyOf[rows'[id].blob] = KeyOf[rows[id].blob]]_allVars
    BY MigrateMeans
  <1> QED
    BY <1>1, RotationInvariance, PTL DEF RotationSpec, MigrationKeepsKey

LEMMA CoverStep ==
    ASSUME RotationInv, [RotationNext]_allVars, Rotated, NEW id \in Ids, Readable(id)'
    PROVE  KeyOf[rows'[id].blob] = masterKey'
  <1>1. KeysOK
    BY DEF RotationInv
  <1>2. PICK c \in Rewriters : Rotate(c) /\ masterKey' = c
    BY <1>1, KeysChange, SaveMeans DEF Rotated, SameKeys
  <1>3. Reseal /\ \A i \in Live : KeyOf[rows'[i].blob] = c
    BY <1>2, RotateMeans
  <1>4. id \in Live
    <2>1. rows'[id].state = rows[id].state
      BY <1>3, ResealKeepsContent DEF RotationInv
    <2> QED
      BY <2>1 DEF Readable, Live
  <1> QED
    BY <1>2, <1>3, <1>4

\* A rotation leaves no recoverable row behind under a former key: its snapshot
\* may be old, but it is applied to all the rows there are.
THEOREM RotationsCoverAll == RotationSpec => RotationCoversAll
  <1>1. RotationInv /\ [RotationNext]_allVars =>
          [Rotated => \A id \in Ids :
             (Readable(id))' => KeyOf[rows'[id].blob] = masterKey']_allVars
    BY CoverStep
  <1> QED
    BY <1>1, RotationInvariance, PTL DEF RotationSpec, RotationCoversAll

\* A handler that has become free has spent its admission.
LEMMA FreedSpends ==
    ASSUME RotationInv, [RotationNext]_allVars, NEW h \in Handlers,
           handler[h].at # "idle", handler'[h].at = "idle"
    PROVE  admitted'[h] = {}
  <1>0. /\ admitted \in [Handlers -> SUBSET Admission]
        /\ handler \in [Handlers -> HandlerState]
    BY DEF RotationInv, AdmissionsOK, Inv, InvOf, TypeOK
  <1>1. handler'[h] # handler[h]
    OBVIOUS
  <1>2. ASSUME NEW g \in Handlers, Serve(g) PROVE admitted'[h] = {}
    <2>1. g = h
      BY <1>1, <1>2, ServeCarries
    <2> QED
      BY <1>0, <1>2, <2>1 DEF Serve
  <1>3. ASSUME NEW g \in Handlers, RequestFails(g) PROVE admitted'[h] = {}
    <2>1. g = h
      BY <1>0, <1>1, <1>3 DEF RequestFails
    <2> QED
      BY <1>0, <1>3, <2>1 DEF RequestFails
  <1>4. ASSUME NEW g \in Handlers, NEW in \in UploadInputs, Admit(g, in) PROVE FALSE
    BY <1>1, <1>4 DEF Admit, vars
  <1>5. ASSUME NEW c \in Rewriters,
                \/ Rotate(c) \/ Migrate(c) \/ RewriteFails(c)
                \/ \E kind \in {"rotate", "migrate"} : SendRewrite(c, kind)
         PROVE  FALSE
    BY <1>1, <1>5 DEF Rotate, Migrate, RewriteFails, SendRewrite, vars
  <1>6. ASSUME NEW o \in Ops, Operate(o) PROVE FALSE
    BY <1>1, <1>6 DEF Operate, DeleteAsset, RestoreAsset, PurgeAsset, Apply
  <1>7. CASE RotationCrash
    BY <1>7 DEF RotationCrash
  <1>8. CASE UNCHANGED allVars
    BY <1>1, <1>8 DEF allVars, vars
  <1>9. CASE AccountStep
    BY <1>1, <1>9, AccountAlone DEF vars
  <1> QED
    BY <1>2, <1>3, <1>4, <1>5, <1>6, <1>7, <1>8, <1>9 DEF RotationNext, AccountStep

LEMMA FenceStep ==
    ASSUME RotationInv, [RotationNext]_allVars, ~undone, NEW id \in Ids,
           Content(id)' \notin {Content(id), <<>>}, KeyOf[rows'[id].blob] # masterKey'
    PROVE  \E h \in Handlers : /\ \E a \in admitted[h] : a.under # masterKey
                               /\ admitted'[h] = {}
  <1>0. Inv /\ KeysOK
    BY DEF RotationInv
  <1>1. Readable(id)'
    BY DEF Content
  <1>2. ~ /\ Readable(id)
          /\ TextOf[rows'[id].blob] = TextOf[rows[id].blob]
          /\ KeyOf[rows'[id].blob] = KeyOf[rows[id].blob]
    <2> SUFFICES ASSUME Readable(id), TextOf[rows'[id].blob] = TextOf[rows[id].blob],
                        KeyOf[rows'[id].blob] = KeyOf[rows[id].blob]
                 PROVE  Content(id)' = Content(id)
      OBVIOUS
    <2> QED
      BY <1>1 DEF Content
  <1>3. rows'[id] # rows[id]
    BY <1>1, <1>2 DEF Readable
  <1>4. ASSUME NEW c \in Rewriters, Rotate(c) PROVE FALSE
    <2>1. Reseal /\ (\A i \in Live : KeyOf[rows'[i].blob] = c) /\ masterKey' = c
      BY <1>4, RotateMeans DEF Rotate
    <2>2. id \in Live
      BY <1>3, <2>1 DEF Reseal
    <2> QED
      BY <2>1, <2>2
  <1>5. ASSUME NEW c \in Rewriters, Migrate(c) PROVE FALSE
    <2>1. Reseal /\ \A i \in Live : KeyOf[rows'[i].blob] = KeyOf[rows[i].blob]
      BY <1>5, MigrateMeans
    <2>2. id \in Live
      BY <1>3, <2>1 DEF Reseal
    <2>3. TextOf[rows'[id].blob] = TextOf[rows[id].blob] /\ Readable(id)
      BY <1>0, <2>1, <2>2, ResealKeepsContent, LiveMeans
    <2> QED
      BY <1>2, <2>1, <2>2, <2>3
  <1>6. masterKey' = masterKey
    BY <1>0, <1>4, KeysChange, SaveMeans DEF SameKeys
  <1>7. ASSUME PlainStep
        PROVE  \E h \in Handlers : /\ handler[h].at # "idle" /\ handler'[h] = Idle
                                   /\ rows'[id].blob = handler[h].in.blob
    <2>1. ASSUME NEW r \in Row, Insert(r)
          PROVE  \E h \in Handlers : /\ handler[h].at # "idle" /\ handler'[h] = Idle
                                     /\ rows'[id].blob = handler[h].in.blob
      <3>1. id = nextId
        BY <1>0, <1>3, <2>1, CommitMeans DEF Insert
      <3>2. rows'[id].blob = r.blob
        <4>1. rows'[id] = Committed(r)
          BY <1>0, <2>1, <3>1, CommitMeans DEF Insert
        <4> QED
          BY <4>1 DEF Committed, Row
      <3> QED
        BY <2>1, <3>2 DEF Insert
    <2>2. ASSUME NEW k \in Ids, NEW r \in Row, Change(k, r)
          PROVE  \E h \in Handlers : /\ handler[h].at # "idle" /\ handler'[h] = Idle
                                     /\ rows'[id].blob = handler[h].in.blob
      <3>1. id = k
        BY <1>0, <1>3, <2>2, CommitMeans DEF Change
      <3>2. rows'[id] = Committed(r)
        BY <1>0, <2>2, <3>1, CommitMeans DEF Change
      <3>3. rows'[id].blob = r.blob /\ rows'[id].state = r.state
        BY <3>2 DEF Committed, Row
      <3>4. r.state # "purged"
        BY <1>1, <3>3 DEF Readable
      <3>5. Readable(id)
        BY <2>2, <3>1 DEF Change, Moves, Readable
      <3>6. r.blob # rows[id].blob
        BY <1>2, <3>3, <3>5
      <3> QED
        BY <2>2, <3>1, <3>3, <3>4, <3>6 DEF Change
    <2> QED
      BY <1>3, <1>7, <2>1, <2>2 DEF PlainStep
  <1>8. PICK h \in Handlers : /\ handler[h].at # "idle" /\ handler'[h] = Idle
                             /\ rows'[id].blob = handler[h].in.blob
    BY <1>4, <1>5, <1>7, RotationTable
  <1>9. admitted'[h] = {}
    BY <1>8, FreedSpends DEF Idle
  <1>10. PICK a \in admitted[h] : a.in.blob = handler[h].in.blob
    BY <1>8 DEF RotationInv, AdmissionsOK, AdmissionOK
  <1>11. KeyOf[a.in.blob] = a.under
    BY DEF RotationInv, AdmissionsOK, AdmissionOK
  <1> QED
    BY <1>6, <1>8, <1>9, <1>10, <1>11

\* Once a rotation has committed, a text arrives under a former key only with
\* an upload that the middleware had admitted before: the token comparison is
\* not repeated.  The one other way is named by the hypothesis: a save of the
\* account, read before, that put the former version back or handed it out.
THEOREM FormerKeysAreFenced == RotationSpec => KeyFence
  <1>1. RotationInv /\ [RotationNext]_allVars =>
          [~undone => \A id \in Ids :
             Content(id)' \notin {Content(id), <<>>} /\ KeyOf[rows'[id].blob] # masterKey'
             => \E h \in Handlers : /\ \E a \in admitted[h] : a.under # masterKey
                                    /\ admitted'[h] = {}]_allVars
    BY FenceStep
  <1> QED
    BY <1>1, RotationInvariance, PTL DEF RotationSpec, KeyFence
-----------------------------------------------------------------------------
(***************************************************************************)
(* Clients that name the asset of every upload: what ConfigLifecycleProofs *)
(* shows of the store alone is not lost when its rows are re-encrypted.    *)
(***************************************************************************)
LEMMA RotationHandlersStep ==
    ASSUME BoundClients, RotationInv, BoundInv, [RotationNext]_allVars
    PROVE  \A h \in Handlers : BoundHandler(handler'[h])
  <1>0. /\ Inv /\ AdmissionsOK /\ BoundHandler(Idle)
        /\ handler \in [Handlers -> HandlerState]
        /\ \A h \in Handlers : BoundHandler(handler[h])
    BY DEF RotationInv, Inv, InvOf, TypeOK, BoundInv, BoundHandler, Idle
  <1>1. ASSUME UNCHANGED handler PROVE \A h \in Handlers : BoundHandler(handler'[h])
    BY <1>0, <1>1
  <1>2. ASSUME NEW g \in Handlers, Serve(g) PROVE \A h \in Handlers : BoundHandler(handler'[h])
    BY <1>0, <1>2, ServeMeans, BoundHandlersStep
  <1>3. ASSUME NEW g \in Handlers, RequestFails(g)
        PROVE  \A h \in Handlers : BoundHandler(handler'[h])
    BY <1>0, <1>3 DEF RequestFails
  <1>4. CASE RotationCrash
    BY <1>0, <1>4 DEF RotationCrash, Crash
  <1>5. ASSUME NEW g \in Handlers, NEW in \in UploadInputs, Admit(g, in)
        PROVE  UNCHANGED handler
    BY <1>5 DEF Admit, vars
  <1>6. ASSUME NEW c \in Rewriters,
                \/ Rotate(c) \/ Migrate(c) \/ RewriteFails(c)
                \/ \E kind \in {"rotate", "migrate"} : SendRewrite(c, kind)
         PROVE  UNCHANGED handler
    BY <1>6 DEF Rotate, Migrate, RewriteFails, SendRewrite, vars
  <1>7. ASSUME NEW o \in Ops, Operate(o) PROVE UNCHANGED handler
    BY <1>7 DEF Operate, DeleteAsset, RestoreAsset, PurgeAsset, Apply
  <1>8. CASE UNCHANGED allVars
    BY <1>1, <1>8 DEF allVars, vars
  <1>9. CASE AccountStep
    BY <1>1, <1>9, AccountAlone DEF vars
  <1> QED
    BY <1>1, <1>2, <1>3, <1>4, <1>5, <1>6, <1>7, <1>8, <1>9 DEF RotationNext, AccountStep

LEMMA RotationBoundStep ==
    BoundClients /\ RotationInv /\ BoundInv /\ [RotationNext]_allVars => BoundInv'
  <1> SUFFICES ASSUME BoundClients, RotationInv, BoundInv, [RotationNext]_allVars
               PROVE  BoundInv'
    OBVIOUS
  <1>1. ASSUME Reseal
        PROVE  \A id \in Ids : Exists(id)' => rows'[id].asset \in Assets /\ id < nextId'
    BY <1>1 DEF Reseal, BoundInv, Exists
  <1>2. \A id \in Ids : Exists(id)' => rows'[id].asset \in Assets /\ id < nextId'
    BY <1>1, RotationTable, PlainIsTableStep, BoundRows DEF RotationInv
  <1> QED
    BY <1>2, RotationHandlersStep DEF BoundInv

LEMMA RotationBoundInvariance == BoundClients => (RotationSpec => []BoundInv)
  <1> SUFFICES ASSUME BoundClients PROVE RotationSpec => []BoundInv
    OBVIOUS
  <1>1. RotationInit => BoundInv
    BY BoundInit DEF RotationInit
  <1>2. RotationInv /\ BoundInv /\ [RotationNext]_allVars => BoundInv'
    BY RotationBoundStep
  <1> QED
    BY <1>1, <1>2, RotationInvariance, PTL DEF RotationSpec

LEMMA RotationHistory ==
    ASSUME RotationInv, [RotationNext]_allVars
    PROVE  (\E o \in Ops : Operate(o)) \/ UNCHANGED <<issued, effects>>
  <1>1. ASSUME NEW h \in Handlers, Serve(h) PROVE UNCHANGED <<issued, effects>>
    BY <1>1 DEF Serve, FindUploadTarget, CreateUpload, FindWinner, MutateUpload
  <1>2. ASSUME NEW h \in Handlers, RequestFails(h) \/ \E in \in UploadInputs : Admit(h, in)
        PROVE  UNCHANGED <<issued, effects>>
    BY <1>2 DEF RequestFails, Admit, vars
  <1>3. ASSUME NEW c \in Rewriters,
               \/ Rotate(c) \/ Migrate(c) \/ RewriteFails(c)
               \/ \E kind \in {"rotate", "migrate"} : SendRewrite(c, kind)
         PROVE  UNCHANGED <<issued, effects>>
    BY <1>3 DEF Rotate, Migrate, RewriteFails, SendRewrite, vars
  <1>4. CASE RotationCrash \/ UNCHANGED allVars \/ AccountStep
    BY <1>4, AccountAlone DEF RotationCrash, Crash, allVars, vars
  <1> QED
    BY <1>1, <1>2, <1>3, <1>4 DEF RotationNext, AccountStep

LEMMA ResealOnce ==
    ASSUME RotationInv, Inv', [RotationNext]_allVars, OnceInv, Reseal
    PROVE  OnceInv'
  <1> SUFFICES ASSUME NEW o \in Ops, NEW id \in Ids PROVE OnceFor(o, id)'
    BY DEF OnceInv
  <1>1. OnceFor(o, id) /\ UNCHANGED <<issued, effects, nextId>>
    BY DEF OnceInv, Reseal
  <1>2. CASE effects[o][id] # 1
    BY <1>1, <1>2 DEF OnceFor
  <1>3. CASE effects[o][id] = 1
    <2> PICK i \in Intents : issued[o] = {i} /\ (Exists(id) => Covers(rows[id].clock, i.clock))
      BY <1>1, <1>3 DEF OnceFor
    <2>1. ASSUME Exists(id)' PROVE Covers(rows'[id].clock, i.clock)
      <3>1. Exists(id)
        BY <2>1, ResealKeepsContent DEF Exists, RotationInv
      <3>2. /\ i.clock \in Clock /\ rows[id].clock \in Clock /\ rows'[id].clock \in Clock
        BY InputsAssumption DEF Intent, RotationInv, Inv, InvOf, TypeOK, Row
      <3>3. rows'[id].clock = rows[id].clock \/ Covers(rows'[id].clock, rows[id].clock)
        BY <3>1, <3>2, RotationForwardStep, CoversMeans
      <3> QED
        BY <3>1, <3>2, <3>3, CoversTransitive
    <2> QED
      BY <1>1, <1>3, <2>1 DEF OnceFor, Exists, Covers
  <1> QED
    BY <1>2, <1>3

\* A late delivery of an operation stays without effect when its asset was
\* re-encrypted in between: the clock it set is still covered.
THEOREM OperationsActOnceAcrossRotations ==
    BoundClients => (RotationSpec => []AtMostOnce)
  <1> SUFFICES ASSUME BoundClients PROVE RotationSpec => []AtMostOnce
    OBVIOUS
  <1>1. RotationInit => OnceInv
    BY DEF RotationInit, Init, OnceInv, OnceFor
  <1>2. OnceInv => AtMostOnce
    BY DEF OnceInv, OnceFor, AtMostOnce
  <1>3. RotationInv /\ RotationInv' /\ BoundInv /\ OnceInv /\ [RotationNext]_allVars => OnceInv'
    BY RotationTable, PlainIsTableStep, OnceStep, RotationHistory, ResealOnce DEF RotationInv
  <1> QED
    BY <1>1, <1>2, <1>3, RotationBoundInvariance, RotationInvariance, PTL DEF RotationSpec

\* A rotation or a migration moves no asset to another phase; what it does to
\* the clocks is the life cycle's own re-encryption.
LEMMA ResealRefines ==
    ASSUME Inv, Inv', BoundInv, OneRowPerAsset, OneRowPerAsset', Reseal
    PROVE  Lifecycle!LifecycleNext
  <1> DEFINE some == {a \in Assets : Version(a)' # Version(a)}
  <1>1. ASSUME NEW a \in Assets
        PROVE  /\ Phase(a)' = Phase(a) /\ Version(a)' \in Clock
               /\ Version(a)' # Version(a) =>
                    Phase(a) \in {"active", "deleted"} /\ Newer(Version(a)', Version(a))
    <2>1. ASSUME NEW i \in Ids PROVE Holds(i, a)' <=> Holds(i, a)
      BY DEF Reseal, Holds, Exists
    <2>2. CASE Held(a)
      <3> PICK id \in Ids : Holds(id, a)
        BY <2>2 DEF Held
      <3>1. RowOf(a) = rows[id]
        BY RowOfMeans DEF OneRowPerAsset
      <3>2. Held(a)' /\ RowOf(a)' = rows'[id]
        BY <2>1, RowOfMeansNext DEF OneRowPerAsset
      <3>3. /\ Phase(a) = rows[id].state /\ Version(a) = rows[id].clock
            /\ Phase(a)' = rows'[id].state /\ Version(a)' = rows'[id].clock
        BY <2>2, <3>1, <3>2 DEF Phase, Version
      <3>4. rows'[id].state = rows[id].state /\ rows'[id].clock \in Clock
        BY ResealKeepsContent DEF Inv, InvOf, TypeOK, Row
      <3>5. CASE id \in Live
        BY <3>3, <3>4, <3>5, LiveMeans DEF Reseal
      <3>6. CASE id \notin Live
        BY <3>3, <3>4, <3>6 DEF Reseal
      <3> QED
        BY <3>5, <3>6
    <2>3. CASE ~Held(a)
      <3>1. ~Held(a)'
        BY <2>1, <2>3 DEF Held
      <3>2. EmptyClock \in Clock
        BY NoRowOK, ClosedSets
      <3> QED
        BY <2>3, <3>1, <3>2 DEF Phase, Version
    <2> QED
      BY <2>2, <2>3
  <1>2. UNCHANGED AssetPhase
    BY <1>1, PhasesOfRows, PhasesOfRowsNext
  <1>3. AssetVersion' \in [Assets -> Clock]
    BY <1>1, PhasesOfRowsNext
  <1>4. \A a \in some : /\ AssetPhase[a] \in {"active", "deleted"}
                        /\ Newer(AssetVersion'[a], AssetVersion[a])
    BY <1>1, PhasesOfRows, PhasesOfRowsNext
  <1>5. \A a \in Assets \ some : AssetVersion'[a] = AssetVersion[a]
    BY PhasesOfRows, PhasesOfRowsNext
  <1>6. some \in SUBSET Assets
    OBVIOUS
  <1> HIDE DEF some
  <1>7. Lifecycle!Reencrypt(some)
    BY <1>2, <1>3, <1>4, <1>5, SameVocabulary DEF Lifecycle!Reencrypt
  <1> QED
    BY <1>6, <1>7 DEF Lifecycle!LifecycleNext

\* With its keys and formats changing under it the store still implements the
\* life cycle of its assets.
THEOREM RotationImplementsLifecycle ==
    BoundClients => (RotationSpec => ImplementsLifecycle)
  <1> SUFFICES ASSUME BoundClients PROVE RotationSpec => ImplementsLifecycle
    OBVIOUS
  <1>1. RotationInit => Lifecycle!LifecycleInit
    BY LifecycleStarts DEF RotationInit
  <1>2. /\ RotationInv /\ BoundInv /\ OneRowPerAsset
        /\ RotationInv' /\ BoundInv' /\ OneRowPerAsset' /\ [RotationNext]_allVars
        => [Lifecycle!LifecycleNext]_(Lifecycle!lifecycleVars)
    BY RotationTable, PlainIsTableStep, RefinementStep, ResealRefines
      DEF RotationInv, Lifecycle!lifecycleVars
  <1> QED
    BY <1>1, <1>2, RotationKeepsOneRow, RotationBoundInvariance, RotationInvariance, PTL
      DEF RotationSpec, ImplementsLifecycle, Lifecycle!LifecycleSpec
=============================================================================

----------------------------- MODULE KeyRotation -----------------------------
(***************************************************************************)
(* The configuration store together with the two requests that replace     *)
(* every ciphertext of a user at once:                                     *)
(*   rotate   a new master key; the account's token_version goes up, so    *)
(*            that every device has to log in again                        *)
(*   migrate  the OTC2 cipher format under the same key; clocks go forward *)
(* A client builds either request from rows it pulled earlier, and the     *)
(* transaction applies it only to the exact snapshot it was built from.    *)
(*                                                                         *)
(* Uploads carry a token here.  The middleware compares its version with   *)
(* the account when the request arrives; nothing compares it again, so an  *)
(* upload that was admitted can still write after a rotation.              *)
(*                                                                         *)
(* Rotations are not the only writers of users.token_version.  Sign-ins of *)
(* administrators, password changes, forced logouts, the clearing of an    *)
(* expired ban and others read the account, without a lock, and save the   *)
(* whole row later: the raised version, or the one that they read.         *)
(*                                                                         *)
(* The server cannot read ciphertexts.  TextOf, KeyOf and FormatOf say     *)
(* what a client finds in one; of these only the OTC2 prefix is visible to *)
(* the server.  A device signs in with the master key of that moment and   *)
(* encrypts under it for as long as its tokens are accepted.               *)
(*                                                                         *)
(* Left out: uploads that name no asset (the statements CheckBinding and   *)
(* SaveLegacy, which ConfigStore has), and the restore of a bundle, which  *)
(* replaces the accounts as it does the configurations.  Time stands       *)
(* still: a sweep's purge meets a rotation as a client's does.             *)
(***************************************************************************)
EXTENDS ConfigStore

CONSTANTS
    Texts,        \* plaintexts
    Rewriters,    \* clients that rotate or migrate; each names the key it brings
    Plans,        \* what they may ask for: pairs of a client and a kind
    TextOf,       \* TextOf[b], KeyOf[b], FormatOf[b]: what a client finds in b
    KeyOf,
    FormatOf,
    Signer,       \* the actor under which a migrating client advances clocks
    Savers,       \* requests and scans that save the whole account row
    MaxSaves      \* bound: saves that move token_version or come too late

FirstKey == 0     \* the master key of the registration
Keys == Rewriters \cup {FirstKey}
Formats == {"v1", "OTC2"}

ASSUME RotationAssumption ==
    /\ Rewriters \subseteq Nat \ {FirstKey} /\ Signer \in Actors /\ MaxSaves \in Nat
    /\ Plans \subseteq Rewriters \X {"rotate", "migrate"}
    /\ TextOf \in [Blobs -> Texts] /\ KeyOf \in [Blobs -> Keys]
    /\ FormatOf \in [Blobs -> Formats]
    /\ \A t \in Texts, k \in Keys, f \in Formats :
         \E b \in Blobs : TextOf[b] = t /\ KeyOf[b] = k /\ FormatOf[b] = f

VARIABLES
    tokenVersion,  \* users.token_version
    masterKey,     \* the key under which the last rotation sealed the rows
    tokens,        \* tokens[k]: the versions in the tokens of devices with key k
    copies,        \* copies[s]: the copy of the account that s is about to save
    saves,         \* how many saves did either, up to MaxSaves
    undone,        \* history: a save took token_version back, or was read before
                   \* the last rotation
    admitted,      \* admitted[h]: the upload whose token the middleware accepted
    rewrite        \* rewrite[c]: the rotation or migration that c has under way

accountVars == <<tokenVersion, masterKey, tokens, copies, saves, undone>>
rotationVars == <<accountVars, admitted, rewrite>>
allVars == <<vars, rotationVars>>

Sealed(t, k, f) == CHOOSE b \in Blobs : TextOf[b] = t /\ KeyOf[b] = k /\ FormatOf[b] = f

Admission == [in: UploadInputs, under: Keys]
Copy      == [version: Nat, key: Keys]
Item      == [clock: Clock, blob: Blobs]
NoRewrite == [kind |-> "none", items |-> <<>>]

\* Faulty: purged rows are taken along.
Live_WithPurged == {id \in Ids : Exists(id)}

\* The rows that both requests have to cover: deleted ones can be restored.
Live == {id \in Ids : rows[id].state \notin {"none", "purged"}}
-----------------------------------------------------------------------------
(***************************************************************************)
(* Uploads, behind the token check of the middleware.                      *)
(***************************************************************************)
\* Faulty: the token's version is not compared with the account's.
TokenCurrent_Unchecked(k) == tokens[k] # {}

TokenCurrent(k) == tokenVersion \in tokens[k]

\* JWTAuthMiddleware: an upload under key k comes with a token of k's session.
\* The master key of that moment is kept for the properties only.
Admit(h, in) ==
    /\ Quota /\ handler[h].at = "idle" /\ admitted[h] = {}
    /\ TokenCurrent(KeyOf[in.blob])
    /\ admitted' = [admitted EXCEPT ![h] = {[in |-> in, under |-> masterKey]}]
    /\ UNCHANGED vars /\ UNCHANGED accountVars /\ UNCHANGED rewrite

\* The handler's next statement; the admission is spent with the answer.
Serve(h) ==
    /\ admitted[h] # {}
    /\ \/ \E a \in admitted[h] : FindUploadTarget(h, a.in)
       \/ CreateUpload(h) \/ FindWinner(h) \/ MutateUpload(h)
    /\ admitted' = [admitted EXCEPT ![h] = IF handler'[h].at = "idle" THEN {} ELSE @]
    /\ UNCHANGED accountVars /\ UNCHANGED rewrite

\* A statement fails or the client goes away: the request is forgotten.
RequestFails(h) ==
    /\ admitted[h] # {}
    /\ admitted' = [admitted EXCEPT ![h] = {}]
    /\ handler' = [handler EXCEPT ![h] = Idle]
    /\ UNCHANGED <<rows, seq, nextId, today, sweep, ack, acking, issued, effects>>
    /\ UNCHANGED accountVars /\ UNCHANGED rewrite
-----------------------------------------------------------------------------
(***************************************************************************)
(* The other writers of users.token_version.                               *)
(***************************************************************************)
\* A request or a scan reads the account; it holds no lock on it.  The master
\* key is kept as that of the session from which a password is changed.
ReadAccount(s) ==
    /\ Quota /\ copies[s] = {} /\ saves < MaxSaves
    /\ copies' = [copies EXCEPT ![s] = {[version |-> tokenVersion, key |-> masterKey]}]
    /\ UNCHANGED vars /\ UNCHANGED <<tokenVersion, masterKey, tokens, saves, undone, admitted, rewrite>>

\* It saves every column of its copy: with the version as it was (the sign-in of
\* an administrator, the clearing of an expired ban), or raised (a password
\* change, an administrator's change, the scan, a forced logout).  A password
\* change hands tokens of the raised version to the session that asked for it.
SaveAccount(s) ==
    \E copy \in copies[s], raise \in {0, 1} :
       LET v == copy.version + raise
       IN  /\ saves < MaxSaves /\ tokenVersion' = v
           /\ undone' = (undone \/ v < tokenVersion \/ copy.key # masterKey)
           /\ saves' = IF <<v, undone'>> = <<tokenVersion, undone>> THEN saves ELSE saves + 1
           /\ tokens' = [k \in Keys |-> IF k = masterKey \/ (raise = 1 /\ k = copy.key)
                                         THEN tokens[k] \cup {v} ELSE tokens[k]]
           /\ copies' = [copies EXCEPT ![s] = {}]
           /\ UNCHANGED vars /\ UNCHANGED <<masterKey, admitted, rewrite>>

\* It is refused, or saves nothing, or the save fails.
SaveFails(s) ==
    /\ copies[s] # {}
    /\ copies' = [copies EXCEPT ![s] = {}]
    /\ UNCHANGED vars /\ UNCHANGED <<tokenVersion, masterKey, tokens, saves, undone, admitted, rewrite>>
-----------------------------------------------------------------------------
(***************************************************************************)
(* Rotation and migration.                                                 *)
(***************************************************************************)
\* Faulty: all rewritten rows share one revision.
CommitAll_OneRevision(S, new) ==
    /\ seq' = seq + 1
    /\ rows' = [id \in Ids |-> IF id \in S
                  THEN [new[id] EXCEPT !.rev = seq + 1, !.updatedAt = today]
                  ELSE rows[id]]

\* The loop over the locked rows, in the order of their ids: each is saved and
\* gets a revision of its own.
CommitAll(S, new) ==
    LET rank(id) == Cardinality({j \in S : j <= id})
    IN  /\ seq' = seq + Cardinality(S)
        /\ rows' = [id \in Ids |-> IF id \in S
                      THEN [new[id] EXCEPT !.rev = seq + rank(id), !.updatedAt = today]
                      ELSE rows[id]]

\* Client c has pulled the rows and sends a request built from them.  It brings
\* a key once (a bound: two rotations of one client are those of two clients).
SendRewrite(c, kind) ==
    /\ Quota /\ rewrite[c] = NoRewrite /\ <<c, kind>> \in Plans
    /\ kind = "rotate" => tokens[c] = {}
    /\ rewrite' = [rewrite EXCEPT ![c] =
         [kind |-> kind,
          items |-> [id \in Live |-> [clock |-> rows[id].clock, blob |-> rows[id].blob]]]]
    /\ UNCHANGED vars /\ UNCHANGED accountVars /\ UNCHANGED admitted

\* Faulty: only active rows are expected in the request.
CoversSnapshot_Active(items) ==
    DOMAIN items = {id \in Live : rows[id].state = "active"}

\* Exactly the rows that are not purged, none of them missing.
CoversSnapshot(items) == DOMAIN items = Live

\* Faulty: the clocks of the request are ignored.
SameClocks_Any(items) == TRUE

SameClocks(items) == \A id \in DOMAIN items : rows[id].clock = items[id].clock

\* Faulty: the digests of the request are ignored.
SameDigests_Any(items) == TRUE

SameDigests(items) == \A id \in DOMAIN items : rows[id].blob = items[id].blob

\* RotateEncryptedConfigsAndToken; it does not look at the token again.
Rotate(c) ==
    LET items == rewrite[c].items
    IN  /\ rewrite[c].kind = "rotate"
        /\ rewrite' = [rewrite EXCEPT ![c] = NoRewrite]
        /\ CoversSnapshot(items) /\ SameClocks(items)
        /\ CommitAll(DOMAIN items, [id \in DOMAIN items |->
             [rows[id] EXCEPT !.blob =
                Sealed(TextOf[items[id].blob], c, FormatOf[items[id].blob])]])
        /\ tokenVersion' = tokenVersion + 1
        /\ masterKey' = c /\ tokens' = [tokens EXCEPT ![c] = @ \cup {tokenVersion + 1}]
        /\ UNCHANGED <<nextId, today, handler, sweep, ack, acking, issued, effects>>
        /\ UNCHANGED <<copies, saves, undone, admitted>>

\* MigrateToV2: clocks must advance; then MigrateEncryptedConfigsToV2.
Migrate(c) ==
    LET items == rewrite[c].items
        next(id) == Bump(items[id].clock, Signer, 0)
    IN  /\ rewrite[c].kind = "migrate"
        /\ rewrite' = [rewrite EXCEPT ![c] = NoRewrite]
        /\ DOMAIN items # {}
        /\ \A id \in DOMAIN items : Newer(next(id), items[id].clock)
        /\ CoversSnapshot(items) /\ SameClocks(items) /\ SameDigests(items)
        /\ CommitAll(DOMAIN items, [id \in DOMAIN items |->
             [rows[id] EXCEPT !.clock = next(id), !.blob =
                Sealed(TextOf[items[id].blob], KeyOf[items[id].blob], "OTC2")]])
        /\ UNCHANGED <<nextId, today, handler, sweep, ack, acking, issued, effects>>
        /\ UNCHANGED accountVars /\ UNCHANGED admitted

\* The request is refused - a stale snapshot, a wrong password - or it is lost.
RewriteFails(c) ==
    /\ rewrite[c] # NoRewrite
    /\ rewrite' = [rewrite EXCEPT ![c] = NoRewrite]
    /\ UNCHANGED vars /\ UNCHANGED accountVars /\ UNCHANGED admitted
-----------------------------------------------------------------------------
RotationInit ==
    /\ Init
    /\ tokenVersion = 0 /\ masterKey = FirstKey /\ saves = 0 /\ undone = FALSE
    /\ tokens = [k \in Keys |-> IF k = FirstKey THEN {0} ELSE {}]
    /\ copies = [s \in Savers |-> {}]
    /\ admitted = [h \in Handlers |-> {}]
    /\ rewrite = [c \in Rewriters |-> NoRewrite]

RotationCrash ==
    /\ Crash
    /\ admitted' = [h \in Handlers |-> {}]
    /\ rewrite' = [c \in Rewriters |-> NoRewrite]
    /\ copies' = [s \in Savers |-> {}]
    /\ UNCHANGED <<tokenVersion, masterKey, tokens, saves, undone>>

RotationNext ==
    \/ \E h \in Handlers : (\E in \in UploadInputs : Admit(h, in)) \/ Serve(h) \/ RequestFails(h)
    \/ \E c \in Rewriters :
         \/ \E kind \in {"rotate", "migrate"} : SendRewrite(c, kind)
         \/ Rotate(c) \/ Migrate(c) \/ RewriteFails(c)
    \/ \E s \in Savers : ReadAccount(s) \/ SaveAccount(s) \/ SaveFails(s)
    \/ (\E o \in Ops : Operate(o)) /\ UNCHANGED rotationVars
    \/ RotationCrash

RotationSpec == RotationInit /\ [][RotationNext]_allVars
-----------------------------------------------------------------------------
RotationTypeOK ==
    /\ TypeOK
    /\ tokenVersion \in Nat /\ saves \in 0..MaxSaves
    /\ masterKey \in Keys /\ undone \in BOOLEAN
    /\ tokens \in [Keys -> SUBSET Nat]
    /\ copies \in [Savers -> SUBSET Copy]
    /\ admitted \in [Handlers -> SUBSET Admission]
    /\ DOMAIN rewrite = Rewriters
    /\ \A c \in Rewriters :
         /\ rewrite[c].kind \in {"none", "rotate", "migrate"}
         /\ DOMAIN rewrite[c].items \subseteq Ids
         /\ \A id \in DOMAIN rewrite[c].items : rewrite[c].items[id] \in Item

Rotated == masterKey' # masterKey

Readable(id) == rows[id].state \notin {"none", "purged"}

\* Re-encryption - a rotation, or a migration - is invisible to whoever reads
\* the plaintext: however old the snapshot it was built from, it does not bring
\* back a text that was replaced since, and no row appears or changes phase.
ReencryptionKeepsContent ==
    [][\A c \in Rewriters : Rotate(c) \/ Migrate(c) =>
         \A id \in Ids : /\ rows'[id].state = rows[id].state
                         /\ Readable(id) => TextOf[rows'[id].blob] = TextOf[rows[id].blob]]_allVars

\* A migration that was built before a rotation does not bring the old master
\* key back, although a rotation leaves the clocks it compares as they are.
MigrationKeepsKey ==
    [][\A c \in Rewriters : Migrate(c) =>
         \A id \in Live : KeyOf[rows'[id].blob] = KeyOf[rows[id].blob]]_allVars

\* A rotation leaves no recoverable row behind under a former key.
RotationCoversAll ==
    [][Rotated => \A id \in Ids :
         (Readable(id))' => KeyOf[rows'[id].blob] = masterKey']_allVars

\* Rotation fences off the devices that did not take part: once it has
\* committed, the only texts that arrive under a former key are those of uploads
\* that the middleware had admitted before.  This holds as long as no save of
\* the account, read before, has put a former token_version back or handed out
\* the raised one anew.  Nothing in the code prevents that save, and after it
\* devices with a former key are admitted again.
Content(id) == IF Readable(id) THEN <<TextOf[rows[id].blob], KeyOf[rows[id].blob]>> ELSE <<>>

KeyFence ==
    [][~undone => \A id \in Ids :
         Content(id)' \notin {Content(id), <<>>} /\ KeyOf[rows'[id].blob] # masterKey'
         => \E h \in Handlers : /\ \E a \in admitted[h] : a.under # masterKey
                                /\ admitted'[h] = {}]_allVars
=============================================================================

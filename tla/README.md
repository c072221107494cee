# Verification of the OrbitTerm sync server

OrbitTerm's server stores encrypted configurations ("assets") for the devices
of its users. It never decrypts them; what it decides is which write wins, when
a deletion becomes final and what a device has to be told. This directory
models that behaviour in TLA+, checks it with TLC on small instances and proves
the properties that matter most with TLAPS for every value of the constants.

## The system

A Go server (Gin, Gorm) over PostgreSQL. Requests run concurrently, one
goroutine each; two ticker goroutines run in the background. One process serves
at a time (the deployment that the server's README recommends), and it may be
killed and restarted at any time. All state that survives is in the database.

| Component | State | Operations | What makes it correct |
|---|---|---|---|
| Vector clocks (`service/vector_clock.go`) | none | compare, merge, bump | comparison is history inclusion, merge the join, bump strictly newer |
| Configuration store (`config_service.go`, `server_config_repository.go`) | `server_configs`, `config_sync_changes` | upload (new, bound, legacy), legacy deletion | one row per asset; an accepted write is newer than what it replaces |
| Trash (`config_lifecycle_service.go`) | state, `deleted_at`, `purge_after`, `last_operation_id` of a row | delete, restore, purge, list | Delete-Wins; a purge is final; retries act once; the deadline is set once |
| Cleanup (`asset_deletion_policy_service.go`, `worker/asset_trash_cleanup_worker.go`) | rows, watermarks | list expired, purge each, collect tombstones | nothing is purged early, nothing expired stays, tombstones wait for the devices |
| Device acknowledgements (`config_sync_service.go`) | `sync_device_states` | check, upsert | watermarks only rise and stay within the revisions that exist |
| Sync feed (`config_sync_service.go`) | the client's cursor | pull page by page | a device that follows the cursors misses nothing |
| Key rotation, cipher migration (`master_key_rotation_service.go`, `config_crypto_migration_service.go`) | all blobs of a user, `token_version` | replace a complete snapshot | all or nothing; no row under the old key afterwards |
| Accounts, sessions (`auth_service.go`, `admin_*_service.go`, `jwt_auth.go`) | `users` | register, login, refresh, change password, ban, reset, soft-delete, roles, bootstrap | a revoked token is refused; one administrator is left; bans end on time |
| Invites (`registration_invite_*`) | `registration_invites` | create, disable, consume, release | no more uses than granted |
| Backup bundles (`migration_bundle_service.go`) | all tables | snapshot, restore | a restored server tells devices to reset |
| Policies (`*_policy_service.go`, `system_setting.go`) | `system_settings` | read, update | values stay within their ranges |
| Rate limiter (`middleware/rate_limit.go`) | a map under a mutex | allow | no more than the limit per window |
| Audit log, dashboards, health, web pages, router | append-only or none | record, report | decide nothing |

The components meet in the database. Every write of a configuration row runs in
a transaction that first takes the user's row `FOR UPDATE`
(`lockConfigUser`), so the writes of one user are serial; but uploads, sweeps
and acknowledgements also read *outside* these transactions and act later on
what they read. That is where the hard behaviour is: two requests between each
other's read and write, sweeps racing restores, retries arriving after other
operations, a crash between two statements, devices that register while a
tombstone is being collected. `PROJECT.json` lists each of these hazards at its
line.

## Modules

| Module | Models | Kind |
|---|---|---|
| `VectorClock` | `vector_clock.go` | pure operators and their laws |
| `AssetLifecycle` | the promise of `server_config.go` and the asset API: none, active, deleted, purged, with clocks that move forward | abstract specification |
| `ConfigStore` | the rows of one user and all operations that write them | detailed specification |
| `SyncFeed` | revisions drawn by transactions, pulls, cursors and acknowledgements of devices, export and restore of bundles | detailed specification |
| `KeyRotation` | `ConfigStore` behind the token check, with key rotation and cipher migration | composition |
| `Accounts` | `users`: sign-in, token check, password changes, administration, the ban scan | detailed specification |
| `Enrolment` | bootstrap, managed accounts, registration with invites, the security policy | detailed specification |
| `Backup` | `Enrolment` with the export and restore of accounts, settings and invites | composition |
| `RateLimiter` | `rate_limit.go`: the map under the mutex, the clock read before it | detailed specification |
| `MCStore`, `MCRotation`, `MCFeed`, `MCAccounts`, `MCUsers`, `MCBackup` | small instances | TLC |
| `VectorClockProofs` | laws of the clocks | TLAPS |
| `ConfigStoreProofs` | types and shape of rows, properties of the row table | TLAPS |
| `ConfigLifecycleProofs` | clocks, retries, collection, refinement | TLAPS |
| `KeyRotationProofs` | re-encryption, keys and admissions; the store's guarantees across rotations | TLAPS |
| `FeedProofs` | what cursors and acknowledgements guarantee | TLAPS |
| `AccountsProofs` | status, sessions, bans, the last administrator | TLAPS |
| `EnrolmentProofs` | names and uses of invites | TLAPS |
| `RateLimiterProofs` | the limit and the size of the map | TLAPS |

`ConfigStore` extends `VectorClock`; it instantiates `AssetLifecycle` with the
refinement mapping `AssetPhase`, `AssetVersion`: an asset's phase and version
are the state and clock of the row that holds its identifier. `KeyRotation`
extends `ConfigStore` and inherits its properties and the refinement; its
uploads are `ConfigStore`'s actions, admitted by a token first. `Backup` extends
`Enrolment` in the same way. `Accounts`, `Enrolment` and `RateLimiter` share no
variable: the rows that an enrolment creates are what `Accounts` starts from
(`FirstRole`, `FirstStatus`), and the limiter stands before the routes and only
takes requests away. `MCUsers` therefore checks the three side by side, its
variable `part` saying which one runs.

### How ConfigStore corresponds to the code

*Variables.* `rows` is `server_configs` (`Row` names the columns kept), `seq`
the last `config_sync_changes.id`, `nextId` the id sequence, `ack`
`sync_device_states.last_ack_revision`, `today` the wall clock. `handler`,
`sweep` and `acking` are the local variables of goroutines between two database
accesses; a crash clears them. `issued` and `effects` record what operation
identifiers were used for: the first says that a client does not reuse one for
a different operation (it is a fresh UUID, doc line 46), the second is a
history variable.

*Actions.* One per statement or transaction:

- Upload: `FindUploadTarget` (unlocked read, every early return), then
  `CreateUpload`, `FindWinner`, `CheckBinding`, `MutateUpload` (the transaction
  of `MutateByAssetID`) or `SaveLegacy` (Gorm's `Save` of the whole row as it
  was read, which updates every column and inserts the row when it is gone).
  `Dispatch` and `LegacyDecision` are the code between two accesses.
- `DeleteLegacy`: the numeric-id deletion, no revision.
- `DeleteAsset`, `RestoreAsset`, `PurgeAsset`: one transaction each. A request
  the code refuses changes nothing and is not a step.
- `CheckAck`, `AcknowledgeDevice`: the two statements of an acknowledgement.
- A sweep: `ListExpired`, `PurgeExpired` or `PurgeFails` per asset,
  `ListCandidates`, `JudgeCandidates`, `ReclaimTombstones`. The batch of
  candidates is cut across all users before anything else is asked of them, so
  `ListCandidates` takes the room that the other users' tombstones leave in it:
  any number of places, none included.
- `Crash` loses every request and sweep under way; `Tick` lets a day pass.

`Commit` is the tail of every write: `tx.Save` and `appendConfigChange`, hence a
fresh revision and `updated_at`. Operators preceded by a comment "Faulty" are
not part of any specification: each is a definition with a plausible bug, kept
beside the right one, to show that a property can fail.

*Abstractions.* The rows of one user (transactions of different users touch
different rows; the global sequence then only leaves gaps). Ciphertexts are
tokens. Time is in days. Clocks have one counter per device and one for
`server-cleanup`; a missing JSON key is 0, as in Go's map read. Left out because
nothing is decided by them: `identity_fingerprint` (only the answer to an equal
re-upload), `deleted_by_device_id`, platform and version of a device. Inputs
that do not decode or validate are refused before any state is touched.

### How SyncFeed corresponds to the code

`ConfigStore` commits a write and its revision in one step. `SyncFeed` takes the
transaction apart, because a cursor depends on the difference: a revision is
drawn by the INSERT into `config_sync_changes` (`Draw`) and becomes visible at
`Commit`, or never (`Abort`); the lock on the user's row is `MayLock`. Which
writes happen is left open, so every write of `ConfigStore`, and a rotation that
gives many rows a revision in one transaction, is covered. Rows go away by
`DeleteLegacy`, under the lock, or by `Reclaim`, without it; which rows qualify
is `ConfigStore`'s business.

`PullMax` and `PullPage` are the two statements of `PullChanges`; `CheckAck` and
`StoreAck` those of `AcknowledgeSync`. `ApplyPage`, `PersistCursor` and
`ResetCursor` are the client's, in the order of `ASSET_DELETION_SYNC.md` lines
76 to 80, and `Interrupt` is a lost answer or a stop between any two of them. A
reset clears the cursor; what the device holds is replaced as it pulls.
`ExportRows`, `ExportChanges`, `ExportAcks` are three of the statements of
`snapshot`, in its order, for every exporter; a finished export adds a file to
`bundles`, and any of these can be restored at any time, again, late, or between
two statements of another export. `Restore` is `restoreData`, which has to wait
for the locks of the writers and for nothing else. `intact` is history: it fails
when the tables in force are those of an export that read the rows before a
restore and the change log after it. A version of a row is its revision and the number of
restores before it (`epoch`), since a restore makes revisions drawable again;
`epoch` and `since` are history variables.

Bounds and abstractions: the rows of one user, other users being `OtherUser`;
`MaxRev` revisions, `MaxBundles` files and `MaxRestores` restores. A restore that meets an open
transaction is modelled as waiting for it. Devices meet only in rows that they
do not change, so the runs have one.

### How KeyRotation corresponds to the code

An upload is admitted by `JWTAuthMiddleware` (`Admit`), which compares the
token's version with the account's once; the handler's statements follow
(`Serve`), and nothing compares again. `SendRewrite` is a client that has pulled
all rows and built a request from them, `Rotate` the transaction
`RotateEncryptedConfigsAndToken`, `Migrate` that of
`MigrateEncryptedConfigsToV2`. Both judge the request against the locked rows as
a whole (`CoversSnapshot`, `SameClocks`, `SameDigests`) and give each row a
revision of its own (`CommitAll`); a refused request changes nothing and is the
same step as a lost one (`RewriteFails`). A refused password, a wrong prefix of
a ciphertext and repeated identifiers are refused before.

The server sees a ciphertext as an opaque text with or without the prefix
`OTC2`. The model says what a client finds in it: `TextOf`, `KeyOf`, `FormatOf`.
Each rewriting client brings a key once. `tokens` says which token versions the
devices with a key hold: a device signs in with the master key of that moment,
`masterKey`, and keeps that key as long as its tokens are accepted.

`token_version` has other writers. Sign-ins of administrators, the clearing of
an expired ban, password changes, forced logouts and the ban scan read the
account without a lock (`ReadAccount`) and save the whole row later
(`SaveAccount`): the version as it was read, or raised by one. Who may do so and
when is the business of `Accounts`; here any of them may, up to `MaxSaves`.
`undone` is history: such a save took the version back, or was read before the
last rotation. From then on devices with a former key may hold a current token.

Left out: uploads that name no asset (`CheckBinding`, `SaveLegacy`), and the
restore of a bundle.

### How Accounts corresponds to the code

No operation on `users` holds a lock: a service reads a row, edits the copy and
saves every column (`userRepository.Save`). So each access is a step. `Arrive`
is the read of the caller's row with the checks of the middleware or of
`ensureUserCanAuthenticate`; `ClearBan` the Save of that row when its ban had
run out; `LoadTarget` and `LoadSelf` the second read, with the edit (`Changed`)
and the refusals; `Save` the write. `LogoutRegular` is the one bulk UPDATE.
`ListBans`, `EndBan` and `ScanFails` are `ScanExpiredBans`, run by the ticker
and by an administrator. A failed Save (`RequestFails`, `ScanFails`) and a crash
end what is under way.

`tokens` are those handed out; `changes` and a token's `since` are history: the
number of completed revocations, and how many of them the token has behind it.
`serial` is a constant of each behaviour: when it holds, requests and scans in
flight concern different accounts (`Claimed`). What holds then, and what holds
for every interleaving, are different properties; the `revocation` run shows
what the difference is. Passwords are left out: a request that goes on brought
the right one. So are the expiry of tokens and the fields of a row that decide
nothing (addresses, times and counts of logins, reasons).

### How Enrolment corresponds to the code

`FindName` is the look for the name, `Consume` the transaction that locks an
invite and counts a use, `Insert` the INSERT, which the index on the canonical
name may refuse, `Release` the transaction that gives the use back.
`BeginRegister`, `BeginManaged` and `BeginBootstrap` are what precedes them.
`EnrolmentFails` is a statement that fails without effect, `EnrolmentCrash` a
process that dies; the uses they leave behind are counted by `lost` (history).
`EditPolicy` and `UpsertPolicy` read the security policy and store all of it.
The bootstrap finds no administrator and creates one later: two requests under
two names create two, which the model reaches and no property forbids, because
nothing in the code or its documents says who wins.

`Backup` adds the SELECTs of `snapshot` that concern these tables, in their
order, and `restoreData` with the unique indexes. Encoding is what it does: the
digest of an invite's code is not written.

### How RateLimiter corresponds to the code

`ReadClock` is the first two lines of the handler, `Judge` everything under the
mutex, pruning included. `Slack` is the longest wait for the mutex. `passed` is
history: the requests let through in the last `Window - Slack` ticks.

## Runs

| Run | Instance | Shows |
|---|---|---|
| `sweep` | 2 assets, 2 sweeps, 1 device, 3 days, batch limit 1 | no early purge, fixed deadlines, rows of the right shape, collection only of what was acknowledged, rising watermarks |
| `mixed` | 1 legacy row, 2 handlers, a sweep, old and new clients | what the legacy path cannot break: one row per asset, row shape; the clock laws on all clocks that meet |
| `live` | 2 assets, 2 devices, 3 days, batch limit 1 | expired assets are purged; acknowledged tombstones are reclaimed if other users leave room; sweeps, crashes and clients refine `AssetLifecycle` |
| `rotation` | 2 assets, 2 upload handlers, 3 operations, one rotation, migrations, a save of the account, 4 revisions | re-encryption keeps every text, covers every row and, until a save undoes the rotation's token version, fences off former keys; retries act once; clocks move forward; `KeyRotation` still refines `AssetLifecycle` |
| `feed` | 2 rows, 2 writers, 1 device, pages of 1, 4 revisions | nothing is skipped by a cursor, acknowledgements are honest, a device that keeps pulling converges |
| `bundle` | 2 rows, 2 writers, 3 revisions, exports of 2 bundles, 2 restores | the sequence covers the rows, so no restored server draws a revision twice, unless an export was crossed by a restore |
| `users` | accounts: 2 users, 2 handlers, 1 scan, 2 days; enrolment: 2 clerks, 4 spellings of 3 names, an invite of 2 uses; limiter: 2 addresses, 2 goroutines, 6 ticks | status agrees, sessions end, bans hold and end, an administrator is left; names are unique, invites neither overused nor lost; the limit and the size of its map |
| `overwrite` (violation) | as `mixed` | a stale legacy save overwrites a newer tombstone |
| `reclaim` (violation) | 1 asset, 2 devices | a device that registers between the collector's query and its DELETE |
| `restore` (violation) | as `feed`, with an export and a restore | a device that is not told to reset after a restore |
| `revocation` (violation) | accounts with overlapping requests | a stale save brings a revoked token back |
| `backup` (violation) | 2 invites | a bundle that was exported and cannot be restored |

*Bounds.* `MaxRev` stops clients (never sweeps) once that many revisions exist,
`MaxId` bounds inserted rows, `MaxDay` the days, `MaxInt` the counters. They are
large enough for every action to fire and for the longest pattern of interest:
create, delete, restore, delete again, purge (five revisions); a sweep that
lists on one day and acts on the next while the asset is restored and deleted
again; three uploads of one asset of which two race. Retention periods (at
least 7 and 365 days in the code) are one day in the model: only their order
against the clock matters, and the properties are proved for any value.
Handlers, workers and operation identifiers are interchangeable in the safety
runs (`Symmetry`); no symmetry is used with liveness.

In `live` three days let a sweep's purge of one day become an old tombstone on
the third, so two of them compete for the one place of a batch; the revisions
that devices acknowledge are those of the two purges (`AckInputs`). In `bundle`
two files and two restores are what it takes for a restore of the first to cross
the export of the second. Devices have no part in that run: its property speaks
of the server's tables.

In `rotation` one client rotates, once, and another migrates; four revisions
leave room for an upload before and after it, one save of the account is enough
to undo a rotation, and time stands still: a purge by a sweep meets a rotation
as a client's does. In `users`, `Budget` bounds the changes asked for on each
account (three: ban, restore and unban, or promote, reset and delete), `Overlap`
the requests under way when they may overlap (one, beside a scan; two are in
`revocation`). Two clerks and three names make every pair of a registration, a
managed creation and a bootstrap race for one name, and two registrations for
the last use. The limiter's window is three ticks, its limit two and the wait
one: the smallest values at which the end of one window, the next window, a
late request and a pruning meet; a request refused once is not repeated in the
window (`Retries`). With the bound of `FewerThanTwice` lowered by one, or with a
full window in place of a window less the wait, TLC finds a violation: the bound
is the best there is.

*Fairness* (`live`). The ticker goroutine loops for ever
(`StartAssetTrashCleanupWorker`), and the process manager restarts a dead
process, so a sweep that can take a step takes one (weak fairness). A crash or a
failing transaction may interrupt a sweep at any point, but not at the same
point every time: strong fairness of the statements. Automatic cleanup is
enabled, its default. Nothing is assumed of clients, administrators or crashes,
and nothing of other users: their tombstones, which their devices never
acknowledge, may fill every batch. What the code then guarantees is stated with
its condition. `TombstonesLeave` has the hypothesis `RoomRecurs`, that a batch
has room for this user again and again; without it TLC finds the starvation.

*Fairness* (`feed`). A transaction that is open commits or fails. A device goes
on pulling; a request or a local write may fail any number of times, but not
every time (strong fairness). Writes stop because revisions are bounded, which
is what `Converges` needs: it speaks of the time after the last write.

*Fairness* (`users`). The ban scan's goroutine loops for ever
(`StartExpiredBanWorker`): a scan that finds an expired ban lists it (weak
fairness), and the Save of a listed row, though it may fail or meet a crash, is
not prevented in every scan (strong fairness). Nothing is assumed of requests.

## Proofs

All assume only the named assumptions of the modules they speak of. For
`VectorClock` and `ConfigStore`: the special values are not assets or blobs,
bounds are naturals, the day fits a counter, and clients' counters are below the
end of the 64-bit range.

1. *Clocks.* A clock's history is the set of events it counts. `CompareDecides`,
   `MergeJoins` and `BumpAdvances` relate each operation to histories;
   `NewerTransitive` follows.
2. *Types and shape* (`ConfigStoreProofs`). `TombstoneShape` alone is not
   inductive: a legacy handler writes back a row it read long ago. `InvOf(S)`
   adds that every row carried by a handler may be written back (active,
   without a deadline, with a ciphertext), and that the clocks of rows that are
   not purged, and those that handlers carry, lie in `S`. `S` may be any set
   that holds the clients' clocks and their merges. `Inv` takes all clocks;
   `RoomInv` takes those with room for one more count, which the sweep's bump
   needs so as not to wrap: a purged row is never bumped again, and only the
   sweep bumps. `Invariance` is `Spec => [](RoomInv /\ Inv)`.
3. *The row table* (same module). Every step inserts a row at a fresh id, writes
   back a row subject to the unique index, changes one row in place, or removes
   rows, and a new ciphertext is that of an upload in a handler (`TableStep`).
   From this summary follow one row per asset, distinct revisions, fixed
   deadlines, due purges and rising watermarks, without looking at the actions
   again. The clock laws on the clocks that meet in the store
   (`ComparisonsAreInclusions`, `MergesAreJoins`, `BumpsAreNewer`) follow from
   those of item 1, since stored clocks are clocks.
4. *Life cycle* (`ConfigLifecycleProofs`), for clients that name the asset of
   every upload (`BoundClients`; the `overwrite` run shows why that is needed).
   `BoundInvariance` adds that every existing row is bound, that an operation
   that acted has its intent's clock at or below the row's clock, and that a
   sweep's candidates were acknowledged when they were judged. Clocks then only
   move forward, no upload revives a tombstone it is not newer than
   (`TombstonesResistBoundClients`), an operation acts once because its clock is
   no longer newer, and each step maps to a step of `AssetLifecycle` or a
   stutter.
5. *Rotation* (`KeyRotationProofs`), for rewriting clients that can seal any text
   under their key in either format, and any number of saves of the account. A request is built from a
   snapshot and used long after, an upload is admitted by a token and served
   long after; so `RotationInv` ties both to the present. As long as a row's
   clock is the one in a snapshot, so is its text: every other write sets a
   clock that is strictly newer, and a rotation, which keeps the clock, keeps the
   text as well. As long as no save has undone a rotation, no token carries a
   version above the account's, and those that carry the account's version are
   the master key's; so an admitted upload is sealed with the master key of that
   moment. A rotation brings a key that no token was handed out with. Hence an
   accepted request replaces the texts by
   themselves (`ReencryptionIsInvisible`), a rotation covers every recoverable
   row (`RotationsCoverAll`), a migration keeps keys (`MigrationsKeepKeys`; that
   is what the comparison of digests is for, since a rotation leaves the clocks
   as they are), and, until a save has undone a rotation, a text under a former
   key comes only from an upload admitted before (`FormerKeysAreFenced`). Distinct revisions, one row per asset
   and clocks that only move forward are shown again with rotations among the
   writes: a step is one of the table's (`PlainStep`), or replaces the
   ciphertexts of all recoverable rows and gives each a revision by its rank
   (`Reseal`, `RotationTable`). Under `BoundClients` operations still act once,
   and the composition implements `AssetLifecycle`, re-encryption being its
   `Reencrypt`. `KeyRotation` serves no statement of the legacy path, so its
   clocks move forward without that condition.
6. *The feed* (`FeedProofs`). A revision is `Settled` when no transaction can
   still commit one at or below it. The inductive invariant says that at most
   one transaction of the user is open, that what it has drawn is larger than
   every committed revision, and that cursors, the last revision of a page in
   hand and acknowledgements are settled; then a commit never changes a row
   behind them (`SettledStays`). That a page is closed downwards, which makes
   its last revision a safe cursor, is `PageIsPrefix`, by counting. Of files and
   exports the invariant says that the log read second covers the rows read
   first, unless a restore fell between (`FilesInv`); so a restore of a whole
   file leaves no row above the sequence (`RevisionsStayCovered`). The claims
   about a cursor assume that too, and are conditional on the device having
   started over since the last restore, and those about acknowledgements on
   there being no restore at all; the `restore` run shows that the condition is
   needed.

7. *Accounts* (`AccountsProofs`), assuming that some account is an
   administrator's from the start. That the status agrees with the ban and the
   deletion is inductive only for all rows and all copies in flight together:
   then it survives the saving of a stale copy, and `StatusIsConsistent` holds
   for every interleaving. The other theorems concern `serial` behaviours. There
   the invariant says that requests and scans in flight claim different
   accounts, that every copy is the current row, edited, that whoever asked for
   a change may still do so, and that no token is newer than its account. A
   completed change then raises the version above every token, and whoever
   demotes, bans or deletes an administrator is another one.
8. *Enrolment* (`EnrolmentProofs`), for finitely many clerks. A request that
   holds a use carries the code of an invite that exists; the uses of an invite
   are counted by the accounts that came of it, the requests that hold one and
   the losses; and they never exceed the maximum, since they are compared and
   counted in one transaction. Names are unique because the index refuses, not
   because of the look before.
9. *Limiter* (`RateLimiterProofs`), for waits shorter than a window. An address
   without a bucket has fewer than `Limit` recent requests; with one, fewer
   than `Limit` and the bucket's, and of those that cannot be the bucket's
   first, fewer than the bucket's. When a bucket runs out its first request is
   no longer recent, so the next one starts from fewer than `Limit`.

Every safety invariant and action property of the passing runs is stated by a
theorem. Model-checked only: the four liveness properties (`ExpiredLeaves`,
`TombstonesLeave`, `Converges`, `ExpiredBansEnd`), since the provers know
neither fairness nor ENABLED, and the counterexamples. The theorems that carry a
condition (`BoundClients`, `serial`) are about more than the runs' instances
but less than every behaviour; what the others do is in the findings.

## Findings

- `overwrite`: line 16 of `docs/ASSET_DELETION_SYNC.md` forbids that an older
  update overwrites a newer tombstone; the legacy path does not keep it during
  the migration of clients. Once every client names its assets it holds
  (`TombstonesResistBoundClients`).
- `reclaim`: line 121 of the same document and the comment of
  `DeleteAcknowledgedPurgedBefore` promise that *all* registered devices have
  acknowledged a reclaimed tombstone; the query and the deletion are two
  statements. What does hold, and is proved, is `ReclaimOnlySeen`: some device
  has.

- `restore`: line 80 of the same document and `README.md` line 515 present
  `reset_required` as the guard against stale cursors after a restore. It is
  sent only while the cursor exceeds the largest revision; restored and reused
  revisions below the cursor are skipped silently. Restored acknowledgements
  are in the same position: they may cover revisions that a device has not seen
  under the new numbering.

- `revocation`: the comment on `TokenVersion` in `model/user.go` (line 39) and
  the one in `auth_service.go` (line 196) say that raising the version
  invalidates every older token. An administrator's sign-in, or the clearing of
  a ban, that read the row before and saves it after puts the old version back.
  `SerialSessionsEnd` is what does hold, and is proved.

- `backup`: `docs/ADMIN_CONSOLE_GUIDE.md` line 91 and
  `docs/ADMIN_PLATFORM_REMEDIATION.md` line 10 say that the bundle covers the
  invites. Their digests are not exported; two invites make the bundle
  impossible to restore, and a single one comes back unusable.

Also met and left out of the runs:

- A counter at the end of the 64-bit range wraps when the sweep bumps it
  (`Wrap`) and is then replaced by the smaller minimum, so the sweep's clock is
  not newer there.
- An acknowledgement checked before a legacy deletion can be stored above the
  maximum revision that is left (`AckWithinMax`), against line 93 of the
  document.
- The comment at lines 370-372 of `server_config_repository.go` promises that a
  concurrent asset update causes a safe conflict and never a partial
  re-encryption. An update committed before the rotation does, but one that was
  admitted before it and is stored after it causes no conflict and leaves a row
  under the former key: the token is looked at only on the way in. The race of
  the `revocation` finding widens this: a whole-row save of a user read before
  the rotation puts the old version back, and devices with the former key are
  admitted anew. What holds, as long as no such save has happened, is
  `KeyFence`.
- A restore between two SELECTs of an export gives a file with the rows of one
  history and the log of another, and restoring that file leaves rows above the
  sequence, whose revisions are then drawn again. `SyncFeed` has these steps and
  marks such files (`intact`); without the mark `SequenceCoversRows` is violated.
- Tombstones that every device has acknowledged wait behind older ones that are
  not, of any user, because the batch is cut first. They are reclaimed only if
  others leave them room again and again (`RoomRecurs`).

## Plan

Done: clocks, the configuration store with its life cycle and cleanup, the sync
feed with the bundle that rewinds it, rotation and migration, accounts, invites
and registration, the rest of the bundle, the rate limiter; the proofs listed
above, those about rotation and migration among them. What could follow:

1. Two server processes: the handlers of `ConfigStore` and the scanners of
   `Accounts` already stand for goroutines of any process, but the limiter's map
   and the tickers are one per process.
2. The deletion policy's update beside a running cleanup.

## Not modelled

- *Audit log.* Entries are appended after the operation they describe, and a
  failed append is ignored by every service; nothing is decided by an entry.
  The retention cleanup deletes by age.
- *Recovery and audit policy, and updates of the deletion policy.* Records that
  an administrator edits and stores whole, as `EditPolicy` and `UpsertPolicy` do
  with the security policy. The first two are read by nothing that is modelled;
  the retention periods are constants of `ConfigStore`.
- *Dashboards, health, backup readiness.* Reports over several statements; they
  write nothing but the audit entry of having been seen.
- *Start-up migration.* Its backfill is the initial state of `ConfigStore` and
  its indexes are those of `ConfigStore` and `Enrolment`; the statements run once
  before the server listens.
- *HTTP decoding, status codes, web pages, password hashing.* Pure computation
  or presentation. Roles and token checks of the routes are modelled where the
  operations are.
- *Legacy uploads and bundle restores beside a rotation.* `KeyRotation` has the
  uploads that name an asset only; `ConfigStore` has the legacy path and
  `SyncFeed` the restores, both without rotations.
- *Foreign keys of a bundle, and encryption of it.* `Backup` has the unique
  indexes; bundles come from a database in which the references hold, except for
  rows of accounts that were created while the tables were read.
- *Statements whose answer is lost after they took effect* (an INSERT that
  commits although the caller sees an error) in `Enrolment`: the registration
  then releases a use that its account spent.
- *The end of the token version, the row counters and 64-bit identifiers.* Only
  the vector clocks' counters wrap in the model: they come from clients.

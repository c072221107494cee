-------------------------------- MODULE Backup --------------------------------
(***************************************************************************)
(* The migration bundle as far as it concerns accounts and invites: one    *)
(* SELECT per table when it is exported, one transaction that deletes and  *)
(* inserts every row when it is restored.                                  *)
(*                                                                         *)
(* A bundle is JSON.  The digest of an invite's code is no part of it      *)
(* (RegistrationInvite.CodeHash has the tag json:"-"), so an exported      *)
(* invite comes back with an empty digest.                                 *)
(***************************************************************************)
EXTENDS Enrolment

VARIABLES
    bundle,  \* what the export under way has read, then the bundle
    tried    \* what the restores made of it so far

backupVars == <<enrolmentVars, bundle, tried>>

Nothing == [read |-> "nothing"]

\* snapshot: one SELECT after another, users first and invites last.
ExportUsers ==
    /\ bundle = Nothing /\ Staffed({"super_admin"})
    /\ bundle' = [read |-> "users", accounts |-> accounts]
    /\ UNCHANGED <<enrolmentVars, tried>>

ExportSettings ==
    /\ bundle.read = "users"
    /\ bundle' = [read |-> "settings", accounts |-> bundle.accounts, policy |-> policy]
    /\ UNCHANGED <<enrolmentVars, tried>>

\* Encoding leaves the digests out.
WithoutDigest(rows) == [i \in DOMAIN rows |-> [rows[i] EXCEPT !.code = NoCode]]

ExportInvites ==
    /\ bundle.read = "settings"
    /\ bundle' = [read |-> "all", accounts |-> bundle.accounts, policy |-> bundle.policy,
                  invites |-> WithoutDigest(invites)]
    /\ UNCHANGED <<enrolmentVars, tried>>

\* validMigrationBundle
ValidBundle ==
    bundle.read = "all" /\ \E a \in bundle.accounts : a.role \in {"super_admin", "admin"}

\* The unique indexes on the names and on the digests take every row.
Insertable ==
    /\ \A a, b \in bundle.accounts : CanonicalUsername[a.name] = CanonicalUsername[b.name] => a = b
    /\ \A i, j \in DOMAIN bundle.invites :
         bundle.invites[i].code = bundle.invites[j].code => i = j

\* restoreData: everything, or a rollback.
Restore ==
    /\ ValidBundle /\ Staffed({"super_admin"})
    /\ IF Insertable
       THEN /\ accounts' = bundle.accounts /\ invites' = bundle.invites
            /\ policy' = bundle.policy
            /\ tried' = tried \cup {"restored"}
       ELSE tried' = tried \cup {"refused"} /\ UNCHANGED <<accounts, invites, policy>>
    /\ UNCHANGED <<clerk, day, lost, bundle>>

BackupInit == EnrolmentInit /\ bundle = Nothing /\ tried = {}

BackupNext ==
    \/ EnrolmentNext /\ UNCHANGED <<bundle, tried>>
    \/ ExportUsers \/ ExportSettings \/ ExportInvites \/ Restore

BackupSpec == BackupInit /\ [][BackupNext]_backupVars

\* The remediation plan's word for the bundle: it covers every table, and a
\* restore replaces the database in one transaction.  So a bundle that the
\* service has exported, and takes for valid, restores.
BundleRestores == "refused" \notin tried
=============================================================================

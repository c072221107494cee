------------------------------- MODULE Accounts -------------------------------
(***************************************************************************)
(* The users table and everything that writes it: sign-in, the token check *)
(* of every authenticated request, password changes, the administrators'   *)
(* operations and the scan that ends expired bans.                         *)
(*                                                                         *)
(* None of them holds a lock.  A service reads a row, edits the copy and   *)
(* saves every column of it (userRepository.Save), so each database access *)
(* is a step of its own here and a copy may be stale when it is saved.     *)
(*                                                                         *)
(* Passwords are not modelled: a sign-in that goes on brought the right    *)
(* one.  Tokens are used for as long as their version is the account's;    *)
(* that they also expire only takes behaviours away.                       *)
(***************************************************************************)
EXTENDS Integers, FiniteSets

CONSTANTS
    Users,
    FirstRole,   \* FirstRole[u], FirstStatus[u]: the role and the status with
    FirstStatus, \* which u was enrolled
    Handlers,    \* goroutines that serve requests
    Scanners,    \* goroutines that end expired bans: the ticker's, an administrator's
    Durations,   \* what a ban request asks for, in days; 0 for "permanent"
    NewRoles,    \* roles that a role change may assign
    ScanLimit,   \* how many bans one scan ends
    Budget,      \* Budget[u]: bound on the changes asked for on u
    Modes,       \* the values of serial that are of interest
    Overlap,     \* bound on the requests under way when not serial
    MaxDay       \* bound on the days that pass

Roles == {"super_admin", "admin", "support", "user"}
Nil   == 0       \* SQL NULL of a day
Days  == 0..MaxDay

ASSUME AccountsAssumption ==
    /\ FirstRole \in [Users -> Roles] /\ NewRoles \subseteq Roles
    /\ \E u \in Users : FirstRole[u] \in {"super_admin", "admin"}
    /\ FirstStatus \in [Users -> {"normal", "risk"}]
    /\ Durations \subseteq Nat /\ ScanLimit \in Nat \ {0}
    /\ Budget \in [Users -> Nat] /\ MaxDay \in Nat \ {0}
    /\ Modes \subseteq BOOLEAN /\ Overlap \in Nat

VARIABLES
    row,      \* row[u]: the row of users
    today,    \* the wall clock, in days
    tokens,   \* the tokens that clients hold
    request,  \* request[h]: how far the request that h serves has come
    scan,     \* scan[w]: the copies that the scan of w has still to save
    changes,  \* changes[u]: the revoking operations on u that completed (history)
    serial    \* whether requests in flight always concern different accounts

accountVars == <<row, today, tokens, request, scan, changes, serial>>

Row == [role: Roles, status: {"normal", "risk", "banned", "deleted"}, banned: BOOLEAN,
        until: Nat, deleted: BOOLEAN, version: Nat]
Token == [user: Users, version: Nat, since: Nat]
-----------------------------------------------------------------------------
(***************************************************************************)
(* What the operations make of a row.                                      *)
(***************************************************************************)
\* Faulty: a ban without an end counts as expired.
BanExpired_NilEnds(r) == r.banned /\ r.until <= today

BanExpired(r) == r.banned /\ r.until # Nil /\ r.until <= today

\* The ban is over; a deleted account stays deleted.
Cleared(r) == [r EXCEPT !.banned = FALSE, !.until = Nil,
                        !.status = IF r.deleted THEN "deleted" ELSE "normal"]

Bumped(r) == [r EXCEPT !.version = @ + 1]

\* Faulty: a status that nothing else knows.
Restored_Unknown(r) == [Bumped(r) EXCEPT !.deleted = FALSE, !.status = "active"]

\* Faulty: the account's status follows the deletion, whatever its ban.
Restored_Normal(r) == [Bumped(r) EXCEPT !.deleted = FALSE, !.status = "normal"]

Restored(r) == [Bumped(r) EXCEPT !.deleted = FALSE,
                                 !.status = IF r.banned THEN "banned" ELSE "normal"]

Banned(r, days) == [Bumped(r) EXCEPT !.banned = TRUE, !.status = "banned",
                                     !.until = IF days > 0 THEN today + days ELSE Nil]

SoftDeleted(r) == [Bumped(r) EXCEPT !.deleted = TRUE, !.status = "deleted"]

Unbanned(r) == Bumped(Cleared(r))

RoleGiven(r, role) == [Bumped(r) EXCEPT !.role = role]

\* Faulty: a forced logout is only recorded.
LoggedOut_Quiet(r) == r

LoggedOut(r) == Bumped(r)

\* ResetPassword by an administrator; the new hash is not modelled.
PasswordReset(r) == Bumped(r)

\* What a change makes of the copy of a row.  ChangePassword does to the row
\* what a reset does.
Changed(kind, arg, r) ==
    CASE kind = "ban"      -> Banned(r, arg)
      [] kind = "unban"    -> Unbanned(r)
      [] kind = "delete"   -> SoftDeleted(r)
      [] kind = "restore"  -> Restored(r)
      [] kind = "role"     -> RoleGiven(r, arg)
      [] kind = "logout"   -> LoggedOut(r)
      [] kind \in {"reset", "password"} -> PasswordReset(r)

\* The changes that an administrator's request asks for on one account.
Managing  == {"ban", "unban", "delete", "restore", "logout", "reset"}
NotOnSelf == {"ban", "delete", "role"}
SignIns   == {"login", "admin_login", "refresh"}
Calls     == {"use", "password", "manage", "role", "bulk"}

\* RequireAdminRole, as router.go applies it to the groups of requests.
Permitted(kind) ==
    CASE kind = "role" -> {"super_admin"}
      [] kind \in {"manage", "bulk"} -> {"super_admin", "admin"}
      [] kind = "admin_login" -> Roles \ {"user"}
      [] OTHER -> Roles
-----------------------------------------------------------------------------
(***************************************************************************)
(* Requests.  A handler is "idle" or about to                              *)
(*   clear    save the copy of the caller's row with its expired ban ended *)
(*   load     read the row that the request changes                        *)
(*   reclear  as clear, for the copy that ChangePassword has loaded        *)
(*   save     save the edited copy                                         *)
(* What a "manage" request asks for, and on whom, is chosen when it is     *)
(* loaded: nothing depends on it before.                                   *)
(***************************************************************************)
NoRow == [role |-> "user", status |-> "normal", banned |-> FALSE, until |-> Nil,
          deleted |-> FALSE, version |-> 0]
Quiet == [at |-> "idle", kind |-> "use", actor |-> "none", version |-> 0, target |-> "none",
          row |-> NoRow, since |-> 0]

\* The accounts that requests and scans in flight concern.
Claimed ==
    UNION ({{request[h].actor, request[h].target} :
              h \in {g \in Handlers : request[g].at # "idle"}}
           \cup {DOMAIN scan[w] : w \in Scanners})

\* JWTAuthMiddleware and RequireAdminRole, or ensureUserCanAuthenticate, on the
\* caller's row as it was read and perhaps cleared.
Accepted(q) ==
    /\ ~q.row.deleted /\ ~q.row.banned
    /\ q.kind \in SignIns \/ q.version = q.row.version
    /\ q.row.role \in Permitted(q.kind)

\* What follows for a caller who has been checked.
Proceed(h, q) ==
    /\ request' = [request EXCEPT ![h] =
         CASE ~Accepted(q) \/ q.kind \in {"use", "login", "refresh"} -> Quiet
           [] Accepted(q) /\ q.kind = "admin_login" -> [q EXCEPT !.at = "save"]
           [] OTHER -> [q EXCEPT !.at = "load", !.row = NoRow, !.since = 0, !.version = 0]]
    /\ tokens' = IF Accepted(q) /\ q.kind \in {"login", "refresh"}
                 THEN tokens \cup {[user |-> q.actor, version |-> q.row.version,
                                    since |-> q.since]}
                 ELSE tokens

\* The caller's row is read.
Arrive(h, kind, u, version) ==
    LET q == [at |-> "clear", kind |-> kind, actor |-> u, version |-> version,
              target |-> u, row |-> row[u], since |-> changes[u]]
    IN  /\ request[h].at = "idle"
        /\ serial => u \notin Claimed
        /\ ~serial => Cardinality({g \in Handlers : request[g].at # "idle"}) < Overlap
        /\ \/ /\ BanExpired(row[u])
              /\ request' = [request EXCEPT ![h] = [q EXCEPT !.row = Cleared(row[u])]]
              /\ UNCHANGED tokens
           \/ ~BanExpired(row[u]) /\ Proceed(h, q)
        /\ UNCHANGED <<row, today, scan, changes, serial>>

Login(h, u) == Arrive(h, "login", u, 0)

AdminLogin(h, u) ==
    row[u].role \in Permitted("admin_login") /\ Arrive(h, "admin_login", u, 0)

Refresh(h, t) ==
    t.version = row[t.user].version /\ Arrive(h, "refresh", t.user, t.version)

\* JWTAuthMiddleware: an authenticated request of t's user.
Call(h, t, kind) == kind \in Calls /\ Arrive(h, kind, t.user, t.version)

\* The middleware or the sign-in saves the copy without its ban; a sign-in
\* verifies the password only then, and may end there.
ClearBan(h) ==
    LET q == request[h]
    IN  /\ q.at = "clear"
        /\ row' = [row EXCEPT ![q.actor] = q.row]
        /\ \/ Proceed(h, q)
           \/ /\ q.kind \in {"login", "admin_login"}
              /\ request' = [request EXCEPT ![h] = Quiet] /\ UNCHANGED tokens
        /\ UNCHANGED <<today, scan, changes, serial>>

\* Faulty: an administrator can turn on himself.
SelfProtected_Not(q, kind, target) == TRUE

\* Nobody bans, deletes or demotes himself.
SelfProtected(q, kind, target) == kind \in NotOnSelf => q.actor # target

\* Bound: how often clients ask for a change of u.
MayChange(u) == changes[u] < Budget[u]

\* The copy that q will save: what the change makes of the row it has read.
Edit(q, kind, arg, u, r) ==
    [q EXCEPT !.at = "save", !.kind = kind, !.target = u, !.row = Changed(kind, arg, r),
              !.version = 0]

\* An administrator's service reads the row that it will change.
LoadTarget(h, u, kind, arg) ==
    LET q == request[h]
    IN  /\ q.at = "load" /\ MayChange(u)
        /\ kind \in IF q.kind = "manage" THEN Managing ELSE {"role"} \cap {q.kind}
        /\ serial => u \notin Claimed \ {q.actor}
        /\ SelfProtected(q, kind, u)
        /\ request' = [request EXCEPT ![h] = Edit(q, kind, arg, u, row[u])]
        /\ UNCHANGED <<row, today, tokens, scan, changes, serial>>

\* ChangePassword reads the caller's row again, and judges it again.
LoadSelf(h) ==
    LET q == request[h]
        r == row[q.actor]
    IN  /\ q.at = "load" /\ q.kind = "password" /\ MayChange(q.actor)
        /\ request' = [request EXCEPT ![h] =
             CASE BanExpired(r) -> [q EXCEPT !.at = "reclear", !.row = Cleared(r)]
               [] ~BanExpired(r) /\ (r.deleted \/ r.banned) -> Quiet
               [] OTHER -> Edit(q, "password", "none", q.actor, r)]
        /\ UNCHANGED <<row, today, tokens, scan, changes, serial>>

\* ChangePassword: the ban ran out after the middleware had let the caller in.
ReclearBan(h) ==
    LET q == request[h]
    IN  /\ q.at = "reclear"
        /\ row' = [row EXCEPT ![q.target] = q.row]
        /\ request' = [request EXCEPT ![h] = IF q.row.deleted THEN Quiet
                                                 ELSE Edit(q, "password", "none", q.actor, q.row)]
        /\ UNCHANGED <<today, tokens, scan, changes, serial>>

\* userRepository.Save: every column, as it was read and edited.  A change of
\* password and an administrator's sign-in hand out a token of that version.
Save(h) ==
    LET q == request[h]
        u == q.target
        revokes == q.kind # "admin_login"
        now == changes[u] + (IF revokes THEN 1 ELSE 0)
    IN  /\ q.at = "save"
        /\ row' = [row EXCEPT ![u] = q.row]
        /\ changes' = [changes EXCEPT ![u] = now]
        /\ tokens' = tokens \cup
             (CASE q.kind = "password" ->
                     {[user |-> u, version |-> q.row.version, since |-> now]}
                [] q.kind = "admin_login" ->
                     {[user |-> u, version |-> q.row.version, since |-> q.since]}
                [] OTHER -> {})
        /\ request' = [request EXCEPT ![h] = Quiet]
        /\ UNCHANGED <<today, scan, serial>>

\* ForceLogoutRegularUsers: one UPDATE, of one column.
LogoutRegular(h) ==
    LET regular == {u \in Users : row[u].role = "user"}
    IN  /\ request[h].at = "load" /\ request[h].kind = "bulk"
        /\ \A u \in regular : MayChange(u)
        /\ serial => regular \cap Claimed \subseteq {request[h].actor}
        /\ row' = [u \in Users |-> IF u \in regular THEN Bumped(row[u]) ELSE row[u]]
        /\ changes' = [u \in Users |-> changes[u] + (IF u \in regular THEN 1 ELSE 0)]
        /\ request' = [request EXCEPT ![h] = Quiet]
        /\ UNCHANGED <<today, tokens, scan, serial>>

\* A statement fails: the request is answered with an error.
RequestFails(h) ==
    /\ request[h].at # "idle"
    /\ request' = [request EXCEPT ![h] = Quiet]
    /\ UNCHANGED <<row, today, tokens, scan, changes, serial>>
-----------------------------------------------------------------------------
(***************************************************************************)
(* The scan for expired bans.                                              *)
(***************************************************************************)
\* Faulty: a ban that runs out this very moment is left for later.
Listed_Strict == {u \in Users : BanExpired(row[u]) /\ row[u].until < today}

Listed == {u \in Users : BanExpired(row[u])}

\* ListExpiredBans: ORDER BY ban_until ASC LIMIT.
ListBans(w) ==
    /\ scan[w] = <<>>
    /\ serial => Listed \cap Claimed = {}
    /\ \E batch \in SUBSET Listed :
         /\ batch # {}
         /\ Cardinality(batch) <= ScanLimit
         /\ batch = Listed \/ Cardinality(batch) = ScanLimit
         /\ \A u \in batch, v \in Listed \ batch : row[u].until <= row[v].until
         /\ scan' = [scan EXCEPT ![w] = [u \in batch |-> row[u]]]
    /\ UNCHANGED <<row, today, tokens, request, changes, serial>>

\* The next listed copy, without its ban, is saved.
EndBan(w, u) ==
    /\ u \in DOMAIN scan[w]
    /\ \A v \in DOMAIN scan[w] : scan[w][u].until <= scan[w][v].until
    /\ row' = [row EXCEPT ![u] = Bumped(Cleared(scan[w][u]))]
    /\ changes' = [changes EXCEPT ![u] = @ + 1]
    /\ scan' = [scan EXCEPT ![w] = [v \in DOMAIN @ \ {u} |-> @[v]]]
    /\ UNCHANGED <<today, tokens, request, serial>>

\* A Save fails, and with it the rest of the scan.
ScanFails(w) ==
    /\ scan[w] # <<>>
    /\ scan' = [scan EXCEPT ![w] = <<>>]
    /\ UNCHANGED <<row, today, tokens, request, changes, serial>>

Tick ==
    /\ today < MaxDay
    /\ today' = today + 1
    /\ UNCHANGED <<row, tokens, request, scan, changes, serial>>

\* The process dies with every request and scan it has under way.
Crash ==
    /\ request' = [h \in Handlers |-> Quiet]
    /\ scan' = [w \in Scanners |-> <<>>]
    /\ UNCHANGED <<row, today, tokens, changes, serial>>
-----------------------------------------------------------------------------
Init ==
    /\ row = [u \in Users |->
                [NoRow EXCEPT !.role = FirstRole[u], !.status = FirstStatus[u]]]
    /\ today = 1
    /\ tokens = {}
    /\ request = [h \in Handlers |-> Quiet]
    /\ scan = [w \in Scanners |-> <<>>]
    /\ changes = [u \in Users |-> 0]
    /\ serial \in Modes

Args(kind) == CASE kind = "ban" -> Durations [] kind = "role" -> NewRoles [] OTHER -> {"none"}

Handle(h) ==
    \/ \E u \in Users : Login(h, u) \/ AdminLogin(h, u)
    \/ \E t \in tokens : Refresh(h, t) \/ \E kind \in Calls : Call(h, t, kind)
    \/ \E u \in Users, kind \in Managing \cup {"role"} :
         \E arg \in Args(kind) : LoadTarget(h, u, kind, arg)
    \/ ClearBan(h) \/ LoadSelf(h) \/ ReclearBan(h) \/ Save(h) \/ LogoutRegular(h)
    \/ RequestFails(h)

Scan(w) == ListBans(w) \/ (\E u \in Users : EndBan(w, u)) \/ ScanFails(w)

Next ==
    \/ \E h \in Handlers : Handle(h)
    \/ \E w \in Scanners : Scan(w)
    \/ Tick \/ Crash

Spec == Init /\ [][Next]_accountVars

\* The ticker goroutine lives as long as the process and scans again and again;
\* a Save that is tried in every scan does not fail, or meet a crash, each time.
Fairness ==
    \A w \in Scanners : /\ WF_accountVars(ListBans(w))
                        /\ \A u \in Users : SF_accountVars(EndBan(w, u))

FairSpec == Spec /\ Fairness
-----------------------------------------------------------------------------
TypeOK ==
    /\ row \in [Users -> Row]
    /\ today \in Days \ {0} /\ serial \in BOOLEAN
    /\ tokens \subseteq Token
    /\ changes \in [Users -> Nat]
    /\ \A h \in Handlers :
         /\ request[h].at \in {"idle", "clear", "load", "reclear", "save"}
         /\ request[h].kind \in SignIns \cup Calls \cup Managing
         /\ {request[h].actor, request[h].target} \subseteq Users \cup {"none"}
         /\ request[h].row \in Row /\ {request[h].version, request[h].since} \subseteq Nat
    /\ \A w \in Scanners : /\ DOMAIN scan[w] \subseteq Users
                            /\ \A u \in DOMAIN scan[w] : scan[w][u] \in Row

\* "Status is an aggregate for display; the ban and the deletion are decided by
\* their own fields" (model/user.go): whatever operations follow one another,
\* and whichever stale copies they save, the aggregate never denies a ban or a
\* deletion and never invents one.
StatusAgrees ==
    \A u \in Users :
      /\ row[u].status \in {"normal", "risk"} <=> ~row[u].banned /\ ~row[u].deleted
      /\ row[u].status = "banned" => row[u].banned
      /\ row[u].status = "deleted" => row[u].deleted

\* What the comment on TokenVersion says of the server: once an operation that
\* ends the sessions of an account has completed, no token from before it is
\* accepted again.
SessionsEnd ==
    \A t \in tokens : t.version = row[t.user].version => t.since = changes[t.user]

\* It is so as long as no two requests or scans concern the same account.
SerialSessionsEnd == serial => SessionsEnd

\* A ban that has not run out is lifted by an administrator's unban alone: not
\* by a restore, a role change, a sign-in or a scan.
BanHolds ==
    [][serial => \A u \in Users :
         row[u].banned /\ row[u].until \notin (1..today) /\ ~row'[u].banned
           => \E h \in Handlers : /\ request[h].at = "save" /\ request[h].kind = "unban"
                                 /\ request[h].target = u /\ request'[h] = Quiet]_accountVars

\* However administrators ban, delete and demote one another, one at a time,
\* somebody remains who can manage accounts.
AdministratorLeft ==
    serial => \E u \in Users : /\ row[u].role \in {"super_admin", "admin"}
                              /\ ~row[u].banned /\ ~row[u].deleted

\* A ban that has run out ends, although scans and requests overwrite each
\* other's rows and a failing Save aborts its scan.
ExpiredBansEnd ==
    \A u \in Users : (~serial /\ BanExpired(row[u])) ~> ~BanExpired(row[u])
=============================================================================

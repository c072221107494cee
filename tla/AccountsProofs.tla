---------------------------- MODULE AccountsProofs ----------------------------
(***************************************************************************)
(* What holds of the users table for any number of accounts, requests,     *)
(* scans and operations.                                                   *)
(*                                                                         *)
(* The display status agrees with the ban and the deletion in every row    *)
(* and in every copy of one, so it does so however stale the copy is that  *)
(* is saved.  The other properties hold as long as requests and scans in   *)
(* flight concern different accounts.  Every copy is then the row as it    *)
(* is, edited, and the administrator who asked for the edit is one still.  *)
(***************************************************************************)
EXTENDS Accounts, TLAPS

(***************************************************************************)
(* Types, and the status in every copy.                                    *)
(***************************************************************************)
Agrees(r) ==
    /\ r.status \in {"normal", "risk"} <=> ~r.banned /\ ~r.deleted
    /\ r.status = "banned" => r.banned
    /\ r.status = "deleted" => r.deleted

Sane  == {r \in Row : Agrees(r)}
Kinds == SignIns \cup Calls \cup Managing
Request == [at: {"idle", "clear", "load", "reclear", "save"}, kind: Kinds,
            actor: Users \cup {"none"}, version: Nat, target: Users \cup {"none"}, row: Sane,
            since: Nat]
Copies == UNION {[D -> Sane] : D \in SUBSET Users}

TypeInv ==
    /\ row \in [Users -> Sane]
    /\ today \in Days \ {0} /\ serial \in BOOLEAN
    /\ tokens \subseteq Token
    /\ request \in [Handlers -> Request]
    /\ \A h \in Handlers : request[h].at # "idle" =>
         request[h].actor \in Users /\ request[h].target \in Users
    /\ scan \in [Scanners -> Copies]
    /\ changes \in [Users -> Nat]

LEMMA SaneFacts ==
    ASSUME NEW r \in Sane
    PROVE  /\ r.role \in Roles /\ r.status \in {"normal", "risk", "banned", "deleted"}
           /\ r.banned \in BOOLEAN /\ r.deleted \in BOOLEAN
           /\ r.until \in Nat /\ r.version \in Nat /\ Agrees(r)
BY DEF Sane, Row

\* The operations on a row keep the status in step with the ban and the deletion.
LEMMA OperationsAreSane ==
    ASSUME NEW r \in Sane
    PROVE  Bumped(r) \in Sane /\ Cleared(r) \in Sane /\ Restored(r) \in Sane
           /\ SoftDeleted(r) \in Sane
<1>1. Bumped(r) \in Sane BY DEF Bumped, Sane, Row, Agrees
<1>2. Cleared(r) \in Sane BY DEF Cleared, Sane, Row, Agrees, Nil
<1>3. Restored(r) \in Sane BY <1>1 DEF Restored, Bumped, Sane, Row, Agrees
<1>4. SoftDeleted(r) \in Sane BY <1>1 DEF SoftDeleted, Bumped, Sane, Row, Agrees
<1> QED BY <1>1, <1>2, <1>3, <1>4

LEMMA BannedIsSane ==
    ASSUME NEW r \in Sane, NEW days \in Nat, today \in Nat
    PROVE  Banned(r, days) \in Sane
<1> DEFINE b     == Bumped(r)
           until == IF days > 0 THEN today + days ELSE Nil
<1>1. b \in Sane /\ until \in Nat BY OperationsAreSane DEF Nil
<1>2. Banned(r, days) = [b EXCEPT !.banned = TRUE, !.status = "banned", !.until = until]
  BY DEF Banned
<1> HIDE DEF b, until
<1> QED BY <1>1, <1>2 DEF Sane, Row, Agrees

LEMMA RoleGivenIsSane ==
    ASSUME NEW r \in Sane, NEW role \in Roles
    PROVE  RoleGiven(r, role) \in Sane
<1> DEFINE b == Bumped(r)
<1>1. b \in Sane BY OperationsAreSane
<1>2. RoleGiven(r, role) = [b EXCEPT !.role = role] BY DEF RoleGiven
<1> HIDE DEF b
<1> QED BY <1>1, <1>2 DEF Sane, Row, Agrees

\* What a request asks for, as LoadTarget and LoadSelf have it.
Asked(kind, arg) ==
    /\ kind \in Managing \cup {"role", "password"}
    /\ kind = "ban" => arg \in Nat
    /\ kind = "role" => arg \in Roles

LEMMA ChangedIsSane ==
    ASSUME NEW r \in Sane, NEW kind, NEW arg, Asked(kind, arg), today \in Nat
    PROVE  Changed(kind, arg, r) \in Sane
<1>1. CASE kind = "ban" BY <1>1, BannedIsSane DEF Changed, Asked
<1>2. CASE kind = "unban" BY <1>2, OperationsAreSane DEF Changed, Unbanned
<1>3. CASE kind = "delete" BY <1>3, OperationsAreSane DEF Changed
<1>4. CASE kind = "restore" BY <1>4, OperationsAreSane DEF Changed
<1>5. CASE kind = "role" BY <1>5, RoleGivenIsSane DEF Changed, Asked
<1>6. CASE kind = "logout" BY <1>6, OperationsAreSane DEF Changed, LoggedOut
<1>7. CASE kind \in {"reset", "password"} BY <1>7, OperationsAreSane DEF Changed, PasswordReset
<1> QED BY <1>1, <1>2, <1>3, <1>4, <1>5, <1>6, <1>7 DEF Asked, Managing

LEMMA QuietIsTyped == Quiet \in Request /\ NoRow \in Sane /\ Quiet.at = "idle"
<1>1. NoRow \in Sane BY DEF NoRow, Sane, Row, Agrees, Nil, Roles
<1> QED BY <1>1 DEF Quiet, Request, Kinds, Calls

LEMMA InitTyped == Init => TypeInv
<1> SUFFICES ASSUME Init PROVE TypeInv OBVIOUS
<1>1. ASSUME NEW u \in Users PROVE row[u] \in Sane
  BY <1>1, AccountsAssumption, QuietIsTyped DEF Init, NoRow, Sane, Row, Agrees
<1>2. row \in [Users -> Sane] BY <1>1 DEF Init
<1>3. today \in Days \ {0} /\ serial \in BOOLEAN
  <2>1. MaxDay \in Nat \ {0} /\ Modes \subseteq BOOLEAN BY AccountsAssumption
  <2>2. today = 1 /\ serial \in Modes BY DEF Init
  <2>3. today \in Days \ {0} BY <2>1, <2>2 DEF Days
  <2> QED BY <2>1, <2>2, <2>3
<1>4. request \in [Handlers -> Request] BY QuietIsTyped DEF Init
<1>5. <<>> \in Copies
  <2>1. <<>> \in [{} -> Sane] OBVIOUS
  <2> QED BY <2>1 DEF Copies
<1>6. scan \in [Scanners -> Copies] BY <1>5 DEF Init
<1> QED BY <1>2, <1>3, <1>4, <1>6, QuietIsTyped DEF Init, TypeInv

\* A step of one request.
LEMMA RequestTyped ==
    ASSUME TypeInv, NEW h \in Handlers, NEW q \in Request,
           q.at # "idle" => q.actor \in Users /\ q.target \in Users,
           request' = [request EXCEPT ![h] = q],
           row' \in [Users -> Sane], tokens' \subseteq Token, changes' \in [Users -> Nat],
           UNCHANGED <<today, scan, serial>>
    PROVE  TypeInv'
<1>1. request' \in [Handlers -> Request] BY DEF TypeInv
<1>2. \A g \in Handlers : request'[g].at # "idle" =>
        request'[g].actor \in Users /\ request'[g].target \in Users
  BY DEF TypeInv
<1> QED BY <1>1, <1>2 DEF TypeInv

\* A request under way.
LEMMA RequestFacts ==
    ASSUME TypeInv, NEW h \in Handlers
    PROVE  /\ request[h] \in Request
           /\ request[h].at # "idle" => request[h].actor \in Users /\ request[h].target \in Users
BY DEF TypeInv

LEMMA ProceedTyped ==
    ASSUME TypeInv, NEW h \in Handlers, NEW q \in Request,
           q.actor \in Users, q.target \in Users, Proceed(h, q),
           row' \in [Users -> Sane], UNCHANGED <<today, scan, serial, changes>>
    PROVE  TypeInv'
<1> DEFINE load == [q EXCEPT !.at = "load", !.row = NoRow, !.since = 0, !.version = 0]
           save == [q EXCEPT !.at = "save"]
           token == [user |-> q.actor, version |-> q.row.version, since |-> q.since]
<1>1. load \in Request /\ load.actor = q.actor /\ load.target = q.target
  BY QuietIsTyped DEF Request
<1>2. save \in Request /\ save.actor = q.actor /\ save.target = q.target BY DEF Request
<1>3. token \in Token
  <2>1. q.row \in Sane /\ q.since \in Nat BY DEF Request
  <2> QED BY <2>1, SaneFacts DEF Token
<1>4. tokens' = tokens \cup {token} \/ tokens' = tokens BY DEF Proceed
<1>5. request' = [request EXCEPT ![h] = Quiet] \/ request' = [request EXCEPT ![h] = save]
      \/ request' = [request EXCEPT ![h] = load]
  BY DEF Proceed
<1> HIDE DEF load, save, token
<1>6. tokens' \subseteq Token /\ changes' \in [Users -> Nat] BY <1>3, <1>4 DEF TypeInv
<1>7. CASE request' = [request EXCEPT ![h] = Quiet]
  BY <1>6, <1>7, QuietIsTyped, RequestTyped
<1>8. CASE request' = [request EXCEPT ![h] = save]
  BY <1>2, <1>6, <1>8, RequestTyped
<1>9. CASE request' = [request EXCEPT ![h] = load]
  BY <1>1, <1>6, <1>9, RequestTyped
<1> QED BY <1>5, <1>7, <1>8, <1>9

\* What Arrive makes of a request of u.
Arrival(kind, u, version) ==
    [at |-> "clear", kind |-> kind, actor |-> u, version |-> version, target |-> u,
     row |-> row[u], since |-> changes[u]]

LEMMA ArriveTyped ==
    ASSUME TypeInv, NEW h \in Handlers, NEW kind \in SignIns \cup Calls, NEW u \in Users,
           NEW version \in Nat, Arrive(h, kind, u, version)
    PROVE  TypeInv'
<1> DEFINE q == Arrival(kind, u, version)
           clear == [q EXCEPT !.row = Cleared(row[u])]
<1>1. row[u] \in Sane /\ Cleared(row[u]) \in Sane /\ changes[u] \in Nat
  BY OperationsAreSane DEF TypeInv
<1>2. q \in Request /\ q.actor = u /\ q.target = u
  BY <1>1 DEF Arrival, Request, Kinds
<1>3. UNCHANGED <<row, today, scan, changes, serial>> BY DEF Arrive
<1>4. row' \in [Users -> Sane] /\ changes' \in [Users -> Nat] /\ tokens \subseteq Token
  BY <1>3 DEF TypeInv
<1>5. \/ request' = [request EXCEPT ![h] = clear] /\ UNCHANGED tokens
      \/ Proceed(h, q)
  BY DEF Arrive, Arrival
<1> HIDE DEF q
<1>6. clear \in Request /\ clear.actor = u /\ clear.target = u BY <1>1, <1>2 DEF Request
<1> HIDE DEF clear
<1>7. CASE request' = [request EXCEPT ![h] = clear] /\ UNCHANGED tokens
  BY <1>3, <1>4, <1>6, <1>7, RequestTyped
<1>8. CASE Proceed(h, q) BY <1>2, <1>3, <1>4, <1>8, ProceedTyped
<1> QED BY <1>5, <1>7, <1>8

LEMMA ClearBanTyped ==
    ASSUME TypeInv, NEW h \in Handlers, ClearBan(h) PROVE TypeInv'
<1> DEFINE q == request[h]
<1>1. q \in Request /\ q.actor \in Users /\ q.target \in Users
  BY RequestFacts DEF ClearBan
<1>2. row' \in [Users -> Sane] BY <1>1 DEF ClearBan, TypeInv, Request
<1>3. UNCHANGED <<today, scan, serial, changes>> BY DEF ClearBan
<1>4. CASE Proceed(h, q) BY <1>1, <1>2, <1>3, <1>4, ProceedTyped
<1>5. CASE request' = [request EXCEPT ![h] = Quiet] /\ UNCHANGED tokens
  <2>1. tokens' \subseteq Token /\ changes' \in [Users -> Nat] BY <1>3, <1>5 DEF TypeInv
  <2> QED BY <1>2, <1>3, <1>5, <2>1, QuietIsTyped, RequestTyped
<1> QED BY <1>4, <1>5 DEF ClearBan

LEMMA EditTyped ==
    ASSUME TypeInv, NEW q \in Request, NEW kind, NEW arg, Asked(kind, arg), NEW u \in Users,
           NEW r \in Sane
    PROVE  /\ Edit(q, kind, arg, u, r) \in Request
           /\ Edit(q, kind, arg, u, r).at = "save" /\ Edit(q, kind, arg, u, r).kind = kind
           /\ Edit(q, kind, arg, u, r).actor = q.actor
           /\ Edit(q, kind, arg, u, r).target = u
           /\ Edit(q, kind, arg, u, r).row = Changed(kind, arg, r)
<1>1. today \in Nat BY AccountsAssumption DEF TypeInv, Days
<1>2. Changed(kind, arg, r) \in Sane BY <1>1, ChangedIsSane
<1>3. kind \in Kinds BY DEF Asked, Kinds, Calls
<1> QED BY <1>2, <1>3 DEF Edit, Request

LEMMA LoadTargetTyped ==
    ASSUME TypeInv, NEW h \in Handlers, NEW u \in Users, NEW kind, NEW arg, Asked(kind, arg),
           LoadTarget(h, u, kind, arg)
    PROVE  TypeInv'
<1> DEFINE q == Edit(request[h], kind, arg, u, row[u])
<1>1. request[h] \in Request /\ request[h].actor \in Users
  BY RequestFacts DEF LoadTarget
<1>2. row[u] \in Sane BY DEF TypeInv
<1>3. q \in Request /\ q.actor \in Users /\ q.target \in Users BY <1>1, <1>2, EditTyped
<1>4. request' = [request EXCEPT ![h] = q] /\ UNCHANGED <<row, today, tokens, scan, changes, serial>>
  BY DEF LoadTarget
<1>5. row' \in [Users -> Sane] /\ changes' \in [Users -> Nat] /\ tokens' \subseteq Token
  BY <1>4 DEF TypeInv
<1> HIDE DEF q
<1> QED BY <1>3, <1>4, <1>5, RequestTyped

\* What ChangePassword makes of a request.
PasswordEdit(q, u, r) == Edit(q, "password", "none", u, r)

LEMMA PasswordEditTyped ==
    ASSUME NEW q \in Request, NEW r \in Sane, NEW u \in Users
    PROVE  /\ PasswordEdit(q, u, r) \in Request
           /\ PasswordEdit(q, u, r).at = "save" /\ PasswordEdit(q, u, r).kind = "password"
           /\ PasswordEdit(q, u, r).actor = q.actor /\ PasswordEdit(q, u, r).target = u
           /\ PasswordEdit(q, u, r).row = Bumped(r)
<1> DEFINE edit == [q EXCEPT !.at = "save", !.kind = "password", !.target = u,
                             !.row = Bumped(r), !.version = 0]
<1>1. PasswordEdit(q, u, r) = edit BY DEF PasswordEdit, Edit, Changed, PasswordReset
<1>2. Bumped(r) \in Sane BY OperationsAreSane
<1>3. /\ edit \in Request /\ edit.actor = q.actor /\ edit.target = u
      /\ edit.at = "save" /\ edit.kind = "password" /\ edit.row = Bumped(r)
  BY <1>2 DEF Request, Kinds, Calls
<1> HIDE DEF edit
<1> QED BY <1>1, <1>3

LEMMA LoadSelfTyped ==
    ASSUME TypeInv, NEW h \in Handlers, LoadSelf(h) PROVE TypeInv'
<1> DEFINE q == request[h]
           r == row[q.actor]
           edit == PasswordEdit(q, q.actor, r)
           clear == [q EXCEPT !.at = "reclear", !.row = Cleared(r)]
<1>1. q \in Request /\ q.actor \in Users /\ q.target \in Users
  BY RequestFacts DEF LoadSelf
<1>2. r \in Sane /\ Cleared(r) \in Sane BY <1>1, OperationsAreSane DEF TypeInv
<1>3. edit \in Request /\ edit.actor \in Users /\ edit.target \in Users
  <2> HIDE DEF q, r
  <2> QED BY <1>1, <1>2, PasswordEditTyped
<1>4. UNCHANGED <<row, today, tokens, scan, changes, serial>> BY DEF LoadSelf
<1>5. row' \in [Users -> Sane] /\ changes' \in [Users -> Nat] /\ tokens' \subseteq Token
  BY <1>4 DEF TypeInv
<1>6. \/ request' = [request EXCEPT ![h] = clear] \/ request' = [request EXCEPT ![h] = Quiet]
      \/ request' = [request EXCEPT ![h] = edit]
  BY DEF LoadSelf, PasswordEdit
<1> HIDE DEF q, r, edit
<1>7. clear \in Request /\ clear.actor \in Users /\ clear.target \in Users
  BY <1>1, <1>2 DEF Request
<1> HIDE DEF clear
<1>8. CASE request' = [request EXCEPT ![h] = clear] BY <1>4, <1>5, <1>7, <1>8, RequestTyped
<1>9. CASE request' = [request EXCEPT ![h] = Quiet]
  BY <1>4, <1>5, <1>9, QuietIsTyped, RequestTyped
<1>10. CASE request' = [request EXCEPT ![h] = edit] BY <1>3, <1>4, <1>5, <1>10, RequestTyped
<1> QED BY <1>6, <1>8, <1>9, <1>10

LEMMA ReclearTyped ==
    ASSUME TypeInv, NEW h \in Handlers, ReclearBan(h) PROVE TypeInv'
<1> DEFINE q == request[h]
           edit == PasswordEdit(q, q.actor, q.row)
<1>1. q \in Request /\ q.actor \in Users /\ q.target \in Users /\ q.row \in Sane
  BY RequestFacts DEF ReclearBan, Request
<1>2. edit \in Request /\ edit.actor \in Users /\ edit.target \in Users
  <2> HIDE DEF q
  <2> QED BY <1>1, PasswordEditTyped
<1>3. UNCHANGED <<today, tokens, scan, changes, serial>> BY DEF ReclearBan
<1>4. row' \in [Users -> Sane] /\ changes' \in [Users -> Nat] /\ tokens' \subseteq Token
  BY <1>1, <1>3 DEF TypeInv, ReclearBan
<1>5. \/ request' = [request EXCEPT ![h] = Quiet] \/ request' = [request EXCEPT ![h] = edit]
  BY DEF ReclearBan, PasswordEdit
<1> HIDE DEF edit
<1>6. CASE request' = [request EXCEPT ![h] = Quiet]
  BY <1>3, <1>4, <1>6, QuietIsTyped, RequestTyped
<1>7. CASE request' = [request EXCEPT ![h] = edit] BY <1>2, <1>3, <1>4, <1>7, RequestTyped
<1> QED BY <1>5, <1>6, <1>7

LEMMA SaveTyped ==
    ASSUME TypeInv, NEW h \in Handlers, Save(h) PROVE TypeInv'
<1> DEFINE q == request[h]
           now == changes[q.target] + (IF q.kind # "admin_login" THEN 1 ELSE 0)
<1>1. q \in Request /\ q.actor \in Users /\ q.target \in Users /\ q.row \in Sane /\ q.since \in Nat
  BY RequestFacts DEF Save, Request
<1>2. now \in Nat
  <2> DEFINE n == changes[q.target]
  <2>1. n \in Nat BY <1>1 DEF TypeInv
  <2>2. now = n \/ now = n + 1 BY <2>1
  <2> HIDE DEF n, now
  <2> QED BY <2>1, <2>2
<1>3. row' \in [Users -> Sane] /\ changes' \in [Users -> Nat]
  BY <1>1, <1>2 DEF Save, TypeInv
<1>4. tokens' \subseteq Token
  <2>1. q.row.version \in Nat BY <1>1, SaneFacts
  <2>2. \A n \in Nat : [user |-> q.target, version |-> q.row.version, since |-> n] \in Token
    BY <1>1, <2>1 DEF Token
  <2>3. \/ tokens' = tokens \cup {[user |-> q.target, version |-> q.row.version, since |-> now]}
        \/ tokens' = tokens \cup {[user |-> q.target, version |-> q.row.version, since |-> q.since]}
        \/ tokens' = tokens
    BY DEF Save
  <2>4. tokens \subseteq Token BY DEF TypeInv
  <2> HIDE DEF now, q
  <2>5. [user |-> q.target, version |-> q.row.version, since |-> now] \in Token
        /\ [user |-> q.target, version |-> q.row.version, since |-> q.since] \in Token
    BY <1>1, <1>2, <2>2
  <2> QED BY <2>3, <2>4, <2>5
<1>5. request' = [request EXCEPT ![h] = Quiet] /\ UNCHANGED <<today, scan, serial>> BY DEF Save
<1> QED BY <1>3, <1>4, <1>5, QuietIsTyped, RequestTyped

LEMMA LogoutTyped ==
    ASSUME TypeInv, NEW h \in Handlers, LogoutRegular(h) \/ RequestFails(h) PROVE TypeInv'
<1>1. request' = [request EXCEPT ![h] = Quiet] /\ UNCHANGED <<today, tokens, scan, serial>>
  BY DEF LogoutRegular, RequestFails
<1>2. row' \in [Users -> Sane] /\ changes' \in [Users -> Nat]
  <2>1. CASE RequestFails(h) BY <2>1 DEF RequestFails, TypeInv
  <2>2. CASE LogoutRegular(h)
    <3>1. ASSUME NEW u \in Users PROVE Bumped(row[u]) \in Sane /\ changes[u] \in Nat
      BY OperationsAreSane DEF TypeInv
    <3> QED BY <2>2, <3>1 DEF LogoutRegular, TypeInv
  <2> QED BY <2>1, <2>2
<1>3. tokens' \subseteq Token BY <1>1 DEF TypeInv
<1> QED BY <1>1, <1>2, <1>3, QuietIsTyped, RequestTyped

LEMMA ScanTyped ==
    ASSUME TypeInv, NEW w \in Scanners, Scan(w) PROVE TypeInv'
<1>1. UNCHANGED <<today, tokens, request, serial>>
  BY DEF Scan, ListBans, EndBan, ScanFails
<1>2. scan[w] \in Copies BY DEF TypeInv
<1>3. PICK D \in SUBSET Users : scan[w] \in [D -> Sane] BY <1>2 DEF Copies
<1>4. CASE ListBans(w)
  <2>1. PICK batch \in SUBSET Listed : scan' = [scan EXCEPT ![w] = [u \in batch |-> row[u]]]
    BY <1>4 DEF ListBans
  <2>2. [u \in batch |-> row[u]] \in [batch -> Sane] /\ batch \in SUBSET Users
    BY DEF TypeInv, Listed
  <2>3. [u \in batch |-> row[u]] \in Copies BY <2>2 DEF Copies
  <2> QED BY <1>1, <1>4, <2>1, <2>3 DEF ListBans, TypeInv
<1>5. ASSUME NEW u \in Users, EndBan(w, u) PROVE TypeInv'
  <2> DEFINE rest == [v \in DOMAIN scan[w] \ {u} |-> scan[w][v]]
  <2>1. u \in D /\ scan[w][u] \in Sane BY <1>3, <1>5 DEF EndBan
  <2>2. Bumped(Cleared(scan[w][u])) \in Sane BY <2>1, OperationsAreSane
  <2>3. rest \in [D \ {u} -> Sane] BY <1>3
  <2>4. rest \in Copies BY <1>3, <2>3 DEF Copies
  <2>5. scan' \in [Scanners -> Copies]
    <3>1. scan' = [scan EXCEPT ![w] = rest] BY <1>5 DEF EndBan
    <3> HIDE DEF rest
    <3> QED BY <2>4, <3>1 DEF TypeInv
  <2>6. row' \in [Users -> Sane] BY <1>5, <2>2 DEF EndBan, TypeInv
  <2>7. changes' \in [Users -> Nat] BY <1>5 DEF EndBan, TypeInv
  <2> QED BY <1>1, <2>5, <2>6, <2>7 DEF TypeInv
<1>6. CASE ScanFails(w)
  <2>1. <<>> \in [{} -> Sane] OBVIOUS
  <2>2. <<>> \in Copies BY <2>1 DEF Copies
  <2> QED BY <1>1, <1>6, <2>2 DEF ScanFails, TypeInv
<1> QED BY <1>4, <1>5, <1>6 DEF Scan

LEMMA IdleTyped ==
    ASSUME TypeInv, Tick \/ Crash \/ UNCHANGED accountVars PROVE TypeInv'
<1>1. CASE Tick
  <2>1. today' \in Days \ {0}
    <3>1. today \in 0..MaxDay /\ today # 0 /\ today < MaxDay /\ today' = today + 1
      BY <1>1 DEF Tick, TypeInv, Days
    <3>2. MaxDay \in Nat BY AccountsAssumption
    <3> QED BY <3>1, <3>2 DEF Days
  <2> QED BY <1>1, <2>1 DEF Tick, TypeInv
<1>2. CASE Crash
  <2>1. <<>> \in [{} -> Sane] OBVIOUS
  <2>2. <<>> \in Copies BY <2>1 DEF Copies
  <2>3. scan' \in [Scanners -> Copies] BY <1>2, <2>2 DEF Crash
  <2>4. request' \in [Handlers -> Request] /\ \A h \in Handlers : request'[h].at = "idle"
    BY <1>2, QuietIsTyped DEF Crash
  <2> QED BY <1>2, <2>3, <2>4 DEF Crash, TypeInv
<1>3. CASE UNCHANGED accountVars BY <1>3 DEF accountVars, TypeInv
<1> QED BY <1>1, <1>2, <1>3

\* The kinds of change and their arguments, as Next enumerates them.
LEMMA ArgsAreAsked ==
    ASSUME NEW kind \in Managing \cup {"role"}, NEW arg \in Args(kind)
    PROVE  Asked(kind, arg)
<1>1. CASE kind = "ban" BY <1>1, AccountsAssumption DEF Args, Asked
<1>2. CASE kind = "role" BY <1>2, AccountsAssumption DEF Args, Asked
<1>3. CASE kind \notin {"ban", "role"} BY <1>3 DEF Asked
<1> QED BY <1>1, <1>2, <1>3

\* The arrivals that Handle enumerates.
LEMMA Arrivals ==
    ASSUME TypeInv, NEW h \in Handlers,
           \/ \E u \in Users : Login(h, u) \/ AdminLogin(h, u)
           \/ \E t \in tokens : Refresh(h, t) \/ \E kind \in Calls : Call(h, t, kind)
    PROVE  \E kind \in SignIns \cup Calls, u \in Users, version \in Nat : Arrive(h, kind, u, version)
<1>1. \A t \in tokens : t.user \in Users /\ t.version \in Nat BY DEF TypeInv, Token
<1>2. ASSUME NEW u \in Users, Login(h, u)
      PROVE  \E kind \in SignIns \cup Calls, v \in Users, version \in Nat : Arrive(h, kind, v, version)
  BY <1>2 DEF Login, SignIns
<1>3. ASSUME NEW u \in Users, AdminLogin(h, u)
      PROVE  \E kind \in SignIns \cup Calls, v \in Users, version \in Nat : Arrive(h, kind, v, version)
  BY <1>3 DEF AdminLogin, SignIns
<1>4. ASSUME NEW t \in tokens, Refresh(h, t)
      PROVE  \E kind \in SignIns \cup Calls, v \in Users, version \in Nat : Arrive(h, kind, v, version)
  BY <1>1, <1>4 DEF Refresh, SignIns
<1>5. ASSUME NEW t \in tokens, NEW kind \in Calls, Call(h, t, kind)
      PROVE  \E k \in SignIns \cup Calls, v \in Users, version \in Nat : Arrive(h, k, v, version)
  BY <1>1, <1>5 DEF Call
<1> QED BY <1>2, <1>3, <1>4, <1>5

LEMMA NextTyped == ASSUME TypeInv, [Next]_accountVars PROVE TypeInv'
<1>1. ASSUME NEW h \in Handlers, Handle(h) PROVE TypeInv'
  <2>1. CASE \/ \E u \in Users : Login(h, u) \/ AdminLogin(h, u)
             \/ \E t \in tokens : Refresh(h, t) \/ \E kind \in Calls : Call(h, t, kind)
    BY <2>1, Arrivals, ArriveTyped
  <2>2. ASSUME NEW u \in Users, NEW kind \in Managing \cup {"role"}, NEW arg \in Args(kind),
               LoadTarget(h, u, kind, arg)
        PROVE  TypeInv'
    BY <2>2, ArgsAreAsked, LoadTargetTyped
  <2> QED BY <1>1, <2>1, <2>2, ClearBanTyped, LoadSelfTyped, ReclearTyped, SaveTyped, LogoutTyped
      DEF Handle
<1> QED BY <1>1, ScanTyped, IdleTyped DEF Next

(***************************************************************************)
(* Requests that concern different accounts.                               *)
(***************************************************************************)
Manager(r) == r.role \in {"super_admin", "admin"} /\ ~r.banned /\ ~r.deleted

\* r is banned until a day that has come by T.
ExpiredBy(r, T) == r.banned /\ r.until # Nil /\ r.until <= T

\* The copy that q will save is the row of its target in R, edited, and
\* whoever asked for it may still do so.
Pending(q, R, C) ==
    /\ q.kind \in Managing \cup {"role", "password", "admin_login"}
    /\ q.row.version = R[q.target].version + (IF q.kind = "admin_login" THEN 0 ELSE 1)
    /\ q.kind = "admin_login" => q.since = C[q.target]
    /\ R[q.target].banned /\ q.kind # "unban" => q.row.banned
    /\ q.target # q.actor => Manager(R[q.actor])
    /\ q.target = q.actor /\ Manager(R[q.target]) => Manager(q.row)

Fresh(q, R, C, T) ==
    /\ q.at # "reclear"
    /\ q.at \in {"clear", "load"} => q.target = q.actor
    /\ q.at = "clear" =>
         /\ ExpiredBy(R[q.actor], T) /\ q.row = Cleared(R[q.actor])
         /\ q.since = C[q.actor] /\ q.kind \in SignIns \cup Calls
    /\ q.at = "load" =>
         /\ ~R[q.actor].deleted /\ ~R[q.actor].banned
         /\ R[q.actor].role \in Permitted(q.kind) /\ q.kind \in Calls
    /\ q.at = "save" => Pending(q, R, C)

Accts(q) == {q.actor, q.target}
Busy(h)  == request[h].at # "idle"

\* No account concerns two requests, a request and a scan, or two scans.
Apart ==
    /\ \A g, h \in Handlers :
         Busy(g) /\ Busy(h) /\ g # h => Accts(request[g]) \cap Accts(request[h]) = {}
    /\ \A h \in Handlers, w \in Scanners :
         Busy(h) => Accts(request[h]) \cap DOMAIN scan[w] = {}
    /\ \A v, w \in Scanners : v # w => DOMAIN scan[v] \cap DOMAIN scan[w] = {}

RequestsFresh == \A h \in Handlers : Busy(h) => Fresh(request[h], row, changes, today)

ScansFresh ==
    \A w \in Scanners : \A u \in DOMAIN scan[w] : scan[w][u] = row[u] /\ ExpiredBy(row[u], today)

TokensFresh ==
    \A t \in tokens :
      /\ t.version <= row[t.user].version
      /\ t.version = row[t.user].version => t.since = changes[t.user]

Managed == \E u \in Users : Manager(row[u])

SerialInv == Apart /\ RequestsFresh /\ ScansFresh /\ TokensFresh /\ Managed

Inv == TypeInv /\ (serial => SerialInv)

LEMMA ManagedInit == Init => Managed
<1> SUFFICES ASSUME Init PROVE Managed OBVIOUS
<1>1. PICK u \in Users : FirstRole[u] \in {"super_admin", "admin"} BY AccountsAssumption
<1>2. row[u] = [NoRow EXCEPT !.role = FirstRole[u], !.status = FirstStatus[u]] BY DEF Init
<1>3. Manager(row[u]) BY <1>1, <1>2 DEF Manager, NoRow
<1> QED BY <1>3 DEF Managed

LEMMA InitInv == Init => Inv
<1> SUFFICES ASSUME Init PROVE Inv OBVIOUS
<1>1. \A h \in Handlers : ~Busy(h) BY QuietIsTyped DEF Init, Busy
<1>2. \A w \in Scanners : DOMAIN scan[w] = {}
  <2>1. DOMAIN <<>> = {} OBVIOUS
  <2>2. \A w \in Scanners : scan[w] = <<>> BY DEF Init
  <2> QED BY <2>1, <2>2
<1>3. tokens = {} BY DEF Init
<1>4. Apart /\ RequestsFresh /\ ScansFresh /\ TokensFresh
  BY <1>1, <1>2, <1>3 DEF Apart, RequestsFresh, ScansFresh, TokensFresh
<1> QED BY <1>4, InitTyped, ManagedInit DEF Inv, SerialInv

\* What no request and no scan concerns.
LEMMA Unclaimed ==
    ASSUME NEW u, u \notin Claimed
    PROVE  /\ \A g \in Handlers : Busy(g) => u \notin Accts(request[g])
           /\ \A w \in Scanners : u \notin DOMAIN scan[w]
<1>1. ASSUME NEW g \in Handlers, Busy(g), u \in Accts(request[g]) PROVE FALSE
  <2>1. Accts(request[g]) \in {{request[k].actor, request[k].target} :
                                 k \in {j \in Handlers : request[j].at # "idle"}}
    BY <1>1 DEF Busy, Accts
  <2> QED BY <1>1, <2>1 DEF Claimed
<1>2. ASSUME NEW w \in Scanners, u \in DOMAIN scan[w] PROVE FALSE
  BY <1>2 DEF Claimed
<1> QED BY <1>1, <1>2

\* A copy stays fresh while its accounts are left alone.
LEMMA FreshKept ==
    ASSUME NEW q, NEW R, NEW C, NEW T \in Nat, NEW S, NEW D, NEW U \in Nat, T <= U,
           \A u \in Accts(q) : S[u] = R[u] /\ D[u] = C[u],
           \A u \in Accts(q) : R[u].until \in Nat,
           Fresh(q, R, C, T)
    PROVE  Fresh(q, S, D, U)
<1>1. q.actor \in Accts(q) /\ q.target \in Accts(q) BY DEF Accts
<1>2. ExpiredBy(R[q.actor], T) => ExpiredBy(S[q.actor], U) BY <1>1 DEF ExpiredBy, Nil
<1>3. Pending(q, R, C) => Pending(q, S, D) BY <1>1 DEF Pending
<1> QED BY <1>1, <1>2, <1>3 DEF Fresh

\* Tokens are of a past version or of the present one.
LEMMA TokensKept ==
    ASSUME TypeInv, TypeInv', TokensFresh,
           \A u \in Users : \/ row'[u].version = row[u].version /\ changes'[u] = changes[u]
                            \/ row'[u].version = row[u].version + 1,
           \A t \in tokens' : t \in tokens \/ (/\ t.version = row'[t.user].version
                                                 /\ t.since = changes'[t.user])
    PROVE  TokensFresh'
<1> SUFFICES ASSUME NEW t \in tokens'
             PROVE  /\ t.version <= row'[t.user].version
                    /\ t.version = row'[t.user].version => t.since = changes'[t.user]
  BY DEF TokensFresh
<1>1. t.user \in Users /\ t.version \in Nat BY DEF TypeInv, Token
<1>2. row[t.user] \in Sane /\ row'[t.user] \in Sane BY <1>1 DEF TypeInv
<1>3. row[t.user].version \in Nat /\ row'[t.user].version \in Nat BY <1>2, SaneFacts
<1>4. CASE t \in tokens
  <2>1. t.version <= row[t.user].version /\ (t.version = row[t.user].version => t.since = changes[t.user])
    BY <1>4 DEF TokensFresh
  <2> QED BY <1>1, <1>3, <2>1
<1>5. CASE t \notin tokens BY <1>1, <1>3, <1>5
<1> QED BY <1>4, <1>5

\* Whoever concerns u is h alone, or nobody.
Alone(h, u) ==
    /\ \A g \in Handlers : g # h /\ Busy(g) => u \notin Accts(request[g])
    /\ \A w \in Scanners : u \notin DOMAIN scan[w]

\* A step of h changes the accounts X at most, which concern nobody else.
Touches(h, X) ==
    /\ UNCHANGED <<today, scan>>
    /\ \A u \in Users : u \notin X => row'[u] = row[u] /\ changes'[u] = changes[u]
    /\ \A u \in X : Alone(h, u)

\* h goes on as q: idle, or with a fresh copy of accounts that concern nobody else.
GoesOn(h, q) ==
    q.at # "idle" => /\ Fresh(q, row', changes', today)
                     /\ \A u \in Accts(q) : Alone(h, u)

LEMMA HandlerStep ==
    ASSUME TypeInv, TypeInv', SerialInv, NEW h \in Handlers, NEW q,
           request' = [request EXCEPT ![h] = q], NEW X, Touches(h, X), GoesOn(h, q),
           TokensFresh', Managed'
    PROVE  SerialInv'
<1> USE DEF Touches, GoesOn, Alone
<1>1. request'[h] = q /\ \A g \in Handlers : g # h => request'[g] = request[g] BY DEF TypeInv
<1>2. Apart' BY <1>1 DEF SerialInv, Apart, Busy
<1>3. RequestsFresh'
  <2> SUFFICES ASSUME NEW g \in Handlers, request'[g].at # "idle"
               PROVE  Fresh(request'[g], row', changes', today')
    BY DEF RequestsFresh, Busy
  <2>1. CASE g = h BY <1>1, <2>1
  <2>2. CASE g # h
    <3>1. request'[g] = request[g] /\ Busy(g) BY <1>1, <2>2 DEF Busy
    <3>2. Accts(request[g]) \subseteq Users BY <3>1, RequestFacts DEF Accts, Busy
    <3>3. \A u \in Accts(request[g]) : row'[u] = row[u] /\ changes'[u] = changes[u]
      BY <2>2, <3>1, <3>2
    <3>4. \A u \in Accts(request[g]) : row[u].until \in Nat
      BY <3>2, SaneFacts DEF TypeInv
    <3>5. today \in Nat BY AccountsAssumption DEF TypeInv, Days
    <3>6. Fresh(request[g], row, changes, today) BY <3>1 DEF SerialInv, RequestsFresh
    <3>7. today <= today BY <3>5
    <3>8. Fresh(request[g], row', changes', today)
      BY <3>3, <3>4, <3>5, <3>6, <3>7, FreshKept
    <3> QED BY <3>1, <3>8
  <2> QED BY <2>1, <2>2
<1>4. ScansFresh'
  <2> SUFFICES ASSUME NEW w \in Scanners, NEW u \in DOMAIN scan[w]
               PROVE  scan[w][u] = row'[u] /\ ExpiredBy(row'[u], today)
    BY DEF ScansFresh
  <2>1. scan[w] \in Copies BY DEF TypeInv
  <2>2. u \in Users BY <2>1 DEF Copies
  <2>3. row'[u] = row[u] BY <2>2
  <2> QED BY <2>3 DEF SerialInv, ScansFresh
<1> QED BY <1>2, <1>3, <1>4 DEF SerialInv

LEMMA OwnAccountsAlone ==
    ASSUME SerialInv, NEW h \in Handlers, Busy(h), NEW u \in Accts(request[h])
    PROVE  Alone(h, u)
BY DEF SerialInv, Apart, Alone

LEMMA UnclaimedAlone ==
    ASSUME NEW h \in Handlers, NEW u, u \notin Claimed
    PROVE  Alone(h, u)
BY Unclaimed DEF Alone

\* The caller, whose row in the table q carries, is let in, signed in or sent away.
LEMMA ProceedSerial ==
    ASSUME TypeInv, TypeInv', SerialInv, NEW h \in Handlers, NEW q \in Request, NEW u \in Users,
           q.actor = u, q.target = u, q.at = "clear", q.kind \in SignIns \cup Calls,
           q.row = row'[u], q.since = changes'[u], Proceed(h, q),
           UNCHANGED <<today, scan, serial, changes>>,
           \A v \in Users : v # u => row'[v] = row[v], row'[u].version = row[u].version,
           Alone(h, u), Managed'
    PROVE  SerialInv'
<1> DEFINE load == [q EXCEPT !.at = "load", !.row = NoRow, !.since = 0, !.version = 0]
           save == [q EXCEPT !.at = "save"]
           token == [user |-> q.actor, version |-> q.row.version, since |-> q.since]
<1>1. /\ load.at = "load" /\ load.actor = u /\ load.target = u /\ load.kind = q.kind
      /\ save.at = "save" /\ save.actor = u /\ save.target = u /\ save.kind = q.kind
      /\ save.row = q.row /\ save.since = q.since
  BY DEF Request
<1>2. token.user = u /\ token.version = row'[u].version /\ token.since = changes'[u] OBVIOUS
<1>3. tokens' = tokens \cup {token} \/ tokens' = tokens BY DEF Proceed
<1>4. \/ request' = [request EXCEPT ![h] = Quiet]
      \/ request' = [request EXCEPT ![h] = save] /\ q.kind = "admin_login"
      \/ request' = [request EXCEPT ![h] = load] /\ Accepted(q) /\ q.kind \in Calls
  BY DEF Proceed, SignIns
<1> HIDE DEF load, save, token
<1>5. TokensFresh'
  <2>1. \A v \in Users : row'[v].version = row[v].version /\ changes'[v] = changes[v] OBVIOUS
  <2>2. \A t \in tokens' : t \in tokens \/ (/\ t.version = row'[t.user].version
                                           /\ t.since = changes'[t.user])
    BY <1>2, <1>3
  <2> QED BY <2>1, <2>2, TokensKept DEF SerialInv
<1>6. ASSUME NEW p, request' = [request EXCEPT ![h] = p],
             p.at # "idle" => Accts(p) = {u} /\ Fresh(p, row', changes', today)
      PROVE  SerialInv'
  <2>1. Touches(h, {u}) BY DEF Touches
  <2>2. GoesOn(h, p) BY <1>6 DEF GoesOn
  <2> QED BY <1>5, <1>6, <2>1, <2>2, HandlerStep
<1>7. CASE request' = [request EXCEPT ![h] = Quiet] BY <1>6, <1>7, QuietIsTyped
<1>8. CASE request' = [request EXCEPT ![h] = save] /\ q.kind = "admin_login"
  <2>1. row'[u] \in Sane BY DEF TypeInv
  <2>2. row'[u].version \in Nat BY <2>1, SaneFacts
  <2>3. Pending(save, row', changes') BY <1>1, <1>8, <2>2 DEF Pending
  <2>4. Fresh(save, row', changes', today) BY <1>1, <2>3 DEF Fresh
  <2>5. Accts(save) = {u} BY <1>1 DEF Accts
  <2> QED BY <1>6, <1>8, <2>4, <2>5
<1>9. CASE request' = [request EXCEPT ![h] = load] /\ Accepted(q) /\ q.kind \in Calls
  <2>1. Fresh(load, row', changes', today) BY <1>1, <1>9 DEF Fresh, Accepted
  <2>2. Accts(load) = {u} BY <1>1 DEF Accts
  <2> QED BY <1>6, <1>9, <2>1, <2>2
<1> QED BY <1>4, <1>7, <1>8, <1>9

\* A step that leaves the rows, the tokens and the history as they are.
LEMMA NothingSaved ==
    ASSUME SerialInv, UNCHANGED <<row, tokens, changes>>
    PROVE  TokensFresh' /\ Managed'
BY DEF SerialInv, TokensFresh, Managed

LEMMA ArriveSerial ==
    ASSUME Inv, TypeInv', serial, NEW h \in Handlers, NEW kind \in SignIns \cup Calls,
           NEW u \in Users, NEW version \in Nat, Arrive(h, kind, u, version)
    PROVE  SerialInv'
<1> DEFINE q == Arrival(kind, u, version)
           clear == [q EXCEPT !.row = Cleared(row[u])]
<1>1. row[u] \in Sane /\ changes[u] \in Nat BY DEF Inv, TypeInv
<1>2. /\ q \in Request /\ q.actor = u /\ q.target = u /\ q.at = "clear" /\ q.kind = kind
      /\ q.row = row[u] /\ q.since = changes[u]
  BY <1>1 DEF Arrival, Request, Kinds
<1>3. /\ clear.actor = u /\ clear.target = u /\ clear.at = "clear" /\ clear.kind = kind
      /\ clear.row = Cleared(row[u]) /\ clear.since = changes[u]
  BY DEF Arrival
<1>4. UNCHANGED <<row, today, scan, changes, serial>> /\ u \notin Claimed BY DEF Arrive
<1>5. Alone(h, u) BY <1>4, UnclaimedAlone
<1>6. \/ BanExpired(row[u]) /\ request' = [request EXCEPT ![h] = clear] /\ UNCHANGED tokens
      \/ Proceed(h, q)
  BY DEF Arrive, Arrival
<1> HIDE DEF q, clear
<1>7. TypeInv /\ SerialInv BY DEF Inv
<1>8. CASE Proceed(h, q)
  <2>1. Managed' BY <1>4, <1>7 DEF SerialInv, Managed
  <2> QED BY <1>2, <1>4, <1>5, <1>7, <1>8, <2>1, ProceedSerial
<1>9. CASE BanExpired(row[u]) /\ request' = [request EXCEPT ![h] = clear] /\ UNCHANGED tokens
  <2>1. TokensFresh' /\ Managed' BY <1>4, <1>7, <1>9, NothingSaved
  <2>2. Fresh(clear, row', changes', today)
    BY <1>3, <1>4, <1>9 DEF Fresh, BanExpired, ExpiredBy
  <2>3. Accts(clear) = {u} BY <1>3 DEF Accts
  <2>4. GoesOn(h, clear) BY <1>5, <2>2, <2>3 DEF GoesOn
  <2>5. Touches(h, {}) BY <1>4 DEF Touches
  <2> QED BY <1>7, <1>9, <2>1, <2>4, <2>5, HandlerStep
<1> QED BY <1>6, <1>8, <1>9

\* What a change makes of a row: it revokes, it lifts a ban only on demand, and
\* it takes the administrator's place from nobody who may ask it of himself.
LEMMA ChangedFacts ==
    ASSUME NEW r \in Sane, NEW kind, NEW arg, Asked(kind, arg)
    PROVE  /\ Changed(kind, arg, r).version = r.version + 1
           /\ r.banned /\ kind # "unban" => Changed(kind, arg, r).banned
           /\ Manager(r) /\ kind \notin NotOnSelf => Manager(Changed(kind, arg, r))
<1>1. r \in Row BY DEF Sane
<1> USE DEF Row, Manager, NotOnSelf
<1>2. Bumped(r) = [r EXCEPT !.version = r.version + 1] BY DEF Bumped
<1> DEFINE b == Bumped(r)
<1>3. /\ b \in Row /\ b.version = r.version + 1 /\ b.banned = r.banned
      /\ b.deleted = r.deleted /\ b.role = r.role
  BY <1>1, <1>2
<1>4. CASE kind = "ban"
  <2>1. PICK until : Changed(kind, arg, r) = [b EXCEPT !.banned = TRUE, !.status = "banned",
                                                      !.until = until]
    BY <1>4 DEF Changed, Banned
  <2> HIDE DEF b
  <2> QED BY <1>3, <1>4, <2>1
<1>5. CASE kind = "unban"
  <2>1. Cleared(r).version = r.version /\ Cleared(r).role = r.role /\ ~Cleared(r).banned
        /\ Cleared(r).deleted = r.deleted /\ Cleared(r) \in Row
    BY <1>1 DEF Cleared, Nil
  <2>2. Changed(kind, arg, r) = Bumped(Cleared(r)) BY <1>5 DEF Changed, Unbanned
  <2> DEFINE c == Cleared(r)
  <2>3. Bumped(c) = [c EXCEPT !.version = c.version + 1] BY DEF Bumped
  <2> HIDE DEF c
  <2> QED BY <1>5, <2>1, <2>2, <2>3 DEF c
<1>6. CASE kind = "delete"
  <2>1. Changed(kind, arg, r) = [b EXCEPT !.deleted = TRUE, !.status = "deleted"]
    BY <1>6 DEF Changed, SoftDeleted
  <2> HIDE DEF b
  <2> QED BY <1>3, <1>6, <2>1
<1>7. CASE kind = "restore"
  <2>1. PICK status : Changed(kind, arg, r) = [b EXCEPT !.deleted = FALSE, !.status = status]
    BY <1>7 DEF Changed, Restored
  <2> HIDE DEF b
  <2> QED BY <1>3, <1>7, <2>1
<1>8. CASE kind = "role"
  <2>1. Changed(kind, arg, r) = [b EXCEPT !.role = arg] BY <1>8 DEF Changed, RoleGiven
  <2> HIDE DEF b
  <2> QED BY <1>3, <1>8, <2>1
<1>9. CASE kind \in {"logout", "reset", "password"}
  <2>1. Changed(kind, arg, r) = b BY <1>9 DEF Changed, LoggedOut, PasswordReset
  <2> HIDE DEF b
  <2> QED BY <1>3, <1>9, <2>1
<1> QED BY <1>4, <1>5, <1>6, <1>7, <1>8, <1>9 DEF Asked, Managing

\* An administrator's request has read the row that it will change.
LEMMA LoadTargetSerial ==
    ASSUME Inv, TypeInv', serial, NEW h \in Handlers, NEW u \in Users, NEW kind, NEW arg,
           Asked(kind, arg), LoadTarget(h, u, kind, arg)
    PROVE  SerialInv'
<1> DEFINE p == request[h]
           q == Edit(p, kind, arg, u, row[u])
           r == row[u]
           c == Changed(kind, arg, r)
<1>1. TypeInv /\ SerialInv BY DEF Inv
<1>2. p.at = "load" /\ Busy(h) /\ p \in Request /\ p.actor \in Users
  BY <1>1, RequestFacts DEF LoadTarget, Busy
<1>3. r \in Sane /\ r.version \in Nat BY <1>1, SaneFacts DEF TypeInv
<1>4. /\ q.at = "save" /\ q.kind = kind /\ q.actor = p.actor /\ q.target = u /\ q.row = c
  BY <1>1, <1>2, <1>3, EditTyped
<1>5. UNCHANGED <<row, today, tokens, scan, changes>> /\ request' = [request EXCEPT ![h] = q]
  BY DEF LoadTarget
<1>6. Manager(row[p.actor])
  <2>1. ~row[p.actor].deleted /\ ~row[p.actor].banned /\ row[p.actor].role \in Permitted(p.kind)
    BY <1>1, <1>2 DEF SerialInv, RequestsFresh, Fresh
  <2>2. p.kind \in {"manage", "role"} BY DEF LoadTarget
  <2> QED BY <2>1, <2>2 DEF Manager, Permitted
<1>7. kind \in NotOnSelf => p.actor # u BY DEF LoadTarget, SelfProtected
<1>8. kind \in Managing \cup {"role"} BY DEF LoadTarget
<1>9. /\ c.version = r.version + 1 /\ (r.banned /\ kind # "unban" => c.banned)
      /\ (Manager(r) /\ kind \notin NotOnSelf => Manager(c))
  BY <1>3, ChangedFacts
<1> HIDE DEF c, q
<1>10. Pending(q, row, changes)
  <2>1. kind # "admin_login" BY <1>8 DEF Managing
  <2> QED BY <1>3, <1>4, <1>6, <1>7, <1>8, <1>9, <2>1 DEF Pending
<1>11. Fresh(q, row', changes', today) BY <1>4, <1>5, <1>10 DEF Fresh
<1>12. Alone(h, u)
  <2>1. u = p.actor \/ u \notin Claimed BY DEF LoadTarget
  <2> QED BY <1>1, <1>2, <2>1, UnclaimedAlone, OwnAccountsAlone DEF Accts
<1>13. GoesOn(h, q)
  <2>1. Alone(h, p.actor) BY <1>1, <1>2, OwnAccountsAlone DEF Accts
  <2> QED BY <1>4, <1>11, <1>12, <2>1 DEF GoesOn, Accts
<1>14. Touches(h, {}) BY <1>5 DEF Touches
<1>15. TokensFresh' /\ Managed' BY <1>1, <1>5, NothingSaved
<1> QED BY <1>1, <1>5, <1>13, <1>14, <1>15, HandlerStep

LEMMA LoadSelfSerial ==
    ASSUME Inv, TypeInv', NEW h \in Handlers, SerialInv, LoadSelf(h) PROVE SerialInv'
<1> DEFINE p == request[h]
           r == row[p.actor]
           q == PasswordEdit(p, p.actor, r)
<1>1. TypeInv BY DEF Inv
<1>2. p.at = "load" /\ Busy(h) /\ p \in Request /\ p.actor \in Users
  BY <1>1, RequestFacts DEF LoadSelf, Busy
<1>3. ~r.deleted /\ ~r.banned BY <1>2 DEF SerialInv, RequestsFresh, Fresh
<1>4. UNCHANGED <<row, today, tokens, scan, changes>> /\ request' = [request EXCEPT ![h] = q]
  BY <1>3 DEF LoadSelf, PasswordEdit, BanExpired
<1>5. r \in Sane /\ r.version \in Nat /\ r \in Row BY <1>1, <1>2, SaneFacts DEF TypeInv, Sane
<1>6. q.at = "save" /\ q.kind = "password" /\ q.actor = p.actor /\ q.target = p.actor
      /\ q.row = Bumped(r)
  BY <1>2, <1>5, PasswordEditTyped
<1>7. Bumped(r).version = r.version + 1 /\ (Manager(r) => Manager(Bumped(r)))
  BY <1>5 DEF Bumped, Manager, Row
<1> HIDE DEF q
<1>8. Pending(q, row, changes) BY <1>3, <1>6, <1>7 DEF Pending
<1>9. Fresh(q, row', changes', today) BY <1>4, <1>6, <1>8 DEF Fresh
<1>10. Alone(h, p.actor) BY <1>2, OwnAccountsAlone DEF Accts
<1>11. GoesOn(h, q) BY <1>6, <1>9, <1>10 DEF GoesOn, Accts
<1>12. Touches(h, {}) BY <1>4 DEF Touches
<1>13. TokensFresh' /\ Managed' BY <1>4, NothingSaved
<1> QED BY <1>1, <1>4, <1>11, <1>12, <1>13, HandlerStep

LEMMA ClearBanSerial ==
    ASSUME Inv, TypeInv', SerialInv, NEW h \in Handlers, ClearBan(h) PROVE SerialInv'
<1> DEFINE q == request[h]
           u == q.actor
<1>1. TypeInv BY DEF Inv
<1>2. /\ q \in Request /\ u \in Users /\ q.at = "clear" /\ q.target = u /\ Busy(h)
      /\ ExpiredBy(row[u], today) /\ q.row = Cleared(row[u]) /\ q.since = changes[u]
      /\ q.kind \in SignIns \cup Calls
  BY <1>1, RequestFacts DEF ClearBan, Busy, SerialInv, RequestsFresh, Fresh
<1>3. UNCHANGED <<today, scan, changes, serial>> /\ row' = [row EXCEPT ![u] = q.row]
  BY DEF ClearBan
<1>4. row'[u] = q.row /\ \A v \in Users : v # u => row'[v] = row[v]
  BY <1>1, <1>2, <1>3 DEF TypeInv
<1>5. row'[u].version = row[u].version
  <2>1. row[u] \in Row BY <1>1, <1>2 DEF TypeInv, Sane
  <2>2. Cleared(row[u]).version = row[u].version BY <2>1 DEF Cleared, Row
  <2> QED BY <1>2, <1>4, <2>2
<1>6. Managed'
  <2>1. PICK m \in Users : Manager(row[m]) BY DEF SerialInv, Managed
  <2>2. m # u BY <1>2, <2>1 DEF Manager, ExpiredBy
  <2>3. row'[m] = row[m] BY <1>4, <2>2
  <2>4. Manager(row'[m]) BY <2>1, <2>3
  <2> QED BY <2>4 DEF Managed
<1>7. Alone(h, u) BY <1>2, OwnAccountsAlone DEF Accts
<1> HIDE DEF q, u
<1>8. CASE Proceed(h, q)
  <2>1. q.actor = u BY DEF u
  <2>2. q.since = changes'[u] /\ q.row = row'[u] BY <1>2, <1>3, <1>4
  <2> QED BY <1>1, <1>2, <1>3, <1>4, <1>5, <1>6, <1>7, <1>8, <2>1, <2>2, ProceedSerial
<1>9. CASE request' = [request EXCEPT ![h] = Quiet] /\ UNCHANGED tokens
  <2>1. \A v \in Users : row'[v].version = row[v].version /\ changes'[v] = changes[v]
    BY <1>3, <1>4, <1>5
  <2>2. TokensFresh' BY <1>1, <1>9, <2>1, TokensKept DEF SerialInv
  <2>3. Touches(h, {u}) BY <1>3, <1>4, <1>7 DEF Touches
  <2>4. GoesOn(h, Quiet) BY QuietIsTyped DEF GoesOn
  <2> QED BY <1>1, <1>6, <1>9, <2>2, <2>3, <2>4, HandlerStep
<1> QED BY <1>8, <1>9 DEF ClearBan, q

LEMMA SaveSerial ==
    ASSUME Inv, TypeInv', SerialInv, NEW h \in Handlers, Save(h) PROVE SerialInv'
<1> DEFINE q == request[h]
           u == q.target
           now == changes[u] + (IF q.kind # "admin_login" THEN 1 ELSE 0)
           signed == [user |-> u, version |-> q.row.version, since |-> now]
           staff == [user |-> u, version |-> q.row.version, since |-> q.since]
<1>1. TypeInv BY DEF Inv
<1>2. q \in Request /\ u \in Users /\ q.actor \in Users /\ Busy(h) /\ Pending(q, row, changes)
  BY <1>1, RequestFacts DEF Save, Busy, SerialInv, RequestsFresh, Fresh
<1>3. UNCHANGED <<today, scan, serial>> /\ request' = [request EXCEPT ![h] = Quiet]
  BY DEF Save
<1>4. /\ row'[u] = q.row /\ \A v \in Users : v # u => row'[v] = row[v]
      /\ changes'[u] = now /\ \A v \in Users : v # u => changes'[v] = changes[v]
  BY <1>1, <1>2 DEF TypeInv, Save
<1>5. Managed'
  <2>1. CASE u # q.actor
    <3>1. Manager(row[q.actor]) /\ row'[q.actor] = row[q.actor] BY <1>2, <1>4, <2>1 DEF Pending
    <3>2. Manager(row'[q.actor]) BY <3>1
    <3> QED BY <1>2, <3>2 DEF Managed
  <2>2. CASE u = q.actor
    <3>1. PICK m \in Users : Manager(row[m]) BY DEF SerialInv, Managed
    <3>2. Manager(row'[m])
      <4>1. CASE m = u BY <1>2, <1>4, <2>2, <3>1, <4>1 DEF Pending
      <4>2. CASE m # u BY <1>4, <3>1, <4>2
      <4> QED BY <4>1, <4>2
    <3> QED BY <3>2 DEF Managed
  <2> QED BY <2>1, <2>2
<1>6. changes[u] \in Nat /\ row[u].version \in Nat
  <2>1. row[u] \in Sane BY <1>1, <1>2 DEF TypeInv
  <2> QED BY <1>1, <1>2, <2>1, SaneFacts DEF TypeInv
<1>7. TokensFresh'
  <2>1. \/ row'[u].version = row[u].version /\ changes'[u] = changes[u]
        \/ row'[u].version = row[u].version + 1
    <3>1. CASE q.kind = "admin_login"
      <4>1. now = changes[u] BY <1>6, <3>1
      <4>2. q.row.version = row[u].version BY <1>2, <1>6, <3>1 DEF Pending
      <4> QED BY <1>4, <4>1, <4>2
    <3>2. CASE q.kind # "admin_login" BY <1>2, <1>4, <3>2 DEF Pending
    <3> QED BY <3>1, <3>2
  <2>2. \A v \in Users : \/ row'[v].version = row[v].version /\ changes'[v] = changes[v]
                         \/ row'[v].version = row[v].version + 1
    BY <1>4, <2>1
  <2>3. \/ tokens' = tokens \/ tokens' = tokens \cup {signed}
        \/ tokens' = tokens \cup {staff} /\ q.kind = "admin_login"
    BY DEF Save
  <2>4. signed.user = u /\ signed.version = row'[u].version /\ signed.since = changes'[u]
    BY <1>4
  <2>5. q.kind = "admin_login" =>
          staff.user = u /\ staff.version = row'[u].version /\ staff.since = changes'[u]
    <3>1. q.kind = "admin_login" => q.since = changes[u] /\ now = changes[u]
      BY <1>2, <1>6 DEF Pending
    <3> QED BY <1>4, <3>1
  <2> HIDE DEF signed, staff
  <2>6. \A t \in tokens' : t \in tokens \/ (/\ t.version = row'[t.user].version
                                           /\ t.since = changes'[t.user])
    BY <2>3, <2>4, <2>5
  <2> QED BY <1>1, <2>2, <2>6, TokensKept DEF SerialInv
<1>8. Alone(h, u) BY <1>2, OwnAccountsAlone DEF Accts
<1>9. Touches(h, {u}) BY <1>3, <1>4, <1>8 DEF Touches
<1>10. GoesOn(h, Quiet) BY QuietIsTyped DEF GoesOn
<1> QED BY <1>1, <1>3, <1>5, <1>7, <1>9, <1>10, HandlerStep

LEMMA LogoutSerial ==
    ASSUME Inv, TypeInv', serial, NEW h \in Handlers, LogoutRegular(h) PROVE SerialInv'
<1> DEFINE regular == {u \in Users : row[u].role = "user"}
<1>1. TypeInv /\ SerialInv BY DEF Inv
<1>2. UNCHANGED <<today, tokens, scan>> /\ request' = [request EXCEPT ![h] = Quiet]
      /\ Busy(h)
  BY DEF LogoutRegular, Busy
<1>3. \A u \in regular : row'[u] = Bumped(row[u]) BY DEF LogoutRegular
<1>4. \A u \in Users : u \notin regular => row'[u] = row[u] /\ changes'[u] = changes[u]
  BY <1>1 DEF LogoutRegular, TypeInv
<1>5. ASSUME NEW u \in regular PROVE row'[u].version = row[u].version + 1
  <2>1. row[u] \in Row BY <1>1 DEF TypeInv, Sane
  <2> QED BY <1>3, <2>1 DEF Bumped, Row
<1>6. TokensFresh'
  <2>1. \A u \in Users : \/ row'[u].version = row[u].version /\ changes'[u] = changes[u]
                         \/ row'[u].version = row[u].version + 1
    BY <1>4, <1>5
  <2> QED BY <1>1, <1>2, <2>1, TokensKept DEF SerialInv
<1>7. Managed'
  <2>1. PICK m \in Users : Manager(row[m]) BY <1>1 DEF SerialInv, Managed
  <2>2. row'[m] = row[m] BY <1>4, <2>1 DEF Manager
  <2>3. Manager(row'[m]) BY <2>1, <2>2
  <2> QED BY <2>3 DEF Managed
<1>8. Touches(h, regular)
  <2>1. ASSUME NEW u \in regular PROVE Alone(h, u)
    <3>1. u = request[h].actor \/ u \notin Claimed BY DEF LogoutRegular
    <3> QED BY <1>1, <1>2, <3>1, UnclaimedAlone, OwnAccountsAlone DEF Accts
  <2> HIDE DEF regular
  <2> QED BY <1>2, <1>4, <2>1 DEF Touches
<1>9. GoesOn(h, Quiet) BY QuietIsTyped DEF GoesOn
<1> HIDE DEF regular
<1> QED BY <1>1, <1>2, <1>6, <1>7, <1>8, <1>9, HandlerStep

LEMMA RequestFailsSerial ==
    ASSUME Inv, TypeInv', SerialInv, NEW h \in Handlers, RequestFails(h) PROVE SerialInv'
<1>1. UNCHANGED <<row, today, tokens, scan, changes>> /\ request' = [request EXCEPT ![h] = Quiet]
  BY DEF RequestFails
<1>2. TokensFresh' /\ Managed' BY <1>1, NothingSaved
<1>3. Touches(h, {}) BY <1>1 DEF Touches
<1>4. GoesOn(h, Quiet) BY QuietIsTyped DEF GoesOn
<1> QED BY <1>1, <1>2, <1>3, <1>4, HandlerStep DEF Inv

\* A step of the scan w, which goes on with the copies f.
LEMMA ScanStep ==
    ASSUME TypeInv, TypeInv', SerialInv, NEW w \in Scanners, NEW f,
           scan' = [scan EXCEPT ![w] = f], UNCHANGED <<today, request>>,
           \A u \in Users : u \notin DOMAIN scan[w] \/ u \in DOMAIN f =>
              row'[u] = row[u] /\ changes'[u] = changes[u],
           \A u \in DOMAIN f : /\ f[u] = row[u] /\ ExpiredBy(row[u], today)
                               /\ u \in DOMAIN scan[w] \/ u \notin Claimed,
           TokensFresh', Managed'
    PROVE  SerialInv'
<1>1. scan'[w] = f /\ \A v \in Scanners : v # w => scan'[v] = scan[v] BY DEF TypeInv
<1>2. \A v \in Scanners : DOMAIN scan[v] \subseteq Users /\ DOMAIN scan'[v] \subseteq Users
  BY DEF TypeInv, Copies
<1>3. ASSUME NEW u \in DOMAIN f
      PROVE  /\ \A h \in Handlers : Busy(h) => u \notin Accts(request[h])
             /\ \A v \in Scanners : v # w => u \notin DOMAIN scan[v]
  <2>1. CASE u \in DOMAIN scan[w] BY <2>1 DEF SerialInv, Apart
  <2>2. CASE u \notin Claimed BY <2>2, Unclaimed
  <2> QED BY <2>1, <2>2
<1>4. Apart' BY <1>1, <1>3 DEF SerialInv, Apart, Busy
<1>5. RequestsFresh'
  <2> SUFFICES ASSUME NEW g \in Handlers, Busy(g)
               PROVE  Fresh(request[g], row', changes', today)
    BY DEF RequestsFresh, Busy
  <2>1. Accts(request[g]) \subseteq Users BY RequestFacts DEF Accts, Busy
  <2>2. \A u \in Accts(request[g]) : row'[u] = row[u] /\ changes'[u] = changes[u]
    BY <2>1 DEF SerialInv, Apart
  <2>3. \A u \in Accts(request[g]) : row[u].until \in Nat BY <2>1, SaneFacts DEF TypeInv
  <2>4. today \in Nat /\ today <= today BY AccountsAssumption DEF TypeInv, Days
  <2>5. Fresh(request[g], row, changes, today) BY DEF SerialInv, RequestsFresh
  <2> QED BY <2>2, <2>3, <2>4, <2>5, FreshKept
<1>6. ScansFresh'
  <2> SUFFICES ASSUME NEW v \in Scanners, NEW u \in DOMAIN scan'[v]
               PROVE  scan'[v][u] = row'[u] /\ ExpiredBy(row'[u], today)
    BY DEF ScansFresh
  <2>1. u \in Users BY <1>2
  <2>2. CASE v = w
    <3>1. u \in DOMAIN f /\ row'[u] = row[u] BY <1>1, <2>1, <2>2
    <3> QED BY <1>1, <2>2, <3>1
  <2>3. CASE v # w
    <3>1. u \in DOMAIN scan[v] /\ u \notin DOMAIN scan[w]
      BY <1>1, <2>3 DEF SerialInv, Apart
    <3>2. row'[u] = row[u] BY <2>1, <3>1
    <3> QED BY <1>1, <2>3, <3>1, <3>2 DEF SerialInv, ScansFresh
  <2> QED BY <2>2, <2>3
<1> QED BY <1>4, <1>5, <1>6 DEF SerialInv

LEMMA ScanSerial ==
    ASSUME Inv, TypeInv', serial, NEW w \in Scanners, Scan(w) PROVE SerialInv'
<1>1. TypeInv /\ SerialInv BY DEF Inv
<1>2. CASE ListBans(w)
  <2>1. PICK batch \in SUBSET Listed : scan' = [scan EXCEPT ![w] = [u \in batch |-> row[u]]]
    BY <1>2 DEF ListBans
  <2>2. UNCHANGED <<row, today, tokens, request, changes>> /\ Listed \cap Claimed = {}
    BY <1>2 DEF ListBans
  <2>3. TokensFresh' /\ Managed' BY <1>1, <2>2, NothingSaved
  <2> DEFINE f == [u \in batch |-> row[u]]
  <2>4. \A u \in DOMAIN f : /\ f[u] = row[u] /\ ExpiredBy(row[u], today)
                            /\ u \in DOMAIN scan[w] \/ u \notin Claimed
    BY <2>2 DEF Listed, BanExpired, ExpiredBy
  <2>5. \A u \in Users : u \notin DOMAIN scan[w] \/ u \in DOMAIN f =>
          row'[u] = row[u] /\ changes'[u] = changes[u]
    BY <2>2
  <2>6. UNCHANGED <<today, request>> /\ scan' = [scan EXCEPT ![w] = f] BY <2>1, <2>2
  <2> HIDE DEF f
  <2> QED BY <1>1, <2>3, <2>4, <2>5, <2>6, ScanStep
<1>3. ASSUME NEW u \in Users, EndBan(w, u) PROVE SerialInv'
  <2> DEFINE f == [v \in DOMAIN scan[w] \ {u} |-> scan[w][v]]
  <2>1. u \in DOMAIN scan[w] /\ scan[w][u] = row[u] /\ ExpiredBy(row[u], today)
    BY <1>1, <1>3 DEF EndBan, SerialInv, ScansFresh
  <2>2. /\ UNCHANGED <<today, tokens, request>> /\ row'[u] = Bumped(Cleared(row[u]))
        /\ \A v \in Users : v # u => row'[v] = row[v] /\ changes'[v] = changes[v]
        /\ scan' = [scan EXCEPT ![w] = f]
    BY <1>1, <1>3, <2>1 DEF EndBan, TypeInv
  <2>3. row'[u].version = row[u].version + 1
    <3>1. row[u] \in Row BY <1>1 DEF TypeInv, Sane
    <3> DEFINE c == Cleared(row[u])
    <3>2. c \in Row /\ c.version = row[u].version BY <3>1 DEF Cleared, Row, Nil
    <3>3. Bumped(c) = [c EXCEPT !.version = c.version + 1] BY DEF Bumped
    <3> HIDE DEF c
    <3>4. Bumped(c).version = row[u].version + 1 BY <3>2, <3>3 DEF Row
    <3> QED BY <2>2, <3>4 DEF c
  <2>4. TokensFresh'
    <3>1. \A v \in Users : \/ row'[v].version = row[v].version /\ changes'[v] = changes[v]
                           \/ row'[v].version = row[v].version + 1
      BY <2>2, <2>3
    <3> QED BY <1>1, <2>2, <3>1, TokensKept DEF SerialInv
  <2>5. Managed'
    <3>1. PICK m \in Users : Manager(row[m]) BY <1>1 DEF SerialInv, Managed
    <3>2. m # u BY <2>1, <3>1 DEF Manager, ExpiredBy
    <3>3. row'[m] = row[m] BY <2>2, <3>2
    <3>4. Manager(row'[m]) BY <3>1, <3>3
    <3> QED BY <3>4 DEF Managed
  <2>6. \A v \in DOMAIN f : /\ f[v] = row[v] /\ ExpiredBy(row[v], today)
                            /\ v \in DOMAIN scan[w] \/ v \notin Claimed
    BY <1>1 DEF SerialInv, ScansFresh
  <2>7. \A v \in Users : v \notin DOMAIN scan[w] \/ v \in DOMAIN f =>
          row'[v] = row[v] /\ changes'[v] = changes[v]
    BY <2>1, <2>2
  <2>8. UNCHANGED <<today, request>> BY <2>2
  <2> HIDE DEF f
  <2> QED BY <1>1, <2>2, <2>4, <2>5, <2>6, <2>7, <2>8, ScanStep
<1>4. CASE ScanFails(w)
  <2>1. UNCHANGED <<row, today, tokens, request, changes>> /\ scan' = [scan EXCEPT ![w] = <<>>]
    BY <1>4 DEF ScanFails
  <2>2. TokensFresh' /\ Managed' BY <1>1, <2>1, NothingSaved
  <2>3. DOMAIN <<>> = {} OBVIOUS
  <2> QED BY <1>1, <2>1, <2>2, <2>3, ScanStep
<1> QED BY <1>2, <1>3, <1>4 DEF Scan

LEMMA IdleSerial ==
    ASSUME Inv, TypeInv', SerialInv, Tick \/ Crash \/ UNCHANGED accountVars PROVE SerialInv'
<1>1. TypeInv BY DEF Inv
<1>2. UNCHANGED <<row, tokens, changes>> BY DEF Tick, Crash, accountVars
<1>3. TokensFresh' /\ Managed' BY <1>2, NothingSaved
<1>4. CASE Crash
  <2>1. \A h \in Handlers : ~Busy(h)' BY <1>4, QuietIsTyped DEF Crash, Busy
  <2>2. \A w \in Scanners : DOMAIN scan'[w] = {}
    <3>1. DOMAIN <<>> = {} OBVIOUS
    <3>2. \A w \in Scanners : scan'[w] = <<>> BY <1>4 DEF Crash
    <3> QED BY <3>1, <3>2
  <2>3. Apart' /\ RequestsFresh' /\ ScansFresh'
    BY <2>1, <2>2 DEF Apart, RequestsFresh, ScansFresh
  <2> QED BY <1>3, <2>3 DEF SerialInv
<1>5. CASE Tick \/ UNCHANGED accountVars
  <2>1. UNCHANGED <<row, request, scan, changes>> BY <1>5 DEF Tick, accountVars
  <2>2. today \in Nat /\ today' \in Nat /\ today <= today'
    BY <1>1, <1>5, AccountsAssumption DEF Tick, accountVars, TypeInv, Days
  <2>3. Apart' BY <2>1 DEF SerialInv, Apart, Busy
  <2>4. RequestsFresh'
    <3> SUFFICES ASSUME NEW g \in Handlers, Busy(g)
                 PROVE  Fresh(request[g], row, changes, today')
      BY <2>1 DEF RequestsFresh, Busy
    <3>1. Accts(request[g]) \subseteq Users BY <1>1, RequestFacts DEF Accts, Busy
    <3>2. \A u \in Accts(request[g]) : row[u].until \in Nat BY <1>1, <3>1, SaneFacts DEF TypeInv
    <3>3. Fresh(request[g], row, changes, today) BY DEF SerialInv, RequestsFresh
    <3> QED BY <2>2, <3>2, <3>3, FreshKept
  <2>5. ScansFresh'
    <3> SUFFICES ASSUME NEW w \in Scanners, NEW u \in DOMAIN scan[w]
                 PROVE  scan[w][u] = row[u] /\ ExpiredBy(row[u], today')
      BY <2>1 DEF ScansFresh
    <3>1. u \in Users BY <1>1 DEF TypeInv, Copies
    <3>2. row[u].until \in Nat BY <1>1, <3>1, SaneFacts DEF TypeInv
    <3>3. scan[w][u] = row[u] /\ ExpiredBy(row[u], today) BY DEF SerialInv, ScansFresh
    <3> QED BY <2>2, <3>2, <3>3 DEF ExpiredBy
  <2> QED BY <1>3, <2>3, <2>4, <2>5 DEF SerialInv
<1> QED BY <1>4, <1>5

LEMMA SerialStays == ASSUME [Next]_accountVars PROVE serial' = serial
<1>1. ASSUME NEW h \in Handlers, Handle(h) PROVE serial' = serial
  <2>1. CASE \/ \E u \in Users : Login(h, u) \/ AdminLogin(h, u)
             \/ \E t \in tokens : Refresh(h, t) \/ \E kind \in Calls : Call(h, t, kind)
    BY <2>1 DEF Login, AdminLogin, Refresh, Call, Arrive
  <2>2. CASE \E u \in Users, kind \in Managing \cup {"role"} :
               \E arg \in Args(kind) : LoadTarget(h, u, kind, arg)
    BY <2>2 DEF LoadTarget
  <2>3. CASE ClearBan(h) \/ LoadSelf(h) \/ ReclearBan(h) BY <2>3 DEF ClearBan, LoadSelf, ReclearBan
  <2>4. CASE Save(h) \/ LogoutRegular(h) \/ RequestFails(h)
    BY <2>4 DEF Save, LogoutRegular, RequestFails
  <2> QED BY <1>1, <2>1, <2>2, <2>3, <2>4 DEF Handle
<1>2. ASSUME NEW w \in Scanners, Scan(w) PROVE serial' = serial
  BY <1>2 DEF Scan, ListBans, EndBan, ScanFails
<1>3. CASE Tick \/ Crash \/ UNCHANGED accountVars BY <1>3 DEF Tick, Crash, accountVars
<1> QED BY <1>1, <1>2, <1>3 DEF Next

LEMMA HandleSerial ==
    ASSUME Inv, TypeInv', serial, NEW h \in Handlers, Handle(h) PROVE SerialInv'
<1>1. TypeInv /\ SerialInv BY DEF Inv
<1>2. CASE \/ \E u \in Users : Login(h, u) \/ AdminLogin(h, u)
           \/ \E t \in tokens : Refresh(h, t) \/ \E kind \in Calls : Call(h, t, kind)
  BY <1>1, <1>2, Arrivals, ArriveSerial
<1>3. ASSUME NEW u \in Users, NEW kind \in Managing \cup {"role"}, NEW arg \in Args(kind),
             LoadTarget(h, u, kind, arg)
      PROVE  SerialInv'
  BY <1>3, ArgsAreAsked, LoadTargetSerial
<1>4. CASE ReclearBan(h) BY <1>1, <1>4 DEF ReclearBan, SerialInv, RequestsFresh, Fresh, Busy
<1> QED BY <1>1, <1>2, <1>3, <1>4, ClearBanSerial, LoadSelfSerial, SaveSerial, LogoutSerial,
           RequestFailsSerial DEF Handle

LEMMA NextInv == ASSUME Inv, [Next]_accountVars PROVE Inv'
<1>1. TypeInv' BY NextTyped DEF Inv
<1>2. ASSUME serial PROVE SerialInv'
  <2>1. SerialInv BY <1>2 DEF Inv
  <2> QED BY <1>1, <1>2, <2>1, HandleSerial, ScanSerial, IdleSerial DEF Next
<1> QED BY <1>1, <1>2, SerialStays DEF Inv

\* A step of requests and scans apart lifts a running ban only to save an unban.
LEMMA BanStep ==
    ASSUME Inv, [Next]_accountVars, serial, NEW u \in Users,
           row[u].banned, row[u].until \notin (1..today), ~row'[u].banned
    PROVE  \E h \in Handlers : /\ request[h].at = "save" /\ request[h].kind = "unban"
                               /\ request[h].target = u /\ request'[h] = Quiet
<1>1. TypeInv /\ SerialInv BY DEF Inv
<1>2. row'[u] # row[u] OBVIOUS
<1>3. row[u].until \in Nat /\ today \in Nat
  <2>1. row[u] \in Sane BY <1>1 DEF TypeInv
  <2> QED BY <1>1, <2>1, SaneFacts, AccountsAssumption DEF TypeInv, Days
<1>4. ~ExpiredBy(row[u], today) BY <1>3 DEF ExpiredBy, Nil
<1>5. ASSUME NEW h \in Handlers, Handle(h)
      PROVE  /\ request[h].at = "save" /\ request[h].kind = "unban"
             /\ request[h].target = u /\ request'[h] = Quiet
  <2>1. CASE \/ \E v \in Users : Login(h, v) \/ AdminLogin(h, v)
             \/ \E t \in tokens : Refresh(h, t) \/ \E kind \in Calls : Call(h, t, kind)
    BY <1>2, <2>1 DEF Login, AdminLogin, Refresh, Call, Arrive
  <2>2. CASE \/ \E v \in Users, kind \in Managing \cup {"role"} :
                  \E arg \in Args(kind) : LoadTarget(h, v, kind, arg)
             \/ LoadSelf(h) \/ RequestFails(h)
    BY <1>2, <2>2 DEF LoadTarget, LoadSelf, RequestFails
  <2>3. CASE ClearBan(h)
    <3>1. row' = [row EXCEPT ![request[h].actor] = request[h].row] BY <2>3 DEF ClearBan
    <3>2. ExpiredBy(row[request[h].actor], today)
      BY <1>1, <2>3 DEF ClearBan, SerialInv, RequestsFresh, Fresh, Busy
    <3> QED BY <1>1, <1>2, <1>4, <3>1, <3>2 DEF TypeInv
  <2>4. CASE ReclearBan(h) BY <1>1, <2>4 DEF ReclearBan, SerialInv, RequestsFresh, Fresh, Busy
  <2>5. CASE Save(h)
    <3>1. row' = [row EXCEPT ![request[h].target] = request[h].row] /\ request[h].at = "save"
          /\ request' = [request EXCEPT ![h] = Quiet]
      BY <2>5 DEF Save
    <3>2. request[h].target = u /\ request[h].row = row'[u]
      BY <1>1, <1>2, <3>1 DEF TypeInv
    <3>3. Pending(request[h], row, changes)
      BY <1>1, <3>1 DEF SerialInv, RequestsFresh, Fresh, Busy
    <3>4. request[h].kind = "unban" BY <3>2, <3>3 DEF Pending
    <3>5. request'[h] = Quiet BY <1>1, <3>1 DEF TypeInv
    <3> QED BY <3>1, <3>2, <3>4, <3>5
  <2>6. CASE LogoutRegular(h)
    <3>1. row'[u] = row[u] \/ row'[u] = Bumped(row[u]) BY <2>6 DEF LogoutRegular
    <3>2. row[u] \in Row BY <1>1 DEF TypeInv, Sane
    <3>3. Bumped(row[u]).banned = row[u].banned BY <3>2 DEF Bumped, Row
    <3> QED BY <3>1, <3>3
  <2> QED BY <1>5, <2>1, <2>2, <2>3, <2>4, <2>5, <2>6 DEF Handle
<1>6. ASSUME NEW w \in Scanners, Scan(w) PROVE FALSE
  <2>1. CASE ListBans(w) \/ ScanFails(w) BY <1>2, <2>1 DEF ListBans, ScanFails
  <2>2. ASSUME NEW v \in Users, EndBan(w, v) PROVE FALSE
    <3>1. v \in DOMAIN scan[w] /\ ExpiredBy(row[v], today)
      BY <1>1, <2>2 DEF EndBan, SerialInv, ScansFresh
    <3>2. v # u BY <1>4, <3>1
    <3> QED BY <1>1, <1>2, <2>2, <3>2 DEF EndBan, TypeInv
  <2> QED BY <1>6, <2>1, <2>2 DEF Scan
<1>7. CASE Tick \/ Crash \/ UNCHANGED accountVars
  BY <1>2, <1>7 DEF Tick, Crash, accountVars
<1> QED BY <1>5, <1>6, <1>7 DEF Next

(***************************************************************************)
(* The theorems.                                                           *)
(***************************************************************************)
\* Every reachable state satisfies the inductive invariant.
THEOREM AccountsInvariant == Spec => []Inv
BY InitInv, NextInv, PTL DEF Spec

\* The rows, the copies, the tokens and the requests keep their types.
THEOREM AccountsTypeCorrect == Spec => []TypeOK
<1>1. Inv => TypeOK
  <2> SUFFICES ASSUME Inv PROVE TypeOK OBVIOUS
  <2>1. TypeInv BY DEF Inv
  <2>2. row \in [Users -> Row] BY <2>1 DEF TypeInv, Sane
  <2>3. ASSUME NEW h \in Handlers
        PROVE  /\ request[h].at \in {"idle", "clear", "load", "reclear", "save"}
               /\ request[h].kind \in SignIns \cup Calls \cup Managing
               /\ {request[h].actor, request[h].target} \subseteq Users \cup {"none"}
               /\ request[h].row \in Row /\ {request[h].version, request[h].since} \subseteq Nat
    BY <2>1, RequestFacts DEF Request, Kinds, Sane
  <2>4. ASSUME NEW w \in Scanners
        PROVE  /\ DOMAIN scan[w] \subseteq Users
               /\ \A u \in DOMAIN scan[w] : scan[w][u] \in Row
    BY <2>1 DEF TypeInv, Copies, Sane
  <2> QED BY <2>1, <2>2, <2>3, <2>4 DEF TypeOK, TypeInv
<1> QED BY <1>1, AccountsInvariant, PTL

\* However stale the copies are that requests and scans save, the displayed
\* status denies no ban and no deletion and invents none.
THEOREM StatusIsConsistent == Spec => []StatusAgrees
<1>1. Inv => StatusAgrees
  <2> SUFFICES ASSUME Inv, NEW u \in Users PROVE Agrees(row[u]) BY DEF StatusAgrees, Agrees
  <2> QED BY SaneFacts DEF Inv, TypeInv
<1> QED BY <1>1, AccountsInvariant, PTL

\* Apart from each other, revoking operations end every session from before.
THEOREM RevocationEndsSessions == Spec => []SerialSessionsEnd
<1>1. Inv => SerialSessionsEnd BY DEF Inv, SerialInv, TokensFresh, SerialSessionsEnd, SessionsEnd
<1> QED BY <1>1, AccountsInvariant, PTL

\* Apart from each other, administrators never remove the last one of them.
THEOREM AdministratorsRemain == Spec => []AdministratorLeft
<1>1. Inv => AdministratorLeft BY DEF Inv, SerialInv, Managed, Manager, AdministratorLeft
<1> QED BY <1>1, AccountsInvariant, PTL

\* Apart from each other, requests and scans leave a running ban alone, except
\* for an administrator's unban.
THEOREM RunningBansHold == Spec => BanHolds
<1>1. ASSUME Inv, [Next]_accountVars
      PROVE  [serial => \A u \in Users :
                row[u].banned /\ row[u].until \notin (1..today) /\ ~row'[u].banned
                  => \E h \in Handlers : /\ request[h].at = "save" /\ request[h].kind = "unban"
                                        /\ request[h].target = u /\ request'[h] = Quiet]_accountVars
  BY <1>1, BanStep
<1> QED BY <1>1, AccountsInvariant, PTL DEF BanHolds, Spec
=============================================================================

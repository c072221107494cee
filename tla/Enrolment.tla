------------------------------ MODULE Enrolment ------------------------------
(***************************************************************************)
(* How accounts come to be: the bootstrap of the first administrator,      *)
(* accounts that a super administrator creates, and registration with an   *)
(* invite under the security policy.                                       *)
(*                                                                         *)
(* Each of these looks first and inserts later.  A registration spends its *)
(* invite in between, by a transaction of its own, and gives it back when  *)
(* the insert is refused; a process that dies in between does not.         *)
(*                                                                         *)
(* Passwords, e-mail domains and notes are pure checks of the input, and   *)
(* left out.  The bootstrap token is the operator's, and taken as given.   *)
(***************************************************************************)
EXTENDS Integers, FiniteSets

CONSTANTS
    Clerks,             \* goroutines that serve requests
    Names,              \* usernames as they are typed
    CanonicalUsername,  \* CanonicalUsername[n]: trimmed, in lower case
    Invites,            \* invites, and at once the codes that were handed out
    MaxUses,            \* how many uses an invite may be created with
    ValidDays,          \* for how many days it may be created
    ManagedRoles,       \* roles that an administrator gives a new account
    Policies,           \* policies that an administrator may want
    LastDay             \* bound on the days that pass

NoCode == "no code"
AdminRoles == {"super_admin", "admin", "support"}
Policy == [open: BOOLEAN, status: {"normal", "risk"}]

ASSUME EnrolmentAssumption ==
    /\ CanonicalUsername \in [Names -> Names]
    /\ \A n \in Names : CanonicalUsername[CanonicalUsername[n]] = CanonicalUsername[n]
    /\ MaxUses \subseteq Nat \ {0} /\ ValidDays \subseteq Nat \ {0}
    /\ Policies \subseteq Policy /\ ManagedRoles \subseteq AdminRoles \cup {"user"}
    /\ IsFiniteSet(Clerks)
    /\ LastDay \in Nat /\ NoCode \notin Invites

VARIABLES
    accounts,  \* the rows of users
    invites,   \* invites[i]: the row of registration_invites, for those created
    policy,    \* the security policy in system_settings
    clerk,     \* clerk[c]: how far the request that c serves has come
    day,       \* the wall clock, in days
    lost       \* lost[i]: uses of i that a crash or a failed release left behind
               \*          (history)

enrolmentVars == <<accounts, invites, policy, clerk, day, lost>>

Account == [id: Nat, name: Names, role: AdminRoles \cup {"user"},
            status: {"normal", "risk"}, via: Invites \cup {NoCode}]
Invite  == [code: Invites \cup {NoCode}, maxUses: Nat, uses: Nat, until: Nat,
            disabled: BOOLEAN]
Free    == [at |-> "idle", kind |-> "none"]
-----------------------------------------------------------------------------
\* Faulty: names are taken as they are typed.
Canonical_AsTyped(typed) == typed

\* identity.CanonicalUsername, which every path applies before it looks or stores.
Canonical(typed) == CanonicalUsername[typed]

\* FindByUsername, and the index on the canonical name.
NameTaken(name) == \E a \in accounts : CanonicalUsername[a.name] = name

AdminCount == Cardinality({a \in accounts : a.role \in AdminRoles})

\* RequireAdminRole, as router.go applies it.
Staffed(roles) == \E a \in accounts : a.role \in roles

\* Faulty: one use too many.
AvailableAt_OneMore(i) ==
    /\ ~i.disabled /\ i.until > day
    /\ i.uses <= i.maxUses

AvailableAt(i) ==
    /\ ~i.disabled /\ i.until > day
    /\ i.uses < i.maxUses

Goes(c, q) == clerk' = [clerk EXCEPT ![c] = q]
-----------------------------------------------------------------------------
(***************************************************************************)
(* Requests.  A clerk is "idle" or about to                                *)
(*   find     look whether the name is taken                               *)
(*   consume  spend a use of the invite                                    *)
(*   insert   create the account                                           *)
(*   release  give the use back                                            *)
(*   upsert   store the security policy                                    *)
(* The name and the code are chosen where they are first used.             *)
(***************************************************************************)
\* Register reads the policy, which always demands an invite (Normalize).
BeginRegister(c) ==
    /\ clerk[c].at = "idle" /\ policy.open
    /\ Goes(c, [at |-> "find", kind |-> "register", role |-> "user",
                status |-> policy.status])
    /\ UNCHANGED <<accounts, invites, policy, day, lost>>

BeginManaged(c, role) ==
    /\ clerk[c].at = "idle" /\ Staffed({"super_admin"})
    /\ Goes(c, [at |-> "find", kind |-> "managed", role |-> role, status |-> "normal"])
    /\ UNCHANGED <<accounts, invites, policy, day, lost>>

\* BootstrapSuperAdmin counts the administrators first.
BeginBootstrap(c) ==
    /\ clerk[c].at = "idle" /\ AdminCount = 0
    /\ Goes(c, [at |-> "find", kind |-> "bootstrap", role |-> "super_admin",
                status |-> "normal"])
    /\ UNCHANGED <<accounts, invites, policy, day, lost>>

FindName(c, typed) ==
    LET q == clerk[c]
        name == Canonical(typed)
    IN  /\ q.at = "find"
        /\ Goes(c, IF NameTaken(name) THEN Free
                   ELSE [at |-> IF q.kind = "register" THEN "consume" ELSE "insert",
                         kind |-> q.kind, role |-> q.role, status |-> q.status,
                         name |-> name, code |-> NoCode])
        /\ UNCHANGED <<accounts, invites, policy, day, lost>>

\* Consume: the row with this code is locked, judged and written back.
Consume(c, code) ==
    LET hits == {i \in DOMAIN invites : invites[i].code = code /\ AvailableAt(invites[i])}
    IN  /\ clerk[c].at = "consume"
        /\ invites' = [i \in DOMAIN invites |->
                         [invites[i] EXCEPT !.uses = @ + (IF i \in hits THEN 1 ELSE 0)]]
        /\ Goes(c, IF hits = {} THEN Free
                   ELSE [clerk[c] EXCEPT !.at = "insert", !.code = code])
        /\ UNCHANGED <<accounts, policy, day, lost>>

\* Faulty: the use of a refused registration is kept.
Refused_NotReleased(q) == Free

\* A refused insert: a registration has a use to give back.
Refused(q) == IF q.kind = "register" THEN [q EXCEPT !.at = "release"] ELSE Free

Added(q) == accounts \cup {[id |-> Cardinality(accounts) + 1, name |-> q.name,
                            role |-> q.role, status |-> q.status, via |-> q.code]}

\* Faulty: no index on the canonical name.
Insert_NoIndex(c) ==
    /\ clerk[c].at = "insert"
    /\ accounts' = Added(clerk[c]) /\ Goes(c, Free)
    /\ UNCHANGED <<invites, policy, day, lost>>

Insert(c) ==
    /\ clerk[c].at = "insert"
    /\ \/ ~NameTaken(clerk[c].name) /\ accounts' = Added(clerk[c]) /\ Goes(c, Free)
       \/ NameTaken(clerk[c].name) /\ Goes(c, Refused(clerk[c])) /\ UNCHANGED accounts
    /\ UNCHANGED <<invites, policy, day, lost>>

Release(c) ==
    LET hits == {i \in DOMAIN invites : invites[i].code = clerk[c].code /\ invites[i].uses > 0}
    IN  /\ clerk[c].at = "release"
        /\ invites' = [i \in DOMAIN invites |->
                         [invites[i] EXCEPT !.uses = @ - (IF i \in hits THEN 1 ELSE 0)]]
        /\ Goes(c, Free)
        /\ UNCHANGED <<accounts, policy, day, lost>>

\* A statement fails without effect.  A failed Release is ignored.
EnrolmentFails(c) ==
    LET q == clerk[c]
    IN  /\ q.at # "idle"
        /\ Goes(c, IF q.at = "insert" THEN Refused(q) ELSE Free)
        /\ lost' = [i \in Invites |->
                      lost[i] + (IF q.at = "release" /\ q.code = i THEN 1 ELSE 0)]
        /\ UNCHANGED <<accounts, invites, policy, day>>
-----------------------------------------------------------------------------
CreateInvite(i, uses, days) ==
    /\ Staffed({"super_admin", "admin"})
    /\ i \notin DOMAIN invites
    /\ invites' = [j \in DOMAIN invites \cup {i} |->
                     IF j = i THEN [code |-> i, maxUses |-> uses, uses |-> 0,
                                    until |-> day + days, disabled |-> FALSE]
                              ELSE invites[j]]
    /\ UNCHANGED <<accounts, policy, clerk, day, lost>>

\* Revoke, once the row exists.
DisableInvite(i) ==
    /\ Staffed({"super_admin", "admin"})
    /\ i \in DOMAIN invites
    /\ invites' = [invites EXCEPT ![i].disabled = TRUE]
    /\ UNCHANGED <<accounts, policy, clerk, day, lost>>

\* UpdateSecurityPolicy edits the fields that the request names in a copy ...
EditPolicy(c, edited) ==
    /\ clerk[c].at = "idle" /\ Staffed({"super_admin", "admin"})
    /\ edited.open = policy.open \/ edited.status = policy.status
    /\ Goes(c, [at |-> "upsert", kind |-> "policy", policy |-> edited])
    /\ UNCHANGED <<accounts, invites, policy, day, lost>>

\* ... and stores the whole copy.
UpsertPolicy(c) ==
    /\ clerk[c].at = "upsert"
    /\ policy' = clerk[c].policy
    /\ Goes(c, Free)
    /\ UNCHANGED <<accounts, invites, day, lost>>

NextDay ==
    /\ day < LastDay
    /\ day' = day + 1
    /\ UNCHANGED <<accounts, invites, policy, clerk, lost>>

\* The clerks that hold a use of i without an account for it yet.
Holding(i) == {c \in Clerks : clerk[c].at \in {"insert", "release"} /\ clerk[c].code = i}

\* The process dies; the uses that its requests hold stay spent.
EnrolmentCrash ==
    /\ clerk' = [c \in Clerks |-> Free]
    /\ lost' = [i \in Invites |-> lost[i] + Cardinality(Holding(i))]
    /\ UNCHANGED <<accounts, invites, policy, day>>
-----------------------------------------------------------------------------
EnrolmentInit ==
    /\ accounts = {}
    /\ invites = <<>>
    /\ policy = [open |-> TRUE, status |-> "normal"]
    /\ clerk = [c \in Clerks |-> Free]
    /\ day = 0
    /\ lost = [i \in Invites |-> 0]

EnrolmentNext ==
    \/ \E c \in Clerks :
         \/ BeginRegister(c) \/ BeginBootstrap(c)
         \/ \E role \in ManagedRoles : BeginManaged(c, role)
         \/ \E typed \in Names : FindName(c, typed)
         \/ \E code \in Invites : Consume(c, code)
         \/ Insert(c) \/ Release(c) \/ EnrolmentFails(c)
         \/ \E edited \in Policies : EditPolicy(c, edited)
         \/ UpsertPolicy(c)
    \/ \E i \in Invites : DisableInvite(i)
                          \/ \E uses \in MaxUses, days \in ValidDays : CreateInvite(i, uses, days)
    \/ NextDay \/ EnrolmentCrash

EnrolmentSpec == EnrolmentInit /\ [][EnrolmentNext]_enrolmentVars
-----------------------------------------------------------------------------
EnrolmentTypeOK ==
    /\ accounts \subseteq Account
    /\ \A a \in accounts : CanonicalUsername[a.name] = a.name
    /\ DOMAIN invites \subseteq Invites
    /\ \A i \in DOMAIN invites : invites[i] \in Invite
    /\ policy \in Policy
    /\ \A c \in Clerks :
         /\ clerk[c].at \in {"idle", "find", "consume", "insert", "release", "upsert"}
         /\ clerk[c].kind \in {"none", "register", "managed", "bootstrap", "policy"}
    /\ day \in 0..LastDay
    /\ lost \in [Invites -> Nat]

EnrolledWith(i) == {a \in accounts : a.via = i}

\* Every use of an invite is an account, a registration that still decides, or
\* one that a crash or a failed release left behind: a registration that is
\* refused costs the invite nothing, and none is given back twice.
UsesAccountedFor ==
    \A i \in DOMAIN invites :
      invites[i].uses = Cardinality(EnrolledWith(i)) + Cardinality(Holding(i)) + lost[i]

\* However registrations race for an invite, no more accounts come of it than
\* it was created for, the ones still in flight included.
NoOveruse ==
    \A i \in DOMAIN invites :
      Cardinality(EnrolledWith(i)) + Cardinality(Holding(i)) <= invites[i].maxUses

\* Registration, managed creation and bootstrap race for a name: one account
\* has it in the end, however the name was typed.
OneAccountPerName ==
    \A a, b \in accounts : CanonicalUsername[a.name] = CanonicalUsername[b.name] => a = b
=============================================================================

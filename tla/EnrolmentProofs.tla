--------------------------- MODULE EnrolmentProofs ---------------------------
(***************************************************************************)
(* One account per name and no use of an invite unaccounted for, for any   *)
(* number of requests, names and invites and any budget of uses.           *)
(*                                                                         *)
(* The argument: a request that has spent a use carries the code of an     *)
(* invite that exists, so the uses are counted exactly by the accounts of  *)
(* the invite, the requests that hold one and the losses; uses never       *)
(* exceed the maximum; and an insert is refused by the index itself, not   *)
(* by the look that came before it.                                        *)
(***************************************************************************)
EXTENDS Enrolment, FiniteSetTheorems, TLAPS

(***************************************************************************)
(* The inductive invariant.                                                *)
(***************************************************************************)
Kinds  == {"register", "managed", "bootstrap"}
Asking == [at: {"find"}, kind: Kinds, role: AdminRoles \cup {"user"},
           status: {"normal", "risk"}]
Named  == [at: {"consume", "insert", "release"}, kind: Kinds,
           role: AdminRoles \cup {"user"}, status: {"normal", "risk"},
           name: Names, code: Invites \cup {NoCode}]
Editing == [at: {"upsert"}, kind: {"policy"}, policy: Policy]
State   == {Free} \cup Asking \cup Named \cup Editing

\* A request on its way: its name is canonical, and its code is that of an
\* invite that exists exactly when a registration has spent a use.
Sound(q) ==
    q.at \in {"consume", "insert", "release"} =>
      /\ CanonicalUsername[q.name] = q.name
      /\ q.at \in {"consume", "release"} => q.kind = "register"
      /\ q.at \in {"insert", "release"} =>
           IF q.kind = "register" THEN q.code \in DOMAIN invites ELSE q.code = NoCode

ClerkInv == clerk \in [Clerks -> State] /\ \A c \in Clerks : Sound(clerk[c])

AccountInv ==
    /\ IsFiniteSet(accounts) /\ accounts \subseteq Account
    /\ \A a \in accounts : /\ CanonicalUsername[a.name] = a.name
                           /\ a.id <= Cardinality(accounts)
                           /\ a.via \in DOMAIN invites \cup {NoCode}

InviteInv ==
    /\ DOMAIN invites \subseteq Invites
    /\ \A i \in DOMAIN invites :
         invites[i] \in Invite /\ invites[i].code = i /\ invites[i].uses <= invites[i].maxUses

RestInv ==
    /\ policy \in Policy /\ day \in 0..LastDay /\ lost \in [Invites -> Nat]
    /\ \A i \in Invites \ DOMAIN invites : lost[i] = 0

Inv == ClerkInv /\ AccountInv /\ InviteInv /\ RestInv /\ OneAccountPerName /\ UsesAccountedFor

(***************************************************************************)
(* Lemmas about the sets that are counted.                                 *)
(***************************************************************************)
\* The uses in flight and the accounts of an invite are finite.
LEMMA CountedSetsFinite ==
    ASSUME IsFiniteSet(accounts), NEW i
    PROVE  /\ IsFiniteSet(Holding(i)) /\ Cardinality(Holding(i)) \in Nat
           /\ IsFiniteSet(EnrolledWith(i)) /\ Cardinality(EnrolledWith(i)) \in Nat
<1>1. Holding(i) \in SUBSET Clerks BY DEF Holding
<1>2. EnrolledWith(i) \in SUBSET accounts BY DEF EnrolledWith
<1>3. IsFiniteSet(Clerks) BY EnrolmentAssumption
<1>4. IsFiniteSet(Holding(i)) /\ IsFiniteSet(EnrolledWith(i)) BY <1>1, <1>2, <1>3, FS_Subset
<1> QED BY <1>4, FS_CardinalityType

\* A request that takes up a use adds itself to those that hold one.
LEMMA HoldingTaken ==
    ASSUME clerk \in [Clerks -> State], IsFiniteSet(accounts), NEW c \in Clerks, NEW q,
           Goes(c, q), q.at \in {"insert", "release"}, NEW i,
           clerk[c].at \notin {"insert", "release"}
    PROVE  Cardinality(Holding(i)') = Cardinality(Holding(i)) + (IF q.code = i THEN 1 ELSE 0)
<1>1. c \notin Holding(i) BY DEF Holding
<1>2. CASE q.code = i
  <2>1. Holding(i)' = Holding(i) \cup {c} BY <1>2 DEF Holding, Goes
  <2> QED BY <1>1, <1>2, <2>1, CountedSetsFinite, FS_AddElement
<1>3. CASE q.code # i
  <2>1. Holding(i)' = Holding(i) BY <1>1, <1>3 DEF Holding, Goes
  <2> QED BY <1>3, <2>1, CountedSetsFinite
<1> QED BY <1>2, <1>3

\* A request that is over or has begun anew holds nothing.
LEMMA HoldingEnded ==
    ASSUME clerk \in [Clerks -> State], IsFiniteSet(accounts), NEW c \in Clerks, NEW q,
           Goes(c, q), q.at \notin {"insert", "release"}, NEW i
    PROVE  Cardinality(Holding(i)') = Cardinality(Holding(i)) - (IF c \in Holding(i) THEN 1 ELSE 0)
<1>1. Holding(i)' = Holding(i) \ {c} BY DEF Holding, Goes
<1>2. IsFiniteSet(Holding(i)) /\ Cardinality(Holding(i)) \in Nat BY CountedSetsFinite
<1>3. Cardinality(Holding(i) \ {c})
        = IF c \in Holding(i) THEN Cardinality(Holding(i)) - 1 ELSE Cardinality(Holding(i))
  BY <1>2, FS_RemoveElement
<1> QED BY <1>1, <1>2, <1>3

\* Others do not notice a step that keeps the code and the use.
LEMMA HoldingKept ==
    ASSUME clerk \in [Clerks -> State], NEW c \in Clerks, NEW q, Goes(c, q), NEW i,
           clerk[c].at \in {"insert", "release"}, q.at \in {"insert", "release"},
           q.code = clerk[c].code
    PROVE  Holding(i)' = Holding(i)
BY DEF Holding, Goes

\* Nobody holds a use of an invite that does not exist, and no account came of it.
LEMMA NothingOfUnborn ==
    ASSUME ClerkInv, AccountInv, InviteInv, NEW i \in Invites \ DOMAIN invites
    PROVE  Holding(i) = {} /\ EnrolledWith(i) = {}
<1>1. NoCode \notin Invites BY EnrolmentAssumption
<1>2. Holding(i) = {}
  <2> SUFFICES ASSUME NEW c \in Holding(i) PROVE FALSE OBVIOUS
  <2>1. c \in Clerks /\ Sound(clerk[c]) /\ clerk[c].at \in {"insert", "release"}
        /\ clerk[c].code = i
    BY DEF Holding, ClerkInv
  <2> QED BY <1>1, <2>1 DEF Sound
<1>3. EnrolledWith(i) = {} BY <1>1 DEF EnrolledWith, AccountInv
<1> QED BY <1>2, <1>3

(***************************************************************************)
(* The initial state.                                                      *)
(***************************************************************************)
LEMMA InitInv == EnrolmentInit => Inv
<1> SUFFICES ASSUME EnrolmentInit PROVE Inv OBVIOUS
<1> USE EnrolmentAssumption DEF EnrolmentInit
<1>1. DOMAIN invites = {} OBVIOUS
<1>2. ClerkInv BY DEF ClerkInv, State, Sound, Free
<1>3. AccountInv
  <2>1. IsFiniteSet(accounts) BY FS_EmptySet
  <2> QED BY <2>1 DEF AccountInv
<1>4. InviteInv BY <1>1 DEF InviteInv
<1>5. RestInv BY DEF RestInv, Policy
<1>6. OneAccountPerName /\ UsesAccountedFor BY <1>1 DEF OneAccountPerName, UsesAccountedFor
<1> QED BY <1>2, <1>3, <1>4, <1>5, <1>6 DEF Inv

(***************************************************************************)
(* The steps.                                                              *)
(***************************************************************************)
\* A step that moves one request on, and spends, gives back and loses nothing.
LEMMA QuietStep ==
    ASSUME Inv, NEW c \in Clerks, NEW q \in State, Goes(c, q), Sound(q),
           UNCHANGED <<accounts, invites, day, lost>>, policy' \in Policy,
           \A i \in DOMAIN invites : Cardinality(Holding(i)') = Cardinality(Holding(i))
    PROVE  Inv'
<1>1. ClerkInv' BY DEF Inv, ClerkInv, Goes, Sound
<1>2. AccountInv' /\ InviteInv' /\ RestInv' BY DEF Inv, AccountInv, InviteInv, RestInv
<1>3. OneAccountPerName' BY DEF Inv, OneAccountPerName
<1>4. UsesAccountedFor' BY DEF Inv, UsesAccountedFor, EnrolledWith
<1> QED BY <1>1, <1>2, <1>3, <1>4 DEF Inv

\* A request that begins or ends while it holds no use.
LEMMA FreeStep ==
    ASSUME Inv, NEW c \in Clerks, NEW q \in State, Goes(c, q), Sound(q),
           q.at \notin {"insert", "release"},
           clerk[c].at \notin {"insert", "release"} \/ clerk[c].code = NoCode,
           UNCHANGED <<accounts, invites, day, lost>>, policy' \in Policy
    PROVE  Inv'
<1>1. \A i \in DOMAIN invites : c \notin Holding(i)
  BY EnrolmentAssumption DEF Holding, Inv, InviteInv
<1>2. ASSUME NEW i \in DOMAIN invites
      PROVE  Cardinality(Holding(i)') = Cardinality(Holding(i))
  <2>1. Holding(i)' = Holding(i) BY <1>1 DEF Holding, Goes, Inv, ClerkInv
  <2> QED BY <2>1
<1> QED BY <1>2, QuietStep

LEMMA BeginInv ==
    ASSUME Inv, NEW c \in Clerks,
           \/ BeginRegister(c) \/ BeginBootstrap(c)
           \/ \E role \in ManagedRoles : BeginManaged(c, role)
           \/ \E edited \in Policies : EditPolicy(c, edited)
    PROVE  Inv'
<1> USE DEF Inv, RestInv
<1>1. ASSUME NEW q \in Asking \cup Editing, Goes(c, q), clerk[c].at = "idle",
             UNCHANGED <<accounts, invites, policy, day, lost>>
      PROVE  Inv'
  <2>1. q \in State /\ q.at \in {"find", "upsert"} BY <1>1 DEF State, Asking, Editing
  <2>2. Sound(q) BY <2>1 DEF Sound
  <2> HIDE DEF Inv
  <2>3. policy' \in Policy BY <1>1 DEF Inv
  <2> QED BY <1>1, <2>1, <2>2, <2>3, FreeStep
<1>2. CASE BeginRegister(c)
  <2>1. [at |-> "find", kind |-> "register", role |-> "user", status |-> policy.status] \in Asking
    BY DEF Asking, Kinds, Policy
  <2> QED BY <1>1, <1>2, <2>1 DEF BeginRegister
<1>3. CASE BeginBootstrap(c)
  <2>1. [at |-> "find", kind |-> "bootstrap", role |-> "super_admin", status |-> "normal"] \in Asking
    BY DEF Asking, Kinds, AdminRoles
  <2> QED BY <1>1, <1>3, <2>1 DEF BeginBootstrap
<1>4. ASSUME NEW role \in ManagedRoles, BeginManaged(c, role) PROVE Inv'
  <2>1. [at |-> "find", kind |-> "managed", role |-> role, status |-> "normal"] \in Asking
    BY EnrolmentAssumption DEF Asking, Kinds
  <2> QED BY <1>1, <1>4, <2>1 DEF BeginManaged
<1>5. ASSUME NEW edited \in Policies, EditPolicy(c, edited) PROVE Inv'
  <2>1. [at |-> "upsert", kind |-> "policy", policy |-> edited] \in Editing
    BY EnrolmentAssumption DEF Editing
  <2> QED BY <1>1, <1>5, <2>1 DEF EditPolicy
<1> QED BY <1>2, <1>3, <1>4, <1>5

\* The request that c serves, when it has come as far as a name.
LEMMA NamedClerk ==
    ASSUME Inv, NEW c \in Clerks, clerk[c].at \in {"consume", "insert", "release"}
    PROVE  clerk[c] \in Named /\ Sound(clerk[c])
BY DEF Inv, ClerkInv, State, Free, Asking, Named, Editing

LEMMA FreeIsSound == Free \in State /\ Sound(Free) /\ Free.at = "idle"
BY DEF Free, State, Sound

LEMMA FindNameInv ==
    ASSUME Inv, NEW c \in Clerks, NEW typed \in Names, FindName(c, typed)
    PROVE  Inv'
<1> DEFINE name == Canonical(typed)
           found == [at |-> IF clerk[c].kind = "register" THEN "consume" ELSE "insert",
                     kind |-> clerk[c].kind, role |-> clerk[c].role,
                     status |-> clerk[c].status, name |-> name, code |-> NoCode]
<1>1. clerk[c].at = "find" /\ UNCHANGED <<accounts, invites, policy, day, lost>>
      /\ policy' \in Policy
  BY DEF FindName, Inv, RestInv
<1>2. CASE Goes(c, Free) BY <1>1, <1>2, FreeIsSound, FreeStep
<1>3. CASE Goes(c, found)
  <2>1. clerk[c] \in Asking BY <1>1 DEF Inv, ClerkInv, State, Free, Named, Editing
  <2>2. name \in Names /\ CanonicalUsername[name] = name BY EnrolmentAssumption DEF Canonical
  <2>3. found \in Named BY <2>1, <2>2 DEF Asking, Named
  <2>4. found.code = NoCode /\ found.name = name /\ found.kind = clerk[c].kind
        /\ found.at = IF clerk[c].kind = "register" THEN "consume" ELSE "insert"
    OBVIOUS
  <2> HIDE DEF found, name
  <2>5. found \in State /\ Sound(found) BY <2>2, <2>3, <2>4 DEF Sound, State
  <2>6. ASSUME NEW i \in DOMAIN invites
        PROVE  Cardinality(Holding(i)') = Cardinality(Holding(i))
    <3>1. i # NoCode BY EnrolmentAssumption DEF Inv, InviteInv
    <3>2. Holding(i)' = Holding(i) BY <1>1, <1>3, <2>4, <3>1 DEF Holding, Goes, Inv, ClerkInv
    <3> QED BY <3>2
  <2> QED BY <1>1, <1>3, <2>5, <2>6, QuietStep
<1> QED BY <1>2, <1>3 DEF FindName

LEMMA UpsertInv ==
    ASSUME Inv, NEW c \in Clerks, UpsertPolicy(c)
    PROVE  Inv'
<1>1. clerk[c] \in Editing
  BY DEF UpsertPolicy, Inv, ClerkInv, State, Free, Asking, Named
<1>2. policy' \in Policy BY <1>1 DEF UpsertPolicy, Editing
<1> QED BY <1>2, FreeIsSound, FreeStep DEF UpsertPolicy

\* A use is spent under the row's lock, on an invite that has one left.
LEMMA ConsumeInv ==
    ASSUME Inv, NEW c \in Clerks, NEW code \in Invites, Consume(c, code)
    PROVE  Inv'
<1> DEFINE hits == {i \in DOMAIN invites : invites[i].code = code /\ AvailableAt(invites[i])}
           taken == [clerk[c] EXCEPT !.at = "insert", !.code = code]
<1>1. clerk[c] \in Named /\ Sound(clerk[c]) /\ clerk[c].at = "consume"
  BY NamedClerk DEF Consume
<1>2. CASE hits = {}
  <2>1. \A i \in DOMAIN invites : invites'[i] = invites[i]
    BY <1>2 DEF Consume, Inv, InviteInv, Invite
  <2>2. DOMAIN invites' = DOMAIN invites BY DEF Consume
  <2>3. Goes(c, Free) BY <1>2 DEF Consume
  <2>4. ASSUME NEW i PROVE Holding(i)' = Holding(i)
    BY <1>1, <2>3 DEF Holding, Goes, Free, Inv, ClerkInv
  <2>5. ClerkInv'
    <3>1. ASSUME NEW d \in Clerks PROVE Sound(clerk[d])'
      BY <2>2, <2>3, FreeIsSound DEF Inv, ClerkInv, Goes, Sound
    <3> QED BY <3>1, <2>3, FreeIsSound DEF Inv, ClerkInv, Goes
  <2>6. AccountInv' BY <2>2 DEF Consume, Inv, AccountInv
  <2>7. InviteInv' BY <2>1, <2>2 DEF Inv, InviteInv
  <2>8. RestInv' BY <2>2 DEF Consume, Inv, RestInv
  <2>9. OneAccountPerName' BY DEF Consume, Inv, OneAccountPerName
  <2>10. UsesAccountedFor'
    BY <2>1, <2>2, <2>4 DEF Consume, Inv, UsesAccountedFor, EnrolledWith
  <2> QED BY <2>5, <2>6, <2>7, <2>8, <2>9, <2>10 DEF Inv
<1>3. CASE hits # {}
  <2>1. hits = {code} /\ code \in DOMAIN invites BY <1>3 DEF Inv, InviteInv
  <2>2. \A i \in DOMAIN invites :
          invites'[i] = [invites[i] EXCEPT !.uses = @ + (IF i = code THEN 1 ELSE 0)]
    BY <2>1 DEF Consume
  <2>3. DOMAIN invites' = DOMAIN invites BY DEF Consume
  <2>4. Goes(c, taken) BY <1>3 DEF Consume
  <2>5. taken \in Named /\ taken.at = "insert" /\ taken.code = code
        /\ taken.kind = "register" /\ CanonicalUsername[taken.name] = taken.name
    BY <1>1 DEF Named, Sound
  <2> HIDE DEF taken
  <2>6. ASSUME NEW i \in DOMAIN invites
        PROVE  Cardinality(Holding(i)') = Cardinality(Holding(i)) + (IF code = i THEN 1 ELSE 0)
    BY <1>1, <2>4, <2>5, HoldingTaken DEF Inv, ClerkInv, AccountInv
  <2>7. invites[code].uses < invites[code].maxUses BY <2>1 DEF AvailableAt
  <2>8. ClerkInv'
    <3>1. clerk'[c] = taken /\ \A d \in Clerks \ {c} : clerk'[d] = clerk[d]
      BY <2>4 DEF Inv, ClerkInv, Goes
    <3>2. ASSUME NEW d \in Clerks PROVE Sound(clerk[d])'
      <4>1. CASE d = c BY <2>1, <2>3, <2>5, <3>1, <4>1 DEF Sound
      <4>2. CASE d # c BY <2>3, <3>1, <4>2 DEF Inv, ClerkInv, Sound
      <4> QED BY <4>1, <4>2
    <3> QED BY <3>2, <2>4, <2>5 DEF Inv, ClerkInv, Goes, State
  <2>9. AccountInv' BY <2>3 DEF Consume, Inv, AccountInv
  <2>10. InviteInv'
    <3>1. ASSUME NEW i \in DOMAIN invites
          PROVE  invites'[i] \in Invite /\ invites'[i].code = i
                 /\ invites'[i].uses <= invites'[i].maxUses
      <4>1. invites[i] \in Invite /\ invites[i].code = i /\ invites[i].uses <= invites[i].maxUses
        BY DEF Inv, InviteInv
      <4>2. CASE i = code
        <5>1. invites'[i] = [invites[i] EXCEPT !.uses = invites[i].uses + 1] BY <2>2, <4>2
        <5>2. invites[i].uses + 1 <= invites[i].maxUses BY <2>7, <4>1, <4>2 DEF Invite
        <5> QED BY <4>1, <5>1, <5>2 DEF Invite
      <4>3. CASE i # code BY <2>2, <4>1, <4>3 DEF Invite
      <4> QED BY <4>2, <4>3
    <3> QED BY <2>3, <3>1 DEF Inv, InviteInv
  <2>11. RestInv' BY <2>3 DEF Consume, Inv, RestInv
  <2>12. OneAccountPerName' BY DEF Consume, Inv, OneAccountPerName
  <2>13. UsesAccountedFor'
    <3>1. ASSUME NEW i \in DOMAIN invites
          PROVE  invites'[i].uses = Cardinality(EnrolledWith(i)') + Cardinality(Holding(i)') + lost'[i]
      <4>1. invites'[i].uses = invites[i].uses + (IF i = code THEN 1 ELSE 0)
        BY <2>2 DEF Inv, InviteInv, Invite
      <4>2. EnrolledWith(i)' = EnrolledWith(i) /\ lost'[i] = lost[i]
        BY DEF Consume, EnrolledWith
      <4>3. invites[i].uses = Cardinality(EnrolledWith(i)) + Cardinality(Holding(i)) + lost[i]
        BY DEF Inv, UsesAccountedFor
      <4>4. Cardinality(EnrolledWith(i)) \in Nat /\ Cardinality(Holding(i)) \in Nat /\ lost[i] \in Nat
        BY CountedSetsFinite DEF Inv, AccountInv, RestInv, InviteInv
      <4> QED BY <2>6, <4>1, <4>2, <4>3, <4>4
    <3> QED BY <2>3, <3>1 DEF UsesAccountedFor
  <2> QED BY <2>8, <2>9, <2>10, <2>11, <2>12, <2>13 DEF Inv
<1> QED BY <1>2, <1>3

\* A refused insert leaves the use with a registration that will release it.
LEMMA RefusedInv ==
    ASSUME Inv, NEW c \in Clerks, clerk[c].at = "insert", Goes(c, Refused(clerk[c])),
           UNCHANGED <<accounts, invites, policy, day, lost>>
    PROVE  Inv'
<1>1. clerk[c] \in Named /\ Sound(clerk[c]) BY NamedClerk
<1>2. policy' \in Policy BY DEF Inv, RestInv
<1>3. CASE clerk[c].kind = "register"
  <2> DEFINE q == [clerk[c] EXCEPT !.at = "release"]
  <2>1. q \in Named /\ q.at = "release" /\ q.code = clerk[c].code /\ q.kind = "register"
        /\ q.name = clerk[c].name
    BY <1>1, <1>3 DEF Named
  <2>2. Goes(c, q) BY <1>3 DEF Refused
  <2> HIDE DEF q
  <2>3. q \in State /\ Sound(q) BY <1>1, <1>3, <2>1 DEF Sound, State
  <2>4. ASSUME NEW i \in DOMAIN invites
        PROVE  Cardinality(Holding(i)') = Cardinality(Holding(i))
    <3>1. Holding(i)' = Holding(i) BY <2>1, <2>2, HoldingKept DEF Inv, ClerkInv
    <3> QED BY <3>1
  <2> QED BY <1>2, <2>2, <2>3, <2>4, QuietStep
<1>4. CASE clerk[c].kind # "register"
  <2>1. clerk[c].code = NoCode BY <1>1, <1>4 DEF Sound
  <2>2. Goes(c, Free) BY <1>4 DEF Refused
  <2> QED BY <1>2, <2>1, <2>2, FreeIsSound, FreeStep
<1> QED BY <1>3, <1>4

\* The step that ends a request keeps the others as they were.
LEMMA EndedClerks ==
    ASSUME Inv, NEW c \in Clerks, Goes(c, Free), DOMAIN invites' = DOMAIN invites
    PROVE  ClerkInv'
<1>1. clerk'[c] = Free /\ \A d \in Clerks \ {c} : clerk'[d] = clerk[d]
  BY DEF Inv, ClerkInv, Goes
<1>2. ASSUME NEW d \in Clerks PROVE Sound(clerk[d])'
  <2>1. CASE d = c BY <1>1, <2>1, FreeIsSound DEF Sound
  <2>2. CASE d # c BY <1>1, <2>2 DEF Inv, ClerkInv, Sound
  <2> QED BY <2>1, <2>2
<1> QED BY <1>2, FreeIsSound DEF Inv, ClerkInv, Goes

\* The use that a request held turns into the account it has created.
LEMMA InsertInv ==
    ASSUME Inv, NEW c \in Clerks, Insert(c)
    PROVE  Inv'
<1> DEFINE q   == clerk[c]
           new == [id |-> Cardinality(accounts) + 1, name |-> q.name, role |-> q.role,
                   status |-> q.status, via |-> q.code]
<1>1. q \in Named /\ Sound(q) /\ q.at = "insert" BY NamedClerk DEF Insert
<1>2. UNCHANGED <<invites, policy, day, lost>> BY DEF Insert
<1>3. CASE NameTaken(q.name)
  BY <1>1, <1>2, <1>3, RefusedInv DEF Insert
<1>4. CASE ~NameTaken(q.name)
  <2>1. accounts' = accounts \cup {new} /\ Goes(c, Free) BY <1>4 DEF Insert, Added
  <2>2. IsFiniteSet(accounts) /\ Cardinality(accounts) \in Nat
    BY FS_CardinalityType DEF Inv, AccountInv
  <2>3. new \in Account /\ new.name = q.name /\ new.via = q.code
        /\ new.id = Cardinality(accounts) + 1
    BY <1>1, <2>2 DEF Named, Account
  <2>4. q.code \in DOMAIN invites \cup {NoCode} /\ CanonicalUsername[q.name] = q.name
    BY <1>1 DEF Sound
  <2> HIDE DEF new
  <2>5. new \notin accounts BY <2>2, <2>3 DEF Inv, AccountInv
  <2>6. IsFiniteSet(accounts') /\ Cardinality(accounts') = Cardinality(accounts) + 1
    BY <2>1, <2>2, <2>5, FS_AddElement
  <2>7. ClerkInv' BY <1>2, <2>1, EndedClerks
  <2>8. AccountInv'
    <3>1. ASSUME NEW a \in accounts'
          PROVE  /\ a \in Account /\ CanonicalUsername[a.name] = a.name
                 /\ a.id <= Cardinality(accounts') /\ a.via \in DOMAIN invites' \cup {NoCode}
      <4>1. CASE a = new BY <1>2, <2>2, <2>3, <2>4, <2>6, <4>1
      <4>2. CASE a \in accounts
        <5>1. a \in Account /\ a.id <= Cardinality(accounts) BY <4>2 DEF Inv, AccountInv
        <5>2. a.id <= Cardinality(accounts') BY <2>2, <2>6, <5>1 DEF Account
        <5> QED BY <1>2, <4>2, <5>1, <5>2 DEF Inv, AccountInv
      <4> QED BY <2>1, <4>1, <4>2
    <3> QED BY <2>6, <3>1 DEF AccountInv
  <2>9. InviteInv' /\ RestInv' BY <1>2 DEF Inv, InviteInv, RestInv
  <2>10. OneAccountPerName'
    BY <1>4, <2>1, <2>3, <2>4 DEF NameTaken, Inv, OneAccountPerName
  <2>11. UsesAccountedFor'
    <3>1. ASSUME NEW i \in DOMAIN invites
          PROVE  invites[i].uses = Cardinality(EnrolledWith(i)') + Cardinality(Holding(i)') + lost[i]
      <4>1. Cardinality(Holding(i)') = Cardinality(Holding(i)) - (IF q.code = i THEN 1 ELSE 0)
        <5>1. c \in Holding(i) <=> q.code = i BY <1>1 DEF Holding
        <5> QED BY <2>1, <5>1, FreeIsSound, HoldingEnded DEF Inv, ClerkInv, AccountInv
      <4>2. IsFiniteSet(EnrolledWith(i)) /\ Cardinality(EnrolledWith(i)) \in Nat
            /\ Cardinality(Holding(i)) \in Nat
        BY CountedSetsFinite DEF Inv, AccountInv
      <4>3. Cardinality(EnrolledWith(i)')
              = Cardinality(EnrolledWith(i)) + (IF q.code = i THEN 1 ELSE 0)
        <5>1. CASE q.code = i
          <6>1. EnrolledWith(i)' = EnrolledWith(i) \cup {new}
            BY <2>1, <2>3, <5>1 DEF EnrolledWith
          <6>2. new \notin EnrolledWith(i) BY <2>5 DEF EnrolledWith
          <6> QED BY <4>2, <5>1, <6>1, <6>2, FS_AddElement
        <5>2. CASE q.code # i
          <6>1. EnrolledWith(i)' = EnrolledWith(i) BY <2>1, <2>3, <5>2 DEF EnrolledWith
          <6> QED BY <4>2, <5>2, <6>1
        <5> QED BY <5>1, <5>2
      <4>4. invites[i].uses = Cardinality(EnrolledWith(i)) + Cardinality(Holding(i)) + lost[i]
        BY DEF Inv, UsesAccountedFor
      <4>5. lost[i] \in Nat BY DEF Inv, InviteInv, RestInv
      <4> QED BY <4>1, <4>2, <4>3, <4>4, <4>5
    <3> QED BY <1>2, <3>1 DEF UsesAccountedFor
  <2> QED BY <2>7, <2>8, <2>9, <2>10, <2>11 DEF Inv
<1> QED BY <1>3, <1>4

\* A use that is given back was held: the guard on zero never bites.
LEMMA ReleaseInv ==
    ASSUME Inv, NEW c \in Clerks, Release(c)
    PROVE  Inv'
<1> DEFINE q == clerk[c]
           hits == {i \in DOMAIN invites : invites[i].code = q.code /\ invites[i].uses > 0}
<1>1. q \in Named /\ Sound(q) /\ q.at = "release" BY NamedClerk DEF Release
<1>2. Goes(c, Free) /\ DOMAIN invites' = DOMAIN invites
      /\ UNCHANGED <<accounts, policy, day, lost>>
  BY DEF Release
<1>3. \A i \in DOMAIN invites : c \in Holding(i) <=> q.code = i BY <1>1 DEF Holding
<1>4. ASSUME NEW i \in DOMAIN invites
      PROVE  /\ invites[i] \in Invite /\ invites[i].code = i
             /\ invites[i].uses <= invites[i].maxUses
             /\ invites[i].uses = Cardinality(EnrolledWith(i)) + Cardinality(Holding(i)) + lost[i]
             /\ Cardinality(EnrolledWith(i)) \in Nat /\ Cardinality(Holding(i)) \in Nat
             /\ IsFiniteSet(Holding(i)) /\ lost[i] \in Nat
  BY CountedSetsFinite DEF Inv, AccountInv, InviteInv, RestInv, UsesAccountedFor
<1>5. ASSUME NEW i \in DOMAIN invites, q.code = i PROVE invites[i].uses > 0
  <2>1. Holding(i) # {} BY <1>3, <1>5
  <2>2. Cardinality(Holding(i)) # 0 BY <1>4, <2>1, FS_EmptySet
  <2> QED BY <1>4, <2>2
<1>6. \A i \in DOMAIN invites : i \in hits <=> q.code = i BY <1>4, <1>5
<1>7. \A i \in DOMAIN invites :
        invites'[i] = [invites[i] EXCEPT !.uses = @ - (IF i \in hits THEN 1 ELSE 0)]
  BY DEF Release
<1> HIDE DEF hits
<1>8. ASSUME NEW i \in DOMAIN invites
      PROVE  /\ invites'[i] \in Invite /\ invites'[i].code = i
             /\ invites'[i].uses <= invites'[i].maxUses
             /\ invites'[i].uses = invites[i].uses - (IF q.code = i THEN 1 ELSE 0)
  <2>1. CASE q.code = i
    <3>1. invites'[i] = [invites[i] EXCEPT !.uses = invites[i].uses - 1] BY <1>6, <1>7, <2>1
    <3> QED BY <1>4, <1>5, <2>1, <3>1 DEF Invite
  <2>2. CASE q.code # i
    <3>1. invites'[i] = [invites[i] EXCEPT !.uses = invites[i].uses - 0] BY <1>6, <1>7, <2>2
    <3> QED BY <1>4, <2>2, <3>1 DEF Invite
  <2> QED BY <2>1, <2>2
<1>9. ClerkInv' BY <1>2, EndedClerks
<1>10. AccountInv' /\ RestInv' BY <1>2 DEF Inv, AccountInv, RestInv
<1>11. InviteInv' BY <1>2, <1>8 DEF Inv, InviteInv
<1>12. OneAccountPerName' BY <1>2 DEF Inv, OneAccountPerName
<1>13. UsesAccountedFor'
  <2>1. ASSUME NEW i \in DOMAIN invites
        PROVE  invites'[i].uses = Cardinality(EnrolledWith(i)') + Cardinality(Holding(i)') + lost'[i]
    <3>1. Cardinality(Holding(i)') = Cardinality(Holding(i)) - (IF q.code = i THEN 1 ELSE 0)
      BY <1>2, <1>3, FreeIsSound, HoldingEnded DEF Inv, ClerkInv, AccountInv
    <3>2. EnrolledWith(i)' = EnrolledWith(i) BY <1>2 DEF EnrolledWith
    <3> QED BY <1>2, <1>4, <1>8, <3>1, <3>2
  <2> QED BY <1>2, <2>1 DEF UsesAccountedFor
<1> QED BY <1>9, <1>10, <1>11, <1>12, <1>13 DEF Inv

LEMMA FailsInv ==
    ASSUME Inv, NEW c \in Clerks, EnrolmentFails(c)
    PROVE  Inv'
<1> DEFINE q == clerk[c]
<1>1. q.at # "idle" /\ UNCHANGED <<accounts, invites, policy, day>>
      /\ lost' = [i \in Invites |-> lost[i] + (IF q.at = "release" /\ q.code = i THEN 1 ELSE 0)]
  BY DEF EnrolmentFails
<1>2. lost \in [Invites -> Nat] /\ policy' \in Policy BY <1>1 DEF Inv, RestInv
<1>3. CASE q.at # "release"
  <2>1. lost' = lost
    <3>1. lost' = [i \in Invites |-> lost[i] + 0] BY <1>1, <1>3
    <3>2. \A i \in Invites : lost[i] + 0 = lost[i] BY <1>2
    <3> QED BY <1>2, <3>1, <3>2
  <2>2. CASE q.at = "insert"
    BY <1>1, <2>1, <2>2, RefusedInv DEF EnrolmentFails
  <2>3. CASE q.at # "insert"
    BY <1>1, <1>2, <1>3, <2>1, <2>3, FreeIsSound, FreeStep DEF EnrolmentFails
  <2> QED BY <2>2, <2>3
<1>4. CASE q.at = "release"
  <2>1. Goes(c, Free) BY <1>4 DEF EnrolmentFails
  <2>2. q \in Named /\ Sound(q) BY <1>4, NamedClerk
  <2>3. q.code \in DOMAIN invites /\ DOMAIN invites \subseteq Invites
    BY <1>4, <2>2 DEF Sound, Inv, InviteInv
  <2>4. ClerkInv' BY <1>1, <2>1, EndedClerks
  <2>5. AccountInv' /\ InviteInv' /\ OneAccountPerName'
    BY <1>1 DEF Inv, AccountInv, InviteInv, OneAccountPerName
  <2>6. \A i \in Invites : lost'[i] \in Nat /\ (i # q.code => lost'[i] = lost[i])
    BY <1>1, <1>2
  <2>7. RestInv'
    <3>1. lost' \in [Invites -> Nat] BY <1>1, <2>6
    <3>2. \A i \in Invites \ DOMAIN invites : lost'[i] = 0 BY <2>3, <2>6 DEF Inv, RestInv
    <3> QED BY <1>1, <3>1, <3>2 DEF Inv, RestInv
  <2>8. UsesAccountedFor'
    <3>1. ASSUME NEW i \in DOMAIN invites
          PROVE  invites[i].uses = Cardinality(EnrolledWith(i)') + Cardinality(Holding(i)') + lost'[i]
      <4>1. c \in Holding(i) <=> q.code = i BY <1>4 DEF Holding
      <4>2. Cardinality(Holding(i)') = Cardinality(Holding(i)) - (IF q.code = i THEN 1 ELSE 0)
        BY <2>1, <4>1, FreeIsSound, HoldingEnded DEF Inv, ClerkInv, AccountInv
      <4>3. EnrolledWith(i)' = EnrolledWith(i) BY <1>1 DEF EnrolledWith
      <4>4. invites[i].uses = Cardinality(EnrolledWith(i)) + Cardinality(Holding(i)) + lost[i]
        BY DEF Inv, UsesAccountedFor
      <4>5. Cardinality(EnrolledWith(i)) \in Nat /\ Cardinality(Holding(i)) \in Nat
            /\ lost[i] \in Nat
        BY <1>2, <2>3, CountedSetsFinite DEF Inv, AccountInv
      <4>6. lost'[i] = lost[i] + (IF q.code = i THEN 1 ELSE 0) BY <1>1, <1>4, <2>3
      <4> QED BY <4>2, <4>3, <4>4, <4>5, <4>6
    <3> QED BY <1>1, <3>1 DEF UsesAccountedFor
  <2> QED BY <2>4, <2>5, <2>7, <2>8 DEF Inv
<1> QED BY <1>3, <1>4

LEMMA CreateInviteInv ==
    ASSUME Inv, NEW i \in Invites, NEW uses \in MaxUses, NEW days \in ValidDays,
           CreateInvite(i, uses, days)
    PROVE  Inv'
<1> DEFINE born == [code |-> i, maxUses |-> uses, uses |-> 0, until |-> day + days,
                    disabled |-> FALSE]
<1>1. i \notin DOMAIN invites /\ UNCHANGED <<accounts, policy, clerk, day, lost>>
      /\ DOMAIN invites' = DOMAIN invites \cup {i} /\ invites'[i] = born
      /\ \A j \in DOMAIN invites : invites'[j] = invites[j]
  BY DEF CreateInvite
<1>2. born \in Invite /\ born.code = i /\ born.uses <= born.maxUses /\ born.uses = 0
  BY EnrolmentAssumption DEF Invite, Inv, RestInv
<1> HIDE DEF born
<1>3. ClerkInv'
  <2>1. ASSUME NEW c \in Clerks PROVE Sound(clerk[c])'
    BY <1>1 DEF Inv, ClerkInv, Sound
  <2> QED BY <1>1, <2>1 DEF Inv, ClerkInv
<1>4. AccountInv' /\ OneAccountPerName' BY <1>1 DEF Inv, AccountInv, OneAccountPerName
<1>5. InviteInv' BY <1>1, <1>2 DEF Inv, InviteInv
<1>6. RestInv' BY <1>1 DEF Inv, RestInv
<1>7. UsesAccountedFor'
  <2>1. Holding(i) = {} /\ EnrolledWith(i) = {} /\ lost[i] = 0
    BY <1>1, NothingOfUnborn DEF Inv, RestInv
  <2>2. \A j : Holding(j)' = Holding(j) /\ EnrolledWith(j)' = EnrolledWith(j)
    BY <1>1 DEF Holding, EnrolledWith
  <2>3. ASSUME NEW j \in DOMAIN invites'
        PROVE  invites'[j].uses = Cardinality(EnrolledWith(j)') + Cardinality(Holding(j)') + lost'[j]
    <3>1. CASE j = i BY <1>1, <1>2, <2>1, <2>2, <3>1, FS_EmptySet
    <3>2. CASE j # i BY <1>1, <2>2, <3>2 DEF Inv, UsesAccountedFor
    <3> QED BY <3>1, <3>2
  <2> QED BY <2>3 DEF UsesAccountedFor
<1> QED BY <1>3, <1>4, <1>5, <1>6, <1>7 DEF Inv

LEMMA DisableInviteInv ==
    ASSUME Inv, NEW i \in Invites, DisableInvite(i)
    PROVE  Inv'
<1>1. DOMAIN invites' = DOMAIN invites /\ UNCHANGED <<accounts, policy, clerk, day, lost>>
      /\ \A j \in DOMAIN invites :
           invites'[j] = IF j = i THEN [invites[j] EXCEPT !.disabled = TRUE] ELSE invites[j]
  BY DEF DisableInvite
<1>2. ASSUME NEW j \in DOMAIN invites
      PROVE  /\ invites'[j] \in Invite /\ invites'[j].code = j
             /\ invites'[j].uses <= invites'[j].maxUses /\ invites'[j].uses = invites[j].uses
  <2>1. /\ invites[j] \in Invite /\ invites[j].code = j
        /\ invites[j].uses <= invites[j].maxUses
    BY DEF Inv, InviteInv
  <2>2. CASE j = i
    <3>1. invites'[j] = [invites[j] EXCEPT !.disabled = TRUE] BY <1>1, <2>2
    <3> QED BY <2>1, <3>1 DEF Invite
  <2>3. CASE j # i BY <1>1, <2>1, <2>3
  <2> QED BY <2>2, <2>3
<1>3. ClerkInv'
  <2>1. ASSUME NEW c \in Clerks PROVE Sound(clerk[c])'
    BY <1>1 DEF Inv, ClerkInv, Sound
  <2> QED BY <1>1, <2>1 DEF Inv, ClerkInv
<1>4. AccountInv' /\ OneAccountPerName' /\ RestInv'
  BY <1>1 DEF Inv, AccountInv, OneAccountPerName, RestInv
<1>5. InviteInv' BY <1>1, <1>2 DEF Inv, InviteInv
<1>6. UsesAccountedFor'
  BY <1>1, <1>2 DEF Inv, UsesAccountedFor, Holding, EnrolledWith
<1> QED BY <1>3, <1>4, <1>5, <1>6 DEF Inv

LEMMA CrashInv == ASSUME Inv, EnrolmentCrash PROVE Inv'
<1>1. UNCHANGED <<accounts, invites, policy, day>> /\ clerk' = [c \in Clerks |-> Free]
      /\ lost' = [i \in Invites |-> lost[i] + Cardinality(Holding(i))]
  BY DEF EnrolmentCrash
<1>2. ClerkInv'
  <2>1. ASSUME NEW c \in Clerks PROVE Sound(clerk[c])' BY <1>1, FreeIsSound DEF Sound
  <2> QED BY <1>1, <2>1, FreeIsSound DEF ClerkInv
<1>3. AccountInv' /\ InviteInv' /\ OneAccountPerName'
  BY <1>1 DEF Inv, AccountInv, InviteInv, OneAccountPerName
<1>4. \A i \in Invites : Cardinality(Holding(i)) \in Nat /\ Cardinality(EnrolledWith(i)) \in Nat
                         /\ lost[i] \in Nat
  BY CountedSetsFinite DEF Inv, AccountInv, RestInv
<1>5. RestInv'
  <2>1. lost' \in [Invites -> Nat] BY <1>1, <1>4
  <2>2. ASSUME NEW i \in Invites \ DOMAIN invites PROVE lost'[i] = 0
    <3>1. Holding(i) = {} /\ lost[i] = 0 BY NothingOfUnborn DEF Inv, RestInv
    <3>2. Cardinality({}) = 0 BY FS_EmptySet
    <3> QED BY <1>1, <3>1, <3>2
  <2> QED BY <1>1, <2>1, <2>2 DEF Inv, RestInv
<1>6. UsesAccountedFor'
  <2>1. ASSUME NEW i \in DOMAIN invites
        PROVE  invites[i].uses = Cardinality(EnrolledWith(i)') + Cardinality(Holding(i)') + lost'[i]
    <3>1. Holding(i)' = {} BY <1>1 DEF Holding, Free
    <3>2. EnrolledWith(i)' = EnrolledWith(i) BY <1>1 DEF EnrolledWith
    <3>3. i \in Invites BY DEF Inv, InviteInv
    <3>4. invites[i].uses = Cardinality(EnrolledWith(i)) + Cardinality(Holding(i)) + lost[i]
      BY DEF Inv, UsesAccountedFor
    <3>5. Cardinality({}) = 0 BY FS_EmptySet
    <3> QED BY <1>1, <1>4, <3>1, <3>2, <3>3, <3>4, <3>5
  <2> QED BY <1>1, <2>1 DEF UsesAccountedFor
<1> QED BY <1>2, <1>3, <1>5, <1>6 DEF Inv

LEMMA NextDayInv ==
    ASSUME Inv, NextDay \/ UNCHANGED enrolmentVars PROVE Inv'
<1>1. UNCHANGED <<accounts, invites, policy, clerk, lost>> /\ day' \in 0..LastDay
  BY EnrolmentAssumption DEF NextDay, enrolmentVars, Inv, RestInv
<1>2. ClerkInv'
  <2>1. ASSUME NEW c \in Clerks PROVE Sound(clerk[c])' BY <1>1 DEF Inv, ClerkInv, Sound
  <2> QED BY <1>1, <2>1 DEF Inv, ClerkInv
<1>3. AccountInv' /\ InviteInv' /\ OneAccountPerName' /\ RestInv'
  BY <1>1 DEF Inv, AccountInv, InviteInv, OneAccountPerName, RestInv
<1>4. UsesAccountedFor' BY <1>1 DEF Inv, UsesAccountedFor, Holding, EnrolledWith
<1> QED BY <1>2, <1>3, <1>4 DEF Inv

LEMMA NextInv == ASSUME Inv, [EnrolmentNext]_enrolmentVars PROVE Inv'
BY BeginInv, FindNameInv, ConsumeInv, InsertInv, ReleaseInv, FailsInv, UpsertInv,
   CreateInviteInv, DisableInviteInv, CrashInv, NextDayInv
DEF EnrolmentNext

(***************************************************************************)
(* The theorems.                                                           *)
(***************************************************************************)
\* Every reachable state satisfies the inductive invariant.
THEOREM EnrolmentInvariant == EnrolmentSpec => []Inv
BY InitInv, NextInv, PTL DEF EnrolmentSpec

\* The rows, the policy and the requests keep their types.
THEOREM EnrolmentTypeCorrect == EnrolmentSpec => []EnrolmentTypeOK
<1>1. Inv => EnrolmentTypeOK
  <2> SUFFICES ASSUME Inv PROVE EnrolmentTypeOK OBVIOUS
  <2>1. ASSUME NEW c \in Clerks
        PROVE  /\ clerk[c].at \in {"idle", "find", "consume", "insert", "release", "upsert"}
               /\ clerk[c].kind \in {"none", "register", "managed", "bootstrap", "policy"}
    BY DEF Inv, ClerkInv, State, Free, Asking, Named, Editing, Kinds
  <2> QED BY <2>1 DEF EnrolmentTypeOK, Inv, AccountInv, InviteInv, RestInv
<1> QED BY <1>1, EnrolmentInvariant, PTL

\* However registrations, managed creation and the bootstrap interleave and
\* crash, one account has a name.
THEOREM NamesAreUnique == EnrolmentSpec => []OneAccountPerName
<1>1. Inv => OneAccountPerName BY DEF Inv
<1> QED BY <1>1, EnrolmentInvariant, PTL

\* Every use of an invite is an account, a request in flight or a loss.
THEOREM UsesAreAccountedFor == EnrolmentSpec => []UsesAccountedFor
<1>1. Inv => UsesAccountedFor BY DEF Inv
<1> QED BY <1>1, EnrolmentInvariant, PTL

\* No more accounts come of an invite than it was created for.
THEOREM InvitesAreNotOverused == EnrolmentSpec => []NoOveruse
<1>1. Inv => NoOveruse
  <2> SUFFICES ASSUME Inv, NEW i \in DOMAIN invites
               PROVE  Cardinality(EnrolledWith(i)) + Cardinality(Holding(i)) <= invites[i].maxUses
    BY DEF NoOveruse
  <2>1. invites[i] \in Invite /\ invites[i].uses <= invites[i].maxUses /\ lost[i] \in Nat
    BY DEF Inv, InviteInv, RestInv
  <2>2. invites[i].uses = Cardinality(EnrolledWith(i)) + Cardinality(Holding(i)) + lost[i]
    BY DEF Inv, UsesAccountedFor
  <2>3. Cardinality(EnrolledWith(i)) \in Nat /\ Cardinality(Holding(i)) \in Nat
    BY CountedSetsFinite DEF Inv, AccountInv
  <2> QED BY <2>1, <2>2, <2>3 DEF Invite
<1> QED BY <1>1, EnrolmentInvariant, PTL
=============================================================================

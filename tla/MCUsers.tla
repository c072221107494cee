------------------------------- MODULE MCUsers -------------------------------
(***************************************************************************)
(* The two components that write the table of users, and the limiter that  *)
(* stands before their routes, each on its own.  The first two meet only   *)
(* in the rows that enrolment creates, which are those that Accounts       *)
(* starts from (FirstRole, FirstStatus); the limiter only takes requests   *)
(* away.  part says which one runs; the others stay as they began.         *)
(***************************************************************************)
EXTENDS Accounts, Enrolment, RateLimiter, TLC

CONSTANT Parts

VARIABLE part

FirstRoles  == [u \in Users |-> IF u = "root" THEN "super_admin" ELSE "user"]
FirstStates == [u \in Users |-> IF u = "root" THEN "normal" ELSE "risk"]
Bounds      == [u \in Users |-> IF u = "root" THEN 1 ELSE 3]
LowerCase   == [n \in Names |-> IF n = "Ann" THEN "ann" ELSE n]
Closed      == {[open |-> FALSE, status |-> "normal"]}

UsersInit ==
    /\ Init /\ EnrolmentInit /\ LimiterInit
    /\ part \in Parts /\ (part # "accounts" => serial)

UsersNext ==
    \/ part = "accounts" /\ Next /\ UNCHANGED <<enrolmentVars, limiterVars, part>>
    \/ part = "enrolment" /\ EnrolmentNext /\ UNCHANGED <<accountVars, limiterVars, part>>
    \/ part = "limiter" /\ LimiterNext /\ UNCHANGED <<accountVars, enrolmentVars, part>>

UsersSpec ==
    UsersInit /\ [][UsersNext]_<<accountVars, enrolmentVars, limiterVars, part>> /\ Fairness
=============================================================================

------------------------------ MODULE MCAccounts ------------------------------
(***************************************************************************)
(* A super administrator and a user who may be promoted.                   *)
(***************************************************************************)
EXTENDS Accounts, TLC

FirstRoles == [u \in Users |-> IF u = "root" THEN "super_admin" ELSE "user"]
FirstStates == [u \in Users |-> IF u = "root" THEN "normal" ELSE "risk"]
TwoEach    == [u \in Users |-> IF u = "root" THEN 1 ELSE 2]
=============================================================================

------------------------------- MODULE MCBackup -------------------------------
(***************************************************************************)
(* One administrator and two invites.                                      *)
(***************************************************************************)
EXTENDS Backup, TLC

AsTyped == [n \in Names |-> n]
Closed  == {[open |-> FALSE, status |-> "normal"]}
=============================================================================

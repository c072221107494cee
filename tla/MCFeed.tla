------------------------------- MODULE MCFeed --------------------------------
(***************************************************************************)
(* Small instances of SyncFeed: two rows, two writers, one device, as      *)
(* devices only meet in the server's rows, which they do not change.       *)
(***************************************************************************)
EXTENDS SyncFeed, TLC

Symmetry == Permutations(Ids) \cup Permutations(Transactions)
=============================================================================

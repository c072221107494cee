---------------------------- MODULE AssetLifecycle ----------------------------
(***************************************************************************)
(* What the configuration service promises about each asset of a user, as  *)
(* internal/model/server_config.go and the lifecycle service state it:     *)
(*                                                                         *)
(*     none -> active -> deleted -> purged -> none                         *)
(*                  <- restore -                                           *)
(*                                                                         *)
(* While an asset exists its vector clock only moves forward, a deleted    *)
(* asset comes back through an explicit restore alone, and a purged asset  *)
(* stays purged until its tombstone is reclaimed.                          *)
(***************************************************************************)
EXTENDS VectorClock

CONSTANT Assets

VARIABLES phase,    \* phase[a]: where asset a is in its life
          version   \* version[a]: its vector clock

lifecycleVars == <<phase, version>>

Phases == {"none", "active", "deleted", "purged"}

LifecycleInit ==
    /\ phase = [a \in Assets |-> "none"]
    /\ version = [a \in Assets |-> EmptyClock]

\* Asset a goes from a phase of "from" to phase "to"; no other asset moves.
Step(a, from, to) ==
    /\ phase[a] \in from
    /\ phase' = [phase EXCEPT ![a] = to]
    /\ version'[a] \in Clock
    /\ version' = [version EXCEPT ![a] = version'[a]]

Move(a, from, to) == Step(a, from, to) /\ Newer(version'[a], version[a])

\* A new asset has whatever clock its first upload brings.
Create(a)  == Step(a, {"none"}, "active")
Edit(a)    == Move(a, {"active"}, "active")
Delete(a)  == Move(a, {"active", "deleted"}, "deleted")
Restore(a) == Move(a, {"deleted"}, "active")
Purge(a)   == Move(a, {"deleted"}, "purged")

\* The ciphertexts of a set of assets, deleted ones included, change format.
Reencrypt(some) ==
    /\ \A a \in some : phase[a] \in {"active", "deleted"} /\ Newer(version'[a], version[a])
    /\ version' \in [Assets -> Clock]
    /\ \A a \in Assets \ some : version'[a] = version[a]
    /\ UNCHANGED phase

\* The tombstones of a set of purged assets are physically reclaimed.
Reclaim(gone) ==
    /\ \A a \in gone : phase[a] = "purged"
    /\ phase' = [a \in Assets |-> IF a \in gone THEN "none" ELSE phase[a]]
    /\ version' = [a \in Assets |-> IF a \in gone THEN EmptyClock ELSE version[a]]

LifecycleNext ==
    \/ \E gone \in SUBSET Assets : Reclaim(gone)
    \/ \E a \in Assets : Create(a) \/ Edit(a) \/ Delete(a) \/ Restore(a) \/ Purge(a)
    \/ \E some \in SUBSET Assets : Reencrypt(some)

LifecycleSpec == LifecycleInit /\ [][LifecycleNext]_lifecycleVars
=============================================================================

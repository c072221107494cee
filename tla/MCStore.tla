------------------------------- MODULE MCStore -------------------------------
(***************************************************************************)
(* Small instances of ConfigStore: two devices whose counters go to 3, one *)
(* or two assets, and the uploads and operations they may send.            *)
(***************************************************************************)
EXTENDS ConfigStore, TLC

CONSTANTS a1, a2, d1, d2, b1

C(x, y) == [k \in Actors |-> IF k = d1 THEN x ELSE IF k = d2 THEN y ELSE 0]

Up(id, a, b, c) == [id |-> id, asset |-> a, blob |-> b, clock |-> c]
Op(k, a, c) == [kind |-> k, asset |-> a, clock |-> c]

\* Two assets that expire; their edits are of no interest.
TrashUploads == {Up(0, a1, b1, C(1,0)), Up(0, a2, b1, C(1,0))}

TrashIntents ==
    {Op("delete", a1, C(2,0)), Op("delete", a2, C(2,0)), Op("restore", a1, C(3,0)),
     Op("delete", a1, C(4,0))}

\* Assets that are deleted, on the same day or on two, and left to the sweeps
\* unless a client is the first to purge.
LeavingIntents ==
    {Op("delete", a1, C(2,0)), Op("delete", a2, C(2,0)), Op("purge", a1, C(3,0))}

OneUpload == {Up(0, a1, b1, C(1,0))}
OneDelete == {Op("delete", a1, C(2,0))}

\* Old clients, which name rows, beside new ones, which bind them to assets.
MixedUploads ==
    {Up(0, NoAsset, b1, C(1,0)), Up(0, a1, b1, C(1,0)), Up(1, NoAsset, b1, C(0,1)),
     Up(1, a1, b1, C(1,0)), Up(2, a1, b1, C(2,0))}

MixedIntents == {Op("delete", a1, C(2,1)), Op("restore", a1, C(3,3))}

Symmetry == Permutations(Ops) \cup Permutations(Handlers) \cup Permutations(Workers)
=============================================================================

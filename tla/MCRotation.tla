------------------------------ MODULE MCRotation ------------------------------
(***************************************************************************)
(* A small instance of KeyRotation.  A ciphertext is written "text key     *)
(* format"; two devices upload, delete and restore assets while clients    *)
(* re-encrypt them.                                                        *)
(***************************************************************************)
EXTENDS KeyRotation, TLC

CONSTANTS a1, a2, d1, d2

C(x, y) == [k \in Actors |-> IF k = d1 THEN x ELSE IF k = d2 THEN y ELSE 0]

Clients == {1, 2}
Seal(t, k, f) == ToString(<<t, k, f>>)
Sealings == {1, 2} \X {0, 1, 2} \X {"v1", "OTC2"}
AllBlobs == {Seal(s[1], s[2], s[3]) : s \in Sealings}
Opened == [b \in AllBlobs |-> CHOOSE s \in Sealings : Seal(s[1], s[2], s[3]) = b]
BlobText   == [b \in AllBlobs |-> Opened[b][1]]
BlobKey    == [b \in AllBlobs |-> Opened[b][2]]
BlobFormat == [b \in AllBlobs |-> Opened[b][3]]

Up(a, t, k, c) == [id |-> 0, asset |-> a, blob |-> Seal(t, k, "v1"), clock |-> c]
Op(k, a, c) == [kind |-> k, asset |-> a, clock |-> c]

\* a1 is created and edited under the first key, a2 under that of a rotation.
Uploads ==
    {Up(a1, 1, 0, C(1,0)), Up(a1, 2, 0, C(2,1)), Up(a2, 1, 1, C(0,1))}

\* A deletion that is concurrent with the uploads, a restore that has seen it
\* and one that has not, and a purge; several operations may ask for the same.
Requests ==
    {Op("delete", a1, C(0,2)), Op("restore", a1, C(3,2)), Op("restore", a1, C(3,1)),
     Op("purge", a1, C(2,2))}

\* One client rotates, the other migrates.
OneEach == {<<1, "rotate">>, <<2, "migrate">>}

Symmetry == Permutations(Ops) \cup Permutations(Handlers)
=============================================================================

------------------------------- MODULE MCStartup -------------------------------
(* Small trees for Startup. *)
EXTENDS Startup, TLC

P == <<"p">>
PA == <<"p", "a">>
PB == <<"p", "b">>
PAX == <<"p", "a", "x">>
PAY == <<"p", "a", "y">>
PBZ == <<"p", "b", "z">>

Tree == {Root, P, PA, PB}

\* A file, a directory, and a file in the latter's neighbour.
Files == {PAX, PBZ}
Grants == {PA, PBZ}

\* A source above another one: PAX moves between the targets P and PA.
Wide == {P, PAX}

Only == {PA}
None == {}

\* An inode is a number of which only the identity matters.
InoSymmetry == Permutations(Ino)

=============================================================================

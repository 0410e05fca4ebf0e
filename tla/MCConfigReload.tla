---------------------------- MODULE MCConfigReload ----------------------------
(* A small tree for ConfigReload: two directories with files, and that of  *)
(* config.yaml.                                                            *)
EXTENDS ConfigReload

A == <<"a">>
B == <<"b">>
C == <<"c">>
AX == <<"a", "x">>
AY == <<"a", "y">>
BZ == <<"b", "z">>
CQ == <<"c", "q">>

Tree == {Root, A, B, C}

\* Two files of one directory, and one alone in its.
Sibling == {AX, AY, BZ}

\* Two files of one directory, which stays watched when one is revoked.
Pair == {AX, AY}

\* A directory and a file in it.
Overlap == {A, AX}
OverlapFiles == {AX}

\* A file beside config.yaml.
Beside == {AX, CQ}
BesideFiles == {AX, CQ}

=============================================================================

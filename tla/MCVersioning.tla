---------------------------- MODULE MCVersioning ----------------------------
(* Constants of Versioning for TLC: a watched directory with two folders,  *)
(* and a source that is a file with a sibling that is not in scope.        *)
EXTENDS Versioning, TLC

CONSTANTS na, nb, nc, nd, ne, ns, nt, nx, i1, i2, i3

MCSource == {<<na>>, <<nb, ns>>}
MCDir == {<<>>, <<na>>, <<nb>>}
MCFolder == {<<na, nd>>, <<na, ne>>, <<nc, nd>>}
MCFile == {<<na, nd, nx>>, <<na, ne, nx>>, <<nb, ns>>, <<nb, nt>>, <<nc, nd, nx>>}
MCStart == {<<na, nd, nx>>, <<nb, ns>>}
InoSymmetry == Permutations(Ino)
=============================================================================

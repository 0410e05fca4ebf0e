----------------------------- MODULE MCGitStore -----------------------------
(* Constants of GitStore for TLC. *)
EXTENDS GitStore, TLC

\* Any set of mirrored files can be what a directory relpath stands for.
MCSubtree == (SUBSET Path) \ {{}}

\* One file by itself and all of them: what TLC needs without symmetry.
MCFileOrAll == {Path, {CHOOSE q \in Path : TRUE}}

\* The daemon is the one process that differs from the others.
MCSymmetry == Permutations(Proc \ {Daemon}) \union Permutations(Path)
                  \union Permutations(Blob)
=============================================================================

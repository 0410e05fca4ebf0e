------------------------------ MODULE MirrorPaths ------------------------------
(***************************************************************************)
(* Sources, watch targets and mirror locations as functions of the         *)
(* configuration and the file system (vcs/services/configure.py,           *)
(* mirror_path.py).                                                        *)
(*                                                                         *)
(* A path is its sequence of names; <<>> is the root.  S is the set of     *)
(* sources in a configuration, D the set of existing directories, which    *)
(* derive_watch_targets() asks for each time it is called.                 *)
(***************************************************************************)
EXTENDS Naturals, Sequences

Root == <<>>

\* is_relative_to: p is q or lies under it.
Under(p, q) == Len(q) <= Len(p) /\ \A i \in 1..Len(q) : p[i] = q[i]

InScope(p, S) == \E s \in S : Under(p, s)

-----------------------------------------------------------------------------
(* derive_watch_targets. *)

\* The closest existing directory at or above p.
NearestDir(p, D) ==
    CHOOSE d \in D : Under(p, d) /\ \A o \in D : Under(p, o) => Len(o) <= Len(d)

\* Walking up to the anchor finds nothing, unless the source is the anchor.
Watchable(p, D) == p \in D \/ NearestDir(p, D) # Root

Dirs(S, D) == {NearestDir(p, D) : p \in {s \in S : Watchable(s, D)}}

\* Mutant: a directory is dropped for its descendants, not for its ancestors.
LowestDirs(S, D) ==
    {d \in Dirs(S, D) : \A o \in Dirs(S, D) : o # d => ~Under(o, d)}

\* Mutant: no directory is dropped.
AllDirs(S, D) == Dirs(S, D)

Derive(S, D) ==
    {d \in Dirs(S, D) : \A o \in Dirs(S, D) : o # d => ~Under(d, o)}

\* resolve_mirror_location returns the first target of a list without order.
Resolve(p, T) == {t \in T : Under(p, t)}

=============================================================================

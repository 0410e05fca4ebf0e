----------------------------- MODULE WatchTargets -----------------------------
(***************************************************************************)
(* Sources and directories that come and go, and the mirror repositories   *)
(* of the watch targets derived from them (vcs/services/configure.py,      *)
(* mirror_path.py): one repository per target.                             *)
(***************************************************************************)
EXTENDS MirrorPaths, FiniteSets

CONSTANTS
    Name,    \* names of files and directories
    Path,    \* the paths sources may have
    MaxRepos \* bound: repositories created

ASSUME WatchTargetsAssumption ==
    /\ Path \subseteq Seq(Name)
    /\ MaxRepos \in Nat

-----------------------------------------------------------------------------
(* Sources come and go, and so do directories. *)

VARIABLES
    sources,   \* config.yaml
    dirs,      \* the existing directories
    repos,     \* targets whose mirror repository exists: it is stored at the
               \* target's own path below the mirror directory
    reset      \* repositories the last boot has reset

targetsVars == <<sources, dirs, repos, reset>>

TargetsInit ==
    /\ sources = {}
    /\ dirs \in {D \in SUBSET (Path \union {Root}) :
                   /\ Root \in D
                   /\ \A d \in D, q \in Path : Under(d, q) => q \in D}
    /\ repos = {}
    /\ reset = {}

\* add_sources: a path that a source covers is skipped.
AddSource(p) ==
    /\ ~InScope(p, sources)
    /\ sources' = sources \union {p}
    /\ UNCHANGED <<dirs, repos, reset>>

RemoveSource(p) ==
    /\ p \in sources
    /\ sources' = sources \ {p}
    /\ UNCHANGED <<dirs, repos, reset>>

\* Any process creates or deletes a directory.
MakeDir(d) ==
    /\ d \notin dirs
    /\ \A q \in Path : Under(d, q) /\ q # d => q \in dirs
    /\ dirs' = dirs \union {d}
    /\ UNCHANGED <<sources, repos, reset>>

DeleteDir(d) ==
    /\ d \in dirs \ {Root}
    /\ dirs' = {o \in dirs : ~Under(o, d)}
    /\ UNCHANGED <<sources, repos, reset>>

\* init_repo, before the first write to a target's repository.
InitRepo(t) ==
    /\ t \in Derive(sources, dirs) \ repos
    /\ Cardinality(repos) < MaxRepos
    /\ repos' = repos \union {t}
    /\ UNCHANGED <<sources, dirs, reset>>

\* Mutant: the repositories are taken from the configuration, not from disk.
ResetTargets ==
    /\ reset' = Derive(sources, dirs)
    /\ UNCHANGED <<sources, dirs, repos>>

\* reset_stale_indexes: existing_mirror_repos does not look for repositories
\* below one it has found.
ResetRepos ==
    /\ reset' = {r \in repos : \A o \in repos : o # r => ~Under(r, o)}
    /\ UNCHANGED <<sources, dirs, repos>>

TargetsNext ==
    \/ \E p \in Path : AddSource(p) \/ RemoveSource(p) \/ MakeDir(p) \/ DeleteDir(p)
    \/ \E t \in dirs : InitRepo(t)
    \/ ResetRepos

TargetsSpec == TargetsInit /\ [][TargetsNext]_targetsVars

-----------------------------------------------------------------------------
\* Every variable has the values the code can give it; only repositories that
\* exist are reset.
TargetsTypeOK ==
    /\ sources \subseteq Path
    /\ dirs \subseteq Seq(Name)
    /\ Root \in dirs
    /\ repos \subseteq Seq(Name)
    /\ reset \subseteq repos

(***************************************************************************)
(* Whatever order derive_watch_targets lists its directories in, a path in *)
(* scope has exactly one of them above it, so resolve_mirror_location      *)
(* always gives it the same repository and relpath; only a source with no  *)
(* existing directory above it but the root has none.                      *)
(***************************************************************************)
OneTargetPerPath ==
    \A s \in sources, p \in Path :
        Under(p, s) /\ Watchable(s, dirs)
            => \E t \in Derive(sources, dirs) :
                  Resolve(p, Derive(sources, dirs)) = {t}

(***************************************************************************)
(* No file is watched, or mirrored, twice: no target lies inside another,  *)
(* however sources and directories nest.                                   *)
(***************************************************************************)
TargetsAreDisjoint ==
    \A t, u \in Derive(sources, dirs), p \in Path : Under(p, t) /\ Under(p, u) => t = u

(***************************************************************************)
(* Granting a path never takes another out of view: what a target covered  *)
(* before a source was added, one covers afterwards, though targets may    *)
(* collapse into a broader one.                                            *)
(***************************************************************************)
GrantsKeepCoverage ==
    [][\A a \in Path : AddSource(a) =>
          \A p \in Path : Resolve(p, Derive(sources, dirs)) # {}
              => Resolve(p, Derive(sources', dirs)) # {}]_targetsVars

(***************************************************************************)
(* existing_mirror_repos' docstring: it finds "every git repo (bare or     *)
(* non-bare) under base_dir, at any depth", so that a boot resets all.     *)
(***************************************************************************)
BootResetsEveryRepo ==
    [][ResetRepos => reset' = repos]_targetsVars

=============================================================================

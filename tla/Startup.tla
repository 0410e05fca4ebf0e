-------------------------------- MODULE Startup --------------------------------
(***************************************************************************)
(* Boot of the daemon (vcs/initialize.py, adapters/local_adapter.py):      *)
(* what changed in config.yaml and on disk while it was down is brought    *)
(* into the rows and the mirrors.  A boot is a sequence of database        *)
(* transactions, git commits and file writes; the process can be killed    *)
(* between any two of them, and config.yaml can be rewritten meanwhile,    *)
(* since nobody watches it before the boot is over.                        *)
(*                                                                         *)
(* Rows belong to inodes (PRIMARY KEY(st_ino, st_dev)), mirrors to paths.  *)
(* What happens while the daemon is up is ConfigReload's matter.           *)
(***************************************************************************)
EXTENDS MirrorPaths, FiniteSets

CONSTANTS
    Source,     \* paths that are granted and revoked
    File,       \* paths of files
    Dir,        \* directories, Root among them
    Vanish,     \* directories that may be deleted
    Ino,        \* inodes
    NoFile,     \* the path of an unused inode, the location of one without row
    NoSnapshot, \* config.snapshot.yaml before the first boot
    Changes,    \* what happens to files: put, delete, edit
    Revokes,    \* whether sources are removed
    Races,      \* whether config.yaml is rewritten during a boot
    MaxSaves,   \* bound: rewrites of config.yaml
    MaxChanges, \* bound: changes on disk
    MaxBoots,   \* bound: boots
    MaxCrashes  \* bound: boots that are killed

ASSUME StartupAssumption ==
    /\ Root \in Dir \ Vanish
    /\ Vanish \subseteq Dir
    /\ NoFile \notin File \union Ino
    /\ Changes \subseteq {"put", "delete", "edit"}
    /\ {Revokes, Races} \subseteq BOOLEAN
    /\ {MaxSaves, MaxChanges, MaxBoots, MaxCrashes} \subseteq Nat

VARIABLES
    dirs, at,      \* existing directories, and each inode's path
    config,        \* the sources in config.yaml
    snapshot,      \* those of the snapshot
    loc, active,   \* each row's location, and the rows with status 1
    head, current, \* <<target, path>> tracked at HEAD, and those with the
                   \* content that is on disk
    pc,            \* where the boot is
    sources,       \* Initializer.sources
    old, prior,    \* old_watch_targets, previously_active
    draft,         \* what store_config_snapshot is writing
    dropped,       \* locations still to be reconciled
    todo,          \* sources still to be scanned
    scan, targets, \* files still to be processed, with their watch_targets
    item,          \* the inode whose row is written and whose mirror is not
    saves, changes, boots, crashes,
    raced,         \* history: boots during which config.yaml was rewritten,
    cut,           \* whether one was killed between emptying the snapshot and
                   \* the last dropped location,
    retargeted     \* files that kept a row while their target changed

disk   == <<dirs, at>>
db     == <<loc, active>>
mirror == <<head, current>>
memory == <<sources, old, prior, draft, dropped, todo, scan, targets, item>>
bounds == <<saves, changes, boots, crashes, raced, cut, retargeted>>
vars == <<disk, config, snapshot, db, mirror, pc, memory, bounds>>

-----------------------------------------------------------------------------
OnDisk == {at[i] : i \in Ino} \ {NoFile}
FilesOf(S) == {f \in OnDisk : InScope(f, S)}
Locations(R) == {loc[i] : i \in R}

\* The targets of the last snapshot, in the directories there are now.
Baseline == IF snapshot = NoSnapshot THEN {} ELSE Derive(snapshot, dirs)

\* Nothing installed yet, some files there.
Init ==
    /\ dirs = Dir
    /\ at \in {a \in [Ino -> File \union {NoFile}] :
                 \A i, j \in Ino : a[i] = a[j] => i = j \/ a[i] = NoFile}
    /\ config \in SUBSET Source
    /\ snapshot = NoSnapshot
    /\ loc = [i \in Ino |-> NoFile]
    /\ active = {}
    /\ head = {}
    /\ current = {}
    /\ pc = "down"
    /\ sources = {} /\ old = {} /\ prior = {} /\ draft = {} /\ dropped = {}
    /\ todo = {} /\ scan = {} /\ targets = {} /\ item = NoFile
    /\ saves = 0 /\ changes = 0 /\ boots = 0 /\ crashes = 0
    /\ raced = {} /\ cut = FALSE /\ retargeted = {}

-----------------------------------------------------------------------------
(* Others change the configuration and the disk. *)

Rewrite ==
    /\ pc # "up"
    /\ pc # "down" => Races
    /\ saves < MaxSaves
    /\ config' \in SUBSET Source
    /\ Revokes \/ config \subseteq config'
    /\ saves' = saves + 1
    /\ raced' = IF pc = "down" THEN raced ELSE raced \union {boots}
    /\ UNCHANGED <<disk, snapshot, db, mirror, pc, memory, changes, boots, crashes, cut,
                   retargeted>>

\* HEAD no longer has the content of the paths P.
Stale(P) == current' = {m \in current : m[2] \notin P}

Change ==
    /\ pc = "down"
    /\ changes < MaxChanges
    /\ changes' = changes + 1
    /\ UNCHANGED <<config, snapshot, db, head, pc, memory, saves, boots, crashes, raced, cut>>

\* A file is created, moved or, over another one, replaced.
Put(i, p) ==
    /\ Change
    /\ "put" \in Changes
    /\ at[i] # p
    /\ SubSeq(p, 1, Len(p) - 1) \in dirs
    /\ at' = [j \in Ino |-> IF j = i THEN p ELSE IF at[j] = p THEN NoFile ELSE at[j]]
    /\ Stale({p, at[i]})
    /\ UNCHANGED <<dirs, retargeted>>

Delete(i) ==
    /\ Change
    /\ "delete" \in Changes
    /\ at[i] # NoFile
    /\ at' = [at EXCEPT ![i] = NoFile]
    /\ Stale({at[i]})
    /\ UNCHANGED <<dirs, retargeted>>

EditFile(i) ==
    /\ Change
    /\ "edit" \in Changes
    /\ at[i] # NoFile
    /\ Stale({at[i]})
    /\ UNCHANGED <<disk, retargeted>>

RemoveDir(d) ==
    /\ Change
    /\ d \in dirs \intersect Vanish
    /\ dirs' = {e \in dirs : ~Under(e, d)}
    /\ at' = [i \in Ino |-> IF at[i] # NoFile /\ Under(at[i], d) THEN NoFile ELSE at[i]]
    /\ Stale({p \in File : Under(p, d)})
    /\ retargeted' = retargeted \union
         {p \in File : Resolve(p, Baseline) # Resolve(p, Baseline')}

-----------------------------------------------------------------------------
(* Initializer and LocalAdapter. *)

\* Initializer.__init__: the sources this boot goes by.
Construct ==
    /\ pc = "down"
    /\ boots < MaxBoots
    /\ boots' = boots + 1
    /\ sources' = config
    /\ pc' = "init"
    /\ UNCHANGED <<disk, config, snapshot, db, mirror, old, prior, draft, dropped, todo, scan,
                   targets, item, saves, changes, crashes, raced, cut, retargeted>>

\* Mutant: the targets are those of the configuration being booted.
RememberNew ==
    /\ pc = "init"
    /\ old' = Derive(sources, dirs)
    /\ prior' = Locations(active)
    /\ pc' = "clear"
    /\ UNCHANGED <<disk, config, snapshot, db, mirror, sources, draft, dropped, todo, scan,
                   targets, item, bounds>>

\* init: what the last baseline's targets and the rows say.
Remember ==
    /\ pc = "init"
    /\ old' = Baseline
    /\ prior' = Locations(active)
    /\ pc' = "clear"
    /\ UNCHANGED <<disk, config, snapshot, db, mirror, sources, draft, dropped, todo, scan,
                   targets, item, bounds>>

\* store_config_snapshot reads config.yaml again, opens the snapshot for
\* writing, which empties it, and writes.
ClearSnapshot ==
    /\ pc = "clear"
    /\ draft' = config
    /\ snapshot' = {}
    /\ pc' = "store"
    /\ UNCHANGED <<disk, config, db, mirror, sources, old, prior, dropped, todo, scan,
                   targets, item, bounds>>

StoreSnapshot ==
    /\ pc = "store"
    /\ snapshot' = draft
    /\ draft' = {}
    /\ pc' = "sync"
    /\ UNCHANGED <<disk, config, db, mirror, sources, old, prior, dropped, todo, scan,
                   targets, item, bounds>>

\* The file was active where the old targets resolved it, and is elsewhere now.
Retargets(p) == p \in prior /\ Resolve(p, old) # Resolve(p, Derive(sources, dirs))

\* Mutant: rows are only ever activated.
SyncStatusKeeping ==
    LET found == {i \in Ino : loc[i] # NoFile /\ at[i] \in FilesOf(sources)}
    IN  /\ pc = "sync"
        /\ active' = active \union found
        /\ loc' = [i \in Ino |-> IF i \in found THEN at[i] ELSE loc[i]]
        /\ dropped' = prior \ {at[i] : i \in found}
        /\ todo' = sources
        /\ pc' = "reconcile"
        /\ retargeted' = retargeted \union
             {at[i] : i \in {j \in found : Retargets(at[j])}}
        /\ UNCHANGED <<disk, config, snapshot, mirror, sources, old, prior, draft, scan, targets,
                       item, saves, changes, boots, crashes, raced, cut>>

\* sync_source_status, one transaction, and the locations it left inactive.
SyncStatus ==
    LET found == {i \in Ino : loc[i] # NoFile /\ at[i] \in FilesOf(sources)}
    IN  /\ pc = "sync"
        /\ active' = found
        /\ loc' = [i \in Ino |-> IF i \in found THEN at[i] ELSE loc[i]]
        /\ dropped' = prior \ {at[i] : i \in found}
        /\ todo' = sources
        /\ pc' = "reconcile"
        /\ retargeted' = retargeted \union
             {at[i] : i \in {j \in found : Retargets(at[j])}}
        /\ UNCHANGED <<disk, config, snapshot, mirror, sources, old, prior, draft, scan, targets,
                       item, saves, changes, boots, crashes, raced, cut>>

\* reconcile_dropped_sources: a commit per location that a target resolves.
ReconcileOne(p) ==
    LET gone == {<<t, p>> : t \in Resolve(p, old)}
    IN  /\ pc = "reconcile"
        /\ p \in dropped
        /\ head' = head \ gone
        /\ current' = current \ gone
        /\ dropped' = dropped \ {p}
        /\ UNCHANGED <<disk, config, snapshot, db, pc, sources, old, prior, draft, todo, scan,
                       targets, item, bounds>>

\* local_processing of one source derives the targets from config.yaml anew.
Scan(s) ==
    /\ pc = "reconcile"
    /\ dropped = {}
    /\ s \in todo
    /\ todo' = todo \ {s}
    /\ scan' = FilesOf({s})
    /\ targets' = Derive(config, dirs)
    /\ pc' = "scan"
    /\ UNCHANGED <<disk, config, snapshot, db, mirror, sources, old, prior, draft, dropped, item,
                   bounds>>

\* _append_context: a row in one transaction ...
BackfillRow(i) ==
    /\ pc = "scan"
    /\ at[i] \in scan
    /\ loc' = [loc EXCEPT ![i] = at[i]]
    /\ active' = active \union {i}
    /\ item' = i
    /\ pc' = "mirror"
    /\ UNCHANGED <<disk, config, snapshot, mirror, sources, old, prior, draft, dropped, todo,
                   scan, targets, bounds>>

\* Mutant: a path that HEAD tracks is not committed again.
BackfillMirrorNew ==
    /\ pc = "mirror"
    /\ \E t \in Resolve(at[item], targets) :
        /\ head' = head \union {<<t, at[item]>>}
        /\ current' = current \union ({<<t, at[item]>>} \ head)
    /\ scan' = scan \ {at[item]}
    /\ item' = NoFile
    /\ pc' = "scan"
    /\ UNCHANGED <<disk, config, snapshot, db, sources, old, prior, draft, dropped, todo,
                   targets, bounds>>

\* ... and a commit of the file's content, unless HEAD has it already.
BackfillMirror ==
    /\ pc = "mirror"
    /\ \E t \in Resolve(at[item], targets) :
        /\ head' = head \union {<<t, at[item]>>}
        /\ current' = current \union {<<t, at[item]>>}
    /\ scan' = scan \ {at[item]}
    /\ item' = NoFile
    /\ pc' = "scan"
    /\ UNCHANGED <<disk, config, snapshot, db, sources, old, prior, draft, dropped, todo,
                   targets, bounds>>

ScanDone ==
    /\ pc = "scan"
    /\ scan = {}
    /\ pc' = "reconcile"
    /\ UNCHANGED <<disk, config, snapshot, db, mirror, memory, bounds>>

Finish ==
    /\ pc = "reconcile"
    /\ dropped = {}
    /\ todo = {}
    /\ pc' = "up"
    /\ UNCHANGED <<disk, config, snapshot, db, mirror, memory, bounds>>

\* The process ends, and its memory with it.
Quit ==
    /\ pc' = "down"
    /\ sources' = {} /\ old' = {} /\ prior' = {} /\ draft' = {} /\ dropped' = {}
    /\ todo' = {} /\ scan' = {} /\ targets' = {} /\ item' = NoFile
    /\ UNCHANGED <<disk, config, snapshot, db, mirror, saves, changes, boots, raced, retargeted>>

Stop == pc = "up" /\ Quit /\ UNCHANGED <<crashes, cut>>

Crash ==
    /\ pc \notin {"up", "down"}
    /\ crashes < MaxCrashes
    /\ Quit
    /\ crashes' = crashes + 1
    /\ cut' = (cut \/ pc \in {"store", "sync"} \/ dropped # {})

\* Mutant: the file is left out instead.
Skip ==
    /\ pc = "mirror"
    /\ Resolve(at[item], targets) = {}
    /\ scan' = scan \ {at[item]}
    /\ item' = NoFile
    /\ pc' = "scan"
    /\ UNCHANGED <<disk, config, snapshot, db, mirror, sources, old, prior, draft, dropped, todo,
                   targets, bounds>>

\* resolve_mirror_location raises PathNotWatchedError, which nobody catches.
Abort ==
    /\ pc = "mirror"
    /\ Resolve(at[item], targets) = {}
    /\ Quit
    /\ UNCHANGED <<crashes, cut>>

Boot ==
    \/ Construct \/ Remember \/ ClearSnapshot \/ StoreSnapshot \/ SyncStatus
    \/ \E p \in dropped : ReconcileOne(p)
    \/ \E s \in todo : Scan(s)
    \/ \E i \in Ino : BackfillRow(i)
    \/ BackfillMirror \/ ScanDone \/ Finish \/ Stop \/ Crash \/ Abort

Others ==
    \/ Rewrite
    \/ \E i \in Ino : \/ \E p \in File : Put(i, p)
                      \/ Delete(i)
                      \/ EditFile(i)
    \/ \E d \in Vanish : RemoveDir(d)

Next == Boot \/ Others

Spec == Init /\ [][Next]_vars

-----------------------------------------------------------------------------
\* Every variable has the values the code can give it, no two active rows share
\* a location, and a row precedes its mirror.
TypeOK ==
    /\ Root \in dirs /\ dirs \subseteq Dir
    /\ at \in [Ino -> File \union {NoFile}]
    /\ \A i, j \in Ino : at[i] = at[j] => i = j \/ at[i] = NoFile
    /\ config \subseteq Source
    /\ snapshot \in (SUBSET Source) \union {NoSnapshot}
    /\ loc \in [Ino -> File \union {NoFile}]
    /\ active \subseteq {i \in Ino : loc[i] # NoFile}
    /\ \A i, j \in active : loc[i] = loc[j] => i = j
    /\ current \subseteq head /\ head \subseteq Dir \X File
    /\ pc \in {"down", "init", "clear", "store", "sync", "reconcile", "scan", "mirror", "up"}
    /\ {sources, draft, todo} \subseteq SUBSET Source /\ todo \subseteq sources
    /\ {prior, dropped, scan} \subseteq SUBSET File
    /\ {old, targets} \subseteq SUBSET Dir
    /\ pc = "mirror" <=> item # NoFile
    /\ pc = "mirror" => item \in active
    /\ cut \in BOOLEAN /\ retargeted \subseteq File

\* A daemon that is up has brought every file in scope into the rows and, with
\* the content it has on disk, into the mirror that its targets name, whatever
\* changed while it was down, during earlier boots and wherever those were
\* killed (Initializer.init, LocalAdapter).
UpMeansApplied ==
    pc = "up" /\ boots \notin raced =>
        /\ Locations(active) = FilesOf(sources)
        /\ \A f \in FilesOf(sources) :
             \E t \in Derive(sources, dirs) : Under(f, t) /\ <<t, f>> \in current

\* config.yaml may even be rewritten during this boot: it then ends with every
\* file of the sources that it began with versioned, or not at all.
UpMeansVersioned ==
    pc = "up" =>
        /\ Locations(active) = FilesOf(sources)
        /\ \A f \in FilesOf(sources) : \E t \in Dir : <<t, f>> \in current

\* No mirror tracks at HEAD what locations.status says is out of scope: the
\* aim of reconcile_dropped_sources.  Granted, revoked, moved, replaced and
\* deleted as files were, and wherever else boots were killed, three things only
\* make it forget an entry (see MirrorMatchesStatus): a boot with config.yaml
\* rewritten meanwhile; a boot killed between emptying the snapshot and the last
\* dropped location; and a change of the target of the file itself, because a
\* source above it came or went or its directory is gone, which leaves the entry
\* where no later baseline looks.
DroppedIsReconciled ==
    pc = "up" /\ raced = {} /\ ~cut =>
        \A m \in head : m[2] \in Locations(active) \union retargeted

-----------------------------------------------------------------------------
(* What docstrings and the specification of the reconciliation say. *)

\* reconcile_dropped_sources: HEAD stops disagreeing with locations.status.
MirrorMatchesStatus == pc = "up" => \A m \in head : m[2] \in Locations(active)

\* store_config_snapshot: the baseline covers only what was applied.
BaselineIsApplied == pc = "up" => FilesOf(snapshot) \subseteq Locations(active)

\* Specification 026, AC-1: as MirrorMatchesStatus, except for the mirrors of
\* directories that are gone (EC-1).
DroppedAreRemoved ==
    pc = "up" => \A m \in head : m[1] \in dirs => m[2] \in Locations(active)

\* A boot commits no removal of a file that is on disk and in scope.
NoSpuriousRemovals ==
    [][\A m \in head \ head' : m[2] \notin FilesOf(sources)]_vars

=============================================================================

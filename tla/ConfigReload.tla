----------------------------- MODULE ConfigReload -----------------------------
(***************************************************************************)
(* Hot reload of config.yaml in a running daemon: other processes rewrite  *)
(* the file (vcs/services/configure.py), the watchdog dispatcher notices   *)
(* and filters source events by a cached scope (workers/local/             *)
(* local_runtime.py, local_watcher.py), the config consumer applies the    *)
(* difference to the last snapshot (workers/config/config_consumer.py),    *)
(* and the source worker versions edits at the same time                   *)
(* (services/versioning.py).                                               *)
(*                                                                         *)
(* Threads and processes interleave at each read or write of something     *)
(* they share; a handler's look for a row, its transaction and its mirror  *)
(* write are three steps.  The files of a source exist throughout; only    *)
(* their being edited matters.                                             *)
(***************************************************************************)
EXTENDS MirrorPaths, FiniteSets

CONSTANTS
    Source,    \* paths that are granted and revoked
    File,      \* paths of files
    Dir,       \* the existing directories, Root among them
    ConfDir,   \* the directory of config.yaml
    Writer,    \* processes that rewrite config.yaml: CLI, MCP sessions, editors
    NoScope,   \* an empty scope cache
    NoJob,     \* a thread between two handlers
    Missing,   \* config.yaml while it does not exist
    Saved, Moved, \* the events of config.yaml
    Saves,     \* how it is rewritten, see AllSaves
    Revokes,   \* whether sources are removed, too
    Fails,     \* whether a mirror write may raise
    MaxSaves,  \* bound: rewrites
    MaxEdits   \* bound: edits of files

\* whole: truncation and write fall together.  inplace: a reader may come
\* between them (_dump_config).  replace: an editor renames a new file over it.
\* backup: an editor moves the old file away first.
AllSaves == {"whole", "inplace", "replace", "backup"}

ASSUME ConfigReloadAssumption ==
    /\ Root \in Dir
    /\ ConfDir \in Dir
    /\ Saves \subseteq AllSaves
    /\ Revokes \in BOOLEAN
    /\ Fails \in BOOLEAN
    /\ MaxSaves \in Nat
    /\ MaxEdits \in Nat

VARIABLES
    config,    \* the sources a reader of config.yaml gets, or Missing
    draft,     \* what each writer is about to write
    phase,     \* where each writer is: idle, read, cleared
    snapshot,  \* the sources of the config snapshot
    watched,   \* paths of the watches tagged "source"
    confWatch, \* whether the watch tagged "config" is there
    confFirst, \* it is older than a source watch of the same directory
    events,    \* the observer's queue: Saved, Moved or an edited file
    cache,     \* LocalRuntime._scope_cache
    mailbox,   \* the config consumer's queue
    inbox,     \* the source worker's queue
    cpc, conf, \* the config consumer and the configuration it read
    added, deleted, \* files it has yet to handle
    cjob, wjob,     \* the file a config, source handler is at, its targets, step
    known, active,  \* files with a row, and those with status 1
    mirrored,       \* files tracked at HEAD of their mirror
    granted,        \* history: files that were ever in scope on disk
    rough,          \* history: config.yaml lost a source, a save raised no
                    \* event, or the source worker's mirror write failed
    aborted,        \* history: a reload raised, and none was stored since
    saves, edits

files   == <<config, draft, phase>>
watches == <<watched, confWatch, confFirst>>
applier == <<cpc, conf, added, deleted, cjob>>
db      == <<known, active>>
history == <<granted, rough, aborted>>
bounds  == <<saves, edits>>
vars == <<files, snapshot, watches, events, cache, mailbox, inbox, applier, wjob,
          db, mirrored, history, bounds>>

-----------------------------------------------------------------------------
FilesOf(S) == {f \in File : InScope(f, S)}
Targets(S) == Derive(S, Dir)

\* An applied configuration, and nothing under way.
Init ==
    /\ config \in SUBSET Source
    /\ draft = [w \in Writer |-> {}]
    /\ phase = [w \in Writer |-> "idle"]
    /\ snapshot = config
    /\ watched = Targets(config)
    /\ confWatch = TRUE
    /\ confFirst = FALSE     \* _init_worker schedules the sources' watches first
    /\ events = <<>>
    /\ cache = NoScope
    /\ mailbox = <<>>
    /\ inbox = <<>>
    /\ cpc = "idle"
    /\ conf = {}
    /\ added = {}
    /\ deleted = {}
    /\ cjob = NoJob
    /\ wjob = NoJob
    /\ known = FilesOf(config)
    /\ active = FilesOf(config)
    /\ mirrored = FilesOf(config)
    /\ granted = FilesOf(config)
    /\ rough = FALSE
    /\ aborted = FALSE
    /\ saves = 0
    /\ edits = 0

-----------------------------------------------------------------------------
(* The file system reports.  A watch is recursive, except the config       *)
(* file's; one for sources is debounced, so it may drop the event.         *)

Covered(p) == \E t \in watched : Under(p, t)

\* Mutant: the config file's watch is debounced, too.
DebouncedDeliveries(p, direct) ==
    {n \in 0..2 : /\ n > 1 => confWatch /\ direct /\ Covered(p)
                  /\ n > 0 => (confWatch /\ direct) \/ Covered(p)}

Deliveries(p, direct) ==
    {n \in 0..2 : /\ confWatch /\ direct => n > 0
                  /\ n > 1 => confWatch /\ direct /\ Covered(p)
                  /\ n > 0 => (confWatch /\ direct) \/ Covered(p)}

Notify(e, p, direct) ==
    \E n \in Deliveries(p, direct) : events' = events \o [i \in 1..n |-> e]

Save(S, e) ==
    /\ config' = S
    /\ granted' = granted \union FilesOf(IF S = Missing THEN {} ELSE S)
    /\ rough' = (rough \/ Missing \in {S, config} \/ ~(config \subseteq S))
    /\ UNCHANGED aborted
    /\ Notify(e, ConfDir, TRUE)

(* A writer: add_sources, remove_sources, or somebody with an editor.      *)

Read(w) ==
    /\ phase[w] = "idle"
    /\ config # Missing
    /\ saves < MaxSaves
    /\ saves' = saves + 1
    /\ phase' = [phase EXCEPT ![w] = "read"]
    /\ \E s \in Source :
          \/ draft' = [draft EXCEPT ![w] =
                 IF InScope(s, config) THEN config ELSE config \union {s}]
          \/ Revokes /\ draft' = [draft EXCEPT ![w] = config \ {s}]
    /\ UNCHANGED <<config, snapshot, watches, events, cache, mailbox, inbox,
                   applier, wjob, db, mirrored, history, edits>>

Clear(w) ==
    /\ phase[w] = "read"
    /\ phase' = [phase EXCEPT ![w] = "cleared"]
    /\ \/ "inplace" \in Saves /\ Save({}, Saved)
       \/ "backup" \in Saves /\ Save(Missing, Moved)
    /\ UNCHANGED <<draft, snapshot, watches, cache, mailbox, inbox, applier, wjob,
                   db, mirrored, bounds>>

Write(w) ==
    /\ \/ phase[w] = "cleared" /\ Save(draft[w], Saved)
       \/ phase[w] = "read" /\ "whole" \in Saves /\ Save(draft[w], Saved)
       \/ \* a FileMovedEvent whose source is not config.yaml (normalize_event)
          /\ phase[w] = "read"
          /\ "replace" \in Saves
          /\ config' = draft[w]
          /\ granted' = granted \union FilesOf(draft[w])
          /\ rough' = TRUE
          /\ UNCHANGED <<events, aborted>>
    /\ phase' = [phase EXCEPT ![w] = "idle"]
    /\ draft' = [draft EXCEPT ![w] = {}]
    /\ UNCHANGED <<snapshot, watches, cache, mailbox, inbox, applier, wjob, db,
                   mirrored, bounds>>

\* Somebody edits a file.
Edit(f) ==
    /\ edits < MaxEdits
    /\ edits' = edits + 1
    /\ Notify(f, f, SubSeq(f, 1, Len(f) - 1) = ConfDir)
    /\ UNCHANGED <<files, snapshot, watches, cache, mailbox, inbox, applier, wjob,
                   db, mirrored, history, saves>>

-----------------------------------------------------------------------------
(* The dispatcher thread publishes one event (_publish, _in_scope).  Its   *)
(* predicate raising drops the event.                                      *)

Scope == IF cache = NoScope THEN config ELSE cache

\* Mutant: a config event leaves the cached scope alone.
DispatchCached ==
    /\ events # <<>>
    /\ events' = Tail(events)
    /\ LET e == Head(events) IN
          \/ /\ e \notin File
             /\ mailbox' = Append(mailbox, e)
             /\ UNCHANGED <<cache, inbox>>
          \/ /\ e \in File
             /\ cache' = IF Scope = Missing THEN NoScope ELSE Scope
             /\ inbox' = IF Scope # Missing /\ InScope(e, Scope)
                         THEN Append(inbox, e) ELSE inbox
             /\ UNCHANGED mailbox
    /\ UNCHANGED <<files, snapshot, watches, applier, wjob, db, mirrored, history,
                   bounds>>

\* Mutant: everything that is watched is versioned.
DispatchAll ==
    /\ events # <<>>
    /\ events' = Tail(events)
    /\ LET e == Head(events) IN
          \/ /\ e \notin File
             /\ cache' = NoScope
             /\ mailbox' = Append(mailbox, e)
             /\ UNCHANGED inbox
          \/ /\ e \in File
             /\ inbox' = Append(inbox, e)
             /\ UNCHANGED <<cache, mailbox>>
    /\ UNCHANGED <<files, snapshot, watches, applier, wjob, db, mirrored, history,
                   bounds>>

Dispatch ==
    /\ events # <<>>
    /\ events' = Tail(events)
    /\ LET e == Head(events) IN
          \/ /\ e \notin File
             /\ cache' = NoScope
             /\ mailbox' = Append(mailbox, e)
             /\ UNCHANGED inbox
          \/ /\ e \in File
             /\ cache' = IF Scope = Missing THEN NoScope ELSE Scope
             /\ inbox' = IF Scope # Missing /\ InScope(e, Scope)
                         THEN Append(inbox, e) ELSE inbox
             /\ UNCHANGED mailbox
    /\ UNCHANGED <<files, snapshot, watches, applier, wjob, db, mirrored, history,
                   bounds>>

-----------------------------------------------------------------------------
(* _append_context looks for the row before its transaction, and inserts   *)
(* if it saw none; another connection may have inserted in between, and    *)
(* locations' primary key makes the later INSERT raise.                    *)

Activate(f) ==
    /\ known' = known \union {f}
    /\ active' = active \union {f}

RaisesOnInsert(job) == job.at = "insert" /\ job.file \in known

(* The source worker: modified_handle, or created_handle for a file        *)
(* without a row.  It derives the targets first, which needs config.yaml;  *)
(* a handler that raises is over (ConsumerWorker.run).                     *)

WorkerTake ==
    /\ inbox # <<>>
    /\ wjob = NoJob
    /\ inbox' = Tail(inbox)
    /\ LET f == Head(inbox) IN
          wjob' = IF config = Missing THEN NoJob
                  ELSE [file |-> f, targets |-> Targets(config),
                        at |-> IF f \in known THEN "mirror" ELSE "insert"]
    /\ UNCHANGED <<files, snapshot, watches, events, cache, mailbox, applier, db,
                   mirrored, history, bounds>>

\* A row that came since modified_handle looked is seen by _append_context's own
\* look (it is activated), or came after that one, too.
WorkerRow ==
    /\ wjob # NoJob
    /\ wjob.at = "insert"
    /\ \/ /\ Activate(wjob.file)
          /\ wjob' = [wjob EXCEPT !.at = "mirror"]
       \/ /\ RaisesOnInsert(wjob)
          /\ wjob' = NoJob
          /\ UNCHANGED db
    /\ UNCHANGED <<files, snapshot, watches, events, cache, mailbox, inbox, applier,
                   mirrored, history, bounds>>

\* git_store.write, unless resolve_mirror_location() raises or git fails.
WorkerMirror ==
    /\ wjob # NoJob
    /\ wjob.at = "mirror"
    /\ wjob' = NoJob
    /\ \/ /\ Resolve(wjob.file, wjob.targets) # {}
          /\ mirrored' = mirrored \union {wjob.file}
          /\ UNCHANGED rough
       \/ /\ Resolve(wjob.file, wjob.targets) = {}
          /\ UNCHANGED <<mirrored, rough>>
       \/ /\ Fails
          /\ rough' = TRUE
          /\ UNCHANGED mirrored
    /\ UNCHANGED <<files, snapshot, watches, events, cache, mailbox, inbox, applier,
                   db, granted, aborted, bounds>>

-----------------------------------------------------------------------------
(* The config consumer, ConfigConsumer.handle. *)

\* Mutant: the next handler goes on with what the last one was at.
EndKeeping ==
    /\ cpc' = "idle"
    /\ conf' = {}
    /\ added' = {}
    /\ deleted' = {}
    /\ UNCHANGED cjob

\* The handler is over, by returning or by raising.
End ==
    /\ cpc' = "idle"
    /\ conf' = {}
    /\ added' = {}
    /\ deleted' = {}
    /\ cjob' = NoJob

\* config.yaml moved away: recover_config writes it from the snapshot.
Recover ==
    /\ cpc = "idle"
    /\ mailbox # <<>>
    /\ Head(mailbox) = Moved
    /\ mailbox' = Tail(mailbox)
    /\ Save(snapshot, Saved)
    /\ UNCHANGED <<draft, phase, snapshot, watches, cache, inbox, applier, wjob, db,
                   mirrored, bounds>>

\* The configuration is read once; the difference is one of paths.
ReadConfig ==
    /\ cpc = "idle"
    /\ mailbox # <<>>
    /\ Head(mailbox) = Saved
    /\ mailbox' = Tail(mailbox)
    /\ \/ config = Missing /\ UNCHANGED applier
       \/ /\ config # Missing
          /\ cpc' = "apply"
          /\ conf' = config
          /\ added' = FilesOf(config \ snapshot)
          /\ deleted' = FilesOf(snapshot \ config)
          /\ UNCHANGED cjob
    /\ UNCHANGED <<files, snapshot, watches, events, cache, inbox, wjob, db,
                   mirrored, history, bounds>>

\* created_handle, deleted_handle derive the targets from config.yaml as it is
\* by now; _append_context looks for the row.
ApplyTake ==
    /\ cpc = "apply"
    /\ cjob = NoJob
    /\ added # {} \/ deleted # {}
    /\ \/ config = Missing /\ End
       \/ /\ config # Missing
          /\ \/ \E f \in added :
                   /\ cjob' = [file |-> f, targets |-> Targets(config), add |-> TRUE,
                               at |-> IF f \in known THEN "update" ELSE "insert"]
                   /\ added' = added \ {f}
                   /\ UNCHANGED deleted
             \/ \E f \in deleted :
                   /\ added = {}
                   /\ cjob' = [file |-> f, targets |-> Targets(config), add |-> FALSE,
                               at |-> "update"]
                   /\ deleted' = deleted \ {f}
                   /\ UNCHANGED added
          /\ UNCHANGED <<cpc, conf>>
    /\ UNCHANGED <<files, snapshot, watches, events, cache, mailbox, inbox, wjob,
                   db, mirrored, history, bounds>>

\* Their transaction.  What raises leaves handle(), too.
ApplyRow ==
    /\ cjob # NoJob
    /\ cjob.at # "mirror"
    /\ \/ /\ ~RaisesOnInsert(cjob)
          /\ \/ cjob.add /\ Activate(cjob.file)
             \/ ~cjob.add /\ active' = active \ {cjob.file} /\ UNCHANGED known
          /\ cjob' = [cjob EXCEPT !.at = "mirror"]
          /\ UNCHANGED <<cpc, conf, added, deleted, aborted>>
       \/ /\ RaisesOnInsert(cjob)
          /\ End
          /\ aborted' = TRUE
          /\ UNCHANGED db
    /\ UNCHANGED <<files, snapshot, watches, events, cache, mailbox, inbox, wjob,
                   mirrored, granted, rough, bounds>>

\* The rest of them: the mirror.
ApplyMirror ==
    /\ cjob # NoJob
    /\ cjob.at = "mirror"
    /\ \/ /\ Resolve(cjob.file, cjob.targets) # {}
          /\ mirrored' = IF cjob.add THEN mirrored \union {cjob.file}
                                     ELSE mirrored \ {cjob.file}
          /\ cjob' = NoJob
          /\ UNCHANGED <<cpc, conf, added, deleted, aborted>>
       \/ /\ Resolve(cjob.file, cjob.targets) = {}
          /\ End
          /\ UNCHANGED <<mirrored, aborted>>
       \/ /\ Fails
          /\ End
          /\ aborted' = TRUE
          /\ UNCHANGED mirrored
    /\ UNCHANGED <<files, snapshot, watches, events, cache, mailbox, inbox, wjob,
                   db, granted, rough, bounds>>

\* WatchWorker.reconcile.  remove_watch takes the first job with the path,
\* whatever its tag.
Reconcile ==
    /\ cpc = "apply"
    /\ cjob = NoJob
    /\ added = {}
    /\ deleted = {}
    /\ cpc' = "store"
    /\ LET gone == watched \ Targets(conf)
           wrong == ConfDir \in gone /\ confWatch /\ confFirst
       IN  /\ watched' = Targets(conf) \union (IF wrong THEN {ConfDir} ELSE {})
           /\ confWatch' = (confWatch /\ ~wrong)
    /\ confFirst' = (ConfDir \in Targets(conf) /\ (confFirst \/ ConfDir \notin watched))
    /\ UNCHANGED <<files, snapshot, events, cache, mailbox, inbox, conf, added,
                   deleted, cjob, wjob, db, mirrored, history, bounds>>

\* Mutant: store_config_snapshot reads the file once more.
StoreReread ==
    /\ cpc = "store"
    /\ config # Missing
    /\ snapshot' = config
    /\ aborted' = FALSE
    /\ End
    /\ UNCHANGED <<files, watches, events, cache, mailbox, inbox, wjob, db,
                   mirrored, granted, rough, bounds>>

Store ==
    /\ cpc = "store"
    /\ snapshot' = conf
    /\ aborted' = FALSE
    /\ End
    /\ UNCHANGED <<files, watches, events, cache, mailbox, inbox, wjob, db,
                   mirrored, granted, rough, bounds>>

-----------------------------------------------------------------------------
Next ==
    \/ \E w \in Writer : Read(w) \/ Clear(w) \/ Write(w)
    \/ \E f \in File : Edit(f)
    \/ Dispatch
    \/ WorkerTake \/ WorkerRow \/ WorkerMirror
    \/ Recover \/ ReadConfig \/ ApplyTake \/ ApplyRow \/ ApplyMirror \/ Reconcile \/ Store

Spec == Init /\ [][Next]_vars

\* The three threads are scheduled.  Nobody has to save or to edit.
FairSpec ==
    /\ Spec
    /\ WF_vars(Dispatch)
    /\ WF_vars(WorkerTake \/ WorkerRow \/ WorkerMirror)
    /\ WF_vars(\/ Recover \/ ReadConfig \/ ApplyTake \/ ApplyRow \/ ApplyMirror
               \/ Reconcile \/ Store)

-----------------------------------------------------------------------------
\* Every variable has the values the code can give it; a file with status 1,
\* or that a handler is about to mirror or to deactivate, has a row.
TypeOK ==
    /\ config \in (SUBSET Source) \union {Missing}
    /\ draft \in [Writer -> SUBSET Source]
    /\ phase \in [Writer -> {"idle", "read", "cleared"}]
    /\ snapshot \subseteq Source
    /\ watched \subseteq Dir
    /\ {confWatch, confFirst} \subseteq BOOLEAN
    /\ events \in Seq(File \union {Saved, Moved})
    /\ cache \in (SUBSET Source) \union {NoScope}
    /\ mailbox \in Seq({Saved, Moved})
    /\ inbox \in Seq(File)
    /\ cpc \in {"idle", "apply", "store"}
    /\ conf \subseteq Source
    /\ added \subseteq File
    /\ deleted \subseteq File
    /\ cjob # NoJob =>
           /\ cpc = "apply"
           /\ cjob \in [file : File, targets : SUBSET Dir, add : BOOLEAN,
                        at : {"insert", "update", "mirror"}]
           /\ cjob.at # "insert" \/ ~cjob.add => cjob.file \in known
    /\ wjob # NoJob =>
           /\ wjob \in [file : File, targets : SUBSET Dir, at : {"insert", "mirror"}]
           /\ wjob.at = "mirror" => wjob.file \in known
    /\ active \subseteq known
    /\ known \subseteq File
    /\ mirrored \subseteq known
    /\ saves \in 0..MaxSaves
    /\ edits \in 0..MaxEdits

\* No event, job or save is under way.
Quiet ==
    /\ events = <<>> /\ mailbox = <<>> /\ inbox = <<>>
    /\ cpc = "idle" /\ wjob = NoJob
    /\ \A w \in Writer : phase[w] # "cleared"

\* config.yaml, its snapshot, the watches, the rows and the mirrors agree.
Applied ==
    /\ config # Missing
    /\ snapshot = config
    /\ watched = Targets(config)
    /\ active = FilesOf(config)
    /\ mirrored = FilesOf(config)

\* Once nothing is under way, the last rewrite of config.yaml has been applied
\* everywhere, whatever it met half-way through an earlier one: the watch set,
\* the rows and the mirrors (ConfigConsumer.handle reads config.yaml once and
\* makes that its baseline; what a reload that raised has left undone is in the
\* next one's difference).  Not so when a reader has met a source less or the
\* source worker's mirror write has raised, at any time, or when the last reload
\* has raised: its mirror write, or its INSERT of a row the source worker put in
\* since it looked.  See RowsMatchConfig, MirrorMatchesStatus, EverySaveIsNoticed.
QuiescentMeansApplied == Quiet => rough \/ aborted \/ Applied

\* The threads get there by themselves (the config watch is not debounced),
\* unless, again, they met a source less or the last reload has raised: nothing
\* tries it once more.
ReloadCompletes == <>[](rough \/ aborted \/ Applied)

\* Between two config events the watch set is the one of the snapshot: the
\* baseline never covers what no watch does (store_config_snapshot is last and
\* is handed what was applied).
BaselineIsApplied == cpc = "idle" => watched = Targets(snapshot)

\* The scope that source events are matched against is that of config.yaml,
\* unless the event that will drop it is on its way (_scope_cache).
StaleScopeHasEvent ==
    cache \notin {NoScope, config} =>
        \E i \in DOMAIN events : events[i] \in {Saved, Moved}

\* A file that was at no time in the scope of a config.yaml on disk is never
\* given a row or versioned, though its directory is watched (_in_scope).
OnlyGrantedAreVersioned == known \union mirrored \subseteq granted

-----------------------------------------------------------------------------
(* What documents, comments and docstrings say. *)

\* add_watch: not debouncing config events keeps config.yaml in sync with the
\* database.
RowsMatchConfig == Quiet => active = FilesOf(config)

\* reconcile_dropped_sources: a removal while the daemon runs leaves HEAD and
\* locations.status agreeing.
MirrorMatchesStatus == Quiet => mirrored = active

\* _init_worker: the parent is watched since editors save by atomic rename.
EverySaveIsNoticed == Quiet => snapshot = config

\* reconcile: it never collects the config file's watch.
ReconcileKeepsConfigWatch == [][confWatch' = confWatch]_vars

\* ConfigConsumer.handle: no event races a row that was just deactivated.
NoneMirroredOnceDeactivated ==
    [][\A f \in mirrored' \ mirrored : f \in active]_vars

\* active_locations: status 1 marks what is in scope.
StatusMeansInScope == Quiet => FilesOf(config) \subseteq active

=============================================================================

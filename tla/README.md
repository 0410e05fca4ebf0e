# A TLA+ model of context-OS

context-OS versions the files that a user's AI agents and editors touch.  A
daemon watches the directories of the *sources* listed in `config.yaml`, and
commits every file in scope to bare git repositories of its own (the
*mirrors*), with a row per file in SQLite.  Agents work through an MCP server
that asks for approval of paths outside the scope; a command line and an HTTP
API read the history and roll files or whole sessions back.  Several processes
share the mirrors, the database, `config.yaml` and a few small files, and none
of them trusts the others to be there.

This directory models the parts whose correctness depends on the order in which
threads and processes act, on what happens when they fail in the middle, or on
path arithmetic that decides which repository a file belongs to.  Paths below
are relative to the repository; `src/src/` holds the program.

Contents: [inventory](#the-system), [modules](#the-modules),
[runs](#the-runs), [fairness](#fairness), [proofs](#what-is-proved),
[findings](#where-code-and-words-disagree), [limits](#what-the-models-leave-out),
[plan](#plan).

## The system

| part | code | state it keeps | who calls it |
|---|---|---|---|
| Mirror repositories | `vcs/services/git_store.py` | per target: commits, HEAD, index, `index.lock`, the file lock `.chrono-ctx.lock` | the daemon's workers, audit, startup |
| Watch targets, mirror paths | `configure.py` (derive_watch_targets, is_path_in_scope), `mirror_path.py` | none: functions of the sources and of the directories that exist now | everything that needs a path's repository |
| Configuration | `configure.py`, `workers/config/config_consumer.py` | `config.yaml`, `config.snapshot.yaml` | CLI and MCP write it, the config worker applies it |
| Watcher and runtime | `workers/local/local_watcher.py`, `local_runtime.py`, `utils/formatter.py` | watch jobs with their tags, the scope cache, debounce times | the watchdog observer calls it, the config worker reconciles it |
| Event bus and workers | `workers/bus.py`, `consumer_worker.py`, `local_queue.py`, `vcs/runtime.py` | a mailbox per subscription, `closed`, threads | the observer publishes, the workers consume |
| Versioning handlers | `services/versioning.py` | rows: inode, location, status | source worker, config worker, startup |
| Startup | `vcs/initialize.py`, `adapters/local_adapter.py` | the sources read in the constructor, then rows, snapshot, mirrors | `ctx daemon` |
| Audit and rollback | `services/audit.py` | none; writes mirrors and files | CLI, MCP, HTTP |
| Daemon supervision | `app/cli/daemon.py` | PID file, stop sentinel | CLI |
| Actor hints | `services/actor_hints.py` | a row per path with an expiry time | MCP sets, the source worker consumes |
| MCP server, guardrail | `app/mcp/` | a grant being asked for | agents |
| HTTP API | `app/api/` | none | clients |
| CLI, autostart | `app/cli/` | service manager files | the user |
| Database | `vcs/db/` | SQLite file | all of the above |
| Helpers | `utils/helper.py`, `shared/` | none | all of the above |

How they interact.  The observer's one dispatcher thread turns file system
events into bus events, drops source events outside a *cached* scope, and puts
the rest into the mailboxes of two workers: the source worker versions files,
the config worker diffs `config.yaml` against its snapshot and applies the
difference to rows, mirrors and the watch set.  Each handler commits its row in
one database transaction and its mirror in a sequence of up to eight `git`
child processes under a lock file.  Other processes rewrite `config.yaml`,
write mirrors (rollbacks) and start or stop the daemon at any time.  On boot
the daemon compares what it finds with what it left.

What is hard here, and what makes each part correct:

* **Mirrors.** One repository, one index, many processes; a call is a sequence
  of git calls that may stop anywhere.  The history must stay one chain; a call
  must commit its own paths only; one that returns must have happened; without
  failures calls must look atomic; nobody waits for ever, and a waiter must
  outlast a holder that is working.
* **Targets.** They are recomputed from a set of sources and from today's
  directories.  Two must never overlap, whatever their order a path must have
  one repository, and a grant must not take other paths out of view.
* **Reload.** `config.yaml` changes while a change is being applied; the scope
  is cached; events may be lost to debouncing.  Once things are quiet the last
  change must be applied everywhere; nothing that was never granted may be
  versioned; the baseline must not run ahead of the watches.
* **Bus.** Three threads and one non-reentrant order of things: the observer's
  lock is needed to publish, to reconcile and to stop.  No stop may hang, no
  accepted event may be left behind, one failing handler takes no worker down.
* **Startup.** Anything may have changed while the daemon was down, and the
  boot itself may be killed between any two durable steps.  A daemon that is up
  must have versioned what is in scope, and removed what is not.
* **Rollback.** A session's changes are undone path by path while others edit.
  What others did later must survive; mirror and disk must agree.
* **Daemon.** PID numbers are reused, daemons crash, `stop` races with both.
* **Versioning.** Between a change on the disk and its commit lie a debouncing
  by path, a filter by scope, a mailbox and two lookups of which one goes by
  inode, and the disk moves on meanwhile.  Once the worker has caught up, rows
  and mirrors must be those of the files.
* **Agent tools.** A call checks the scope, asks the user, checks a version,
  leaves a hint, operates and persists what was approved, in this order, and
  may fail at each; other agents, the user and the daemon act in between.  The
  scope must not grow by what failed, no agent may get more commits in its name
  than it left hints, and what a checked write replaces should be what its agent
  has seen; where it may not be, the windows must be known.

`PROJECT.json` lists every such hazard at the line where it bites, with the
properties that watch it.

## The modules

| module | models | composes / extends |
|---|---|---|
| `MirrorPaths` | derive_watch_targets, is_path_in_scope, resolve_mirror_location as operators on sources and directories | used by the next four |
| `WatchTargets` | sources and directories that come and go, repositories created and reset | `MirrorPaths` |
| `ConfigReload` | writers of `config.yaml`, observer, source worker, config worker | `MirrorPaths` |
| `Startup` | one boot after another, with what happens in between | `MirrorPaths` |
| `Versioning` | changes on the disk, watcher, source worker, rows and mirrors | `MirrorPaths` |
| `AgentTools` | MCP servers, the user, hints and the daemon | `Versioning`'s handlers, restated without debouncing |
| `GitStore` | one repository and its callers, git call by git call | implements `AtomicMirror` |
| `AtomicMirror` | what callers rely on: a log of trees, one step per operation | |
| `EventBus` | dispatcher, mailboxes, workers, shutdown | `TopicMatch`; implements `Mailbox` for each subscription |
| `Mailbox` | what the bus promises a subscription: its events in order and once, then STOP | |
| `TopicMatch` | topic_matches and a definition of AMQP wildcards | |
| `SessionRollback` | rollback_session among other edits | |
| `Daemon` | start, stop, status, PID file and sentinel | |
| `MC…` | constants for TLC | |
| `SharedLemmas` | facts about numbers, paths and derived targets that several proofs use | `MirrorPaths` |
| `…Proofs` | theorems and their proofs; `RuntimeProofs` has those of `WatchTargets`, `EventBus` and `Daemon` | |

Paths are sequences of names in `MirrorPaths` and the modules on top of it, and
model values where only identity matters.  Contents are model values, or not
kept at all: `Startup` keeps which path of HEAD has the content that is on disk.
Where one line of code is several steps for another thread, it is several
actions; where several lines touch nothing shared, they are one.  Operators
called "Mutant" are plausible mistakes in the code, each of which TLC must find
by a property; no specification uses them.

**GitStore.** `objects`, `head`, `index`, `indexLock` are the repository on
disk; `lock` is `.chrono-ctx.lock`; `pc`, `req`, `parent`, `tree` are where each
process is in `write`, `remove`, `move` or `reset_stale_index`, and its local
variables.  Each git call that reads or writes shared state is an action
(`Stage` is `update-index`, `Unstage` `rm --cached`, `WriteTree`, `ReadParent`,
`Commit` is `commit-tree` with `update-ref`, `ReadTree`).  `Check` is
`write_with_check`'s comparison, before the lock.  Faults are enabled by the
constant `Faults`: a call raises or times out (`exit`), leaves git's own
`index.lock` (`stalelock`), the process dies (`kill`), its git child outlives it
(`orphan`).  The fifth, `unread`, is `Misread`: `_rev_parse_or_none` and
`path_exists_at_rev` run git with `check=False`, so a read that exits non-zero is
an answer and not an error.  A write then takes HEAD for unborn and begins a new
history, a boot's reset empties the index, `remove` and `move` return None as if
their path were not tracked, and `write_with_check` refuses.  Three variables are
history: `unread`, the calls that took HEAD for unborn by mistake; `anew` in a
commit, that its call was one of them; and `leftover`, the paths where a failure
may have left the index stray: those a failed call may have staged, or all that
are tracked after a reset that misread HEAD.

**WatchTargets.** `AddSource`, `RemoveSource` are `add_sources`,
`remove_sources`; directories are made and deleted by anybody; `InitRepo` makes
a target's repository, `ResetRepos` is the boot's `reset_stale_indexes`, which
sees what `existing_mirror_repos` sees.

**ConfigReload.** `config` is what a reader of `config.yaml` gets, `snapshot`
the baseline.  A writer reads, may truncate or move the file away (`Clear`), and
writes.  `Notify` turns a change into events, as many as there are watches that
cover it; source events may be lost to debouncing, config events may not.
`Dispatch` is `_publish` with the cached scope.
`WorkerTake`/`WorkerRow`/`WorkerMirror` and `ApplyTake`/`ApplyRow`/`ApplyMirror`
are the three steps of a versioning handler, in the source and in the config
worker: `_append_context` looks for the row before its BEGIN, then comes the
database transaction, then git.  Two workers that both found no row both INSERT,
and the primary key makes the second raise (`RaisesOnInsert`): the source worker
drops its event, the config worker the rest of its reload.  `Reconcile` and
`Store` end `ConfigConsumer.handle`.  `rough` and `aborted` are history
variables, see `QuiescentMeansApplied`.

**Startup.** `Construct` is `Initializer.__init__`; `Remember`,
`ClearSnapshot`, `StoreSnapshot`, `SyncStatus`, `ReconcileOne`, then
`Scan`/`BackfillRow`/`BackfillMirror` per source and file follow `init`.
`Crash` may come between any two; `Abort` is a `PathNotWatchedError`.  A row
belongs to an inode (`loc`, `active`), a mirror entry to a target and a path
(`head`, `current`).  While the daemon is down files are put, deleted and
edited, directories deleted, and `config.yaml` rewritten; the last also during
a boot.  `Baseline` is what a boot derives from the snapshot, in the directories
there are today.  `raced`, `cut` and `retargeted` are history: boots during which
`config.yaml` was rewritten; whether one was killed between emptying the snapshot
and the last dropped location; and the files that kept a row while their target
changed.

**EventBus.** `Emit`, `Get`, `Lock`, `Offer`, `Unlock`, `Leave` are watchdog's
dispatcher with `LocalEventBus.publish` inside; `StartWorker`, `Consume`,
`Handle`, `Reconcile`, `Reconciled` are `ConsumerWorker.run`; `StopEvent` to
`JoinWorkers` are `VCSRuntime.run` and `LocalRuntime.stop`, which a Ctrl-C runs
twice (`again`).

**Mailbox.** The bus as one subscriber knows it, without threads, lock or other
subscribers.  `coming` are the events reported and not yet offered to it
(`EventBus.Coming`: the observer's queue, with the event being dispatched in
front as long as the subscriber has not had it), `box` is its mailbox.  The head
of `coming` is put in (`Deliver`) or passed over (`PassOver`); an event that is
wanted, by a subscriber that has no predicate, is passed over only after the
observer was stopped, and STOP goes in once, after that (`Close`).
`EventBus.Channel(s)` is the mapping.  `ImplementsMailbox` says of every
subscription that it starts as `Mailbox` does and takes its steps; TLC takes no
formula `Spec` under a quantifier, so the two parts are written out.

**SessionRollback.** Before `Begin`, a session and others change files, each
change a commit.  Then, path by path, `Check` compares the path's head with the
session's last commit and `CheckAgain` is `write_with_check` comparing once more
before it takes the lock, which a removal does not; `Restore` commits what the
path held before and `WriteFile` writes the file, or `Refuse` reports the path.
Others act between any two: `Edit` is somebody's edit, `Watch` the watcher's
commit of it, and `Miss` an event that debouncing drops or an edit that is below
the threshold of `modified_handle`, after which disk and mirror differ until the
path has another event.  `looked` and `missed` are history: how much of the history there was
when a path's head was last compared, and the files whose last event was dropped
or skipped.  `Shown` is what `git show --name-only` prints: a renamed file once,
by its new name.

**Daemon.** `Start` … `Record` and `Stop` … `Tidy` are the two commands step by
step; a PID is unused, a daemon (booting, running, stopping), dead, or taken by
a stranger.

**TopicMatch.** `topic_matches` fills a table cell by cell (`Cell`); its
definition is that the topic can be cut into one piece per word of the pattern.
`EventBus` routes with the table.  That the two agree has no state in it: the
run compares them once, before the first event, for all patterns and topics of up
to `MaxWords` words.

**Versioning.** `disk` gives each path an inode and a content; `row` is the
table by inode, `head` the mirrors by path.  `Create`, `Modify`, `Delete`,
`Rename` and `RenameFolder` change the disk, and `Report` is what
`on_any_event` makes of the events watchdog has for the change: drop those of a
path that had one within half a second (`recent`), filter by scope, enqueue
what is left in its order (`Those`).  A folder is not moved into itself, and the
files in it are told of in any order.
Each handler is a row step, which takes the event, and a mirror step, with what
it reads from the disk read then: `CreatedRow`/`CreatedMirror`,
`ReadModified` (`TempFile.from_path`)/`ModifiedMirror`, `DeletedRow`/….
`moved_handle` has three: it looks at its destination (`MovedRow`), looks at it
again when it asks for the row that is there (`MovedNode`), and moves in the
mirror (`MovedMirror`).  What is at the destination may have gone or been replaced
between the two looks; the second is outside the `try`, so the handler raises and
its mirror step does not come.  Contents are numbers and the threshold is "at
most one apart", which is reflexive and symmetric but not transitive, like the similarity of
texts.  `missed` and `strayed` are history variables, see `HistoryMatchesDisk`.
Some of what the model makes visible is the code's choice and not an error: a
modification never activates a row nor moves one; a file moved within a watch
to a sibling that is out of scope stays tracked under its new name; a move
between repositories whose target is gone by then leaves the source at HEAD;
the threshold is compared with HEAD, so small edits may pile up before one is
committed.

**AgentTools.** `call[a]` is where the server of agent `a` is: `scope`, `ask`
(`ensure_scope`), `check` (`_check_expected_version`), `hint`
(`_set_actor_hint`, once per path), then the operation, then `persist`
(`_commit_grants`); `read_file` reads the text, then the version.
`write_file`, `create_file`, `delete_file` and `move_file` differ by tool, paths
and by whether a version is named.  `Take`, `Consume`, `Commit` are
`LocalConsumer.handle`: `consume_hint` selects in one step and deletes in
another, and a move that found nothing asks for its other end.  The config
worker's scan of a new source shares the queue of the source worker.  Every path
is in one watched directory, so a move is one commit at most and `After` has no
moves between repositories or out of the watch, which `Versioning` has.
`earned`, `credit` and `checked` are history: what successful calls were approved
for; hints set less commits labelled; and what was on the disk when a call's
version was accepted, if the mirror was up to date then.  `was` and `sound`
remember whether it was so when an agent read.

## The runs

A passing run checks its properties in every state of the bounded instance; a
violation run shows that the code does not do what a document or docstring
says, with TLC's counterexample.

| run | shows | bounds |
|---|---|---|
| GitStore | whatever fails, the history is one chain but for a write that misread HEAD, commits touch only their call's paths and what failures left, a call that returned happened unless it misread, every call returns, and the whole implements `AtomicMirror` | 2 processes, 2 paths, 2 contents, 3 operations, any 2 faults of five kinds; `remove` is given one path or the root |
| WatchTargetsTree | paths in scope have one target, grants uncover nothing | every set of sources and directories of a five-path tree of depth 3 |
| ConfigReload | what is written to `config.yaml` ends applied everywhere; baseline and watches agree between reloads; a stale scope has an event on its way; nothing is versioned that was never granted | 1 writer (`Recover` is a second one), 2 sources, each a file of one directory, 2 rewrites, 1 edit; a reload may lose the race for a row, its mirror write may raise |
| ConfigReloadRevoke | *violation*: revoking the only source of a directory leaves its file at HEAD | 1 rewrite |
| EventBus | each subscription gets what it wants in order and once, with STOP after it (`Mailbox`); no stop hangs, nothing accepted is lost, the table of `topic_matches` agrees with its definition | 2 subscriptions, 3 events; patterns and topics of up to 3 words |
| DaemonAlone | one daemon, known by its PID file, stopped only when asked; `stop` returns | one command at a time, 3 PIDs, crashes and reuse |
| SessionRollback | what is reported rolled back is undone, later commits survive, mirror and disk agree | 2 paths, 2 contents, 4 changes and edits, of which events may be dropped or skipped, 1 path that may leave scope |
| SessionRollbackMoved | *violation*: a session that moved a file is not undone | 3 changes |
| Startup | a boot that gets up has versioned what is in scope, and removed what is not unless one of three things came to pass | 2 sources, one above the other, 2 files, 2 inodes, 3 boots, 1 kill, 2 rewrites, 2 changes |
| Versioning | once the worker has caught up, HEAD is the disk up to the threshold and rows follow files, except for paths that lost a change | a watched directory with 2 folders, a source file with a sibling out of scope, a folder outside; 5 paths, 3 inodes, 3 contents, 3 changes |
| VersioningDirMove | *violation*: after a directory was renamed, its files are at HEAD under glued names | 2 changes |
| AgentTools | the scope grows by what was approved and done, an agent gets no more commits in its name than it left hints, a checked write replaces what its agent has seen, up to twice the threshold, but in three windows | 2 agents, 2 paths of which 1 is in scope, 3 contents, 2 calls, 1 edit |

Why these bounds are enough to be worth something.  *GitStore*: two processes
are what the lock has to keep apart; three operations let a commit be built on
one that was built on another, and two faults let a fault meet what the first
left, a boot included.  *ConfigReload*: of two rewrites one meets the
application of the other, and one edit is what it takes for two workers to want
the same row.  *Startup*: three boots are a normal one, one that is killed or
that finds a source above another's target, and one that finds what that left;
inodes are symmetric, and with three million states this is the largest run.
*SessionRollback*: four changes let others come before and after two of the
session, at the other path, or between a comparison and its restore.
*EventBus*: three events fill a mailbox with more than one while another is
dispatched; three words put `#` at either end and next to another.
*Versioning*: three changes are two that meet while the worker is at the event
of another, and three inodes let one be used again while two are in use; it has
1.4 million states, and instances with fewer paths were checked with four
changes.  *AgentTools*: each of two calls may be anywhere while the other, an
edit and the daemon go on; of the three contents two are similar and the third
is not.  That a chain of small edits drifts to twice the threshold needs one
agent, four contents, three calls and two edits: AgentToolsDrift.cfg, 982 402
states, which passes as well.  Where constants can be anything, see the proofs.

`CHECK_DEADLOCK FALSE` is set where a system may come to rest: nobody has to
save, edit, call or start anything (ConfigReload, Daemon, SessionRollback,
Startup, Versioning, AgentTools), and a stopped runtime is stopped (EventBus).
GitStore has a step for the end of its operations instead, so that a deadlock
of its callers would be found.

Some properties are conditional, and say so:

* `QuiescentMeansApplied` and `ReloadCompletes` excuse histories in which
  `config.yaml` lost a source or could not be read, a save by rename raised no
  event, or the source worker's mirror write raised (`rough`), and those whose last reload raised, because its
  mirror write failed or because the source worker had inserted a row since it
  looked (`aborted`).  A later reload that is stored ends the second: what the
  aborted one has left undone is in its difference.  ConfigReloadRevoke is what
  happens otherwise, and so are three rows of the table below.
* `UpMeansApplied` is about boots during which `config.yaml` was left alone,
  `UpMeansVersioned` about all.  `DroppedIsReconciled` needs every boot so far
  undisturbed (`raced`), no kill between emptying the snapshot and the last
  dropped location (`cut`), and is not about files whose own target changed
  while they had a row (`retargeted`): a source above them came or went, or
  their directory is gone.  Kills elsewhere, nested sources and the files beside
  a retargeted one are within it.
* `LinearHistory`, `StrayOnlyFromFaults`, `CommitTouchesOnlyItsPaths` and
  `ReturnMeansDone` hold until a git call of a dead process takes effect
  (`Orphaned`): it runs without the lock, and `Chain` below shows that the
  history then breaks.  The first excepts commits of a write that could not read
  HEAD, which have no parent (`anew`).  The second and the third except leftovers
  of failed calls and of resets that could not read HEAD; without faults there
  are none.  The fourth is about calls that read HEAD: `remove` and `move` return
  None after a failed read, and have done nothing.  `AtomicMirror` says the same
  on its level: a failed call leaves its paths `loose` for the next entry of the
  log, an entry may begin `anew`, and once `broken` it promises nothing.
* `HistoryMatchesDisk` and `RowsFollowFiles` except paths that lost a change
  and saw no other since (`missed`), or no creation since (`strayed`).  The
  comment at `HistoryMatchesDisk` names the five ways a change is lost; a save
  by rename that keeps a backup is one, and leaves the file unversioned until
  it is edited again.
* `MirrorMatchesDisk` excepts files whose last event was dropped or skipped
  (`missed`).  `LaterCommitsKept` is about commits that were there when the path's
  head was last compared; one that comes after that is lost (`CommitsAreRefused`
  below).
* `AcceptedMeansSeen` is about the step that replaces or deletes, and excepts
  three windows: the file is not what it was when the version was checked; the
  mirror was behind it then; or the read was overtaken, so that the version is
  not that of the text.  Each is a row of the table below, with
  AgentToolsUnseen.cfg.  Near means up to twice the threshold, since an edit
  below it has no version.
* `OneLabelPerHint` counts: an agent never has more commits in its name than it
  set hints.  It does not say that the labelled commit is the hinted call's,
  and the code does not either: a user's edit within five seconds takes it.

## Fairness

* `GitStore.FairSpec`: weak fairness of each process's own steps.  Threads are
  scheduled, `_run_git` bounds a call by `GIT_TIMEOUT`, and a waiter has
  `LockTimeout` whenever the lock is held.  Nobody has to call anything, and
  faults are never fair.
* `ConfigReload.FairSpec`: the dispatcher and the two workers are scheduled;
  writers and editors need not act.
* `EventBus.BusFairSpec`: dispatcher, workers and the main thread's stop are
  scheduled; no stop has to be asked for.  A worker that cannot start is dead,
  not slow.
* `Daemon.FairSpec`: a command that runs gets on with it.  No daemon has to
  react to a signal, boot, or end: `stop` has to cope.

All are weak: the waiting steps (a lock, a mailbox) are enabled as long as what
they wait for stays, or have a timeout as an alternative.

## What is proved

All theorems hold for any values of the constants that satisfy the `ASSUME` of
the module: any number of processes, paths, contents, subscriptions, sources,
directories, agents, and any bounds.

`GitStoreProofs`

* `TypeCorrect`: types, whatever fails.
* `HistoryIsLinear`, `StrayEntriesAreLeftovers`, `CommitsAreLocal`,
  `ReturnedCallsAreDone`: the four safety properties, under raised calls,
  timeouts, reads that exit non-zero and are taken for an answer, stale
  `index.lock`s, kills and reboots, until an orphaned git call takes effect.
  None is inductive.  `SafeInv` adds that a process is at a git call exactly if
  it holds the lock, that the parent a holder has read is HEAD unless it took
  HEAD for unborn, that its tree is what it staged, and that the index strays
  from HEAD only at the holder's own paths and at leftovers.  There is one lemma
  per kind of step; a failing step moves what it may have staged into `leftover`,
  and so does a reset that misreads HEAD with all that is tracked, which is what
  makes the invariant survive them.
* `Refinement`: under the same faults GitStore implements AtomicMirror, the
  log being all commits with their trees and with whether they began anew, and
  the loose paths the leftovers.  A commit is an entry because `SafeInv` makes
  the holder's tree HEAD's with its own change and with leftovers; that of a write
  that misread HEAD is a `Restart`.  Every other step, a failure included, is a
  stutter or changes `loose` only.

`RuntimeProofs`: the watch targets, the bus and the daemon.

* `WatchTargets`: `TargetsTyping`, `TargetsNeverOverlap`, `ResolutionIsUnique`
  and `GrantsNeverUncover`, from the facts that paths form a tree (two ancestors
  of a path are comparable), that the nearest existing directory of a path
  exists and is unique, and that above every directory of a source there is a
  target.  The last takes the shortest of the directories above it.  These facts
  are in `SharedLemmas`, with the least and the greatest of a set of naturals,
  since other proofs need them, too.
* `EventBus`: `BusTyping`, `MutualExclusion`, `Drained` from one invariant.
  That a worker that has read STOP has an empty mailbox for good is not
  inductive; that STOP is always the last thing in a mailbox, and that the
  dispatcher is over when the bus is closed, is.
* `Delivery`: every subscription's channel implements `Mailbox`
  (`EachDelivery` says the same as `Spec => Spec` for one of them).  `WatchInv`
  is what the mapping needs beside the invariant of before: a fanout is under
  way only while the observer has handlers, and it has none when `stop` has got
  as far as joining it or the bus is closed.  So no event goes in after STOP and
  none that is wanted is dropped before the stop.  One lemma, `ChannelStep`,
  maps each action to one step of the channel or to a stutter.
* `TopicsMatch`: for every pattern and every topic, of any length, the table has
  TRUE in its last cell exactly if the topic can be cut.  Being cut satisfies
  the equation that fills the table (`CutCell`): a cut of shorter keys is
  extended, and one of longer keys shortened, by explicit functions.  And
  nothing else satisfies it: where two tables first differ, by the sum of the
  indices, they agree on the cells before (`TableIsCut`).  That is an induction
  by least counterexample, and so needs no theorem with an operator for a
  parameter.  `RoutesAsDefined` follows, for the run's property.
* `Daemon`: `Typing` with any number of commands at a time; with one,
  `OneDaemon` and `QuitsWhenAsked`.  `KnownInv` says for every point of `start`
  and `stop` which daemons there can be: none from the check to the spawn, the
  one of the PID file while `stop` waits; and that a sentinel is about daemons
  that a stop was about.  (With two commands the second is not so:
  DaemonRestart.)

`ConfigReloadProofs`

* `NothingElseIsVersioned`: whatever may become a row or a commit (a scope, a
  job, a pending file, the two configurations of a reload) is within what was
  granted (`GrantedInv`).  This needs no assumption.
* `Typing`, `BaselineIsWatched`, `StaleScopeIsDropped` and `ReloadsConverge`
  assume a `Setting`: every source can be watched; `config.yaml` is in no
  source's directory and is not replaced by a rename, which are the cases
  *ConfigReloadWatch* and *ConfigReloadReplace* below; and the values that stand
  for "none" differ from the others.
* `KnownInv`: the files of the snapshot have rows, since a configuration is
  stored when the last of its files has one.  That is why a file to deactivate
  has a row to deactivate.
* `WatchInv`: the watches are those of the snapshot, or of the configuration
  that was just reconciled.
* `SmoothInv`: as long as `config.yaml` only grew and no mirror write of the
  source worker failed, it is the baseline, or an event in one of two queues says
  otherwise, or the last reload raised (`aborted`); nothing is to be removed; and
  each file of the baseline has its row and its commit or is still to be handled.
  A reload that raises, in an INSERT or in git, leaves the baseline as it was, so
  all of this survives it.  When nothing is under way and the last reload was
  stored, only the first of each alternative is left.

`SessionRollbackProofs`: `Typing`, `LaterCommitsSurvive`, `RolledIsUndone` and
`MirrorIsDisk`.  The listed commits stay as they are while the history grows
(`ListedCommitsStay`), so what was listed at the beginning can be compared with
HEAD.  `LaterCommitsSurvive` needs the comparison itself in the invariant
(`KeptInv`): for the path being restored and those already rolled back, none of
the commits there were at its last comparison (`looked`) is somebody else's and
later than the session's; whatever is committed after that leaves these alone.
The last two hold from the restore's commit on, before the path is reported,
which makes them inductive.

`StartupProofs`, for any number of boots, killed wherever

* `Typing`.  That a row precedes its mirror and no two active rows share a
  location needs `BootInv`: what is left to do at each point of a boot, and that
  from the new status on the active rows are those of files in scope.
* `UpIsApplied` and `UpIsVersioned`.  `AppliedInv` has every file in scope be
  versioned, in the hands of the boot or below a source still to be scanned,
  once the status is set.  Its content and its target are where the two differ:
  the target is today's only if `config.yaml` was left alone.
* `DroppedIsGone`, for any sources, nested ones included.  `DroppedInv` follows
  each entry at HEAD through a boot: it is where the baseline has its path, which
  has an active row (`Kept`); then so by what the boot read of the two
  (`Before`); then kept again, by the new baseline, or about to be removed
  (`Doomed`); or its path is `retargeted`.  That a boot which
  keeps a path also keeps its target is what the snapshot's being emptied first
  and stored last is for, and why `cut` and `raced` are excepted; where a source
  above the path widens its target, the entry stays, which is *StartupWidened*
  below.

`VersioningProofs`, for any paths, folders, inodes, contents and changes

* `Typing`, from which events a folder's renaming gives: its files arrive as
  files.
* `HistoryFollowsDisk` and `RowsFollowTheFiles`.  Once the worker has caught up
  is too late for an induction, so the invariants are about the `Trail`, the
  events on their way with the one at the worker in front.  The last of them
  about a file says what is so on the disk (`Due`); a file none of them is about
  agrees with its mirror (`Matches`).  A move needs more, because git moves what
  it has: the old path's HEAD has to be like the content that is now at the new
  one and nothing ahead of the move may touch it, which is so because `missed`
  takes every file that was renamed before it was settled.  `InHand` is what a
  handler has read between its steps, such as the inode that a move saw at its
  destination: it is that of the file if no later event is about it and it lost no
  change.  The rows are ahead of the mirrors by
  one event, so theirs are the promises of the mailbox alone (`RowAwaited`), and
  no inode is at two paths (`Distinct`), so that setting one row unsets no
  other.
* A change on the disk is reasoned about once, as `Change`: its events tell the
  truth of every file at the end (`Honest`), and `Reported` is what arrives of
  them, in order, or is `missed`.  One lemma per kind of change shows that it is
  one, one lemma per handler step shows that it keeps the promises.
* `Setting` is what is assumed: a file has nothing below it; a folder that can
  be renamed has no watch target in it, since then its files change
  repositories one by one; every source can be watched; the glued names of
  *VersioningDirMove* name no file of the model; a directory is no inode; and
  None is no record.  The run's instance is one such setting.

`AgentToolsProofs`

* `Typing`, together with `Shape`: a call has paths left to check while it is
  in the guardrail, and approvals left while it persists.
* `GrantsAreEarned`: what a call has still to persist is `earned`, and what it
  has approved is so when it succeeds (`GrantsEarned`).
* `HintsLabelOnce`: `CreditCovers` says that the credit of an agent is at least
  the number of its claims: pending hints in its name, and the label of the
  task.  A hint that was read and is not yet deleted is one claim and not two,
  because the deletion goes by path; the number of claims is a cardinality,
  and the lemmas on `Claims` and `Held` say what a hint set, deleted, expired or
  used does to it.
* `CheckedWritesAreSeen`: the mirror at the version an agent was told has a
  text that is similar to the one it was told, for as long as that version
  lasts (`Told`, `ReadsTold`), since a commit that changes the text also
  changes the version; a call names a version only of the path it read
  (`WantsSeen`).  At the check, if the mirror is up to date, similarity is used
  twice: what is on the disk is near what was read (`CheckFindsSeen`).
  `CheckedSeen` carries that to the write, which replaces what the check found or
  is in the first of the three windows.

`MutualExclusion` and `TargetsNeverOverlap` are about invariants that no run
checks, since the proofs are for every instance.

With these, every safety invariant and every action property of a passing run
is a theorem, and so are both refinements.  Only model-checked is what must
happen in the end: `EveryCallReturns`, `ReloadCompletes`, `AcceptedIsHandled`,
`StopCompletes` and `StopReturns`.  They rest on fairness, which is beyond this
prover.  `BusTypeOK` is the other way round: it is proved (`BusTyping`) and no
run lists it.

## Where code and words disagree

The three violation runs are findings in `PROJECT.json`.

* *ConfigReloadRevoke*: revoking the only source of a directory leaves no
  target that covers it, so `deleted_handle` raises before it touches the
  mirror; spec 026 has the removal committed.
* *SessionRollbackMoved*: `git show --name-only` reports a rename by its new
  name only, so the rollback of a session that moved a file deletes it.
* *VersioningDirMove*: `git_store.move` stages a directory's tree like a file,
  with `update-index --cacheinfo`.  git accepts that, and `write-tree` then
  writes the names of the tree and of its entries glued together: of `d/x`,
  moved to `e`, HEAD has `ex`.  (git itself was tried by hand.)

Modelling turned up more, mostly narrow races.  `tlc -config X.cfg M` prints the
counterexample; where the configuration is that of a run, put the property named
here in the place of the run's and Spec in that of FairSpec, and give the
constants the values named here.

| configuration | module | property | what happens |
|---|---|---|---|
| GitStoreClobber | MCGitStore | CheckedWriteNeverClobbers | `write_with_check` compares before `write` takes the lock, and replaces a commit made in between; ARCHITECTURE.md:286-287 has such a rollback raise `ConcurrentEditError` "instead of clobbering it". |
| GitStoreStaleStage | MCGitStore | WriteStartsFromHead | After a call failed between `update-index` and `update-ref`, the next write stages on top of what it left and commits it as its own; the docstring (`git_store.py:225-227`) has the index reflect HEAD. |
| GitStoreBootReset | MCGitStore | BootClearsLeftover | A git killed by its timeout leaves `index.lock`, so the boot's `read-tree` fails; spec 037 (lines 86-90) relies on that reset. |
| GitStore, Faults = {"orphan"} | MCGitStore | Chain | A git child that outlives its killed process moves HEAD without the lock and drops a commit. |
| GitStore, Faults = {"unread"}, MaxFaults = 1 | MCGitStore | Chain | `_rev_parse_or_none` takes any non-zero exit for an unborn HEAD; a write then makes a commit without parent, and readers of the history find nothing before it. |
| GitStore, Faults = {"unread"}, MaxFaults = 1 | MCGitStore | NoneMeansUntracked | A `remove` or `move` that could not read HEAD or the path returns None and has done nothing; None is for what "isn't tracked at HEAD" (`git_store.py:317`, likewise 282). |
| GitStore, Faults = {"unread", "kill"}, MaxFaults = 2 | MCGitStore | BootClearsLeftover | The boot's reset that cannot read HEAD empties the index of a repository that has commits; the next commit deletes every other path. |
| WatchTargetsNested | MCWatchTargets | BootResetsEveryRepo | `existing_mirror_repos` stops at the first repository on the way down, and misses those inside; its docstring says "at any depth". |
| ConfigReloadTorn | MCConfigReload | RowsMatchConfig | A reader between `_dump_config`'s truncation and its write sees no sources; rows stay inactive. |
| ConfigReloadReplace | MCConfigReload | EverySaveIsNoticed | A save by rename is a move whose source is another file: no config event. `local_runtime.py:110` watches the parent for the sake of such saves. |
| ConfigReloadWatch | MCConfigReload | ReconcileKeepsConfigWatch | `remove_watch` takes the first job with the path, whatever its tag, which can be the config watch. |
| ConfigReloadRace | MCConfigReload | NoneMirroredOnceDeactivated | The source worker commits a file after the config worker deactivated it. |
| ConfigReloadRace, Revokes = FALSE | MCConfigReload | EverySaveIsNoticed | Both workers find no row and INSERT one (`versioning.py:37-40`); the config worker's raises before `reconcile` and the snapshot, and nothing tries the reload again. |
| ConfigReloadOverlap | MCConfigReload | StatusMeansInScope | Of two overlapping sources one is dropped: files of the other are deactivated. |
| VersioningDropped | MCVersioning | DroppedIsHarmless | A deletion within half a second of another event of its path is dropped, and no next edit makes up for it; local_watcher.py:37-38 says "For ordinary files a dropped event is harmless; the next edit re-fires it." |
| VersioningDirMove | MCVersioning | MovesDoNotRaise | `_get_context_id_by_location` looks at the destination a second time, outside the `try` (`versioning.py:137`): gone by then, the handler raises and the source stays at HEAD; spec 006 (EC-1) has the call not raise. |
| AgentToolsUnseen | MCAgentTools | CheckedWritesAreAtomic | An edit between the check of the version and the write is replaced unseen (`server.py:187-192`). |
| AgentToolsUnseen | MCAgentTools | ReadsAreOneLook | `read_file` reads the text and then the version: a commit in between gives an agent the old text with the new version. |
| AgentToolsUnseen | MCAgentTools | CheckedWriteSeesEdits | An edit below the threshold is never committed, so a write that names the version of before replaces it at any later time; ARCHITECTURE.md:296-298 has the check narrow the window to the watcher's debounce and dispatch. |
| SessionRollback | SessionRollback | EditsAreRefused | An edit that is not committed yet is overwritten; the docstring promises refusal. |
| SessionRollback | SessionRollback | CommitsAreRefused | A commit between the last comparison of the head and the restore's own commit is overwritten; a removal does not compare a second time. |
| DaemonRestart | Daemon | OnlyAskedQuit | The sentinel of a `stop` whose daemon had just died stops the next daemon. |
| DaemonAlone | Daemon | ReusedIsStopped | A PID file left by a crash names a stranger, and `status` calls it running; spec 019 says it never does. |
| StartupCrash | MCStartup | MirrorMatchesStatus | A boot killed after storing the snapshot or the status leaves nothing to compare with. |
| StartupRace | MCStartup | BaselineIsApplied | `store_config_snapshot` reads `config.yaml` anew, and may store a source that this boot does not scan. |
| StartupGone | MCStartup | DroppedAreRemoved | The old targets are derived from today's directories: one that is gone widens the target of its siblings. |
| StartupWidened | MCStartup | MirrorMatchesStatus | A file whose target changed stays at HEAD of the former repository. |
| StartupReplaced | MCStartup | NoSpuriousRemovals | A file replaced by a rename is removed from its mirror, then added: spec 026 AC-3 has no removals on an ordinary boot. |

## What the models leave out

* SQLite: a transaction is one step and is never lost.  Watchdog: taken as the
  code uses it, a queue, one lock, recursive and debounced watches.  Git: what
  each plumbing call does to index, HEAD and objects; gc, packing and
  signatures do not matter here.  The operating system's PIDs, signals and file
  locks likewise.
* Paths as strings: normalisation, drive letters, case.  Contents beyond the
  threshold, messages and authors of commits other than the rollback's and the
  hints'.
* `ConfigReload` has files that exist throughout, `Versioning` a configuration
  that does not change; files that come and go while `config.yaml` is being
  applied are in neither.  A writer's torn write is in `ConfigReload`; in
  `Startup` and `AgentTools` a rewrite is whole.
* `Versioning` has git calls that succeed (`GitStore` has those that do not).
  `created_handle` asks three times what is at its path and the model once: what
  comes between is a replacement or a deletion, which has events of its own.
* `AgentTools` has one repository and one watched directory; a tool's operation
  may fail in it, the daemon's git and database calls do not.
* `Startup` changes files between boots only; an inode is the identity
  (st_ino, st_dev), and there are no hard links.  The reset of the indexes,
  which a boot does first, is in `GitStore`.
* `SessionRollback` takes a commit as one step and one watch target; what
  happens inside a commit, and git calls that fail, are in `GitStore`.  What was
  edited before the rollback is committed by then.  `Daemon` has one command at a
  time: with two, both find no daemon and start one, which no document of the
  repository denies.
* `init_repo`'s own git calls: a repository in `GitStore` exists.  The time
  under the lock: `move` makes eight calls of up to 4 s against the 30 s of a
  waiter, where the comment at `git_store.py:33-34` counts six; there is no
  clock here.
* Not modelled at all: the HTTP API (a key check and read-only calls), the
  command line (arguments, output and one modelled operation each) and
  autostart (files for a service manager).  They keep no state of their own
  that another part reads.

## Plan

Done, in this order: `GitStore` with `AtomicMirror` and proofs; `MirrorPaths`,
`WatchTargets` with proofs; `ConfigReload`; `EventBus` with proofs, `TopicMatch`;
`Daemon`; `SessionRollback`; `Startup`; `Versioning`; `AgentTools` with proofs;
refinement of `AtomicMirror` under every fault; proofs of `ConfigReload`,
`Daemon`, `SessionRollback`, `Startup` and `Versioning`; `Mailbox`, and that
`EventBus` implements it; `TopicMatch` for keys of any length.

Next, by what is most worth having:

1. `init_repo` in `GitStore`: a repository half made, a `config.lock` left
   behind, first calls of two processes.
2. `Startup` and `ConfigReload` composed, for files that change between the
   scan and the first watch; `Versioning` with a configuration that changes.
3. A clock for the lock: what a holder may take against what a waiter waits.

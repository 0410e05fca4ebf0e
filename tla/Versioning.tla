------------------------------ MODULE Versioning ------------------------------
(***************************************************************************)
(* From a change on the disk to a commit: what the watcher makes of it     *)
(* (local_watcher.py, formatter.py), which events the source subscription  *)
(* lets through (local_runtime.py), and the handlers that the source       *)
(* worker runs for them (local_consumer.py, versioning.py): rows by inode, *)
(* mirrors by path.                                                        *)
(*                                                                         *)
(* The configuration does not change here, nobody else commits, and the    *)
(* calls of git_store succeed.  watchdog is modelled as src/ uses it: a    *)
(* rename between two watches is a deletion and a creation, the rename of  *)
(* a directory is reported for the directory and then for each of its      *)
(* files, its departure for the directory only.                            *)
(***************************************************************************)
EXTENDS MirrorPaths, FiniteSets, SequencesExt

CONSTANTS
    Source,    \* the sources of config.yaml
    Dir,       \* the directories they lie in
    File,      \* paths a file may have
    Folder,    \* directories below a watched one, which may be renamed
    Start,     \* the files of the beginning, all of them versioned
    Ino,       \* inodes; a free one is used again
    Content,   \* contents, in a row: neighbours are similar
    None,
    MaxOps     \* bound: changes on the disk

ASSUME VersioningAssumption ==
    /\ Start \subseteq {f \in File : InScope(f, Source)}
    /\ Content # {} /\ Content \subseteq Nat
    /\ None \notin Content \union Ino /\ None \notin Folder
    /\ MaxOps \in Nat

VARIABLES
    disk,    \* what is at each path: inode and content
    recent,  \* paths with an event in the last half second (last_event)
    queue,   \* the mailbox of the source subscription
    task,    \* the event the worker is at, and what its handler has found: the
             \* text of an edit, the inode or the directory a move went to
    row,     \* table locations, by inode: location and status
    head,    \* the mirrors' HEAD, by path
    ops,
    missed,  \* history: paths that lost a change and saw no other one since
    strayed  \* history: the same, but only a creation sets the row right

history == <<missed, strayed>>
vars == <<disk, recent, queue, task, row, head, ops, history>>

Target == Derive(Source, Dir)

\* The targets do not nest (WatchTargets), so a path names its repository.
Watched(p) == Resolve(p, Target) # {}

SameRepo(p, q) == Resolve(p, Target) = Resolve(q, Target)

\* p, which is src or lies under it, after src has become dst.
Moved(p, src, dst) == dst \o SubSeq(p, Len(src) + 1, Len(p))

Below(src) == {p \in File : Under(p, src)}

\* update-index --cacheinfo takes a tree as one entry, and write-tree glues its
\* name and the names in it together.
Landing(p, src, dst) ==
    IF p = src THEN dst
    ELSE Front(dst) \o <<<<Last(dst), p[Len(src) + 1]>>>> \o SubSeq(p, Len(src) + 2, Len(p))

Tracked == File \union UNION {{Landing(p, d, e) : p \in Below(d)} : d, e \in Folder}

\* text_similarity is at least NEW_VERSION_THRESHOLD.
Similar(c, d) == c <= d + 1 /\ d <= c + 1

Event == [kind : {"created", "modified", "deleted"}, src : File]
            \union [kind : {"deleted"}, src : Folder]
            \union [kind : {"moved"}, src : File, dst : File]
            \union [kind : {"moved"}, src : Folder, dst : Folder]

Ev(kind, p) == [kind |-> kind, src |-> p]
Mv(p, q) == [kind |-> "moved", src |-> p, dst |-> q]

Found(kind) ==
    CASE kind = "modified" -> Content
      [] kind = "moved" -> Ino \union Folder \union {None}
      [] OTHER -> {None}

Touches(e, p) == Under(p, e.src) \/ (e.kind = "moved" /\ Under(p, e.dst))

TypeOK ==
    /\ disk \in [File -> [ino : Ino, content : Content] \union {None}]
    /\ recent \subseteq File \union Folder
    /\ queue \in Seq(Event)
    /\ task = None \/ (task.event \in Event /\ task.found \in Found(task.event.kind))
    /\ row \in [Ino -> [loc : File, active : BOOLEAN] \union {None}]
    /\ head \in [Tracked -> Content \union {None}]
    /\ ops \in 0..MaxOps
    /\ missed \subseteq File
    /\ strayed \subseteq File

First == Min(Content)

Init ==
    /\ \E i \in [Start -> Ino] :
          /\ IsInjective(i)
          /\ disk = [f \in File |-> IF f \in Start THEN [ino |-> i[f], content |-> First] ELSE None]
          /\ row = [n \in Ino |->
                       IF \E f \in Start : i[f] = n
                       THEN [loc |-> CHOOSE f \in Start : i[f] = n, active |-> TRUE]
                       ELSE None]
          /\ head = [p \in Tracked |-> IF p \in Start THEN First ELSE None]
    /\ recent = {}
    /\ queue = <<>>
    /\ task = None
    /\ ops = 0
    /\ missed = {}
    /\ strayed = {}

Pending == ToSet(queue) \union (IF task = None THEN {} ELSE {task.event})

-----------------------------------------------------------------------------
(* The disk and the watcher. *)

\* LocalRuntime._in_scope: a move is let through for either end.
InSubscription(e) ==
    InScope(e.src, Source) \/ (e.kind = "moved" /\ InScope(e.dst, Source))

\* A move of a file that was not versioned as it is leaves the other path so.
Unsettled(e) ==
    e.src \in Folder \/ e.src \in missed \/ head[e.src] = None
        \/ \E o \in Pending : Touches(o, e.src)

\* A watch reports what is under its directory.
Seen(e) == Watched(e.src) \/ (e.kind = "moved" /\ Watched(e.dst))

\* The elements of s with the indices K, in their order.
Those(s, K) ==
    [n \in 1..Cardinality(K) |-> s[CHOOSE i \in K : Cardinality({j \in K : j <= i}) = n]]

\* on_any_event for the events of one change, in their order.  WatchWorker
\* drops the event of a path that had one within the debounce interval,
\* whatever the two are.  (\E binds seen once.)
Report(events) ==
    \E seen \in {{i \in DOMAIN events : Seen(events[i])}} :
    LET through == {i \in seen : events[i].src \notin recent /\ InSubscription(events[i])}
        delivered == {events[i] : i \in through}
        dropped == {events[i] : i \in seen \ through}
        told(kinds) == {p \in File : \E e \in delivered : e.kind \in kinds /\ Under(p, e.src)}
        lost == {p \in File : \/ \E e \in dropped : Touches(e, p)
                              \/ \E e \in delivered :
                                    e.kind = "moved" /\ Under(p, e.dst) /\ Unsettled(e)}
    IN  /\ queue' = queue \o Those(events, through)
        /\ recent' = recent \union {events[i].src : i \in seen}
        /\ missed' = (missed \ told({"created", "modified", "deleted"})) \union lost
        /\ strayed' = (strayed \ told({"created"})) \union lost
        /\ ops' = ops + 1
        /\ UNCHANGED <<task, row, head>>

\* Half a second has passed.
Expire(p) ==
    /\ p \in recent
    /\ recent' = recent \ {p}
    /\ UNCHANGED <<disk, queue, task, row, head, ops, history>>

Exists(p) == disk[p] # None

\* A new file; that it was also written is debounced.
Create(f) ==
    /\ ~Exists(f)
    /\ \E i \in Ino \ {disk[g].ino : g \in {h \in File : Exists(h)}}, c \in Content :
          disk' = [disk EXCEPT ![f] = [ino |-> i, content |-> c]]
    /\ Report(<<Ev("created", f)>>)

Modify(f) ==
    /\ Exists(f)
    /\ \E c \in Content \ {disk[f].content} : disk' = [disk EXCEPT ![f].content = c]
    /\ Report(<<Ev("modified", f)>>)

Delete(f) ==
    /\ Exists(f)
    /\ disk' = [disk EXCEPT ![f] = None]
    /\ Report(<<Ev("deleted", f)>>)

\* Between two watches it is two events, or one if a wider watch covered both
\* paths until the configuration changed.
Rename(f, g) ==
    /\ Exists(f)
    /\ f # g
    /\ disk' = [disk EXCEPT ![g] = disk[f], ![f] = None]
    /\ \/ Report(<<Mv(f, g)>>)
       \/ ~SameRepo(f, g) /\ Report(<<Ev("deleted", f), Ev("created", g)>>)

\* A folder that leaves its watch is reported as a whole, one that arrives file
\* by file; no directory is moved into itself.
RenameFolder(d, e) ==
    /\ ~Under(e, d)
    /\ \E f \in Below(d) : Exists(f)
    /\ \A f \in Below(e) : ~Exists(f)
    /\ \A f \in Below(d) : Moved(f, d, e) \in File
    /\ disk' = [f \in File |->
                   IF Under(f, e) /\ Moved(f, e, d) \in File THEN disk[Moved(f, e, d)]
                   ELSE IF Under(f, d) THEN None ELSE disk[f]]
    /\ \E from \in SetToSeqs({f \in Below(d) : Exists(f)}) :
          LET to == [i \in DOMAIN from |-> Moved(from[i], d, e)]
          IN  \/ Report(<<Mv(d, e)>> \o [i \in DOMAIN from |-> Mv(from[i], to[i])])
              \/ /\ ~SameRepo(d, e)
                 /\ Report(<<Ev("deleted", d)>> \o [i \in DOMAIN from |-> Ev("created", to[i])])

-----------------------------------------------------------------------------
(* The worker: a row step, which takes the event, and a mirror step. *)

Pick(kind) ==
    /\ task = None
    /\ queue # <<>>
    /\ Head(queue).kind = kind
    /\ queue' = Tail(queue)
    /\ UNCHANGED <<disk, recent, ops>>

At(kind) ==
    /\ task # None
    /\ task.event.kind = kind
    /\ task' = None
    /\ UNCHANGED <<disk, recent, queue, row, ops>>

Continue(e, found) == task' = [event |-> e, found |-> found]

\* _append_context: insert the row of this inode, or move and activate it.  A
\* file that is gone raises.
AppendRow(p) ==
    row' = [row EXCEPT ![disk[p].ino] = [loc |-> p, active |-> TRUE]]

CreatedRow ==
    /\ Pick("created")
    /\ LET e == Head(queue) IN
          IF Exists(e.src) THEN AppendRow(e.src) /\ Continue(e, None)
                           ELSE UNCHANGED <<row, task>>
    /\ UNCHANGED <<head, history>>

\* read_bytes, now; a file that has gone since raises.
CreatedMirror ==
    /\ At("created")
    /\ LET p == task.event.src IN
          head' = IF Exists(p) THEN [head EXCEPT ![p] = disk[p].content] ELSE head
    /\ UNCHANGED history

\* Mutant: a file that is gone is read as empty.
ReadAnyway ==
    /\ Pick("modified")
    /\ Continue(Head(queue), None)
    /\ UNCHANGED <<row, head, history>>

\* TempFile.from_path, before the handler.
ReadModified ==
    /\ Pick("modified")
    /\ LET e == Head(queue) IN
          IF Exists(e.src) THEN Continue(e, disk[e.src].content) ELSE UNCHANGED task
    /\ UNCHANGED <<row, head, history>>

\* Without a row the file is handled as a new one: its row step, here.
ModifiedUnknown ==
    /\ task # None
    /\ task.event.kind = "modified"
    /\ LET p == task.event.src IN
          /\ Exists(p)
          /\ row[disk[p].ino] = None
          /\ AppendRow(p)
          /\ Continue(Ev("created", p), None)
    /\ UNCHANGED <<disk, recent, queue, head, ops, history>>

\* _should_commit compares with HEAD, not with the last content seen.
ModifiedMirror ==
    /\ At("modified")
    /\ LET p == task.event.src
           same == head[p] # None /\ Similar(head[p], task.found)
       IN  /\ Exists(p) => row[disk[p].ino] # None
           /\ head' = IF Exists(p) /\ ~same THEN [head EXCEPT ![p] = task.found] ELSE head
    /\ UNCHANGED history

\* The row of the path, and those of the files under it.
DeletedRow ==
    /\ Pick("deleted")
    /\ LET e == Head(queue) IN
          /\ row' = [i \in Ino |->
                        IF row[i] # None /\ Under(row[i].loc, e.src)
                        THEN [row[i] EXCEPT !.active = FALSE] ELSE row[i]]
          /\ Continue(e, None)
    /\ UNCHANGED <<head, history>>

\* Mutant: only the path itself.
WithoutNode(h, src) == [p \in Tracked |-> IF p = src THEN None ELSE h[p]]

Without(h, src) == [p \in Tracked |-> IF Under(p, src) THEN None ELSE h[p]]

DeletedMirror ==
    /\ At("deleted")
    /\ head' = Without(head, task.event.src)
    /\ UNCHANGED history

\* The prefix of the rows under src.
MovedRows(e) ==
    [i \in Ino |->
        IF row[i] # None /\ Under(row[i].loc, e.src) /\ row[i].loc # e.src
        THEN [loc |-> Moved(row[i].loc, e.src, e.dst), active |-> InScope(e.dst, Source)]
        ELSE row[i]]

\* get_path_stats: a file's inode or a directory; that one without files in it
\* may be gone as well.
Stat(p) ==
    IF p \in File THEN {IF Exists(p) THEN disk[p].ino ELSE None}
    ELSE {p} \union (IF \E f \in Below(p) : Exists(f) THEN {} ELSE {None})

\* Mutant: the rows of the files under a directory only.
SubtreeOnly ==
    /\ Pick("moved")
    /\ LET e == Head(queue) IN
          /\ row' = MovedRows(e)
          /\ Continue(e, None)
    /\ UNCHANGED <<head, history>>

\* subtree_query, and dst is looked at; gone, there is no node to update.
MovedRow ==
    /\ Pick("moved")
    /\ LET e == Head(queue) IN
          /\ row' = MovedRows(e)
          /\ \E n \in Stat(e.dst) : Continue(e, n)
    /\ UNCHANGED <<head, history>>

\* _get_context_id_by_location looks again.  If dst has gone since, that raises,
\* and so does the update if the row of another file would take the key of
\* another row: the mirrors' turn never comes.  Where the row of the file that
\* was moved is missing it gets the row of the one that took its place.
MovedNode ==
    LET e == task.event
        named == [loc |-> e.dst, active |-> InScope(e.dst, Source)]
        known(n) == n \in Ino /\ row[n] # None
        free(n) == n = task.found \/ row[task.found] = None
        replaced(n) == IF n = task.found THEN {} ELSE {e.dst}
    IN  /\ task # None
        /\ e.kind = "moved"
        /\ task.found # None
        /\ \E n \in Stat(e.dst) :
              \/ /\ n = None \/ (known(n) /\ ~free(n))
                 /\ task' = None
                 /\ missed' = missed \union Below(e.src)
                 /\ UNCHANGED <<row, strayed>>
              \/ /\ n # None /\ ~known(n)
                 /\ Continue(e, None)
                 /\ UNCHANGED <<row, history>>
              \/ /\ known(n) /\ free(n)
                 /\ row' = [row EXCEPT ![n] = None, ![task.found] = named]
                 /\ Continue(e, None)
                 /\ missed' = missed \union replaced(n)
                 /\ strayed' = strayed \union replaced(n)
        /\ UNCHANGED <<disk, recent, queue, head, ops>>

\* git_store.move: the entry of src becomes the entry of dst; nothing if src is
\* not tracked.
Move(h, src, dst) ==
    LET from(p) == {q \in Below(src) : h[q] # None /\ p = Landing(q, src, dst)}
    IN  [p \in Tracked |-> IF from(p) # {} THEN h[CHOOSE q \in from(p) : TRUE]
                           ELSE IF Under(p, src) THEN None ELSE h[p]]

\* Within one repository git moves what it has, dst is not read.  Between two,
\* dst is read and written, then src removed; out of the watched directories,
\* src is removed; from outside of them the handler raises.
MovedMirror ==
    /\ At("moved")
    /\ task.found = None
    /\ LET src == task.event.src
           dst == task.event.dst
           gone == dst \notin File \/ ~Exists(dst)
       IN  CASE ~Watched(src) -> UNCHANGED <<head, history>>
             [] Watched(src) /\ ~Watched(dst) ->
                  head' = Without(head, src) /\ UNCHANGED history
             [] Watched(src) /\ Watched(dst) /\ SameRepo(src, dst) ->
                  head' = Move(head, src, dst) /\ UNCHANGED history
             [] Watched(src) /\ Watched(dst) /\ ~SameRepo(src, dst) /\ gone ->
                  missed' = missed \union Below(src) /\ UNCHANGED <<head, strayed>>
             [] OTHER ->
                  head' = [Without(head, src) EXCEPT ![dst] = disk[dst].content] /\ UNCHANGED history

Worker ==
    \/ CreatedRow \/ CreatedMirror
    \/ ReadModified \/ ModifiedUnknown \/ ModifiedMirror
    \/ DeletedRow \/ DeletedMirror
    \/ MovedRow \/ MovedNode \/ MovedMirror

\* The passing of time only matters while changes are left.
World ==
    /\ ops < MaxOps
    /\ \/ \E f \in File : Create(f) \/ Modify(f) \/ Delete(f)
       \/ \E f, g \in File : Rename(f, g)
       \/ \E d, e \in Folder : RenameFolder(d, e)
       \/ \E p \in File \union Folder : Expire(p)

Next == World \/ Worker

Spec == Init /\ [][Next]_vars

-----------------------------------------------------------------------------
CaughtUp == queue = <<>> /\ task = None

\* Once the worker has caught up, HEAD has what is on the disk, up to the
\* threshold, and nothing else: for every path in scope but those that lost a
\* change and saw no other since.  A change is lost in five ways: debouncing
\* drops its event; a file is renamed before it was versioned or while an event
\* of it is pending; a directory is renamed; a file moved between repositories
\* is gone when it is read; or what was moved is gone or replaced between the
\* two looks that moved_handle has at it, which ends the handler before its
\* mirror step.  (modified_handle, created_handle, deleted_handle,
\* moved_handle.)
HistoryMatchesDisk ==
    CaughtUp => \A f \in File \ missed :
        InScope(f, Source) =>
            IF Exists(f) THEN head[f] # None /\ Similar(head[f], disk[f].content)
                         ELSE head[f] = None

\* And the row of such a file is active and has its path, whatever was renamed,
\* replaced or deleted before and whichever inode was used again.
RowsFollowFiles ==
    CaughtUp => \A f \in File \ strayed :
        InScope(f, Source) /\ Exists(f) => row[disk[f].ino] = [loc |-> f, active |-> TRUE]

\* Specification 006: the move of a directory moves its whole subtree.
DirMoveMovesSubtree ==
    [][\A d, e \in Folder :
          /\ task # None
          /\ task.event = Mv(d, e)
          /\ task' = None
          => \A f \in Below(d) : head'[Moved(f, d, e)] = head[f]]_vars

\* Specification 006, EC-1: a move whose destination is gone when it is handled
\* does not raise, so it ends with its mirror step.
MovesDoNotRaise ==
    [][task # None /\ task.event.kind = "moved" /\ task' = None => task.found = None]_vars

\* local_watcher.py: a dropped event is harmless, as the next edit re-fires it;
\* a file that is gone has no next edit.
DroppedIsHarmless ==
    CaughtUp => \A f \in File : InScope(f, Source) /\ ~Exists(f) => head[f] = None

=============================================================================

---------------------------- MODULE SessionRollback ----------------------------
(***************************************************************************)
(* ctx rollback-session (vcs/services/audit.py, rollback_session): undo    *)
(* what one actor did to the files of a watch target, path by path, while  *)
(* others keep editing them and the watcher commits some of what they      *)
(* edit.  Git's own part, and its failures, are GitStore's; here a commit  *)
(* is one step.                                                            *)
(***************************************************************************)
EXTENDS Naturals, Sequences, FiniteSetsExt

CONSTANTS
    Path,     \* files of the watch target
    Content,
    Absent,   \* the content of a file that does not exist
    Session,  \* the actor to roll back
    Other,    \* anybody else
    Rollback, \* the author of what a rollback commits
    Revocable, \* files that may have left scope when the rollback gets to them
    Moves,    \* whether the session moves files, too
    Edits,    \* whether others edit while the rollback runs
    MaxCommits \* bound: commits and edits

ASSUME SessionRollbackAssumption ==
    /\ Absent \notin Content \union Path
    /\ Cardinality({Session, Other, Rollback}) = 3
    /\ Revocable \subseteq Path
    /\ {Moves, Edits} \subseteq BOOLEAN
    /\ MaxCommits \in Nat

VARIABLES
    history, \* the commits: who made it, the tree it leaves
    disk,    \* the files
    dirty,   \* files with an event the watcher has not handled
    pc,      \* work, roll, check, restore, write, done
    began,   \* commits there were when the rollback listed them
    todo,    \* paths it has yet to handle
    at,      \* the path it is at
    rolled, failed,
    looked,  \* history: commits there were when a path's head was last compared
    missed,  \* history: files whose last event was dropped or skipped
    used     \* commits and edits so far

vars == <<history, disk, dirty, pc, began, todo, at, rolled, failed, looked, missed,
          used>>

File == Content \union {Absent}
Empty == [p \in Path |-> Absent]

Tree(n) == IF n = 0 THEN Empty ELSE history[n].tree
HeadTree == Tree(Len(history))
Touched(n) == {p \in Path : Tree(n)[p] # Tree(n - 1)[p]}

\* head_rev; 0 is None.
HeadRev(p) == Max({0} \union {n \in 1..Len(history) : p \in Touched(n)})

Commit(who, tree) ==
    history' = IF tree = HeadTree THEN history
                               ELSE Append(history, [by |-> who, tree |-> tree])

Init ==
    /\ history = <<>>
    /\ disk = Empty
    /\ dirty = {}
    /\ pc = "work"
    /\ began = 0
    /\ todo = {}
    /\ at = Absent
    /\ rolled = {}
    /\ failed = {}
    /\ looked = [p \in Path |-> 0]
    /\ missed = {}
    /\ used = 0

-----------------------------------------------------------------------------
(* Before the rollback: somebody changes files, the watcher commits it. *)

Work(who, tree) ==
    /\ pc = "work"
    /\ used < MaxCommits
    /\ used' = used + 1
    /\ disk' = tree
    /\ Commit(who, tree)
    /\ UNCHANGED <<dirty, pc, began, todo, at, rolled, failed, looked, missed>>

Change(who) ==
    \E p \in Path : \E c \in File : Work(who, [disk EXCEPT ![p] = c])

Move(who) ==
    /\ Moves
    /\ \E p, q \in Path :
          /\ disk[p] # Absent
          /\ p # q
          /\ Work(who, [disk EXCEPT ![p] = Absent, ![q] = disk[p]])

(* During it: an edit, and what the watcher makes of it. *)

Running == {"roll", "check", "restore", "write"}

Edit(p) ==
    /\ Edits
    /\ pc \in Running
    /\ used < MaxCommits
    /\ used' = used + 1
    /\ \E c \in File \ {disk[p]} : disk' = [disk EXCEPT ![p] = c]
    /\ dirty' = dirty \union {p}
    /\ UNCHANGED <<history, pc, began, todo, at, rolled, failed, looked, missed>>

Watch(p) ==
    /\ p \in dirty
    /\ dirty' = dirty \ {p}
    /\ missed' = missed \ {p}
    /\ Commit(Other, [HeadTree EXCEPT ![p] = disk[p]])
    /\ UNCHANGED <<disk, pc, began, todo, at, rolled, failed, looked, used>>

\* The event comes too soon after another of the path (_should_process), or the
\* text is too much like that at HEAD (_should_commit).
Miss(p) ==
    /\ p \in dirty
    /\ dirty' = dirty \ {p}
    /\ missed' = missed \union {p}
    /\ UNCHANGED <<history, disk, pc, began, todo, at, rolled, failed, looked, used>>

-----------------------------------------------------------------------------
(* The rollback. *)

\* git show --name-only names a renamed file once, by its new name.
Shown(n) ==
    {p \in Touched(n) :
        ~(/\ Tree(n)[p] = Absent
          /\ \E q \in Touched(n) : /\ Tree(n - 1)[q] = Absent
                                   /\ Tree(n)[q] = Tree(n - 1)[p])}

\* commits_by_author, of the commits that were there then.
Mine(p) == {n \in 1..began : history[n].by = Session /\ p \in Shown(n)}

Begin ==
    /\ pc = "work"
    /\ pc' = "roll"
    /\ began' = Len(history)
    /\ todo' = {p \in Path : \E n \in 1..Len(history) :
                                 history[n].by = Session /\ p \in Shown(n)}
    /\ UNCHANGED <<history, disk, dirty, at, rolled, failed, looked, missed, used>>

\* Mutant: the latest commit of the session, not its earliest, is undone.
LatestBefore(p) == Tree(Max(Mine(p)) - 1)[p]

\* What the path held before the session's earliest commit on it, Absent if the
\* session created it.
Before(p) == Tree(Min(Mine(p)) - 1)[p]

IsLast(p) == HeadRev(p) = Max(Mine(p))

\* Out of scope, or committed to since: reported failed.
Refuse(p) ==
    /\ pc = "roll"
    /\ p \in todo
    /\ p \in Revocable \/ ~IsLast(p)
    /\ todo' = todo \ {p}
    /\ failed' = failed \union {p}
    /\ UNCHANGED <<history, disk, dirty, pc, began, at, rolled, looked, missed, used>>

\* Mutant: nobody asks whether the session's commit is still the last.
CheckNothing(p) ==
    /\ pc = "roll"
    /\ p \in todo
    /\ at' = p
    /\ todo' = todo \ {p}
    /\ looked' = [looked EXCEPT ![p] = Len(history)]
    /\ pc' = IF Before(p) = Absent THEN "restore" ELSE "check"
    /\ UNCHANGED <<history, disk, dirty, began, rolled, failed, missed, used>>

\* rollback_session compares the head itself; remove, for a file that the
\* session created, does so no more.
Check(p) ==
    /\ pc = "roll"
    /\ p \in todo
    /\ IsLast(p)
    /\ at' = p
    /\ todo' = todo \ {p}
    /\ looked' = [looked EXCEPT ![p] = Len(history)]
    /\ pc' = IF Before(p) = Absent THEN "restore" ELSE "check"
    /\ UNCHANGED <<history, disk, dirty, began, rolled, failed, missed, used>>

\* write_with_check compares once more, before it takes the repository's lock.
CheckAgain ==
    /\ pc = "check"
    /\ \/ /\ IsLast(at)
          /\ pc' = "restore"
          /\ looked' = [looked EXCEPT ![at] = Len(history)]
          /\ UNCHANGED <<at, failed>>
       \/ /\ ~IsLast(at)
          /\ pc' = "roll"
          /\ failed' = failed \union {at}
          /\ at' = Absent
          /\ UNCHANGED looked
    /\ UNCHANGED <<history, disk, dirty, began, todo, rolled, missed, used>>

\* The mirror first: remove, or write.
Restore ==
    /\ pc = "restore"
    /\ Commit(Rollback, [HeadTree EXCEPT ![at] = Before(at)])
    /\ pc' = "write"
    /\ UNCHANGED <<disk, dirty, began, todo, at, rolled, failed, looked, missed, used>>

\* Mutant: the path is not reported.
WriteFileUnreported ==
    /\ pc = "write"
    /\ disk' = [disk EXCEPT ![at] = Before(at)]
    /\ dirty' = dirty \union {at}
    /\ pc' = "roll"
    /\ at' = Absent
    /\ UNCHANGED <<history, began, todo, rolled, failed, looked, missed, used>>

\* Mutant: a file the session created stays on disk.
WriteFileOnly ==
    /\ pc = "write"
    /\ IF Before(at) = Absent
       THEN UNCHANGED <<disk, dirty>>
       ELSE disk' = [disk EXCEPT ![at] = Before(at)] /\ dirty' = dirty \union {at}
    /\ rolled' = rolled \union {at}
    /\ pc' = "roll"
    /\ at' = Absent
    /\ UNCHANGED <<history, began, todo, failed, looked, missed, used>>

\* Then the file: write_bytes, or unlink.
WriteFile ==
    /\ pc = "write"
    /\ disk' = [disk EXCEPT ![at] = Before(at)]
    /\ dirty' = dirty \union {at}
    /\ rolled' = rolled \union {at}
    /\ pc' = "roll"
    /\ at' = Absent
    /\ UNCHANGED <<history, began, todo, failed, looked, missed, used>>

End ==
    /\ pc = "roll"
    /\ todo = {}
    /\ pc' = "done"
    /\ UNCHANGED <<history, disk, dirty, began, todo, at, rolled, failed, looked, missed,
                   used>>

-----------------------------------------------------------------------------
Next ==
    \/ \E who \in {Session, Other} : Change(who)
    \/ Move(Session)
    \/ \E p \in Path : Edit(p) \/ Watch(p) \/ Miss(p)
    \/ Begin
    \/ \E p \in Path : Refuse(p) \/ Check(p)
    \/ CheckAgain \/ Restore \/ WriteFile
    \/ End

Spec == Init /\ [][Next]_vars

-----------------------------------------------------------------------------
\* Every variable has the values the code can give it, and the paths the
\* session touched are each pending, handled or being handled.
TypeOK ==
    /\ \A n \in DOMAIN history : /\ history[n].by \in {Session, Other, Rollback}
                                 /\ history[n].tree \in [Path -> File]
    /\ disk \in [Path -> File]
    /\ dirty \subseteq Path
    /\ pc \in {"work", "done"} \union Running
    /\ began \in 0..Len(history)
    /\ at \in IF pc \in {"check", "restore", "write"} THEN Path ELSE {Absent}
    /\ todo \intersect (rolled \union failed) = {}
    /\ todo \union rolled \union failed \union ({at} \ {Absent})
         = {p \in Path : Mine(p) # {}}
    /\ looked \in [Path -> 0..Len(history)]
    /\ missed \subseteq Path
    /\ used \in 0..MaxCommits

BySession(p) == {n \in 1..began : history[n].by = Session /\ p \in Touched(n)}

\* A path that is reported rolled back is as it was before the first commit of
\* the session that names it, whatever the session and others did to it and to
\* the other paths, until somebody else commits to it again.
RolledMeansUndone ==
    \A p \in rolled :
        (\A n \in (began + 1)..Len(history) : p \in Touched(n) => history[n].by = Rollback)
            => HeadTree[p] = Tree(Min(Mine(p)) - 1)[p]

\* Commit n is somebody else's, to p, after all that the session did to it.
IsLater(n, p) ==
    /\ history[n].by = Other
    /\ p \in Touched(n)
    /\ BySession(p) \subseteq 1..n

\* What somebody else committed to a path after the session is not rolled back
\* if it was there when the path's head was last compared: with the session's
\* last commit by rollback_session, and by write_with_check if the path is
\* restored, not removed.  A commit that comes after that is overwritten, see
\* CommitsAreRefused.
LaterCommitsKept ==
    \A p \in rolled : \A n \in 1..looked[p] : ~IsLater(n, p)

\* Where no event is pending, no restore is between its two writes and the last
\* event was neither dropped nor skipped, the mirror and the disk agree.
MirrorMatchesDisk ==
    \A p \in Path \ (dirty \union missed) :
        disk[p] = HeadTree[p] \/ (pc = "write" /\ p = at)

-----------------------------------------------------------------------------
(* What docstrings say. *)

\* rollback_session undoes every change of the session: with nobody else about
\* and no failure reported, each path it touched is as it was before.
SessionUndone ==
    (pc = "done" /\ failed = {} /\ ~Edits) =>
        \A p \in Path : BySession(p) # {} =>
            /\ HeadTree[p] = Tree(Min(BySession(p)) - 1)[p]
            /\ disk[p] = HeadTree[p]

\* rollback_session: a real edit by someone else after the session is refused
\* rather than clobbered; committed by the watcher.
CommitsAreRefused ==
    \A p \in rolled : \A n, m \in 1..Len(history) :
        n < m /\ IsLater(n, p) /\ p \in Touched(m) => history[m].by # Rollback

\* The same of an edit that is not committed yet.
EditsAreRefused ==
    [][\A p \in rolled' \ rolled : disk'[p] # disk[p] => p \notin dirty]_vars

=============================================================================

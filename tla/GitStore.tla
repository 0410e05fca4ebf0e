------------------------------- MODULE GitStore -------------------------------
(***************************************************************************)
(* One mirror repository (vcs/services/git_store.py) and the processes     *)
(* that share it: the daemon's worker, the CLI, the MCP and HTTP servers.  *)
(*                                                                         *)
(* The repository is its index, its HEAD and its commit objects.  write(), *)
(* remove(), move() and reset_stale_index() are sequences of git calls run *)
(* under one file lock; each git call on shared state is one action here,  *)
(* so the calls of different processes interleave wherever the lock lets   *)
(* them, and a call may fail, or its process die, between any two.         *)
(* write_with_check() reads head_rev() before it takes that lock.          *)
(***************************************************************************)
EXTENDS Naturals, Sequences

CONSTANTS
    Proc,      \* threads that call git_store, each in a process of its own
    Daemon,    \* the one whose boot runs reset_stale_indexes()
    Free,      \* the value of the lock when nobody holds it
    Path,      \* relpaths of files mirrored by this repository
    Subtree,   \* the sets of files a relpath given to remove() may stand for
    Blob,      \* file contents
    Absent,    \* the entry of a path a tree does not list
    Faults,    \* which of AllFaults may happen
    MaxOps,    \* bound: operations started
    MaxFaults  \* bound: faults injected

\* exit: a call raises CalledProcessError or TimeoutExpired.
\* unread: a read that is made with check=False exits non-zero, and its caller
\* takes that for an answer: HEAD is unborn, the path is not tracked.
\* stalelock: that timeout's SIGKILL leaves git's own index.lock behind.
\* kill: the process dies and the kernel drops its file lock.
\* orphan: the git child of a killed process outlives it and finishes later.
AllFaults == {"exit", "unread", "stalelock", "kill", "orphan"}

ASSUME GitStoreAssumption ==
    /\ Daemon \in Proc
    /\ Free \notin Proc
    /\ Absent \notin Blob
    /\ Subtree \subseteq SUBSET Path
    /\ Faults \subseteq AllFaults
    /\ MaxOps \in Nat
    /\ MaxFaults \in Nat

VARIABLES
    objects,   \* commit objects in the order they reached HEAD
    head,      \* the commit HEAD names, NoRev while HEAD is unborn
    index,     \* the index file
    indexLock, \* whether git's index.lock was left behind
    lock,      \* the holder of .chrono-ctx.lock
    pc,        \* what each process does next
    req,       \* the call each process is serving
    parent,    \* local: the rev of HEAD the call has read
    tree,      \* local: the tree write-tree produced
    unread,    \* history: processes whose call took HEAD for unborn, wrongly
    leftover,  \* history: paths where a failure may have left the index stray
    orphans,   \* git calls whose process died, and whether any has finished
    ops, faults

shared == <<objects, head, index, indexLock>>
locals == <<req, parent, tree, unread>>
bounds == <<ops, faults>>
vars == <<shared, lock, pc, locals, leftover, orphans, bounds>>

-----------------------------------------------------------------------------
(* Revisions and trees. *)

NoRev == 0
Rev == Nat
Tree == [Path -> Blob \union {Absent}]
EmptyTree == [q \in Path |-> Absent]
\* anew is history: the commit's call could not read the HEAD that there was.
Commits == [parent: Rev, tree: Tree, anew: BOOLEAN]

TreeOf(r) == IF r = NoRev THEN EmptyTree ELSE objects[r].tree

\* head_rev: the newest commit reachable from `r' that changed path `q'.
LastTouch(r, q) ==
    LET touch[i \in 0..Len(objects)] ==
            IF i = NoRev THEN NoRev
            ELSE IF TreeOf(i)[q] # TreeOf(objects[i].parent)[q] THEN i
            ELSE touch[objects[i].parent]
    IN  touch[r]

\* The trees `git update-index' and `git rm --cached' turn the index into.
With(t, q, b) == [t EXCEPT ![q] = b]
Without(t, S) == [q \in Path |-> IF q \in S THEN Absent ELSE t[q]]

\* path_exists_at_rev for a relpath that stands for the files in S.
Tracked(t, S) == \E q \in S : t[q] # Absent

-----------------------------------------------------------------------------
(* Calls. `expected' is write_with_check's expected_rev; NoRev is None. *)

WriteReq  == [kind: {"write"}, path: Path, blob: Blob, expected: Rev]
RemoveReq == [kind: {"remove"}, under: Subtree]
MoveReq   == {r \in [kind: {"move"}, src: Path, dst: Path] : r.src # r.dst}
ResetReq  == [kind |-> "reset"]
Request   == WriteReq \union RemoveReq \union MoveReq \union {ResetReq}

\* The paths a call is about.
Own(r) ==
    CASE r.kind = "write"  -> {r.path}
      [] r.kind = "remove" -> r.under
      [] r.kind = "move"   -> {r.src, r.dst}
      [] OTHER             -> {}

\* pc: idle, dead (process gone), check (write_with_check before the lock),
\* wait (for the lock), then the git calls made while holding it.
IndexCalls == {"stage", "unstage", "tree", "readTree"}
Critical   == IndexCalls \union {"parent", "commit"}
PC         == Critical \union {"idle", "dead", "check", "wait"}

Goto(p, l) == pc' = [pc EXCEPT ![p] = l]

Init ==
    /\ objects = <<>>
    /\ head = NoRev
    /\ index = EmptyTree
    /\ indexLock = FALSE
    /\ lock = Free
    /\ pc = [p \in Proc |-> "idle"]
    /\ req = [p \in Proc |-> ResetReq]
    /\ parent = [p \in Proc |-> NoRev]
    /\ tree = [p \in Proc |-> EmptyTree]
    /\ unread = {}
    /\ leftover = {}
    /\ orphans = [running |-> {}, done |-> FALSE]
    /\ ops = 0
    /\ faults = 0

-----------------------------------------------------------------------------
(* Starting a call. *)

Begin(p, r, l) ==
    /\ pc[p] = "idle"
    /\ ops < MaxOps
    /\ ops' = ops + 1
    /\ req' = [req EXCEPT ![p] = r]
    /\ Goto(p, l)
    /\ UNCHANGED <<shared, lock, parent, tree, unread, leftover, orphans, faults>>

BeginWrite(p) ==
    \E q \in Path, b \in Blob :
        Begin(p, [kind |-> "write", path |-> q, blob |-> b, expected |-> NoRev],
              "wait")

\* rollback_source: expected_rev is head_rev now, the content is that of some
\* revision the path had.
BeginCheckedWrite(p) ==
    \E q \in Path, r \in 1..Len(objects), e \in 0..Len(objects) :
        /\ e = LastTouch(head, q)
        /\ objects[r].tree[q] # Absent
        /\ Begin(p, [kind |-> "write", path |-> q, blob |-> objects[r].tree[q],
                     expected |-> e], "check")

BeginRemove(p) ==
    \E S \in Subtree : Begin(p, [kind |-> "remove", under |-> S], "wait")

BeginMove(p) ==
    \E s, d \in Path :
        /\ s # d
        /\ Begin(p, [kind |-> "move", src |-> s, dst |-> d], "wait")

\* Initializer.init -> reset_stale_indexes, the first thing a boot does here.
Boot(p) ==
    /\ pc[p] = "dead"
    /\ req' = [req EXCEPT ![p] = ResetReq]
    /\ Goto(p, IF p = Daemon THEN "wait" ELSE "idle")
    /\ UNCHANGED <<shared, lock, parent, tree, unread, leftover, orphans, bounds>>

-----------------------------------------------------------------------------
(* Leaving a call: the `with' block releases the lock on every path. *)

Quit(p, l) ==
    /\ Goto(p, l)
    /\ req' = [req EXCEPT ![p] = ResetReq]
    /\ parent' = [parent EXCEPT ![p] = NoRev]
    /\ tree' = [tree EXCEPT ![p] = EmptyTree]
    /\ unread' = unread \ {p}

Leave(p, l) == Quit(p, l) /\ lock' = Free

\* Mutant: an exception leaves the call where it was, without its arguments.
RaiseInPlace(p) ==
    /\ Leave(p, pc[p])
    /\ leftover' = leftover \union Own(req[p])

\* Mutant: a refused git call is tried again for ever.
RaiseRetrying(p) ==
    /\ leftover' = leftover \union Own(req[p])
    /\ UNCHANGED <<lock, pc, locals>>

\* An exception: nothing catches it in Initializer.init, so a failed reset is
\* the end of that daemon.
Raise(p) ==
    /\ Leave(p, IF req[p].kind = "reset" THEN "dead" ELSE "idle")
    /\ leftover' = leftover \union Own(req[p])

\* write_with_check compares outside the lock; a mismatch raises
\* ConcurrentEditError before anything is touched.
Check(p) ==
    /\ pc[p] = "check"
    /\ IF req[p].expected \in {NoRev, LastTouch(head, req[p].path)}
       THEN Goto(p, "wait") /\ UNCHANGED locals
       ELSE Quit(p, "idle")
    /\ UNCHANGED <<shared, lock, leftover, orphans, bounds>>

\* Mutant: every call stages first.
AcquireStaging(p) ==
    /\ pc[p] = "wait"
    /\ lock = Free
    /\ lock' = p
    /\ Goto(p, "stage")
    /\ UNCHANGED <<shared, locals, leftover, orphans, bounds>>

\* Mutant: the lock is not exclusive.
AcquireShared(p) ==
    /\ pc[p] = "wait"
    /\ lock' = p
    /\ Goto(p, IF req[p].kind = "write" THEN "stage" ELSE "parent")
    /\ UNCHANGED <<shared, locals, leftover, orphans, bounds>>

\* The first git call after the lock: write stages at once, the others read
\* HEAD first.
Acquire(p) ==
    /\ pc[p] = "wait"
    /\ lock = Free
    /\ lock' = p
    /\ Goto(p, IF req[p].kind = "write" THEN "stage" ELSE "parent")
    /\ UNCHANGED <<shared, locals, leftover, orphans, bounds>>

\* LOCK_TIMEOUT elapses while somebody else holds the lock: filelock.Timeout.
LockTimeout(p) ==
    /\ pc[p] = "wait"
    /\ lock # Free
    /\ Quit(p, IF req[p].kind = "reset" THEN "dead" ELSE "idle")
    /\ UNCHANGED <<shared, lock, leftover, orphans, bounds>>

\* The index after git update-index --add --cacheinfo (write's blob, or the blob
\* move found at revision n for its source) and after git rm --cached -r.
Staged(r, n) ==
    IF r.kind = "write" THEN With(index, r.path, r.blob)
                        ELSE With(index, r.dst, TreeOf(n)[r.src])

\* Mutants: the whole tree is removed; the destination is removed.
UnstagedTree(r) ==
    Without(index, IF r.kind = "remove" THEN Path ELSE {r.src})
UnstagedTarget(r) ==
    Without(index, IF r.kind = "remove" THEN r.under ELSE {r.dst})

Unstaged(r) ==
    Without(index, IF r.kind = "remove" THEN r.under ELSE {r.src})

Stage(p) ==
    /\ pc[p] = "stage"
    /\ ~indexLock
    /\ index' = Staged(req[p], parent[p])
    /\ Goto(p, IF req[p].kind = "write" THEN "tree" ELSE "unstage")
    /\ UNCHANGED <<objects, head, indexLock, lock, locals, leftover, orphans, bounds>>

Unstage(p) ==
    /\ pc[p] = "unstage"
    /\ ~indexLock
    /\ index' = Unstaged(req[p])
    /\ Goto(p, "tree")
    /\ UNCHANGED <<objects, head, indexLock, lock, locals, leftover, orphans, bounds>>

\* git write-tree: the tree of the whole index, not of the path at hand.
WriteTree(p) ==
    /\ pc[p] = "tree"
    /\ ~indexLock
    /\ tree' = [tree EXCEPT ![p] = index]
    /\ Goto(p, IF req[p].kind = "write" THEN "parent" ELSE "commit")
    /\ UNCHANGED <<shared, lock, req, parent, unread, leftover, orphans, bounds>>

\* Mutant: write does not compare its tree with the parent's.
ReadParentBlindly(p) ==
    /\ pc[p] = "parent"
    /\ parent' = [parent EXCEPT ![p] = head]
    /\ Goto(p, CASE req[p].kind = "remove" -> "unstage"
                 [] req[p].kind = "move"   -> "stage"
                 [] req[p].kind = "reset"  -> "readTree"
                 [] OTHER                  -> "commit")
    /\ CASE req[p].kind = "remove" -> Tracked(TreeOf(head), req[p].under)
         [] req[p].kind = "move"   -> Tracked(TreeOf(head), {req[p].src})
         [] OTHER                  -> TRUE
    /\ UNCHANGED <<shared, lock, req, tree, unread, leftover, orphans, bounds>>

\* git rev-parse HEAD, with the calls that only read the commit it names (its
\* tree for write, cat-file -e and ls-tree for remove and move).
ReadParent(p) ==
    /\ pc[p] = "parent"
    /\ parent' = [parent EXCEPT ![p] = head]
    /\ Goto(p, CASE req[p].kind = "remove" -> "unstage"
                 [] req[p].kind = "move"   -> "stage"
                 [] req[p].kind = "reset"  -> "readTree"
                 [] OTHER                  -> "commit")
    /\ CASE req[p].kind = "write"  -> head = NoRev \/ tree[p] # TreeOf(head)
         [] req[p].kind = "remove" -> Tracked(TreeOf(head), req[p].under)
         [] req[p].kind = "move"   -> Tracked(TreeOf(head), {req[p].src})
         [] OTHER                  -> TRUE
    /\ UNCHANGED <<shared, lock, req, tree, unread, leftover, orphans, bounds>>

\* Nothing to commit: write finds its tree at the parent, remove and move find
\* their source untracked.  A write that returns here has an index like HEAD.
Unchanged(p) ==
    /\ pc[p] = "parent"
    /\ \/ /\ req[p].kind = "write"
          /\ head # NoRev
          /\ tree[p] = TreeOf(head)
          /\ leftover' = {}
       \/ /\ req[p].kind = "remove"
          /\ ~Tracked(TreeOf(head), req[p].under)
          /\ UNCHANGED leftover
       \/ /\ req[p].kind = "move"
          /\ ~Tracked(TreeOf(head), {req[p].src})
          /\ UNCHANGED leftover
    /\ Leave(p, "idle")
    /\ UNCHANGED <<shared, orphans, bounds>>

\* git commit-tree and git update-ref HEAD.  The object is invisible until
\* the ref names it, and update-ref gives no old value to compare with.
Publish(t, r, new) ==
    /\ objects' = Append(objects, [parent |-> r, tree |-> t, anew |-> new])
    /\ head' = Len(objects) + 1
    /\ UNCHANGED <<index, indexLock>>

Commit(p) ==
    /\ pc[p] = "commit"
    /\ Publish(tree[p], parent[p], p \in unread)
    /\ leftover' = {}
    /\ Leave(p, "idle")
    /\ UNCHANGED <<orphans, bounds>>

Tracking(t) == {q \in Path : t[q] # Absent}

\* git read-tree HEAD, or --empty while HEAD is unborn, or seems to be.
ReadTree(p) ==
    /\ pc[p] = "readTree"
    /\ ~indexLock
    /\ index' = TreeOf(parent[p])
    /\ leftover' = IF p \in unread THEN leftover \union Tracking(TreeOf(head)) ELSE {}
    /\ Leave(p, "idle")
    /\ UNCHANGED <<objects, head, indexLock, orphans, bounds>>

\* git refuses to touch the index while an index.lock exists.
Blocked(p) ==
    /\ pc[p] \in IndexCalls
    /\ indexLock
    /\ Raise(p)
    /\ UNCHANGED <<shared, orphans, bounds>>

-----------------------------------------------------------------------------
(* Faults. *)

Fault(f) ==
    /\ f \in Faults
    /\ faults < MaxFaults
    /\ faults' = faults + 1
    /\ UNCHANGED ops

\* The call at pc[p] raises without taking effect.  (Raising after the effect
\* is the same as the next call raising without one.)
GitFails(p) ==
    /\ pc[p] \in Critical
    /\ Fault("exit")
    /\ Raise(p)
    /\ UNCHANGED <<shared, orphans>>

\* _rev_parse_or_none, path_exists_at_rev and head_rev make None or FALSE of a
\* git call that exits non-zero, for whatever reason.  A checked write finds
\* another revision than it expects; write and reset take HEAD for unborn;
\* remove and move take their path for untracked and return None.
Misread(p) ==
    /\ head # NoRev
    /\ Fault("unread")
    /\ \/ /\ pc[p] = "check"
          /\ req[p].expected # NoRev
          /\ Quit(p, "idle")
          /\ UNCHANGED lock
       \/ /\ pc[p] = "parent"
          /\ req[p].kind \in {"write", "reset"}
          /\ parent' = [parent EXCEPT ![p] = NoRev]
          /\ unread' = unread \union {p}
          /\ Goto(p, IF req[p].kind = "write" THEN "commit" ELSE "readTree")
          /\ UNCHANGED <<lock, req, tree>>
       \/ /\ pc[p] = "parent"
          /\ req[p].kind \in {"remove", "move"}
          /\ Leave(p, "idle")
    /\ UNCHANGED <<shared, leftover, orphans>>

GitKilled(p) ==
    /\ pc[p] \in IndexCalls
    /\ ~indexLock
    /\ Fault("stalelock")
    /\ indexLock' = TRUE
    /\ Raise(p)
    /\ UNCHANGED <<objects, head, index, orphans>>

Die(p) ==
    /\ pc[p] # "dead"
    /\ IF lock = p
       THEN /\ Leave(p, "dead")
            /\ leftover' = leftover \union Own(req[p])
       ELSE Quit(p, "dead") /\ UNCHANGED <<lock, leftover>>

Kill(p) ==
    /\ Fault("kill")
    /\ Die(p)
    /\ UNCHANGED <<shared, orphans>>

\* SIGKILL reaches the Python process only: a git child that was running
\* carries on without the lock.
KillOrphaning(p) ==
    /\ pc[p] \in {"stage", "unstage", "commit"}
    /\ Fault("orphan")
    /\ orphans' = [orphans EXCEPT !.running = @ \union
                       {[call |-> pc[p], req |-> req[p],
                         parent |-> parent[p], tree |-> tree[p],
                         anew |-> p \in unread]}]
    /\ Die(p)
    /\ UNCHANGED shared

OrphanFinishes ==
    \E o \in orphans.running :
        /\ orphans' = [running |-> orphans.running \ {o}, done |-> TRUE]
        /\ \/ o.call = "commit" /\ Publish(o.tree, o.parent, o.anew)
           \/ /\ o.call # "commit"
              /\ index' = IF indexLock THEN index
                          ELSE IF o.call = "stage" THEN Staged(o.req, o.parent)
                          ELSE Unstaged(o.req)
              /\ UNCHANGED <<objects, head, indexLock>>
        /\ UNCHANGED <<lock, pc, locals, leftover, bounds>>

-----------------------------------------------------------------------------
Call(p) ==
    \/ BeginWrite(p) \/ BeginCheckedWrite(p) \/ BeginRemove(p) \/ BeginMove(p)

\* What a process does by itself once its call has started.
Step(p) ==
    \/ Check(p) \/ Acquire(p) \/ LockTimeout(p)
    \/ Stage(p) \/ Unstage(p) \/ WriteTree(p) \/ ReadParent(p)
    \/ Unchanged(p) \/ Commit(p) \/ ReadTree(p) \/ Blocked(p)

Failure(p) ==
    \/ GitFails(p) \/ Misread(p) \/ GitKilled(p) \/ Kill(p) \/ KillOrphaning(p)

\* The bound on operations is no deadlock.
BoundReached ==
    /\ ops = MaxOps
    /\ \A p \in Proc : pc[p] = "idle"
    /\ UNCHANGED vars

Next ==
    \/ \E p \in Proc : Call(p) \/ Step(p) \/ Boot(p) \/ Failure(p)
    \/ OrphanFinishes
    \/ BoundReached

Spec == Init /\ [][Next]_vars

\* Threads get scheduled, and _run_git bounds every call by GIT_TIMEOUT.
FairSpec == Spec /\ \A p \in Proc : WF_vars(Step(p))

-----------------------------------------------------------------------------
\* Which calls reach which git call.
Reaches(r, l) ==
    /\ l \in {"check"}          => r.kind = "write"
    /\ l \in {"stage"}          => r.kind \in {"write", "move"}
    /\ l \in {"unstage"}        => r.kind \in {"remove", "move"}
    /\ l \in {"tree", "commit"} => r.kind \in {"write", "remove", "move"}
    /\ l \in {"readTree"}       => r.kind = "reset"

Orphan == [call: {"stage", "unstage", "commit"}, req: Request,
           parent: 0..Len(objects), tree: Tree, anew: BOOLEAN]

\* Every variable has the values the code can give it, and a call is at a git
\* call that its kind makes.
TypeOK ==
    /\ objects \in Seq(Commits)
    /\ head \in 0..Len(objects)
    /\ index \in Tree
    /\ indexLock \in BOOLEAN
    /\ lock \in Proc \union {Free}
    /\ pc \in [Proc -> PC]
    /\ req \in [Proc -> Request]
    /\ \A p \in Proc : Reaches(req[p], pc[p])
    /\ parent \in [Proc -> 0..Len(objects)]
    /\ tree \in [Proc -> Tree]
    /\ unread \subseteq Proc
    /\ leftover \subseteq Path
    /\ orphans \in [running: SUBSET Orphan, done: BOOLEAN]
    /\ \A o \in orphans.running : Reaches(o.req, o.call)
    /\ ops \in Nat
    /\ faults \in Nat

-----------------------------------------------------------------------------
(* Properties. *)

TipTree == TreeOf(head)

\* A git call has taken effect that nobody holding the lock knows of.  The code
\* has nothing against that, and what it promises ends there.
Orphaned == orphans.done

\* What a finished call promises about the tree at HEAD, from t0 to t1.
Outcome(r, t0, t1) ==
    CASE r.kind = "write"  -> t1[r.path] = r.blob
      [] r.kind = "remove" -> \A q \in r.under : t1[q] = Absent
      [] r.kind = "move"   -> /\ t1[r.src] = Absent
                              /\ t0[r.src] # Absent => t1[r.dst] = t0[r.src]
      [] OTHER             -> TRUE

(***************************************************************************)
(* No commit drops out of the history, although update-ref moves HEAD      *)
(* unconditionally and the parent was read two git calls earlier (write,   *)
(* 237-244): HEAD is the newest commit and every commit's parent the one   *)
(* before it.  The exception is a write that could not read HEAD: its      *)
(* commit has no parent, and all before it is lost to readers.  This and   *)
(* the next three hold until a git call of a dead process finishes, which  *)
(* runs without the lock.                                                  *)
(***************************************************************************)
Linear ==
    /\ head = Len(objects)
    /\ \A i \in DOMAIN objects :
          objects[i].parent = IF objects[i].anew THEN NoRev ELSE i - 1

LinearHistory == Linear \/ Orphaned

(***************************************************************************)
(* While nobody holds the lock the index differs from HEAD's tree at most  *)
(* at paths of calls that failed since the last commit or reset, or at     *)
(* what HEAD tracks after a reset that could not read HEAD and emptied the *)
(* index.  No other call leaves a stray entry for the next one to commit.  *)
(***************************************************************************)
StrayOnlyFromFaults ==
    lock = Free /\ ~Orphaned =>
        \A q \in Path : index[q] # TipTree[q] => q \in leftover

(***************************************************************************)
(* The tree at HEAD changes only at paths of the call that is committing,  *)
(* or at the leftovers of a failure: write-tree writes the whole index, so *)
(* this is about every other process that can reach the index.  A reset    *)
(* that could not read HEAD makes every tracked path a leftover, and the   *)
(* next commit does delete them (see BootClearsLeftover).                  *)
(***************************************************************************)
CommitTouchesOnlyItsPaths ==
    [][\/ Orphaned'
       \/ \A q \in Path : TipTree'[q] # TipTree[q] =>
              q \in leftover \/ \E p \in Proc : lock = p /\ q \in Own(req[p])]_vars

(***************************************************************************)
(* A call that returns, having read HEAD if there is one, has done what it *)
(* was asked: a rev returned by write() holds the content, remove() and    *)
(* move() leave no trace of their source, and move() carries the blob it   *)
(* found there.  So does a write that took HEAD for unborn.  A remove or a *)
(* move that did returns None as if its path were not tracked, and has     *)
(* done nothing (NoneMeansUntracked below).                                *)
(***************************************************************************)
ReturnMeansDone ==
    [][\/ Orphaned'
       \/ \A p \in Proc : Commit(p) \/ Unchanged(p) =>
              Outcome(req[p], TipTree, TipTree')]_vars

(***************************************************************************)
(* Every call ends, whatever fails: a waiter gets the lock or gives up     *)
(* (LOCK_TIMEOUT), a git call ends (GIT_TIMEOUT), an error releases.       *)
(***************************************************************************)
EveryCallReturns ==
    \A p \in Proc : pc[p] \notin {"idle", "dead"} ~> pc[p] \in {"idle", "dead"}

(***************************************************************************)
(* The repository is the log of AtomicMirror: every interleaving of git    *)
(* calls and of their failures amounts to whole operations, one at a time, *)
(* to failed calls that show only in the next entry, at their paths or, if *)
(* a reset took HEAD for unborn, at any, and to writes that took it for    *)
(* unborn and begin the history anew.                                      *)
(***************************************************************************)
Log == [i \in 1..head |->
           [tree |-> objects[i].tree, anew |-> objects[i].anew]]

Mirror == INSTANCE AtomicMirror
              WITH log <- Log, loose <- leftover, broken <- Orphaned

ImplementsAtomicMirror == Mirror!Spec

(***************************************************************************)
(* What one would like of a mirror and the code does not give.  An orphan  *)
(* forks the history, a misread HEAD cuts it (Chain), and makes a remove   *)
(* or a move return None although its path is tracked.                     *)
(***************************************************************************)
Chain ==
    /\ head = Len(objects)
    /\ \A i \in DOMAIN objects : objects[i].parent = i - 1

NoneMeansUntracked ==
    [][\A p \in Proc : (Misread(p) \/ Unchanged(p)) /\ pc'[p] = "idle"
           => CASE req[p].kind = "remove" -> ~Tracked(TipTree, req[p].under)
                [] req[p].kind = "move"   -> ~Tracked(TipTree, {req[p].src})
                [] OTHER                  -> TRUE]_vars

(***************************************************************************)
(* What the documents say of a checked write: "a rollback racing a         *)
(* concurrent newer commit raises ConcurrentEditError instead of           *)
(* clobbering it" (ARCHITECTURE.md 6.1).                                   *)
(***************************************************************************)
CheckedWriteNeverClobbers ==
    [][\A p \in Proc : Commit(p) /\ req[p].kind = "write" /\ req[p].expected # NoRev
           => LastTouch(head, req[p].path) = req[p].expected]_vars

(***************************************************************************)
(* write()'s docstring: the index "already reflects HEAD's tree from prior *)
(* calls" when it stages its own path.                                     *)
(***************************************************************************)
WriteStartsFromHead ==
    [][\A p \in Proc : Stage(p) /\ req[p].kind = "write" => index = TipTree]_vars

(***************************************************************************)
(* Spec 037 EC-1: what a timed-out call leaves staged is "exactly the      *)
(* state spec 027's reset_stale_index() already clears at boot".  It does  *)
(* not while there is an index.lock, and empties the index if it cannot    *)
(* read HEAD.                                                              *)
(***************************************************************************)
BootClearsLeftover ==
    [][pc[Daemon] = "readTree" /\ pc'[Daemon] # "readTree" /\ UNCHANGED faults
           => index' = TipTree']_vars

=============================================================================

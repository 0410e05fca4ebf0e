---------------------------- MODULE GitStoreProofs ----------------------------
(***************************************************************************)
(* Proofs about GitStore, for any processes, paths, contents and bounds.   *)
(*                                                                         *)
(* Types hold whatever happens.  The rest holds whatever fails until a git *)
(* call that outlived its process takes effect (Orphaned): such a call     *)
(* runs without the lock and TLC shows that it can lose a commit.          *)
(***************************************************************************)
EXTENDS GitStore, SequenceTheorems, TLAPS

-----------------------------------------------------------------------------
(* Requests, trees and commit objects. *)

\* What the fields of a request are, by its kind.
LEMMA RequestFields ==
    ASSUME NEW r \in Request
    PROVE  /\ r.kind \in {"write", "remove", "move", "reset"}
           /\ r.kind = "write"  => r.path \in Path /\ r.blob \in Blob
           /\ r.kind = "remove" => r.under \in Subtree
           /\ r.kind = "move"   => r.src \in Path /\ r.dst \in Path /\ r.src # r.dst
           /\ Own(r) \subseteq Path
BY GitStoreAssumption DEF Request, WriteReq, RemoveReq, MoveReq, ResetReq, Own

LEMMA RequestKinds ==
    /\ ResetReq \in Request
    /\ \A q \in Path, b \in Blob, e \in Nat :
          [kind |-> "write", path |-> q, blob |-> b, expected |-> e] \in Request
    /\ \A S \in Subtree : [kind |-> "remove", under |-> S] \in Request
    /\ \A s, d \in Path :
          s # d => [kind |-> "move", src |-> s, dst |-> d] \in Request
BY DEF Request, WriteReq, RemoveReq, MoveReq, ResetReq, Rev

LEMMA TreeOfType ==
    ASSUME objects \in Seq(Commits), NEW r \in 0..Len(objects)
    PROVE  TreeOf(r) \in Tree
<1>1. CASE r = NoRev
  BY <1>1 DEF TreeOf, Tree, EmptyTree
<1>2. CASE r # NoRev
  <2>1. r \in 1..Len(objects)
    BY <1>2 DEF NoRev
  <2>2. objects[r] \in Commits
    BY <2>1
  <2> QED
    BY <1>2, <2>2 DEF TreeOf, Commits
<1> QED
  BY <1>1, <1>2

LEMMA StagedType ==
    ASSUME NEW t \in Tree
    PROVE  /\ \A q \in Path, b \in Blob \union {Absent} : With(t, q, b) \in Tree
           /\ \A S : Without(t, S) \in Tree
BY DEF Tree, With, Without

\* A published commit is the new HEAD, and the objects before it stay.
LEMMA Published ==
    ASSUME objects \in Seq(Commits), NEW t \in Tree, NEW r \in 0..Len(objects),
           NEW new \in BOOLEAN, Publish(t, r, new)
    PROVE  /\ objects' \in Seq(Commits)
           /\ Len(objects') = Len(objects) + 1
           /\ head' = Len(objects')
           /\ TipTree' = t
           /\ objects'[head'] = [parent |-> r, tree |-> t, anew |-> new]
           /\ \A i \in 1..Len(objects) : objects'[i] = objects[i]
<1>1. [parent |-> r, tree |-> t, anew |-> new] \in Commits
  BY DEF Commits, Rev
<1> QED
  BY <1>1 DEF Publish, TipTree, TreeOf, NoRev

\* So is the commit of a call.
LEMMA CommitPublishes ==
    ASSUME objects \in Seq(Commits), NEW p \in Proc, Commit(p),
           tree[p] \in Tree, parent[p] \in 0..Len(objects)
    PROVE  /\ objects' \in Seq(Commits)
           /\ Len(objects') = Len(objects) + 1
           /\ head' = Len(objects')
           /\ TipTree' = tree[p]
           /\ objects'[head'] =
                 [parent |-> parent[p], tree |-> tree[p], anew |-> p \in unread]
           /\ \A i \in 1..Len(objects) : objects'[i] = objects[i]
           /\ index' = index
<1>1. Publish(tree[p], parent[p], p \in unread)
  BY DEF Commit
<1>2. (p \in unread) \in BOOLEAN
  OBVIOUS
<1>3. \A new \in BOOLEAN : Publish(tree[p], parent[p], new) =>
          /\ objects' \in Seq(Commits)
          /\ Len(objects') = Len(objects) + 1
          /\ head' = Len(objects')
          /\ TipTree' = tree[p]
          /\ objects'[head'] = [parent |-> parent[p], tree |-> tree[p], anew |-> new]
          /\ \A i \in 1..Len(objects) : objects'[i] = objects[i]
  BY Published
<1>4. index' = index
  BY <1>1 DEF Publish
<1> QED
  BY <1>1, <1>2, <1>3, <1>4, Zenon

-----------------------------------------------------------------------------
(* Type correctness. *)

\* The values a process is left with when its call ends.
LEMMA QuitType ==
    ASSUME TypeOK, NEW p \in Proc, NEW l \in {"idle", "dead"}, Quit(p, l)
    PROVE  /\ pc' \in [Proc -> PC]
           /\ req' \in [Proc -> Request]
           /\ \A x \in Proc : Reaches(req'[x], pc'[x])
           /\ parent' \in [Proc -> 0..Len(objects)]
           /\ tree' \in [Proc -> Tree]
           /\ unread' \subseteq Proc
<1>1. ResetReq \in Request /\ EmptyTree \in Tree /\ NoRev \in 0..Len(objects)
  BY RequestKinds DEF EmptyTree, Tree, NoRev, TypeOK
<1> QED
  BY <1>1 DEF Quit, Goto, TypeOK, PC, Reaches

LEMMA BeginType ==
    ASSUME TypeOK, NEW p \in Proc, NEW r \in Request, NEW l \in PC,
           Reaches(r, l), Begin(p, r, l)
    PROVE  TypeOK'
BY DEF TypeOK, Begin, Goto, shared, Orphan

LEMMA RaiseType ==
    ASSUME TypeOK, NEW p \in Proc, Raise(p),
           UNCHANGED <<objects, head, index, orphans>>,
           indexLock' \in BOOLEAN, ops' \in Nat, faults' \in Nat
    PROVE  TypeOK'
<1>1. Own(req[p]) \subseteq Path
  BY RequestFields DEF TypeOK
<1>2. PICK l \in {"idle", "dead"} : Quit(p, l) /\ lock' = Free
  BY DEF Raise, Leave
<1> QED
  BY <1>1, <1>2, QuitType DEF TypeOK, Raise, Orphan

LEMMA DieType ==
    ASSUME TypeOK, NEW p \in Proc, Die(p), UNCHANGED shared,
           orphans' \in [running: SUBSET Orphan, done: BOOLEAN],
           \A o \in orphans'.running : Reaches(o.req, o.call),
           ops' \in Nat, faults' \in Nat
    PROVE  TypeOK'
<1>1. Own(req[p]) \subseteq Path
  BY RequestFields DEF TypeOK
<1>2. Quit(p, "dead") /\ lock' \in {lock, Free}
      /\ leftover' \in {leftover, leftover \union Own(req[p])}
  BY DEF Die, Leave
<1> QED
  BY <1>1, <1>2, QuitType DEF TypeOK, shared, Orphan

LEMMA PublishType ==
    ASSUME TypeOK, NEW t \in Tree, NEW r \in 0..Len(objects), NEW new \in BOOLEAN,
           Publish(t, r, new)
    PROVE  /\ objects' \in Seq(Commits)
           /\ head' \in 0..Len(objects')
           /\ index' \in Tree
           /\ indexLock' \in BOOLEAN
           /\ 0..Len(objects) \subseteq 0..Len(objects')
           /\ Orphan \subseteq Orphan'
<1>1. objects' \in Seq(Commits) /\ Len(objects') = Len(objects) + 1
      /\ head' = Len(objects')
  BY Published DEF TypeOK
<1>2. Len(objects) \in Nat
  BY DEF TypeOK
<1>3. 0..Len(objects) \subseteq 0..Len(objects') /\ head' \in 0..Len(objects')
  BY <1>1, <1>2
<1>4. Orphan \subseteq Orphan'
  BY <1>3 DEF Orphan
<1> QED
  BY <1>1, <1>3, <1>4 DEF Publish, TypeOK

\* The index a staging call leaves behind, of a process or of an orphan.
LEMMA StagedIndexType ==
    ASSUME TypeOK, NEW r \in Request, NEW n \in 0..Len(objects)
    PROVE  /\ Reaches(r, "stage") => Staged(r, n) \in Tree
           /\ Unstaged(r) \in Tree
<1>1. index \in Tree /\ TreeOf(n) \in Tree
  BY TreeOfType DEF TypeOK
<1>2. CASE r.kind = "write"
  BY <1>1, <1>2, RequestFields, StagedType DEF Staged, Unstaged
<1>3. CASE r.kind = "move"
  <2>1. r.dst \in Path /\ TreeOf(n)[r.src] \in Blob \union {Absent}
    BY <1>1, <1>3, RequestFields DEF Tree
  <2> QED
    BY <1>1, <1>3, <2>1, StagedType DEF Staged, Unstaged
<1>4. CASE r.kind \notin {"write", "move"}
  BY <1>1, <1>4, StagedType DEF Reaches, Unstaged
<1> QED
  BY <1>2, <1>3, <1>4

LEMMA TypeInit == Init => TypeOK
<1> SUFFICES ASSUME Init
             PROVE  TypeOK
  OBVIOUS
<1>1. EmptyTree \in Tree /\ ResetReq \in Request
  BY RequestKinds DEF EmptyTree, Tree
<1>2. objects \in Seq(Commits) /\ NoRev \in 0..Len(objects)
  BY DEF Init, NoRev
<1>3. \A p \in Proc : Reaches(req[p], pc[p])
  BY DEF Init, Reaches
<1>4. ops \in Nat /\ faults \in Nat /\ indexLock \in BOOLEAN
  BY DEF Init
<1> QED
  BY <1>1, <1>2, <1>3, <1>4 DEF Init, TypeOK, PC

LEMMA TypeStep == TypeOK /\ [Next]_vars => TypeOK'
<1> SUFFICES ASSUME TypeOK, [Next]_vars
             PROVE  TypeOK'
  OBVIOUS
<1>1. ASSUME NEW p \in Proc, Call(p)
      PROVE  TypeOK'
  <2>1. CASE BeginWrite(p)
    BY <2>1, RequestKinds, BeginType DEF BeginWrite, PC, Reaches, NoRev
  <2>2. CASE BeginCheckedWrite(p)
    <3>1. PICK q \in Path, i \in 1..Len(objects), e \in 0..Len(objects) :
             /\ objects[i].tree[q] # Absent
             /\ Begin(p, [kind |-> "write", path |-> q,
                          blob |-> objects[i].tree[q], expected |-> e], "check")
      BY <2>2 DEF BeginCheckedWrite
    <3>2. objects[i] \in Commits
      BY DEF TypeOK
    <3>3. objects[i].tree[q] \in Blob
      BY <3>1, <3>2 DEF Tree, Commits
    <3>4. [kind |-> "write", path |-> q, blob |-> objects[i].tree[q],
           expected |-> e] \in Request
      BY <3>3, RequestKinds
    <3> QED
      BY <3>1, <3>4, BeginType DEF PC, Reaches
  <2>3. CASE BeginRemove(p)
    BY <2>3, RequestKinds, BeginType DEF BeginRemove, PC, Reaches
  <2>4. CASE BeginMove(p)
    BY <2>4, RequestKinds, BeginType DEF BeginMove, PC, Reaches
  <2> QED
    BY <1>1, <2>1, <2>2, <2>3, <2>4 DEF Call
<1>2. ASSUME NEW p \in Proc, Check(p) \/ Acquire(p) \/ LockTimeout(p)
      PROVE  TypeOK'
  <2>1. CASE Check(p)
    <3>1. Quit(p, "idle") \/ (Goto(p, "wait") /\ UNCHANGED locals)
      BY <2>1 DEF Check
    <3> QED
      BY <2>1, <3>1, QuitType
         DEF Check, TypeOK, Goto, PC, Reaches, shared, locals, bounds, Orphan
  <2>2. CASE Acquire(p)
    <3>1. req[p].kind \in {"write", "remove", "move", "reset"}
      BY RequestFields DEF TypeOK
    <3> QED
      BY <1>2, <2>2, <3>1
         DEF Acquire, TypeOK, Goto, PC, Critical, IndexCalls, Reaches,
             shared, locals, bounds, Orphan
  <2>3. CASE LockTimeout(p)
    <3>1. PICK l \in {"idle", "dead"} : Quit(p, l)
      BY <2>3 DEF LockTimeout
    <3> QED
      BY <2>3, <3>1, QuitType DEF LockTimeout, TypeOK, shared, bounds, Orphan
  <2> QED
    BY <1>2, <2>1, <2>2, <2>3
<1>3. ASSUME NEW p \in Proc, Stage(p) \/ Unstage(p)
      PROVE  TypeOK'
  <2>1. req[p] \in Request /\ parent[p] \in 0..Len(objects) /\ Reaches(req[p], pc[p])
    BY DEF TypeOK
  <2>2. index' \in Tree
    BY <1>3, <2>1, StagedIndexType DEF Stage, Unstage, Reaches
  <2> QED
    BY <1>3, <2>1, <2>2
       DEF Stage, Unstage, TypeOK, Goto, PC, Critical, IndexCalls, Reaches,
           locals, bounds, Orphan
<1>4. ASSUME NEW p \in Proc, WriteTree(p)
      PROVE  TypeOK'
  BY <1>4 DEF WriteTree, TypeOK, Goto, PC, Critical, IndexCalls, Reaches,
              shared, bounds, Orphan
<1>5. ASSUME NEW p \in Proc, ReadParent(p)
      PROVE  TypeOK'
  <2>1. req[p].kind \in {"write", "remove", "move", "reset"}
    BY RequestFields DEF TypeOK
  <2>2. parent' \in [Proc -> 0..Len(objects)]
    BY <1>5 DEF ReadParent, TypeOK
  <2>3. pc' \in [Proc -> PC] /\ Reaches(req[p], pc'[p])
    BY <1>5, <2>1 DEF ReadParent, TypeOK, Goto, PC, Critical, IndexCalls, Reaches
  <2> QED
    BY <1>5, <2>2, <2>3 DEF ReadParent, TypeOK, Goto, shared, bounds, Orphan
<1>6. ASSUME NEW p \in Proc, Unchanged(p) \/ ReadTree(p)
      PROVE  TypeOK'
  <2>1. Quit(p, "idle") /\ lock' = Free
    BY <1>6 DEF Unchanged, ReadTree, Leave
  <2>2. leftover' \subseteq Path /\ index' \in Tree
    <3>1. TreeOf(parent[p]) \in Tree
      BY TreeOfType DEF TypeOK
    <3> QED
      BY <1>6, <3>1 DEF Unchanged, ReadTree, Tracking, shared, TypeOK
  <2> QED
    BY <1>6, <2>1, <2>2, QuitType
       DEF Unchanged, ReadTree, TypeOK, shared, bounds, Orphan
<1>7. ASSUME NEW p \in Proc, Commit(p)
      PROVE  TypeOK'
  <2>1. PICK new \in BOOLEAN : Publish(tree[p], parent[p], new)
    <3>1. Publish(tree[p], parent[p], p \in unread) /\ (p \in unread) \in BOOLEAN
      BY <1>7 DEF Commit
    <3> QED
      BY <3>1, Zenon
  <2>3. Quit(p, "idle") /\ lock' = Free
        /\ leftover' = {} /\ UNCHANGED <<orphans, bounds>>
    BY <1>7 DEF Commit, Leave
  <2>2. tree[p] \in Tree /\ parent[p] \in 0..Len(objects)
    BY DEF TypeOK
  <2> QED
    BY <2>1, <2>2, <2>3, PublishType, QuitType DEF TypeOK, bounds
<1>8. ASSUME NEW p \in Proc, Blocked(p) \/ GitFails(p) \/ GitKilled(p)
      PROVE  TypeOK'
  <2>1. Raise(p) /\ UNCHANGED <<objects, head, index, orphans>>
        /\ (indexLock' = indexLock \/ indexLock' = TRUE) /\ ops' = ops /\ faults' \in {faults, faults + 1}
    BY <1>8 DEF Blocked, GitFails, GitKilled, Fault, shared, bounds
  <2>2. ops' \in Nat /\ faults' \in Nat
    BY <2>1 DEF TypeOK
  <2>3. indexLock \in BOOLEAN
    BY DEF TypeOK
  <2>4. indexLock' \in BOOLEAN
    BY <2>1, <2>3, Zenon
  <2> QED
    BY <2>1, <2>2, <2>4, RaiseType
<1>9. ASSUME NEW p \in Proc, Boot(p)
      PROVE  TypeOK'
  BY <1>9, RequestKinds DEF Boot, TypeOK, Goto, PC, Reaches, shared, bounds, Orphan
<1>13. ASSUME NEW p \in Proc, Misread(p)
       PROVE  TypeOK'
  <2>1. UNCHANGED <<objects, head, index, indexLock, leftover, orphans, ops>>
        /\ faults' = faults + 1 /\ lock' \in {lock, Free}
    BY <1>13 DEF Misread, Fault, Leave, shared
  <2>2. CASE Quit(p, "idle")
    BY <2>1, <2>2, QuitType DEF TypeOK, Orphan
  <2>3. CASE ~Quit(p, "idle")
    <3>1. /\ req[p].kind \in {"write", "reset"}
          /\ parent' = [parent EXCEPT ![p] = NoRev]
          /\ unread' = unread \union {p}
          /\ Goto(p, IF req[p].kind = "write" THEN "commit" ELSE "readTree")
          /\ UNCHANGED <<req, tree>>
      BY <1>13, <2>3 DEF Misread, Leave
    <3>2. NoRev \in 0..Len(objects)
      BY DEF TypeOK, NoRev
    <3> QED
      BY <2>1, <3>1, <3>2
         DEF TypeOK, Goto, PC, Critical, IndexCalls, Reaches, Orphan
  <2> QED
    BY <2>2, <2>3
<1>10. ASSUME NEW p \in Proc, Kill(p) \/ KillOrphaning(p)
       PROVE  TypeOK'
  <2>1. Die(p) /\ UNCHANGED shared /\ ops' \in Nat /\ faults' \in Nat
    BY <1>10 DEF Kill, KillOrphaning, Fault, TypeOK
  <2>2. /\ orphans' \in [running: SUBSET Orphan, done: BOOLEAN]
        /\ \A o \in orphans'.running : Reaches(o.req, o.call)
    <3>1. CASE Kill(p)
      BY <3>1 DEF Kill, TypeOK
    <3>2. CASE KillOrphaning(p)
      <4>1. \A new \in BOOLEAN : pc[p] \in {"stage", "unstage", "commit"} =>
               [call |-> pc[p], req |-> req[p], parent |-> parent[p],
                tree |-> tree[p], anew |-> new] \in Orphan
        BY DEF TypeOK, Orphan
      <4>2. PICK o \in Orphan : /\ o.call = pc[p] /\ o.req = req[p]
                                /\ orphans' = [orphans EXCEPT !.running = @ \union {o}]
        <5>1. (p \in unread) \in BOOLEAN
          OBVIOUS
        <5> DEFINE o == [call |-> pc[p], req |-> req[p], parent |-> parent[p],
                         tree |-> tree[p], anew |-> p \in unread]
        <5>2. o \in Orphan
          BY <3>2, <4>1, <5>1, Zenon DEF KillOrphaning
        <5>3. orphans' = [orphans EXCEPT !.running = @ \union {o}]
          BY <3>2 DEF KillOrphaning
        <5> QED
          BY <5>2, <5>3
      <4> QED
        BY <3>2, <4>2 DEF TypeOK
    <3> QED
      BY <1>10, <3>1, <3>2
  <2> QED
    BY <2>1, <2>2, DieType
<1>11. CASE OrphanFinishes
  <2>1. PICK o \in orphans.running :
           /\ orphans' = [running |-> orphans.running \ {o}, done |-> TRUE]
           /\ \/ o.call = "commit" /\ Publish(o.tree, o.parent, o.anew)
              \/ /\ o.call # "commit"
                 /\ index' = IF indexLock THEN index
                             ELSE IF o.call = "stage" THEN Staged(o.req, o.parent)
                             ELSE Unstaged(o.req)
                 /\ UNCHANGED <<objects, head, indexLock>>
           /\ UNCHANGED <<lock, pc, locals, leftover, bounds>>
    BY <1>11 DEF OrphanFinishes
  <2>2. o \in Orphan /\ Reaches(o.req, o.call)
    BY DEF TypeOK
  <2>3. CASE o.call = "commit"
    <3>1. o.tree \in Tree /\ o.parent \in 0..Len(objects) /\ o.anew \in BOOLEAN
      BY <2>2 DEF Orphan
    <3>2. Publish(o.tree, o.parent, o.anew)
      BY <2>1, <2>3
    <3> QED
      BY <2>1, <3>1, <3>2, PublishType DEF TypeOK, locals, bounds
  <2>4. CASE o.call # "commit"
    <3>1. o.req \in Request /\ o.parent \in 0..Len(objects)
          /\ o.call \in {"stage", "unstage"}
      BY <2>2, <2>4 DEF Orphan
    <3>2. index' \in Tree
      BY <2>1, <2>2, <2>4, <3>1, StagedIndexType DEF TypeOK
    <3> QED
      BY <2>1, <2>4, <3>2 DEF TypeOK, locals, bounds, Orphan
  <2> QED
    BY <2>3, <2>4
<1>12. CASE UNCHANGED vars
  BY <1>12 DEF TypeOK, vars, shared, locals, bounds, Orphan
<1> QED
  BY <1>1, <1>2, <1>3, <1>4, <1>5, <1>6, <1>7, <1>8, <1>9, <1>10, <1>11, <1>12, <1>13
     DEF Next, Step, Failure, BoundReached

\* Every variable has its type, whatever fails.
THEOREM TypeCorrect == Spec => []TypeOK
BY TypeInit, TypeStep, PTL DEF Spec

-----------------------------------------------------------------------------
(***************************************************************************)
(* The inductive invariant.  Linear history alone is not inductive: the    *)
(* commit a process is about to publish names the parent it read earlier,  *)
(* so the invariant says how far each holder of the lock has come.         *)
(***************************************************************************)

\* The holder has read HEAD, which is still what it read, or took it for unborn.
HasRead(p) ==
    \/ pc[p] \in {"unstage", "commit", "readTree"}
    \/ pc[p] = "tree"  /\ req[p].kind # "write"
    \/ pc[p] = "stage" /\ req[p].kind # "write"

\* The holder has written the tree of the index.
HasTree(p) ==
    \/ pc[p] = "commit"
    \/ pc[p] = "parent" /\ req[p].kind = "write"

\* The holder has changed the index.
HasStaged(p) ==
    CASE req[p].kind = "write"  -> pc[p] \in {"tree", "parent", "commit"}
      [] req[p].kind = "remove" -> pc[p] \in {"tree", "commit"}
      [] req[p].kind = "move"   -> pc[p] \in {"unstage", "tree", "commit"}
      [] OTHER                  -> FALSE

\* What the holder knows of HEAD's tree and has done to the index.
WriteProgress(p) ==
    req[p].kind = "write" =>
        /\ HasStaged(p) => index[req[p].path] = req[p].blob
        /\ pc[p] = "commit" => head = NoRev \/ tree[p] # TipTree \/ p \in unread

RemoveProgress(p) ==
    req[p].kind = "remove" =>
        /\ HasRead(p) => Tracked(TipTree, req[p].under)
        /\ HasStaged(p) => \A q \in req[p].under : index[q] = Absent

MoveProgress(p) ==
    req[p].kind = "move" =>
        /\ HasRead(p) => TipTree[req[p].src] # Absent
        /\ HasStaged(p) => index[req[p].dst] = TipTree[req[p].src]
        /\ pc[p] \in {"tree", "commit"} => index[req[p].src] = Absent

InsideLock == \A p \in Proc : pc[p] \in Critical <=> lock = p

ReadProgress(p) ==
    /\ HasRead(p) => parent[p] = IF p \in unread THEN NoRev ELSE head
    /\ p \in unread => \/ req[p].kind = "write" /\ pc[p] = "commit"
                       \/ req[p].kind = "reset" /\ pc[p] = "readTree"

HolderInv(p) ==
    /\ ReadProgress(p)
    /\ HasTree(p) => tree[p] = index
    /\ WriteProgress(p)
    /\ RemoveProgress(p)
    /\ MoveProgress(p)

StrayInv ==
    \A q \in Path : index[q] # TipTree[q] =>
        q \in leftover \/ \E p \in Proc : HasStaged(p) /\ q \in Own(req[p])

SafeInv ==
    /\ TypeOK
    /\ InsideLock
    /\ Linear
    /\ \A p \in Proc : HolderInv(p)
    /\ StrayInv
-----------------------------------------------------------------------------
(* Steps that preserve it. *)

\* Only p moves.
OthersStay(p) ==
    \A x \in Proc : x # p =>
        /\ pc'[x] = pc[x]
        /\ req'[x] = req[x]
        /\ parent'[x] = parent[x]
        /\ tree'[x] = tree[x]
        /\ x \in unread' <=> x \in unread

\* Only a holder of the lock has obligations.
LEMMA OutsideHolds ==
    ASSUME NEW p \in Proc, pc[p] \notin Critical
    PROVE  /\ ~HasRead(p) /\ ~HasTree(p) /\ ~HasStaged(p)
           /\ HolderInv(p) <=> p \notin unread
BY DEF HasRead, HasTree, HasStaged, HolderInv, ReadProgress, WriteProgress,
       RemoveProgress, MoveProgress, Critical, IndexCalls

LEMMA QuitFrame ==
    ASSUME TypeOK, NEW p \in Proc, NEW l, Quit(p, l)
    PROVE  OthersStay(p) /\ pc'[p] = l /\ p \notin unread' /\ unread' \subseteq unread
BY DEF TypeOK, Quit, Goto, OthersStay

\* A process that stays outside the lock.
LEMMA OutsideStep ==
    ASSUME SafeInv, TypeOK', NEW p \in Proc,
           pc[p] \notin Critical, pc'[p] \notin Critical, OthersStay(p),
           UNCHANGED <<shared, lock, leftover>>, unread' \subseteq unread
    PROVE  SafeInv'
<1>1. InsideLock' /\ Linear'
  BY DEF SafeInv, InsideLock, Linear, OthersStay, shared
<1>2. TipTree' = TipTree
  BY DEF TipTree, TreeOf, shared
<1>3. \A x \in Proc : HolderInv(x)'
  <2> SUFFICES ASSUME NEW x \in Proc
               PROVE  HolderInv(x)'
    OBVIOUS
  <2>1. CASE x = p
    <3>1. p \notin unread'
      BY OutsideHolds DEF SafeInv
    <3> QED
      BY <2>1, <3>1
         DEF HasRead, HasTree, HasStaged, HolderInv, ReadProgress, WriteProgress,
             RemoveProgress, MoveProgress, Critical, IndexCalls
  <2>2. CASE x # p
    BY <1>2, <2>2
       DEF SafeInv, OthersStay, HasRead, HasTree, HasStaged, HolderInv,
           ReadProgress, WriteProgress, RemoveProgress, MoveProgress, shared
  <2> QED
    BY <2>1, <2>2
<1>4. StrayInv'
  <2> SUFFICES ASSUME NEW q \in Path, (index[q] # TipTree[q])', (q \notin leftover)'
               PROVE  \E x \in Proc : (HasStaged(x) /\ q \in Own(req[x]))'
    BY DEF StrayInv
  <2>1. PICK x \in Proc : HasStaged(x) /\ q \in Own(req[x])
    BY <1>2 DEF SafeInv, StrayInv, shared
  <2>2. x # p
    BY <2>1, OutsideHolds
  <2>3. pc'[x] = pc[x] /\ req'[x] = req[x]
    BY <2>2 DEF OthersStay
  <2> QED
    BY <2>1, <2>3 DEF HasStaged
<1> QED
  BY <1>1, <1>3, <1>4 DEF SafeInv

\* The holder of the lock makes a git call and keeps the lock.
LEMMA HolderStep ==
    ASSUME SafeInv, TypeOK', NEW p \in Proc, lock' = p,
           lock = p \/ (lock = Free /\ pc[p] \notin Critical),
           pc'[p] \in Critical, OthersStay(p),
           UNCHANGED <<objects, head, leftover>>,
           HolderInv(p)',
           \A q \in Path : index'[q] # TipTree[q] =>
               q \in leftover \/ (HasStaged(p)' /\ q \in Own(req'[p]))
    PROVE  SafeInv'
<1>1. TipTree' = TipTree
  BY DEF TipTree, TreeOf
<1>2. \A x \in Proc : x # p => pc'[x] \notin Critical
  BY GitStoreAssumption DEF SafeInv, InsideLock, OthersStay
<1>3. InsideLock' /\ Linear'
  BY <1>2 DEF SafeInv, InsideLock, Linear
<1>4. \A x \in Proc : HolderInv(x)'
  <2> SUFFICES ASSUME NEW x \in Proc, x # p
               PROVE  HolderInv(x)'
    OBVIOUS
  <2>1. pc[x] \notin Critical /\ pc'[x] \notin Critical
    BY <1>2 DEF OthersStay
  <2>2. x \notin unread'
    BY <2>1, OutsideHolds DEF SafeInv, OthersStay
  <2> QED
    BY <2>1, <2>2
       DEF HasRead, HasTree, HasStaged, HolderInv, ReadProgress, WriteProgress,
           RemoveProgress, MoveProgress, Critical, IndexCalls
<1>5. StrayInv'
  BY <1>1 DEF StrayInv
<1> QED
  BY <1>3, <1>4, <1>5 DEF SafeInv

\* The holder gives the lock up.
LEMMA LeaveStep ==
    ASSUME SafeInv, TypeOK', NEW p \in Proc, lock = p, lock' = Free,
           NEW l \in {"idle", "dead"}, Quit(p, l),
           Linear',
           \A q \in Path : index'[q] # TipTree'[q] => q \in leftover'
    PROVE  SafeInv'
<1>1. OthersStay(p) /\ pc'[p] = l /\ p \notin unread'
  BY QuitFrame DEF SafeInv
<1>2. \A x \in Proc : pc'[x] \notin Critical /\ x \notin unread'
  <2>1. \A x \in Proc : x # p => pc[x] \notin Critical
    BY DEF SafeInv, InsideLock
  <2> QED
    BY <1>1, <2>1, OutsideHolds DEF SafeInv, OthersStay, Critical, IndexCalls
<1>3. InsideLock'
  BY <1>2, GitStoreAssumption DEF SafeInv, InsideLock
<1>4. \A x \in Proc : HolderInv(x)'
  BY <1>2 DEF HasRead, HasTree, HasStaged, HolderInv, ReadProgress, WriteProgress,
              RemoveProgress, MoveProgress, Critical, IndexCalls
<1>5. StrayInv'
  BY DEF StrayInv
<1> QED
  BY <1>3, <1>4, <1>5 DEF SafeInv
\* The only stray entries are the holder's own, or leftovers.
LEMMA StrayOfHolder ==
    ASSUME SafeInv, NEW p \in Proc, lock = p, NEW q \in Path, index[q] # TipTree[q]
    PROVE  q \in leftover \/ (HasStaged(p) /\ q \in Own(req[p]))
<1>1. \A x \in Proc : x # p => pc[x] \notin Critical
  BY DEF SafeInv, InsideLock
<1>2. \A x \in Proc : HasStaged(x) => pc[x] \in Critical
  BY DEF HasStaged, Critical, IndexCalls
<1> QED
  BY <1>1, <1>2 DEF SafeInv, StrayInv

LEMMA StageStep ==
    ASSUME SafeInv, TypeOK', NEW p \in Proc, Stage(p)
    PROVE  SafeInv'
<1> DEFINE r == req[p]
<1>1. TypeOK /\ HolderInv(p) /\ pc[p] = "stage" /\ pc[p] \in Critical /\ r \in Request
  BY DEF SafeInv, TypeOK, Stage, Critical, IndexCalls
<1>2. lock = p /\ lock' = p /\ OthersStay(p)
      /\ UNCHANGED <<objects, head, leftover>>
      /\ req' = req /\ parent' = parent /\ tree' = tree /\ unread' = unread
  BY <1>1 DEF Stage, SafeInv, InsideLock, OthersStay, Goto, locals, TypeOK
<1>3. TipTree' = TipTree
  BY <1>2 DEF TipTree, TreeOf
<1>4. pc'[p] = IF r.kind = "write" THEN "tree" ELSE "unstage"
  BY <1>1 DEF Stage, Goto, TypeOK
<1>5. CASE r.kind = "write"
  <2>1. r.path \in Path /\ index' = With(index, r.path, r.blob)
    BY <1>1, <1>5, RequestFields DEF Stage, Staged
  <2>2. index'[r.path] = r.blob /\ \A q \in Path : q # r.path => index'[q] = index[q]
    BY <2>1, <1>1 DEF With, TypeOK, Tree
  <2>3. HolderInv(p)'
    BY <1>1, <1>2, <1>3, <1>4, <1>5, <2>2
       DEF HolderInv, ReadProgress, HasRead, HasTree, HasStaged,
           WriteProgress, RemoveProgress, MoveProgress
  <2>4. ASSUME NEW q \in Path, index'[q] # TipTree[q]
        PROVE  q \in leftover \/ (HasStaged(p)' /\ q \in Own(req'[p]))
    <3>1. CASE q = r.path
      BY <3>1, <1>2, <1>4, <1>5 DEF HasStaged, Own
    <3>2. CASE q # r.path
      BY <3>2, <2>2, <2>4, <1>1, <1>2, <1>5, StrayOfHolder DEF HasStaged
    <3> QED
      BY <3>1, <3>2
  <2> QED
    BY <1>2, <1>4, <1>5, <2>3, <2>4, HolderStep DEF Critical, IndexCalls
<1>6. CASE r.kind # "write"
  <2>1. r.kind = "move" /\ r.src \in Path /\ r.dst \in Path /\ r.src # r.dst
    BY <1>1, <1>6, RequestFields DEF TypeOK, Reaches
  <2>2. parent[p] = head /\ TipTree[r.src] # Absent
    BY <1>1, <2>1 DEF SafeInv, HolderInv, ReadProgress, HasRead, MoveProgress
  <2>3. index' = With(index, r.dst, TipTree[r.src])
    BY <2>1, <2>2 DEF Stage, Staged, TipTree
  <2>4. index'[r.dst] = TipTree[r.src]
        /\ \A q \in Path : q # r.dst => index'[q] = index[q]
    BY <2>1, <2>3, <1>1 DEF With, TypeOK, Tree
  <2>5. HolderInv(p)'
    BY <1>1, <1>2, <1>3, <1>4, <2>1, <2>2, <2>4
       DEF HolderInv, ReadProgress, HasRead, HasTree, HasStaged,
           WriteProgress, RemoveProgress, MoveProgress
  <2>6. ASSUME NEW q \in Path, index'[q] # TipTree[q]
        PROVE  q \in leftover \/ (HasStaged(p)' /\ q \in Own(req'[p]))
    <3>1. CASE q = r.dst
      BY <3>1, <1>2, <1>4, <2>1 DEF HasStaged, Own
    <3>2. CASE q # r.dst
      BY <3>2, <2>4, <2>6, <1>1, <1>2, <2>1, StrayOfHolder DEF HasStaged
    <3> QED
      BY <3>1, <3>2
  <2> QED
    BY <1>2, <1>4, <1>6, <2>5, <2>6, HolderStep DEF Critical, IndexCalls
<1> QED
  BY <1>5, <1>6

LEMMA UnstageStep ==
    ASSUME SafeInv, TypeOK', NEW p \in Proc, Unstage(p)
    PROVE  SafeInv'
<1> DEFINE r == req[p]
           gone == IF r.kind = "remove" THEN r.under ELSE {r.src}
<1>1. TypeOK /\ pc[p] = "unstage" /\ pc[p] \in Critical /\ r \in Request
  BY DEF SafeInv, TypeOK, Unstage, Critical, IndexCalls
<1>2. lock = p /\ lock' = p /\ OthersStay(p) /\ pc'[p] = "tree"
      /\ UNCHANGED <<objects, head, leftover>>
      /\ req' = req /\ parent' = parent /\ tree' = tree /\ unread' = unread
  BY <1>1 DEF Unstage, SafeInv, InsideLock, OthersStay, Goto, locals, TypeOK
<1>3. TipTree' = TipTree
  BY <1>2 DEF TipTree, TreeOf
<1>4. r.kind \in {"remove", "move"} /\ gone \subseteq Own(r)
  BY <1>1 DEF TypeOK, Reaches, Own
<1>5. \A q \in Path : index'[q] = IF q \in gone THEN Absent ELSE index[q]
  BY DEF Unstage, Unstaged, Without
<1>6. HolderInv(p)
  BY DEF SafeInv
<1>7. HolderInv(p)'
  <2>1. ReadProgress(p)' /\ (HasTree(p) => tree[p] = index)' /\ WriteProgress(p)'
    BY <1>1, <1>2, <1>4, <1>6
       DEF HolderInv, ReadProgress, HasRead, HasTree, HasStaged, WriteProgress
  <2>2. RemoveProgress(p)'
    <3>1. r.kind = "remove" => r.under \subseteq Path
      BY <1>1, RequestFields DEF Own
    <3> QED
      BY <1>1, <1>2, <1>3, <1>5, <1>6, <3>1
         DEF HolderInv, HasRead, HasStaged, RemoveProgress
  <2>3. MoveProgress(p)'
    BY <1>1, <1>2, <1>3, <1>5, <1>6, RequestFields
       DEF HolderInv, HasRead, HasStaged, MoveProgress
  <2> QED
    BY <2>1, <2>2, <2>3 DEF HolderInv
<1>8. ASSUME NEW q \in Path, index'[q] # TipTree[q]
      PROVE  q \in leftover \/ (HasStaged(p)' /\ q \in Own(req'[p]))
  <2>1. HasStaged(p)'
    BY <1>2, <1>4 DEF HasStaged
  <2>2. CASE q \in gone
    BY <2>1, <2>2, <1>2, <1>4
  <2>3. CASE q \notin gone
    BY <2>1, <2>3, <1>2, <1>5, <1>8, StrayOfHolder
  <2> QED
    BY <2>2, <2>3
<1> QED
  BY <1>2, <1>7, <1>8, HolderStep DEF Critical, IndexCalls
\* A write or a reset that takes HEAD for unborn.
Unread(p) ==
    /\ pc[p] = "parent"
    /\ req[p].kind \in {"write", "reset"}
    /\ parent' = [parent EXCEPT ![p] = NoRev]
    /\ unread' = unread \union {p}
    /\ Goto(p, IF req[p].kind = "write" THEN "commit" ELSE "readTree")
    /\ UNCHANGED <<shared, lock, req, tree, leftover>>

\* Taking the lock, writing the tree and reading HEAD leave the index alone.
LEMMA QuietStep ==
    ASSUME SafeInv, TypeOK', NEW p \in Proc,
           Acquire(p) \/ WriteTree(p) \/ ReadParent(p) \/ Unread(p)
    PROVE  SafeInv'
<1> DEFINE r == req[p]
<1>1. TypeOK /\ r \in Request /\ r.kind \in {"write", "remove", "move", "reset"}
      /\ Reaches(r, pc[p]) /\ HolderInv(p)
  BY RequestFields DEF SafeInv, TypeOK
<1>2. OthersStay(p) /\ req' = req /\ UNCHANGED <<shared, leftover>>
  BY <1>1 DEF Acquire, WriteTree, ReadParent, Unread, OthersStay, Goto, locals, TypeOK
<1>3. TipTree' = TipTree /\ index' = index /\ objects' = objects /\ head' = head
  BY <1>2 DEF TipTree, TreeOf, shared
<1>4. CASE Acquire(p)
  <2>1. lock = Free /\ lock' = p /\ pc[p] = "wait"
        /\ pc'[p] = IF r.kind = "write" THEN "stage" ELSE "parent"
    BY <1>1, <1>4 DEF Acquire, Goto, TypeOK
  <2>2. HolderInv(p)'
    BY <1>1, <1>2, <1>4, <2>1
       DEF Acquire, locals, HolderInv, ReadProgress, HasRead, HasTree, HasStaged,
           WriteProgress, RemoveProgress, MoveProgress
  <2>3. \A q \in Path : index'[q] # TipTree[q] => q \in leftover
    <3>1. \A x \in Proc : ~HasStaged(x)
      BY <2>1, GitStoreAssumption
         DEF SafeInv, InsideLock, HasStaged, Critical, IndexCalls
    <3> QED
      BY <1>3, <3>1 DEF SafeInv, StrayInv
  <2> QED
    BY <1>2, <1>3, <2>1, <2>2, <2>3, HolderStep DEF Critical, IndexCalls
<1>5. CASE WriteTree(p)
  <2>1. lock = p /\ lock' = p /\ pc[p] = "tree" /\ tree'[p] = index /\ parent' = parent
        /\ unread' = unread
        /\ pc'[p] = IF r.kind = "write" THEN "parent" ELSE "commit"
    BY <1>1, <1>5 DEF WriteTree, Goto, TypeOK, SafeInv, InsideLock, Critical, IndexCalls
  <2>2. HolderInv(p)'
    BY <1>1, <1>2, <1>3, <2>1
       DEF Reaches, HolderInv, ReadProgress, HasRead, HasTree, HasStaged,
           WriteProgress, RemoveProgress, MoveProgress
  <2>3. ASSUME NEW q \in Path, index'[q] # TipTree[q]
        PROVE  q \in leftover \/ (HasStaged(p)' /\ q \in Own(req'[p]))
    <3>1. HasStaged(p) => HasStaged(p)'
      BY <1>2, <2>1 DEF HasStaged
    <3> QED
      BY <1>2, <1>3, <2>1, <2>3, <3>1, StrayOfHolder
  <2> QED
    BY <1>2, <1>3, <2>1, <2>2, <2>3, HolderStep DEF Critical, IndexCalls
<1>6. CASE ReadParent(p)
  <2>1. lock = p /\ lock' = p /\ pc[p] = "parent" /\ parent'[p] = head /\ tree' = tree
        /\ unread' = unread
    BY <1>1, <1>6 DEF ReadParent, TypeOK, SafeInv, InsideLock, Critical, IndexCalls
  <2>2. /\ r.kind = "write"  => pc'[p] = "commit" /\ (head = NoRev \/ tree[p] # TipTree)
        /\ r.kind = "remove" => pc'[p] = "unstage" /\ Tracked(TipTree, r.under)
        /\ r.kind = "move"   => pc'[p] = "stage" /\ Tracked(TipTree, {r.src})
        /\ r.kind = "reset"  => pc'[p] = "readTree"
    BY <1>1, <1>6 DEF ReadParent, Goto, TypeOK, TipTree
  <2>3. HolderInv(p)'
    BY <1>1, <1>2, <1>3, <2>1, <2>2
       DEF SafeInv, HolderInv, ReadProgress, HasRead, HasTree, HasStaged,
           WriteProgress, RemoveProgress, MoveProgress, Tracked
  <2>4. ASSUME NEW q \in Path, index'[q] # TipTree[q]
        PROVE  q \in leftover \/ (HasStaged(p)' /\ q \in Own(req'[p]))
    <3>1. HasStaged(p) => HasStaged(p)'
      BY <1>1, <1>2, <2>1, <2>2 DEF HasStaged
    <3> QED
      BY <1>2, <1>3, <2>1, <2>4, <3>1, StrayOfHolder
  <2>5. pc'[p] \in Critical
    BY <1>1, <2>2 DEF Critical, IndexCalls
  <2> QED
    BY <1>2, <1>3, <2>1, <2>3, <2>4, <2>5, HolderStep
<1>7. CASE Unread(p)
  <2>1. /\ lock = p /\ lock' = p /\ pc[p] = "parent" /\ r.kind \in {"write", "reset"}
        /\ parent'[p] = NoRev /\ p \in unread' /\ tree' = tree
        /\ pc'[p] = IF r.kind = "write" THEN "commit" ELSE "readTree"
    BY <1>1, <1>7
       DEF Unread, Goto, TypeOK, SafeInv, InsideLock, Critical, IndexCalls
  <2>2. HolderInv(p)'
    BY <1>1, <1>2, <1>3, <2>1
       DEF HolderInv, ReadProgress, HasRead, HasTree, HasStaged, WriteProgress,
           RemoveProgress, MoveProgress
  <2>3. ASSUME NEW q \in Path, index'[q] # TipTree[q]
        PROVE  q \in leftover \/ (HasStaged(p)' /\ q \in Own(req'[p]))
    <3>1. HasStaged(p) => HasStaged(p)'
      BY <1>2, <2>1 DEF HasStaged
    <3> QED
      BY <1>2, <1>3, <2>1, <2>3, <3>1, StrayOfHolder
  <2> QED
    BY <1>2, <1>3, <2>1, <2>2, <2>3, HolderStep DEF Critical, IndexCalls
<1> QED
  BY <1>4, <1>5, <1>6, <1>7

\* A call that finishes leaves an index with nothing of its own to commit.
LEMMA FinishStep ==
    ASSUME SafeInv, TypeOK', NEW p \in Proc, Unchanged(p) \/ Commit(p) \/ ReadTree(p)
    PROVE  SafeInv'
<1> DEFINE r == req[p]
<1>1. TypeOK /\ HolderInv(p) /\ pc[p] \in {"parent", "commit", "readTree"}
  BY DEF SafeInv, Unchanged, Commit, ReadTree
<1>2. lock = p /\ lock' = Free /\ Quit(p, "idle")
  BY <1>1 DEF SafeInv, InsideLock, Critical, IndexCalls, Unchanged, Commit, ReadTree, Leave
<1>3. CASE Unchanged(p)
  <2>1. TipTree' = TipTree /\ index' = index /\ Linear'
    BY <1>3 DEF Unchanged, shared, TipTree, TreeOf, SafeInv, Linear
  <2>2. ASSUME NEW q \in Path, index[q] # TipTree[q]
        PROVE  q \in leftover'
    <3>1. CASE r.kind = "write"
      BY <1>1, <1>3, <2>2, <3>1 DEF Unchanged, HolderInv, HasTree, TipTree
    <3>2. CASE r.kind # "write"
      BY <1>2, <1>3, <2>2, <3>2, StrayOfHolder DEF Unchanged, HasStaged
    <3> QED
      BY <3>1, <3>2
  <2> QED
    BY <1>2, <2>1, <2>2, LeaveStep
<1>4. CASE Commit(p)
  <2>1. Publish(tree[p], parent[p], p \in unread) /\ tree[p] \in Tree
        /\ parent[p] \in 0..Len(objects) /\ objects \in Seq(Commits)
    BY <1>1, <1>4 DEF Commit, TypeOK
  <2>2. tree[p] = index /\ parent[p] = IF p \in unread THEN NoRev ELSE head
    BY <1>1, <1>4 DEF Commit, HolderInv, ReadProgress, HasRead, HasTree
  <2>3. TipTree' = index /\ index' = index
    BY <1>4, <2>1, <2>2, CommitPublishes
  <2>4. Linear'
    <3>1. /\ Len(objects') = Len(objects) + 1 /\ head' = Len(objects')
          /\ objects'[head'] =
                [parent |-> parent[p], tree |-> index, anew |-> p \in unread]
          /\ \A i \in 1..Len(objects) : objects'[i] = objects[i]
          /\ objects' \in Seq(Commits)
      BY <1>4, <2>1, <2>2, CommitPublishes
    <3>2. head = Len(objects) /\ \A i \in 1..Len(objects) :
             objects[i].parent = IF objects[i].anew THEN NoRev ELSE i - 1
      <4>1. DOMAIN objects = 1..Len(objects)
        BY <2>1
      <4> QED
        BY <4>1 DEF SafeInv, Linear
    <3>3. ASSUME NEW i \in 1..Len(objects')
          PROVE  objects'[i].parent = IF objects'[i].anew THEN NoRev ELSE i - 1
      <4>1. Len(objects) \in Nat
        BY <2>1
      <4>2. CASE i \in 1..Len(objects)
        BY <3>1, <3>2, <4>2
      <4>3. CASE i = Len(objects) + 1
        <5>1. objects'[i] =
                 [parent |-> parent[p], tree |-> index, anew |-> p \in unread]
          BY <3>1, <4>3
        <5>6. (p \in unread) \in BOOLEAN
          OBVIOUS
        <5>7. \A new \in BOOLEAN :
                 objects'[i] = [parent |-> parent[p], tree |-> index, anew |-> new]
                     => objects'[i].parent = parent[p] /\ (objects'[i].anew <=> new)
          OBVIOUS
        <5>2. objects'[i].parent = parent[p] /\ (objects'[i].anew <=> p \in unread)
          BY <5>1, <5>6, <5>7, Zenon
        <5>3. head = i - 1
          BY <3>2, <4>1, <4>3
        <5>4. CASE p \in unread
          BY <2>2, <5>2, <5>4
        <5>5. CASE p \notin unread
          BY <2>2, <5>2, <5>3, <5>5
        <5> QED
          BY <5>4, <5>5
      <4>4. i \in 1..(Len(objects) + 1)
        BY <3>1
      <4> QED
        BY <4>1, <4>2, <4>3, <4>4
    <3> QED
      BY <3>1, <3>3 DEF Linear
  <2> QED
    BY <1>2, <2>3, <2>4, LeaveStep
<1>5. CASE ReadTree(p)
  <2>1. TipTree' = TipTree /\ Linear'
    BY <1>5 DEF ReadTree, TipTree, TreeOf, SafeInv, Linear
  <2>2. ASSUME NEW q \in Path, index'[q] # TipTree[q]
        PROVE  q \in leftover'
    <3>1. CASE p \in unread
      BY <1>1, <1>5, <2>2, <3>1
         DEF ReadTree, HolderInv, ReadProgress, HasRead, TipTree, TreeOf, EmptyTree,
             Tracking
    <3>2. CASE p \notin unread
      BY <1>1, <1>5, <2>2, <3>2 DEF ReadTree, HolderInv, ReadProgress, HasRead, TipTree
    <3> QED
      BY <3>1, <3>2
  <2> QED
    BY <1>2, <2>1, <2>2, LeaveStep
<1> QED
  BY <1>3, <1>4, <1>5

\* A call that fails, or whose process dies, leaves its own paths behind.
LEMMA FailStep ==
    ASSUME SafeInv, TypeOK', NEW p \in Proc, NEW l \in {"idle", "dead"},
           lock = p, lock' = Free, Quit(p, l),
           leftover' = leftover \union Own(req[p]),
           UNCHANGED <<objects, head, index>>
    PROVE  SafeInv'
<1>1. TipTree' = TipTree /\ Linear'
  BY DEF TipTree, TreeOf, SafeInv, Linear
<1>2. \A q \in Path : index[q] # TipTree[q] => q \in leftover'
  BY StrayOfHolder
<1> QED
  BY <1>1, <1>2, LeaveStep

LEMMA SafeStep == SafeInv /\ [Next]_vars /\ ~Orphaned' => SafeInv'
<1> SUFFICES ASSUME SafeInv, [Next]_vars, ~Orphaned'
             PROVE  SafeInv'
  OBVIOUS
<1>1. TypeOK'
  BY TypeStep DEF SafeInv
<1>2. ASSUME NEW p \in Proc, Call(p) \/ Boot(p) \/ Check(p) \/ LockTimeout(p)
      PROVE  SafeInv'
  <2>1. pc[p] \notin Critical /\ pc'[p] \notin Critical /\ OthersStay(p)
        /\ UNCHANGED <<shared, lock, leftover>> /\ unread' \subseteq unread
    <3>1. CASE Call(p)
      <4>1. ASSUME NEW r, NEW l \in {"wait", "check"}, Begin(p, r, l)
            PROVE  /\ pc[p] \notin Critical /\ pc'[p] \notin Critical /\ OthersStay(p)
                   /\ UNCHANGED <<shared, lock, leftover>> /\ unread' = unread
        BY <4>1 DEF SafeInv, TypeOK, Begin, Goto, OthersStay, Critical, IndexCalls
      <4>2. CASE BeginWrite(p)
        BY <4>1, <4>2 DEF BeginWrite
      <4>3. CASE BeginCheckedWrite(p)
        BY <4>1, <4>3 DEF BeginCheckedWrite
      <4>4. CASE BeginRemove(p)
        BY <4>1, <4>4 DEF BeginRemove
      <4>5. CASE BeginMove(p)
        BY <4>1, <4>5 DEF BeginMove
      <4> QED
        BY <3>1, <4>2, <4>3, <4>4, <4>5 DEF Call
    <3>2. CASE Boot(p)
      BY <3>2 DEF SafeInv, TypeOK, Boot, Goto, OthersStay, Critical, IndexCalls
    <3>3. CASE Check(p)
      BY <3>3 DEF SafeInv, TypeOK, Check, Quit, Goto, locals, OthersStay, Critical,
                  IndexCalls
    <3>4. CASE LockTimeout(p)
      BY <3>4 DEF SafeInv, TypeOK, LockTimeout, Quit, Goto, OthersStay, Critical,
                  IndexCalls
    <3> QED
      BY <1>2, <3>1, <3>2, <3>3, <3>4
  <2> QED
    BY <1>1, <2>1, OutsideStep
<1>3. ASSUME NEW p \in Proc, Blocked(p) \/ GitFails(p) \/ GitKilled(p)
      PROVE  SafeInv'
  <2>1. lock = p
    BY <1>3 DEF SafeInv, InsideLock, Blocked, GitFails, GitKilled, Critical
  <2>2. Raise(p) /\ UNCHANGED <<objects, head, index>>
    BY <1>3 DEF Blocked, GitFails, GitKilled, shared
  <2>3. PICK l \in {"idle", "dead"} : Quit(p, l)
    BY <2>2 DEF Raise, Leave
  <2> QED
    BY <1>1, <2>1, <2>2, <2>3, FailStep DEF Raise, Leave
<1>7. ASSUME NEW p \in Proc, Misread(p)
      PROVE  SafeInv'
  <2>1. CASE pc[p] = "check"
    <3>1. Quit(p, "idle") /\ UNCHANGED <<shared, lock, leftover>>
      BY <1>7, <2>1 DEF Misread
    <3> QED
      BY <1>1, <2>1, <3>1, QuitFrame, OutsideStep DEF SafeInv, Critical, IndexCalls
  <2>2. CASE pc[p] = "parent" /\ req[p].kind \in {"write", "reset"}
    <3>1. Unread(p)
      BY <1>7, <2>2 DEF Misread, Unread
    <3> QED
      BY <1>1, <3>1, QuietStep
  <2>3. CASE pc[p] = "parent" /\ req[p].kind \in {"remove", "move"}
    <3>1. Leave(p, "idle") /\ UNCHANGED <<shared, leftover>>
      BY <1>7, <2>3 DEF Misread
    <3>2. lock = p /\ ~HasStaged(p)
      BY <2>3 DEF SafeInv, InsideLock, Critical, HasStaged
    <3>3. TipTree' = TipTree /\ index' = index /\ Linear'
      BY <3>1 DEF shared, TipTree, TreeOf, SafeInv, Linear
    <3>4. \A q \in Path : index[q] # TipTree[q] => q \in leftover'
      BY <3>1, <3>2, StrayOfHolder
    <3> QED
      BY <1>1, <3>1, <3>2, <3>3, <3>4, LeaveStep DEF Leave
  <2> QED
    BY <1>7, <2>1, <2>2, <2>3 DEF Misread
<1>4. ASSUME NEW p \in Proc, Kill(p) \/ KillOrphaning(p)
      PROVE  SafeInv'
  <2>1. Die(p) /\ UNCHANGED shared
    BY <1>4 DEF Kill, KillOrphaning
  <2>2. CASE lock = p
    BY <1>1, <2>1, <2>2, FailStep DEF Die, Leave, shared
  <2>3. CASE lock # p
    <3>1. Quit(p, "dead") /\ UNCHANGED <<lock, leftover>>
      BY <2>1, <2>3 DEF Die
    <3>2. pc[p] \notin Critical /\ "dead" \notin Critical
      BY <2>3 DEF SafeInv, InsideLock, Critical, IndexCalls
    <3> QED
      BY <1>1, <2>1, <3>1, <3>2, QuitFrame, OutsideStep DEF SafeInv
  <2> QED
    BY <2>2, <2>3
<1>5. ~OrphanFinishes
  BY DEF OrphanFinishes, Orphaned
<1>6. CASE UNCHANGED vars
  <2>1. UNCHANGED <<objects, head, index, indexLock, lock, pc, req, parent, tree,
                    unread, leftover>>
    BY <1>6 DEF vars, shared, locals
  <2>2. InsideLock' /\ Linear' /\ TipTree' = TipTree
    BY <2>1 DEF SafeInv, InsideLock, Linear, TipTree, TreeOf
  <2>3. \A x \in Proc : HolderInv(x)'
    BY <2>1, <2>2
       DEF SafeInv, HolderInv, ReadProgress, HasRead, HasTree, HasStaged,
           WriteProgress, RemoveProgress, MoveProgress
  <2>4. StrayInv'
    BY <2>1, <2>2 DEF SafeInv, StrayInv, HasStaged
  <2> QED
    BY <1>1, <2>1, <2>2, <2>3, <2>4 DEF SafeInv
<1> QED
  BY <1>1, <1>2, <1>3, <1>4, <1>5, <1>6, <1>7, StageStep, UnstageStep, QuietStep, FinishStep
     DEF Next, Step, Failure, BoundReached
-----------------------------------------------------------------------------
(* Theorems about the specification. *)

LEMMA SafeInit == Init => SafeInv
<1> SUFFICES ASSUME Init
             PROVE  SafeInv
  OBVIOUS
<1>1. TypeOK
  BY TypeInit
<1>2. InsideLock
  BY GitStoreAssumption DEF Init, InsideLock, Critical, IndexCalls
<1>3. Linear
  BY DEF Init, Linear, NoRev
<1>4. \A p \in Proc : HolderInv(p)
  BY OutsideHolds DEF Init, Critical, IndexCalls
<1>5. StrayInv
  BY DEF Init, StrayInv, TipTree, TreeOf
<1> QED
  BY <1>1, <1>2, <1>3, <1>4, <1>5 DEF SafeInv

\* What a finished orphan has done stays done.
LEMMA OrphanedStep == TypeOK /\ Orphaned /\ [Next]_vars => Orphaned'
<1> SUFFICES ASSUME TypeOK, Orphaned, [Next]_vars
             PROVE  Orphaned'
  OBVIOUS
<1>1. ASSUME NEW p \in Proc, Call(p) \/ Boot(p)
      PROVE  orphans' = orphans
  BY <1>1 DEF Call, BeginWrite, BeginCheckedWrite, BeginRemove, BeginMove, Begin, Boot
<1>2. ASSUME NEW p \in Proc, Step(p)
      PROVE  orphans' = orphans
  BY <1>2 DEF Step, Check, Acquire, LockTimeout, Stage, Unstage, WriteTree,
              ReadParent, Unchanged, Commit, ReadTree, Blocked
<1>3. ASSUME NEW p \in Proc, GitFails(p) \/ Misread(p) \/ GitKilled(p) \/ Kill(p)
      PROVE  orphans' = orphans
  BY <1>3 DEF GitFails, Misread, GitKilled, Kill
<1>4. ASSUME NEW p \in Proc, KillOrphaning(p)
      PROVE  orphans'.done = orphans.done
  BY <1>4 DEF KillOrphaning, TypeOK
<1>5. OrphanFinishes => orphans'.done
  BY DEF OrphanFinishes
<1> QED
  BY <1>1, <1>2, <1>3, <1>4, <1>5 DEF Orphaned, Next, Failure, BoundReached, vars

\* The invariant holds, whatever fails, until an orphaned git call finishes.
THEOREM Safety == Spec => [](Orphaned \/ SafeInv)
<1>1. (Orphaned \/ SafeInv) /\ TypeOK /\ [Next]_vars => (Orphaned \/ SafeInv)'
  BY SafeStep, OrphanedStep
<1> QED
  BY <1>1, SafeInit, TypeCorrect, PTL DEF Spec

\* No commit drops out of the history, except by a write that could not read
\* HEAD (write, 238-244).
THEOREM HistoryIsLinear == Spec => []LinearHistory
<1>1. Orphaned \/ SafeInv => LinearHistory
  BY DEF SafeInv, LinearHistory
<1> QED
  BY <1>1, Safety, PTL

\* While the lock is free, only a failed call, or a reset that could not read
\* HEAD, can have made the index stray (reset_stale_index, 345-348).
THEOREM StrayEntriesAreLeftovers == Spec => []StrayOnlyFromFaults
<1>1. Orphaned \/ SafeInv => StrayOnlyFromFaults
  <2> SUFFICES ASSUME SafeInv, lock = Free
               PROVE  \A x \in Proc : ~HasStaged(x)
    BY DEF SafeInv, StrayInv, StrayOnlyFromFaults
  <2> QED
    BY GitStoreAssumption DEF SafeInv, InsideLock, HasStaged, Critical, IndexCalls
<1> QED
  BY <1>1, Safety, PTL

\* Only a commit moves HEAD or adds an object.
LEMMA ObjectsMove ==
    ASSUME [Next]_vars, ~Orphaned'
    PROVE  UNCHANGED <<objects, head>> \/ \E p \in Proc : Commit(p)
<1>1. ~OrphanFinishes
  BY DEF OrphanFinishes, Orphaned
<1>2. ASSUME NEW p \in Proc, Call(p)
      PROVE  UNCHANGED <<objects, head>>
  BY <1>2 DEF Call, BeginWrite, BeginCheckedWrite, BeginRemove, BeginMove, Begin, shared
<1>3. ASSUME NEW p \in Proc, Step(p), ~Commit(p)
      PROVE  UNCHANGED <<objects, head>>
  BY <1>3 DEF Step, Check, Acquire, LockTimeout, Stage, Unstage, WriteTree,
              ReadParent, Unchanged, ReadTree, Blocked, shared
<1>4. ASSUME NEW p \in Proc, Boot(p) \/ Failure(p)
      PROVE  UNCHANGED <<objects, head>>
  BY <1>4 DEF Boot, Failure, GitFails, Misread, GitKilled, Kill, KillOrphaning, shared
<1> QED
  BY <1>1, <1>2, <1>3, <1>4 DEF Next, BoundReached, vars, shared

\* What a commit is made of.
LEMMA CommitFacts ==
    ASSUME SafeInv, NEW p \in Proc, Commit(p)
    PROVE  /\ lock = p /\ HasStaged(p) /\ HolderInv(p)
           /\ req[p] \in Request /\ req[p].kind \in {"write", "remove", "move"}
           /\ tree[p] = index /\ TipTree' = index
           /\ objects' = Append(objects, [parent |-> parent[p], tree |-> index,
                                          anew |-> p \in unread])
           /\ head' = Len(objects) + 1
<1>1. /\ pc[p] = "commit" /\ lock = p /\ HolderInv(p) /\ req[p] \in Request
      /\ Reaches(req[p], "commit") /\ tree[p] \in Tree /\ parent[p] \in 0..Len(objects)
      /\ objects \in Seq(Commits)
  BY DEF SafeInv, TypeOK, InsideLock, Commit, Critical
<1>2. req[p].kind \in {"write", "remove", "move"} /\ HasStaged(p)
  BY <1>1 DEF Reaches, HasStaged
<1>3. tree[p] = index
  BY <1>1 DEF HolderInv, HasTree
<1>4. Publish(index, parent[p], p \in unread) /\ index \in Tree
  BY <1>1, <1>3 DEF Commit
<1>5. TipTree' = index
  BY <1>1, <1>3, CommitPublishes
<1> QED
  BY <1>1, <1>2, <1>3, <1>4, <1>5 DEF Publish

\* A commit changes the tree only at its own paths or at leftovers.
THEOREM CommitsAreLocal == Spec => CommitTouchesOnlyItsPaths
<1> DEFINE Local == \A q \in Path : TipTree'[q] # TipTree[q] =>
               q \in leftover \/ \E p \in Proc : lock = p /\ q \in Own(req[p])
<1>1. (Orphaned \/ SafeInv) /\ TypeOK /\ [Next]_vars => Orphaned' \/ Local
  <2> SUFFICES ASSUME SafeInv, [Next]_vars, ~Orphaned',
                      NEW q \in Path, TipTree'[q] # TipTree[q]
               PROVE  q \in leftover \/ \E p \in Proc : lock = p /\ q \in Own(req[p])
    BY OrphanedStep
  <2>1. PICK p \in Proc : Commit(p)
    BY ObjectsMove DEF TipTree, TreeOf
  <2>2. lock = p /\ TipTree' = index
    BY <2>1, CommitFacts
  <2> QED
    BY <2>2, StrayOfHolder
<1> QED
  BY <1>1, Safety, TypeCorrect, PTL DEF Spec, CommitTouchesOnlyItsPaths

\* A call that returns, and has not taken its path for untracked by mistake,
\* has done what it was asked.
THEOREM ReturnedCallsAreDone == Spec => ReturnMeansDone
<1> DEFINE Done == \A p \in Proc : Commit(p) \/ Unchanged(p) =>
                       Outcome(req[p], TipTree, TipTree')
<1>1. (Orphaned \/ SafeInv) /\ TypeOK /\ [Next]_vars => Orphaned' \/ Done
  <2> SUFFICES ASSUME SafeInv, NEW p \in Proc, Commit(p) \/ Unchanged(p)
               PROVE  Outcome(req[p], TipTree, TipTree')
    BY OrphanedStep
  <2>1. CASE Commit(p)
    BY <2>1, CommitFacts
       DEF HolderInv, WriteProgress, RemoveProgress, MoveProgress, HasStaged,
           Commit, Outcome
  <2>2. CASE Unchanged(p)
    <3>1. TipTree' = TipTree /\ HolderInv(p) /\ pc[p] = "parent"
      BY <2>2 DEF Unchanged, shared, TipTree, TreeOf, SafeInv
    <3> QED
      BY <2>2, <3>1
         DEF Unchanged, HolderInv, HasTree, HasStaged, WriteProgress, TipTree,
             Tracked, Outcome
  <2> QED
    BY <2>1, <2>2
<1> QED
  BY <1>1, Safety, TypeCorrect, PTL DEF Spec, ReturnMeansDone
-----------------------------------------------------------------------------
(***************************************************************************)
(* GitStore implements AtomicMirror.  The log is the trees of the commits: *)
(* the step that publishes a commit is the abstract write, remove or move, *)
(* a failing step loosens its call's paths, a finished orphan breaks the   *)
(* promise, and the other steps leave the log alone.                       *)
(***************************************************************************)

\* What a step that commits nothing does to the leftovers.
LEMMA LeftoverMoves ==
    ASSUME [Next]_vars, ~Orphaned', ~(\E p \in Proc : Commit(p))
    PROVE  leftover' = {} \/ leftover \subseteq leftover'
<1>1. ~OrphanFinishes
  BY DEF OrphanFinishes, Orphaned
<1>2. ASSUME NEW p \in Proc, Call(p) \/ Boot(p)
      PROVE  leftover' = leftover
  BY <1>2 DEF Call, BeginWrite, BeginCheckedWrite, BeginRemove, BeginMove, Begin, Boot
<1>3. ASSUME NEW p \in Proc, Step(p), ~Commit(p)
      PROVE  leftover' = {} \/ leftover \subseteq leftover'
  BY <1>3 DEF Step, Check, Acquire, LockTimeout, Stage, Unstage, WriteTree,
              ReadParent, Unchanged, ReadTree, Blocked, Raise
<1>4. ASSUME NEW p \in Proc, Failure(p)
      PROVE  leftover \subseteq leftover'
  BY <1>4 DEF Failure, GitFails, Misread, GitKilled, Kill, KillOrphaning, Raise, Die
<1> QED
  BY <1>1, <1>2, <1>3, <1>4 DEF Next, BoundReached, vars

\* Appending an element, as a function of the index.
LEMMA AppendAsFunction ==
    ASSUME NEW S, NEW s \in Seq(S), NEW e \in S
    PROVE  Append(s, e) = [i \in 1..(Len(s) + 1) |-> IF i = Len(s) + 1 THEN e ELSE s[i]]
<1> DEFINE f == [i \in 1..(Len(s) + 1) |-> IF i = Len(s) + 1 THEN e ELSE s[i]]
<1>1. f \in Seq(S) /\ Len(f) = Len(s) + 1
  OBVIOUS
<1>2. Append(s, e) \in Seq(S) /\ Len(Append(s, e)) = Len(s) + 1
  BY AppendProperties
<1>3. ASSUME NEW i \in 1..(Len(s) + 1)
      PROVE  Append(s, e)[i] = f[i]
  BY AppendProperties
<1> QED
  BY <1>1, <1>2, <1>3, SeqEqual

Entry == [tree: Tree, anew: BOOLEAN]

\* The log is a sequence of entries, and its last one has the tree at HEAD.
LEMMA LogFacts ==
    ASSUME SafeInv
    PROVE  /\ Log \in Seq(Entry)
           /\ Len(Log) = head
           /\ Mirror!Tip = TipTree
<1>1. objects \in Seq(Commits) /\ head = Len(objects) /\ head \in Nat
  BY DEF SafeInv, TypeOK, Linear
<1>2. ASSUME NEW i \in 1..head
      PROVE  [tree |-> objects[i].tree, anew |-> objects[i].anew] \in Entry
  <2>1. objects[i] \in Commits
    BY <1>1
  <2> QED
    BY <2>1 DEF Commits, Entry
<1>3. Log \in Seq(Entry) /\ Len(Log) = head
  BY <1>1, <1>2 DEF Log
<1>4. Mirror!Tip = TipTree
  <2>1. CASE head = 0
    BY <1>3, <2>1 DEF Mirror!Tip, TipTree, TreeOf, NoRev, EmptyTree
  <2>2. CASE head # 0
    <3>1. Log # <<>> /\ Log[Len(Log)].tree = objects[head].tree
      BY <1>1, <1>3, <2>2 DEF Log
    <3> QED
      BY <2>2, <3>1 DEF Mirror!Tip, TipTree, TreeOf, NoRev
  <2> QED
    BY <2>1, <2>2
<1> QED
  BY <1>3, <1>4

\* A commit is an abstract operation.
LEMMA CommitIsAtomic ==
    ASSUME SafeInv, ~Orphaned', NEW p \in Proc, Commit(p)
    PROVE  Mirror!Next
<1> DEFINE r == req[p]
<1>1. index \in Tree /\ objects \in Seq(Commits) /\ head \in 0..Len(objects)
      /\ head = Len(objects) /\ TipTree \in Tree
  BY TreeOfType DEF SafeInv, TypeOK, Linear, TipTree
<1>2. lock = p /\ HasStaged(p) /\ HolderInv(p) /\ r \in Request /\ tree[p] = index
      /\ pc[p] = "commit" /\ HasRead(p) /\ leftover' = {}
  BY <1>1, CommitFacts DEF Commit, HasRead
<1> DEFINE entry == [tree |-> index, anew |-> p \in unread]
<1>3. Log' = Append(Log, entry)
  <2>1. head' = head + 1 /\ objects' = Append(objects, [parent |-> parent[p],
                                 tree |-> index, anew |-> p \in unread])
    BY <1>1, CommitFacts
  <2>2. Log \in Seq(Entry) /\ Len(Log) = head /\ entry \in Entry
    BY <1>1, LogFacts DEF Entry
  <2>3. \A i \in 1..head : objects'[i] = objects[i]
    BY <1>1, <2>1
  <2>4. objects'[head + 1] = [parent |-> parent[p], tree |-> index,
                              anew |-> p \in unread]
    BY <1>1, <2>1
  <2>5. Append(Log, entry) = [i \in 1..(head + 1) |-> IF i = head + 1 THEN entry ELSE Log[i]]
    BY <2>2, AppendAsFunction
  <2>6. Log' = [i \in 1..(head + 1) |->
                   [tree |-> objects'[i].tree, anew |-> objects'[i].anew]]
    BY <2>1 DEF Log
  <2>7. \A i \in 1..(head + 1) : [tree |-> objects'[i].tree, anew |-> objects'[i].anew]
                                   = IF i = head + 1 THEN entry ELSE Log[i]
    BY <1>1, <2>3, <2>4 DEF Log
  <2> QED
    BY <2>5, <2>6, <2>7
<1>4. Mirror!Tip = TipTree /\ (head = NoRev => Log = <<>>)
  BY <1>1, LogFacts DEF NoRev
<1>5. (Mirror!Tip)' = index
  <2>1. Log \in Seq(Entry) /\ entry \in Entry
    BY <1>1, LogFacts DEF Entry
  <2>2. Log' # <<>> /\ Log'[Len(Log')] = entry
    BY <1>3, <2>1
  <2> QED
    BY <2>2 DEF Mirror!Tip
<1>6. Mirror!Record(Own(r), p \in unread)
  <2>1. \A q \in Path : index[q] # TipTree[q] => q \in Own(r) \union leftover
    BY <1>2, StrayOfHolder
  <2>2. index \in Mirror!Tree
    BY <1>1 DEF Tree, Mirror!Tree
  <2> QED
    BY <1>2, <1>3, <1>4, <1>5, <2>1, <2>2 DEF Mirror!Record
<1>7. CASE r.kind = "write"
  <2>1. r.path \in Path /\ r.blob \in Blob /\ index[r.path] = r.blob
        /\ (head = NoRev \/ index # TipTree \/ p \in unread) /\ Own(r) = {r.path}
    BY <1>2, <1>7, RequestFields DEF HolderInv, WriteProgress, Own
  <2> QED
    <3>1. CASE p \in unread
      <4>1. (p \in unread) = TRUE
        BY <3>1
      <4>2. Mirror!Record({r.path}, TRUE)
        BY <1>6, <2>1, <4>1
      <4>3. Mirror!Restart(r.path, r.blob)
        BY <1>5, <2>1, <4>2 DEF Mirror!Restart
      <4> QED
        BY <2>1, <4>3 DEF Mirror!Next
    <3>2. CASE p \notin unread
      <4>1. (p \in unread) = FALSE
        BY <3>2
      <4>2. Mirror!Record({r.path}, FALSE)
        BY <1>6, <2>1, <4>1
      <4>3. Mirror!Write(r.path, r.blob)
        BY <1>4, <1>5, <2>1, <3>2, <4>2 DEF Mirror!Write
      <4> QED
        BY <2>1, <4>3 DEF Mirror!Next
    <3> QED
      BY <3>1, <3>2
<1>8. CASE r.kind = "remove"
  <2>1. r.under \in Subtree /\ Tracked(TipTree, r.under) /\ Own(r) = r.under
        /\ \A q \in r.under : index[q] = Absent
    BY <1>2, <1>8, RequestFields DEF HolderInv, RemoveProgress, Own
  <2>2. (p \in unread) = FALSE
    BY <1>2, <1>8 DEF HolderInv, ReadProgress
  <2> QED
    BY <1>4, <1>5, <1>6, <2>1, <2>2 DEF Mirror!Next, Mirror!Remove, Tracked
<1>9. CASE r.kind = "move"
  <2>1. /\ r.src \in Path /\ r.dst \in Path /\ r.src # r.dst
        /\ TipTree[r.src] # Absent /\ index[r.dst] = TipTree[r.src]
        /\ index[r.src] = Absent /\ Own(r) = {r.src, r.dst}
    BY <1>2, <1>9, RequestFields DEF HolderInv, MoveProgress, Own
  <2>2. (p \in unread) = FALSE
    BY <1>2, <1>9 DEF HolderInv, ReadProgress
  <2> QED
    BY <1>4, <1>5, <1>6, <2>1, <2>2 DEF Mirror!Next, Mirror!Move
<1> QED
  BY <1>7, <1>8, <1>9, CommitFacts

\* Whatever fails, the repository implements the abstract one.
THEOREM Refinement == Spec => ImplementsAtomicMirror
<1>1. Init => Mirror!Init
  <2> SUFFICES ASSUME Init
               PROVE  Mirror!Init
    OBVIOUS
  <2>1. Log \in Seq(Entry) /\ Len(Log) = 0
    BY SafeInit, LogFacts DEF Init, NoRev
  <2> QED
    BY <2>1 DEF Mirror!Init, Init, Orphaned
<1>2. (Orphaned \/ SafeInv) /\ TypeOK /\ TypeOK' /\ [Next]_vars
         => [Mirror!Next]_<<Log, leftover, Orphaned>>
  <2> SUFFICES ASSUME SafeInv, TypeOK', [Next]_vars, ~Orphaned, ~Orphaned'
               PROVE  Mirror!Next
    BY OrphanedStep DEF Mirror!Next
  <2>1. CASE \E p \in Proc : Commit(p)
    BY <2>1, CommitIsAtomic
  <2>2. CASE ~(\E p \in Proc : Commit(p))
    <3>1. Log' = Log
      BY <2>2, ObjectsMove DEF Log
    <3>2. leftover' \in SUBSET Path /\ (leftover' = {} \/ leftover \subseteq leftover')
      BY <2>2, LeftoverMoves DEF TypeOK
    <3> QED
      BY <3>1, <3>2 DEF Mirror!Next, Mirror!Loosen, Mirror!Tighten
  <2> QED
    BY <2>1, <2>2
<1> QED
  BY <1>1, <1>2, Safety, TypeCorrect, PTL DEF Spec, ImplementsAtomicMirror, Mirror!Spec
=============================================================================

------------------------- MODULE SessionRollbackProofs -------------------------
(***************************************************************************)
(* Proofs about SessionRollback, for any files, contents and number of     *)
(* commits and edits: what is reported rolled back is undone, what others  *)
(* committed before a path was last compared survives, and mirror and disk *)
(* agree where no event is pending or lost.                                *)
(***************************************************************************)
EXTENDS SessionRollback, SharedLemmas

\* Three actors are three.
LEMMA ActorsDiffer == Session # Other /\ Session # Rollback /\ Other # Rollback
<1>1. ASSUME NEW a, NEW b PROVE Cardinality({a, b}) <= 2
  <2>1. IsFiniteSet({a}) /\ Cardinality({a}) = 1
    BY FS_Singleton
  <2>2. {a, b} = {a} \union {b}
    OBVIOUS
  <2>3. Cardinality({a} \union {b}) = IF b \in {a} THEN Cardinality({a}) ELSE Cardinality({a}) + 1
    BY <2>1, FS_AddElement
  <2> QED
    BY <2>1, <2>2, <2>3
<1>2. ASSUME Session = Other \/ Session = Rollback \/ Other = Rollback
      PROVE  \E a, b : {Session, Other, Rollback} = {a, b}
  BY <1>2
<1>3. Cardinality({Session, Other, Rollback}) = 3
  BY SessionRollbackAssumption
<1>4. ASSUME NEW a, NEW b, {Session, Other, Rollback} = {a, b}
      PROVE  FALSE
  <2>1. Cardinality({a, b}) = 3 /\ Cardinality({a, b}) <= 2
    BY <1>1, <1>3, <1>4
  <2> QED
    BY <2>1
<1> QED
  BY <1>2, <1>4

-----------------------------------------------------------------------------
(* The history. *)

Commits == [by : {Session, Other, Rollback}, tree : [Path -> File]]

HistoryType == history \in Seq(Commits)

LEMMA TreeType ==
    ASSUME HistoryType, NEW n \in 0..Len(history)
    PROVE  Tree(n) \in [Path -> File]
<1>1. CASE n = 0
  BY <1>1 DEF Tree, Empty, File
<1>2. CASE n # 0
  <2>1. history[n] \in Commits
    BY <1>2 DEF HistoryType
  <2> QED
    BY <1>2, <2>1 DEF Tree, Commits
<1> QED
  BY <1>1, <1>2

\* The history only grows, by at most one commit.
Grows(who) ==
    /\ Len(history) <= Len(history')
    /\ \A n \in 1..Len(history) : history'[n] = history[n]
    /\ history' # history =>
          /\ Len(history') = Len(history) + 1
          /\ history'[Len(history')].by = who

LEMMA CommitFacts ==
    ASSUME HistoryType, NEW who \in {Session, Other, Rollback},
           NEW tree \in [Path -> File], Commit(who, tree)
    PROVE  HistoryType' /\ HeadTree' = tree /\ Grows(who)
<1>0. Len(history) \in Nat
  BY DEF HistoryType
<1>1. CASE tree = HeadTree
  BY <1>0, <1>1 DEF Commit, HeadTree, Tree, Grows, HistoryType
<1>2. CASE tree # HeadTree
  <2> DEFINE new == [by |-> who, tree |-> tree]
  <2>1. new \in Commits
    BY DEF Commits
  <2>2. history' = Append(history, new)
    BY <1>2 DEF Commit
  <2>3. /\ history' \in Seq(Commits) /\ Len(history') = Len(history) + 1
        /\ history'[Len(history')] = new
        /\ \A n \in 1..Len(history) : history'[n] = history[n]
    BY <2>1, <2>2, AppendProperties DEF HistoryType
  <2> QED
    BY <1>0, <2>3 DEF HistoryType, HeadTree, Tree, Grows
<1> QED
  BY <1>1, <1>2

\* No commit at all is a commit of the tree there is.
LEMMA NoCommit ==
    ASSUME HistoryType, UNCHANGED history
    PROVE  Commit(Rollback, HeadTree) /\ HeadTree \in [Path -> File]
<1>1. Len(history) \in 0..Len(history)
  BY DEF HistoryType
<1> QED
  BY <1>1, TreeType DEF Commit, HeadTree

\* What a longer history says of the commits a rollback has listed.
LEMMA ListedCommitsStay ==
    ASSUME HistoryType, NEW who, Grows(who), began \in 0..Len(history), began' = began
    PROVE  /\ \A n \in 0..Len(history) : Tree(n)' = Tree(n)
           /\ \A n \in 1..Len(history) : Touched(n)' = Touched(n)
           /\ \A p : Mine(p)' = Mine(p) /\ BySession(p)' = BySession(p)
           /\ \A p \in Path : Mine(p) # {} => Before(p)' = Before(p)
<1>0. Len(history) \in Nat
  BY DEF HistoryType
<1>1. ASSUME NEW n \in 0..Len(history) PROVE Tree(n)' = Tree(n)
  BY <1>0 DEF Tree, Grows, Empty
<1>2. ASSUME NEW n \in 1..Len(history)
      PROVE  Tree(n)' = Tree(n) /\ Tree(n - 1)' = Tree(n - 1)
  BY <1>0, <1>1
<1>3. ASSUME NEW n \in 1..Len(history)
      PROVE  Touched(n)' = Touched(n) /\ Shown(n)' = Shown(n)
  BY <1>2 DEF Touched, Shown
<1>4. 1..began \subseteq 1..Len(history)
  BY <1>0
<1>5. ASSUME NEW p PROVE Mine(p)' = Mine(p) /\ BySession(p)' = BySession(p)
  BY <1>3, <1>4 DEF Mine, BySession, Grows
<1>6. ASSUME NEW p \in Path, Mine(p) # {} PROVE Before(p)' = Before(p)
  <2>1. Mine(p) \subseteq 1..began
    BY DEF Mine
  <2>2. Min(Mine(p)) \in Mine(p)
    BY <1>6, <2>1, LeastNatural DEF Min
  <2> QED
    BY <1>2, <1>4, <1>5, <2>1, <2>2 DEF Before
<1> QED
  BY <1>1, <1>3, <1>5, <1>6

-----------------------------------------------------------------------------
(* Types. *)

Base ==
    /\ TypeOK
    /\ HistoryType
    /\ pc = "work" => began = 0 /\ todo = {} /\ rolled = {} /\ failed = {}
    /\ at \notin todo

LEMMA MineFacts ==
    ASSUME Base, NEW p \in Path, Mine(p) # {}
    PROVE  /\ Mine(p) \subseteq 1..began
           /\ Min(Mine(p)) \in Mine(p)
           /\ Max(Mine(p)) \in Mine(p)
           /\ Before(p) \in File
<1>1. Mine(p) \subseteq 1..began /\ began \in 0..Len(history) /\ Len(history) \in Nat
  BY DEF Mine, Base, TypeOK, HistoryType
<1>2. Min(Mine(p)) \in Mine(p)
  BY <1>1, LeastNatural DEF Min
<1>3. Max(Mine(p)) \in Mine(p)
  BY <1>1, GreatestNatural DEF Max
<1>4. Min(Mine(p)) - 1 \in 0..Len(history)
  BY <1>1, <1>2
<1>5. Before(p) \in File
  BY <1>4, TreeType DEF Base, Before
<1> QED
  BY <1>1, <1>2, <1>3, <1>5

\* All steps but the one that lists the session's commits.
LEMMA BaseFrame ==
    ASSUME Base, NEW who \in {Session, Other, Rollback}, NEW tree \in [Path -> File],
           Commit(who, tree), began' = began,
           disk' \in [Path -> File], dirty' \subseteq Path, used' \in 0..MaxCommits,
           pc' \in {"work", "done"} \union Running,
           pc' = "work" => pc = "work" /\ UNCHANGED <<todo, rolled, failed>>,
           at' \in IF pc' \in {"check", "restore", "write"} THEN Path ELSE {Absent},
           looked' = looked \/ (\E p \in Path : looked' = [looked EXCEPT ![p] = Len(history)]),
           missed' \subseteq Path,
           todo' \intersect (rolled' \union failed' \union {at'}) = {},
           todo' \union rolled' \union failed' \union ({at'} \ {Absent})
             = todo \union rolled \union failed \union ({at} \ {Absent})
    PROVE  Base'
<1>1. HistoryType' /\ Grows(who) /\ began \in 0..Len(history)
  BY CommitFacts DEF Base, TypeOK
<1>2. \A p : Mine(p)' = Mine(p)
  BY <1>1, ListedCommitsStay DEF Base
<1>3. began' \in 0..Len(history')
  BY <1>1 DEF Grows, HistoryType
<1>5. looked' \in [Path -> 0..Len(history')]
  <2>1. /\ Len(history) \in Nat /\ Len(history') \in Nat /\ Len(history) <= Len(history')
    BY <1>1 DEF Grows, HistoryType, Base
  <2>2. 0..Len(history) \subseteq 0..Len(history') /\ Len(history) \in 0..Len(history')
    BY <2>1
  <2>3. looked \in [Path -> 0..Len(history')]
    BY <2>2 DEF Base, TypeOK
  <2> QED
    BY <2>2, <2>3
<1>4. \A n \in DOMAIN history' : history'[n] \in Commits
  BY <1>1 DEF HistoryType
<1> HIDE DEF Commit
<1> QED
  BY <1>1, <1>2, <1>3, <1>4, <1>5 DEF Base, TypeOK, Commits

LEMMA BaseStep ==
    ASSUME Base, [Next]_vars
    PROVE  Base'
<1> USE DEF Base, TypeOK
<1>0. HeadTree \in [Path -> File]
  <2>1. Len(history) \in 0..Len(history)
    BY DEF HistoryType
  <2> QED
    BY <2>1, TreeType DEF HeadTree
<1>1. ASSUME NEW who \in {Session, Other}, NEW tree \in [Path -> File], Work(who, tree)
      PROVE  Base'
  <2>1. used' \in 0..MaxCommits
    BY <1>1, SessionRollbackAssumption DEF Work
  <2> QED
    BY <1>1, <2>1, BaseFrame DEF Work
<1>2. ASSUME NEW who \in {Session, Other}, Change(who) PROVE Base'
  BY <1>1, <1>2 DEF Change
<1>3. CASE Move(Session)
  BY <1>1, <1>3 DEF Move, File
<1>4. ASSUME NEW p \in Path, Edit(p) PROVE Base'
  <2>1. used' \in 0..MaxCommits /\ disk' \in [Path -> File] /\ dirty' \subseteq Path
    BY <1>4, SessionRollbackAssumption DEF Edit
  <2>2. UNCHANGED <<history, pc, began, todo, at, rolled, failed, looked, missed>>
    BY <1>4 DEF Edit
  <2>3. /\ pc' \in {"work", "done"} \union Running /\ missed' \subseteq Path
        /\ at' \in IF pc' \in {"check", "restore", "write"} THEN Path ELSE {Absent}
        /\ todo' \intersect (rolled' \union failed' \union {at'}) = {}
    BY <2>2
  <2> HIDE DEF Base, TypeOK
  <2> QED
    BY <2>1, <2>2, <2>3, NoCommit, BaseFrame DEF Base
<1>5. ASSUME NEW p \in Path, Watch(p) PROVE Base'
  <2>1. [HeadTree EXCEPT ![p] = disk[p]] \in [Path -> File]
    BY <1>0
  <2>2. /\ Commit(Other, [HeadTree EXCEPT ![p] = disk[p]])
        /\ dirty' \subseteq Path
        /\ missed' \subseteq Path
        /\ UNCHANGED <<disk, pc, began, todo, at, rolled, failed, looked, used>>
    BY <1>5 DEF Watch
  <2>3. /\ disk' \in [Path -> File] /\ used' \in 0..MaxCommits
        /\ pc' \in {"work", "done"} \union Running
        /\ at' \in IF pc' \in {"check", "restore", "write"} THEN Path ELSE {Absent}
        /\ todo' \intersect (rolled' \union failed' \union {at'}) = {}
    BY <2>2
  <2> HIDE DEF Base, TypeOK
  <2> QED
    BY <2>1, <2>2, <2>3, BaseFrame
<1>6. CASE Begin
  <2>1. \A n : Shown(n)' = Shown(n)
    BY <1>6 DEF Begin, Shown, Touched, Tree, Empty
  <2>2. \A p : Mine(p)' = {n \in 1..Len(history) : history[n].by = Session /\ p \in Shown(n)}
    BY <1>6, <2>1 DEF Begin, Mine
  <2>3. todo' = {p \in Path : Mine(p)' # {}}
    BY <1>6, <2>2 DEF Begin
  <2>4. at = Absent /\ rolled = {} /\ failed = {}
    BY <1>6 DEF Begin
  <2>5. began' \in 0..Len(history')
    BY <1>6 DEF Begin, HistoryType
  <2>6. /\ pc' = "roll" /\ "roll" \in Running
        /\ UNCHANGED <<history, disk, dirty, at, rolled, failed, looked, missed, used>>
    BY <1>6 DEF Begin, Running
  <2>7. /\ HistoryType' /\ looked' \in [Path -> 0..Len(history')]
        /\ \A n \in DOMAIN history' : /\ history'[n].by \in {Session, Other, Rollback}
                                     /\ history'[n].tree \in [Path -> File]
    BY <2>6 DEF HistoryType
  <2>8. /\ todo' \intersect (rolled' \union failed') = {}
        /\ todo' \union rolled' \union failed' \union ({at'} \ {Absent})
             = {p \in Path : Mine(p)' # {}}
        /\ at' \notin todo'
    BY <2>3, <2>4, <2>6, SessionRollbackAssumption
  <2> QED
    BY <2>4, <2>5, <2>6, <2>7, <2>8
<1>7. ASSUME NEW p \in Path, Refuse(p) PROVE Base'
  <2>1. /\ at = Absent /\ p # Absent
        /\ todo' = todo \ {p} /\ failed' = failed \union {p} /\ pc = "roll"
        /\ UNCHANGED <<history, disk, dirty, pc, began, at, rolled, looked, missed, used>>
    BY <1>7, SessionRollbackAssumption DEF Refuse
  <2>2. /\ todo' \intersect (rolled' \union failed' \union {at'}) = {}
        /\ todo' \union rolled' \union failed' \union ({at'} \ {Absent})
             = todo \union rolled \union failed \union ({at} \ {Absent})
    BY <1>7, <2>1 DEF Refuse
  <2>3. /\ pc' \in {"work", "done"} \union Running /\ missed' \subseteq Path
        /\ at' \in IF pc' \in {"check", "restore", "write"} THEN Path ELSE {Absent}
        /\ disk' \in [Path -> File] /\ dirty' \subseteq Path /\ used' \in 0..MaxCommits
    BY <2>1
  <2> HIDE DEF Base, TypeOK
  <2> QED
    BY <2>1, <2>2, <2>3, NoCommit, BaseFrame DEF Base
<1>12. ASSUME NEW p \in Path, Miss(p) PROVE Base'
  <2>1. /\ dirty' \subseteq Path /\ missed' \subseteq Path
        /\ UNCHANGED <<history, disk, pc, began, todo, at, rolled, failed, looked, used>>
    BY <1>12 DEF Miss
  <2> QED
    BY <2>1, NoCommit, BaseFrame
<1>8. ASSUME NEW p \in Path, Check(p) PROVE Base'
  <2>1. at = Absent /\ p # Absent
    BY <1>8, SessionRollbackAssumption DEF Check
  <2>2. /\ todo' \intersect (rolled' \union failed' \union {at'}) = {}
        /\ todo' \union rolled' \union failed' \union ({at'} \ {Absent})
             = todo \union rolled \union failed \union ({at} \ {Absent})
    BY <1>8, <2>1 DEF Check
  <2>3. /\ at' \in Path /\ pc' \in {"check", "restore"}
        /\ looked' = [looked EXCEPT ![p] = Len(history)]
        /\ UNCHANGED <<history, disk, dirty, began, missed, used>>
    BY <1>8 DEF Check
  <2>4. Commit(Rollback, HeadTree) /\ pc' # "work" /\ pc' \in Running
        /\ at' \in IF pc' \in {"check", "restore", "write"} THEN Path ELSE {Absent}
    BY <2>3, NoCommit DEF Running
  <2> HIDE DEF Base, TypeOK
  <2>5. disk' \in [Path -> File] /\ dirty' \subseteq Path /\ used' \in 0..MaxCommits
        /\ missed' \subseteq Path
    BY <2>3 DEF Base, TypeOK
  <2> QED
    BY <1>0, <2>2, <2>3, <2>4, <2>5, BaseFrame
<1>13. CASE CheckAgain
  <2>1. at \in Path /\ at # Absent /\ at \notin todo
    BY <1>13, SessionRollbackAssumption DEF CheckAgain
  <2>2. /\ todo' \intersect (rolled' \union failed' \union {at'}) = {}
        /\ todo' \union rolled' \union failed' \union ({at'} \ {Absent})
             = todo \union rolled \union failed \union ({at} \ {Absent})
    BY <1>13, <2>1, SessionRollbackAssumption DEF CheckAgain
  <2>3. /\ looked' = looked \/ looked' = [looked EXCEPT ![at] = Len(history)]
        /\ UNCHANGED <<history, disk, dirty, began, missed, used>>
        /\ pc' \in {"restore", "roll"}
        /\ at' \in IF pc' \in {"check", "restore", "write"} THEN Path ELSE {Absent}
    BY <1>13, <2>1 DEF CheckAgain
  <2>4. Commit(Rollback, HeadTree) /\ pc' # "work" /\ pc' \in Running
    BY <2>3, NoCommit DEF Running
  <2> HIDE DEF Base, TypeOK
  <2>5. disk' \in [Path -> File] /\ dirty' \subseteq Path /\ used' \in 0..MaxCommits
        /\ missed' \subseteq Path
    BY <2>3 DEF Base, TypeOK
  <2> QED
    BY <1>0, <2>1, <2>2, <2>3, <2>4, <2>5, BaseFrame
<1>14. CASE Restore
  <2>1. at \in Path /\ Mine(at) # {}
    BY <1>14, SessionRollbackAssumption DEF Restore
  <2>2. [HeadTree EXCEPT ![at] = Before(at)] \in [Path -> File]
    BY <1>0, <2>1, MineFacts
  <2>3. /\ pc' = "write" /\ Commit(Rollback, [HeadTree EXCEPT ![at] = Before(at)])
        /\ UNCHANGED <<disk, dirty, began, todo, at, rolled, failed, looked, missed, used>>
    BY <1>14 DEF Restore
  <2>4. at' \in IF pc' \in {"check", "restore", "write"} THEN Path ELSE {Absent}
    BY <2>1, <2>3
  <2>5. pc' \in Running /\ pc' # "work"
    BY <2>3 DEF Running
  <2>6. todo' \intersect (rolled' \union failed' \union {at'}) = {}
    BY <2>3
  <2>7. disk' \in [Path -> File] /\ dirty' \subseteq Path /\ used' \in 0..MaxCommits
        /\ missed' \subseteq Path
    BY <2>3
  <2> HIDE DEF Base, TypeOK
  <2> QED
    BY <2>2, <2>3, <2>4, <2>5, <2>6, <2>7, BaseFrame
<1>9. CASE WriteFile
  <2>1. at \in Path /\ at # Absent /\ Mine(at) # {}
    BY <1>9, SessionRollbackAssumption DEF WriteFile
  <2>2. disk' \in [Path -> File] /\ UNCHANGED history /\ dirty' \subseteq Path
    BY <1>9, <2>1, MineFacts DEF WriteFile
  <2>3. /\ todo' \intersect (rolled' \union failed' \union {at'}) = {}
        /\ todo' \union rolled' \union failed' \union ({at'} \ {Absent})
             = todo \union rolled \union failed \union ({at} \ {Absent})
    BY <1>9, <2>1, SessionRollbackAssumption DEF WriteFile
  <2>4. /\ at' \in IF pc' \in {"check", "restore", "write"} THEN Path ELSE {Absent}
        /\ pc' \in {"work", "done"} \union Running /\ pc' # "work"
        /\ began' = began /\ used' \in 0..MaxCommits /\ missed' \subseteq Path
        /\ looked' = looked
    BY <1>9 DEF WriteFile, Running
  <2> QED
    BY <2>2, <2>3, <2>4, NoCommit, BaseFrame
<1>10. CASE End
  BY <1>10, NoCommit, BaseFrame DEF End
<1>11. CASE UNCHANGED vars
  BY <1>11, NoCommit, BaseFrame DEF vars
<1> QED
  BY <1>2, <1>3, <1>4, <1>5, <1>6, <1>7, <1>8, <1>9, <1>10, <1>11, <1>12,
     <1>13, <1>14 DEF Next

LEMMA BaseInit == Init => Base
<1> SUFFICES ASSUME Init
             PROVE  Base
  OBVIOUS
<1>1. Mine(Absent) = {} /\ \A p : Mine(p) = {}
  BY DEF Init, Mine
<1>2. 0 \in 0..MaxCommits
  BY SessionRollbackAssumption
<1> QED
  BY <1>1, <1>2 DEF Init, Base, TypeOK, HistoryType, Empty, File

(***************************************************************************)
(* Every variable has the values the code can give it, and each path the   *)
(* session touched is pending, handled or being handled                    *)
(* (rollback_session's two lists).                                         *)
(***************************************************************************)
THEOREM Typing == Spec => []TypeOK
<1>1. Base => TypeOK
  BY DEF Base
<1> QED
  BY <1>1, BaseInit, BaseStep, PTL DEF Spec

-----------------------------------------------------------------------------
(* What steps do to the commits a rollback has listed. *)

\* While a rollback runs, only it and the watcher commit.
LEMMA StepKinds ==
    ASSUME Base, [Next]_vars, pc # "work"
    PROVE  /\ began' = began
           /\ \E who \in {Other, Rollback} :
                 \E tree \in [Path -> File] : Commit(who, tree)
<1>0. HeadTree \in [Path -> File]
  <2>1. Len(history) \in 0..Len(history)
    BY DEF Base, HistoryType
  <2> QED
    BY <2>1, TreeType DEF Base, HeadTree
<1>1. CASE UNCHANGED <<history, began>>
  BY <1>1, NoCommit DEF Base
<1>2. ASSUME NEW p \in Path, Watch(p)
      PROVE  began' = began /\ \E tree \in [Path -> File] : Commit(Other, tree)
  <2>1. [HeadTree EXCEPT ![p] = disk[p]] \in [Path -> File]
    BY <1>0 DEF Base, TypeOK
  <2> QED
    BY <1>2, <2>1 DEF Watch
<1>3. CASE Restore
  <2>1. at \in Path /\ Mine(at) # {}
    BY <1>3, SessionRollbackAssumption DEF Restore, Base, TypeOK
  <2>2. [HeadTree EXCEPT ![at] = Before(at)] \in [Path -> File]
    BY <1>0, <2>1, MineFacts
  <2> QED
    BY <1>3, <2>2 DEF Restore
<1>4. ASSUME NEW p \in Path, Edit(p) \/ Miss(p) \/ Refuse(p) \/ Check(p)
      PROVE  UNCHANGED <<history, began>>
  BY <1>4 DEF Edit, Miss, Refuse, Check
<1>5. CheckAgain \/ WriteFile \/ End \/ UNCHANGED vars => UNCHANGED <<history, began>>
  BY DEF CheckAgain, WriteFile, End, vars
<1>6. ~Begin /\ ~Move(Session) /\ \A who : ~Change(who)
  BY DEF Begin, Move, Change, Work
<1> QED
  BY <1>1, <1>2, <1>3, <1>4, <1>5, <1>6 DEF Next

\* The paths whose mirror a restore has written.
Done == rolled \union (IF pc = "write" THEN {at} ELSE {})

\* A path gets among them only by its restore.
LEMMA DoneGrows ==
    ASSUME Base, [Next]_vars
    PROVE  \A p \in Path : p \in Done' => p \in Done \/ (Restore /\ p = at)
<1> SUFFICES ASSUME NEW p \in Path, p \in Done', p \notin Done, ~(Restore /\ p = at)
             PROVE  FALSE
  OBVIOUS
<1>1. CASE UNCHANGED <<rolled, at, pc>> \/ (rolled' = rolled /\ pc' # "write")
  BY <1>1 DEF Done
<1>2. CASE Restore
  BY <1>2 DEF Restore, Done
<1>3. CASE WriteFile
  BY <1>3 DEF WriteFile, Done
<1>4. ASSUME NEW q \in Path, Edit(q) \/ Watch(q) \/ Miss(q) \/ Refuse(q) \/ Check(q)
      PROVE  UNCHANGED <<rolled, at, pc>> \/ (rolled' = rolled /\ pc' # "write")
  BY <1>4 DEF Edit, Watch, Miss, Refuse, Check
<1>5. Begin \/ CheckAgain \/ End \/ UNCHANGED vars
        => UNCHANGED <<rolled, at, pc>> \/ (rolled' = rolled /\ pc' # "write")
  BY DEF Begin, CheckAgain, End, vars
<1>6. ASSUME NEW who, Change(who) \/ Move(who) PROVE UNCHANGED <<rolled, at, pc>>
  BY <1>6 DEF Change, Move, Work
<1> QED
  BY <1>1, <1>2, <1>3, <1>4, <1>5, <1>6 DEF Next

LEMMA NothingDoneYet ==
    ASSUME Base, pc = "work"
    PROVE  Done = {}
BY DEF Base, TypeOK, Done

-----------------------------------------------------------------------------
(***************************************************************************)
(* What somebody else committed to a path after the session is not rolled  *)
(* back if it was there at the path's last comparison: the last commit on  *)
(* the path was then among the session's, so none of the others was later  *)
(* (rollback_session, write_with_check).                                   *)
(***************************************************************************)

\* What a comparison that went well has seen.
NoneLater(p) == \A n \in 1..looked[p] : ~IsLater(n, p)

Compared == rolled \union (IF pc \in {"check", "restore", "write"} THEN {at} ELSE {})

KeptInv == \A p \in Path : p \in Compared => NoneLater(p)

LEMMA LastHasNoneLater ==
    ASSUME Base, NEW p \in Path, Mine(p) # {}, IsLast(p), NEW n \in 1..Len(history)
    PROVE  ~IsLater(n, p)
<1>0. began \in 0..Len(history) /\ Len(history) \in Nat
  BY DEF Base, TypeOK, HistoryType
<1> SUFFICES ASSUME IsLater(n, p)
             PROVE  FALSE
  OBVIOUS
<1>1. /\ history[n].by = Other /\ p \in Touched(n) /\ BySession(p) \subseteq 1..n
      /\ HeadRev(p) = Max(Mine(p))
  BY DEF IsLater, IsLast
<1>2. Max(Mine(p)) \in BySession(p) /\ history[Max(Mine(p))].by = Session
  BY MineFacts DEF Mine, BySession, Shown
<1>3. Max(Mine(p)) <= n
  BY <1>1, <1>2
<1>4. n <= HeadRev(p)
  <2> DEFINE R == {0} \union {i \in 1..Len(history) : p \in Touched(i)}
  <2>1. R \subseteq 0..Len(history) /\ R # {} /\ n \in R
    BY <1>0, <1>1
  <2>2. \E m \in R : \A x \in R : m >= x
    <3> HIDE DEF R
    <3> QED
      BY <1>0, <2>1, GreatestNatural
  <2>3. HeadRev(p) \in R /\ \A x \in R : HeadRev(p) >= x
    BY <2>2 DEF HeadRev, Max
  <2> QED
    BY <1>0, <2>1, <2>3
<1>5. Max(Mine(p)) = n
  BY <1>0, <1>1, <1>2, <1>3, <1>4 DEF BySession
<1> QED
  BY <1>1, <1>2, <1>5, ActorsDiffer

\* What was not later than the session when it was looked at is not so later on.
LEMMA NoneLaterStays ==
    ASSUME Base, NEW p \in Path, NEW who, Grows(who), began' = began,
           looked'[p] = looked[p], NoneLater(p)
    PROVE  NoneLater(p)'
<1>0. /\ Len(history) \in Nat /\ looked[p] \in 0..Len(history)
      /\ began \in 0..Len(history) /\ HistoryType
  BY DEF Base, TypeOK, HistoryType
<1>1. /\ BySession(p)' = BySession(p)
      /\ \A n \in 1..Len(history) : Touched(n)' = Touched(n)
  BY <1>0, ListedCommitsStay
<1>2. \A n \in 1..looked[p] : n \in 1..Len(history)
  BY <1>0
<1>3. \A n \in 1..Len(history) : history'[n] = history[n]
  BY DEF Grows
<1>4. \A n \in 1..looked[p] : IsLater(n, p)' <=> IsLater(n, p)
  BY <1>1, <1>2, <1>3 DEF IsLater
<1> QED
  BY <1>4 DEF NoneLater

LEMMA KeptStep ==
    ASSUME Base, KeptInv, [Next]_vars
    PROVE  KeptInv'
<1>0. Base'
  BY BaseStep
<1> SUFFICES ASSUME NEW p \in Path, p \in Compared'
             PROVE  NoneLater(p)'
  BY DEF KeptInv
<1>1. pc # "work"
  <2>1. ASSUME pc = "work" PROVE FALSE
    <3>1. rolled = {} /\ UNCHANGED <<rolled>> /\ pc' \in {"work", "roll"}
      <4>1. ASSUME NEW who, Change(who) \/ Move(who)
            PROVE  UNCHANGED <<rolled, pc>>
        BY <4>1 DEF Change, Move, Work
      <4>2. ASSUME NEW q \in Path, Edit(q) \/ Refuse(q) \/ Check(q) PROVE FALSE
        BY <2>1, <4>2 DEF Edit, Running, Refuse, Check
      <4>3. ASSUME NEW q \in Path, Watch(q) \/ Miss(q) PROVE UNCHANGED <<rolled, pc>>
        BY <4>3 DEF Watch, Miss
      <4>4. ~CheckAgain /\ ~Restore /\ ~WriteFile /\ ~End
        BY <2>1 DEF CheckAgain, Restore, WriteFile, End
      <4>5. Begin => rolled' = rolled /\ pc' = "roll"
        BY DEF Begin
      <4> QED
        BY <2>1, <4>1, <4>2, <4>3, <4>4, <4>5 DEF Base, Next, vars
    <3> QED
      BY <3>1 DEF Compared
  <2> QED
    BY <2>1
<1>2. PICK who \in {Other, Rollback}, tree \in [Path -> File] : Commit(who, tree)
  BY <1>1, StepKinds
<1>3. Grows(who) /\ began' = began
  BY <1>1, <1>2, StepKinds, CommitFacts DEF Base
<1>4. CASE p \in Compared /\ looked'[p] = looked[p]
  BY <1>3, <1>4, NoneLaterStays DEF KeptInv
<1>5. CASE IsLast(p) /\ UNCHANGED history /\ looked' = [looked EXCEPT ![p] = Len(history)]
           /\ Mine(p) # {}
  <2>1. looked'[p] = Len(history)
    BY <1>5 DEF Base, TypeOK
  <2>2. \A n : Touched(n)' = Touched(n)
    BY <1>5 DEF Touched, Tree, Empty
  <2>3. BySession(p)' = BySession(p)
    BY <1>3, <1>5, <2>2 DEF BySession
  <2>4. \A n : IsLater(n, p)' <=> IsLater(n, p)
    BY <1>5, <2>2, <2>3 DEF IsLater
  <2>5. \A n \in 1..Len(history) : ~IsLater(n, p)
    BY <1>5, LastHasNoneLater
  <2> QED
    BY <2>1, <2>4, <2>5 DEF NoneLater
<1>6. ASSUME NEW q \in Path, Check(q)
      PROVE  NoneLater(p)'
  <2>1. /\ IsLast(q) /\ UNCHANGED <<history, rolled>> /\ at' = q
        /\ looked' = [looked EXCEPT ![q] = Len(history)] /\ q \in todo
    BY <1>6 DEF Check
  <2>2. Mine(q) # {}
    BY <2>1 DEF Base, TypeOK
  <2>3. p = q \/ (p \in Compared /\ looked'[p] = looked[p])
    BY <2>1 DEF Compared, Base, TypeOK
  <2> QED
    BY <1>4, <1>5, <2>1, <2>2, <2>3
<1>7. CASE CheckAgain
  <2>1. at \in Path /\ Mine(at) # {} /\ pc = "check"
    BY <1>7, SessionRollbackAssumption DEF CheckAgain, Base, TypeOK
  <2>2. \/ /\ IsLast(at) /\ at' = at
           /\ looked' = [looked EXCEPT ![at] = Len(history)]
        \/ at' = Absent /\ looked' = looked /\ pc' = "roll"
    BY <1>7 DEF CheckAgain
  <2>3. UNCHANGED <<history, rolled>>
    BY <1>7 DEF CheckAgain
  <2>4. \/ p = at /\ IsLast(at) /\ looked' = [looked EXCEPT ![at] = Len(history)]
        \/ p \in Compared /\ looked'[p] = looked[p]
    BY <2>1, <2>2, <2>3 DEF Compared, Base, TypeOK
  <2> QED
    BY <1>4, <1>5, <2>1, <2>3, <2>4
<1>8. CASE looked' = looked /\ Compared' \subseteq Compared
  BY <1>4, <1>8
<1>9. Restore \/ WriteFile \/ End \/ UNCHANGED vars => looked' = looked /\ Compared' \subseteq Compared
  BY DEF Restore, WriteFile, End, vars, Compared
<1>10. ASSUME NEW q \in Path, Edit(q) \/ Watch(q) \/ Miss(q) \/ Refuse(q)
       PROVE  looked' = looked /\ Compared' \subseteq Compared
  BY <1>10 DEF Edit, Watch, Miss, Refuse, Compared
<1>11. ~Begin /\ ~Move(Session) /\ \A w : ~Change(w)
  BY <1>1 DEF Begin, Move, Change, Work
<1> QED
  BY <1>6, <1>7, <1>8, <1>9, <1>10, <1>11 DEF Next

\* A path that somebody else committed to after the session's last commit on it
\* is never reported rolled back, if that commit was there when rollback_session
\* or write_with_check last compared the path's head.  It says nothing of what is
\* committed between that comparison and the restore's own commit.
THEOREM LaterCommitsSurvive == Spec => []LaterCommitsKept
<1>1. Init => KeptInv
  BY DEF Init, KeptInv, Compared
<1>2. Base /\ KeptInv => LaterCommitsKept
  <2>1. Base => rolled \subseteq Path
    BY DEF Base, TypeOK
  <2> QED
    BY <2>1 DEF KeptInv, Compared, NoneLater, LaterCommitsKept
<1> QED
  BY <1>1, <1>2, BaseInit, BaseStep, KeptStep, PTL DEF Spec

-----------------------------------------------------------------------------
(***************************************************************************)
(* A path that is handled is as it was before the session, from its        *)
(* restore on, until somebody else commits to it: the watcher's commit of  *)
(* what the rollback itself wrote changes nothing (rollback_session).      *)
(***************************************************************************)

Untouched(p) == \A n \in (began + 1)..Len(history) : p \in Touched(n) => history[n].by = Rollback

UndoneInv == \A p \in Path : p \in Done /\ Untouched(p) => HeadTree[p] = Before(p)

LEMMA UndoneStep ==
    ASSUME Base, UndoneInv, [Next]_vars
    PROVE  UndoneInv'
<1>0. /\ began \in 0..Len(history) /\ Len(history) \in Nat /\ Base'
      /\ HeadTree = Tree(Len(history))
  BY BaseStep DEF Base, TypeOK, HistoryType, HeadTree
<1> SUFFICES ASSUME NEW p \in Path, p \in Done', Untouched(p)'
             PROVE  HeadTree'[p] = Before(p)'
  BY DEF UndoneInv
<1>1. pc # "work"
  <2>1. ASSUME pc = "work" PROVE FALSE
    BY <2>1, NothingDoneYet, DoneGrows DEF Restore
  <2> QED
    BY <2>1
<1>2. PICK who \in {Other, Rollback}, tree \in [Path -> File] : Commit(who, tree)
  BY <1>1, StepKinds
<1>3. Grows(who) /\ began' = began /\ HistoryType /\ HistoryType' /\ HeadTree' = tree
  BY <1>1, <1>2, StepKinds, CommitFacts DEF Base
<1>4. /\ \A n \in 0..Len(history) : Tree(n)' = Tree(n)
      /\ \A n \in 1..Len(history) : Touched(n)' = Touched(n)
      /\ Mine(p)' = Mine(p) /\ (Mine(p) # {} => Before(p)' = Before(p))
  BY <1>0, <1>3, ListedCommitsStay
<1>5. Mine(p) # {}
  BY <1>0, <1>4, SessionRollbackAssumption DEF Base, TypeOK, Done
<1>6. CASE Restore /\ p = at
  <2>1. Commit(Rollback, [HeadTree EXCEPT ![p] = Before(p)])
    BY <1>6 DEF Restore
  <2>2. HeadTree \in [Path -> File] /\ Before(p) \in File
    BY <1>0, <1>3, <1>5, TreeType, MineFacts
  <2>3. HeadTree' = [HeadTree EXCEPT ![p] = Before(p)]
    BY <1>3, <2>1, <2>2, CommitFacts
  <2> QED
    BY <1>4, <1>5, <2>2, <2>3
<1>7. CASE ~(Restore /\ p = at)
  <2>1. p \in Done
    BY <1>7, DoneGrows
  <2>2. Untouched(p)
    BY <1>0, <1>3, <1>4 DEF Untouched, Grows
  <2>3. HeadTree[p] = Before(p)
    BY <2>1, <2>2 DEF UndoneInv
  <2>4. CASE HeadTree'[p] = HeadTree[p]
    BY <1>4, <1>5, <2>3, <2>4
  <2>5. CASE HeadTree'[p] # HeadTree[p]
    <3>1. history' # history
      BY <1>0, <2>5 DEF HeadTree, Tree, Empty
    <3>2. Len(history') = Len(history) + 1 /\ history'[Len(history')].by = who
      BY <1>3, <3>1 DEF Grows
    <3>3. PICK k \in Nat : k = Len(history) + 1
      BY <1>0
    <3>4. /\ Tree(k)' = HeadTree' /\ Tree(k - 1)' = HeadTree
          /\ k \in (began + 1)..Len(history')
      BY <1>0, <1>4, <3>2, <3>3 DEF HeadTree, Tree
    <3>5. p \in Touched(k)'
      BY <2>5, <3>4 DEF Touched
    <3>6. who = Rollback
      BY <1>3, <3>2, <3>5, <3>3, <3>4 DEF Untouched
    <3>7. Restore
      <4>1. ASSUME NEW q \in Path, Watch(q) PROVE FALSE
        <5>1. [HeadTree EXCEPT ![q] = disk[q]] \in [Path -> File]
          BY <1>0, <1>3, TreeType DEF Base, TypeOK
        <5>2. Grows(Other)
          BY <1>3, <4>1, <5>1, CommitFacts DEF Watch
        <5> QED
          BY <3>1, <3>2, <3>6, <5>2, ActorsDiffer DEF Grows
      <4>2. ASSUME NEW q \in Path, Edit(q) \/ Miss(q) \/ Refuse(q) \/ Check(q) PROVE FALSE
        BY <3>1, <4>2 DEF Edit, Miss, Refuse, Check
      <4> QED
        BY <1>1, <3>1, <4>1, <4>2
           DEF Next, Change, Move, Work, Begin, CheckAgain, WriteFile, End, vars
    <3>8. HeadTree' = [HeadTree EXCEPT ![at] = Before(at)] /\ at # p
      <4>0. at \in Path /\ Mine(at) # {}
        BY <1>0, <3>7, SessionRollbackAssumption DEF Restore, Base, TypeOK
      <4>1. HeadTree \in [Path -> File] /\ Before(at) \in File
        BY <1>0, <1>3, <4>0, TreeType, MineFacts
      <4>2. [HeadTree EXCEPT ![at] = Before(at)] \in [Path -> File]
        BY <4>1
      <4> QED
        BY <1>3, <1>7, <3>7, <4>2, CommitFacts DEF Restore
    <3> QED
      BY <2>5, <3>8
  <2> QED
    BY <2>4, <2>5
<1> QED
  BY <1>6, <1>7

\* A path that is reported rolled back is as it was before the session's first
\* commit on it, until somebody else commits to it (rollback_session).
THEOREM RolledIsUndone == Spec => []RolledMeansUndone
<1>1. Init => UndoneInv
  BY DEF Init, UndoneInv, Done
<1>2. Base /\ UndoneInv => RolledMeansUndone
  <2>1. Base => rolled \subseteq Path
    BY DEF Base, TypeOK
  <2> QED
    BY <2>1 DEF UndoneInv, Untouched, RolledMeansUndone, Before, Done
<1> QED
  BY <1>1, <1>2, BaseInit, BaseStep, UndoneStep, PTL DEF Spec

-----------------------------------------------------------------------------
(***************************************************************************)
(* The mirror and the disk agree on every path whose last event has been   *)
(* committed, but the one whose restore has committed and not yet written  *)
(* the file (modified_handle, rollback_session).                           *)
(***************************************************************************)
THEOREM MirrorIsDisk == Spec => []MirrorMatchesDisk
<1>1. Init => MirrorMatchesDisk
  BY DEF Init, MirrorMatchesDisk, HeadTree, Tree
<1>2. Base /\ MirrorMatchesDisk /\ [Next]_vars => MirrorMatchesDisk'
  <2> SUFFICES ASSUME Base, MirrorMatchesDisk, [Next]_vars
               PROVE  MirrorMatchesDisk'
    OBVIOUS
  <2>0. HeadTree \in [Path -> File] /\ HistoryType
    <3>1. Len(history) \in 0..Len(history)
      BY DEF Base, HistoryType
    <3> QED
      BY <3>1, TreeType DEF Base, HeadTree
  <2> USE DEF Base, TypeOK
  <2>1. ASSUME NEW who \in {Session, Other}, NEW tree \in [Path -> File], Work(who, tree)
        PROVE  MirrorMatchesDisk'
    BY <2>0, <2>1, CommitFacts DEF Work, MirrorMatchesDisk
  <2>2. ASSUME NEW who \in {Session, Other}, Change(who) PROVE MirrorMatchesDisk'
    BY <2>1, <2>2 DEF Change
  <2>3. CASE Move(Session)
    BY <2>1, <2>3 DEF Move, File
  <2>4. ASSUME NEW p \in Path, Watch(p) PROVE MirrorMatchesDisk'
    <3>1. [HeadTree EXCEPT ![p] = disk[p]] \in [Path -> File]
      BY <2>0
    <3>2. HeadTree' = [HeadTree EXCEPT ![p] = disk[p]]
      BY <2>0, <2>4, <3>1, CommitFacts DEF Watch
    <3> QED
      BY <2>0, <2>4, <3>2 DEF Watch, MirrorMatchesDisk
  <2>5. CASE Restore
    <3>0. at \in Path /\ Mine(at) # {}
      BY <2>5, SessionRollbackAssumption DEF Restore
    <3>1. [HeadTree EXCEPT ![at] = Before(at)] \in [Path -> File]
      BY <2>0, <3>0, MineFacts
    <3>2. HeadTree' = [HeadTree EXCEPT ![at] = Before(at)]
      BY <2>0, <2>5, <3>1, CommitFacts DEF Restore
    <3>3. pc' = "write" /\ UNCHANGED <<disk, dirty, missed, at>> /\ pc # "write"
      BY <2>5 DEF Restore
    <3> QED
      BY <2>0, <3>2, <3>3 DEF MirrorMatchesDisk
  <2>6. CASE UNCHANGED history
    <3>1. HeadTree' = HeadTree
      BY <2>6 DEF HeadTree, Tree, Empty
    <3>2. ASSUME NEW p \in Path, Edit(p) \/ Miss(p) PROVE MirrorMatchesDisk'
      BY <3>1, <3>2 DEF Edit, Miss, MirrorMatchesDisk
    <3>3. CASE WriteFile
      BY <3>1, <3>3 DEF WriteFile, MirrorMatchesDisk
    <3>4. CASE UNCHANGED <<disk, dirty, missed>> /\ pc # "write"
      BY <3>1, <3>4 DEF MirrorMatchesDisk
    <3>5. CASE UNCHANGED vars
      BY <3>1, <3>5 DEF vars, MirrorMatchesDisk
    <3>6. ASSUME NEW p \in Path, Refuse(p) \/ Check(p)
          PROVE  UNCHANGED <<disk, dirty, missed>> /\ pc # "write"
      BY <3>6 DEF Refuse, Check
    <3>7. Begin \/ CheckAgain \/ End => UNCHANGED <<disk, dirty, missed>> /\ pc # "write"
      BY DEF Begin, CheckAgain, End
    <3> QED
      BY <2>2, <2>3, <2>4, <2>5, <3>2, <3>3, <3>4, <3>5, <3>6, <3>7 DEF Next
  <2>7. ASSUME NEW p \in Path, Edit(p) \/ Miss(p) \/ Refuse(p) \/ Check(p)
        PROVE  UNCHANGED history
    BY <2>7 DEF Edit, Miss, Refuse, Check
  <2>8. Begin \/ CheckAgain \/ WriteFile \/ End \/ UNCHANGED vars => UNCHANGED history
    BY DEF Begin, CheckAgain, WriteFile, End, vars
  <2> QED
    BY <2>2, <2>3, <2>4, <2>5, <2>6, <2>7, <2>8 DEF Next
<1> QED
  BY <1>1, <1>2, BaseInit, BaseStep, PTL DEF Spec

=============================================================================

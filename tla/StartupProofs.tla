----------------------------- MODULE StartupProofs -----------------------------
(***************************************************************************)
(* Proofs about Startup, for any sources, files, directories and any       *)
(* number of boots, wherever they are killed: its types, that what is up   *)
(* is applied, even if config.yaml was rewritten meanwhile, and what may   *)
(* be left in a mirror of what was dropped.                                *)
(***************************************************************************)
EXTENDS Startup, SharedLemmas

\* Paths have names from N.
Setting(N) == Source \union File \union Dir \subseteq Seq(N)

-----------------------------------------------------------------------------
(* Types. *)

\* The targets of a configuration are directories that exist.
LEMMA TargetsExist ==
    ASSUME NEW N, Setting(N), NEW S, S \subseteq Source, NEW D, D \subseteq Dir, Root \in D
    PROVE  Derive(S, D) \subseteq D
<1>1. D \subseteq Seq(N) /\ S \subseteq Seq(N)
  BY DEF Setting
<1>2. \A s \in S : NearestDir(s, D) \in D
  BY <1>1, NearestDirFacts
<1> QED
  BY <1>2 DEF Derive, Dirs

\* Once the rows have their status, a boot is settled.
Settled == pc \in {"reconcile", "scan", "mirror", "up"}

\* What is left to do at each point of a boot.  The rows that are active belong
\* to files that are where the row says and in scope, because nobody touches the
\* disk before the daemon is down again.
BootInv ==
    /\ pc \notin {"scan", "mirror"} => scan = {}
    /\ pc = "mirror" => at[item] \in scan
    /\ pc \in {"scan", "mirror", "up"} => dropped = {}
    /\ pc \in {"down", "up"} => todo = {}
    /\ pc = "reconcile" /\ dropped # {} => todo = sources
    /\ scan \subseteq FilesOf(sources)
    /\ Settled => \A i \in active : loc[i] = at[i] /\ at[i] \in FilesOf(sources)

Base == TypeOK /\ BootInv

LEMMA InitBase == ASSUME NEW N, Setting(N), Init PROVE Base
<1>1. active = {} /\ item = NoFile /\ scan = {} /\ todo = {} /\ pc = "down"
  BY DEF Init
<1>2. TypeOK
  BY StartupAssumption DEF Init, TypeOK
<1> QED
  BY <1>1, <1>2 DEF Base, BootInv, Settled

\* Files in scope are files.
LEMMA FilesInScope ==
    ASSUME TypeOK, NEW S
    PROVE  FilesOf(S) \subseteq File /\ \A i \in Ino : at[i] \in FilesOf(S) => at[i] # NoFile
BY DEF FilesOf, OnDisk, TypeOK

LEMMA OthersKeepBase == ASSUME NEW N, Setting(N), Base, Others PROVE Base'
<1> USE DEF Base
<1>1. CASE Rewrite
  BY <1>1 DEF Rewrite, TypeOK, BootInv, Settled, FilesOf, OnDisk, bounds, disk, db, mirror, memory
<1>2. ASSUME Change, current' \subseteq current,
             /\ Root \in dirs' /\ dirs' \subseteq Dir
             /\ at' \in [Ino -> File \union {NoFile}]
             /\ \A i, j \in Ino : at'[i] = at'[j] => i = j \/ at'[i] = NoFile
             /\ retargeted' \subseteq File
      PROVE  Base'
  <2>1. scan = {} /\ pc = "down" /\ item = NoFile
    BY <1>2 DEF Change, BootInv, TypeOK
  <2>2. TypeOK'
    BY <1>2, <2>1 DEF Change, TypeOK, db, memory
  <2> QED
    BY <1>2, <2>1, <2>2 DEF Change, BootInv, Settled, memory
<1>3. ASSUME NEW i \in Ino, NEW p \in File, Put(i, p) PROVE Base'
  BY <1>2, <1>3 DEF Put, Stale, TypeOK
<1>4. ASSUME NEW i \in Ino, Delete(i) PROVE Base'
  BY <1>2, <1>4 DEF Delete, Stale, TypeOK
<1>5. ASSUME NEW i \in Ino, EditFile(i) PROVE Base'
  BY <1>2, <1>5 DEF EditFile, Stale, TypeOK, disk
<1>6. ASSUME NEW d \in Vanish, RemoveDir(d) PROVE Base'
  <2>1. ~Under(Root, d)
    <3>1. d # Root /\ d \in Seq(N)
      BY <1>6, StartupAssumption DEF Setting
    <3>2. Len(d) # 0
      BY <3>1 DEF Root
    <3> QED
      BY <3>1, <3>2 DEF Under, Root
  <2> QED
    BY <1>2, <1>6, <2>1 DEF RemoveDir, Stale, TypeOK
<1> QED
  BY <1>1, <1>3, <1>4, <1>5, <1>6 DEF Others

\* A step that leaves disk, rows and mirrors alone keeps what TypeOK says of them.
LEMMA QuitKeepsBase == ASSUME Base, Quit, cut' \in BOOLEAN PROVE Base'
BY DEF Quit, Base, TypeOK, BootInv, Settled, bounds, disk, db, mirror, FilesOf, OnDisk

LEMMA SyncKeepsBase == ASSUME Base, SyncStatus PROVE Base'
<1> DEFINE found == {i \in Ino : loc[i] # NoFile /\ at[i] \in FilesOf(sources)}
<1>1. /\ active' = found
      /\ loc' = [i \in Ino |-> IF i \in found THEN at[i] ELSE loc[i]]
      /\ dropped' = prior \ {at[i] : i \in found}
      /\ todo' = sources
      /\ pc = "sync" /\ pc' = "reconcile"
      /\ retargeted' = retargeted \union {at[i] : i \in {j \in found : Retargets(at[j])}}
      /\ UNCHANGED <<disk, config, snapshot, mirror, sources, old, prior, draft, scan, targets,
                     item, cut>>
  BY DEF SyncStatus
<1>2. \A i \in found : at[i] \in File \ {NoFile} /\ at[i] \in FilesOf(sources)
  BY StartupAssumption, FilesInScope DEF Base
<1>3. found \subseteq Ino
  OBVIOUS
<1> HIDE DEF found
<1>4. /\ loc' \in [Ino -> File \union {NoFile}]
      /\ active' \subseteq {i \in Ino : loc'[i] # NoFile}
      /\ \A i \in active' : loc'[i] = at[i]
  BY <1>1, <1>2, <1>3 DEF Base, TypeOK
<1>5. \A i, j \in active' : loc'[i] = loc'[j] => i = j
  BY <1>1, <1>2, <1>3, <1>4 DEF Base, TypeOK
<1>6. TypeOK'
  <2>1. retargeted' \subseteq File
    BY <1>1, <1>2 DEF Base, TypeOK
  <2> QED
    BY <1>1, <1>4, <1>5, <2>1 DEF Base, TypeOK, disk, mirror
<1>7. FilesOf(sources)' = FilesOf(sources) /\ scan' = {} /\ at' = at
  BY <1>1 DEF Base, BootInv, FilesOf, OnDisk, disk
<1>8. BootInv'
  BY <1>1, <1>2, <1>4, <1>7 DEF BootInv, Settled
<1> QED
  BY <1>6, <1>8 DEF Base

LEMMA BackfillKeepsBase ==
    ASSUME NEW N, Setting(N), Base, (\E i \in Ino : BackfillRow(i)) \/ BackfillMirror
    PROVE  Base'
<1>1. FilesOf(sources) \subseteq File
  BY FilesInScope DEF Base
<1>2. ASSUME NEW i \in Ino, BackfillRow(i) PROVE Base'
  <2>1. at[i] \in scan /\ at[i] \in File /\ at[i] # NoFile /\ at[i] \in FilesOf(sources)
    BY <1>1, <1>2, StartupAssumption DEF BackfillRow, Base, BootInv
  <2>2. /\ loc' = [loc EXCEPT ![i] = at[i]] /\ active' = active \union {i} /\ item' = i
        /\ pc = "scan" /\ pc' = "mirror"
        /\ UNCHANGED <<disk, config, snapshot, mirror, sources, old, prior, draft, dropped, todo,
                       scan, targets, bounds>>
    BY <1>2 DEF BackfillRow
  <2>3. /\ loc' \in [Ino -> File \union {NoFile}]
        /\ active' \subseteq {j \in Ino : loc'[j] # NoFile}
        /\ \A j \in active' : loc'[j] = at[j] /\ at[j] \in FilesOf(sources)
    BY <2>1, <2>2 DEF Base, TypeOK, BootInv, Settled
  <2>4. \A j, k \in active' : loc'[j] = loc'[k] => j = k
    BY <2>3 DEF Base, TypeOK
  <2>5. TypeOK'
    BY <2>2, <2>3, <2>4, StartupAssumption DEF Base, TypeOK, bounds, disk, mirror
  <2>6. FilesOf(sources)' = FilesOf(sources) /\ at' = at
    BY <2>2 DEF FilesOf, OnDisk, disk
  <2>7. BootInv'
    BY <2>1, <2>2, <2>3, <2>6 DEF Base, BootInv, Settled
  <2> QED
    BY <2>5, <2>7 DEF Base
<1>3. CASE BackfillMirror
  <2>1. PICK t \in Resolve(at[item], targets) :
           /\ head' = head \union {<<t, at[item]>>}
           /\ current' = current \union {<<t, at[item]>>}
    BY <1>3 DEF BackfillMirror
  <2>2. <<t, at[item]>> \in Dir \X File
    BY <1>1, <1>3, <2>1 DEF BackfillMirror, Resolve, Base, TypeOK, BootInv
  <2>3. /\ scan' = scan \ {at[item]} /\ item' = NoFile /\ pc = "mirror" /\ pc' = "scan"
        /\ UNCHANGED <<disk, config, snapshot, db, sources, old, prior, draft, dropped, todo,
                       targets, bounds>>
    BY <1>3 DEF BackfillMirror
  <2>4. TypeOK'
    BY <2>1, <2>2, <2>3 DEF Base, TypeOK, bounds, disk, db
  <2>5. BootInv'
    BY <2>3 DEF Base, BootInv, Settled, FilesOf, OnDisk, bounds, disk, db
  <2> QED
    BY <2>4, <2>5 DEF Base
<1> QED
  BY <1>2, <1>3

LEMMA BootKeepsBase == ASSUME NEW N, Setting(N), Base, Boot PROVE Base'
<1> USE DEF Base
<1>1. CASE Construct
  <2>1. TypeOK'
    BY <1>1 DEF Construct, TypeOK, BootInv, bounds, disk, db, mirror
  <2>2. BootInv'
    BY <1>1 DEF Construct, BootInv, Settled
  <2> QED
    BY <2>1, <2>2
<1>2. CASE Remember
  <2>1. old' \subseteq Dir
    BY <1>2, TargetsExist DEF Remember, Baseline, TypeOK
  <2>2. Locations(active) \subseteq File
    BY DEF Locations, TypeOK
  <2>3. TypeOK'
    BY <1>2, <2>1, <2>2 DEF Remember, TypeOK, bounds, disk, db, mirror
  <2>4. BootInv'
    BY <1>2 DEF Remember, BootInv, Settled, FilesOf, OnDisk, disk, db
  <2> QED
    BY <2>3, <2>4
<1>3. CASE ClearSnapshot \/ StoreSnapshot
  BY <1>3 DEF ClearSnapshot, StoreSnapshot, TypeOK, BootInv, Settled, FilesOf, OnDisk, bounds, disk,
              db, mirror
<1>4. CASE SyncStatus
  BY <1>4, SyncKeepsBase
<1>5. ASSUME NEW p \in dropped, ReconcileOne(p) PROVE Base'
  BY <1>5 DEF ReconcileOne, TypeOK, BootInv, Settled, FilesOf, OnDisk, bounds, disk, db
<1>6. ASSUME NEW s \in todo, Scan(s) PROVE Base'
  <2>1. s \in sources /\ sources \subseteq Source
    BY DEF TypeOK
  <2>2. FilesOf({s}) \subseteq FilesOf(sources) /\ FilesOf({s}) \subseteq File
    BY <2>1, FilesInScope DEF FilesOf, InScope
  <2>3. Derive(config, dirs) \subseteq Dir
    BY TargetsExist DEF TypeOK
  <2>4. TypeOK'
    BY <1>6, <2>2, <2>3 DEF Scan, TypeOK, bounds, disk, db, mirror
  <2>5. FilesOf(sources)' = FilesOf(sources)
    BY <1>6 DEF Scan, FilesOf, OnDisk, disk
  <2>6. BootInv'
    BY <1>6, <2>2, <2>5 DEF Scan, BootInv, Settled, disk, db
  <2> QED
    BY <2>4, <2>6
<1>7. CASE (\E i \in Ino : BackfillRow(i)) \/ BackfillMirror
  BY <1>7, BackfillKeepsBase
<1>8. CASE ScanDone \/ Finish
  BY <1>8 DEF ScanDone, Finish, TypeOK, BootInv, Settled, FilesOf, OnDisk, bounds, disk, db,
              mirror, memory
<1>9. CASE Stop \/ Crash \/ Abort
  <2>1. cut' \in BOOLEAN
    BY <1>9 DEF Stop, Crash, Abort, TypeOK
  <2> QED
    BY <1>9, <2>1, QuitKeepsBase DEF Stop, Crash, Abort
<1> QED
  BY <1>1, <1>2, <1>3, <1>4, <1>5, <1>6, <1>7, <1>8, <1>9 DEF Boot

LEMMA BaseHolds ==
    ASSUME NEW N, Setting(N)
    PROVE  Spec => []Base
<1>1. Init => Base
  BY InitBase
<1>2. Base /\ [Next]_vars => Base'
  <2>1. ASSUME Base, UNCHANGED vars PROVE Base'
    BY <2>1 DEF vars, disk, db, mirror, memory, bounds, Base, TypeOK, BootInv, Settled, FilesOf,
                OnDisk
  <2> QED
    BY <2>1, OthersKeepBase, BootKeepsBase DEF Next
<1> QED
  BY <1>1, <1>2, PTL DEF Spec

(***************************************************************************)
(* Every variable has the values the code can give it, no two active rows  *)
(* share a location, and a row precedes its mirror (sync_source_status,    *)
(* _append_context), whatever is granted, changed or killed meanwhile.     *)
(***************************************************************************)
THEOREM Typing == ASSUME NEW N, Setting(N) PROVE Spec => []TypeOK
<1>1. Base => TypeOK
  BY DEF Base
<1> QED
  BY <1>1, BaseHolds, PTL

-----------------------------------------------------------------------------
(* What is up is applied. *)

\* A file that this boot is done with: it has a row and a commit of its content
\* and, if config.yaml was left alone, the commit is where its target says.
Versioned(f) ==
    /\ f \in Locations(active)
    /\ \E t \in Dir :
          /\ <<t, f>> \in current
          /\ boots \notin raced => t \in Resolve(f, Derive(sources, dirs))

\* Every file in scope is done, in the hands of the boot or still to be scanned.
AppliedInv ==
    /\ pc # "down" /\ boots \notin raced => config = sources
    /\ pc \in {"scan", "mirror"} /\ boots \notin raced => targets = Derive(sources, dirs)
    /\ Settled => \A f \in FilesOf(sources) : Versioned(f) \/ InScope(f, todo) \/ f \in scan

\* What is done stays done as long as no row is given up and no commit replaced.
LEMMA StaysVersioned ==
    ASSUME UNCHANGED <<disk, sources, boots>>, raced \subseteq raced',
           Locations(active) \subseteq Locations(active)', current \subseteq current'
    PROVE  /\ FilesOf(sources)' = FilesOf(sources)
           /\ \A f : Versioned(f) => Versioned(f)'
BY DEF Versioned, FilesOf, OnDisk, disk

\* A row that is written for a file in scope takes nobody's location away.
LEMMA BackfillKeepsRows ==
    ASSUME Base, NEW i \in Ino, BackfillRow(i)
    PROVE  Locations(active) \subseteq Locations(active)'
<1>1. loc' = [loc EXCEPT ![i] = at[i]] /\ active' = active \union {i} /\ Settled
  BY DEF BackfillRow, Settled
<1>2. \A j \in active : loc'[j] = loc[j]
  BY <1>1 DEF Base, BootInv, TypeOK
<1> QED
  BY <1>1, <1>2 DEF Locations

LEMMA AppliedStep ==
    ASSUME Base, Base', AppliedInv, [Next]_vars
    PROVE  AppliedInv'
<1>1. ASSUME ~Settled'
      PROVE  AppliedInv'
  <2>1. CASE pc' = "down"
    BY <2>1 DEF AppliedInv, Settled
  <2>2. CASE Construct
    BY <2>2 DEF Construct, AppliedInv, Settled
  <2>3. CASE Remember \/ ClearSnapshot \/ StoreSnapshot
    BY <2>3 DEF Remember, ClearSnapshot, StoreSnapshot, AppliedInv, Settled, bounds
  <2>4. CASE Rewrite /\ pc # "down"
    BY <1>1, <2>4 DEF Rewrite, AppliedInv, Settled, memory
  <2>5. CASE UNCHANGED vars
    BY <1>1, <2>5 DEF vars, memory, bounds, AppliedInv, Settled
  <2> QED
    BY <1>1, <2>1, <2>2, <2>3, <2>4, <2>5
       DEF Next, Boot, Others, Rewrite, Put, Delete, EditFile, RemoveDir, Change, SyncStatus,
           ReconcileOne, Scan, BackfillRow, BackfillMirror, ScanDone, Finish, Stop, Crash, Abort,
           Quit, Settled, Base, TypeOK
<1>2. CASE SyncStatus
  <2>1. \A f \in FilesOf(sources) : InScope(f, sources)
    BY DEF FilesOf
  <2>2. FilesOf(sources)' = FilesOf(sources)
    BY <1>2 DEF SyncStatus, FilesOf, OnDisk, disk
  <2> QED
    BY <1>2, <2>1, <2>2 DEF SyncStatus, AppliedInv, bounds
<1>3. ASSUME NEW p \in dropped, ReconcileOne(p) PROVE AppliedInv'
  <2>1. todo' = sources /\ pc' = "reconcile"
    BY <1>3 DEF ReconcileOne, Base, BootInv
  <2>2. \A f \in FilesOf(sources) : InScope(f, sources)
    BY DEF FilesOf
  <2>3. FilesOf(sources)' = FilesOf(sources)
    BY <1>3 DEF ReconcileOne, FilesOf, OnDisk, disk
  <2> QED
    BY <1>3, <2>1, <2>2, <2>3 DEF ReconcileOne, AppliedInv, bounds
<1>4. ASSUME NEW s \in todo, Scan(s) PROVE AppliedInv'
  <2>1. /\ FilesOf(sources)' = FilesOf(sources)
        /\ \A f : Versioned(f) => Versioned(f)'
    BY <1>4, StaysVersioned DEF Scan, bounds, mirror, db, Locations
  <2>2. \A f \in FilesOf(sources) : InScope(f, todo) => InScope(f, todo \ {s}) \/ f \in FilesOf({s})
    BY DEF InScope, FilesOf
  <2>3. Settled /\ scan = {} /\ scan' = FilesOf({s}) /\ todo' = todo \ {s}
    BY <1>4 DEF Scan, Settled, Base, BootInv
  <2>4. Derive(sources, dirs)' = Derive(sources, dirs)
    BY <1>4 DEF Scan, disk
  <2> QED
    BY <1>4, <2>1, <2>2, <2>3, <2>4 DEF Scan, AppliedInv, bounds
<1>5. ASSUME NEW i \in Ino, BackfillRow(i) PROVE AppliedInv'
  <2>1. /\ FilesOf(sources)' = FilesOf(sources)
        /\ \A f : Versioned(f) => Versioned(f)'
    BY <1>5, BackfillKeepsRows, StaysVersioned DEF BackfillRow, bounds, mirror
  <2>2. Derive(sources, dirs)' = Derive(sources, dirs)
    BY <1>5 DEF BackfillRow, disk
  <2> QED
    BY <1>5, <2>1, <2>2 DEF BackfillRow, AppliedInv, Settled, bounds
<1>6. CASE BackfillMirror
  <2>0. PICK g : g = at[item]
    OBVIOUS
  <2>1. PICK t \in Resolve(g, targets) :
           /\ head' = head \union {<<t, g>>}
           /\ current' = current \union {<<t, g>>}
    BY <1>6, <2>0 DEF BackfillMirror
  <2>2. /\ scan' = scan \ {g} /\ pc = "mirror" /\ pc' = "scan"
        /\ UNCHANGED <<disk, config, snapshot, db, sources, todo, targets, bounds>>
    BY <1>6, <2>0 DEF BackfillMirror
  <2>3. /\ FilesOf(sources)' = FilesOf(sources)
        /\ \A f : Versioned(f) => Versioned(f)'
    BY <2>1, <2>2, StaysVersioned DEF bounds, db, Locations
  <2>4. g \in Locations(active) /\ t \in Dir
    BY <2>0, <2>1, <2>2 DEF Locations, Base, BootInv, Settled, TypeOK, Resolve
  <2>5. Versioned(g)'
    <3>1. boots \notin raced => t \in Resolve(g, Derive(sources, dirs))
      BY <2>1, <2>2 DEF AppliedInv
    <3> QED
      BY <2>1, <2>2, <2>4, <3>1 DEF Versioned, Locations, disk, db, bounds
  <2>6. at' = at /\ Derive(sources, dirs)' = Derive(sources, dirs)
    BY <2>2 DEF disk
  <2> QED
    BY <2>2, <2>3, <2>5, <2>6 DEF AppliedInv, Settled, bounds
<1>7. CASE ScanDone \/ Finish
  <2>1. /\ FilesOf(sources)' = FilesOf(sources)
        /\ \A f : Versioned(f) => Versioned(f)'
    BY <1>7, StaysVersioned DEF ScanDone, Finish, bounds, mirror, db, Locations, memory
  <2> QED
    BY <1>7, <2>1 DEF ScanDone, Finish, AppliedInv, Settled, bounds, memory
<1>8. CASE Rewrite /\ pc # "down"
  <2>1. /\ FilesOf(sources)' = FilesOf(sources)
        /\ \A f : Versioned(f) => Versioned(f)'
    BY <1>8, StaysVersioned DEF Rewrite, bounds, mirror, db, Locations, memory
  <2> QED
    BY <1>8, <2>1 DEF Rewrite, AppliedInv, Settled, memory
<1>9. CASE UNCHANGED vars
  <2>1. /\ FilesOf(sources)' = FilesOf(sources)
        /\ \A f : Versioned(f) => Versioned(f)'
    BY <1>9, StaysVersioned DEF vars, bounds, mirror, db, Locations, memory
  <2> QED
    BY <1>9, <2>1 DEF vars, AppliedInv, Settled, disk, bounds, memory
<1>10. \/ ~Settled' \/ SyncStatus \/ (\E p \in dropped : ReconcileOne(p))
       \/ (\E s \in todo : Scan(s)) \/ (\E i \in Ino : BackfillRow(i)) \/ BackfillMirror
       \/ ScanDone \/ Finish \/ (Rewrite /\ pc # "down") \/ UNCHANGED vars
  BY DEF Next, Boot, Others, Rewrite, Put, Delete, EditFile, RemoveDir, Change, Construct,
         Remember, ClearSnapshot, StoreSnapshot, Stop, Crash, Abort, Quit, Settled
<1> QED
  BY <1>1, <1>2, <1>3, <1>4, <1>5, <1>6, <1>7, <1>8, <1>9, <1>10

LEMMA AppliedHolds == ASSUME NEW N, Setting(N) PROVE Spec => [](Base /\ AppliedInv)
<1>1. Init => AppliedInv
  BY DEF Init, AppliedInv, Settled
<1>2. Base /\ Base' /\ AppliedInv /\ [Next]_vars => AppliedInv'
  BY AppliedStep
<1> QED
  BY <1>1, <1>2, BaseHolds, PTL DEF Spec

\* When a boot is over nothing is left to be scanned.
LEMMA UpIsDone ==
    ASSUME Base, AppliedInv, pc = "up"
    PROVE  /\ Locations(active) = FilesOf(sources)
           /\ \A f \in FilesOf(sources) : Versioned(f)
<1>1. todo = {} /\ scan = {} /\ Settled
  BY DEF Base, BootInv, Settled
<1>2. \A f \in FilesOf(sources) : Versioned(f)
  BY <1>1 DEF AppliedInv, InScope
<1>3. Locations(active) \subseteq FilesOf(sources)
  BY <1>1 DEF Locations, Base, BootInv
<1> QED
  BY <1>2, <1>3 DEF Versioned

(***************************************************************************)
(* A daemon that is up has brought every file in scope into the rows and,  *)
(* with the content it has on disk, into the mirror its targets name,      *)
(* whatever changed while it was down, over any number of boots and        *)
(* wherever those were killed (Initializer.init, LocalAdapter).            *)
(***************************************************************************)
THEOREM UpIsApplied == ASSUME NEW N, Setting(N) PROVE Spec => []UpMeansApplied
<1>1. Base /\ AppliedInv => UpMeansApplied
  BY UpIsDone DEF UpMeansApplied, Versioned, Resolve
<1> QED
  BY <1>1, AppliedHolds, PTL

(***************************************************************************)
(* Even when config.yaml is rewritten during the boot, the boot ends with  *)
(* every file of the sources it began with versioned, or it does not end   *)
(* (Initializer.__init__ reads the sources once).                          *)
(***************************************************************************)
THEOREM UpIsVersioned == ASSUME NEW N, Setting(N) PROVE Spec => []UpMeansVersioned
<1>1. Base /\ AppliedInv => UpMeansVersioned
  BY UpIsDone DEF UpMeansVersioned, Versioned
<1> QED
  BY <1>1, AppliedHolds, PTL

-----------------------------------------------------------------------------
(* What is dropped is reconciled. *)

\* No boot was overtaken, or killed with the baseline half replaced.
Quiet == raced = {} /\ ~cut

\* A path that is tracked where the baseline has it and has an active row, or
\* one that was retargeted.
Kept(m) ==
    \/ m[2] \in Locations(active) /\ m[1] \in Resolve(m[2], Baseline)
    \/ m[2] \in retargeted

\* A path that is tracked where the last baseline had it, and was active then.
Before(m) ==
    \/ m[2] \in prior /\ m[1] \in Resolve(m[2], old)
    \/ m[2] \in retargeted

\* And one whose reconciliation is to come.
Doomed(m) == m[2] \in dropped /\ m[1] \in Resolve(m[2], old)

\* Whatever is tracked is kept, until a boot has read the old baseline and the
\* rows; from the new status on it is kept or about to be removed.
DroppedInv ==
    Quiet =>
      /\ pc \in {"down", "init"} => \A m \in head : Kept(m)
      /\ pc \in {"clear", "store", "sync"} => \A m \in head : Before(m)
      /\ pc = "clear" => old = Baseline /\ prior = Locations(active)
      /\ Settled => \A m \in head : Kept(m) \/ Doomed(m)
      /\ pc = "store" => draft = sources
      /\ Settled \/ pc = "sync" => snapshot = sources

\* A quiet state comes after quiet ones.
LEMMA QuietStep ==
    ASSUME NEW N, Setting(N), Base, [Next]_vars, Quiet'
    PROVE  /\ Quiet
           /\ retargeted \subseteq retargeted'
           /\ Crash => pc \notin {"store", "sync"} /\ dropped = {}
           /\ Rewrite => pc = "down"
<1>1. Rewrite => pc = "down"
  BY DEF Rewrite, Quiet
<1>2. Crash => ~cut /\ pc \notin {"store", "sync"} /\ dropped = {} /\ raced' = raced
  BY DEF Crash, Quit, Quiet
<1>3. retargeted \subseteq retargeted'
  BY DEF Next, Boot, Others, Rewrite, Put, Delete, EditFile, RemoveDir, Change, Construct, Remember,
         ClearSnapshot, StoreSnapshot, SyncStatus, ReconcileOne, Scan, BackfillRow,
         BackfillMirror, ScanDone, Finish, Stop, Abort, Crash, Quit, vars, bounds
<1>4. Crash \/ Rewrite \/ UNCHANGED <<raced, cut>>
  BY DEF Next, Boot, Others, Put, Delete, EditFile, RemoveDir, Change, Construct, Remember,
         ClearSnapshot, StoreSnapshot, SyncStatus, ReconcileOne, Scan, BackfillRow,
         BackfillMirror, ScanDone, Finish, Stop, Abort, Quit, vars, bounds
<1>5. Rewrite => UNCHANGED cut /\ (pc = "down" => UNCHANGED raced)
  BY DEF Rewrite
<1> QED
  BY <1>1, <1>2, <1>3, <1>4, <1>5 DEF Quiet

LEMMA DroppedStep ==
    ASSUME NEW N, Setting(N), NoSnapshot \notin SUBSET Source,
           Base, Base', AppliedInv, DroppedInv, [Next]_vars
    PROVE  DroppedInv'
<1> SUFFICES ASSUME Quiet' PROVE DroppedInv'
  BY DEF DroppedInv
<1>1. /\ Quiet /\ (Rewrite => pc = "down") /\ retargeted \subseteq retargeted'
      /\ Crash => pc \notin {"store", "sync"} /\ dropped = {}
  BY QuietStep
<1>2. pc # "down" => config = sources
  BY <1>1 DEF AppliedInv, Quiet
<1>3. CASE UNCHANGED <<snapshot, db, head, dirs>> /\ pc \in {"down", "init"}
           /\ pc' \in {"down", "init"}
  BY <1>1, <1>3 DEF DroppedInv, Settled, Kept, Baseline, Locations, db
<1>4. CASE \/ Rewrite \/ Construct
           \/ \E i \in Ino : Delete(i) \/ EditFile(i) \/ \E p \in File : Put(i, p)
  BY <1>1, <1>3, <1>4 DEF Rewrite, Construct, Delete, EditFile, Put, Change, mirror, memory, disk
<1>16. ASSUME NEW d \in Vanish, RemoveDir(d) PROVE DroppedInv'
  <2>1. /\ pc = "down" /\ pc' = "down"
        /\ UNCHANGED <<snapshot, db, head>>
        /\ retargeted' = retargeted \union
             {p \in File : Resolve(p, Baseline) # Resolve(p, Baseline')}
    BY <1>16 DEF RemoveDir, Change
  <2>2. ASSUME NEW m \in head' PROVE Kept(m)'
    <3>1. Kept(m) /\ m[2] \in File
      BY <1>1, <2>1 DEF DroppedInv, Base, TypeOK
    <3> QED
      BY <2>1, <3>1 DEF Kept, Locations, db
  <2> QED
    BY <2>1, <2>2 DEF DroppedInv, Settled
<1>5. CASE Remember
  <2>1. /\ prior' = Locations(active) /\ old' = Baseline
        /\ UNCHANGED <<head, snapshot, db, dirs, retargeted>>
        /\ pc = "init" /\ pc' = "clear"
    BY <1>5 DEF Remember, mirror, disk, bounds
  <2>2. Baseline' = Baseline /\ Locations(active)' = Locations(active)
    BY <2>1 DEF Baseline, Locations, db
  <2> QED
    BY <1>1, <2>1, <2>2 DEF DroppedInv, Settled, Kept, Before
<1>6. CASE ClearSnapshot \/ StoreSnapshot
  BY <1>1, <1>2, <1>6 DEF ClearSnapshot, StoreSnapshot, DroppedInv, Settled, Before, mirror, bounds
<1>7. CASE SyncStatus
  <2> DEFINE found == {i \in Ino : loc[i] # NoFile /\ at[i] \in FilesOf(sources)}
  <2>1. /\ active' = found
        /\ loc' = [i \in Ino |-> IF i \in found THEN at[i] ELSE loc[i]]
        /\ dropped' = prior \ {at[i] : i \in found}
        /\ pc = "sync" /\ pc' = "reconcile"
        /\ retargeted' = retargeted \union {at[i] : i \in {j \in found : Retargets(at[j])}}
        /\ UNCHANGED <<snapshot, head, old, sources, dirs>>
    BY <1>7 DEF SyncStatus, mirror, disk
  <2>2. snapshot = sources /\ snapshot # NoSnapshot
    BY <1>1, <2>1 DEF DroppedInv, Base, TypeOK
  <2>3. Baseline' = Derive(sources, dirs)
    BY <2>1, <2>2 DEF Baseline
  <2>4. ASSUME NEW m \in head' PROVE (Kept(m) \/ Doomed(m))'
    <3>1. Before(m)
      BY <1>1, <2>1, <2>4 DEF DroppedInv
    <3>2. CASE m[2] \in retargeted
      BY <2>1, <3>2 DEF Kept
    <3>3. CASE m[2] \in dropped' /\ m[2] \notin retargeted
      BY <2>1, <3>1, <3>3 DEF Doomed, Before
    <3>4. CASE m[2] \notin dropped' /\ m[2] \notin retargeted
      <4>1. m[2] \in prior /\ m[1] \in Resolve(m[2], old)
        BY <3>1, <3>4 DEF Before
      <4>2. PICK i \in found : m[2] = at[i]
        BY <2>1, <3>4, <4>1
      <4>3. m[2] \in Locations(active)'
        BY <2>1, <4>2 DEF Locations
      <4>4. Retargets(at[i]) => m[2] \in retargeted'
        BY <2>1, <4>2
      <4>5. ~Retargets(at[i]) => m[1] \in Resolve(m[2], Derive(sources, dirs))
        BY <4>1, <4>2 DEF Retargets
      <4> HIDE DEF found
      <4> QED
        BY <2>3, <4>3, <4>4, <4>5 DEF Kept
    <3> QED
      BY <3>2, <3>3, <3>4
  <2> QED
    BY <2>1, <2>2, <2>4 DEF DroppedInv, Settled
<1>8. ASSUME Settled, Settled', UNCHANGED <<snapshot, sources, old, dirs>>,
             Locations(active) \subseteq Locations(active)',
             \A m \in head' : m \in head \/ Kept(m)',
             \A m \in head' : Doomed(m) => Doomed(m)'
      PROVE  DroppedInv'
  <2>1. \A m : Kept(m) => Kept(m)'
    BY <1>1, <1>8 DEF Kept, Baseline
  <2> QED
    BY <1>1, <1>8, <2>1 DEF DroppedInv, Settled
<1>9. ASSUME NEW p \in dropped, ReconcileOne(p) PROVE DroppedInv'
  <2>1. ASSUME NEW m \in head', Doomed(m) PROVE Doomed(m)'
    <3>1. m \notin {<<t, p>> : t \in Resolve(p, old)} /\ m \in Dir \X File
      BY <1>9, <2>1 DEF ReconcileOne, Base, TypeOK
    <3>2. m[2] # p
      BY <2>1, <3>1 DEF Doomed
    <3> QED
      BY <1>9, <2>1, <3>2 DEF ReconcileOne, Doomed
  <2> QED
    BY <1>8, <1>9, <2>1 DEF ReconcileOne, Settled, db, disk, Locations
<1>10. ASSUME NEW s \in todo, Scan(s) PROVE DroppedInv'
  BY <1>8, <1>10 DEF Scan, Settled, db, mirror, disk, Locations, Doomed
<1>11. ASSUME NEW i \in Ino, BackfillRow(i) PROVE DroppedInv'
  BY <1>8, <1>11, BackfillKeepsRows DEF BackfillRow, Settled, mirror, disk, Doomed
<1>12. CASE BackfillMirror
  <2>0. PICK g : g = at[item]
    OBVIOUS
  <2>1. PICK t \in Resolve(g, targets) : head' = head \union {<<t, g>>}
    BY <1>12, <2>0 DEF BackfillMirror
  <2>2. /\ pc = "mirror" /\ pc' = "scan"
        /\ UNCHANGED <<disk, snapshot, db, sources, old, dropped>>
    BY <1>12 DEF BackfillMirror
  <2>3. targets = Derive(sources, dirs) /\ snapshot = sources /\ snapshot # NoSnapshot
    BY <1>1, <2>2 DEF AppliedInv, DroppedInv, Quiet, Settled, Base, TypeOK
  <2>4. g \in Locations(active)
    BY <2>0, <2>2 DEF Locations, Base, BootInv, Settled, TypeOK
  <2>5. Kept(<<t, g>>)'
    BY <2>1, <2>2, <2>3, <2>4 DEF Kept, Baseline, Locations, db, disk
  <2> QED
    BY <1>8, <2>1, <2>2, <2>5 DEF Settled, Locations, Doomed, db, disk
<1>13. CASE ScanDone \/ Finish \/ (UNCHANGED vars /\ Settled)
  BY <1>8, <1>13 DEF ScanDone, Finish, vars, Settled, db, mirror, memory, disk, Locations, Doomed
<1>14. CASE Stop \/ Abort \/ (Crash /\ Settled)
  <2>1. /\ dropped = {} /\ Settled /\ pc' = "down"
        /\ UNCHANGED <<snapshot, db, head, dirs, retargeted>>
    BY <1>1, <1>14 DEF Stop, Abort, Crash, Quit, Settled, Base, BootInv, mirror, disk
  <2>2. \A m \in head : Kept(m)
    BY <1>1, <2>1 DEF DroppedInv, Doomed
  <2> QED
    BY <2>1, <2>2 DEF DroppedInv, Settled, Kept, Baseline, Locations, db
<1>15. CASE Crash /\ ~Settled
  <2>1. /\ pc \in {"init", "clear"} /\ pc' = "down"
        /\ UNCHANGED <<snapshot, db, head, dirs, retargeted>>
    BY <1>1, <1>15 DEF Crash, Quit, Settled, Base, TypeOK, mirror, disk
  <2>2. \A m \in head : Kept(m)
    BY <1>1, <2>1 DEF DroppedInv, Before, Kept
  <2> QED
    BY <2>1, <2>2 DEF DroppedInv, Settled, Kept, Baseline, Locations, db
<1>17. CASE UNCHANGED vars /\ ~Settled
  BY <1>1, <1>17 DEF vars, db, mirror, memory, bounds, DroppedInv, Settled, Kept, Before,
                     Baseline, Locations, disk
<1> QED
  BY <1>4, <1>5, <1>6, <1>7, <1>9, <1>10, <1>11, <1>12, <1>13, <1>14, <1>15, <1>16, <1>17
     DEF Next, Boot, Others

(***************************************************************************)
(* Granted, revoked, moved, replaced and deleted as files were, over any   *)
(* number of boots, with sources above and under one another, no mirror    *)
(* tracks at HEAD what locations.status says is out of scope, unless       *)
(* config.yaml was rewritten during a boot, a boot was killed between      *)
(* emptying the snapshot and the last dropped location, or the file's own  *)
(* target changed between two baselines (reconcile_dropped_sources, with   *)
(* the baseline of store_config_snapshot).                                 *)
(***************************************************************************)
THEOREM DroppedIsGone ==
    ASSUME NEW N, Setting(N), NoSnapshot \notin SUBSET Source
    PROVE  Spec => []DroppedIsReconciled
<1>1. Init => DroppedInv
  BY DEF Init, DroppedInv, Settled
<1>2. Base /\ Base' /\ AppliedInv /\ DroppedInv /\ [Next]_vars => DroppedInv'
  BY DroppedStep
<1>3. Base /\ DroppedInv => DroppedIsReconciled
  BY DEF DroppedInv, DroppedIsReconciled, Base, BootInv, Settled, Quiet, Kept, Doomed
<1> QED
  BY <1>1, <1>2, <1>3, AppliedHolds, PTL DEF Spec

=============================================================================

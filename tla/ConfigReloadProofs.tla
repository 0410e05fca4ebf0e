-------------------------- MODULE ConfigReloadProofs --------------------------
(***************************************************************************)
(* Proofs about ConfigReload, for any sources, files, directories, writers *)
(* and any number of rewrites: what is versioned was granted, the baseline *)
(* is what the watches are for, a stale scope has an event on its way, and *)
(* a reload that nothing disturbed has applied config.yaml everywhere.     *)
(***************************************************************************)
EXTENDS ConfigReload, SharedLemmas

\* What the theorems but the first assume of the constants: paths have names
\* from N, every source has a directory to watch, none of which is that of
\* config.yaml (ConfigReloadWatch.cfg), no editor renames over config.yaml
\* (ConfigReloadReplace.cfg), and the values that stand for nothing differ from
\* those that stand for something.
Setting(N) ==
    /\ Source \union File \union Dir \subseteq Seq(N)
    /\ \A s \in Source : Watchable(s, Dir)
    /\ ConfDir \notin Dirs(Source, Dir)
    /\ "replace" \notin Saves
    /\ Saved # Moved
    /\ Saved \notin File
    /\ Moved \notin File
    /\ Missing \notin SUBSET Source
    /\ NoJob \notin [file : File, targets : SUBSET Dir, add : BOOLEAN,
                     at : {"insert", "update", "mirror"}]

Has(queue, e) == \E i \in DOMAIN queue : queue[i] = e

-----------------------------------------------------------------------------
(* What was granted. *)

IsSourceJob(j) == j = [file |-> j.file, targets |-> j.targets, at |-> j.at]

IsConfigJob(j) == j = [file |-> j.file, targets |-> j.targets, add |-> j.add, at |-> j.at]

\* Whatever may become a row or a commit lies in the scope of a config.yaml
\* that was on disk.
GrantedInv ==
    /\ config # Missing => FilesOf(config) \subseteq granted
    /\ cache # NoScope => FilesOf(cache) \subseteq granted
    /\ FilesOf(snapshot) \subseteq granted
    /\ inbox \in Seq(granted)
    /\ added \subseteq granted
    /\ deleted \subseteq granted
    /\ cjob # NoJob => IsConfigJob(cjob) /\ cjob.file \in granted
    /\ wjob # NoJob => IsSourceJob(wjob) /\ wjob.file \in granted
    /\ known \subseteq granted
    /\ mirrored \subseteq granted
    /\ cpc # "idle" => FilesOf(conf) \subseteq granted

LEMMA FilesOfDifference ==
    ASSUME NEW S, NEW T
    PROVE  /\ FilesOf(S \ T) \subseteq FilesOf(S)
           /\ FilesOf(S) \subseteq FilesOf(T) \union FilesOf(S \ T)
BY DEF FilesOf, InScope

LEMMA FilesOfSubset ==
    ASSUME NEW S, NEW T, S \subseteq T
    PROVE  FilesOf(S) \subseteq FilesOf(T)
BY DEF FilesOf, InScope

\* Rewrites of config.yaml grant, and nothing else changes.
LEMMA GrantedSave ==
    ASSUME GrantedInv, NEW S, NEW e, Save(S, e),
           UNCHANGED <<snapshot, cache, inbox, applier, wjob, db, mirrored>>
    PROVE  GrantedInv'
<1>1. /\ config' = S
      /\ granted' = granted \union FilesOf(IF S = Missing THEN {} ELSE S)
  BY DEF Save
<1>2. granted \subseteq granted' /\ (config' # Missing => FilesOf(config') \subseteq granted')
  BY <1>1
<1>3. inbox' \in Seq(granted')
  BY <1>2 DEF GrantedInv
<1> HIDE DEF Save
<1> QED
  BY <1>2, <1>3 DEF GrantedInv, FilesOf, applier, db

LEMMA GrantedStep ==
    ASSUME GrantedInv, [Next]_vars
    PROVE  GrantedInv'
<1>1. ASSUME NEW w \in Writer, Read(w) PROVE GrantedInv'
  BY <1>1 DEF Read, GrantedInv, FilesOf, applier, db, history
<1>2. ASSUME NEW w \in Writer, Clear(w) PROVE GrantedInv'
  BY <1>2, GrantedSave DEF Clear
<1>3. ASSUME NEW w \in Writer, Write(w) PROVE GrantedInv'
  <2>1. CASE \E e : Save(draft[w], e)
    BY <1>3, <2>1, GrantedSave DEF Write
  <2>2. CASE config' = draft[w] /\ granted' = granted \union FilesOf(draft[w])
    <3>1. inbox' \in Seq(granted')
      BY <1>3, <2>2 DEF Write, GrantedInv
    <3> QED
      BY <1>3, <2>2, <3>1 DEF Write, GrantedInv, FilesOf, applier, db
  <2> QED
    BY <1>3, <2>1, <2>2 DEF Write
<1>4. ASSUME NEW f \in File, Edit(f) PROVE GrantedInv'
  BY <1>4 DEF Edit, GrantedInv, FilesOf, files, applier, db, history
<1>5. CASE Dispatch
  <2>1. /\ \/ cache' = NoScope /\ inbox' = inbox
           \/ /\ Head(events) \in File
              /\ cache' = IF Scope = Missing THEN NoScope ELSE Scope
              /\ inbox' = IF Scope # Missing /\ InScope(Head(events), Scope)
                          THEN Append(inbox, Head(events)) ELSE inbox
        /\ UNCHANGED <<files, snapshot, applier, wjob, db, mirrored, history>>
    BY <1>5 DEF Dispatch
  <2>2. Scope # Missing => FilesOf(Scope) \subseteq granted
    BY DEF Scope, GrantedInv
  <2>3. inbox' \in Seq(granted)
    <3>1. CASE inbox' = inbox
      BY <3>1 DEF GrantedInv
    <3>2. CASE /\ Head(events) \in File
               /\ Scope # Missing /\ InScope(Head(events), Scope)
               /\ inbox' = Append(inbox, Head(events))
      <4>1. Head(events) \in granted
        BY <2>2, <3>2 DEF FilesOf
      <4> QED
        BY <3>2, <4>1 DEF GrantedInv
    <3> QED
      BY <2>1, <3>1, <3>2
  <2>4. cache' # NoScope => FilesOf(cache') \subseteq granted
    BY <2>1, <2>2
  <2> QED
    BY <2>1, <2>3, <2>4 DEF GrantedInv, FilesOf, files, applier, db, history
<1>6. CASE WorkerTake
  <2>1. Head(inbox) \in granted /\ inbox' \in Seq(granted)
    BY <1>6 DEF WorkerTake, GrantedInv
  <2>2. wjob' # NoJob => IsSourceJob(wjob') /\ wjob'.file \in granted
    BY <1>6, <2>1 DEF WorkerTake, IsSourceJob
  <2> QED
    BY <1>6, <2>1, <2>2 DEF WorkerTake, GrantedInv, FilesOf, files, applier, db, history
<1>15. CASE WorkerRow
  <2>1. /\ wjob.file \in granted /\ IsSourceJob(wjob)
        /\ \/ /\ known' = known \union {wjob.file}
              /\ wjob' = [wjob EXCEPT !.at = "mirror"]
           \/ known' = known /\ wjob' = NoJob
    BY <1>15 DEF WorkerRow, Activate, GrantedInv, db
  <2>2. wjob' = [wjob EXCEPT !.at = "mirror"] => IsSourceJob(wjob') /\ wjob'.file = wjob.file
    BY <2>1 DEF IsSourceJob
  <2> QED
    BY <1>15, <2>1, <2>2 DEF WorkerRow, GrantedInv, FilesOf, files, applier, history
<1>7. CASE WorkerMirror
  BY <1>7 DEF WorkerMirror, GrantedInv, FilesOf, files, applier, db
<1>8. CASE Recover
  BY <1>8, GrantedSave DEF Recover
<1>9. CASE ReadConfig
  BY <1>9, FilesOfDifference DEF ReadConfig, GrantedInv, FilesOf, files, applier, db, history
<1>10. CASE ApplyTake
  <2>1. /\ UNCHANGED <<config, snapshot, cache, inbox, wjob, mirrored, granted, known>>
        /\ added' \subseteq granted /\ deleted' \subseteq granted
    BY <1>10 DEF ApplyTake, End, GrantedInv, files, history, db
  <2>2. \/ cpc' = "idle" /\ cjob' = NoJob
        \/ \E f \in added \union deleted :
              IsConfigJob(cjob') /\ cjob'.file = f /\ cpc' = cpc /\ conf' = conf
    BY <1>10 DEF ApplyTake, End, IsConfigJob
  <2> QED
    BY <2>1, <2>2 DEF GrantedInv, FilesOf
<1>16. CASE ApplyRow
  <2>1. /\ UNCHANGED <<config, snapshot, cache, inbox, wjob, mirrored, granted>>
        /\ added' \subseteq granted /\ deleted' \subseteq granted
        /\ cjob.file \in granted /\ IsConfigJob(cjob)
    BY <1>16 DEF ApplyRow, End, GrantedInv, files
  <2>2. \/ cpc' = "idle" /\ cjob' = NoJob /\ known' = known
        \/ /\ cjob' = [cjob EXCEPT !.at = "mirror"] /\ cpc' = cpc /\ conf' = conf
           /\ known' \in {known, known \union {cjob.file}}
    BY <1>16 DEF ApplyRow, End, Activate, db
  <2>3. cjob' = [cjob EXCEPT !.at = "mirror"] => IsConfigJob(cjob') /\ cjob'.file = cjob.file
    BY <2>1 DEF IsConfigJob
  <2> QED
    BY <2>1, <2>2, <2>3 DEF GrantedInv, FilesOf
<1>11. CASE ApplyMirror
  BY <1>11 DEF ApplyMirror, End, GrantedInv, FilesOf, files, db
<1>12. CASE Reconcile
  BY <1>12 DEF Reconcile, GrantedInv, FilesOf, files, db, history
<1>13. CASE Store
  BY <1>13 DEF Store, End, GrantedInv, FilesOf, files, db, history
<1>14. CASE UNCHANGED vars
  BY <1>14 DEF vars, GrantedInv, FilesOf, files, applier, db, history
<1> QED
  BY <1>1, <1>2, <1>3, <1>4, <1>5, <1>6, <1>7, <1>8, <1>9, <1>10, <1>11, <1>12, <1>13, <1>14,
     <1>15, <1>16 DEF Next

(***************************************************************************)
(* A file that was never in the scope of a config.yaml on disk gets no row *)
(* and no commit, though the directory it is in is watched, the scope is   *)
(* cached and config.yaml may vanish (_in_scope).                          *)
(***************************************************************************)
THEOREM NothingElseIsVersioned == Spec => []OnlyGrantedAreVersioned
<1>1. Init => GrantedInv
  <2> SUFFICES ASSUME Init PROVE GrantedInv
    OBVIOUS
  <2>1. inbox \in Seq(granted)
    BY DEF Init
  <2> QED
    BY <2>1 DEF Init, GrantedInv
<1>2. GrantedInv /\ [Next]_vars => GrantedInv'
  BY GrantedStep
<1>3. GrantedInv => OnlyGrantedAreVersioned
  BY DEF GrantedInv, OnlyGrantedAreVersioned
<1> QED
  BY <1>1, <1>2, <1>3, PTL DEF Spec

-----------------------------------------------------------------------------
(* Types. *)

\* The targets of a configuration exist, and config.yaml is beside none of them.
LEMMA TargetsAreDirs ==
    ASSUME NEW N, Setting(N), NEW S, S \subseteq Source
    PROVE  Targets(S) \subseteq Dir /\ ConfDir \notin Targets(S)
<1>1. Dir \subseteq Seq(N) /\ Source \subseteq Seq(N) /\ Root \in Dir
  BY ConfigReloadAssumption DEF Setting
<1>2. \A p \in Source : NearestDir(p, Dir) \in Dir
  BY <1>1, NearestDirFacts
<1>3. Targets(S) \subseteq Dirs(S, Dir)
  BY DEF Targets, Derive
<1>4. Dirs(S, Dir) \subseteq Dir /\ Dirs(S, Dir) \subseteq Dirs(Source, Dir)
  BY <1>2 DEF Dirs
<1> QED
  BY <1>3, <1>4 DEF Setting

\* A file in scope has a mirror.
LEMMA InScopeHasMirror ==
    ASSUME NEW N, Setting(N), NEW S, S \subseteq Source, NEW f \in FilesOf(S)
    PROVE  Resolve(f, Targets(S)) # {}
<1>1. Dir \subseteq Seq(N) /\ S \subseteq Seq(N) /\ f \in Seq(N) /\ Root \in Dir
  BY ConfigReloadAssumption DEF Setting, FilesOf
<1>2. PICK s \in S : Under(f, s)
  BY DEF FilesOf, InScope
<1>3. Watchable(s, Dir)
  BY DEF Setting
<1>4. PICK t \in Derive(S, Dir) : Under(f, t)
  BY <1>1, <1>2, <1>3, SourceHasTarget
<1> QED
  BY <1>4 DEF Resolve, Targets

Events == File \union {Saved, Moved}

\* An event is added, any number of times, and at least once if it is one of
\* config.yaml.
LEMMA NotifyFacts ==
    ASSUME TypeOK, NEW e \in Events, NEW p, NEW direct \in BOOLEAN, Notify(e, p, direct)
    PROVE  /\ events' \in Seq(Events)
           /\ \A x : Has(events, x) => Has(events', x)
           /\ \A x : Has(events', x) => x = e \/ Has(events, x)
           /\ confWatch /\ direct => Has(events', e)
<1>1. PICK n \in Deliveries(p, direct) : events' = events \o [i \in 1..n |-> e]
  BY DEF Notify
<1>2. events \in Seq(Events) /\ n \in 0..2 /\ (confWatch /\ direct => n > 0)
  BY <1>1 DEF TypeOK, Events, Deliveries
<1> DEFINE r == [i \in 1..n |-> e]
<1>3. r \in Seq(Events) /\ Len(r) = n /\ \A i \in 1..n : r[i] = e
  BY <1>2
<1> HIDE DEF r
<1>4. events' \in Seq(Events) /\ Len(events') = Len(events) + n
  BY <1>1, <1>2, <1>3
<1>5. \A i \in 1..Len(events') :
         events'[i] = IF i <= Len(events) THEN events[i] ELSE r[i - Len(events)]
  BY <1>1, <1>2, <1>3
<1>6. ASSUME NEW x, Has(events, x) PROVE Has(events', x)
  <2>1. PICK i \in 1..Len(events) : events[i] = x
    BY <1>2, <1>6 DEF Has
  <2>2. i \in 1..Len(events') /\ events'[i] = x
    BY <1>2, <1>4, <1>5, <2>1
  <2> QED
    BY <1>4, <2>2 DEF Has
<1>7. ASSUME NEW x, Has(events', x) PROVE x = e \/ Has(events, x)
  <2>1. PICK i \in 1..Len(events') : events'[i] = x
    BY <1>4, <1>7 DEF Has
  <2>2. CASE i <= Len(events)
    BY <1>2, <1>5, <2>1, <2>2 DEF Has
  <2>3. CASE i > Len(events)
    <3>1. i - Len(events) \in 1..n
      BY <1>2, <1>4, <2>1, <2>3
    <3> QED
      BY <1>2, <1>3, <1>5, <2>1, <2>3, <3>1
  <2> QED
    BY <1>2, <2>1, <2>2, <2>3
<1>8. ASSUME confWatch, direct PROVE Has(events', e)
  <2>1. n > 0
    BY <1>2, <1>8
  <2>2. Len(events) + 1 \in 1..Len(events') /\ events'[Len(events) + 1] = e
    BY <1>2, <1>3, <1>4, <1>5, <2>1
  <2> QED
    BY <1>4, <2>2 DEF Has
<1> QED
  BY <1>4, <1>6, <1>7, <1>8

Jobs == [file : File, targets : SUBSET Dir, add : BOOLEAN,
         at : {"insert", "update", "mirror"}]

\* A handler of the config consumer begins with a file of the difference, or
\* the reload is over.
LEMMA TakenJob ==
    ASSUME NEW N, Setting(N), TypeOK, ApplyTake, ~End
    PROVE  \E f \in added \union deleted :
              /\ cjob' \in Jobs /\ cjob' # NoJob /\ cjob'.file = f
              /\ added' \subseteq added /\ deleted' \subseteq deleted
              /\ UNCHANGED <<cpc, conf>>
              /\ \/ f \in added /\ added' = added \ {f} /\ cjob'.add /\ f \in known
                    /\ cjob'.at = "update"
                 \/ f \in added /\ added' = added \ {f} /\ cjob'.add /\ f \notin known
                    /\ cjob'.at = "insert"
                 \/ f \in deleted /\ added' = added /\ ~cjob'.add /\ cjob'.at = "update"
              /\ cjob'.targets = Targets(config)
<1>1. /\ config \in SUBSET Source /\ added \subseteq File /\ deleted \subseteq File
      /\ UNCHANGED <<cpc, conf>>
  BY DEF ApplyTake, TypeOK
<1>2. Targets(config) \in SUBSET Dir
  BY <1>1, TargetsAreDirs
<1>3. CASE \E f \in added :
             /\ cjob' = [file |-> f, targets |-> Targets(config), add |-> TRUE,
                         at |-> IF f \in known THEN "update" ELSE "insert"]
             /\ added' = added \ {f}
             /\ UNCHANGED deleted
  <2>1. PICK f \in added :
             /\ cjob' = [file |-> f, targets |-> Targets(config), add |-> TRUE,
                         at |-> IF f \in known THEN "update" ELSE "insert"]
             /\ added' = added \ {f}
             /\ UNCHANGED deleted
    BY <1>3
  <2>2. cjob' \in Jobs
    BY <1>1, <1>2, <2>1 DEF Jobs
  <2>3. cjob' # NoJob
    BY <2>2 DEF Setting, Jobs
  <2> QED
    BY <1>1, <2>1, <2>2, <2>3
<1>4. CASE \E f \in deleted :
             /\ cjob' = [file |-> f, targets |-> Targets(config), add |-> FALSE,
                         at |-> "update"]
             /\ deleted' = deleted \ {f}
             /\ UNCHANGED added
  <2>1. PICK f \in deleted :
             /\ cjob' = [file |-> f, targets |-> Targets(config), add |-> FALSE,
                         at |-> "update"]
             /\ deleted' = deleted \ {f}
             /\ UNCHANGED added
    BY <1>4
  <2>2. cjob' \in Jobs
    BY <1>1, <1>2, <2>1 DEF Jobs
  <2>3. cjob' # NoJob
    BY <2>2 DEF Setting, Jobs
  <2> QED
    BY <1>1, <2>1, <2>2, <2>3
<1> QED
  BY <1>3, <1>4 DEF ApplyTake

\* The files of the snapshot have rows: a configuration becomes the snapshot
\* when the last of its files has one.
KnownInv ==
    /\ FilesOf(snapshot) \subseteq known
    /\ deleted \subseteq known
    /\ cpc = "apply" =>
           FilesOf(conf) \subseteq
               known \union added \union (IF cjob = NoJob THEN {} ELSE {cjob.file})
    /\ cpc = "store" => FilesOf(conf) \subseteq known

LEMMA KnownStep ==
    ASSUME NEW N, Setting(N), TypeOK, KnownInv, [Next]_vars
    PROVE  KnownInv'
<1>1. CASE UNCHANGED <<snapshot, applier>> /\ known \subseteq known'
  BY <1>1 DEF KnownInv, applier, FilesOf
<1>2. ASSUME NEW w \in Writer, Read(w) \/ Clear(w) \/ Write(w) PROVE KnownInv'
  BY <1>1, <1>2 DEF Read, Clear, Write, db
<1>3. ASSUME NEW f \in File, Edit(f) PROVE KnownInv'
  BY <1>1, <1>3 DEF Edit, db
<1>4. CASE Dispatch \/ WorkerTake \/ WorkerRow \/ WorkerMirror \/ Recover
  BY <1>1, <1>4 DEF Dispatch, WorkerTake, WorkerRow, Activate, WorkerMirror, Recover, db
<1>5. CASE ReadConfig
  <2>1. UNCHANGED <<snapshot, known>>
    BY <1>5 DEF ReadConfig, db
  <2>2. CASE cpc' = "apply" /\ conf' = config /\ added' = FilesOf(config \ snapshot)
             /\ deleted' = FilesOf(snapshot \ config)
    BY <2>1, <2>2, FilesOfDifference DEF KnownInv, FilesOf
  <2> QED
    BY <1>1, <1>5, <2>1, <2>2 DEF ReadConfig
<1>6. CASE ApplyTake
  <2>1. UNCHANGED <<snapshot, known>> /\ cjob = NoJob
    BY <1>6 DEF ApplyTake, db
  <2>2. CASE End
    BY <2>1, <2>2 DEF End, KnownInv, FilesOf
  <2>3. CASE ~End
    BY <1>6, <2>1, <2>3, TakenJob DEF KnownInv, FilesOf
  <2> QED
    BY <2>2, <2>3
<1>11. CASE End /\ UNCHANGED <<snapshot, known>>
  BY <1>11 DEF End, KnownInv, FilesOf
<1>7. CASE ApplyRow
  <2>1. cjob # NoJob /\ cjob \in Jobs /\ snapshot' = snapshot
    BY <1>7 DEF ApplyRow, TypeOK, Jobs
  <2>2. CASE /\ known \subseteq known' /\ cjob' = [cjob EXCEPT !.at = "mirror"]
             /\ UNCHANGED <<cpc, conf, added, deleted>>
    <3>1. cjob' \in Jobs /\ cjob'.file = cjob.file
      BY <2>1, <2>2 DEF Jobs
    <3>2. cjob' # NoJob
      BY <3>1 DEF Jobs, Setting
    <3> QED
      BY <2>1, <2>2, <3>1, <3>2 DEF KnownInv, FilesOf
  <2> QED
    BY <1>7, <1>11, <2>1, <2>2 DEF ApplyRow, Activate, db
<1>12. CASE ApplyMirror
  <2>1. cjob # NoJob /\ cjob.file \in known
    BY <1>12 DEF ApplyMirror, TypeOK
  <2> QED
    BY <1>11, <1>12, <2>1 DEF ApplyMirror, KnownInv, FilesOf, db
<1>8. CASE Reconcile
  BY <1>8 DEF Reconcile, KnownInv, FilesOf, db
<1>9. CASE Store
  BY <1>9 DEF Store, End, KnownInv, FilesOf, db
<1>10. CASE UNCHANGED vars
  BY <1>1, <1>10 DEF vars, db
<1> QED
  BY <1>2, <1>3, <1>4, <1>5, <1>6, <1>7, <1>8, <1>9, <1>10, <1>12 DEF Next

LEMMA SaveTypes ==
    ASSUME TypeOK, NEW S \in (SUBSET Source) \union {Missing}, NEW e \in {Saved, Moved}, Save(S, e)
    PROVE  config' \in (SUBSET Source) \union {Missing} /\ events' \in Seq(Events)
BY NotifyFacts DEF Save, Events

LEMMA TypeStep ==
    ASSUME NEW N, Setting(N), TypeOK, KnownInv, [Next]_vars
    PROVE  TypeOK'
<1> USE DEF Events
<1>1. ASSUME NEW w \in Writer, Read(w) PROVE TypeOK'
  <2>1. draft' \in [Writer -> SUBSET Source]
    <3>1. config \in SUBSET Source
      BY <1>1 DEF Read, TypeOK
    <3>2. PICK d \in SUBSET Source : draft' = [draft EXCEPT ![w] = d]
      BY <1>1, <3>1 DEF Read
    <3> QED
      BY <3>2 DEF TypeOK
  <2>2. saves' \in 0..MaxSaves
    BY <1>1, ConfigReloadAssumption DEF Read, TypeOK
  <2> QED
    BY <1>1, <2>1, <2>2 DEF Read, TypeOK, watches, applier, db, history
<1>2. ASSUME NEW w \in Writer, Clear(w) PROVE TypeOK'
  BY <1>2, SaveTypes DEF Clear, TypeOK, watches, applier, db, bounds
<1>3. ASSUME NEW w \in Writer, Write(w) PROVE TypeOK'
  <2>1. draft[w] \in SUBSET Source
    BY DEF TypeOK
  <2>2. config' \in (SUBSET Source) \union {Missing} /\ events' \in Seq(Events)
    BY <1>3, <2>1, SaveTypes DEF Write, TypeOK
  <2> QED
    BY <1>3, <2>2 DEF Write, TypeOK, watches, applier, db, bounds
<1>4. ASSUME NEW f \in File, Edit(f) PROVE TypeOK'
  <2>1. (SubSeq(f, 1, Len(f) - 1) = ConfDir) \in BOOLEAN
    OBVIOUS
  <2>2. events' \in Seq(Events)
    BY <1>4, <2>1, NotifyFacts DEF Edit
  <2>3. edits' \in 0..MaxEdits
    BY <1>4, ConfigReloadAssumption DEF Edit, TypeOK
  <2> QED
    BY <1>4, <2>2, <2>3 DEF Edit, TypeOK, files, watches, applier, db
<1>5. CASE Dispatch
  <2>1. Head(events) \in Events /\ events' \in Seq(Events)
    BY <1>5 DEF Dispatch, TypeOK
  <2>2. mailbox' \in Seq({Saved, Moved}) /\ inbox' \in Seq(File)
    <3>1. CASE Head(events) \notin File
      <4>1. mailbox' = Append(mailbox, Head(events)) /\ inbox' = inbox
        BY <1>5, <3>1 DEF Dispatch
      <4>2. Head(events) \in {Saved, Moved}
        BY <2>1, <3>1
      <4> QED
        BY <4>1, <4>2 DEF TypeOK
    <3>2. CASE Head(events) \in File
      <4>1. /\ mailbox' = mailbox
            /\ inbox' = inbox \/ inbox' = Append(inbox, Head(events))
        BY <1>5, <3>2 DEF Dispatch
      <4>2. mailbox \in Seq({Saved, Moved}) /\ inbox \in Seq(File)
        BY DEF TypeOK
      <4> QED
        BY <3>2, <4>1, <4>2
    <3> QED
      BY <3>1, <3>2
  <2>3. cache' \in (SUBSET Source) \union {NoScope}
    BY <1>5 DEF Dispatch, Scope, TypeOK
  <2> QED
    BY <1>5, <2>1, <2>2, <2>3 DEF Dispatch, TypeOK, files, watches, applier, db, bounds
<1>6. CASE WorkerTake
  <2>1. Head(inbox) \in File /\ inbox' \in Seq(File)
    BY <1>6 DEF WorkerTake, TypeOK
  <2>2. config # Missing => Targets(config) \in SUBSET Dir
    BY TargetsAreDirs DEF TypeOK
  <2>3. wjob' # NoJob =>
           /\ wjob' \in [file : File, targets : SUBSET Dir, at : {"insert", "mirror"}]
           /\ wjob'.at = "mirror" => wjob'.file \in known
    BY <1>6, <2>1, <2>2 DEF WorkerTake
  <2> QED
    BY <1>6, <2>1, <2>3 DEF WorkerTake, TypeOK, files, watches, applier, db, bounds
<1>15. CASE WorkerRow
  <2>1. wjob \in [file : File, targets : SUBSET Dir, at : {"insert", "mirror"}]
    BY <1>15 DEF WorkerRow, TypeOK
  <2>2. CASE Activate(wjob.file) /\ wjob' = [wjob EXCEPT !.at = "mirror"]
    <3>1. /\ wjob' \in [file : File, targets : SUBSET Dir, at : {"insert", "mirror"}]
          /\ wjob'.file = wjob.file
      BY <2>1, <2>2
    <3>2. /\ known \subseteq known' /\ known' \subseteq File /\ active' \subseteq known'
          /\ wjob'.file \in known'
      BY <2>1, <2>2, <3>1 DEF Activate, TypeOK
    <3> QED
      BY <1>15, <3>1, <3>2 DEF WorkerRow, TypeOK, files, watches, applier, bounds
  <2>3. CASE wjob' = NoJob /\ UNCHANGED db
    BY <1>15, <2>3 DEF WorkerRow, TypeOK, files, watches, applier, db, bounds
  <2> QED
    BY <1>15, <2>2, <2>3 DEF WorkerRow
<1>7. CASE WorkerMirror
  BY <1>7 DEF WorkerMirror, TypeOK, files, watches, applier, db, bounds
<1>8. CASE Recover
  <2>1. mailbox' \in Seq({Saved, Moved})
    BY <1>8 DEF Recover, TypeOK
  <2>2. config' \in (SUBSET Source) \union {Missing} /\ events' \in Seq(Events)
    BY <1>8, SaveTypes DEF Recover, TypeOK
  <2> QED
    BY <1>8, <2>1, <2>2 DEF Recover, TypeOK, watches, applier, db, bounds
<1>9. CASE ReadConfig
  <2>1. mailbox' \in Seq({Saved, Moved})
    BY <1>9 DEF ReadConfig, TypeOK
  <2>2. /\ cpc' \in {"idle", "apply"} /\ conf' \subseteq Source
        /\ added' \subseteq File /\ deleted' \subseteq File
        /\ cjob' = cjob /\ cjob = NoJob
    BY <1>9 DEF ReadConfig, TypeOK, FilesOf, applier
  <2> QED
    BY <1>9, <2>1, <2>2 DEF ReadConfig, TypeOK, files, watches, db, bounds
<1>10. CASE ApplyTake
  <2>1. UNCHANGED <<files, snapshot, watches, events, cache, mailbox, inbox, wjob, db, mirrored,
                    bounds>>
        /\ cpc = "apply"
    BY <1>10 DEF ApplyTake
  <2>2. CASE End
    BY <2>1, <2>2 DEF End, TypeOK, files, watches, db, bounds
  <2>3. CASE ~End
    <3>1. /\ cjob' \in Jobs /\ (cjob'.at # "insert" \/ ~cjob'.add => cjob'.file \in known)
          /\ added' \subseteq added /\ deleted' \subseteq deleted /\ UNCHANGED <<cpc, conf>>
      BY <1>10, <2>3, TakenJob DEF KnownInv
    <3> QED
      BY <2>1, <3>1 DEF TypeOK, Jobs, files, watches, db, bounds
  <2> QED
    BY <2>2, <2>3
<1>16. CASE ApplyRow
  <2>1. UNCHANGED <<files, snapshot, watches, events, cache, mailbox, inbox, wjob, mirrored,
                    bounds>>
        /\ cjob \in Jobs /\ cpc = "apply"
        /\ (cjob.at # "insert" \/ ~cjob.add => cjob.file \in known)
    BY <1>16 DEF ApplyRow, TypeOK, Jobs
  <2>2. CASE End /\ UNCHANGED db
    BY <2>1, <2>2 DEF End, TypeOK, files, watches, db, bounds
  <2>3. CASE /\ \/ Activate(cjob.file)
                \/ ~cjob.add /\ active' = active \ {cjob.file} /\ known' = known
             /\ cjob' = [cjob EXCEPT !.at = "mirror"]
             /\ UNCHANGED <<cpc, conf, added, deleted>>
    <3>1. cjob' \in Jobs /\ cjob'.file = cjob.file /\ cjob'.at = "mirror"
      BY <2>1, <2>3 DEF Jobs
    <3>2. cjob.file \in File
      BY <2>1 DEF Jobs
    <3>3. /\ known \subseteq known' /\ known' \subseteq File /\ active' \subseteq known'
          /\ cjob'.file \in known'
      BY <2>1, <2>3, <3>1, <3>2 DEF Activate, TypeOK
    <3>4. UNCHANGED <<files, snapshot, watches, events, cache, mailbox, inbox, wjob, mirrored,
                      bounds, cpc, conf, added, deleted>>
      BY <2>1, <2>3
    <3>5. /\ wjob # NoJob /\ wjob.at = "mirror" => wjob.file \in known'
          /\ mirrored \subseteq known'
      BY <3>3 DEF TypeOK
    <3> QED
      BY <2>1, <3>1, <3>3, <3>4, <3>5 DEF TypeOK, Jobs, files, watches, bounds
  <2>4. \/ End /\ UNCHANGED db
        \/ /\ \/ Activate(cjob.file)
              \/ ~cjob.add /\ active' = active \ {cjob.file} /\ known' = known
           /\ cjob' = [cjob EXCEPT !.at = "mirror"]
           /\ UNCHANGED <<cpc, conf, added, deleted>>
    BY <1>16 DEF ApplyRow
  <2> QED
    BY <2>2, <2>3, <2>4
<1>11. CASE ApplyMirror
  BY <1>11 DEF ApplyMirror, End, TypeOK, files, watches, db, bounds
<1>12. CASE Reconcile
  <2>1. Targets(conf) \subseteq Dir
    BY TargetsAreDirs DEF TypeOK
  <2>2. watched' \subseteq Dir /\ {confWatch', confFirst'} \subseteq BOOLEAN
    BY <1>12, <2>1, ConfigReloadAssumption DEF Reconcile, TypeOK
  <2> QED
    BY <1>12, <2>2 DEF Reconcile, TypeOK, files, db, bounds
<1>13. CASE Store
  BY <1>13 DEF Store, End, TypeOK, files, watches, db, bounds
<1>14. CASE UNCHANGED vars
  BY <1>14 DEF vars, TypeOK, files, watches, applier, db, bounds
<1> QED
  BY <1>1, <1>2, <1>3, <1>4, <1>5, <1>6, <1>7, <1>8, <1>9, <1>10, <1>11, <1>12, <1>13, <1>14,
     <1>15, <1>16 DEF Next

LEMMA TypeInit ==
    ASSUME NEW N, Setting(N), Init
    PROVE  TypeOK
<1>1. config \subseteq Source /\ FilesOf(config) \subseteq File
  BY DEF Init, FilesOf
<1>2. watched \subseteq Dir
  BY <1>1, TargetsAreDirs DEF Init
<1>3. events \in Seq(Events) /\ mailbox \in Seq({Saved, Moved}) /\ inbox \in Seq(File)
  BY DEF Init
<1>4. draft \in [Writer -> SUBSET Source] /\ phase \in [Writer -> {"idle", "read", "cleared"}]
  BY DEF Init
<1>5. saves \in 0..MaxSaves /\ edits \in 0..MaxEdits
  BY ConfigReloadAssumption DEF Init
<1>6. known \subseteq File /\ active \subseteq known /\ mirrored \subseteq known
  BY <1>1 DEF Init
<1>7. /\ config \in SUBSET Source /\ snapshot \subseteq Source /\ cache = NoScope /\ conf = {}
      /\ {confWatch, confFirst} \subseteq BOOLEAN /\ cpc = "idle" /\ cjob = NoJob /\ wjob = NoJob
      /\ added = {} /\ deleted = {}
  BY DEF Init
<1> QED
  BY <1>2, <1>3, <1>4, <1>5, <1>6, <1>7 DEF TypeOK, Events

(***************************************************************************)
(* Everything the threads of a reload keep has the type the code gives it; *)
(* files in a handler's hands, with status 1 or at HEAD have a row.        *)
(***************************************************************************)
THEOREM Typing == ASSUME NEW N, Setting(N) PROVE Spec => []TypeOK
<1>1. Init => TypeOK /\ KnownInv
  BY TypeInit DEF Init, KnownInv
<1>2. TypeOK /\ KnownInv /\ [Next]_vars => (TypeOK /\ KnownInv)'
  BY TypeStep, KnownStep
<1> QED
  BY <1>1, <1>2, PTL DEF Spec

-----------------------------------------------------------------------------
(* The rest of the invariant. *)

\* Between two reloads the watches are those of the snapshot, and the one for
\* config.yaml is always there.
WatchInv ==
    /\ confWatch
    /\ cpc \in {"idle", "apply"} => watched = Targets(snapshot)
    /\ cpc = "store" => watched = Targets(conf)

LEMMA WatchStep ==
    ASSUME NEW N, Setting(N), TypeOK, WatchInv, [Next]_vars
    PROVE  WatchInv'
<1>1. CASE UNCHANGED <<watches, snapshot, cpc, conf>>
  BY <1>1 DEF WatchInv, watches, Targets
<1>2. ASSUME NEW w \in Writer, Read(w) \/ Clear(w) \/ Write(w) PROVE WatchInv'
  BY <1>1, <1>2 DEF Read, Clear, Write, applier
<1>3. ASSUME NEW f \in File, Edit(f) PROVE WatchInv'
  BY <1>1, <1>3 DEF Edit, applier
<1>4. CASE Dispatch \/ WorkerTake \/ WorkerRow \/ WorkerMirror \/ Recover
  BY <1>1, <1>4 DEF Dispatch, WorkerTake, WorkerRow, WorkerMirror, Recover, applier
<1>5. CASE UNCHANGED <<watches, snapshot>> /\ cpc \in {"idle", "apply"} /\ cpc' \in {"idle", "apply"}
  BY <1>5 DEF WatchInv, watches, Targets
<1>6. CASE ReadConfig \/ ApplyTake
  BY <1>1, <1>5, <1>6 DEF ReadConfig, ApplyTake, End, applier
<1>7. CASE ApplyRow \/ ApplyMirror
  BY <1>1, <1>5, <1>7 DEF ApplyRow, ApplyMirror, End, TypeOK
<1>8. CASE Reconcile
  <2>1. ConfDir \notin watched
    BY <1>8, TargetsAreDirs DEF Reconcile, WatchInv, TypeOK
  <2>2. ~(ConfDir \in watched \ Targets(conf) /\ confWatch /\ confFirst)
    BY <2>1
  <2>3. watched' = Targets(conf) /\ confWatch' /\ cpc' = "store" /\ conf' = conf
    BY <1>8, <2>2 DEF Reconcile, WatchInv
  <2> QED
    BY <2>3 DEF WatchInv, Targets
<1>9. CASE Store
  <2>1. watched' = watched /\ confWatch' = confWatch /\ cpc' = "idle" /\ snapshot' = conf
    BY <1>9 DEF Store, End, watches
  <2> QED
    BY <1>9, <2>1 DEF WatchInv, Store, Targets
<1>10. CASE UNCHANGED vars
  BY <1>1, <1>10 DEF vars, applier
<1> QED
  BY <1>2, <1>3, <1>4, <1>6, <1>7, <1>8, <1>9, <1>10 DEF Next

LEMMA WatchInit ==
    ASSUME Init
    PROVE  WatchInv
BY DEF Init, WatchInv

\* What the theorems need of a step: types and watches hold together.
Base == TypeOK /\ KnownInv /\ WatchInv

LEMMA BaseHolds ==
    ASSUME NEW N, Setting(N)
    PROVE  /\ Init => Base
           /\ Base /\ [Next]_vars => Base'
<1>1. Init => Base
  BY TypeInit, WatchInit DEF Init, KnownInv, Base
<1>2. Base /\ [Next]_vars => Base'
  BY TypeStep, KnownStep, WatchStep DEF Base
<1> QED
  BY <1>1, <1>2

(***************************************************************************)
(* The baseline is what the watches are for whenever no reload is under    *)
(* way: a handler that raises, or is overtaken by a rewrite, leaves both   *)
(* as they were (store_config_snapshot comes last, with what was applied). *)
(***************************************************************************)
THEOREM BaselineIsWatched == ASSUME NEW N, Setting(N) PROVE Spec => []BaselineIsApplied
<1>1. Init => Base
  BY BaseHolds
<1>2. Base /\ [Next]_vars => Base'
  BY BaseHolds
<1>3. Base => BaselineIsApplied
  BY DEF Base, WatchInv, BaselineIsApplied
<1> QED
  BY <1>1, <1>2, <1>3, PTL DEF Spec

-----------------------------------------------------------------------------
(* The scope cache. *)

StaleInv == cache \notin {NoScope, config} => Has(events, Saved) \/ Has(events, Moved)

LEMMA StaleSave ==
    ASSUME TypeOK, confWatch, NEW S, NEW e \in {Saved, Moved}, Save(S, e)
    PROVE  StaleInv'
<1>1. Has(events', e)
  BY NotifyFacts DEF Save, Events
<1> QED
  BY <1>1 DEF StaleInv, Has

\* The queue after its head is gone.
LEMMA TailHas ==
    ASSUME NEW T, NEW q \in Seq(T), q # <<>>, NEW x
    PROVE  /\ Has(q, x) => x = Head(q) \/ Has(Tail(q), x)
           /\ Has(Tail(q), x) => Has(q, x)
<1>1. Len(q) \in Nat /\ Len(q) > 0 /\ Len(Tail(q)) = Len(q) - 1
  OBVIOUS
<1>2. \A i \in 1..Len(Tail(q)) : Tail(q)[i] = q[i + 1]
  OBVIOUS
<1>3. Head(q) = q[1]
  OBVIOUS
<1>4. ASSUME Has(q, x), x # Head(q) PROVE Has(Tail(q), x)
  <2>1. PICK i \in 1..Len(q) : q[i] = x
    BY <1>4 DEF Has
  <2>2. i - 1 \in 1..Len(Tail(q)) /\ Tail(q)[i - 1] = x
    BY <1>1, <1>2, <1>3, <1>4, <2>1
  <2>3. Tail(q) \in Seq(T)
    OBVIOUS
  <2> QED
    BY <2>2, <2>3 DEF Has
<1>5. ASSUME Has(Tail(q), x) PROVE Has(q, x)
  <2>1. Tail(q) \in Seq(T)
    OBVIOUS
  <2>2. PICK i \in 1..Len(Tail(q)) : Tail(q)[i] = x
    BY <1>5, <2>1 DEF Has
  <2>3. i + 1 \in 1..Len(q) /\ q[i + 1] = x
    BY <1>1, <1>2, <2>2
  <2> QED
    BY <2>3 DEF Has
<1> QED
  BY <1>4, <1>5

LEMMA AppendHas ==
    ASSUME NEW T, NEW q \in Seq(T), NEW e \in T, NEW x
    PROVE  Has(Append(q, e), x) <=> Has(q, x) \/ x = e
<1>1. Len(q) \in Nat /\ Len(Append(q, e)) = Len(q) + 1 /\ Append(q, e) \in Seq(T)
  OBVIOUS
<1>2. /\ \A i \in 1..Len(q) : Append(q, e)[i] = q[i]
      /\ Append(q, e)[Len(q) + 1] = e
  OBVIOUS
<1>3. ASSUME Has(Append(q, e), x) PROVE Has(q, x) \/ x = e
  <2>1. PICK i \in 1..(Len(q) + 1) : Append(q, e)[i] = x
    BY <1>1, <1>3 DEF Has
  <2> QED
    BY <1>1, <1>2, <2>1 DEF Has
<1>4. ASSUME Has(q, x) PROVE Has(Append(q, e), x)
  BY <1>1, <1>2, <1>4 DEF Has
<1>5. ASSUME x = e PROVE Has(Append(q, e), x)
  BY <1>1, <1>2, <1>5 DEF Has
<1> QED
  BY <1>3, <1>4, <1>5

LEMMA StaleStep ==
    ASSUME NEW N, Setting(N), Base, StaleInv, [Next]_vars
    PROVE  StaleInv'
<1> USE DEF Base
<1>1. CASE UNCHANGED <<config, cache, events>>
  BY <1>1 DEF StaleInv, Has
<1>2. ASSUME NEW w \in Writer, Read(w) PROVE StaleInv'
  BY <1>1, <1>2 DEF Read
<1>3. ASSUME NEW w \in Writer, Clear(w) PROVE StaleInv'
  BY <1>3, StaleSave DEF Clear, WatchInv
<1>4. ASSUME NEW w \in Writer, Write(w) PROVE StaleInv'
  BY <1>4, StaleSave DEF Write, WatchInv, Setting
<1>5. ASSUME NEW f \in File, Edit(f) PROVE StaleInv'
  <2>1. (SubSeq(f, 1, Len(f) - 1) = ConfDir) \in BOOLEAN
    OBVIOUS
  <2>2. \A x : Has(events, x) => Has(events', x)
    BY <1>5, <2>1, NotifyFacts DEF Edit, Events
  <2>3. UNCHANGED <<config, cache>>
    BY <1>5 DEF Edit, files
  <2> QED
    BY <2>2, <2>3 DEF StaleInv, Has
<1>6. CASE Dispatch
  <2>1. /\ events # <<>> /\ events' = Tail(events) /\ config' = config
        /\ \/ Head(events) \notin File /\ cache' = NoScope
           \/ Head(events) \in File /\ cache' \in {NoScope, config, cache}
    BY <1>6 DEF Dispatch, Scope, files
  <2>2. CASE cache' \in {NoScope, config}
    BY <2>1, <2>2 DEF StaleInv
  <2>3. CASE Head(events) \in File /\ cache' = cache /\ cache \notin {NoScope, config}
    <3>1. Has(events, Saved) \/ Has(events, Moved)
      BY <2>3 DEF StaleInv
    <3>2. Saved # Head(events) /\ Moved # Head(events) /\ events \in Seq(Events)
      BY <2>3 DEF Setting, TypeOK, Events
    <3>3. Has(events', Saved) \/ Has(events', Moved)
      BY <2>1, <3>1, <3>2, TailHas
    <3> QED
      BY <3>3 DEF StaleInv, Has
  <2> QED
    BY <2>1, <2>2, <2>3
<1>7. CASE Recover
  BY <1>7, StaleSave DEF Recover, WatchInv
<1>8. CASE \/ WorkerTake \/ WorkerRow \/ WorkerMirror
           \/ ReadConfig \/ ApplyTake \/ ApplyRow \/ ApplyMirror \/ Reconcile \/ Store
  BY <1>1, <1>8 DEF WorkerTake, WorkerRow, WorkerMirror, ReadConfig, ApplyTake, ApplyRow,
     ApplyMirror, Reconcile, Store, files
<1>9. CASE UNCHANGED vars
  BY <1>1, <1>9 DEF vars, files
<1> QED
  BY <1>2, <1>3, <1>4, <1>5, <1>6, <1>7, <1>8, <1>9 DEF Next

(***************************************************************************)
(* A scope that is not that of config.yaml has an event in the observer's  *)
(* queue that will drop it, whoever rewrites the file and however often    *)
(* between two events of the dispatcher (_scope_cache).                    *)
(***************************************************************************)
THEOREM StaleScopeIsDropped == ASSUME NEW N, Setting(N) PROVE Spec => []StaleScopeHasEvent
<1>1. Init => Base /\ StaleInv
  BY BaseHolds DEF Init, StaleInv
<1>2. Base /\ StaleInv /\ [Next]_vars => (Base /\ StaleInv)'
  BY BaseHolds, StaleStep
<1>3. StaleInv => StaleScopeHasEvent
  BY DEF StaleInv, StaleScopeHasEvent, Has
<1> QED
  BY <1>1, <1>2, <1>3, PTL DEF Spec

-----------------------------------------------------------------------------
(* A reload that nothing disturbs. *)

\* What the next Saved event is compared with, unless another reload is done by
\* then.
Baseline == IF cpc = "idle" THEN snapshot ELSE conf

InHand == IF cjob = NoJob THEN {} ELSE {cjob.file}

\* As long as config.yaml has only grown and the source worker's mirror writes
\* have not failed: it is the baseline, an event says otherwise, or the last
\* reload raised; nothing is to be removed; and the files of the baseline have
\* their row and are at HEAD, or are yet to be handled.
SmoothInv ==
    ~rough =>
        /\ config # Missing
        /\ granted = FilesOf(config)
        /\ ~Has(events, Moved) /\ ~Has(mailbox, Moved)
        /\ snapshot \subseteq config
        /\ snapshot \subseteq Baseline /\ Baseline \subseteq config
        /\ Baseline # config =>
              (aborted /\ cpc = "idle") \/ Has(events, Saved) \/ Has(mailbox, Saved)
        /\ deleted = {}
        /\ FilesOf(snapshot) \subseteq active \intersect mirrored
        /\ FilesOf(Baseline) \subseteq active \union added \union InHand
        /\ FilesOf(Baseline) \subseteq mirrored \union added \union InHand
        /\ cjob # NoJob => cjob.add /\ Resolve(cjob.file, cjob.targets) # {}
        /\ cjob # NoJob /\ cjob.at = "mirror" => cjob.file \in active
        /\ cpc # "apply" => added = {}

\* A rewrite that takes nothing away leaves an event behind.
LEMMA SmoothSave ==
    ASSUME NEW N, Setting(N), Base, SmoothInv,
           NEW S, NEW e \in {Saved, Moved}, Save(S, e), S # Missing => e = Saved,
           UNCHANGED <<snapshot, applier, db, mirrored, mailbox, aborted>>
    PROVE  SmoothInv'
<1> SUFFICES ASSUME ~rough'
             PROVE  SmoothInv'
  BY DEF SmoothInv
<1>1. /\ ~rough /\ S # Missing /\ config # Missing /\ config \subseteq S
      /\ config' = S /\ granted' = granted \union FilesOf(S)
      /\ Notify(e, ConfDir, TRUE)
  BY DEF Save
<1>2. e = Saved /\ Saved # Moved
  BY <1>1 DEF Setting
<1>3. Has(events', Saved) /\ (Has(events', Moved) => Has(events, Moved))
  BY <1>1, <1>2, NotifyFacts DEF Base, WatchInv, Events
<1>4. granted' = FilesOf(config')
  BY <1>1, FilesOfSubset DEF SmoothInv
<1>5. UNCHANGED <<snapshot, cpc, conf, added, deleted, cjob, active, mirrored, mailbox, aborted>>
  BY DEF applier, db, Save
<1> QED
  BY <1>1, <1>3, <1>4, <1>5 DEF SmoothInv, Baseline, InHand, FilesOf, Has, Resolve

\* Neither config.yaml nor its reload is concerned.
LEMMA SmoothElse ==
    ASSUME SmoothInv, UNCHANGED <<config, granted, mailbox, snapshot, applier, aborted>>,
           rough' = rough \/ rough', active \subseteq active', mirrored \subseteq mirrored',
           Has(events', Moved) => Has(events, Moved),
           Has(events, Saved) => Has(events', Saved)
    PROVE  SmoothInv'
<1> SUFFICES ASSUME ~rough'
             PROVE  SmoothInv'
  BY DEF SmoothInv
<1>1. ~rough
  OBVIOUS
<1>2. UNCHANGED <<cpc, conf, added, deleted, cjob>>
  BY DEF applier
<1> QED
  BY <1>1, <1>2 DEF SmoothInv, Baseline, InHand, FilesOf, Has, Resolve

LEMMA SmoothReload ==
    ASSUME NEW N, Setting(N), Base, GrantedInv, SmoothInv, ~rough,
           ReadConfig \/ ApplyTake \/ ApplyRow \/ ApplyMirror \/ Reconcile \/ Store,
           ~rough'
    PROVE  SmoothInv'
<1>1. UNCHANGED <<config, granted, events>>
  BY DEF ReadConfig, ApplyTake, ApplyRow, ApplyMirror, Reconcile, Store, files, history
<1>2. config # Missing /\ config \in SUBSET Source
  BY DEF SmoothInv, Base, TypeOK
<1>3. CASE ReadConfig
  <2>1. /\ mailbox # <<>> /\ Head(mailbox) = Saved /\ mailbox' = Tail(mailbox)
        /\ cpc = "idle" /\ cpc' = "apply" /\ conf' = config
        /\ added' = FilesOf(config \ snapshot) /\ deleted' = FilesOf(snapshot \ config)
        /\ UNCHANGED <<cjob, snapshot, active, mirrored>>
    BY <1>2, <1>3 DEF ReadConfig, db
  <2>2. mailbox \in Seq({Saved, Moved})
    BY DEF Base, TypeOK
  <2>3. ~Has(mailbox', Moved)
    BY <2>1, <2>2, TailHas DEF SmoothInv
  <2>4. FilesOf(config) \subseteq FilesOf(snapshot) \union added'
    BY <2>1, FilesOfDifference
  <2>5. deleted' = {}
    BY <2>1 DEF SmoothInv, FilesOf, InScope
  <2>6. cjob' = NoJob
    BY <2>1 DEF Base, TypeOK
  <2>7. FilesOf(snapshot) \subseteq active /\ FilesOf(snapshot) \subseteq mirrored
    BY DEF SmoothInv
  <2> QED
    BY <1>1, <1>2, <2>1, <2>3, <2>4, <2>5, <2>6, <2>7 DEF SmoothInv, Baseline, InHand, FilesOf, Has
<1>4. CASE ApplyTake
  <2>1. /\ cpc = "apply" /\ cjob = NoJob /\ deleted = {} /\ ~End
        /\ UNCHANGED <<mailbox, snapshot, mirrored, active, cpc, conf, aborted>>
    BY <1>2, <1>4 DEF ApplyTake, End, SmoothInv, db, history
  <2>2. PICK f \in added : /\ cjob' # NoJob /\ cjob'.file = f /\ cjob'.add
                           /\ cjob'.at # "mirror" /\ cjob'.targets = Targets(config)
                           /\ added' = added \ {f}
    BY <1>4, <2>1, TakenJob DEF Base
  <2>3. f \in File /\ f \in FilesOf(config)
    BY DEF GrantedInv, SmoothInv, Base, TypeOK
  <2>4. Resolve(f, Targets(config)) # {}
    BY <1>2, <2>3, InScopeHasMirror
  <2>5. deleted' = {}
    BY <1>4, <2>1 DEF ApplyTake
  <2> QED
    BY <1>1, <2>1, <2>2, <2>4, <2>5 DEF SmoothInv, Baseline, InHand, FilesOf, Has, Resolve
<1>8. CASE End /\ aborted' /\ UNCHANGED <<mailbox, snapshot, active, mirrored>>
  BY <1>1, <1>8 DEF End, SmoothInv, Baseline, InHand, FilesOf, Has
<1>9. CASE ApplyRow
  <2>1. /\ cjob # NoJob /\ cpc = "apply" /\ cjob.add /\ Resolve(cjob.file, cjob.targets) # {}
        /\ cjob \in Jobs
        /\ UNCHANGED <<mailbox, snapshot, mirrored>>
    BY <1>9 DEF ApplyRow, SmoothInv, Base, TypeOK, Jobs
  <2>2. CASE Activate(cjob.file) /\ cjob' = [cjob EXCEPT !.at = "mirror"]
             /\ UNCHANGED <<cpc, conf, added, deleted, aborted>>
    <3>1. /\ cjob' \in Jobs /\ cjob'.file = cjob.file /\ cjob'.add /\ cjob'.targets = cjob.targets
      BY <2>1, <2>2 DEF Jobs
    <3>2. cjob' # NoJob
      BY <3>1 DEF Jobs, Setting
    <3> QED
      BY <1>1, <2>1, <2>2, <3>1, <3>2
         DEF Activate, SmoothInv, Baseline, InHand, FilesOf, Has, Resolve
  <2> QED
    BY <1>8, <1>9, <2>1, <2>2 DEF ApplyRow, db
<1>5. CASE ApplyMirror
  <2>1. /\ cjob # NoJob /\ cpc = "apply" /\ cjob.add /\ Resolve(cjob.file, cjob.targets) # {}
        /\ cjob.file \in active
    BY <1>5 DEF ApplyMirror, SmoothInv, Base, TypeOK
  <2>2. CASE /\ mirrored' = mirrored \union {cjob.file} /\ cjob' = NoJob
             /\ UNCHANGED <<mailbox, snapshot, active, cpc, conf, added, deleted, aborted>>
    BY <1>1, <2>1, <2>2 DEF SmoothInv, Baseline, InHand, FilesOf, Has
  <2> QED
    BY <1>5, <1>8, <2>1, <2>2 DEF ApplyMirror, db
<1>6. CASE Reconcile
  <2>1. /\ cpc = "apply" /\ cpc' = "store" /\ cjob = NoJob /\ added = {}
        /\ UNCHANGED <<mailbox, snapshot, active, mirrored, conf, added, deleted, cjob, aborted>>
    BY <1>6 DEF Reconcile, db, history
  <2> QED
    BY <1>1, <2>1 DEF SmoothInv, Baseline, InHand, FilesOf, Has
<1>7. CASE Store
  <2>1. /\ cpc = "store" /\ cpc' = "idle" /\ snapshot' = conf /\ added' = {} /\ deleted' = {}
        /\ cjob' = NoJob /\ UNCHANGED <<mailbox, active, mirrored>>
    BY <1>7 DEF Store, End, db
  <2>2. cjob = NoJob /\ added = {}
    BY <2>1 DEF Base, TypeOK, SmoothInv
  <2>3. Baseline = conf /\ Baseline' = conf
    BY <2>1 DEF Baseline
  <2>4. FilesOf(conf) \subseteq active /\ FilesOf(conf) \subseteq mirrored
    BY <2>2, <2>3 DEF SmoothInv, InHand
  <2> QED
    BY <1>1, <2>1, <2>3, <2>4 DEF SmoothInv, InHand, FilesOf, Has
<1> QED
  BY <1>3, <1>4, <1>5, <1>6, <1>7, <1>9

LEMMA SmoothStep ==
    ASSUME NEW N, Setting(N), Base, GrantedInv, SmoothInv, [Next]_vars
    PROVE  SmoothInv'
<1> USE DEF Base
<1>1. ASSUME NEW w \in Writer, Read(w) PROVE SmoothInv'
  BY <1>1, SmoothElse DEF Read, db, history
<1>2. ASSUME NEW w \in Writer, Clear(w) PROVE SmoothInv'
  <2>1. UNCHANGED <<snapshot, applier, db, mirrored, mailbox, aborted>>
    BY <1>2 DEF Clear, Save
  <2>2. CASE Save({}, Saved)
    BY <2>1, <2>2, SmoothSave
  <2>3. CASE Save(Missing, Moved)
    BY <2>1, <2>3, SmoothSave
  <2> QED
    BY <1>2, <2>2, <2>3 DEF Clear
<1>3. ASSUME NEW w \in Writer, Write(w) PROVE SmoothInv'
  <2>1. UNCHANGED <<snapshot, applier, db, mirrored, mailbox, aborted>> /\ Save(draft[w], Saved)
    BY <1>3 DEF Write, Save, Setting
  <2> QED
    BY <2>1, SmoothSave
<1>4. ASSUME NEW f \in File, Edit(f) PROVE SmoothInv'
  <2>1. (SubSeq(f, 1, Len(f) - 1) = ConfDir) \in BOOLEAN /\ f # Moved
    BY DEF Setting
  <2>2. /\ Has(events', Moved) => Has(events, Moved)
        /\ Has(events, Saved) => Has(events', Saved)
    BY <1>4, <2>1, NotifyFacts DEF Edit, Events
  <2> QED
    BY <1>4, <2>2, SmoothElse DEF Edit, files, db, history
<1>5. CASE Dispatch
  <2> SUFFICES ASSUME ~rough'
               PROVE  SmoothInv'
    BY DEF SmoothInv
  <2>1. UNCHANGED <<config, granted, snapshot, cpc, conf, added, deleted, cjob, active, mirrored, aborted>>
        /\ ~rough
    BY <1>5 DEF Dispatch, files, applier, db, history
  <2>2. /\ events \in Seq(Events) /\ events # <<>> /\ events' = Tail(events)
        /\ mailbox \in Seq({Saved, Moved}) /\ Head(events) \in Events
    BY <1>5 DEF Dispatch, TypeOK, Events
  <2>3. CASE Head(events) \in File
    <3>1. mailbox' = mailbox /\ Head(events) # Saved
      BY <1>5, <2>3 DEF Dispatch, Setting
    <3>2. (Has(events, Saved) => Has(events', Saved)) /\ (Has(events', Moved) => Has(events, Moved))
      BY <2>2, <3>1, TailHas
    <3> QED
      BY <2>1, <3>1, <3>2 DEF SmoothInv, Baseline, InHand, FilesOf, Has, Resolve
  <2>4. CASE Head(events) \notin File
    <3>1. mailbox' = Append(mailbox, Head(events)) /\ Head(events) \in {Saved, Moved}
      BY <1>5, <2>2, <2>4 DEF Dispatch, Events
    <3>2. ~Has(events, Moved) => ~Has(events', Moved) /\ Head(events) # Moved
      <4>1. Head(events) = events[1] /\ 1 \in DOMAIN events
        BY <2>2
      <4> QED
        BY <2>2, <4>1, TailHas DEF Has
    <3>3. \A x : Has(mailbox', x) <=> Has(mailbox, x) \/ x = Head(events)
      BY <2>2, <3>1, AppendHas
    <3>4. Has(events, Saved) \/ Has(mailbox, Saved) => Has(events', Saved) \/ Has(mailbox', Saved)
      BY <2>2, <3>3, TailHas
    <3>5. ~Has(events', Moved) /\ ~Has(mailbox', Moved)
      BY <2>1, <3>2, <3>3 DEF SmoothInv
    <3> QED
      BY <2>1, <3>4, <3>5 DEF SmoothInv, Baseline, InHand, FilesOf, Has, Resolve
  <2> QED
    BY <2>3, <2>4
<1>6. CASE WorkerTake
  BY <1>6, SmoothElse DEF WorkerTake, files, db, history
<1>11. CASE WorkerRow
  <2>1. active \subseteq active'
    BY <1>11 DEF WorkerRow, Activate, db
  <2> QED
    BY <1>11, <2>1, SmoothElse DEF WorkerRow, files, history
<1>7. CASE WorkerMirror
  BY <1>7, SmoothElse DEF WorkerMirror, files, db
<1>8. CASE Recover
  <2>1. rough
    <3>1. Has(mailbox, Moved)
      BY <1>8 DEF Recover, Has, TypeOK
    <3> QED
      BY <3>1 DEF SmoothInv
  <2> QED
    BY <1>8, <2>1 DEF Recover, Save, SmoothInv
<1>9. CASE ReadConfig \/ ApplyTake \/ ApplyRow \/ ApplyMirror \/ Reconcile \/ Store
  <2>1. rough => rough'
    BY <1>9 DEF ReadConfig, ApplyTake, ApplyRow, ApplyMirror, Reconcile, Store, history
  <2> QED
    BY <1>9, <2>1, SmoothReload DEF SmoothInv
<1>10. CASE UNCHANGED vars
  BY <1>10, SmoothElse DEF vars, files, db, history
<1> QED
  BY <1>1, <1>2, <1>3, <1>4, <1>5, <1>6, <1>7, <1>8, <1>9, <1>10, <1>11 DEF Next

LEMMA SmoothInit ==
    ASSUME NEW N, Setting(N), Init
    PROVE  SmoothInv /\ GrantedInv
<1>1. config # Missing
  BY DEF Init, Setting
<1>2. inbox \in Seq(granted)
  BY DEF Init
<1> QED
  BY <1>1, <1>2 DEF Init, SmoothInv, GrantedInv, Baseline, InHand, Has

(***************************************************************************)
(* Once nothing is under way, the last rewrite of config.yaml is applied   *)
(* to the snapshot, the watches, the rows and the mirrors, however many    *)
(* writers there were, whatever their rewrites met of an earlier reload    *)
(* and wherever that raised; unless a source was lost, config.yaml was     *)
(* gone or the source worker's mirror write failed at some time, or the    *)
(* last reload itself raised: its mirror write failed, or the source       *)
(* worker had inserted a row since it looked (ConfigConsumer.handle).      *)
(***************************************************************************)
THEOREM ReloadsConverge == ASSUME NEW N, Setting(N) PROVE Spec => []QuiescentMeansApplied
<1> DEFINE IInv == Base /\ GrantedInv /\ SmoothInv
<1>1. Init => IInv
  BY BaseHolds, SmoothInit
<1>2. IInv /\ [Next]_vars => IInv'
  BY BaseHolds, GrantedStep, SmoothStep
<1>3. IInv => QuiescentMeansApplied
  <2> SUFFICES ASSUME IInv, Quiet, ~rough, ~aborted
               PROVE  Applied
    BY DEF QuiescentMeansApplied
  <2>1. ~Has(events, Saved) /\ ~Has(mailbox, Saved)
    BY DEF Quiet, Has
  <2>2. snapshot = config /\ config # Missing
    BY <2>1 DEF SmoothInv, Baseline, Quiet
  <2>3. watched = Targets(config)
    BY <2>2 DEF Base, WatchInv, Quiet
  <2>4. active \subseteq FilesOf(config) /\ mirrored \subseteq FilesOf(config)
    BY DEF SmoothInv, GrantedInv, Base, TypeOK
  <2>5. FilesOf(config) \subseteq active /\ FilesOf(config) \subseteq mirrored
    BY <2>2 DEF SmoothInv, InHand
  <2> QED
    BY <2>2, <2>3, <2>4, <2>5 DEF Applied
<1> QED
  BY <1>1, <1>2, <1>3, PTL DEF Spec

=============================================================================

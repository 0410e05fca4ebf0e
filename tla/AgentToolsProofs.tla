--------------------------- MODULE AgentToolsProofs ---------------------------
(***************************************************************************)
(* What AgentTools promises for any agents, files and contents.            *)
(***************************************************************************)
EXTENDS AgentTools, FiniteSetTheorems, SequenceTheorems, TLAPS

\* A call that is at a path has one, and one that persists approvals too.
Shaped(c) ==
    /\ c.at \in {"scope", "ask"} => c.todo # <<>>
    /\ c.at = "persist" => c.grants # <<>>

Shape == \A a \in Agent : call[a] # None => Shaped(call[a])

-----------------------------------------------------------------------------
\* Where no call is None, and none is an agent or a content.
LEMMA NoneApart == None \notin Text /\ None \notin Agent
  BY AgentToolsAssumption DEF AgentToolsAssumption

\* What is left of a sequence of two or more.
LEMMA TailMore ==
  ASSUME NEW S, NEW s \in Seq(S), Len(s) > 1
  PROVE  Tail(s) \in Seq(S) /\ Tail(s) # <<>>
  <1>1. s # <<>>
    BY EmptySeq
  <1>2. Tail(s) \in Seq(S) /\ Len(Tail(s)) = Len(s) - 1
    BY <1>1, HeadTailProperties
  <1>3. Len(s) \in Nat
    BY LenProperties
  <1>4. Len(Tail(s)) # 0
    BY <1>2, <1>3
  <1> QED
    BY <1>2, <1>4, EmptySeq

\* The paths of a call, and what is granted to it.
LEMMA PathsType ==
  ASSUME NEW c \in Call
  PROVE  Paths(c) \in Seq(Path) /\ Paths(c) # <<>>
  BY DEF Paths, Call

LEMMA GrantedType ==
  ASSUME NEW c \in Call, Shaped(c), c.at \in {"scope", "ask"}
  PROVE  Granted(c) \in Call /\ Shaped(Granted(c))
  <1>1. CASE Len(c.todo) > 1
    <2>1. c.todo \in Seq(Path) /\ Tail(c.todo) \in Seq(Path) /\ Tail(c.todo) # <<>>
      <3>1. c.todo \in Seq(Path)
        BY DEF Call
      <3> QED
        BY <1>1, <3>1, TailMore
    <2>2. Granted(c) = [c EXCEPT !.at = "scope", !.todo = Tail(@)]
      BY <1>1 DEF Granted
    <2> QED
      BY <2>1, <2>2 DEF Call, Shaped
  <1>2. CASE ~(Len(c.todo) > 1)
    <2>1. Granted(c) = [c EXCEPT !.at = IF c.tool = "read" THEN "read"
                                        ELSE IF c.want # 0 THEN "check" ELSE "hint",
                                 !.todo = Paths(c)]
      BY <1>2 DEF Granted
    <2> QED
      BY <2>1, PathsType DEF Call, Shaped
  <1> QED
    BY <1>1, <1>2

\* One agent's call changes; the other variables that a step leaves alone keep
\* their types.
LEMMA CallChanges ==
  ASSUME TypeOK, Shape, NEW a \in Agent, NEW c \in Call \union {None},
         c # None => Shaped(c), call' = [call EXCEPT ![a] = c]
  PROVE  /\ call' \in [Agent -> Call \union {None}]
         /\ Shape'
  <1>1. call' \in [Agent -> Call \union {None}]
    BY DEF TypeOK
  <1>2. ASSUME NEW b \in Agent, call'[b] # None PROVE Shaped(call'[b])
    BY <1>2 DEF TypeOK, Shape
  <1> QED
    BY <1>1, <1>2 DEF Shape

\* A step that only changes a call.
LEMMA GotoStep ==
  ASSUME TypeOK, Shape, NEW a \in Agent, NEW c \in Call \union {None},
         c # None => Shaped(c), Goto(a, c)
  PROVE  TypeOK' /\ Shape'
  <1>1. call' \in [Agent -> Call \union {None}] /\ Shape'
    BY CallChanges DEF Goto
  <1> QED
    BY <1>1 DEF Goto, TypeOK, mirror, history

\* The call an agent is at has the type of one, and its shape.
LEMMA CallAt ==
  ASSUME TypeOK, Shape, NEW a \in Agent, NEW at, At(a, at)
  PROVE  /\ call[a] \in Call
         /\ Shaped(call[a])
         /\ call[a].at = at
  BY DEF At, TypeOK, Shape

\* Every step of a call up to its operation.
LEMMA PreludeStep ==
  ASSUME TypeOK, Shape, NEW a \in Agent,
         \/ InScope(a) \/ Ask(a) \/ Approve(a) \/ Refuse(a)
         \/ Check(a) \/ Conflict(a) \/ Fail(a) \/ ReadFails(a) \/ PersistFails(a)
         \/ ReadText(a)
  PROVE  TypeOK' /\ Shape'
  <1>1. CASE InScope(a)
    <2>1. Granted(call[a]) \in Call /\ Shaped(Granted(call[a]))
      BY <1>1, CallAt, GrantedType DEF InScope
    <2> QED
      BY <1>1, <2>1, GotoStep DEF InScope
  <1>2. CASE Ask(a)
    <2> DEFINE c == [call[a] EXCEPT !.at = "ask"]
    <2>1. call[a] \in Call /\ Shaped(call[a]) /\ call[a].at = "scope"
      BY <1>2, CallAt DEF Ask
    <2>2. c \in Call /\ Shaped(c)
      BY <2>1 DEF Call, Shaped
    <2> QED
      BY <1>2, <2>2, GotoStep DEF Ask
  <1>3. CASE Approve(a)
    <2> DEFINE c == [call[a] EXCEPT !.grants = Append(@, Head(call[a].todo))]
    <2>1. call[a] \in Call /\ Shaped(call[a]) /\ call[a].at = "ask"
      BY <1>3, CallAt DEF Approve
    <2>2. call[a].todo \in Seq(Path) /\ call[a].todo # <<>> /\ call[a].grants \in Seq(Path)
      BY <2>1 DEF Call, Shaped
    <2>3. Append(call[a].grants, Head(call[a].todo)) \in Seq(Path)
      BY <2>2
    <2>4. c \in Call /\ Shaped(c) /\ c.at = "ask"
      BY <2>1, <2>3 DEF Call, Shaped
    <2>5. Granted(c) \in Call /\ Shaped(Granted(c))
      BY <2>4, GrantedType
    <2> QED
      BY <1>3, <2>5, GotoStep DEF Approve
  <1>4. CASE Refuse(a) \/ Conflict(a) \/ Fail(a) \/ ReadFails(a) \/ PersistFails(a)
    BY <1>4, GotoStep DEF Refuse, Conflict, Fail, ReadFails, PersistFails, Return
  <1>5. CASE Check(a)
    <2> DEFINE p == call[a].path
               c == [call[a] EXCEPT !.at = "hint",
                                    !.checked = IF UpToDate(p) THEN disk[p] ELSE None]
    <2>1. call[a] \in Call
      BY <1>5, CallAt DEF Check
    <2>2. c \in Call /\ Shaped(c)
      <3>1. disk[p] \in Text \union {None}
        BY <2>1 DEF TypeOK, Call
      <3> QED
        BY <2>1, <3>1 DEF Call, Shaped
    <2> QED
      BY <1>5, <2>2, GotoStep DEF Check, Accept
  <1>6. CASE ReadText(a)
    <2>1. call[a] \in Call
      BY <1>6, CallAt DEF ReadText
    <2>2. CASE Exists(call[a].path)
      <3> DEFINE p == call[a].path
                 w == IF UpToDate(p) THEN version[p] ELSE 0
                 c == [call[a] EXCEPT !.at = "version", !.text = disk[p], !.was = w]
      <3>1. p \in Path /\ disk[p] \in Text /\ w \in Nat
        BY <2>1, <2>2 DEF TypeOK, Call, Exists
      <3>2. c \in Call /\ Shaped(c)
        BY <2>1, <3>1 DEF Call, Shaped
      <3> QED
        BY <1>6, <2>2, <3>2, GotoStep DEF ReadText
    <2>3. CASE ~Exists(call[a].path)
      BY <1>6, <2>3, GotoStep DEF ReadText, Return
    <2> QED
      BY <2>2, <2>3
  <1> QED
    BY <1>1, <1>2, <1>3, <1>4, <1>5, <1>6

\* A change on the disk is an event, or none.
LEMMA PublishType ==
  ASSUME TypeOK, NEW e \in Event, Publish(e)
  PROVE  events' \in Seq(Event)
  <1>1. Append(events, e) \in Seq(Event)
    BY DEF TypeOK
  <1> QED
    BY <1>1 DEF Publish, TypeOK

LEMMA EvType ==
  ASSUME NEW kind \in {"created", "modified", "deleted", "moved", "scan"},
         NEW p \in Path, NEW q \in Path
  PROVE  Ev(kind, p, q) \in Event
  BY DEF Ev, Event

\* A call that has done its operation ends or persists what was approved.
LEMMA SucceedType ==
  ASSUME TypeOK, Shape, NEW a \in Agent, NEW at, At(a, at), Succeed(a)
  PROVE  /\ call' \in [Agent -> Call \union {None}]
         /\ Shape'
         /\ earned' \subseteq Path
  <1> DEFINE c == IF call[a].grants = <<>> THEN None ELSE [call[a] EXCEPT !.at = "persist"]
  <1>1. call[a] \in Call /\ Shaped(call[a])
    BY CallAt
  <1>2. c \in Call \union {None} /\ (c # None => Shaped(c))
    BY <1>1 DEF Call, Shaped
  <1>3. call' = [call EXCEPT ![a] = c]
    BY DEF Succeed
  <1>4. call' \in [Agent -> Call \union {None}] /\ Shape'
    BY <1>2, <1>3, CallChanges
  <1>5. call[a].grants \in Seq(Path)
    BY <1>1 DEF Call
  <1>6. \A i \in DOMAIN call[a].grants : call[a].grants[i] \in Path
    BY <1>5, LenProperties
  <1>7. earned' \subseteq Path
    BY <1>6 DEF Succeed, TypeOK
  <1> QED
    BY <1>4, <1>7

\* The operations.
LEMMA OperationStep ==
  ASSUME TypeOK, Shape, NEW a \in Agent,
         Write(a) \/ WriteFails(a) \/ Delete(a) \/ Move(a)
  PROVE  TypeOK' /\ Shape'
  <1> USE AgentToolsAssumption DEF AgentToolsAssumption
  <1> DEFINE p == call[a].path
             q == call[a].dst
  <1>1. At(a, "hint")
    BY DEF Write, WriteFails, Delete, Move, Ready
  <1>2. call[a] \in Call
    BY <1>1, CallAt
  <1>3. p \in Path /\ q \in Path /\ call[a].text \in Text
    BY <1>2 DEF Call
  <1>4. /\ config' = config /\ text' = text /\ version' = version /\ hint' = hint
        /\ task' = task /\ seen' = seen /\ calls' = calls /\ edits' = edits
        /\ credit' = credit
    BY DEF Write, WriteFails, Delete, Move, Ready, mirror
  <1>5. disk' \in [Path -> Text \union {None}]
    BY <1>3 DEF Write, WriteFails, Delete, Move, Save, TypeOK, Exists
  <1>6. events' \in Seq(Event)
    <2>1. \E kind \in {"created", "modified", "deleted", "moved", "scan"} :
             Publish(Ev(kind, p, p)) \/ Publish(Ev(kind, p, q))
      BY DEF Write, WriteFails, Delete, Move, Save
    <2> QED
      BY <1>3, <2>1, EvType, PublishType
  <1>7. call' \in [Agent -> Call \union {None}] /\ Shape' /\ earned' \subseteq Path
    <2>1. CASE Succeed(a)
      BY <1>1, <2>1, SucceedType
    <2>2. CASE WriteFails(a)
      BY <2>2, CallChanges DEF WriteFails, TypeOK
    <2> QED
      BY <2>1, <2>2 DEF Write, Delete, Move
  <1> QED
    BY <1>4, <1>5, <1>6, <1>7 DEF TypeOK

\* A call begins, leaves a hint, learns a version, persists an approval.
LEMMA BookkeepingStep ==
  ASSUME TypeOK, Shape, NEW a \in Agent,
         \/ \E tool \in {"read", "write", "delete", "move"}, p, q \in Path, t \in Text :
               \E w \in {0} \union (IF seen[a] = None THEN {} ELSE {seen[a].version}) :
                  Begin(a, tool, p, q, t, w)
         \/ SetHint(a) \/ ReadVersion(a) \/ Persist(a)
  PROVE  TypeOK' /\ Shape'
  <1> USE AgentToolsAssumption DEF AgentToolsAssumption
  <1>1. ASSUME NEW tool \in {"read", "write", "delete", "move"}, NEW p \in Path,
               NEW q \in Path, NEW t \in Text,
               NEW w \in {0} \union (IF seen[a] = None THEN {} ELSE {seen[a].version}),
               Begin(a, tool, p, q, t, w)
        PROVE  TypeOK' /\ Shape'
    <2> DEFINE b == [tool |-> tool, path |-> p, dst |-> q, text |-> t, want |-> w,
                     at |-> "scope", todo |-> <<>>, grants |-> <<>>, was |-> 0, checked |-> None]
               c == [b EXCEPT !.todo = Paths(b)]
    <2>1. w \in Nat
      BY DEF TypeOK
    <2>2. <<>> \in Seq(Path)
      OBVIOUS
    <2>3. b \in Call
      BY <2>1, <2>2 DEF Call
    <2>4. Paths(b) \in Seq(Path) /\ Paths(b) # <<>>
      BY <2>3, PathsType
    <2>5. c \in Call /\ Shaped(c)
      BY <2>3, <2>4 DEF Call, Shaped
    <2>6. call' \in [Agent -> Call \union {None}] /\ Shape'
      <3>1. call' = [call EXCEPT ![a] = c]
        BY <1>1 DEF Begin
      <3> QED
        BY <2>5, <3>1, CallChanges
    <2>7. calls' \in 0..MaxCalls
      <3>1. calls' = calls + 1 /\ calls < MaxCalls
        BY <1>1 DEF Begin
      <3>2. calls \in Nat /\ MaxCalls \in Nat
        BY DEF TypeOK
      <3> QED
        BY ONLY <3>1, <3>2
    <2> QED
      BY <1>1, <2>6, <2>7 DEF Begin, TypeOK, mirror, history
  <1>2. CASE SetHint(a)
    <2> DEFINE c == [call[a] EXCEPT !.todo = Tail(@)]
    <2>1. call[a] \in Call /\ call[a].at = "hint" /\ call[a].todo # <<>>
      BY <1>2, CallAt DEF SetHint
    <2>2. call[a].todo \in Seq(Path)
      BY <2>1 DEF Call
    <2>3. Head(call[a].todo) \in Path /\ Tail(call[a].todo) \in Seq(Path)
      BY <2>1, <2>2
    <2>4. c \in Call /\ Shaped(c)
      BY <2>1, <2>3 DEF Call, Shaped
    <2>5. call' = [call EXCEPT ![a] = c]
      BY <1>2 DEF SetHint
    <2>6. call' \in [Agent -> Call \union {None}] /\ Shape'
      BY <2>4, <2>5, CallChanges
    <2>7. hint' \in [Path -> Agent \union {None}]
      BY <1>2, <2>3 DEF SetHint, TypeOK
    <2>8. credit' \in [Agent -> Int]
      BY <1>2, <2>3 DEF SetHint, TypeOK
    <2> QED
      BY <1>2, <2>6, <2>7, <2>8 DEF SetHint, TypeOK, mirror
  <1>3. CASE ReadVersion(a)
    <2>1. At(a, "version") /\ Succeed(a)
      BY <1>3 DEF ReadVersion
    <2>2. call' \in [Agent -> Call \union {None}] /\ Shape' /\ earned' \subseteq Path
      BY <2>1, SucceedType
    <2>3. call[a].path \in Path /\ call[a].text \in Text
      BY <2>1, CallAt DEF Call
    <2>4. seen' \in [Agent -> [path : Path, text : Text, version : Nat, sound : BOOLEAN]
                                 \union {None}]
      BY <1>3, <2>3 DEF ReadVersion, TypeOK
    <2> QED
      BY <1>3, <2>2, <2>4 DEF ReadVersion, TypeOK, mirror
  <1>4. CASE Persist(a)
    <2> DEFINE c == IF Len(call[a].grants) = 1 THEN None
                    ELSE [call[a] EXCEPT !.grants = Tail(@)]
    <2>1. call[a] \in Call /\ Shaped(call[a]) /\ call[a].at = "persist"
      BY <1>4, CallAt DEF Persist
    <2>2. call[a].grants \in Seq(Path) /\ call[a].grants # <<>>
      BY <2>1 DEF Call, Shaped
    <2>3. Head(call[a].grants) \in Path /\ Tail(call[a].grants) \in Seq(Path)
      BY <2>2
    <2>4. Len(call[a].grants) # 1 => Tail(call[a].grants) # <<>>
      <3>1. Len(call[a].grants) \in Nat \ {0}
        BY <2>2, EmptySeq
      <3>2. \A n \in Nat \ {0} : n # 1 => n > 1
        OBVIOUS
      <3>3. Len(call[a].grants) # 1 => Len(call[a].grants) > 1
        BY ONLY <3>1, <3>2
      <3> QED
        BY <2>2, <3>3, TailMore
    <2>5. c \in Call \union {None} /\ (c # None => Shaped(c))
      BY <2>1, <2>3, <2>4 DEF Call, Shaped
    <2>6. call' = [call EXCEPT ![a] = c]
      BY <1>4 DEF Persist
    <2>7. call' \in [Agent -> Call \union {None}] /\ Shape'
      BY <2>5, <2>6, CallChanges
    <2>8. events' \in Seq(Event)
      <3>1. Append(events, Ev("scan", Head(call[a].grants), Head(call[a].grants))) \in Seq(Event)
        BY <2>3, EvType DEF TypeOK
      <3> QED
        BY <1>4, <3>1 DEF Persist, TypeOK
    <2>9. config' \subseteq Path
      BY <1>4, <2>3 DEF Persist, TypeOK
    <2> QED
      BY <1>4, <2>7, <2>8, <2>9 DEF Persist, TypeOK, mirror, history
  <1> QED
    BY <1>1, <1>2, <1>3, <1>4

\* The user, time and the daemon.
LEMMA WorldStep ==
  ASSUME TypeOK, Shape,
         (\E p \in Path : Edit(p) \/ Expire(p)) \/ Daemon
  PROVE  TypeOK' /\ Shape'
  <1> USE AgentToolsAssumption DEF AgentToolsAssumption
  <1>1. call' = call
    BY DEF Edit, Expire, Daemon, Take, Consume, Commit, agents
  <1>2. Shape'
    BY <1>1 DEF Shape
  <1>3. ASSUME NEW p \in Path, Edit(p) PROVE TypeOK'
    <2>1. PICK t \in Text \union {None} :
             /\ disk' = [disk EXCEPT ![p] = t]
             /\ Publish(Ev(IF t = None THEN "deleted"
                           ELSE IF Exists(p) THEN "modified" ELSE "created", p, p))
      BY <1>3 DEF Edit
    <2>2. events' \in Seq(Event)
      BY <2>1, EvType, PublishType
    <2>3. edits' \in 0..MaxEdits
      <3>1. edits' = edits + 1 /\ edits < MaxEdits
        BY <1>3 DEF Edit
      <3>2. edits \in Nat /\ MaxEdits \in Nat
        BY DEF TypeOK
      <3> QED
        BY ONLY <3>1, <3>2
    <2>4. disk' \in [Path -> Text \union {None}]
      BY <2>1 DEF TypeOK
    <2> QED
      BY <1>3, <2>2, <2>3, <2>4 DEF Edit, TypeOK, mirror, agents, history
  <1>4. ASSUME NEW p \in Path, Expire(p) PROVE TypeOK'
    BY <1>4 DEF Expire, TypeOK, mirror, agents, history
  <1>5. CASE Take
    <2>1. Head(events) \in Event /\ Tail(events) \in Seq(Event)
      BY <1>5 DEF Take, TypeOK
    <2>2. Head(events).src \in Path
      BY <2>1 DEF Event
    <2>3. task' \in Task
      BY <1>5, <2>1, <2>2 DEF Take, Task, TypeOK
    <2>4. events' \in Seq(Event)
      BY <1>5, <2>1 DEF Take
    <2> QED
      BY <1>2, <1>5, <2>3, <2>4 DEF Take, TypeOK, mirror, agents, history
  <1>6. CASE Consume
    <2>1. task \in Task
      BY <1>6 DEF Consume, TypeOK
    <2>2. task.event.dst \in Path
      BY <2>1 DEF Task, Event
    <2>3. hint' \in [Path -> Agent \union {None}]
      BY <1>6 DEF Consume, TypeOK
    <2>4. hint'[task.event.dst] \in Agent \union {None}
      BY <2>2, <2>3
    <2>5. task' \in Task
      BY <1>6, <2>1, <2>2, <2>4 DEF Consume, Task
    <2> QED
      BY <1>2, <1>6, <2>3, <2>5 DEF Consume, TypeOK, mirror, agents, history
  <1>7. CASE Commit
    <2>1. task \in Task
      BY <1>7 DEF Commit, TypeOK
    <2>2. task.event.src \in Path /\ task.event.dst \in Path
      BY <2>1 DEF Task, Event
    <2>3. text' \in [Path -> Text \union {None}]
      <3>1. \A p \in Path : Exists(p) => disk[p] \in Text \union {None}
        BY DEF TypeOK
      <3> QED
        BY <1>7, <2>2, <3>1 DEF Commit, After, Created, Deleted, TypeOK
    <2>4. version' \in [Path -> Nat]
      BY <1>7 DEF Commit, TypeOK
    <2>5. credit' \in [Agent -> Int]
      BY <1>7, <2>1 DEF Commit, Task, TypeOK
    <2> QED
      BY <1>2, <1>7, <2>3, <2>4, <2>5 DEF Commit, TypeOK, agents
  <1> QED
    BY <1>2, <1>3, <1>4, <1>5, <1>6, <1>7 DEF Daemon

\* No step takes a variable out of its set.
LEMMA TypeStep == TypeOK /\ Shape /\ [Next]_vars => TypeOK' /\ Shape'
  <1> SUFFICES ASSUME TypeOK, Shape, [Next]_vars PROVE TypeOK' /\ Shape'
    OBVIOUS
  <1>1. ASSUME NEW a \in Agent, Server(a) PROVE TypeOK' /\ Shape'
    BY <1>1, PreludeStep, OperationStep, BookkeepingStep DEF Server
  <1>2. ASSUME NEW a \in Agent, NEW tool \in {"read", "write", "delete", "move"},
               NEW p \in Path, NEW q \in Path, NEW t \in Text,
               NEW w \in {0} \union (IF seen[a] = None THEN {} ELSE {seen[a].version}),
               Begin(a, tool, p, q, t, w)
        PROVE  TypeOK' /\ Shape'
    BY <1>2, BookkeepingStep
  <1>3. CASE (\E p \in Path : Edit(p) \/ Expire(p)) \/ Daemon
    BY <1>3, WorldStep
  <1>4. CASE UNCHANGED vars
    BY <1>4 DEF vars, TypeOK, Shape, mirror, agents, history
  <1> QED
    BY <1>1, <1>2, <1>3, <1>4 DEF Next

LEMMA TypeInit == Init => TypeOK /\ Shape
  <1> SUFFICES ASSUME Init PROVE TypeOK /\ Shape
    OBVIOUS
  <1> USE AgentToolsAssumption DEF AgentToolsAssumption
  <1>1. <<>> \in Seq(Event)
    OBVIOUS
  <1>2. call \in [Agent -> Call \union {None}] /\ Shape
    BY DEF Init, Shape
  <1> QED
    BY <1>1, <1>2 DEF Init, TypeOK

(***************************************************************************)
(* The variables keep their types, and a call that waits for a path or an  *)
(* approval has one (the tools of server.py).                              *)
(***************************************************************************)
THEOREM Typing == Spec => []TypeOK
<1>1. Spec => [](TypeOK /\ Shape)
  BY TypeInit, TypeStep, PTL DEF Spec
<1> QED
  BY <1>1, PTL

-----------------------------------------------------------------------------
\* What is left to persist was approved for a call that succeeded.
GrantsEarned ==
    \A a \in Agent : At(a, "persist") =>
        \A i \in DOMAIN call[a].grants : call[a].grants[i] \in earned

\* A call that persists nothing now has nothing to persist next.
LEMMA NotPersisting ==
  ASSUME TypeOK, GrantsEarned, NEW a \in Agent, NEW c,
         c # None => c.at # "persist",
         call' = [call EXCEPT ![a] = c], earned \subseteq earned'
  PROVE  GrantsEarned'
  <1>1. ASSUME NEW b \in Agent, call'[b] # None, call'[b].at = "persist",
               NEW i \in DOMAIN call'[b].grants
        PROVE  call'[b].grants[i] \in earned'
    <2>1. b # a
      BY <1>1 DEF TypeOK
    <2>2. call'[b] = call[b]
      BY <2>1 DEF TypeOK
    <2> QED
      BY <1>1, <2>2 DEF GrantsEarned, At
  <1> QED
    BY <1>1 DEF GrantsEarned, At

LEMMA GrantedAt ==
  ASSUME NEW c \in Call
  PROVE  Granted(c).at \in {"scope", "read", "check", "hint"}
  BY DEF Granted, Call

\* Success makes the approvals of its call earned ones.
LEMMA SucceedGrants ==
  ASSUME TypeOK, Shape, GrantsEarned, NEW a \in Agent, NEW at, At(a, at), Succeed(a)
  PROVE  GrantsEarned' /\ earned \subseteq earned'
  <1>1. call[a] \in Call
    BY CallAt
  <1>2. call' = [call EXCEPT ![a] = IF call[a].grants = <<>> THEN None
                                    ELSE [call[a] EXCEPT !.at = "persist"]]
    BY DEF Succeed
  <1>3. earned' = earned \union {call[a].grants[i] : i \in DOMAIN call[a].grants}
    BY DEF Succeed
  <1>4. ASSUME NEW b \in Agent, call'[b] # None, call'[b].at = "persist",
               NEW i \in DOMAIN call'[b].grants
        PROVE  call'[b].grants[i] \in earned'
    <2>1. CASE b = a
      <3>1. call'[a] = [call[a] EXCEPT !.at = "persist"]
        BY <1>2, <1>4, <2>1 DEF TypeOK
      <3>2. call'[a].grants = call[a].grants
        BY <1>1, <3>1 DEF Call
      <3> QED
        BY <1>3, <1>4, <2>1, <3>2
    <2>2. CASE b # a
      <3>1. call'[b] = call[b]
        BY <1>2, <2>2 DEF TypeOK
      <3> QED
        BY <1>3, <1>4, <3>1 DEF GrantsEarned, At
    <2> QED
      BY <2>1, <2>2
  <1> QED
    BY <1>3, <1>4 DEF GrantsEarned, At

LEMMA GrantsStep ==
  ASSUME TypeOK, Shape, GrantsEarned, GrantsFollowSuccess, [Next]_vars
  PROVE  GrantsEarned' /\ GrantsFollowSuccess'
  <1>1. ASSUME NEW a \in Agent, NEW c, Goto(a, c), c # None => c.at # "persist"
        PROVE  GrantsEarned' /\ GrantsFollowSuccess'
    BY <1>1, NotPersisting DEF Goto, history, GrantsFollowSuccess
  <1>2. ASSUME NEW a \in Agent, Server(a) PROVE GrantsEarned' /\ GrantsFollowSuccess'
    <2>1. CASE InScope(a) \/ Ask(a) \/ Approve(a)
      <3>1. call[a] \in Call
        BY <2>1, CallAt DEF InScope, Ask, Approve
      <3>2. Granted(call[a]).at # "persist" /\ [call[a] EXCEPT !.at = "ask"].at # "persist"
        BY <3>1, GrantedAt DEF Call
      <3>3. CASE InScope(a)
        BY <1>1, <3>2, <3>3 DEF InScope
      <3>4. CASE Ask(a)
        BY <1>1, <3>2, <3>4 DEF Ask
      <3>5. CASE Approve(a)
        <4> DEFINE c == [call[a] EXCEPT !.grants = Append(@, Head(call[a].todo))]
        <4>1. Shaped(call[a]) /\ call[a].at = "ask"
          BY <3>5, CallAt DEF Approve
        <4>2. call[a].todo \in Seq(Path) /\ call[a].todo # <<>> /\ call[a].grants \in Seq(Path)
          BY <3>1, <4>1 DEF Call, Shaped
        <4>3. Append(call[a].grants, Head(call[a].todo)) \in Seq(Path)
          BY <4>2
        <4>4. c \in Call
          BY <3>1, <4>3 DEF Call
        <4>5. Granted(c).at # "persist"
          BY <4>4, GrantedAt
        <4> QED
          BY <1>1, <3>5, <4>5 DEF Approve
      <3> QED
        BY <2>1, <3>3, <3>4, <3>5
    <2>2. CASE Refuse(a) \/ Conflict(a) \/ Fail(a) \/ ReadFails(a) \/ PersistFails(a)
      BY <1>1, <2>2 DEF Refuse, Conflict, Fail, ReadFails, PersistFails, Return
    <2>3. CASE Check(a) \/ ReadText(a)
      <3>1. call[a] \in Call
        BY <2>3, CallAt DEF Check, ReadText
      <3>2. CASE Check(a)
        <4> DEFINE p == call[a].path
                   c == [call[a] EXCEPT !.at = "hint",
                                        !.checked = IF UpToDate(p) THEN disk[p] ELSE None]
        <4>1. c.at # "persist"
          BY <3>1 DEF Call
        <4> QED
          BY <1>1, <3>2, <4>1 DEF Check, Accept
      <3>3. CASE ReadText(a)
        <4> DEFINE p == call[a].path
                   w == IF UpToDate(p) THEN version[p] ELSE 0
                   c == [call[a] EXCEPT !.at = "version", !.text = disk[p], !.was = w]
        <4>1. c.at # "persist"
          BY <3>1 DEF Call
        <4> QED
          BY <1>1, <3>3, <4>1 DEF ReadText, Return
      <3> QED
        BY <2>3, <3>2, <3>3
    <2>4. CASE SetHint(a)
      <3> DEFINE c == [call[a] EXCEPT !.todo = Tail(@)]
      <3>1. call[a] \in Call /\ call[a].at = "hint"
        BY <2>4, CallAt DEF SetHint
      <3>2. c.at # "persist"
        BY <3>1 DEF Call
      <3>3. call' = [call EXCEPT ![a] = c]
        BY <2>4 DEF SetHint
      <3>4. earned' = earned /\ config' = config
        BY <2>4 DEF SetHint
      <3> QED
        BY <3>2, <3>3, <3>4, NotPersisting DEF GrantsFollowSuccess
    <2>5. CASE Write(a) \/ Delete(a) \/ Move(a) \/ ReadVersion(a)
      <3>1. \E at : At(a, at)
        BY <2>5 DEF Write, Delete, Move, Ready, ReadVersion
      <3>2. Succeed(a) /\ config' = config
        BY <2>5 DEF Write, Delete, Move, Ready, ReadVersion
      <3> QED
        BY <3>1, <3>2, SucceedGrants DEF GrantsFollowSuccess
    <2>6. CASE WriteFails(a)
      <3>1. call' = [call EXCEPT ![a] = None] /\ earned' = earned /\ config' = config
        BY <2>6 DEF WriteFails, Ready
      <3> QED
        BY <3>1, NotPersisting DEF GrantsFollowSuccess
    <2>7. CASE Persist(a)
      <3> DEFINE g == call[a].grants
                 c == IF Len(g) = 1 THEN None ELSE [call[a] EXCEPT !.grants = Tail(@)]
      <3>1. call[a] \in Call /\ Shaped(call[a]) /\ call[a].at = "persist" /\ call[a] # None
        BY <2>7, CallAt DEF Persist, At
      <3>2. g \in Seq(Path) /\ g # <<>>
        BY <3>1 DEF Call, Shaped
      <3>3. Len(g) \in Nat \ {0} /\ DOMAIN g = 1..Len(g)
        BY <3>2, EmptySeq, LenProperties
      <3>4. \A i \in DOMAIN g : g[i] \in earned
        BY <3>1 DEF GrantsEarned, At
      <3>5. Head(g) \in earned
        BY <3>2, <3>3, <3>4
      <3>6. /\ Tail(g) \in Seq(Path)
            /\ Len(Tail(g)) = Len(g) - 1
            /\ \A i \in 1..Len(Tail(g)) : Tail(g)[i] = g[i + 1]
        BY <3>2, HeadTailProperties
      <3>7. \A i \in DOMAIN Tail(g) : Tail(g)[i] \in earned
        <4>1. DOMAIN Tail(g) = 1..Len(Tail(g))
          BY <3>6, LenProperties
        <4>2. \A n \in Nat \ {0} : \A i \in 1..(n - 1) : i + 1 \in 1..n
          OBVIOUS
        <4>3. \A i \in DOMAIN Tail(g) : i + 1 \in DOMAIN g
          BY <3>3, <3>6, <4>1, <4>2
        <4> QED
          BY <3>4, <3>6, <4>1, <4>3
      <3>8. config' = config \union {Head(g)} /\ earned' = earned
        BY <2>7 DEF Persist, history
      <3>9. call' = [call EXCEPT ![a] = c]
        BY <2>7 DEF Persist
      <3>10. ASSUME NEW b \in Agent, call'[b] # None, call'[b].at = "persist",
                    NEW i \in DOMAIN call'[b].grants
             PROVE  call'[b].grants[i] \in earned'
        <4>1. CASE b = a
          <5>1. call'[a] = [call[a] EXCEPT !.grants = Tail(@)]
            BY <3>9, <3>10, <4>1 DEF TypeOK
          <5>2. call'[a].grants = Tail(g)
            BY <3>1, <5>1 DEF Call
          <5> QED
            BY <3>7, <3>8, <3>10, <4>1, <5>2
        <4>2. CASE b # a
          <5>1. call'[b] = call[b]
            BY <3>9, <4>2 DEF TypeOK
          <5> QED
            BY <3>8, <3>10, <5>1 DEF GrantsEarned, At
        <4> QED
          BY <4>1, <4>2
      <3>11. GrantsEarned'
        BY <3>10 DEF GrantsEarned, At
      <3> QED
        BY <3>5, <3>8, <3>11 DEF GrantsFollowSuccess
    <2> QED
      BY <1>2, <2>1, <2>2, <2>3, <2>4, <2>5, <2>6, <2>7 DEF Server
  <1>3. ASSUME NEW a \in Agent, NEW tool, NEW p, NEW q, NEW t, NEW w,
               Begin(a, tool, p, q, t, w)
        PROVE  GrantsEarned' /\ GrantsFollowSuccess'
    <2> DEFINE b == [tool |-> tool, path |-> p, dst |-> q, text |-> t, want |-> w,
                     at |-> "scope", todo |-> <<>>, grants |-> <<>>, was |-> 0, checked |-> None]
               c == [b EXCEPT !.todo = Paths(b)]
    <2>1. c.at # "persist"
      OBVIOUS
    <2>2. call' = [call EXCEPT ![a] = c]
      BY <1>3 DEF Begin
    <2>3. earned' = earned /\ config' = config
      BY <1>3 DEF Begin, history
    <2> QED
      BY <2>1, <2>2, <2>3, NotPersisting DEF GrantsFollowSuccess
  <1>4. CASE (\E p \in Path : Edit(p) \/ Expire(p)) \/ Daemon \/ UNCHANGED vars
    <2>1. call' = call /\ earned' = earned /\ config' = config
      BY <1>4 DEF Edit, Expire, Daemon, Take, Consume, Commit, vars, agents, history
    <2> QED
      BY <2>1 DEF GrantsEarned, GrantsFollowSuccess, At
  <1> QED
    BY <1>2, <1>3, <1>4 DEF Next

(***************************************************************************)
(* The scope only grows by what the user approved for a call that then     *)
(* succeeded, whatever fails and whoever else calls (ScopeGrant.commit,    *)
(* _commit_grants).                                                        *)
(***************************************************************************)
THEOREM GrantsAreEarned == Spec => []GrantsFollowSuccess
<1> DEFINE Inv == TypeOK /\ Shape /\ GrantsEarned /\ GrantsFollowSuccess
<1>1. Init => Inv
  BY TypeInit DEF Init, GrantsEarned, GrantsFollowSuccess, At
<1>2. Inv /\ [Next]_vars => Inv'
  BY TypeStep, GrantsStep
<1> QED
  BY <1>1, <1>2, PTL DEF Spec

-----------------------------------------------------------------------------
(* Who may still be named by a hint: the agents of the hints, but for the  *)
(* one that the daemon is about to delete, and of the label it has read.   *)

Deleting(p) == task # None /\ task.at = "delete" /\ p = task.key

Claims(a) == {p \in Path : hint[p] = a /\ ~Deleting(p)}

Held(a) == IF task # None /\ task.label = a THEN 1 ELSE 0

\* Every agent has set as many hints as may still name it.
CreditCovers ==
    \A a \in Agent : /\ IsFiniteSet(Claims(a))
                     /\ Cardinality(Claims(a)) + Held(a) <= credit[a]

\* Fewer claims, and no more credit spent than is not held any more.
LEMMA FewerClaims ==
  ASSUME TypeOK, TypeOK', CreditCovers, NEW a \in Agent,
         Claims(a)' \subseteq Claims(a), credit'[a] - Held(a)' >= credit[a] - Held(a)
  PROVE  IsFiniteSet(Claims(a)') /\ Cardinality(Claims(a)') + Held(a)' <= credit'[a]
  <1>1. IsFiniteSet(Claims(a)) /\ Cardinality(Claims(a)) + Held(a) <= credit[a]
    BY DEF CreditCovers
  <1>2. /\ IsFiniteSet(Claims(a)')
        /\ Cardinality(Claims(a)') \in Nat
        /\ Cardinality(Claims(a)) \in Nat
        /\ Cardinality(Claims(a)') <= Cardinality(Claims(a))
    BY <1>1, FS_Subset, FS_CardinalityType
  <1>3. credit[a] \in Int /\ credit'[a] \in Int /\ Held(a) \in Int /\ Held(a)' \in Int
    BY DEF TypeOK, Held
  <1> QED
    BY <1>1, <1>2, <1>3

\* A claim turns into a label.
LEMMA ClaimTaken ==
  ASSUME TypeOK, TypeOK', CreditCovers, NEW a \in Agent, NEW p \in Claims(a),
         Claims(a)' \subseteq Claims(a) \ {p},
         credit' = credit, Held(a) = 0, Held(a)' = 1
  PROVE  IsFiniteSet(Claims(a)') /\ Cardinality(Claims(a)') + Held(a)' <= credit'[a]
  <1>1. IsFiniteSet(Claims(a)) /\ Cardinality(Claims(a)) + Held(a) <= credit[a]
    BY DEF CreditCovers
  <1>2. /\ IsFiniteSet(Claims(a) \ {p})
        /\ Cardinality(Claims(a) \ {p}) = Cardinality(Claims(a)) - 1
    BY <1>1, FS_RemoveElement
  <1>3. /\ IsFiniteSet(Claims(a)')
        /\ Cardinality(Claims(a)') \in Nat
        /\ Cardinality(Claims(a)) \in Nat
        /\ Cardinality(Claims(a)') <= Cardinality(Claims(a) \ {p})
    BY <1>1, <1>2, FS_Subset, FS_CardinalityType
  <1>4. credit[a] \in Int
    BY DEF TypeOK
  <1> QED
    BY <1>1, <1>2, <1>3, <1>4

\* A hint that is set is one claim more at most.
LEMMA ClaimAdded ==
  ASSUME TypeOK, CreditCovers, NEW a \in Agent, NEW p,
         Claims(a)' \subseteq Claims(a) \union {p},
         credit'[a] = credit[a] + 1, Held(a)' = Held(a)
  PROVE  IsFiniteSet(Claims(a)') /\ Cardinality(Claims(a)') + Held(a)' <= credit'[a]
  <1>1. IsFiniteSet(Claims(a)) /\ Cardinality(Claims(a)) + Held(a) <= credit[a]
    BY DEF CreditCovers
  <1>2. /\ IsFiniteSet(Claims(a) \union {p})
        /\ Cardinality(Claims(a)) \in Nat
        /\ Cardinality(Claims(a) \union {p}) \in Nat
        /\ Cardinality(Claims(a) \union {p}) <= Cardinality(Claims(a)) + 1
    <2>1. IsFiniteSet(Claims(a) \union {p}) /\ Cardinality(Claims(a)) \in Nat
      BY <1>1, FS_AddElement, FS_CardinalityType
    <2>2. \/ Cardinality(Claims(a) \union {p}) = Cardinality(Claims(a))
          \/ Cardinality(Claims(a) \union {p}) = Cardinality(Claims(a)) + 1
      BY <1>1, FS_AddElement
    <2> QED
      BY <2>1, <2>2
  <1>3. /\ IsFiniteSet(Claims(a)')
        /\ Cardinality(Claims(a)') \in Nat
        /\ Cardinality(Claims(a)') <= Cardinality(Claims(a) \union {p})
    BY <1>2, FS_Subset, FS_CardinalityType
  <1>4. credit[a] \in Int /\ Held(a) \in Int
    BY DEF TypeOK, Held
  <1> QED
    BY <1>1, <1>2, <1>3, <1>4

LEMMA CreditStep ==
  ASSUME TypeOK, TypeOK', Shape, CreditCovers, [Next]_vars
  PROVE  CreditCovers'
  <1> USE NoneApart
  <1>1. ASSUME hint' = hint, task' = task, credit' = credit PROVE CreditCovers'
    BY <1>1 DEF CreditCovers, Claims, Held, Deleting
  <1>2. ASSUME NEW b \in Agent, SetHint(b) PROVE CreditCovers'
    <2> DEFINE p == Head(call[b].todo)
    <2>1. task' = task
      BY <1>2 DEF SetHint
    <2>2. CASE hint' = [hint EXCEPT ![p] = b] /\ credit' = [credit EXCEPT ![b] = @ + 1]
      <3>1. ASSUME NEW a \in Agent
            PROVE  IsFiniteSet(Claims(a)') /\ Cardinality(Claims(a)') + Held(a)' <= credit'[a]
        <4>1. Held(a)' = Held(a)
          BY <2>1 DEF Held
        <4>2. CASE a = b
          <5>1. Claims(a)' \subseteq Claims(a) \union {p}
            BY <2>1, <2>2 DEF Claims, Deleting, TypeOK
          <5>2. credit'[a] = credit[a] + 1
            BY <2>2, <4>2 DEF TypeOK
          <5> QED
            BY <4>1, <5>1, <5>2, ClaimAdded
        <4>3. CASE a # b
          <5>1. Claims(a)' \subseteq Claims(a)
            BY <2>1, <2>2, <4>3 DEF Claims, Deleting, TypeOK
          <5>2. credit'[a] = credit[a] /\ credit[a] \in Int /\ Held(a) \in Int
            BY <2>2, <4>3 DEF TypeOK, Held
          <5>3. credit'[a] - Held(a)' >= credit[a] - Held(a)
            BY <4>1, <5>2
          <5> QED
            BY <5>1, <5>3, FewerClaims
        <4> QED
          BY <4>2, <4>3
      <3> QED
        BY <3>1 DEF CreditCovers
    <2>3. CASE UNCHANGED <<hint, credit>>
      BY <1>1, <2>1, <2>3
    <2> QED
      BY <1>2, <2>2, <2>3 DEF SetHint
  <1>3. ASSUME NEW p \in Path, Expire(p) PROVE CreditCovers'
    <2>1. ASSUME NEW a \in Agent
          PROVE  IsFiniteSet(Claims(a)') /\ Cardinality(Claims(a)') + Held(a)' <= credit'[a]
      <3>1. Claims(a)' \subseteq Claims(a)
        BY <1>3 DEF Expire, Claims, Deleting, TypeOK
      <3>2. credit'[a] = credit[a] /\ credit[a] \in Int /\ Held(a)' = Held(a) /\ Held(a) \in Int
        BY <1>3 DEF Expire, Held, history, TypeOK
      <3>3. credit'[a] - Held(a)' >= credit[a] - Held(a)
        BY <3>2
      <3> QED
        BY <3>1, <3>3, FewerClaims
    <2> QED
      BY <2>1 DEF CreditCovers
  <1>4. CASE Take
    <2> DEFINE e == Head(events)
    <2>1. task = None /\ hint' = hint /\ credit' = credit
      BY <1>4 DEF Take, history
    <2>2. e \in Event /\ e.src \in Path
      <3>1. e \in Event
        BY <1>4 DEF Take, TypeOK
      <3> QED
        BY <3>1 DEF Event
    <2>3. task' = IF e.kind = "scan"
                  THEN [event |-> e, key |-> e.src, label |-> None, at |-> "commit"]
                  ELSE [event |-> e, key |-> e.src, label |-> hint[e.src], at |-> "delete"]
      BY <1>4 DEF Take
    <2>4. task' # None
      <3>1. task' \in Task
        BY <2>2, <2>3 DEF TypeOK, Task
      <3> QED
        BY <3>1, NoneAssumption DEF NoneAssumption
    <2>5. ASSUME NEW a \in Agent
          PROVE  IsFiniteSet(Claims(a)') /\ Cardinality(Claims(a)') + Held(a)' <= credit'[a]
      <3>1. Held(a) = 0 /\ Claims(a) = {p \in Path : hint[p] = a}
        BY <2>1 DEF Held, Claims, Deleting
      <3>2. CASE e.kind # "scan" /\ hint[e.src] = a
        <4>1. Held(a)' = 1
          BY <2>3, <2>4, <3>2 DEF Held
        <4>2. e.src \in Claims(a)
          BY <2>2, <3>1, <3>2
        <4>3. Claims(a)' \subseteq Claims(a) \ {e.src}
          BY <2>1, <2>3, <2>4, <3>1, <3>2 DEF Claims, Deleting
        <4> QED
          BY <2>1, <3>1, <4>1, <4>2, <4>3, ClaimTaken
      <3>3. CASE ~(e.kind # "scan" /\ hint[e.src] = a)
        <4>1. Held(a)' = 0
          BY <2>3, <3>3 DEF Held
        <4>2. Claims(a)' \subseteq Claims(a)
          BY <2>1, <3>1 DEF Claims
        <4>3. credit'[a] - Held(a)' >= credit[a] - Held(a)
          BY <2>1, <3>1, <4>1 DEF TypeOK
        <4> QED
          BY <4>2, <4>3, FewerClaims
      <3> QED
        BY <3>2, <3>3
    <2> QED
      BY <2>5 DEF CreditCovers
  <1>5. CASE Consume
    <2> DEFINE e == task.event
    <2>1. task # None /\ task.at = "delete" /\ credit' = credit
      BY <1>5 DEF Consume, history
    <2>2. hint' = [hint EXCEPT ![task.key] = None]
      BY <1>5 DEF Consume
    <2>3. task \in Task
      BY <2>1 DEF TypeOK
    <2>4. e.dst \in Path
      BY <2>3 DEF Task, Event
    <2>5. task' # None
      <3>1. hint'[e.dst] \in Agent \union {None}
        BY <2>4 DEF TypeOK
      <3>2. task' \in Task
        BY <1>5, <2>3, <2>4, <3>1 DEF Consume, Task
      <3> QED
        BY <3>2, NoneAssumption DEF NoneAssumption
    <2>6. \A a \in Agent : Claims(a) = {p \in Path : hint'[p] = a}
      BY <2>1, <2>2, <2>3 DEF Claims, Deleting, Task, TypeOK
    <2>7. ASSUME NEW a \in Agent
          PROVE  IsFiniteSet(Claims(a)') /\ Cardinality(Claims(a)') + Held(a)' <= credit'[a]
      <3>1. Claims(a)' \subseteq Claims(a)
        BY <2>6 DEF Claims
      <3>2. CASE task.label = None /\ e.kind = "moved" /\ task.key = e.src
        <4>1. task' = [task EXCEPT !.key = e.dst, !.label = hint'[e.dst]]
          BY <1>5, <3>2 DEF Consume
        <4>2. task'.label = hint'[e.dst] /\ task'.key = e.dst /\ task'.at = "delete"
          BY <2>1, <2>3, <4>1 DEF Task
        <4>3. Held(a) = 0
          BY <3>2 DEF Held
        <4>4. CASE hint'[e.dst] = a
          <5>1. Held(a)' = 1
            BY <2>5, <4>2, <4>4 DEF Held
          <5>2. e.dst \in Claims(a)
            BY <2>4, <2>6, <4>4
          <5>3. Claims(a)' \subseteq Claims(a) \ {e.dst}
            BY <2>5, <2>6, <4>2 DEF Claims, Deleting
          <5> QED
            BY <2>1, <4>3, <5>1, <5>2, <5>3, ClaimTaken
        <4>5. CASE hint'[e.dst] # a
          <5>1. Held(a)' = 0
            BY <4>2, <4>5 DEF Held
          <5>2. credit'[a] - Held(a)' >= credit[a] - Held(a)
            BY <2>1, <4>3, <5>1 DEF TypeOK
          <5> QED
            BY <3>1, <5>2, FewerClaims
        <4> QED
          BY <4>4, <4>5
      <3>3. CASE ~(task.label = None /\ e.kind = "moved" /\ task.key = e.src)
        <4>1. task' = [task EXCEPT !.at = "commit"]
          BY <1>5, <3>3 DEF Consume
        <4>2. task'.label = task.label
          BY <2>3, <4>1 DEF Task
        <4>3. Held(a)' = Held(a) /\ Held(a) \in Int
          BY <2>1, <2>5, <4>2 DEF Held
        <4>4. credit'[a] - Held(a)' >= credit[a] - Held(a)
          BY <2>1, <4>3 DEF TypeOK
        <4> QED
          BY <3>1, <4>4, FewerClaims
      <3> QED
        BY <3>2, <3>3
    <2> QED
      BY <2>7 DEF CreditCovers
  <1>6. CASE Commit
    <2>1. task # None /\ task.at = "commit" /\ task' = None /\ hint' = hint
      BY <1>6 DEF Commit
    <2>2. credit' = IF text' = text \/ task.label = None THEN credit
                    ELSE [credit EXCEPT ![task.label] = @ - 1]
      BY <1>6 DEF Commit
    <2>3. ASSUME NEW a \in Agent
          PROVE  IsFiniteSet(Claims(a)') /\ Cardinality(Claims(a)') + Held(a)' <= credit'[a]
      <3>1. Claims(a)' \subseteq Claims(a)
        BY <2>1 DEF Claims, Deleting
      <3>2. Held(a)' = 0
        BY <2>1 DEF Held
      <3>3. credit[a] \in Int
        BY DEF TypeOK
      <3>4. CASE task.label = a
        <4>1. Held(a) = 1
          BY <2>1, <3>4 DEF Held
        <4>2. credit'[a] = credit[a] \/ credit'[a] = credit[a] - 1
          BY <2>2, <3>4 DEF TypeOK
        <4>3. credit'[a] - Held(a)' >= credit[a] - Held(a)
          BY <3>2, <3>3, <4>1, <4>2
        <4> QED
          BY <3>1, <4>3, FewerClaims
      <3>5. CASE task.label # a
        <4>1. Held(a) = 0
          BY <3>5 DEF Held
        <4>2. credit'[a] = credit[a]
          BY <2>2, <3>5 DEF TypeOK
        <4>3. credit'[a] - Held(a)' >= credit[a] - Held(a)
          BY <3>2, <3>3, <4>1, <4>2
        <4> QED
          BY <3>1, <4>3, FewerClaims
      <3> QED
        BY <3>4, <3>5
    <2> QED
      BY <2>3 DEF CreditCovers
  <1>7. ASSUME NEW a \in Agent, Server(a) PROVE CreditCovers'
    <2>1. SetHint(a) \/ UNCHANGED <<hint, task, credit>>
      BY <1>7 DEF Server, InScope, Ask, Approve, Refuse, Check, Accept, Conflict, Write, WriteFails,
         Delete, Move, Fail, ReadText, ReadVersion, ReadFails, Persist, PersistFails, Ready,
         Goto, Return, history
    <2> QED
      BY <1>1, <1>2, <2>1
  <1>8. ASSUME NEW a \in Agent, NEW tool, NEW p, NEW q, NEW t, NEW w,
               Begin(a, tool, p, q, t, w)
        PROVE  CreditCovers'
    BY <1>1, <1>8 DEF Begin, history
  <1>9. ASSUME NEW p \in Path, Edit(p) PROVE CreditCovers'
    BY <1>1, <1>9 DEF Edit, history
  <1>10. CASE UNCHANGED vars
    BY <1>1, <1>10 DEF vars, history
  <1> QED
    BY <1>3, <1>4, <1>5, <1>6, <1>7, <1>8, <1>9, <1>10 DEF Next, Daemon

(***************************************************************************)
(* No agent is named as the author of more commits than it left hints,     *)
(* though hints are set between the daemon's look and its deletion         *)
(* (consume_hint, set_hint).                                               *)
(***************************************************************************)
THEOREM HintsLabelOnce == Spec => []OneLabelPerHint
<1> DEFINE Inv == TypeOK /\ Shape /\ CreditCovers
<1>1. Init => Inv
  <2> SUFFICES ASSUME Init PROVE Inv
    OBVIOUS
  <2>1. \A a \in Agent : Claims(a) = {} /\ Held(a) = 0 /\ credit[a] = 0
    BY NoneApart DEF Init, Claims, Held
  <2>2. IsFiniteSet({}) /\ Cardinality({}) = 0
    BY FS_EmptySet
  <2>3. ASSUME NEW a \in Agent
        PROVE  IsFiniteSet(Claims(a)) /\ Cardinality(Claims(a)) + Held(a) <= credit[a]
    BY <2>1, <2>2
  <2>4. CreditCovers
    BY <2>3 DEF CreditCovers
  <2> QED
    BY <2>4, TypeInit
<1>2. Inv /\ [Next]_vars => Inv'
  BY TypeStep, CreditStep
<1>3. Inv => OneLabelPerHint
  <2> SUFFICES ASSUME Inv, NEW a \in Agent PROVE credit[a] >= 0
    BY DEF OneLabelPerHint
  <2>1. Cardinality(Claims(a)) \in Nat /\ Cardinality(Claims(a)) + Held(a) <= credit[a]
    BY FS_CardinalityType DEF CreditCovers
  <2>2. Held(a) \in Nat /\ credit[a] \in Int
    BY DEF Held, TypeOK
  <2> QED
    BY <2>1, <2>2
<1> QED
  BY <1>1, <1>2, <1>3, PTL DEF Spec

-----------------------------------------------------------------------------
(* As long as a path has the version that was read with a text, the mirror *)
(* has a text similar to that one: nothing else was committed.             *)

Told(v, t, p) ==
    /\ v <= version[p]
    /\ v = version[p] => text[p] # None /\ Similar(text[p], t)

ReadsTold ==
    \A a \in Agent :
        /\ seen[a] # None /\ seen[a].sound /\ seen[a].version # 0
              => Told(seen[a].version, seen[a].text, seen[a].path)
        /\ At(a, "version") /\ call[a].was # 0
              => Told(call[a].was, call[a].text, call[a].path)

\* The tools that name a version, and the read it is from.
Named(c) ==
    /\ c.tool = "read" => c.want = 0
    /\ c.at \in {"read", "version"} => c.tool = "read"
    /\ c.at = "check" => c.want # 0

WantsSeen ==
    \A a \in Agent : call[a] # None =>
        /\ Named(call[a])
        /\ call[a].want # 0 => /\ seen[a] # None
                              /\ seen[a].path = call[a].path
                              /\ seen[a].version = call[a].want

LEMMA GrantedNamed ==
  ASSUME NEW c \in Call, Named(c)
  PROVE  /\ Named(Granted(c))
         /\ Granted(c).want = c.want
         /\ Granted(c).path = c.path
         /\ Granted(c).checked = c.checked
  <1>1. CASE Len(c.todo) > 1
    <2>1. Granted(c) = [c EXCEPT !.at = "scope", !.todo = Tail(@)]
      BY <1>1 DEF Granted
    <2> QED
      BY <2>1 DEF Call, Named
  <1>2. CASE ~(Len(c.todo) > 1)
    <2>1. Granted(c) = [c EXCEPT !.at = IF c.tool = "read" THEN "read"
                                        ELSE IF c.want # 0 THEN "check" ELSE "hint",
                                 !.todo = Paths(c)]
      BY <1>2 DEF Granted
    <2> QED
      BY <2>1 DEF Call, Named
  <1> QED
    BY <1>1, <1>2

\* The call changes, but neither its path nor the version it names.
LEMMA SameWant ==
  ASSUME TypeOK, WantsSeen, NEW a \in Agent, call[a] # None, NEW c,
         c # None => Named(c) /\ c.want = call[a].want /\ c.path = call[a].path,
         call' = [call EXCEPT ![a] = c], seen' = seen
  PROVE  WantsSeen'
  BY DEF TypeOK, WantsSeen

\* How the call of a server's step goes on.
LEMMA CallGoesOn ==
  ASSUME TypeOK, Shape, WantsSeen, NEW a \in Agent, Server(a)
  PROVE  /\ call[a] \in Call /\ call[a] # None
         /\ call' = [call EXCEPT ![a] = call'[a]]
         /\ call'[a] # None => /\ Named(call'[a])
                              /\ call'[a].want = call[a].want
                              /\ call'[a].path = call[a].path
         /\ call'[a] # None /\ call'[a].checked # call[a].checked => Check(a)
         /\ call'[a] # None /\ call'[a].at = "version" => ReadText(a)
  <1>1. call[a] \in Call /\ call[a] # None
    <2>1. call[a] # None
      BY DEF Server, InScope, Ask, Approve, Refuse, Check, Accept, Conflict, SetHint, Write,
         WriteFails, Delete, Move, Fail, ReadText, ReadVersion, ReadFails, Persist,
         PersistFails, Ready, At
    <2> QED
      BY <2>1 DEF TypeOK
  <1>2. Named(call[a])
    BY <1>1 DEF WantsSeen
  <1>3. ASSUME NEW c, call' = [call EXCEPT ![a] = c]
        PROVE  call'[a] = c
    BY <1>3 DEF TypeOK
  <1>4. CASE InScope(a)
    <2>1. call' = [call EXCEPT ![a] = Granted(call[a])]
      BY <1>4 DEF InScope, Goto
    <2> QED
      BY <1>1, <1>2, <1>3, <1>4, <2>1, GrantedNamed, GrantedAt DEF InScope, At
  <1>5. CASE Ask(a)
    <2> DEFINE c == [call[a] EXCEPT !.at = "ask"]
    <2>1. call' = [call EXCEPT ![a] = c]
      BY <1>5 DEF Ask, Goto
    <2>2. call'[a] = c
      BY <1>3, <2>1
    <2>3. /\ Named(c) /\ c.want = call[a].want /\ c.path = call[a].path
         /\ c.checked = call[a].checked /\ c.at = "ask"
      BY <1>1, <1>2 DEF Call, Named
    <2> QED
      BY <1>1, <2>1, <2>2, <2>3
  <1>6. CASE Approve(a)
    <2> DEFINE c == [call[a] EXCEPT !.grants = Append(@, Head(call[a].todo))]
    <2>1. call' = [call EXCEPT ![a] = Granted(c)] /\ call[a].at = "ask"
      BY <1>6 DEF Approve, Goto, At
    <2>2. call[a].todo \in Seq(Path) /\ call[a].todo # <<>> /\ call[a].grants \in Seq(Path)
      BY <1>1, <2>1 DEF Call, Shaped, Shape
    <2>3. Append(call[a].grants, Head(call[a].todo)) \in Seq(Path)
      BY <2>2
    <2>4. /\ c \in Call /\ Named(c) /\ c.want = call[a].want /\ c.path = call[a].path
         /\ c.checked = call[a].checked
      BY <1>1, <1>2, <2>3 DEF Call, Named
    <2>5. call'[a] = Granted(c)
      BY <1>3, <2>1
    <2> QED
      BY <1>1, <2>1, <2>4, <2>5, GrantedNamed, GrantedAt
  <1>7. CASE Refuse(a) \/ Conflict(a) \/ Fail(a) \/ ReadFails(a) \/ PersistFails(a) \/ WriteFails(a)
    <2>1. call' = [call EXCEPT ![a] = None]
      BY <1>7 DEF Refuse, Conflict, Fail, ReadFails, PersistFails, WriteFails, Return, Goto
    <2> QED
      BY <1>1, <1>3, <2>1
  <1>8. CASE Check(a)
    <2> DEFINE p == call[a].path
               c == [call[a] EXCEPT !.at = "hint",
                                    !.checked = IF UpToDate(p) THEN disk[p] ELSE None]
    <2>1. call' = [call EXCEPT ![a] = c]
      BY <1>8 DEF Check, Accept, Goto
    <2>2. call'[a] = c
      BY <1>3, <2>1
    <2>3. Named(c) /\ c.want = call[a].want /\ c.path = call[a].path /\ c.at = "hint"
      BY <1>1, <1>2 DEF Call, Named
    <2> QED
      BY <1>1, <1>8, <2>1, <2>2, <2>3
  <1>9. CASE SetHint(a)
    <2> DEFINE c == [call[a] EXCEPT !.todo = Tail(@)]
    <2>1. call' = [call EXCEPT ![a] = c] /\ call[a].at = "hint"
      BY <1>9 DEF SetHint, At
    <2>2. call'[a] = c
      BY <1>3, <2>1
    <2>3. /\ Named(c) /\ c.want = call[a].want /\ c.path = call[a].path
         /\ c.checked = call[a].checked /\ c.at = "hint"
      BY <1>1, <1>2, <2>1 DEF Call, Named
    <2> QED
      BY <1>1, <2>1, <2>2, <2>3
  <1>10. CASE Write(a) \/ Delete(a) \/ Move(a) \/ ReadVersion(a)
    <2> DEFINE c == [call[a] EXCEPT !.at = "persist"]
    <2>1. call' = [call EXCEPT ![a] = IF call[a].grants = <<>> THEN None ELSE c]
      BY <1>10 DEF Write, Delete, Move, ReadVersion, Succeed
    <2>2. call'[a] = None \/ call'[a] = c
      BY <1>3, <2>1
    <2>3. /\ Named(c) /\ c.want = call[a].want /\ c.path = call[a].path
         /\ c.checked = call[a].checked /\ c.at = "persist"
      BY <1>1, <1>2 DEF Call, Named
    <2> QED
      BY <1>1, <2>1, <2>2, <2>3
  <1>11. CASE ReadText(a)
    <2> DEFINE p == call[a].path
               w == IF UpToDate(p) THEN version[p] ELSE 0
               c == [call[a] EXCEPT !.at = "version", !.text = disk[p], !.was = w]
    <2>1. /\ call[a].at = "read"
          /\ call' = [call EXCEPT ![a] = c] \/ call' = [call EXCEPT ![a] = None]
      BY <1>11 DEF ReadText, Return, Goto, At
    <2>2. call'[a] = None \/ call'[a] = c
      BY <1>3, <2>1
    <2>3. /\ Named(c) /\ c.want = call[a].want /\ c.path = call[a].path
         /\ c.checked = call[a].checked
      BY <1>1, <1>2, <2>1 DEF Call, Named
    <2> QED
      BY <1>1, <1>11, <2>1, <2>2, <2>3
  <1>12. CASE Persist(a)
    <2> DEFINE c == [call[a] EXCEPT !.grants = Tail(@)]
    <2>1. /\ call' = [call EXCEPT ![a] = IF Len(call[a].grants) = 1 THEN None ELSE c]
          /\ call[a].at = "persist"
      BY <1>12 DEF Persist, At
    <2>2. call'[a] = None \/ call'[a] = c
      BY <1>3, <2>1
    <2>3. /\ Named(c) /\ c.want = call[a].want /\ c.path = call[a].path
         /\ c.checked = call[a].checked /\ c.at = "persist"
      BY <1>1, <1>2, <2>1 DEF Call, Named
    <2> QED
      BY <1>1, <2>1, <2>2, <2>3
  <1> QED
    BY <1>4, <1>5, <1>6, <1>7, <1>8, <1>9, <1>10, <1>11, <1>12 DEF Server

\* What a version was told of stays true: a commit that changes a path gives it
\* a version that nobody has been told.
LEMMA ToldKept ==
  ASSUME TypeOK, [Next]_vars, NEW v \in Nat, NEW t, NEW p \in Path, Told(v, t, p)
  PROVE  Told(v, t, p)'
  <1>1. CASE Commit
    <2>1. version' = [q \in Path |-> IF text'[q] = text[q] THEN version[q] ELSE version[q] + 1]
      BY <1>1 DEF Commit
    <2>2. version[p] \in Nat
      BY DEF TypeOK
    <2>3. CASE text'[p] = text[p]
      BY <2>1, <2>3 DEF Told
    <2>4. CASE text'[p] # text[p]
      <3>1. version'[p] = version[p] + 1
        BY <2>1, <2>4
      <3> QED
        BY <2>2, <3>1 DEF Told
    <2> QED
      BY <2>3, <2>4
  <1>2. CASE ~Commit
    <2>1. text' = text /\ version' = version
      <3>1. ASSUME NEW a \in Agent, Server(a) PROVE text' = text /\ version' = version
        BY <3>1 DEF Server, InScope, Ask, Approve, Refuse, Check, Accept, Conflict, SetHint,
           Write, WriteFails, Delete, Move, Fail, ReadText, ReadVersion, ReadFails, Persist,
           PersistFails, Ready, Goto, Return, mirror
      <3>2. ASSUME NEW a \in Agent, NEW tool, NEW p1, NEW q, NEW s, NEW w,
                   Begin(a, tool, p1, q, s, w)
            PROVE  text' = text /\ version' = version
        BY <3>2 DEF Begin, mirror
      <3>3. ASSUME NEW p1 \in Path, Edit(p1) \/ Expire(p1) PROVE text' = text /\ version' = version
        BY <3>3 DEF Edit, Expire, mirror
      <3>4. CASE Take \/ Consume
        BY <3>4 DEF Take, Consume, mirror
      <3>5. CASE UNCHANGED vars
        BY <3>5 DEF vars, mirror
      <3> QED
        BY <1>2, <3>1, <3>2, <3>3, <3>4, <3>5 DEF Next, Daemon
    <2> QED
      BY <2>1 DEF Told
  <1> QED
    BY <1>1, <1>2

\* Steps in which nobody reads, calls or forgets.
LEMMA ReadsKept ==
  ASSUME TypeOK, ReadsTold, WantsSeen, [Next]_vars, call' = call, seen' = seen
  PROVE  ReadsTold' /\ WantsSeen'
  <1>1. WantsSeen'
    BY DEF WantsSeen
  <1>2. ASSUME NEW a \in Agent, seen[a] # None, seen[a].sound, seen[a].version # 0
        PROVE  Told(seen[a].version, seen[a].text, seen[a].path)'
    <2>1. seen[a].version \in Nat /\ seen[a].path \in Path
      BY <1>2 DEF TypeOK
    <2>2. Told(seen[a].version, seen[a].text, seen[a].path)
      BY <1>2 DEF ReadsTold
    <2>3. ASSUME NEW v \in Nat, NEW t, NEW p \in Path, Told(v, t, p) PROVE Told(v, t, p)'
      BY <2>3, ToldKept
    <2> QED
      BY <2>1, <2>2, <2>3 DEF Told
  <1>3. ASSUME NEW a \in Agent, At(a, "version"), call[a].was # 0
        PROVE  Told(call[a].was, call[a].text, call[a].path)'
    <2>1. call[a].was \in Nat /\ call[a].path \in Path
      BY <1>3 DEF TypeOK, At, Call
    <2>2. Told(call[a].was, call[a].text, call[a].path)
      BY <1>3 DEF ReadsTold
    <2>3. ASSUME NEW v \in Nat, NEW t, NEW p \in Path, Told(v, t, p) PROVE Told(v, t, p)'
      BY <2>3, ToldKept
    <2> QED
      BY <2>1, <2>2, <2>3 DEF Told
  <1> QED
    BY <1>1, <1>2, <1>3 DEF ReadsTold, At

LEMMA ReadsStep ==
  ASSUME TypeOK, TypeOK', Shape, ReadsTold, WantsSeen, [Next]_vars
  PROVE  ReadsTold' /\ WantsSeen'
  <1>1. ASSUME NEW p \in Path, Edit(p) \/ Expire(p) PROVE ReadsTold' /\ WantsSeen'
    BY <1>1, ReadsKept DEF Edit, Expire, agents
  <1>2. CASE Daemon \/ UNCHANGED vars
    BY <1>2, ReadsKept DEF Daemon, Take, Consume, Commit, vars, agents
  <1>3. ASSUME NEW a \in Agent, NEW tool, NEW p \in Path, NEW q, NEW t, NEW w \in Nat,
               Begin(a, tool, p, q, t, w)
        PROVE  ReadsTold' /\ WantsSeen'
    <2> DEFINE b == [tool |-> tool, path |-> p, dst |-> q, text |-> t, want |-> w,
                     at |-> "scope", todo |-> <<>>, grants |-> <<>>, was |-> 0, checked |-> None]
               c == [b EXCEPT !.todo = Paths(b)]
    <2>1. call' = [call EXCEPT ![a] = c]
      BY <1>3 DEF Begin
    <2>2. /\ c.tool = tool /\ c.path = p /\ c.want = w /\ c.at = "scope"
      OBVIOUS
    <2>3. seen' = seen /\ text' = text /\ version' = version
      BY <1>3 DEF Begin, mirror
    <2>4. w # 0 => /\ tool \in {"write", "delete"}
                   /\ seen[a] # None /\ seen[a].path = p /\ seen[a].version = w
      BY <1>3 DEF Begin
    <2>5. Named(c)
      BY <2>2, <2>4 DEF Named
    <2>6. WantsSeen'
      <3>1. call'[a] = c /\ \A d \in Agent \ {a} : call'[d] = call[d]
        BY <2>1 DEF TypeOK
      <3> HIDE DEF c
      <3> QED
        BY <2>2, <2>3, <2>4, <2>5, <3>1 DEF WantsSeen
    <2>7. ReadsTold'
      <3>1. \A d \in Agent : At(d, "version")' => d # a /\ call'[d] = call[d] /\ At(d, "version")
        BY <2>1, <2>2 DEF At, TypeOK
      <3> QED
        BY <2>3, <3>1 DEF ReadsTold, Told
    <2> QED
      BY <2>6, <2>7
  <1>4. ASSUME NEW a \in Agent, Server(a) PROVE ReadsTold' /\ WantsSeen'
    <2>1. /\ call[a] \in Call /\ call[a] # None
          /\ call' = [call EXCEPT ![a] = call'[a]]
          /\ call'[a] # None => /\ Named(call'[a])
                               /\ call'[a].want = call[a].want
                               /\ call'[a].path = call[a].path
          /\ call'[a] # None /\ call'[a].at = "version" => ReadText(a)
      BY <1>4, CallGoesOn
    <2>2. text' = text /\ version' = version
      BY <1>4 DEF Server, InScope, Ask, Approve, Refuse, Check, Accept, Conflict, SetHint,
         Write, WriteFails, Delete, Move, Fail, ReadText, ReadVersion, ReadFails, Persist,
         PersistFails, Ready, Goto, Return, mirror
    <2>3. \A d \in Agent \ {a} : call'[d] = call[d]
      BY <2>1 DEF TypeOK
    <2>4. CASE ReadVersion(a)
      <3> DEFINE p == call[a].path
                 r == [path |-> p, text |-> call[a].text, version |-> version[p],
                       sound |-> version[p] = call[a].was]
      <3>1. At(a, "version") /\ seen' = [seen EXCEPT ![a] = r]
        BY <2>4 DEF ReadVersion
      <3>2. seen'[a] = r /\ \A d \in Agent \ {a} : seen'[d] = seen[d]
        BY <3>1 DEF TypeOK
      <3>3. r.path = p /\ r.text = call[a].text /\ r.version = version[p]
            /\ (r.sound <=> version[p] = call[a].was)
        OBVIOUS
      <3>4. call[a].want = 0
        BY <2>1, <3>1 DEF WantsSeen, Named, At
      <3>5. WantsSeen'
        BY <2>1, <2>3, <3>2, <3>4 DEF WantsSeen
      <3>6. r.sound /\ r.version # 0 => Told(r.version, r.text, r.path)
        BY <3>1, <3>3 DEF ReadsTold
      <3>7. ASSUME NEW d \in Agent, seen'[d] # None, seen'[d].sound, seen'[d].version # 0
            PROVE  Told(seen[d].version, seen[d].text, seen[d].path)'
        <4>1. CASE d = a
          BY <2>2, <3>2, <3>6, <3>7, <4>1 DEF Told
        <4>2. CASE d # a
          BY <2>2, <3>2, <3>7, <4>2 DEF ReadsTold, Told
        <4> QED
          BY <4>1, <4>2
      <3>8. \A d \in Agent : At(d, "version")' => d # a
        <4>1. ~ReadText(a)
          BY <3>1 DEF ReadText, At
        <4> QED
          BY <2>1, <4>1 DEF At
      <3> QED
        BY <2>2, <2>3, <3>5, <3>7, <3>8 DEF ReadsTold, At, Told
    <2>5. CASE ~ReadVersion(a)
      <3>1. seen' = seen
        BY <1>4, <2>5 DEF Server, InScope, Ask, Approve, Refuse, Check, Accept, Conflict, SetHint,
           Write, WriteFails, Delete, Move, Fail, ReadText, ReadFails, Persist,
           PersistFails, Ready, Goto, Return
      <3>2. WantsSeen'
        BY <2>1, <3>1, SameWant
      <3>3. ASSUME call'[a] # None, call'[a].at = "version", call'[a].was # 0
            PROVE  Told(call'[a].was, call'[a].text, call'[a].path)
        <4> DEFINE p == call[a].path
                   w == IF UpToDate(p) THEN version[p] ELSE 0
                   c == [call[a] EXCEPT !.at = "version", !.text = disk[p], !.was = w]
        <4>1. ReadText(a)
          BY <2>1, <3>3
        <4>2. Exists(p) /\ call'[a] = c
          BY <3>3, <4>1 DEF ReadText, Goto, Return, TypeOK
        <4>3. c.was = w /\ c.text = disk[p] /\ c.path = p
          BY <2>1 DEF Call
        <4>4. UpToDate(p) /\ w = version[p]
          BY <3>3, <4>2, <4>3
        <4>5. text[p] # None /\ Similar(text[p], disk[p])
          BY <4>2, <4>4 DEF UpToDate, Exists
        <4>6. version[p] \in Nat
          BY <2>1 DEF Call, TypeOK
        <4> HIDE DEF c
        <4> QED
          BY <4>2, <4>3, <4>4, <4>5, <4>6 DEF Told
      <3>4. ReadsTold'
        BY <2>2, <2>3, <3>1, <3>3 DEF ReadsTold, At, Told
      <3> QED
        BY <3>2, <3>4
    <2> QED
      BY <2>4, <2>5
  <1>5. ASSUME NEW a \in Agent,
               NEW w \in {0} \union (IF seen[a] = None THEN {} ELSE {seen[a].version})
        PROVE  w \in Nat
    BY <1>5 DEF TypeOK
  <1> QED
    BY <1>1, <1>2, <1>3, <1>4, <1>5 DEF Next

\* Two texts that are similar to a third are not far from each other.
LEMMA TwiceSimilar ==
  ASSUME NEW h \in Nat, NEW s \in Nat, NEW t \in Nat, Similar(h, s), Similar(h, t)
  PROVE  Near(t, s)
  BY DEF Similar, Near

\* What a call that names a version found at its check is near what its agent
\* has read, for as long as the call goes on.
CheckedSeen ==
    \A a \in Agent :
        call[a] # None /\ call[a].want # 0 /\ call[a].checked # None /\ seen[a].sound
           => Near(call[a].checked, seen[a].text)

\* An accepted check: the version stands for what was read, and the mirror for
\* what is there.
LEMMA CheckFindsSeen ==
  ASSUME TypeOK, Shape, ReadsTold, WantsSeen, NEW a \in Agent, Check(a), seen[a].sound
  PROVE  call'[a].checked # None => Near(call'[a].checked, seen[a].text)
  <1> DEFINE p == call[a].path
             c == [call[a] EXCEPT !.at = "hint",
                                  !.checked = IF UpToDate(p) THEN disk[p] ELSE None]
  <1>1. call[a] # None /\ call[a] \in Call /\ call[a].at = "check" /\ version[p] = call[a].want
    BY CallAt DEF Check, At
  <1>2. call'[a].checked = IF UpToDate(p) THEN disk[p] ELSE None
    <2>1. call'[a] = c
      BY DEF Check, Accept, Goto, TypeOK
    <2>2. c.checked = IF UpToDate(p) THEN disk[p] ELSE None
      BY <1>1 DEF Call
    <2> QED
      BY <2>1, <2>2
  <1>3. seen[a] # None /\ seen[a].path = p /\ seen[a].version = version[p] /\ version[p] # 0
    BY <1>1 DEF WantsSeen, Named
  <1>4. text[p] # None /\ Similar(text[p], seen[a].text)
    BY <1>3 DEF ReadsTold, Told
  <1>5. CASE UpToDate(p)
    <2>1. disk[p] # None /\ Similar(text[p], disk[p])
      BY <1>4, <1>5 DEF UpToDate
    <2>2. text[p] \in Nat /\ disk[p] \in Nat /\ seen[a].text \in Nat
      BY <1>1, <1>3, <1>4, <2>1, AgentToolsAssumption DEF AgentToolsAssumption, TypeOK, Call
    <2> QED
      BY <1>2, <1>4, <1>5, <2>1, <2>2, TwiceSimilar
  <1>6. CASE ~UpToDate(p)
    BY <1>2, <1>6
  <1> QED
    BY <1>5, <1>6

LEMMA CheckedStep ==
  ASSUME TypeOK, TypeOK', Shape, ReadsTold, WantsSeen, CheckedSeen, [Next]_vars
  PROVE  CheckedSeen'
  <1>1. ASSUME call' = call, seen' = seen PROVE CheckedSeen'
    BY <1>1 DEF CheckedSeen
  <1>2. CASE (\E p \in Path : Edit(p) \/ Expire(p)) \/ Daemon \/ UNCHANGED vars
    BY <1>1, <1>2 DEF Edit, Expire, Daemon, Take, Consume, Commit, vars, agents
  <1>3. ASSUME NEW a \in Agent, NEW tool, NEW p, NEW q, NEW t, NEW w,
               Begin(a, tool, p, q, t, w)
        PROVE  CheckedSeen'
    <2> DEFINE b == [tool |-> tool, path |-> p, dst |-> q, text |-> t, want |-> w,
                     at |-> "scope", todo |-> <<>>, grants |-> <<>>, was |-> 0, checked |-> None]
               c == [b EXCEPT !.todo = Paths(b)]
    <2>1. c.checked = None
      OBVIOUS
    <2>2. call' = [call EXCEPT ![a] = c] /\ seen' = seen
      BY <1>3 DEF Begin
    <2>3. call'[a] = c /\ \A d \in Agent \ {a} : call'[d] = call[d]
      BY <2>2 DEF TypeOK
    <2> HIDE DEF c
    <2> QED
      BY <2>1, <2>2, <2>3 DEF CheckedSeen
  <1>4. ASSUME NEW a \in Agent, Server(a) PROVE CheckedSeen'
    <2>1. /\ call[a] \in Call /\ call[a] # None
          /\ call' = [call EXCEPT ![a] = call'[a]]
          /\ call'[a] # None => call'[a].want = call[a].want
          /\ call'[a] # None /\ call'[a].checked # call[a].checked => Check(a)
      BY <1>4, CallGoesOn
    <2>2. \A d \in Agent \ {a} : call'[d] = call[d]
      BY <2>1 DEF TypeOK
    <2>3. CASE ReadVersion(a)
      <3>1. call[a].want = 0
        BY <2>1, <2>3 DEF ReadVersion, At, WantsSeen, Named
      <3>2. \A d \in Agent \ {a} : seen'[d] = seen[d]
        BY <2>3 DEF ReadVersion, TypeOK
      <3> QED
        BY <2>1, <2>2, <3>1, <3>2 DEF CheckedSeen
    <2>4. CASE ~ReadVersion(a)
      <3>1. seen' = seen
        BY <1>4, <2>4 DEF Server, InScope, Ask, Approve, Refuse, Check, Accept, Conflict,
           SetHint, Write, WriteFails, Delete, Move, Fail, ReadText, ReadFails, Persist,
           PersistFails, Ready, Goto, Return
      <3>2. ASSUME call'[a] # None, call'[a].want # 0, call'[a].checked # None, seen[a].sound
            PROVE  Near(call'[a].checked, seen[a].text)
        BY <2>1, <3>2, CheckFindsSeen DEF CheckedSeen
      <3> QED
        BY <2>2, <3>1, <3>2 DEF CheckedSeen
    <2> QED
      BY <2>3, <2>4
  <1> QED
    BY <1>2, <1>3, <1>4 DEF Next

(***************************************************************************)
(* A write or deletion that names a version replaces nothing its agent has *)
(* not seen, up to twice the threshold, whatever other agents, the user    *)
(* and the daemon did since the read, but for three windows: the file was  *)
(* changed between the check and the write, the mirror was behind it at    *)
(* the check, or the read was overtaken (read_file,                        *)
(* _check_expected_version, write_file and delete_file).                   *)
(***************************************************************************)
THEOREM CheckedWritesAreSeen == Spec => AcceptedMeansSeen
<1> DEFINE Inv == TypeOK /\ Shape /\ ReadsTold /\ WantsSeen /\ CheckedSeen
           Seen == \A a \in Agent :
                      Replaces(a) /\ seen[a].sound /\ call[a].checked = disk[call[a].path]
                         => Near(disk[call[a].path], seen[a].text)
<1>1. Init => Inv
  BY TypeInit DEF Init, ReadsTold, WantsSeen, CheckedSeen, At
<1>2. Inv /\ [Next]_vars => Inv'
  BY TypeStep, ReadsStep, CheckedStep
<1>3. Inv => Seen
  BY DEF Replaces, Write, WriteFails, Delete, Ready, At, CheckedSeen, Exists
<1> QED
  BY <1>1, <1>2, <1>3, PTL DEF Spec, AcceptedMeansSeen

=============================================================================

------------------------------ MODULE AgentTools ------------------------------
(***************************************************************************)
(* The tools an agent calls (app/mcp/server.py), the guardrail in front of *)
(* them (guardrail.py), and the hints by which the daemon learns whose     *)
(* change it commits (services/actor_hints.py, local_consumer.py).         *)
(*                                                                         *)
(* Every agent has a server process of its own, beside the daemon and the  *)
(* user's editor.  What the daemon does for an event is taken from         *)
(* Versioning without its debouncing, and every path is in one watched     *)
(* directory: a move stays in one repository and is one commit at most.    *)
(* config.yaml is rewritten in one step (ConfigReload has the two).        *)
(***************************************************************************)
EXTENDS Integers, Sequences

CONSTANTS
    Agent,
    Path,      \* files in one watched directory
    Scope,     \* those that are sources at the beginning
    Text,      \* contents, in a row: neighbours are similar; 0 is the empty one
    None,
    MaxCalls, MaxEdits   \* bounds: tool calls, edits by the user

ASSUME AgentToolsAssumption ==
    /\ Scope \subseteq Path
    /\ 0 \in Text
    /\ Text \subseteq Nat
    /\ None \notin Text \union Agent
    /\ MaxCalls \in Nat
    /\ MaxEdits \in Nat

VARIABLES
    disk,      \* contents of the files
    config,    \* sources in config.yaml
    text,      \* contents at the mirror's HEAD
    version,   \* commits that touched the path; 0 is version None
    hint,      \* pending_actor_hints that have not expired, by path
    events,    \* changes the source worker has yet to see
    task,      \* the one it is at
    call,      \* the call each server runs
    seen,      \* what the agent was told by its last read
    calls, edits,
    earned,    \* history: approved paths of calls that succeeded
    credit     \* history: hints each agent has set, less the commits in its name

mirror == <<text, version>>
agents == <<call, seen, calls>>
history == <<earned, credit>>
vars == <<disk, config, mirror, hint, events, task, agents, edits, history>>

Exists(p) == disk[p] # None

\* text_similarity is at least NEW_VERSION_THRESHOLD.
Similar(s, t) == s <= t + 1 /\ t <= s + 1

\* The mirror is as far as the threshold requires it to be.
UpToDate(p) ==
    \/ text[p] = None /\ disk[p] = None
    \/ text[p] # None /\ disk[p] # None /\ Similar(text[p], disk[p])

Event == [kind : {"created", "modified", "deleted", "moved", "scan"}, src : Path, dst : Path]

Ev(kind, p, q) == [kind |-> kind, src |-> p, dst |-> q]

Call == [tool : {"read", "write", "delete", "move"},
         path : Path, dst : Path, text : Text,
         want : Nat,             \* expected_version; 0 is None
         at : {"scope", "ask", "check", "hint", "read", "version", "persist"},
         todo : Seq(Path),       \* paths to check, then to leave hints for
         grants : Seq(Path),     \* approvals to persist
         was : Nat,              \* history: version when the text was read
         checked : Text \union {None}]   \* history: the file at an accepted check

Task == [event : Event, key : Path, label : Agent \union {None}, at : {"delete", "commit"}]

ASSUME NoneAssumption == None \notin Task /\ None \notin Call

TypeOK ==
    /\ disk \in [Path -> Text \union {None}]
    /\ config \subseteq Path
    /\ text \in [Path -> Text \union {None}]
    /\ version \in [Path -> Nat]
    /\ hint \in [Path -> Agent \union {None}]
    /\ events \in Seq(Event)
    /\ task \in Task \union {None}
    /\ call \in [Agent -> Call \union {None}]
    /\ seen \in [Agent -> [path : Path, text : Text, version : Nat, sound : BOOLEAN]
                              \union {None}]
    /\ calls \in 0..MaxCalls
    /\ edits \in 0..MaxEdits
    /\ earned \subseteq Path
    /\ credit \in [Agent -> Int]

Init ==
    /\ disk = [p \in Path |-> 0]
    /\ config = Scope
    /\ text = [p \in Path |-> IF p \in Scope THEN 0 ELSE None]
    /\ version = [p \in Path |-> IF p \in Scope THEN 1 ELSE 0]
    /\ hint = [p \in Path |-> None]
    /\ events = <<>>
    /\ task = None
    /\ call = [a \in Agent |-> None]
    /\ seen = [a \in Agent |-> None]
    /\ calls = 0
    /\ edits = 0
    /\ earned = {}
    /\ credit = [a \in Agent |-> 0]

-----------------------------------------------------------------------------
(* A call, up to its operation. *)

Paths(c) == IF c.tool = "move" THEN <<c.path, c.dst>> ELSE <<c.path>>

\* An agent that has read a file may name the version it was given.  create_file
\* is a write that names none.
Begin(a, tool, p, q, t, w) ==
    /\ call[a] = None
    /\ calls < MaxCalls
    /\ (tool = "move") = (p # q)
    /\ tool # "write" => t = 0
    /\ w # 0 => /\ tool \in {"write", "delete"}
                /\ seen[a] # None
                /\ seen[a].path = p
                /\ seen[a].version = w
    /\ LET c == [tool |-> tool, path |-> p, dst |-> q, text |-> t, want |-> w,
                 at |-> "scope", todo |-> <<>>, grants |-> <<>>, was |-> 0, checked |-> None]
       IN  call' = [call EXCEPT ![a] = [c EXCEPT !.todo = Paths(c)]]
    /\ calls' = calls + 1
    /\ UNCHANGED <<disk, config, mirror, hint, events, task, seen, edits, history>>

At(a, at) == call[a] # None /\ call[a].at = at

\* Only the call changes; it ends where it returns.
Goto(a, c) ==
    /\ call' = [call EXCEPT ![a] = c]
    /\ UNCHANGED <<disk, config, mirror, hint, events, task, seen, calls, edits, history>>

Return(a) == Goto(a, None)

\* The path at hand may be used: go on with the next one, or with the body of
\* the tool.
Granted(c) ==
    IF Len(c.todo) > 1 THEN [c EXCEPT !.at = "scope", !.todo = Tail(@)]
    ELSE [c EXCEPT !.at = IF c.tool = "read" THEN "read"
                          ELSE IF c.want # 0 THEN "check" ELSE "hint",
                   !.todo = Paths(c)]

\* ensure_scope.
InScope(a) ==
    /\ At(a, "scope")
    /\ Head(call[a].todo) \in config
    /\ Goto(a, Granted(call[a]))

Ask(a) ==
    /\ At(a, "scope")
    /\ Head(call[a].todo) \notin config
    /\ Goto(a, [call[a] EXCEPT !.at = "ask"])

\* The user accepts; the grant is pending.
Approve(a) ==
    /\ At(a, "ask")
    /\ Goto(a, Granted([call[a] EXCEPT !.grants = Append(@, Head(call[a].todo))]))

\* The user declines or cancels, nobody answers in time, or the client cannot
\* ask: denied.
Refuse(a) == At(a, "ask") /\ Return(a)

\* The call goes on; what it will replace is remembered if the mirror is not
\* behind it.
Accept(a) ==
    LET p == call[a].path IN
    Goto(a, [call[a] EXCEPT !.at = "hint", !.checked = IF UpToDate(p) THEN disk[p] ELSE None])

\* Mutant: any version of a tracked file will do.
CheckAny(a) == At(a, "check") /\ version[call[a].path] # 0 /\ Accept(a)

\* _check_expected_version.
Check(a) == At(a, "check") /\ version[call[a].path] = call[a].want /\ Accept(a)

\* A conflict, or an error while asking.
Conflict(a) == At(a, "check") /\ Return(a)

\* _set_actor_hint, best effort.
SetHint(a) ==
    /\ At(a, "hint")
    /\ call[a].todo # <<>>
    /\ LET p == Head(call[a].todo) IN
          \/ /\ hint' = [hint EXCEPT ![p] = a]
             /\ credit' = [credit EXCEPT ![a] = @ + 1]
          \/ UNCHANGED <<hint, credit>>
    /\ call' = [call EXCEPT ![a].todo = Tail(@)]
    /\ UNCHANGED <<disk, config, mirror, events, task, seen, calls, edits, earned>>

-----------------------------------------------------------------------------
(* Its operation and what follows. *)

\* The source subscription lets the events of the scope through.
Publish(e) ==
    events' = IF e.src \in config \/ (e.kind = "moved" /\ e.dst \in config)
              THEN Append(events, e) ELSE events

\* save_to_file opens with truncation and then writes, which may fail.
Save(p, t) ==
    /\ disk' = [disk EXCEPT ![p] = t]
    /\ Publish(Ev(IF Exists(p) THEN "modified" ELSE "created", p, p))

\* What the call approved and has done.
Succeed(a) ==
    /\ call' = [call EXCEPT ![a] = IF @.grants = <<>> THEN None ELSE [@ EXCEPT !.at = "persist"]]
    /\ earned' = earned \union {call[a].grants[i] : i \in DOMAIN call[a].grants}

Ready(a, tool) ==
    /\ At(a, "hint")
    /\ call[a].todo = <<>>
    /\ call[a].tool = tool
    /\ UNCHANGED <<config, mirror, hint, task, seen, calls, edits, credit>>

Write(a) == Ready(a, "write") /\ Save(call[a].path, call[a].text) /\ Succeed(a)

WriteFails(a) ==
    /\ Ready(a, "write")
    /\ Save(call[a].path, 0)
    /\ call' = [call EXCEPT ![a] = None]
    /\ UNCHANGED earned

Delete(a) ==
    /\ Ready(a, "delete")
    /\ Exists(call[a].path)
    /\ disk' = [disk EXCEPT ![call[a].path] = None]
    /\ Publish(Ev("deleted", call[a].path, call[a].path))
    /\ Succeed(a)

Move(a) ==
    /\ Ready(a, "move")
    /\ Exists(call[a].path)
    /\ disk' = [disk EXCEPT ![call[a].dst] = disk[call[a].path], ![call[a].path] = None]
    /\ Publish(Ev("moved", call[a].path, call[a].dst))
    /\ Succeed(a)

\* The operation raises before it has changed anything.
Fail(a) == At(a, "hint") /\ call[a].todo = <<>> /\ Return(a)

\* Mutant: a file that is not there reads as nothing, not as an error.
ReadNothing(a) ==
    /\ At(a, "read")
    /\ LET p == call[a].path IN
       Goto(a, [call[a] EXCEPT !.at = "version", !.text = disk[p],
                               !.was = IF UpToDate(p) THEN version[p] ELSE 0])

\* read_file reads the text first, the version after it.
ReadText(a) ==
    /\ At(a, "read")
    /\ IF Exists(call[a].path)
       THEN LET p == call[a].path IN
            Goto(a, [call[a] EXCEPT !.at = "version", !.text = disk[p],
                                    !.was = IF UpToDate(p) THEN version[p] ELSE 0])
       ELSE Return(a)

ReadVersion(a) ==
    /\ At(a, "version")
    /\ LET p == call[a].path IN
          seen' = [seen EXCEPT ![a] = [path |-> p, text |-> call[a].text, version |-> version[p],
                                       sound |-> version[p] = call[a].was]]
    /\ Succeed(a)
    /\ UNCHANGED <<disk, config, mirror, hint, events, task, calls, edits, credit>>

\* current_version raises: an error, not an answer.
ReadFails(a) == At(a, "version") /\ Return(a)

\* Mutant: an approval is persisted as soon as it is given.
PersistEarly(a) ==
    /\ call[a] # None
    /\ call[a].grants # <<>>
    /\ LET p == Head(call[a].grants) IN
          /\ config' = config \union {p}
          /\ events' = IF Exists(p) THEN Append(events, Ev("scan", p, p)) ELSE events
    /\ call' = [call EXCEPT ![a].grants = Tail(@)]
    /\ UNCHANGED <<disk, mirror, hint, task, seen, calls, edits, history>>

\* _commit_grants: the path becomes a source, and the config worker commits
\* the file it finds there.
Persist(a) ==
    /\ At(a, "persist")
    /\ LET p == Head(call[a].grants) IN
          /\ config' = config \union {p}
          /\ events' = IF Exists(p) THEN Append(events, Ev("scan", p, p)) ELSE events
    /\ call' = [call EXCEPT ![a] = IF Len(@.grants) = 1 THEN None
                                   ELSE [call[a] EXCEPT !.grants = Tail(@)]]
    /\ UNCHANGED <<disk, mirror, hint, task, seen, calls, edits, history>>

\* config.yaml cannot be written: the rest is not tried.
PersistFails(a) == At(a, "persist") /\ Return(a)

Server(a) ==
    \/ InScope(a) \/ Ask(a) \/ Approve(a) \/ Refuse(a)
    \/ Check(a) \/ Conflict(a) \/ SetHint(a)
    \/ Write(a) \/ WriteFails(a) \/ Delete(a) \/ Move(a) \/ Fail(a)
    \/ ReadText(a) \/ ReadVersion(a) \/ ReadFails(a)
    \/ Persist(a) \/ PersistFails(a)

-----------------------------------------------------------------------------
(* The user, time and the daemon. *)

Edit(p) ==
    /\ edits < MaxEdits
    /\ edits' = edits + 1
    /\ \E t \in (Text \union {None}) \ {disk[p]} :
          /\ disk' = [disk EXCEPT ![p] = t]
          /\ Publish(Ev(IF t = None THEN "deleted"
                        ELSE IF Exists(p) THEN "modified" ELSE "created", p, p))
    /\ UNCHANGED <<config, mirror, hint, task, agents, history>>

\* A hint lasts five seconds.  The row stays, but whoever reads it next deletes
\* or replaces it.
Expire(p) ==
    /\ hint[p] # None
    /\ hint' = [hint EXCEPT ![p] = None]
    /\ UNCHANGED <<disk, config, mirror, events, task, agents, edits, history>>

\* LocalConsumer.handle, with consume_hint's SELECT.  The config worker, which
\* runs the scan, asks for no hint.
Take ==
    /\ task = None
    /\ events # <<>>
    /\ LET e == Head(events) IN
          task' = IF e.kind = "scan"
                  THEN [event |-> e, key |-> e.src, label |-> None, at |-> "commit"]
                  ELSE [event |-> e, key |-> e.src, label |-> hint[e.src], at |-> "delete"]
    /\ events' = Tail(events)
    /\ UNCHANGED <<disk, config, mirror, hint, agents, edits, history>>

\* Mutant: consume_hint only looks.
Peek ==
    /\ task # None
    /\ task.at = "delete"
    /\ task' = [task EXCEPT !.at = "commit"]
    /\ UNCHANGED <<disk, config, mirror, hint, events, agents, edits, history>>

\* consume_hint's DELETE; a move that found nothing looks for the other end.
Consume ==
    /\ task # None
    /\ task.at = "delete"
    /\ hint' = [hint EXCEPT ![task.key] = None]
    /\ LET e == task.event IN
          task' = IF task.label = None /\ e.kind = "moved" /\ task.key = e.src
                  THEN [task EXCEPT !.key = e.dst, !.label = hint'[e.dst]]
                  ELSE [task EXCEPT !.at = "commit"]
    /\ UNCHANGED <<disk, config, mirror, events, agents, edits, history>>

\* HEAD after the handler of an event (Versioning).
Created(p) == [text EXCEPT ![p] = disk[p]]

Deleted(p) == [text EXCEPT ![p] = None]

After(e) ==
    CASE e.kind \in {"created", "scan"} /\ Exists(e.src) -> Created(e.src)
      [] e.kind = "modified" /\ Exists(e.src) ->
            IF text[e.src] # None /\ Similar(text[e.src], disk[e.src]) THEN text
            ELSE Created(e.src)
      [] e.kind = "deleted" -> Deleted(e.src)
      [] e.kind = "moved" /\ text[e.src] # None ->
            [text EXCEPT ![e.dst] = text[e.src], ![e.src] = None]
      [] OTHER -> text

Commit ==
    /\ task # None
    /\ task.at = "commit"
    /\ text' = After(task.event)
    /\ version' = [p \in Path |-> IF text'[p] = text[p] THEN version[p] ELSE version[p] + 1]
    /\ credit' = IF text' = text \/ task.label = None THEN credit
                 ELSE [credit EXCEPT ![task.label] = @ - 1]
    /\ task' = None
    /\ UNCHANGED <<disk, config, hint, events, agents, edits, earned>>

Daemon == Take \/ Consume \/ Commit

Next ==
    \/ \E a \in Agent :
          \/ \E tool \in {"read", "write", "delete", "move"}, p, q \in Path, t \in Text :
                \E w \in {0} \union (IF seen[a] = None THEN {} ELSE {seen[a].version}) :
                   Begin(a, tool, p, q, t, w)
          \/ Server(a)
    \/ \E p \in Path : Edit(p) \/ Expire(p)
    \/ Daemon

Spec == Init /\ [][Next]_vars

-----------------------------------------------------------------------------
\* A call that names a version writes over a file, or deletes it.
Replaces(a) ==
    /\ Write(a) \/ WriteFails(a) \/ Delete(a)
    /\ call[a].want # 0
    /\ Exists(call[a].path)

Near(s, t) == s <= t + 2 /\ t <= s + 2

\* What a call that names a version replaces is what its agent has seen, up to
\* twice the threshold, whatever was edited and committed since the read, unless
\* the file is not what it was when the version was checked, the mirror was
\* behind it then, or the read was overtaken: the version is not that of the text
\* (read_file, _check_expected_version, then set_hint and save_to_file or unlink).
AcceptedMeansSeen ==
    [][\A a \in Agent :
          Replaces(a) /\ seen[a].sound /\ call[a].checked = disk[call[a].path]
             => Near(disk[call[a].path], seen[a].text)]_vars

\* The scope grows by what was approved for a call that then succeeded; not by
\* a call that was denied, in conflict or failed (ScopeGrant, _commit_grants).
GrantsFollowSuccess == config \subseteq Scope \union earned

\* Commits in an agent's name are no more than the hints it has set, though the
\* daemon reads and deletes a hint in two statements while servers set others
\* (consume_hint).
OneLabelPerHint == \A a \in Agent : credit[a] >= 0

\* The same of files that were changed between the check and the write: the
\* hint is set between the two, under no lock.
CheckedWritesAreAtomic ==
    [][\A a \in Agent :
          Replaces(a) /\ seen[a].sound /\ call[a].checked # None
             => Near(disk[call[a].path], seen[a].text)]_vars

\* The same of reads that were overtaken: read_file reads the text, then the
\* version.
ReadsAreOneLook ==
    [][\A a \in Agent :
          Replaces(a) /\ call[a].checked = disk[call[a].path]
             => Near(disk[call[a].path], seen[a].text)]_vars

\* Specification 021: an edit is only overwritten unseen between the check and
\* the watcher's dispatch of what came before it.
CheckedWriteSeesEdits ==
    [][\A a \in Agent :
          Check(a) /\ events = <<>> /\ task = None => disk[call[a].path] = seen[a].text]_vars

=============================================================================

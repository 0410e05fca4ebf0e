-------------------------------- MODULE Daemon --------------------------------
(***************************************************************************)
(* ctx daemon start, stop and status (app/cli/daemon.py): command line     *)
(* processes and the daemons they start share a PID file and a stop        *)
(* sentinel, which a running daemon polls (workers/local/local_runtime.py).*)
(***************************************************************************)
EXTENDS Naturals, FiniteSets

CONSTANTS
    Caller,   \* command line processes at a time
    Pid,      \* PIDs; how many bounds the daemons ever started
    NoPid,    \* no PID file, or one that cannot be read
    Crashes,  \* whether a daemon may end by itself
    Reuse     \* whether another program may get the PID of a dead daemon

ASSUME DaemonAssumption ==
    /\ NoPid \notin Pid
    /\ Crashes \in BOOLEAN
    /\ Reuse \in BOOLEAN

VARIABLES
    pidFile,
    sentinel,
    proc,    \* unused, booting, running, stopping, dead, stranger
    signal,  \* daemons with a stop signal they have not looked at
    pc,      \* where each caller is
    target,  \* the PID it is about
    asked    \* history: PIDs that a stop was about

vars == <<pidFile, sentinel, proc, signal, pc, target, asked>>

Init ==
    /\ pidFile = NoPid
    /\ sentinel = FALSE
    /\ proc = [p \in Pid |-> "unused"]
    /\ signal = {}
    /\ pc = [c \in Caller |-> "idle"]
    /\ target = [c \in Caller |-> NoPid]
    /\ asked = {}

Daemons == {p \in Pid : proc[p] \in {"booting", "running", "stopping"}}

\* _is_process_alive: a process with this PID exists.
Alive(p) == p \in Daemons \/ (p \in Pid /\ proc[p] = "stranger")

Go(c, at) == pc' = [pc EXCEPT ![c] = at]

-----------------------------------------------------------------------------
(* start *)

\* Mutant: the PID file is not looked at.
StartBlindly(c) ==
    /\ pc[c] = "idle"
    /\ Go(c, "clear")
    /\ UNCHANGED <<pidFile, sentinel, proc, signal, target, asked>>

\* DaemonAlreadyRunningError otherwise.
Start(c) ==
    /\ pc[c] = "idle"
    /\ ~Alive(pidFile)
    /\ Go(c, "clear")
    /\ UNCHANGED <<pidFile, sentinel, proc, signal, target, asked>>

\* Mutant: a sentinel from before stays.
ClearNothing(c) ==
    /\ pc[c] = "clear"
    /\ Go(c, "spawn")
    /\ UNCHANGED <<pidFile, sentinel, proc, signal, target, asked>>

Clear(c) ==
    /\ pc[c] = "clear"
    /\ sentinel' = FALSE
    /\ Go(c, "spawn")
    /\ UNCHANGED <<pidFile, proc, signal, target, asked>>

Spawn(c) ==
    /\ pc[c] = "spawn"
    /\ \E p \in Pid :
          /\ proc[p] = "unused"
          /\ proc' = [proc EXCEPT ![p] = "booting"]
          /\ target' = [target EXCEPT ![c] = p]
    /\ Go(c, "record")
    /\ UNCHANGED <<pidFile, sentinel, signal, asked>>

Record(c) ==
    /\ pc[c] = "record"
    /\ pidFile' = target[c]
    /\ target' = [target EXCEPT ![c] = NoPid]
    /\ Go(c, "idle")
    /\ UNCHANGED <<sentinel, proc, signal, asked>>

-----------------------------------------------------------------------------
(* stop *)

\* Nothing to stop: only the files go.
Stop(c) ==
    /\ pc[c] = "idle"
    /\ \/ /\ Alive(pidFile)
          /\ target' = [target EXCEPT ![c] = pidFile]
          /\ asked' = asked \union {pidFile}
          /\ Go(c, "signal")
       \/ /\ ~Alive(pidFile)
          /\ Go(c, "forget")
          /\ UNCHANGED <<target, asked>>
    /\ UNCHANGED <<pidFile, sentinel, proc, signal>>

\* A daemon that is still booting has no handler yet: the signal ends it.
Delivered(p) ==
    \/ proc[p] = "booting" /\ proc' = [proc EXCEPT ![p] = "dead"] /\ UNCHANGED signal
    \/ proc[p] # "booting" /\ signal' = signal \union {p} /\ UNCHANGED proc

\* An OSError, be it for want of a console or of the process, leaves a sentinel.
Send(c) ==
    /\ pc[c] = "signal"
    /\ Go(c, "wait")
    /\ \/ Alive(target[c]) /\ Delivered(target[c]) /\ UNCHANGED sentinel
       \/ sentinel' = TRUE /\ UNCHANGED <<proc, signal>>
    /\ UNCHANGED <<pidFile, target, asked>>

Gone(c) ==
    /\ pc[c] = "wait"
    /\ ~Alive(target[c])
    /\ Go(c, "forget")
    /\ UNCHANGED <<pidFile, sentinel, proc, signal, target, asked>>

\* Mutant: stop waits for as long as it takes.
TimeoutNever(c) == FALSE

Timeout(c) ==
    /\ pc[c] = "wait"
    /\ Alive(target[c])
    /\ Go(c, "kill")
    /\ UNCHANGED <<pidFile, sentinel, proc, signal, target, asked>>

\* Mutant: stop returns right after the kill.
ForceKillReturning(c) ==
    /\ pc[c] = "kill"
    /\ proc' = [proc EXCEPT ![target[c]] = "dead"]
    /\ Go(c, "idle")
    /\ UNCHANGED <<pidFile, sentinel, signal, target, asked>>

\* _force_kill raises when the process has just ended, and so does stop.
ForceKill(c) ==
    /\ pc[c] = "kill"
    /\ \/ /\ Alive(target[c])
          /\ proc' = [proc EXCEPT ![target[c]] = "dead"]
          /\ Go(c, "forget")
          /\ UNCHANGED target
       \/ /\ ~Alive(target[c])
          /\ target' = [target EXCEPT ![c] = NoPid]
          /\ Go(c, "idle")
          /\ UNCHANGED proc
    /\ UNCHANGED <<pidFile, sentinel, signal, asked>>

Forget(c) ==
    /\ pc[c] = "forget"
    /\ pidFile' = NoPid
    /\ Go(c, "tidy")
    /\ UNCHANGED <<sentinel, proc, signal, target, asked>>

Tidy(c) ==
    /\ pc[c] = "tidy"
    /\ sentinel' = FALSE
    /\ target' = [target EXCEPT ![c] = NoPid]
    /\ Go(c, "idle")
    /\ UNCHANGED <<pidFile, proc, signal, asked>>

-----------------------------------------------------------------------------
(* The daemons. *)

Become(p, from, to) ==
    /\ proc[p] = from
    /\ proc' = [proc EXCEPT ![p] = to]
    /\ UNCHANGED <<pidFile, sentinel, signal, pc, target, asked>>

Up(p) == Become(p, "booting", "running")
Quit(p) == (p \in signal \/ sentinel) /\ Become(p, "running", "stopping")
Exit(p) == Become(p, "stopping", "dead")
Crash(p) == Crashes /\ \E from \in {"booting", "running", "stopping"} : Become(p, from, "dead")
Reused(p) == Reuse /\ Become(p, "dead", "stranger")

-----------------------------------------------------------------------------
Command(c) ==
    \/ Start(c) \/ Clear(c) \/ Spawn(c) \/ Record(c)
    \/ Stop(c) \/ Send(c) \/ Gone(c) \/ Timeout(c) \/ ForceKill(c) \/ Forget(c) \/ Tidy(c)

Process(p) == Up(p) \/ Quit(p) \/ Exit(p) \/ Crash(p) \/ Reused(p)

Next ==
    \/ \E c \in Caller : Command(c)
    \/ \E p \in Pid : Process(p)

Spec == Init /\ [][Next]_vars

\* A command that runs gets on with it; no daemon has to.
Proceed(c) ==
    \/ Clear(c) \/ Spawn(c) \/ Record(c) \/ Send(c) \/ Gone(c) \/ Timeout(c)
    \/ ForceKill(c) \/ Forget(c) \/ Tidy(c)

FairSpec == Spec /\ \A c \in Caller : WF_vars(Proceed(c))

-----------------------------------------------------------------------------
\* What status() reports.
Running == Alive(pidFile)

\* Every variable has the values the code can give it, and a command has a
\* target exactly while it is about one.
TypeOK ==
    /\ pidFile \in Pid \union {NoPid}
    /\ sentinel \in BOOLEAN
    /\ proc \in [Pid -> {"unused", "booting", "running", "stopping", "dead", "stranger"}]
    /\ signal \subseteq asked
    /\ asked \subseteq Pid
    /\ pc \in [Caller -> {"idle", "clear", "spawn", "record", "signal", "wait", "kill",
                          "forget", "tidy"}]
    /\ target \in [Caller -> Pid \union {NoPid}]
    /\ \A c \in Caller :
          /\ pc[c] \in {"record", "signal", "wait", "kill"} => target[c] # NoPid
          /\ pc[c] \in {"idle", "clear", "spawn"} => target[c] = NoPid

\* Two daemons never watch the same tree, and between commands the PID file
\* names the one there is, so that status and stop find it, whatever way the
\* last one ended (start checks the PID file; stop forgets it at last).
DaemonIsKnown ==
    /\ Cardinality(Daemons) <= 1
    /\ (\A c \in Caller : pc[c] = "idle") => Daemons \subseteq {pidFile}

\* start: a sentinel left by an earlier stop does not stop a new daemon.  Only
\* one that a stop was about goes.
OnlyAskedQuit ==
    [][\A p \in Pid : proc[p] = "running" /\ proc'[p] = "stopping" => p \in asked]_vars

\* stop() never hangs on a daemon that does not end, it kills it.
StopReturns == \A c \in Caller : (pc[c] = "signal") ~> (pc[c] = "idle")

\* Spec 019: status() takes a PID that something else got for a stopped daemon.
ReusedIsStopped == Running => pidFile \in Daemons

=============================================================================

----------------------------- MODULE RuntimeProofs -----------------------------
(***************************************************************************)
(* The daemon from outside and from inside.                                *)
(*                                                                         *)
(* Daemon: its types with any number of command line processes, and for    *)
(* one at a time that there is never more than one daemon, that it is the  *)
(* one the PID file names, and that none quits which nobody asked to,      *)
(* through any crashes and reused PIDs.                                    *)
(*                                                                         *)
(* EventBus: what the bus inside of a daemon promises for any              *)
(* subscriptions and any number of events.  NothingLeftBehind is not       *)
(* inductive: what matters is that STOP is the last thing ever put in a    *)
(* mailbox.  StopInv says so, with the reason: the dispatcher is over      *)
(* whenever the bus is closed.  For the refinement of Mailbox, WatchInv    *)
(* adds when the observer has handlers.                                    *)
(*                                                                         *)
(* TopicMatch: the table that the bus routes by has TRUE exactly for the   *)
(* keys that match by definition, whatever their length.                   *)
(*                                                                         *)
(* WatchTargets: for any names, paths and existing directories every path  *)
(* in scope has exactly one watch target, and granting a path takes no     *)
(* other out of view.                                                      *)
(***************************************************************************)
EXTENDS Daemon, EventBus, WatchTargets, SharedLemmas

-----------------------------------------------------------------------------
(* Daemon. *)

\* Only what a stop is about gets its signal.
SignalInv ==
    /\ TypeOK
    /\ \A c \in Caller : pc[c] = "signal" => target[c] \in asked

LEMMA CommandKeepsTypes ==
    ASSUME SignalInv, NEW c \in Caller, Command(c)
    PROVE  SignalInv'
<1>1. CASE Start(c)
  BY <1>1 DEF Start, Go, SignalInv, TypeOK
<1>2. CASE Clear(c)
  BY <1>2 DEF Clear, Go, SignalInv, TypeOK
<1>3. CASE Spawn(c)
  BY <1>3, DaemonAssumption DEF Spawn, Go, SignalInv, TypeOK
<1>4. CASE Record(c)
  BY <1>4 DEF Record, Go, SignalInv, TypeOK
<1>5. CASE Stop(c)
  <2>1. CASE Alive(pidFile)
    <3>1. pidFile \in Pid
      BY <2>1 DEF Alive, Daemons
    <3> QED
      BY <1>5, <2>1, <3>1, DaemonAssumption DEF Stop, Go, SignalInv, TypeOK
  <2> QED
    BY <1>5, <2>1 DEF Stop, Go, SignalInv, TypeOK
<1>6. CASE Send(c)
  <2>1. target[c] \in asked /\ target[c] \in Pid
    BY <1>6 DEF Send, SignalInv, TypeOK
  <2>2. /\ proc' \in [Pid -> {"unused", "booting", "running", "stopping", "dead", "stranger"}]
        /\ signal' \subseteq asked
        /\ sentinel' \in BOOLEAN
    BY <1>6, <2>1 DEF Send, Delivered, SignalInv, TypeOK
  <2> QED
    BY <1>6, <2>2 DEF Send, Go, SignalInv, TypeOK
<1>7. CASE Gone(c)
  BY <1>7 DEF Gone, Go, SignalInv, TypeOK
<1>8. CASE Timeout(c)
  BY <1>8 DEF Timeout, Go, SignalInv, TypeOK
<1>9. CASE ForceKill(c)
  BY <1>9 DEF ForceKill, Go, SignalInv, TypeOK
<1>10. CASE Forget(c)
  BY <1>10 DEF Forget, Go, SignalInv, TypeOK
<1>11. CASE Tidy(c)
  BY <1>11 DEF Tidy, Go, SignalInv, TypeOK
<1> QED
  BY <1>1, <1>2, <1>3, <1>4, <1>5, <1>6, <1>7, <1>8, <1>9, <1>10, <1>11 DEF Command

LEMMA ProcessStep ==
    ASSUME NEW p \in Pid, Process(p)
    PROVE  \E from \in {"booting", "running", "stopping", "dead"},
              to \in {"running", "stopping", "dead", "stranger"} :
              /\ Become(p, from, to)
              /\ to \in {"running", "stopping"} => from \in {"booting", "running"}
              /\ to = "stopping" => p \in signal \/ sentinel
BY DEF Process, Up, Quit, Exit, Crash, Reused

(***************************************************************************)
(* Every variable has the values the code can give it, and a command has a *)
(* target exactly while it is about one (app/cli/daemon.py).               *)
(***************************************************************************)
THEOREM Typing == Spec => []TypeOK
<1>1. Init => SignalInv
  BY DEF Init, SignalInv, TypeOK
<1>2. SignalInv /\ [Next]_vars => SignalInv'
  <2> SUFFICES ASSUME SignalInv, [Next]_vars
               PROVE  SignalInv'
    OBVIOUS
  <2>1. ASSUME NEW p \in Pid, Process(p) PROVE SignalInv'
    BY <2>1, ProcessStep DEF Become, SignalInv, TypeOK
  <2>2. CASE UNCHANGED vars
    BY <2>2 DEF vars, SignalInv, TypeOK
  <2> QED
    BY <2>1, <2>2, CommandKeepsTypes DEF Next
<1>3. SignalInv => TypeOK
  BY DEF SignalInv
<1> QED
  BY <1>1, <1>2, <1>3, PTL DEF Spec

-----------------------------------------------------------------------------
(* One command at a time. *)

\* While a command starts a daemon there is no other, until the PID file names
\* it; while one stops a daemon it is the one of the PID file.  A sentinel is
\* there for a daemon that a stop was about, and none is when one is spawned.
KnownInv(c) ==
    /\ pc[c] \in {"clear", "spawn", "forget", "tidy"} => Daemons = {}
    /\ pc[c] = "record" => Daemons \subseteq {target[c]}
    /\ pc[c] \in {"idle", "signal", "wait", "kill"} => Daemons \subseteq {pidFile}
    /\ pc[c] \in {"signal", "wait", "kill"} => target[c] = pidFile /\ target[c] \in asked
    /\ pc[c] \in {"spawn", "record"} => ~sentinel
    /\ sentinel => Daemons \subseteq asked

\* What a daemon does by itself makes no second one.
LEMMA NoneAppears ==
    ASSUME TypeOK, NEW p \in Pid, Process(p)
    PROVE  Daemons' \subseteq Daemons
BY ProcessStep DEF Become, Daemons, TypeOK

LEMMA KnownCommand ==
    ASSUME NEW c, Caller = {c}, SignalInv, KnownInv(c), Command(c)
    PROVE  KnownInv(c)'
<1> USE DEF Go, SignalInv, TypeOK
<1>1. CASE Start(c)
  <2>1. Daemons = {}
    BY <1>1 DEF Start, KnownInv, Alive
  <2> QED
    BY <1>1, <2>1 DEF Start, KnownInv, Daemons
<1>2. CASE Clear(c)
  BY <1>2 DEF Clear, KnownInv, Daemons
<1>3. CASE Spawn(c)
  <2>1. PICK p \in Pid : /\ proc' = [proc EXCEPT ![p] = "booting"]
                        /\ target' = [target EXCEPT ![c] = p]
    BY <1>3 DEF Spawn
  <2>2. Daemons' \subseteq {p}
    BY <1>3, <2>1 DEF Spawn, KnownInv, Daemons
  <2> QED
    BY <1>3, <2>1, <2>2 DEF Spawn, KnownInv
<1>4. CASE Record(c)
  BY <1>4 DEF Record, KnownInv, Daemons
<1>5. CASE Stop(c)
  <2>1. UNCHANGED <<Daemons, sentinel, pidFile>> /\ asked \subseteq asked'
    BY <1>5 DEF Stop, Daemons
  <2>2. CASE Alive(pidFile)
    BY <1>5, <2>1, <2>2 DEF Stop, KnownInv
  <2>3. CASE ~Alive(pidFile)
    <3>1. Daemons = {}
      BY <1>5, <2>3 DEF Stop, KnownInv, Alive
    <3> QED
      BY <1>5, <2>1, <2>3, <3>1 DEF Stop, KnownInv
  <2> QED
    BY <2>2, <2>3
<1>6. CASE Send(c)
  <2>1. Daemons' \subseteq Daemons
    BY <1>6 DEF Send, Delivered, Daemons
  <2>2. Daemons \subseteq {target[c]} /\ target[c] = pidFile /\ target[c] \in asked
    BY <1>6 DEF Send, KnownInv
  <2> QED
    BY <1>6, <2>1, <2>2 DEF Send, KnownInv
<1>7. CASE Gone(c)
  <2>1. Daemons = {}
    BY <1>7 DEF Gone, KnownInv, Alive
  <2> QED
    BY <1>7, <2>1 DEF Gone, KnownInv, Daemons
<1>8. CASE Timeout(c)
  BY <1>8 DEF Timeout, KnownInv, Daemons
<1>9. CASE ForceKill(c)
  <2>1. Daemons \subseteq {target[c]}
    BY <1>9 DEF ForceKill, KnownInv
  <2>2. Daemons' = {}
    BY <1>9, <2>1 DEF ForceKill, Alive, Daemons
  <2> QED
    BY <1>9, <2>2 DEF ForceKill, KnownInv
<1>10. CASE Forget(c)
  BY <1>10 DEF Forget, KnownInv, Daemons
<1>11. CASE Tidy(c)
  BY <1>11 DEF Tidy, KnownInv, Daemons
<1> QED
  BY <1>1, <1>2, <1>3, <1>4, <1>5, <1>6, <1>7, <1>8, <1>9, <1>10, <1>11 DEF Command

LEMMA Invariance ==
    ASSUME NEW c, Caller = {c}
    PROVE  Spec => [](SignalInv /\ KnownInv(c))
<1> DEFINE IInv == SignalInv /\ KnownInv(c)
<1>1. Init => IInv
  BY DEF Init, SignalInv, TypeOK, KnownInv, Daemons
<1>2. IInv /\ [Next]_vars => IInv'
  <2> SUFFICES ASSUME SignalInv, KnownInv(c), [Next]_vars
               PROVE  SignalInv' /\ KnownInv(c)'
    OBVIOUS
  <2>1. ASSUME NEW p \in Pid, Process(p) PROVE SignalInv' /\ KnownInv(c)'
    <3>1. UNCHANGED <<pidFile, sentinel, pc, target, asked>>
      BY <2>1, ProcessStep DEF Become
    <3>2. SignalInv'
      BY <2>1, ProcessStep DEF Become, SignalInv, TypeOK
    <3>3. KnownInv(c)'
      BY <2>1, <3>1, NoneAppears DEF SignalInv, KnownInv
    <3> QED
      BY <3>2, <3>3
  <2>2. ASSUME Command(c) PROVE SignalInv' /\ KnownInv(c)'
    BY <2>2, KnownCommand, CommandKeepsTypes
  <2>3. CASE UNCHANGED vars
    BY <2>3 DEF vars, SignalInv, TypeOK, KnownInv, Daemons
  <2> QED
    BY <2>1, <2>2, <2>3 DEF Next
<1> QED
  BY <1>1, <1>2, PTL DEF Spec

(***************************************************************************)
(* With one command at a time, and any number of daemons that crash and    *)
(* PIDs that others get, there is at most one daemon, and between commands *)
(* the PID file names it (start, stop).                                    *)
(***************************************************************************)
THEOREM OneDaemon == ASSUME NEW c, Caller = {c} PROVE Spec => []DaemonIsKnown
<1>1. SignalInv /\ KnownInv(c) => DaemonIsKnown
  <2> SUFFICES ASSUME SignalInv, KnownInv(c)
               PROVE  DaemonIsKnown
    OBVIOUS
  <2>1. PICK p : Daemons \subseteq {p}
    BY DEF KnownInv, SignalInv, TypeOK
  <2>2. Cardinality(Daemons) <= 1
    <3>1. Cardinality({}) = 0
      BY FS_EmptySet
    <3>2. Cardinality({p}) = 1
      BY FS_Singleton
    <3>3. Daemons = {} \/ Daemons = {p}
      BY <2>1
    <3>4. CASE Daemons = {}
      BY <3>1, <3>4
    <3>5. CASE Daemons = {p}
      BY <3>2, <3>5
    <3> QED
      BY <3>3, <3>4, <3>5
  <2> QED
    BY <2>2 DEF DaemonIsKnown, KnownInv
<1> QED
  BY <1>1, Invariance, PTL

(***************************************************************************)
(* A daemon that quits is one that a stop was about: a sentinel that an    *)
(* earlier stop left behind is gone when the next daemon starts.           *)
(***************************************************************************)
THEOREM QuitsWhenAsked == ASSUME NEW c, Caller = {c} PROVE Spec => OnlyAskedQuit
<1> DEFINE A == \A p \in Pid : proc[p] = "running" /\ proc'[p] = "stopping" => p \in asked
<1>1. SignalInv /\ KnownInv(c) /\ [Next]_vars => A
  <2> SUFFICES ASSUME SignalInv, KnownInv(c), [Next]_vars,
                      NEW p \in Pid, proc[p] = "running", proc'[p] = "stopping"
               PROVE  p \in asked
    OBVIOUS
  <2>1. ASSUME NEW q \in Pid, Process(q) PROVE p \in signal \/ sentinel
    BY <2>1, ProcessStep DEF Become, SignalInv, TypeOK
  <2>2. ASSUME Command(c) PROVE FALSE
    <3>1. CASE Send(c)
      BY <3>1 DEF Send, Delivered, SignalInv, TypeOK
    <3>2. CASE Spawn(c) \/ ForceKill(c)
      BY <3>2 DEF Spawn, ForceKill, SignalInv, TypeOK
    <3>3. CASE UNCHANGED proc
      BY <3>3
    <3> QED
      BY <2>2, <3>1, <3>2, <3>3
         DEF Command, Start, Clear, Record, Stop, Gone, Timeout, Forget, Tidy
  <2>3. UNCHANGED vars => FALSE
    BY DEF vars
  <2>4. p \in Daemons
    BY DEF Daemons
  <2> QED
    BY <2>1, <2>2, <2>3, <2>4 DEF Next, SignalInv, TypeOK, KnownInv
<1> QED
  BY <1>1, Invariance, PTL DEF Spec, OnlyAskedQuit

-----------------------------------------------------------------------------
(* TopicMatch. *)

\* CanBeCut of the first i words of the pattern and the first j of the topic.
Cut(p, t, i, j) ==
    \E cut \in [0..i -> 0..Len(t)] :
        /\ cut[0] = 0
        /\ cut[i] = j
        /\ \A k \in 1..i :
              /\ cut[k - 1] <= cut[k]
              /\ p[k] # Hash =>
                    /\ cut[k] = cut[k - 1] + 1
                    /\ p[k] \in {Star, t[cut[k]]}

\* No word of the pattern takes no word of the topic.
LEMMA CutNothing ==
    ASSUME NEW p, NEW t, Len(t) \in Nat, NEW j \in 0..Len(t)
    PROVE  Cut(p, t, 0, j) <=> j = 0
<1>1. ASSUME j = 0 PROVE Cut(p, t, 0, j)
  <2> DEFINE cut == [x \in 0..0 |-> 0]
  <2>1. cut \in [0..0 -> 0..Len(t)] /\ cut[0] = 0
    OBVIOUS
  <2> HIDE DEF cut
  <2> QED
    BY <1>1, <2>1 DEF Cut
<1>2. ASSUME Cut(p, t, 0, j) PROVE j = 0
  BY <1>2 DEF Cut
<1> QED
  BY <1>1, <1>2

\* The last piece starts somewhere.
LEMMA CutLast ==
    ASSUME NEW p, NEW t, Len(t) \in Nat, NEW i \in Nat \ {0}, NEW j \in 0..Len(t)
    PROVE  Cut(p, t, i, j) <=>
              \E k \in 0..j :
                 /\ Cut(p, t, i - 1, k)
                 /\ p[i] # Hash => j = k + 1 /\ p[i] \in {Star, t[j]}
<1>1. ASSUME Cut(p, t, i, j)
      PROVE  \E k \in 0..j :
                 /\ Cut(p, t, i - 1, k)
                 /\ p[i] # Hash => j = k + 1 /\ p[i] \in {Star, t[j]}
  <2>1. PICK cut \in [0..i -> 0..Len(t)] :
             /\ cut[0] = 0
             /\ cut[i] = j
             /\ \A k \in 1..i :
                   /\ cut[k - 1] <= cut[k]
                   /\ p[k] # Hash =>
                         /\ cut[k] = cut[k - 1] + 1
                         /\ p[k] \in {Star, t[cut[k]]}
    BY <1>1 DEF Cut
  <2> DEFINE less == [x \in 0..(i - 1) |-> cut[x]]
  <2>2. /\ less \in [0..(i - 1) -> 0..Len(t)]
        /\ \A x \in 0..(i - 1) : less[x] = cut[x]
    OBVIOUS
  <2>3. i \in 1..i /\ i - 1 \in 0..(i - 1) /\ 0 \in 0..(i - 1)
    OBVIOUS
  <2> HIDE DEF less
  <2>4. Cut(p, t, i - 1, cut[i - 1])
    <3>1. less[0] = 0 /\ less[i - 1] = cut[i - 1]
      BY <2>1, <2>2, <2>3
    <3>2. ASSUME NEW k \in 1..(i - 1)
          PROVE  /\ less[k - 1] <= less[k]
                 /\ p[k] # Hash =>
                       /\ less[k] = less[k - 1] + 1
                       /\ p[k] \in {Star, t[less[k]]}
      <4>1. k \in 1..i /\ less[k - 1] = cut[k - 1] /\ less[k] = cut[k]
        BY <2>2
      <4> QED
        BY <2>1, <4>1
    <3> QED
      BY <2>2, <3>1, <3>2 DEF Cut
  <2>5. cut[i - 1] \in 0..j
    BY <2>1, <2>3
  <2> QED
    BY <2>1, <2>3, <2>4, <2>5
<1>2. ASSUME NEW k \in 0..j, Cut(p, t, i - 1, k),
             p[i] # Hash => j = k + 1 /\ p[i] \in {Star, t[j]}
      PROVE  Cut(p, t, i, j)
  <2>1. PICK cut \in [0..(i - 1) -> 0..Len(t)] :
             /\ cut[0] = 0
             /\ cut[i - 1] = k
             /\ \A x \in 1..(i - 1) :
                   /\ cut[x - 1] <= cut[x]
                   /\ p[x] # Hash =>
                         /\ cut[x] = cut[x - 1] + 1
                         /\ p[x] \in {Star, t[cut[x]]}
    BY <1>2 DEF Cut
  <2> DEFINE more == [x \in 0..i |-> IF x = i THEN j ELSE cut[x]]
  <2>2. /\ more \in [0..i -> 0..Len(t)]
        /\ more[i] = j
        /\ \A x \in 0..(i - 1) : more[x] = cut[x]
    OBVIOUS
  <2> HIDE DEF more
  <2>3. more[0] = 0 /\ more[i - 1] = k
    BY <2>1, <2>2
  <2>4. ASSUME NEW x \in 1..i
        PROVE  /\ more[x - 1] <= more[x]
               /\ p[x] # Hash =>
                     /\ more[x] = more[x - 1] + 1
                     /\ p[x] \in {Star, t[more[x]]}
    <3>1. CASE x = i
      BY <1>2, <2>2, <2>3, <3>1
    <3>2. CASE x # i
      <4>1. x \in 1..(i - 1) /\ more[x - 1] = cut[x - 1] /\ more[x] = cut[x]
        BY <2>2, <3>2
      <4> QED
        BY <2>1, <4>1
    <3> QED
      BY <3>1, <3>2
  <2> QED
    BY <2>2, <2>3, <2>4 DEF Cut
<1> QED
  BY <1>1, <1>2

\* Both are truth values, so it is enough that they are equivalent.
LEMMA Booleans ==
    ASSUME NEW p, NEW t, NEW m, NEW i, NEW j
    PROVE  Cell(p, t, m, i, j) \in BOOLEAN /\ Cut(p, t, i, j) \in BOOLEAN
<1>1. Cut(p, t, i, j) \in BOOLEAN
  BY DEF Cut
<1>2. Cell(p, t, m, i, j) \in BOOLEAN
  BY DEF Cell
<1> QED
  BY <1>1, <1>2

\* Cut satisfies the equation the table is filled by.
LEMMA CutCell ==
    ASSUME NEW p, NEW t, Len(p) \in Nat, Len(t) \in Nat,
           NEW m, \A i \in 0..Len(p), j \in 0..Len(t) : m[<<i, j>>] = Cut(p, t, i, j),
           NEW i \in 0..Len(p), NEW j \in 0..Len(t)
    PROVE  Cell(p, t, m, i, j) = Cut(p, t, i, j)
<1>0. SUFFICES Cell(p, t, m, i, j) <=> Cut(p, t, i, j)
  BY Booleans
<1>1. CASE i = 0
  BY <1>1, CutNothing DEF Cell
<1>2. CASE i # 0
  <2>1. /\ i \in Nat \ {0} /\ i - 1 \in 0..Len(p)
        /\ \A k \in 0..j : k \in 0..Len(t)
    BY <1>2
  <2>2. \A y \in 0..Len(t) : Cut(p, t, i, y) <=>
              \E k \in 0..y :
                 /\ Cut(p, t, i - 1, k)
                 /\ p[i] # Hash => y = k + 1 /\ p[i] \in {Star, t[y]}
    BY <2>1, CutLast
  <2>3. CASE p[i] = Hash
    <3>1. \A y \in 0..Len(t) : Cut(p, t, i, y) <=> \E k \in 0..y : Cut(p, t, i - 1, k)
      BY <2>2, <2>3
    <3>2. CASE j = 0
      <4>1. Cut(p, t, i, 0) <=> Cut(p, t, i - 1, 0)
        BY <3>1, <3>2
      <4>2. Cell(p, t, m, i, j) <=> m[<<i - 1, 0>>]
        BY <1>2, <2>3, <3>2 DEF Cell
      <4> QED
        BY <2>1, <3>2, <4>1, <4>2
    <3>3. CASE j # 0
      <4>1. j - 1 \in 0..Len(t) /\ 0..j = (0..(j - 1)) \union {j}
        BY <3>3
      <4>2. Cut(p, t, i, j) <=> Cut(p, t, i - 1, j) \/ Cut(p, t, i, j - 1)
        BY <3>1, <4>1
      <4>3. Cell(p, t, m, i, j) <=> (m[<<i - 1, j>>] \/ m[<<i, j - 1>>])
        BY <1>2, <2>3, <3>3 DEF Cell
      <4> QED
        BY <2>1, <4>1, <4>2, <4>3
    <3> QED
      BY <3>2, <3>3
  <2>4. CASE p[i] # Hash
    <3>1. CASE j = 0
      <4>1. ~Cell(p, t, m, i, j)
        BY <1>2, <2>4, <3>1 DEF Cell
      <4>2. ~Cut(p, t, i, j)
        BY <2>2, <2>4, <3>1
      <4> QED
        BY <4>1, <4>2
    <3>2. CASE j # 0
      <4>1. j - 1 \in 0..Len(t) /\ j - 1 \in 0..j
        BY <3>2
      <4>2. Cut(p, t, i, j) <=> p[i] \in {Star, t[j]} /\ Cut(p, t, i - 1, j - 1)
        <5>1. \A k \in 0..j : j = k + 1 <=> k = j - 1
          OBVIOUS
        <5>2. Cut(p, t, i, j) <=> \E k \in 0..j : /\ Cut(p, t, i - 1, k)
                                                  /\ k = j - 1 /\ p[i] \in {Star, t[j]}
          BY <2>2, <2>4, <5>1
        <5> QED
          BY <4>1, <5>2, Zenon
      <4>3. Cell(p, t, m, i, j) <=> (p[i] \in {Star, t[j]} /\ m[<<i - 1, j - 1>>])
        BY <1>2, <2>4, <3>2 DEF Cell
      <4> QED
        BY <2>1, <4>1, <4>2, <4>3
    <3> QED
      BY <3>1, <3>2
  <2> QED
    BY <2>3, <2>4
<1> QED
  BY <1>1, <1>2

\* There is a table that the code may fill, and it is the only one.
LEMMA TableIsCut ==
    ASSUME NEW p, NEW t, Len(p) \in Nat, Len(t) \in Nat
    PROVE  \A i \in 0..Len(p), j \in 0..Len(t) : Table(p, t)[<<i, j>>] = Cut(p, t, i, j)
<1> DEFINE g == [c \in Cells(p, t) |-> Cut(p, t, c[1], c[2])]
           h == Table(p, t)
<1>1. \A i \in 0..Len(p), j \in 0..Len(t) : <<i, j>> \in Cells(p, t)
  BY DEF Cells
<1>2. \A c \in Cells(p, t) : c[1] \in 0..Len(p) /\ c[2] \in 0..Len(t)
  BY DEF Cells
<1>3. \A i \in 0..Len(p), j \in 0..Len(t) : g[<<i, j>>] = Cut(p, t, i, j)
  BY <1>1
<1>4. \A c \in Cells(p, t) : Cell(p, t, g, c[1], c[2]) = Cut(p, t, c[1], c[2])
  <2> HIDE DEF g
  <2> QED
    BY <1>2, <1>3, CutCell
<1>5. g = [c \in Cells(p, t) |-> Cell(p, t, g, c[1], c[2])]
  BY <1>4
<1>6. h = [c \in Cells(p, t) |-> Cell(p, t, h, c[1], c[2])]
  <2> HIDE DEF g
  <2> QED
    BY <1>5 DEF Table
<1>7. \A i \in 0..Len(p), j \in 0..Len(t) : h[<<i, j>>] = Cell(p, t, h, i, j)
  <2> HIDE DEF h
  <2> QED
    BY <1>1, <1>6
<1> DEFINE T == {n \in Nat : \E i \in 0..Len(p), j \in 0..Len(t) :
                                n = i + j /\ h[<<i, j>>] # Cut(p, t, i, j)}
<1>8. T = {}
  <2> HIDE DEF h, g
  <2> SUFFICES ASSUME T # {} PROVE FALSE
    OBVIOUS
  <2>1. PICK n \in T : \A m \in T : n <= m
    <3>1. T \subseteq Nat
      OBVIOUS
    <3> HIDE DEF T
    <3> QED
      BY <3>1, LeastNatural
  <2>2. PICK i \in 0..Len(p), j \in 0..Len(t) : n = i + j /\ h[<<i, j>>] # Cut(p, t, i, j)
    OBVIOUS
  <2>3. ASSUME NEW k \in 0..Len(p), NEW l \in 0..Len(t), k + l < i + j
        PROVE  h[<<k, l>>] = Cut(p, t, k, l)
    <3>1. k + l \in Nat /\ ~(n <= k + l)
      BY <2>2, <2>3
    <3>2. k + l \notin T
      <4> HIDE DEF T
      <4> QED
        BY <2>1, <3>1
    <3> QED
      BY <3>1, <3>2
  <2>4. ASSUME NEW k \in 0..Len(p), NEW l \in 0..Len(t), k + l < i + j
        PROVE  h[<<k, l>>] = g[<<k, l>>]
    BY <1>3, <2>3, <2>4
  <2> HIDE DEF T
  <2>5. Cell(p, t, h, i, j) = Cell(p, t, g, i, j)
    <3> SUFFICES Cell(p, t, h, i, j) <=> Cell(p, t, g, i, j)
      BY Booleans
    <3>1. CASE i = 0
      BY <3>1 DEF Cell
    <3>2. CASE i # 0 /\ j = 0
      <4>1. h[<<i - 1, 0>>] = g[<<i - 1, 0>>]
        BY <2>4, <3>2
      <4> QED
        BY <3>2, <4>1 DEF Cell
    <3>3. CASE i # 0 /\ j # 0
      <4>1. /\ h[<<i - 1, j>>] = g[<<i - 1, j>>]
            /\ h[<<i, j - 1>>] = g[<<i, j - 1>>]
            /\ h[<<i - 1, j - 1>>] = g[<<i - 1, j - 1>>]
        BY <2>4, <3>3
      <4> QED
        BY <3>3, <4>1 DEF Cell
    <3> QED
      BY <3>1, <3>2, <3>3
  <2>6. Cell(p, t, g, i, j) = Cut(p, t, i, j)
    BY <1>3, CutCell
  <2> QED
    BY <1>7, <2>2, <2>5, <2>6
<1>9. ASSUME NEW i \in 0..Len(p), NEW j \in 0..Len(t) PROVE h[<<i, j>>] = Cut(p, t, i, j)
  <2>1. i + j \in Nat
    OBVIOUS
  <2> HIDE DEF h
  <2> QED
    BY <1>8, <2>1
<1> QED
  BY <1>9

(***************************************************************************)
(* Routing is right for every pattern and every topic of any words: the    *)
(* table accepts exactly the topics that can be cut into one piece for     *)
(* each word of the pattern (topic_matches).                               *)
(***************************************************************************)
THEOREM TopicsMatch ==
    ASSUME NEW S, NEW p \in Seq(S), NEW t \in Seq(S)
    PROVE  topic_matches(p, t) = CanBeCut(p, t)
<1>1. Len(p) \in Nat /\ Len(t) \in Nat
  OBVIOUS
<1>2. topic_matches(p, t) = Cut(p, t, Len(p), Len(t))
  BY <1>1, TableIsCut DEF topic_matches
<1> QED
  BY <1>2 DEF Cut, CanBeCut

\* What TLC compares is an instance of it.
LEMMA KeysAreSequences == ASSUME NEW W PROVE Keys(W) \subseteq Seq(W)
BY TopicMatchAssumption DEF Keys, TopicMatchAssumption

LEMMA Agreement == AgreesWithDefinition
<1> DEFINE W == Word \union {Star, Hash}
<1>1. Keys(W) \subseteq Seq(W) /\ Keys(Word) \subseteq Seq(Word) /\ Seq(Word) \subseteq Seq(W)
  BY KeysAreSequences
<1> HIDE DEF W
<1>2. \A p \in Keys(W), t \in Keys(Word) : topic_matches(p, t) = CanBeCut(p, t)
  BY <1>1, TopicsMatch
<1> QED
  BY <1>2 DEF AgreesWithDefinition, W

\* The table agrees with AMQP's definition of its wildcards at every number of
\* words that is compared (topic_matches).
THEOREM RoutesAsDefined == BusSpec => []MatchesAsDefined
<1>1. MatchesAsDefined
  BY Agreement DEF MatchesAsDefined
<1> QED
  BY <1>1, PTL

-----------------------------------------------------------------------------
(* EventBus. *)

\* A closed bus has no publisher left; STOP is the end of its mailbox, and of
\* its worker.
StopInv ==
    /\ closed \/ mpc \in {"close", "drain", "done"} => dpc = "over"
    /\ \A s \in Sub : wpc[s] = "end" => closed /\ mailbox[s] = <<>>
    /\ \A s \in Sub : \A i \in 1..Len(mailbox[s]) :
          mailbox[s][i] = STOP => closed /\ i = Len(mailbox[s])

BusInv == BusTypeOK /\ LockExcludes /\ StopInv

-----------------------------------------------------------------------------
\* The invariant holds at the start.
LEMMA BusInitInv == BusInit => BusInv
  <1> SUFFICES ASSUME BusInit PROVE BusInv
    OBVIOUS
  <1> USE EventBusAssumption DEF EventBusAssumption
  <1>1. \A s \in Sub : mailbox[s] = <<>> /\ wpc[s] = "new"
    BY DEF BusInit
  <1>2. mailbox \in [Sub -> Seq(Topic \union {STOP})]
    <2>1. <<>> \in Seq(Topic \union {STOP})
      OBVIOUS
    <2> QED
      BY <2>1 DEF BusInit
  <1>3. queue \in Seq(Topic)
    BY DEF BusInit
  <1>4. BusTypeOK
    <2>1. made \in 0..MaxEvents /\ event = Nobody /\ dpc = "get" /\ todo = {}
      BY DEF BusInit
    <2>2. wpc \in [Sub -> {"new", "get", "handle", "lock", "reconcile", "end", "dead"}]
      BY DEF BusInit
    <2>3. stopped \in BOOLEAN /\ unwatched \in BOOLEAN /\ closed \in BOOLEAN /\ again \in BOOLEAN
      BY DEF BusInit
    <2>4. lock = Nobody /\ mpc = "run"
      BY DEF BusInit
    <2> QED
      BY <1>2, <1>3, <2>1, <2>2, <2>3, <2>4 DEF BusTypeOK
  <1>5. LockExcludes
    BY <1>1 DEF BusInit, LockExcludes
  <1>6. \A s \in Sub : Len(mailbox[s]) = 0
    BY <1>1, EmptySeq
  <1>7. StopInv
    BY <1>1, <1>6 DEF BusInit, StopInv
  <1> QED
    BY <1>4, <1>5, <1>7 DEF BusInv

\* Every step keeps the values of the variables in their sets.
LEMMA BusTypeStep == BusTypeOK /\ [BusNext]_busVars => BusTypeOK'
  <1> SUFFICES ASSUME BusTypeOK, [BusNext]_busVars PROVE BusTypeOK'
    OBVIOUS
  <1> USE EventBusAssumption DEF EventBusAssumption
  <1>1. CASE Emit
    BY <1>1 DEF Emit, BusTypeOK, main
  <1>2. CASE Get
    <2>1. Head(queue) \in Topic /\ Tail(queue) \in Seq(Topic)
      BY <1>2 DEF Get, BusTypeOK
    <2> QED
      BY <1>2, <2>1 DEF Get, BusTypeOK, main
  <1>3. CASE Lock
    BY <1>3 DEF Lock, BusTypeOK, main
  <1>4. ASSUME NEW s \in Sub, Offer(s) PROVE BusTypeOK'
    <2>1. mailbox' \in [Sub -> Seq(Topic \union {STOP})]
      <3>1. CASE mailbox' = [mailbox EXCEPT ![s] = Append(@, event)]
        <4>1. Append(mailbox[s], event) \in Seq(Topic \union {STOP})
          BY <1>4 DEF Offer, BusTypeOK
        <4> QED
          BY <3>1, <4>1 DEF BusTypeOK
      <3> QED
        BY <1>4, <3>1 DEF Offer, BusTypeOK
    <2>2. dpc = "fanout" /\ dpc' = dpc /\ event' = event
      BY <1>4 DEF Offer, BusTypeOK
    <2> QED
      BY <1>4, <2>1, <2>2 DEF Offer, BusTypeOK, main
  <1>5. CASE Unlock
    BY <1>5 DEF Unlock, BusTypeOK, main
  <1>6. CASE Leave
    BY <1>6 DEF Leave, BusTypeOK, main
  <1>7. ASSUME NEW s \in Sub, StartWorker(s) PROVE BusTypeOK'
    BY <1>7 DEF StartWorker, BusTypeOK, main, dispatcher
  <1>8. ASSUME NEW s \in Sub, Consume(s) PROVE BusTypeOK'
    <2>1. Tail(mailbox[s]) \in Seq(Topic \union {STOP})
      BY <1>8 DEF Consume, BusTypeOK
    <2>2. mailbox' \in [Sub -> Seq(Topic \union {STOP})]
      BY <1>8, <2>1 DEF Consume, BusTypeOK
    <2> QED
      BY <1>8, <2>2 DEF Consume, BusTypeOK, main, dispatcher
  <1>9. ASSUME NEW s \in Sub, Handle(s) PROVE BusTypeOK'
    BY <1>9 DEF Handle, BusTypeOK, main, dispatcher
  <1>10. ASSUME NEW s \in Sub, Reconcile(s) PROVE BusTypeOK'
    BY <1>10 DEF Reconcile, BusTypeOK, main, dispatcher
  <1>11. ASSUME NEW s \in Sub, Reconciled(s) PROVE BusTypeOK'
    BY <1>11 DEF Reconciled, BusTypeOK, main, dispatcher
  <1>12. CASE StopEvent
    BY <1>12 DEF StopEvent, BusTypeOK, dispatcher
  <1>13. CASE StopObserver
    BY <1>13 DEF StopObserver, BusTypeOK, dispatcher
  <1>14. CASE Unschedule
    BY <1>14 DEF Unschedule, BusTypeOK, dispatcher
  <1>15. CASE JoinObserver
    BY <1>15 DEF JoinObserver, BusTypeOK, dispatcher
  <1>16. CASE Close
    <2>1. \A s \in Sub : Append(mailbox[s], STOP) \in Seq(Topic \union {STOP})
      BY DEF BusTypeOK
    <2>2. mailbox' \in [Sub -> Seq(Topic \union {STOP})]
      BY <1>16, <2>1 DEF Close, BusTypeOK
    <2> QED
      BY <1>16, <2>2 DEF Close, BusTypeOK, dispatcher
  <1>17. CASE JoinWorkers
    BY <1>17 DEF JoinWorkers, BusTypeOK, dispatcher
  <1>18. CASE UNCHANGED busVars
    BY <1>18 DEF busVars, dispatcher, main, BusTypeOK
  <1> QED
    BY <1>1, <1>2, <1>3, <1>4, <1>5, <1>6, <1>7, <1>8, <1>9, <1>10, <1>11, <1>12,
       <1>13, <1>14, <1>15, <1>16, <1>17, <1>18
       DEF BusNext, Dispatching, Working, Stopping

\* Taking the lock needs it free, so whoever is inside is alone.
LEMMA LockStep == BusTypeOK /\ LockExcludes /\ [BusNext]_busVars => LockExcludes'
  <1> SUFFICES ASSUME BusTypeOK, LockExcludes, [BusNext]_busVars PROVE LockExcludes'
    OBVIOUS
  <1> USE EventBusAssumption DEF EventBusAssumption, LockExcludes
  <1>1. CASE lock' = lock /\ dpc' = dpc /\ wpc' = wpc
    BY <1>1
  <1>2. CASE Get
    BY <1>2 DEF Get
  <1>3. CASE Lock
    BY <1>3 DEF Lock
  <1>4. CASE Unlock
    BY <1>4 DEF Unlock
  <1>5. CASE Leave
    BY <1>5 DEF Leave
  <1>6. ASSUME NEW s \in Sub, StartWorker(s) \/ Consume(s) \/ Handle(s) PROVE LockExcludes'
    <2>1. dpc' = dpc /\ lock' = lock
      BY <1>6 DEF StartWorker, Consume, Handle, dispatcher
    <2>2. \A t \in Sub : wpc'[t] = "reconcile" => wpc[t] = "reconcile"
      BY <1>6 DEF StartWorker, Consume, Handle, BusTypeOK
    <2> QED
      BY <2>1, <2>2
  <1>7. ASSUME NEW s \in Sub, Reconcile(s) PROVE LockExcludes'
    <2>1. \A t \in Sub : wpc'[t] = "reconcile" => t = s \/ wpc[t] = "reconcile"
      BY <1>7 DEF Reconcile, BusTypeOK
    <2> QED
      BY <1>7, <2>1 DEF Reconcile, dispatcher
  <1>8. ASSUME NEW s \in Sub, Reconciled(s) PROVE LockExcludes'
    <2>1. lock = s /\ dpc # "fanout"
      BY <1>8 DEF Reconciled
    <2>2. \A t \in Sub : wpc'[t] = "reconcile" => t # s /\ wpc[t] = "reconcile"
      BY <1>8 DEF Reconciled, BusTypeOK
    <2> QED
      BY <1>8, <2>1, <2>2 DEF Reconciled, dispatcher
  <1>9. Emit \/ (\E s \in Sub : Offer(s)) \/ StopEvent \/ Stopping \/ UNCHANGED busVars
        => lock' = lock /\ dpc' = dpc /\ wpc' = wpc
    BY DEF Emit, Offer, StopEvent, Stopping, StopObserver, Unschedule, JoinObserver,
           Close, JoinWorkers, busVars, dispatcher, main
  <1> QED
    BY <1>1, <1>2, <1>3, <1>4, <1>5, <1>6, <1>7, <1>8, <1>9
       DEF BusNext, Dispatching, Working

\* Putting one more value at the end of a mailbox without STOP keeps STOP last.
LEMMA AppendKeepsLast ==
    ASSUME NEW S, NEW q \in Seq(S), NEW e \in S,
           \A i \in 1..Len(q) : q[i] # STOP
    PROVE  \A i \in 1..Len(Append(q, e)) :
              Append(q, e)[i] = STOP => e = STOP /\ i = Len(Append(q, e))
  OBVIOUS

\* A sequence without its first value: STOP stays last, and was alone if first.
LEMMA ShiftKeepsLast ==
    ASSUME NEW q, NEW t, NEW m \in Nat \ {0}, NEW n \in Nat, n = m - 1,
           \A i \in 1..n : t[i] = q[i + 1],
           \A i \in 1..m : q[i] = STOP => i = m
    PROVE  /\ \A i \in 1..n : t[i] = STOP => i = n
           /\ q[1] = STOP => n = 0
  <1>1. ASSUME NEW i \in 1..n, t[i] = STOP PROVE i = n
    <2>1. i + 1 \in 1..m /\ q[i + 1] = STOP
      BY <1>1
    <2> QED
      BY <2>1
  <1>2. q[1] = STOP => n = 0
    OBVIOUS
  <1> QED
    BY <1>1, <1>2

\* Taking the first value keeps STOP last, and leaves nothing after it.
LEMMA TailKeepsLast ==
    ASSUME NEW S, NEW q \in Seq(S), q # <<>>,
           \A i \in 1..Len(q) : q[i] = STOP => i = Len(q)
    PROVE  /\ \A i \in 1..Len(Tail(q)) : Tail(q)[i] = STOP => i = Len(Tail(q))
           /\ Head(q) = STOP => Tail(q) = <<>>
  <1>1. /\ Len(q) \in Nat \ {0}
        /\ Head(q) = q[1]
    BY EmptySeq
  <1>2. /\ Tail(q) \in Seq(S)
        /\ Len(Tail(q)) = Len(q) - 1
        /\ \A i \in 1..Len(Tail(q)) : Tail(q)[i] = q[i + 1]
    BY HeadTailProperties
  <1>3. Len(Tail(q)) \in Nat
    BY <1>2, LenProperties
  <1>4. /\ \A i \in 1..Len(Tail(q)) : Tail(q)[i] = STOP => i = Len(Tail(q))
        /\ q[1] = STOP => Len(Tail(q)) = 0
    <2>1. PICK t, m, n : t = Tail(q) /\ m = Len(q) /\ n = Len(Tail(q))
      BY Zenon
    <2>2. m \in Nat \ {0} /\ n \in Nat
      BY <1>1, <1>3, <2>1, Zenon
    <2>3. n = m - 1
      BY <1>2, <2>1, Zenon
    <2>4. \A i \in 1..n : t[i] = q[i + 1]
      BY <1>2, <2>1, Zenon
    <2>5. \A i \in 1..m : q[i] = STOP => i = m
      BY <2>1, Zenon
    <2>6. /\ \A i \in 1..n : t[i] = STOP => i = n
          /\ q[1] = STOP => n = 0
      BY <2>2, <2>3, <2>4, <2>5, ShiftKeepsLast
    <2> QED
      BY <2>1, <2>6, Zenon
  <1>5. \A t \in Seq(S) : Len(t) = 0 => t = <<>>
    BY EmptySeq
  <1> QED
    BY <1>1, <1>2, <1>4, <1>5, Zenon

\* What is taken out of, or put into, a mailbox keeps STOP last in it.
LEMMA StopStep == BusInv /\ [BusNext]_busVars => StopInv'
  <1> SUFFICES ASSUME BusTypeOK, StopInv, [BusNext]_busVars PROVE StopInv'
    BY DEF BusInv
  <1> USE EventBusAssumption DEF EventBusAssumption
  <1>1. ASSUME UNCHANGED <<mailbox, closed>>,
               \A s \in Sub : wpc'[s] = "end" => wpc[s] = "end",
               closed \/ mpc' \in {"close", "drain", "done"} => dpc' = "over"
        PROVE  StopInv'
    BY <1>1 DEF StopInv
  <1>2. CASE Emit
    BY <1>1, <1>2 DEF Emit, StopInv, main
  <1>3. CASE Get \/ Lock \/ Unlock \/ Leave
    BY <1>1, <1>3 DEF Get, Lock, Unlock, Leave, StopInv, main
  <1>4. ASSUME NEW s \in Sub, Offer(s) PROVE StopInv'
    <2>1. dpc = "fanout" /\ event \in Topic
      BY <1>4 DEF Offer, BusTypeOK
    <2>2. ~closed /\ mpc \notin {"close", "drain", "done"}
      BY <2>1 DEF StopInv
    <2>3. /\ dpc' = dpc /\ wpc' = wpc /\ mpc' = mpc /\ closed' = closed
          /\ \A t \in Sub : wpc[t] # "end"
      BY <1>4, <2>2 DEF Offer, main, StopInv
    <2>4. CASE mailbox' = mailbox
      BY <2>2, <2>3, <2>4 DEF StopInv
    <2>5. CASE mailbox' = [mailbox EXCEPT ![s] = Append(@, event)]
      <3>1. ASSUME NEW t \in Sub PROVE \A i \in 1..Len(mailbox'[t]) : mailbox'[t][i] # STOP
        <4>1. /\ mailbox[t] \in Seq(Topic \union {STOP})
              /\ \A i \in 1..Len(mailbox[t]) : mailbox[t][i] # STOP
          BY <2>2 DEF BusTypeOK, StopInv
        <4>2. CASE t = s
          <5>1. mailbox'[t] = Append(mailbox[t], event)
            BY <2>5, <4>2 DEF BusTypeOK
          <5> QED
            BY <2>1, <4>1, <5>1, AppendKeepsLast
        <4>3. CASE t # s
          BY <2>5, <4>1, <4>3 DEF BusTypeOK
        <4> QED
          BY <4>2, <4>3
      <3> QED
        BY <2>2, <2>3, <3>1 DEF StopInv
    <2> QED
      BY <1>4, <2>4, <2>5 DEF Offer
  <1>5. ASSUME NEW s \in Sub, StartWorker(s) \/ Handle(s) \/ Reconcile(s) \/ Reconciled(s)
        PROVE  StopInv'
    <2>1. \A t \in Sub : wpc'[t] = "end" => wpc[t] = "end"
      BY <1>5 DEF StartWorker, Handle, Reconcile, Reconciled, BusTypeOK
    <2> QED
      BY <1>1, <1>5, <2>1
         DEF StartWorker, Handle, Reconcile, Reconciled, StopInv, main, dispatcher
  <1>6. ASSUME NEW s \in Sub, Consume(s) PROVE StopInv'
    <2>1. UNCHANGED <<closed, mpc, dpc>>
      BY <1>6 DEF Consume, main, dispatcher
    <2>2. mailbox[s] \in Seq(Topic \union {STOP}) /\ mailbox[s] # <<>>
      BY <1>6 DEF Consume, BusTypeOK
    <2>3. \A i \in 1..Len(mailbox[s]) : mailbox[s][i] = STOP => closed /\ i = Len(mailbox[s])
      BY DEF StopInv
    <2>4. /\ \A i \in 1..Len(Tail(mailbox[s])) :
                Tail(mailbox[s])[i] = STOP => i = Len(Tail(mailbox[s]))
          /\ Head(mailbox[s]) = STOP => Tail(mailbox[s]) = <<>>
      BY <2>2, <2>3, TailKeepsLast
    <2>5. mailbox'[s] = Tail(mailbox[s])
      BY <1>6 DEF Consume, BusTypeOK
    <2>6. \A t \in Sub : t # s => mailbox'[t] = mailbox[t] /\ wpc'[t] = wpc[t]
      BY <1>6 DEF Consume, BusTypeOK
    <2>7. wpc'[s] = "end" => Head(mailbox[s]) = STOP
      BY <1>6 DEF Consume, BusTypeOK
    <2>8. Head(mailbox[s]) = STOP => closed
      BY <2>2, <2>3
    <2>9. \A i \in 1..Len(Tail(mailbox[s])) : Tail(mailbox[s])[i] = STOP => closed
      BY <2>2, <2>3
    <2>10. \A t \in Sub : wpc'[t] = "end" => closed' /\ mailbox'[t] = <<>>
      BY <2>1, <2>4, <2>5, <2>6, <2>7, <2>8 DEF StopInv
    <2>11. ASSUME NEW t \in Sub
           PROVE \A i \in 1..Len(mailbox'[t]) :
                   mailbox'[t][i] = STOP => closed' /\ i = Len(mailbox'[t])
      <3>1. CASE t = s
        BY <2>1, <2>4, <2>5, <2>9, <3>1
      <3>2. CASE t # s
        BY <2>1, <2>6, <3>2 DEF StopInv
      <3> QED
        BY <3>1, <3>2
    <2> QED
      BY <2>1, <2>10, <2>11 DEF StopInv
  <1>7. CASE StopEvent \/ StopObserver \/ Unschedule \/ JoinObserver
    BY <1>1, <1>7 DEF StopEvent, StopObserver, Unschedule, JoinObserver, StopInv,
                      dispatcher
  <1>8. CASE Close
    <2>1. dpc' = "over"
      BY <1>8 DEF Close, StopInv, dispatcher
    <2>2. wpc' = wpc /\ closed'
      BY <1>8 DEF Close
    <2>3. CASE closed
      BY <1>8, <2>1, <2>2, <2>3 DEF Close, StopInv
    <2>4. CASE ~closed
      <3>1. \A t \in Sub : wpc'[t] # "end"
        BY <2>2, <2>4 DEF StopInv
      <3>2. ASSUME NEW t \in Sub
            PROVE \A i \in 1..Len(mailbox'[t]) :
                    mailbox'[t][i] = STOP => i = Len(mailbox'[t])
        <4>1. /\ mailbox[t] \in Seq(Topic \union {STOP})
              /\ \A i \in 1..Len(mailbox[t]) : mailbox[t][i] # STOP
          BY <2>4 DEF BusTypeOK, StopInv
        <4>2. mailbox'[t] = Append(mailbox[t], STOP)
          BY <1>8, <2>4 DEF Close
        <4> QED
          BY <4>1, <4>2, AppendKeepsLast
      <3> QED
        BY <2>1, <2>2, <3>1, <3>2 DEF StopInv
    <2> QED
      BY <2>3, <2>4
  <1>9. CASE JoinWorkers
    BY <1>1, <1>9 DEF JoinWorkers, StopInv, dispatcher
  <1>10. CASE UNCHANGED busVars
    BY <1>1, <1>10 DEF busVars, main, dispatcher, StopInv
  <1> QED
    BY <1>2, <1>3, <1>4, <1>5, <1>6, <1>7, <1>8, <1>9, <1>10
       DEF BusNext, Dispatching, Working, Stopping

\* The invariant holds always.
THEOREM BusInvariance == BusSpec => []BusInv
  <1>1. BusInv /\ [BusNext]_busVars => BusInv'
    BY BusTypeStep, LockStep, StopStep DEF BusInv
  <1> QED
    BY BusInitInv, <1>1, PTL DEF BusSpec

-----------------------------------------------------------------------------
\* Every variable keeps its type and the dispatcher has an event only between
\* taking it and having offered it to every subscription.
THEOREM BusTyping == BusSpec => []BusTypeOK
  BY BusInvariance, PTL DEF BusInv

\* The watch set is never changed while the dispatcher walks its handlers, with
\* however many workers that reconcile it.
THEOREM MutualExclusion == BusSpec => []LockExcludes
  BY BusInvariance, PTL DEF BusInv

\* A worker that has read STOP has read everything: LocalRuntime.stop joins the
\* observer before it closes the bus, which closes once.
THEOREM Drained == BusSpec => []NothingLeftBehind
  <1>1. BusInv => NothingLeftBehind
    BY DEF BusInv, StopInv, NothingLeftBehind
  <1> QED
    BY BusInvariance, <1>1, PTL

-----------------------------------------------------------------------------
(* EventBus implements Mailbox. *)

\* A queue with one more value before the first.
LEMMA FirstOfMany ==
    ASSUME NEW S, NEW e \in S, NEW q \in Seq(S)
    PROVE  /\ <<e>> \o q \in Seq(S) /\ <<e>> \o q # <<>>
           /\ Head(<<e>> \o q) = e
           /\ Tail(<<e>> \o q) = q
           /\ \A t \in S : Append(<<e>> \o q, t) = <<e>> \o Append(q, t)
<1> DEFINE w == <<e>> \o q
<1>0. <<e>> \in Seq(S) /\ Len(<<e>>) = 1
  OBVIOUS
<1>1. /\ w \in Seq(S)
      /\ Len(w) = 1 + Len(q)
      /\ w[1] = e
      /\ \A i \in 1..Len(q) : w[i + 1] = q[i]
  BY <1>0
<1> HIDE DEF w
<1>2. w # <<>> /\ Head(w) = e
  BY <1>1
<1>3. Tail(w) = q
  <2>1. Tail(w) \in Seq(S) /\ Len(Tail(w)) = Len(q) /\ \A i \in 1..Len(q) : Tail(w)[i] = w[i + 1]
    BY <1>1, <1>2
  <2> QED
    BY <1>1, <2>1, SeqEqual
<1>4. ASSUME NEW t \in S PROVE Append(w, t) = <<e>> \o Append(q, t)
  BY <1>0 DEF w
<1> QED
  BY <1>1, <1>2, <1>3, <1>4 DEF w

\* And with none.
LEMMA NothingBefore == ASSUME NEW S, NEW q \in Seq(S) PROVE <<>> \o q = q
  OBVIOUS

\* A fanout goes on only while the observer has handlers, and it has none left
\* by the time stop joins it and closes the bus.
WatchInv ==
    /\ todo # {} => ~unwatched
    /\ closed \/ mpc \in {"join", "close", "drain", "done"} => unwatched

\* The observer loses its handlers with the lock free, so in no fanout.
LEMMA WatchStep == BusInv /\ WatchInv /\ [BusNext]_busVars => WatchInv'
<1> SUFFICES ASSUME BusTypeOK, LockExcludes, WatchInv, [BusNext]_busVars
             PROVE  WatchInv'
  BY DEF BusInv
<1> USE DEF WatchInv
<1>1. CASE Unschedule
  <2>1. dpc # "fanout"
    BY <1>1, EventBusAssumption DEF Unschedule, LockExcludes, EventBusAssumption
  <2>2. todo' = {}
    BY <1>1, <2>1 DEF Unschedule, BusTypeOK, dispatcher
  <2> QED
    BY <1>1, <2>2 DEF Unschedule
<1>2. CASE Get \/ Lock \/ Unlock \/ Leave
  BY <1>2 DEF Get, Lock, Unlock, Leave, main
<1>3. ASSUME NEW s \in Sub, Offer(s) PROVE WatchInv'
  BY <1>3 DEF Offer, main
<1>4. ASSUME NEW s \in Sub, Working(s) PROVE WatchInv'
  BY <1>4 DEF Working, StartWorker, Consume, Handle, Reconcile, Reconciled, main, dispatcher
<1>5. CASE StopEvent \/ StopObserver \/ JoinObserver \/ Close \/ JoinWorkers
  BY <1>5 DEF StopEvent, StopObserver, JoinObserver, Close, JoinWorkers, dispatcher
<1>6. CASE Emit \/ UNCHANGED busVars
  BY <1>6 DEF Emit, busVars, main, dispatcher
<1> QED
  BY <1>1, <1>2, <1>3, <1>4, <1>5, <1>6 DEF BusNext, Dispatching, Stopping

\* What a step that leaves s alone leaves alone.
LEMMA SettledStays ==
    ASSUME NEW s \in Sub, BusTypeOK, UNCHANGED <<unwatched, closed>>,
           Coming(s)' = Coming(s), mailbox'[s] = mailbox[s],
           wpc'[s] = "end" <=> wpc[s] = "end"
    PROVE  UNCHANGED Channel(s)!vars
BY DEF Channel!vars

\* Each step of any thread is one step of the channel of s, or none.
LEMMA ChannelStep ==
    ASSUME BusInv, WatchInv, [BusNext]_busVars, NEW s \in Sub
    PROVE  [Channel(s)!Next]_(Channel(s)!vars)
<1> USE EventBusAssumption DEF EventBusAssumption, BusInv
<1> DEFINE Step == [Channel(s)!Next]_(Channel(s)!vars)
<1>0. SUFFICES Step
  OBVIOUS
<1>1. CASE Emit
  <2>1. PICK t \in Topic : queue' = Append(queue, t)
    BY <1>1 DEF Emit
  <2>2. Coming(s)' = Append(Coming(s), t)
    <3>1. CASE dpc = "lock" \/ s \in todo
      <4>1. event \in Topic
        BY <3>1 DEF BusTypeOK
      <4> QED
        BY <1>1, <2>1, <3>1, <4>1, FirstOfMany DEF Emit, Coming, dispatcher, BusTypeOK
    <3>2. CASE ~(dpc = "lock" \/ s \in todo)
      BY <1>1, <2>1, <3>2, NothingBefore DEF Emit, Coming, dispatcher, BusTypeOK
    <3> QED
      BY <3>1, <3>2
  <2>3. Channel(s)!Report
    BY <1>1, <2>1, <2>2 DEF Emit, main, Channel!Report
  <2> QED
    BY <2>3 DEF Channel!Next
<1>2. CASE Get
  <2>1. queue = <<Head(queue)>> \o Tail(queue)
    BY <1>2 DEF Get, BusTypeOK
  <2>2. Coming(s) = queue /\ Coming(s)' = <<Head(queue)>> \o Tail(queue)
    BY <1>2, NothingBefore DEF Get, Coming, BusTypeOK
  <2> QED
    BY <1>2, <2>1, <2>2, SettledStays DEF Get, main
<1>3. CASE Lock /\ ~unwatched
  <2>1. Coming(s)' = Coming(s)
    BY <1>3 DEF Lock, Coming
  <2> QED
    BY <1>3, <2>1, SettledStays DEF Lock, main
<1>4. CASE Lock /\ unwatched
  <2>1. event \in Topic /\ queue \in Seq(Topic)
    BY <1>4 DEF Lock, BusTypeOK
  <2>2. Coming(s) = <<event>> \o queue /\ Coming(s)' = queue
    BY <1>4, <2>1, NothingBefore DEF Lock, Coming
  <2>3. Channel(s)!PassOver
    BY <1>4, <2>1, <2>2, FirstOfMany DEF Lock, main, Channel!PassOver, Channel!Settle
  <2> QED
    BY <2>3 DEF Channel!Next
<1>5. ASSUME Offer(s) PROVE Step
  <2>1. /\ event \in Topic /\ queue \in Seq(Topic)
        /\ dpc = "fanout" /\ ~unwatched
    BY <1>5 DEF Offer, BusTypeOK, WatchInv
  <2>2. Coming(s) = <<event>> \o queue /\ Coming(s)' = queue
    BY <1>5, <2>1, NothingBefore DEF Offer, Coming
  <2>3. Channel(s)!Settle /\ Head(Coming(s)) = event
    BY <1>5, <2>1, <2>2, FirstOfMany DEF Offer, main, Channel!Settle
  <2>4. CASE Accepts(s, event) /\ mailbox' = [mailbox EXCEPT ![s] = Append(@, event)]
    <3>1. mailbox'[s] = Append(mailbox[s], event)
      BY <2>4 DEF BusTypeOK
    <3>2. Channel(s)!Deliver
      BY <2>1, <2>3, <2>4, <3>1 DEF Channel!Deliver
    <3> QED
      BY <3>2 DEF Channel!Next
  <2>5. CASE (Accepts(s, event) => s \in Filtered) /\ UNCHANGED mailbox
    <3>1. Channel(s)!PassOver
      BY <2>1, <2>3, <2>5 DEF Channel!PassOver
    <3> QED
      BY <3>1 DEF Channel!Next
  <2> QED
    BY <1>5, <2>4, <2>5 DEF Offer
<1>6. ASSUME NEW r \in Sub, r # s, Offer(r) PROVE Step
  <2>1. Coming(s)' = Coming(s) /\ mailbox'[s] = mailbox[s]
    BY <1>6 DEF Offer, Coming, BusTypeOK
  <2> QED
    BY <1>6, <2>1, SettledStays DEF Offer, main
<1>7. CASE Unlock \/ Leave
  <2>1. Coming(s)' = Coming(s)
    BY <1>7 DEF Unlock, Leave, Coming, BusTypeOK
  <2> QED
    BY <1>7, <2>1, SettledStays DEF Unlock, Leave, main
<1>8. ASSUME Consume(s) PROVE Step
  <2>1. /\ mailbox'[s] = Tail(mailbox[s])
        /\ wpc'[s] = "end" <=> Head(mailbox[s]) = STOP
        /\ wpc[s] # "end"
    BY <1>8 DEF Consume, BusTypeOK
  <2>2. Coming(s)' = Coming(s)
    BY <1>8 DEF Consume, Coming, dispatcher
  <2>3. Channel(s)!Take
    BY <1>8, <2>1, <2>2 DEF Consume, main, Channel!Take
  <2> QED
    BY <2>3 DEF Channel!Next
<1>9. ASSUME NEW r \in Sub, Working(r), ~Consume(s) PROVE Step
  <2>1. /\ mailbox'[s] = mailbox[s] /\ (wpc'[s] = "end" <=> wpc[s] = "end")
    BY <1>9 DEF Working, StartWorker, Consume, Handle, Reconcile, Reconciled, BusTypeOK
  <2>2. Coming(s)' = Coming(s) /\ UNCHANGED <<unwatched, closed>>
    BY <1>9 DEF Working, StartWorker, Consume, Handle, Reconcile, Reconciled, Coming,
                dispatcher, main
  <2> QED
    BY <2>1, <2>2, SettledStays
<1>10. CASE StopEvent \/ StopObserver \/ JoinObserver \/ JoinWorkers \/ UNCHANGED busVars
  <2>1. /\ Coming(s)' = Coming(s)
        /\ UNCHANGED <<unwatched, closed, mailbox, wpc>>
    BY <1>10 DEF StopEvent, StopObserver, JoinObserver, JoinWorkers, busVars, Coming,
                 dispatcher, main
  <2> QED
    BY <2>1, SettledStays
<1>11. CASE Unschedule
  <2>1. Coming(s)' = Coming(s) /\ UNCHANGED <<mailbox, wpc, closed>> /\ unwatched'
    BY <1>11 DEF Unschedule, Coming, dispatcher
  <2>2. CASE unwatched
    BY <2>1, <2>2, SettledStays DEF BusTypeOK
  <2>3. CASE ~unwatched
    BY <2>1, <2>3 DEF Channel!Unwatch, Channel!Next
  <2> QED
    BY <2>2, <2>3
<1>12. CASE Close
  <2>1. Coming(s)' = Coming(s) /\ UNCHANGED <<wpc, unwatched>> /\ closed' /\ unwatched
    BY <1>12 DEF Close, Coming, dispatcher, WatchInv
  <2>2. CASE closed
    BY <1>12, <2>1, <2>2, SettledStays DEF Close, BusTypeOK
  <2>3. CASE ~closed
    <3>1. mailbox'[s] = Append(mailbox[s], STOP)
      BY <1>12, <2>3 DEF Close
    <3> QED
      BY <2>1, <2>3, <3>1 DEF Channel!Close, Channel!Next
  <2> QED
    BY <2>2, <2>3
<1> QED
  BY <1>1, <1>2, <1>3, <1>4, <1>5, <1>6, <1>7, <1>8, <1>9, <1>10, <1>11, <1>12
     DEF BusNext, Dispatching, Stopping

\* Nothing is reported or put in at the start.
LEMMA ChannelStart == ASSUME BusInit, NEW s \in Sub PROVE Channel(s)!Init
BY DEF BusInit, Coming, Channel!Init

\* The invariant holds always.
LEMMA WatchInvariance == BusSpec => []WatchInv
<1>1. BusInit => WatchInv
  BY DEF BusInit, WatchInv
<1> QED
  BY <1>1, WatchStep, BusInvariance, PTL DEF BusSpec

(***************************************************************************)
(* For any subscriptions, bindings and predicates, any number of events    *)
(* and any interleaving of the threads, what the bus does for each of them *)
(* is what Mailbox promises: its events in order and once, STOP after the  *)
(* last (LocalEventBus.publish, close; LocalRuntime.stop).                 *)
(***************************************************************************)
THEOREM Delivery == BusSpec => ImplementsMailbox
<1>1. BusInit => \A s \in Sub : Channel(s)!Init
  BY ChannelStart
<1>2. BusInv /\ WatchInv /\ [BusNext]_busVars
         => [\A s \in Sub : [Channel(s)!Next]_(Channel(s)!vars)]_busVars
  BY ChannelStep
<1> QED
  BY <1>1, <1>2, BusInvariance, WatchInvariance, PTL DEF BusSpec, ImplementsMailbox

\* The same, as one specification implementing another.
THEOREM EachDelivery == ASSUME NEW s \in Sub PROVE BusSpec => Channel(s)!Spec
<1>1. BusInit => Channel(s)!Init
  BY ChannelStart
<1>2. BusInv /\ WatchInv /\ [BusNext]_busVars => [Channel(s)!Next]_(Channel(s)!vars)
  BY ChannelStep
<1> QED
  BY <1>1, <1>2, BusInvariance, WatchInvariance, PTL DEF BusSpec, Channel!Spec

-----------------------------------------------------------------------------
(* WatchTargets. *)

-----------------------------------------------------------------------------
\* The part of TargetsTypeOK the theorems rest on.
PathsOK == sources \subseteq Path /\ dirs \subseteq Seq(Name) /\ Root \in dirs

LEMMA PathsStay == TargetsSpec => []PathsOK
<1>1. TargetsInit => PathsOK
  <2>1. Root \in Seq(Name) /\ Path \subseteq Seq(Name)
    BY WatchTargetsAssumption DEF Root
  <2> QED
    BY <2>1 DEF TargetsInit, PathsOK
<1>2. PathsOK /\ [TargetsNext]_targetsVars => PathsOK'
  <2> SUFFICES ASSUME PathsOK, [TargetsNext]_targetsVars
               PROVE  PathsOK'
    OBVIOUS
  <2>1. ASSUME NEW p \in Path, AddSource(p) \/ RemoveSource(p)
        PROVE  PathsOK'
    BY <2>1 DEF AddSource, RemoveSource, PathsOK
  <2>2. ASSUME NEW d \in Path, MakeDir(d)
        PROVE  PathsOK'
    BY <2>2, WatchTargetsAssumption DEF MakeDir, PathsOK
  <2>3. ASSUME NEW d \in Path, DeleteDir(d)
        PROVE  PathsOK'
    <3>1. ~Under(Root, d)
      <4>1. d # Root /\ d \in Seq(Name)
        BY <2>3, WatchTargetsAssumption DEF DeleteDir
      <4>2. Len(d) # 0
        BY <4>1 DEF Root
      <4> QED
        BY <4>1, <4>2 DEF Under, Root
    <3> QED
      BY <2>3, <3>1 DEF DeleteDir, PathsOK
  <2>4. ASSUME NEW t \in dirs, InitRepo(t)
        PROVE  PathsOK'
    BY <2>4 DEF InitRepo, PathsOK
  <2>5. CASE ResetRepos
    BY <2>5 DEF ResetRepos, PathsOK
  <2>6. CASE UNCHANGED targetsVars
    BY <2>6 DEF targetsVars, PathsOK
  <2> QED
    BY <2>1, <2>2, <2>3, <2>4, <2>5, <2>6 DEF TargetsNext
<1> QED
  BY <1>1, <1>2, PTL DEF TargetsSpec

(***************************************************************************)
(* Every variable has the values the code can give it, and a boot resets   *)
(* only repositories that exist (existing_mirror_repos).                   *)
(***************************************************************************)
THEOREM TargetsTyping == TargetsSpec => []TargetsTypeOK
<1>1. TargetsInit => TargetsTypeOK
  <2>1. Root \in Seq(Name) /\ Path \subseteq Seq(Name)
    BY WatchTargetsAssumption DEF Root
  <2> QED
    BY <2>1 DEF TargetsInit, TargetsTypeOK
<1>2. PathsOK /\ PathsOK' /\ TargetsTypeOK /\ [TargetsNext]_targetsVars => TargetsTypeOK'
  <2> SUFFICES ASSUME PathsOK, PathsOK', TargetsTypeOK, [TargetsNext]_targetsVars
               PROVE  TargetsTypeOK'
    OBVIOUS
  <2>1. repos' \subseteq Seq(Name) /\ reset' \subseteq repos'
    <3>1. ASSUME NEW p \in Path, AddSource(p) \/ RemoveSource(p) \/ MakeDir(p) \/ DeleteDir(p)
          PROVE  UNCHANGED <<repos, reset>>
      BY <3>1 DEF AddSource, RemoveSource, MakeDir, DeleteDir
    <3>2. ASSUME NEW t \in dirs, InitRepo(t)
          PROVE  repos' \subseteq Seq(Name) /\ reset' \subseteq repos'
      BY <3>2 DEF InitRepo, PathsOK, TargetsTypeOK
    <3>3. ResetRepos => repos' = repos /\ reset' \subseteq repos'
      BY DEF ResetRepos
    <3> QED
      BY <3>1, <3>2, <3>3 DEF TargetsNext, TargetsTypeOK, targetsVars
  <2> QED
    BY <2>1 DEF PathsOK, TargetsTypeOK
<1> QED
  BY <1>1, <1>2, PathsStay, PTL DEF TargetsSpec

(***************************************************************************)
(* Whatever sources are configured and whatever directories exist, the     *)
(* targets derive_watch_targets returns do not overlap.                    *)
(***************************************************************************)
THEOREM TargetsNeverOverlap == TargetsSpec => []TargetsAreDisjoint
<1>1. PathsOK => TargetsAreDisjoint
  <2> SUFFICES ASSUME PathsOK,
                      NEW t \in Derive(sources, dirs), NEW u \in Derive(sources, dirs),
                      NEW p \in Path, Under(p, t), Under(p, u)
               PROVE  t = u
    BY DEF TargetsAreDisjoint
  <2>1. Dirs(sources, dirs) \subseteq Seq(Name) /\ p \in Seq(Name)
    BY DirsArePaths, WatchTargetsAssumption DEF PathsOK
  <2> QED
    BY <2>1, TargetsDisjoint
<1> QED
  BY <1>1, PathsStay, PTL

(***************************************************************************)
(* resolve_mirror_location is a function of the path in scope, not of the  *)
(* order in which the targets are listed.                                  *)
(***************************************************************************)
THEOREM ResolutionIsUnique == TargetsSpec => []OneTargetPerPath
<1>1. PathsOK => OneTargetPerPath
  <2> SUFFICES ASSUME PathsOK, NEW s \in sources, NEW p \in Path,
                      Under(p, s), Watchable(s, dirs)
               PROVE  \E t \in Derive(sources, dirs) :
                         Resolve(p, Derive(sources, dirs)) = {t}
    BY DEF OneTargetPerPath
  <2>1. Dirs(sources, dirs) \subseteq Seq(Name) /\ p \in Seq(Name)
    BY DirsArePaths, WatchTargetsAssumption DEF PathsOK
  <2>2. PICK t \in Derive(sources, dirs) : Under(p, t)
    <3>1. sources \subseteq Seq(Name)
      BY WatchTargetsAssumption DEF PathsOK
    <3> QED
      BY <2>1, <3>1, SourceHasTarget DEF PathsOK
  <2>3. \A u \in Derive(sources, dirs) : Under(p, u) => u = t
    BY <2>1, <2>2, TargetsDisjoint
  <2> QED
    BY <2>2, <2>3 DEF Resolve
<1> QED
  BY <1>1, PathsStay, PTL

(***************************************************************************)
(* A grant may collapse targets, but what one of them covered stays        *)
(* covered.                                                                *)
(***************************************************************************)
THEOREM GrantsNeverUncover == TargetsSpec => GrantsKeepCoverage
<1>1. PathsOK /\ [TargetsNext]_targetsVars =>
        [\A a \in Path : AddSource(a) =>
           \A p \in Path : Resolve(p, Derive(sources, dirs)) # {}
              => Resolve(p, Derive(sources', dirs)) # {}]_targetsVars
  <2> SUFFICES ASSUME PathsOK, NEW a \in Path, AddSource(a), NEW p \in Path,
                      NEW t \in Derive(sources, dirs), Under(p, t)
               PROVE  \E u \in Derive(sources', dirs) : Under(p, u)
    BY DEF Resolve
  <2>1. sources' \subseteq Path /\ sources \subseteq sources'
    BY DEF AddSource, PathsOK
  <2>2. t \in Dirs(sources', dirs)
    BY <2>1 DEF Derive, Dirs
  <2>3. Dirs(sources', dirs) \subseteq Seq(Name)
    <3>1. sources' \subseteq Seq(Name)
      BY <2>1, WatchTargetsAssumption
    <3> QED
      BY <3>1, DirsArePaths DEF PathsOK
  <2>4. PICK u \in Derive(sources', dirs) : Under(t, u)
    BY <2>2, <2>3, TargetAboveDir
  <2>5. p \in Seq(Name) /\ t \in Seq(Name) /\ u \in Seq(Name)
    BY <2>2, <2>3, <2>4, WatchTargetsAssumption DEF Derive
  <2> QED
    BY <2>4, <2>5, UnderTransitive
<1> QED
  BY <1>1, PathsStay, PTL DEF TargetsSpec, GrantsKeepCoverage

=============================================================================

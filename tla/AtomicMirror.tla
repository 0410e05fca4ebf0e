----------------------------- MODULE AtomicMirror -----------------------------
(***************************************************************************)
(* What a mirror repository promises its callers: a log of trees to which  *)
(* a write, a remove or a move appends in one step, and which changes in   *)
(* no other way.  A call that fails leaves paths loose: the next entry of  *)
(* the log may hold anything there.  A write that cannot see the log       *)
(* begins anew: readers find its entry and nothing before it.  Once a git  *)
(* call has taken effect without the lock (broken), nothing is promised.   *)
(***************************************************************************)
EXTENDS Naturals, Sequences

CONSTANTS Path, Subtree, Blob, Absent

VARIABLES
    log,    \* every commit, oldest first: its tree, and whether it began anew
    loose,  \* paths that failures since the last entry may have disturbed
    broken  \* whether a git call of a dead process has finished

Tree == [Path -> Blob \union {Absent}]

Tip == IF log = <<>> THEN [q \in Path |-> Absent] ELSE log[Len(log)].tree

Init ==
    /\ log = <<>>
    /\ loose = {}
    /\ broken = FALSE

\* A new entry, which differs from the last at paths of S and at loose ones.
Record(S, new) ==
    /\ log' = Append(log, [tree |-> Tip', anew |-> new])
    /\ Tip' \in Tree
    /\ \A q \in Path : Tip'[q] # Tip[q] => q \in S \union loose
    /\ loose' = {}

\* A write of what is there already is not recorded, except as the first
\* commit (write, 239-242), or with a loose path that changed.
Write(q, b) ==
    /\ Record({q}, FALSE)
    /\ Tip'[q] = b
    /\ log = <<>> \/ Tip' # Tip

\* A write that takes the repository for new.
Restart(q, b) ==
    /\ Record({q}, TRUE)
    /\ Tip'[q] = b

Remove(S) ==
    /\ \E q \in S : Tip[q] # Absent
    /\ Record(S, FALSE)
    /\ \A q \in S : Tip'[q] = Absent

Move(s, d) ==
    /\ s # d
    /\ Tip[s] # Absent
    /\ Record({s, d}, FALSE)
    /\ Tip'[s] = Absent /\ Tip'[d] = Tip[s]

\* A failed call, or a reset that cannot see the log; a reset, or a write that
\* found nothing to do.
Loosen == loose' \in SUBSET Path /\ loose \subseteq loose' /\ UNCHANGED log

Tighten == loose' = {} /\ UNCHANGED log

Next ==
    \/ broken'
    \/ /\ ~broken'
       /\ \/ \E q \in Path, b \in Blob : Write(q, b) \/ Restart(q, b)
          \/ \E S \in Subtree : Remove(S)
          \/ \E s, d \in Path : Move(s, d)
          \/ Loosen
          \/ Tighten

Spec == Init /\ [][Next]_<<log, loose, broken>>
=============================================================================

------------------------------- MODULE Mailbox -------------------------------
(***************************************************************************)
(* What the event bus promises one subscription (vcs/workers/bus.py),      *)
(* without threads, locks or other subscriptions: the events it wants, in  *)
(* the order they were reported, each of them once, and STOP after the     *)
(* last.                                                                   *)
(***************************************************************************)
EXTENDS Naturals, Sequences

CONSTANTS
    Topic,
    Wanted,  \* the topics its pattern accepts
    Picky,   \* whether it has a predicate, which may turn any event down
    STOP

VARIABLES
    coming,   \* reported, and not yet put in or passed over
    box,      \* put in and not yet taken
    watched,  \* whether the observer has handlers
    closed,   \* whether STOP was put in
    ended     \* whether STOP was taken

vars == <<coming, box, watched, closed, ended>>

Init ==
    /\ coming = <<>>
    /\ box = <<>>
    /\ watched
    /\ ~closed
    /\ ~ended

Report ==
    /\ watched
    /\ \E t \in Topic : coming' = Append(coming, t)
    /\ UNCHANGED <<box, watched, closed, ended>>

Settle ==
    /\ coming # <<>>
    /\ coming' = Tail(coming)
    /\ UNCHANGED <<watched, closed, ended>>

Deliver ==
    /\ watched
    /\ Settle
    /\ Head(coming) \in Wanted
    /\ box' = Append(box, Head(coming))

\* Nothing wanted is lost before the observer is stopped.
PassOver ==
    /\ Settle
    /\ Head(coming) \in Wanted => Picky \/ ~watched
    /\ UNCHANGED box

Take ==
    /\ ~ended
    /\ box # <<>>
    /\ box' = Tail(box)
    /\ ended' = (Head(box) = STOP)
    /\ UNCHANGED <<coming, watched, closed>>

Unwatch == watched /\ ~watched' /\ UNCHANGED <<coming, box, closed, ended>>

Close ==
    /\ ~watched
    /\ ~closed
    /\ closed'
    /\ box' = Append(box, STOP)
    /\ UNCHANGED <<coming, watched, ended>>

Next == Report \/ Deliver \/ PassOver \/ Take \/ Unwatch \/ Close

Spec == Init /\ [][Next]_vars
=============================================================================

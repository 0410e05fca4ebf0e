------------------------------- MODULE EventBus -------------------------------
(***************************************************************************)
(* The threads of a running daemon and how it stops: the observer's        *)
(* dispatcher fans events out to the mailboxes of the subscriptions        *)
(* (vcs/workers/bus.py) while it holds the observer's lock; one worker per *)
(* subscription handles them (consumer_worker.py), and the config worker   *)
(* needs that lock for its reconcile (config_consumer.py); the main thread *)
(* runs VCSRuntime.stop (runtime.py, local_runtime.py).                    *)
(*                                                                         *)
(* watchdog is modelled as src/ uses it: dispatching, scheduling and       *)
(* unscheduling take the observer's lock, and join waits for the           *)
(* dispatcher.                                                             *)
(***************************************************************************)
EXTENDS TopicMatch

CONSTANTS
    Sub,         \* the subscriptions; each worker goes by its own
    Binding,     \* the pattern of each
    Topic,       \* the routing keys topic_for gives events
    Filtered,    \* those with a predicate
    Reconciler,  \* those whose handler reconciles the watch set
    STOP,        \* the sentinel
    Dispatcher, Nobody, \* who may hold the lock, besides workers
    MaxEvents    \* bound: file system events

ASSUME EventBusAssumption ==
    /\ Filtered \subseteq Sub
    /\ Reconciler \subseteq Sub
    /\ STOP \notin Topic
    /\ Dispatcher \notin Sub
    /\ Nobody \notin Sub \union Topic
    /\ Dispatcher # Nobody
    /\ MaxEvents \in Nat

\* Of an event only its topic matters here.
VARIABLES
    queue,     \* the observer's queue
    made,      \* file system events so far
    lock,      \* who holds BaseObserver._lock
    dpc,       \* the dispatcher: get, lock, fanout, over
    event,     \* the event it is at, Nobody without one
    todo,      \* subscriptions it has yet to offer it to
    mailbox,   \* the subscriptions' queues
    wpc,       \* the workers: new, get, handle, lock, reconcile, end, dead
    mpc,       \* the main thread: run, stop, unschedule, join, close, drain, done
    stopped,   \* the observer's flag
    unwatched, \* its handlers are gone
    closed,    \* LocalEventBus.closed
    again      \* KeyboardInterrupt: run() stops, and so does its caller

dispatcher == <<queue, dpc, event, todo>>
main == <<mpc, stopped, unwatched, closed, again>>
busVars == <<dispatcher, made, lock, mailbox, wpc, main>>

BusInit ==
    /\ queue = <<>>
    /\ made = 0
    /\ lock = Nobody
    /\ dpc = "get"
    /\ event = Nobody
    /\ todo = {}
    /\ mailbox = [s \in Sub |-> <<>>]
    /\ wpc = [s \in Sub |-> "new"]
    /\ mpc = "run"
    /\ stopped = FALSE
    /\ unwatched = FALSE
    /\ closed = FALSE
    /\ again = FALSE

-----------------------------------------------------------------------------
(* The observer. *)

\* An emitter reports something.
Emit ==
    /\ made < MaxEvents
    /\ ~unwatched
    /\ made' = made + 1
    /\ \E t \in Topic : queue' = Append(queue, t)
    /\ UNCHANGED <<lock, dpc, event, todo, mailbox, wpc, main>>

Get ==
    /\ dpc = "get"
    /\ queue # <<>>
    /\ dpc' = "lock"
    /\ event' = Head(queue)
    /\ queue' = Tail(queue)
    /\ UNCHANGED <<made, lock, todo, mailbox, wpc, main>>

Lock ==
    /\ dpc = "lock"
    /\ lock = Nobody
    /\ lock' = Dispatcher
    /\ dpc' = "fanout"
    /\ todo' = IF unwatched THEN {} ELSE Sub
    /\ UNCHANGED <<queue, event, made, mailbox, wpc, main>>

Accepts(s, t) == topic_matches(Binding[s], t)

\* Mutant: a mailbox has room for one event.
OfferBounded(s) ==
    /\ s \in todo
    /\ todo' = todo \ {s}
    /\ \/ Accepts(s, event) /\ mailbox[s] = <<>> /\ mailbox' = [mailbox EXCEPT ![s] = <<event>>]
       \/ ~Accepts(s, event) /\ UNCHANGED mailbox
    /\ UNCHANGED <<queue, dpc, event, made, lock, wpc, main>>

\* LocalEventBus.publish: a predicate that says no, or raises, skips this
\* subscription only.
Offer(s) ==
    /\ s \in todo
    /\ todo' = todo \ {s}
    /\ \/ Accepts(s, event) /\ mailbox' = [mailbox EXCEPT ![s] = Append(@, event)]
       \/ (Accepts(s, event) => s \in Filtered) /\ UNCHANGED mailbox
    /\ UNCHANGED <<queue, dpc, event, made, lock, wpc, main>>

\* Mutant: the first subscription to take the event ends the fanout.
UnlockEarly ==
    /\ dpc = "fanout"
    /\ lock' = Nobody
    /\ event' = Nobody
    /\ dpc' = "get"
    /\ UNCHANGED <<queue, todo, made, mailbox, wpc, main>>

Unlock ==
    /\ dpc = "fanout"
    /\ todo = {}
    /\ lock' = Nobody
    /\ event' = Nobody
    /\ dpc' = "get"
    /\ UNCHANGED <<queue, todo, made, mailbox, wpc, main>>

\* It sees the flag, or is woken from its queue by stop.
Leave ==
    /\ dpc = "get"
    /\ stopped
    /\ dpc' = "over"
    /\ UNCHANGED <<queue, event, todo, made, lock, mailbox, wpc, main>>

-----------------------------------------------------------------------------
(* A worker, ConsumerWorker.run. *)

\* Without a database it consumes nothing.
StartWorker(s) ==
    /\ wpc[s] = "new"
    /\ \E at \in {"get", "dead"} : wpc' = [wpc EXCEPT ![s] = at]
    /\ UNCHANGED <<dispatcher, made, lock, mailbox, main>>

Consume(s) ==
    /\ wpc[s] = "get"
    /\ mailbox[s] # <<>>
    /\ mailbox' = [mailbox EXCEPT ![s] = Tail(@)]
    /\ wpc' = [wpc EXCEPT ![s] = IF Head(mailbox[s]) = STOP THEN "end" ELSE "handle"]
    /\ UNCHANGED <<dispatcher, made, lock, main>>

\* Mutant: an exception leaves the loop.
HandleOnce(s) ==
    /\ wpc[s] = "handle"
    /\ \E at \in {"get", "end"} \union (IF s \in Reconciler THEN {"lock"} ELSE {}) :
          wpc' = [wpc EXCEPT ![s] = at]
    /\ UNCHANGED <<dispatcher, made, lock, mailbox, main>>

\* The handler is over, with an exception or without, or goes on to reconcile.
Handle(s) ==
    /\ wpc[s] = "handle"
    /\ \E at \in {"get"} \union (IF s \in Reconciler THEN {"lock"} ELSE {}) :
          wpc' = [wpc EXCEPT ![s] = at]
    /\ UNCHANGED <<dispatcher, made, lock, mailbox, main>>

\* observer.schedule, observer.unschedule.
Reconcile(s) ==
    /\ wpc[s] = "lock"
    /\ lock = Nobody
    /\ lock' = s
    /\ wpc' = [wpc EXCEPT ![s] = "reconcile"]
    /\ UNCHANGED <<dispatcher, made, mailbox, main>>

Reconciled(s) ==
    /\ wpc[s] = "reconcile"
    /\ lock' = Nobody
    /\ wpc' = [wpc EXCEPT ![s] = "get"]
    /\ UNCHANGED <<dispatcher, made, mailbox, main>>

-----------------------------------------------------------------------------
(* The main thread, VCSRuntime.run and LocalRuntime.stop. *)

\* Mutant: the bus is closed first.
StopEventClosing ==
    /\ mpc = "run"
    /\ again' \in BOOLEAN
    /\ closed' = TRUE
    /\ mailbox' = [s \in Sub |-> Append(mailbox[s], STOP)]
    /\ mpc' = "stop"
    /\ UNCHANGED <<dispatcher, made, lock, wpc, stopped, unwatched>>

\* A signal or the sentinel file sets stop_event; Ctrl-C interrupts run().
StopEvent ==
    /\ mpc = "run"
    /\ again' \in BOOLEAN
    /\ mpc' = "stop"
    /\ UNCHANGED <<dispatcher, made, lock, mailbox, wpc, stopped, unwatched, closed>>

\* observer.stop sets the flag, then unschedules everything under the lock.
StopObserver ==
    /\ mpc = "stop"
    /\ stopped' = TRUE
    /\ mpc' = "unschedule"
    /\ UNCHANGED <<dispatcher, made, lock, mailbox, wpc, unwatched, closed, again>>

Unschedule ==
    /\ mpc = "unschedule"
    /\ lock = Nobody
    /\ unwatched' = TRUE
    /\ mpc' = "join"
    /\ UNCHANGED <<dispatcher, made, lock, mailbox, wpc, stopped, closed, again>>

JoinObserver ==
    /\ mpc = "join"
    /\ dpc = "over"
    /\ mpc' = "close"
    /\ UNCHANGED <<dispatcher, made, lock, mailbox, wpc, stopped, unwatched, closed,
                   again>>

\* LocalEventBus.close.  Nobody else publishes any more.
Close ==
    /\ mpc = "close"
    /\ closed' = TRUE
    /\ mailbox' = IF closed THEN mailbox
                  ELSE [s \in Sub |-> Append(mailbox[s], STOP)]
    /\ mpc' = "drain"
    /\ UNCHANGED <<dispatcher, made, lock, wpc, stopped, unwatched, again>>

JoinWorkers ==
    /\ mpc = "drain"
    /\ \A s \in Sub : wpc[s] \in {"end", "dead"}
    /\ mpc' = IF again THEN "stop" ELSE "done"
    /\ again' = FALSE
    /\ UNCHANGED <<dispatcher, made, lock, mailbox, wpc, stopped, unwatched, closed>>

-----------------------------------------------------------------------------
Dispatching == Get \/ Lock \/ (\E s \in Sub : Offer(s)) \/ Unlock \/ Leave
Working(s) == StartWorker(s) \/ Consume(s) \/ Handle(s) \/ Reconcile(s) \/ Reconciled(s)
Stopping == StopObserver \/ Unschedule \/ JoinObserver \/ Close \/ JoinWorkers

BusNext ==
    \/ Emit
    \/ Dispatching
    \/ \E s \in Sub : Working(s)
    \/ StopEvent
    \/ Stopping

BusSpec == BusInit /\ [][BusNext]_busVars

\* Every thread is scheduled; a stop need not be asked for.
BusFairSpec ==
    /\ BusSpec
    /\ WF_busVars(Dispatching)
    /\ \A s \in Sub : WF_busVars(Working(s))
    /\ WF_busVars(Stopping)

-----------------------------------------------------------------------------
\* Every variable has the values the code can give it, and the dispatcher is at
\* an event only while it hands it out.
BusTypeOK ==
    /\ queue \in Seq(Topic)
    /\ made \in 0..MaxEvents
    /\ lock \in Sub \union {Dispatcher, Nobody}
    /\ dpc \in {"get", "lock", "fanout", "over"}
    /\ event \in IF dpc \in {"lock", "fanout"} THEN Topic ELSE {Nobody}
    /\ todo \subseteq IF dpc = "fanout" THEN Sub ELSE {}
    /\ mailbox \in [Sub -> Seq(Topic \union {STOP})]
    /\ wpc \in [Sub -> {"new", "get", "handle", "lock", "reconcile", "end", "dead"}]
    /\ mpc \in {"run", "stop", "unschedule", "join", "close", "drain", "done"}
    /\ stopped \in BOOLEAN
    /\ unwatched \in BOOLEAN
    /\ closed \in BOOLEAN
    /\ again \in BOOLEAN

\* topic_matches agrees with AMQP's definition of its wildcards on every pattern
\* and topic, not only those of today's subscriptions; no variable matters, so
\* it is compared once, before the first event (bus.py, topic_matches).
MatchesAsDefined == made = 0 => AgreesWithDefinition

\* The watch set is never changed while the dispatcher walks its handlers, nor
\* by two threads at once (BaseObserver._lock).
LockExcludes ==
    /\ dpc = "fanout" => lock = Dispatcher
    /\ \A s \in Sub : wpc[s] = "reconcile" => lock = s

\* A worker that has read STOP leaves nothing behind, and nothing arrives any
\* more: the observer is joined before the bus is closed, and closing twice is
\* closing once (LocalRuntime.stop, LocalEventBus.close).
NothingLeftBehind == \A s \in Sub : wpc[s] = "end" => mailbox[s] = <<>>

\* What s has yet to be offered: the rest of the fanout, then the queue.
Coming(s) == (IF dpc = "lock" \/ s \in todo THEN <<event>> ELSE <<>>) \o queue

Channel(s) ==
    INSTANCE Mailbox WITH
        Wanted <- {t \in Topic : Accepts(s, t)},
        Picky <- s \in Filtered,
        coming <- Coming(s),
        box <- mailbox[s],
        watched <- ~unwatched,
        ended <- wpc[s] = "end"

\* Whatever the threads do, each subscription gets what it wants in the order
\* it was reported, once, and STOP after it, also when closing races a fanout
\* or happens twice (LocalEventBus.publish, close).
ImplementsMailbox ==
    /\ \A s \in Sub : Channel(s)!Init
    /\ [][\A s \in Sub : [Channel(s)!Next]_(Channel(s)!vars)]_busVars

\* A stop is carried through although the main thread, the dispatcher and the
\* config worker want one lock, and although a worker never came up.
StopCompletes == (mpc = "stop") ~> (mpc = "done")

\* Whatever is accepted is handled, unless there is no worker: an exception
\* takes no worker down (ConsumerWorker.run).
AcceptedIsHandled ==
    \A s \in Sub : []<>(mailbox[s] = <<>> \/ wpc[s] = "dead")

=============================================================================

---------------------------- MODULE NatsMonitor ----------------------------
(***************************************************************************)
(* How a NatsBus (messaging/nats_bus.py) keeps its connection: connect,    *)
(* close, reconnect, the subscriptions, and the health monitors that each  *)
(* connect may start.  The bus of one process; its Main task is            *)
(* _start_nats_bus and later shutdown, in agents/base.py.                  *)
(*                                                                         *)
(* Every action is the code of one task between two awaits.  Time is left  *)
(* out: a monitor may wake whenever it sleeps.  A connection of nats-py    *)
(* tries to come back by itself after an outage and gives up in the end.   *)
(***************************************************************************)
EXTENDS Integers, FiniteSets

CONSTANTS
    Attempts,        \* reconnect_attempts
    MaxConnections,  \* bound of the model: connections ever opened
    MaxMonitors,     \* bound: tasks of _monitor ever created
    MaxFailures      \* bound: connections dropped, attempts, subscribes failed

ASSUME NatsMonitorAssumption ==
    /\ Attempts \in Nat \ {0}
    /\ {MaxConnections, MaxMonitors, MaxFailures} \subseteq Nat

\* Numbered in the order in which they come into being.
Connection == 1..MaxConnections
Monitor == 1..MaxMonitors
Main == 0
Task == Monitor \cup {Main}
None == -1
Kind == {"broadcast", "direct"}
NoKind == "none"

VARIABLES
    conn,       \* state of each connection
    nc,         \* _nc, and _js which is always set and cleared with it
    subs,       \* _subs: what is subscribed, and on which connection
    handlers,   \* the handlers the bus has been given
    ref,        \* _monitor_task
    task,       \* where each task is
    cancelled,  \* tasks with a CancelledError to come
    failures

vars == <<conn, nc, subs, handlers, ref, task, cancelled, failures>>

\* "joining": in close(), awaiting the task `on`; "draining" and "closing": in
\* close(), awaiting the connection `on`; "subscribing": to kind, over `on`.
TaskState ==
    [pc    : {"unborn", "sleeping", "joining", "draining", "closing",
              "connecting", "subscribing", "running", "done"},
     on    : Task \cup Connection \cup {None},
     kind  : Kind \cup {NoKind},
     tries : 0..Attempts]

At(pc) == [pc |-> pc, on |-> None, kind |-> NoKind, tries |-> 0]
On(pc, x) == [At(pc) EXCEPT !.on = x]
Connecting(k) == [At("connecting") EXCEPT !.tries = k]

\* What a task does when it has nothing more to do to the connection.
Rest(t) == At(IF t = Main THEN "running" ELSE "sleeping")

\* Faulty: the exception of a failed reconnect ends the monitor.
FailEnds(t) == At("done")

\* ... and when an exception comes out of it: the monitor's loop goes on, the
\* agent starts without the bus.
Fail(t) == At(IF t = Main THEN "done" ELSE "sleeping")

Done(t) == task[t].pc \in {"unborn", "done"}
IsConnected == nc # None /\ conn[nc] = "live"
Live == {c \in Connection : conn[c] = "live"}

Unborn(m) == task[m].pc = "unborn" /\ \A n \in 1..m - 1 : task[n].pc # "unborn"
Unused(c) == conn[c] = "unused" /\ \A d \in 1..c - 1 : conn[d] # "unused"

Init ==
    /\ conn = [c \in Connection |-> "unused"]
    /\ nc = None
    /\ subs = {}
    /\ handlers = {}
    /\ ref = None
    /\ task = [t \in Task |-> IF t = Main THEN Connecting(1) ELSE At("unborn")]
    /\ cancelled = {}
    /\ failures = 0

----------------------------------------------------------------------------
\* close().

\* Closed: the agent stops, or reconnect() goes on to connect().
AfterClose(t) == IF t = Main THEN At("done") ELSE Connecting(1)

\* The second half of close().  Unsubscribes, and starts to drain whatever _nc
\* is now; drain() returns at once if somebody is draining it already, and
\* raises if it is not connected.  In that case it is given up unclosed.
Disconnect(t) ==
    /\ subs' = IF nc = None THEN subs ELSE {}
    /\ IF nc # None /\ conn[nc] = "live"
       THEN /\ conn' = [conn EXCEPT ![nc] = "draining"]
            /\ task' = [task EXCEPT ![t] = On("draining", nc)]
            /\ UNCHANGED nc
       ELSE IF nc # None /\ conn[nc] = "draining"
       THEN /\ task' = [task EXCEPT ![t] = On("closing", nc)]
            /\ UNCHANGED <<conn, nc>>
       ELSE /\ task' = [task EXCEPT ![t] = AfterClose(t)]
            /\ nc' = None
            /\ UNCHANGED conn

\* Faulty: close() leaves the monitor alone.
CloseKeepsMonitor(t) == Disconnect(t) /\ UNCHANGED <<ref, cancelled>>

\* close() first cancels _monitor_task and awaits it, which may be t itself.
Close(t) ==
    IF ref # None /\ ~ Done(ref)
    THEN /\ cancelled' = cancelled \cup {ref}
         /\ task' = [task EXCEPT ![t] = On("joining", ref)]
         /\ UNCHANGED <<conn, nc, subs, ref>>
    ELSE Disconnect(t) /\ UNCHANGED <<ref, cancelled>>

\* Faulty: close() does not catch the cancellation it awaits.
JoinRaises(t) ==
    /\ task[t].pc = "joining"
    /\ t \in cancelled \/ Done(task[t].on)
    /\ IF t \in cancelled
       THEN /\ task' = [task EXCEPT ![t] = At("done")]
            /\ UNCHANGED <<conn, nc, subs, ref>>
       ELSE ref' = None /\ Disconnect(t)
    /\ cancelled' = cancelled \ {t}
    /\ UNCHANGED <<handlers, failures>>

\* The await in close() is over: the monitor is done, or a CancelledError was
\* thrown at t.  A monitor that closes its own bus swallows its cancellation.
Join(t) ==
    /\ task[t].pc = "joining"
    /\ t \in cancelled \/ Done(task[t].on)
    /\ cancelled' = cancelled \ {t}
    /\ ref' = None
    /\ Disconnect(t)
    /\ UNCHANGED <<handlers, failures>>

\* drain() has closed the connection; close() is called on what _nc is now.
Drained(t) ==
    LET c == task[t].on
    IN  /\ task[t].pc = "draining" /\ t \notin cancelled
        /\ conn' = [conn EXCEPT ![c] = "closed"]
        /\ IF nc \in {None, c}
           THEN nc' = None /\ task' = [task EXCEPT ![t] = AfterClose(t)]
           ELSE task' = [task EXCEPT ![t] = On("closing", nc)] /\ UNCHANGED nc
        /\ UNCHANGED <<subs, handlers, ref, cancelled, failures>>

Closed(t) ==
    /\ task[t].pc = "closing" /\ t \notin cancelled
    /\ conn' = [conn EXCEPT ![task[t].on] = "closed"]
    /\ nc' = None
    /\ task' = [task EXCEPT ![t] = AfterClose(t)]
    /\ UNCHANGED <<subs, handlers, ref, cancelled, failures>>

----------------------------------------------------------------------------
\* connect() and the subscriptions.

\* t subscribes the first of kinds, if the bus is connected then.
Subscribing(t, kinds, n) ==
    IF kinds = {} \/ n = None THEN Rest(t)
    ELSE [On("subscribing", n) EXCEPT
             !.kind = IF "broadcast" \in kinds THEN "broadcast" ELSE "direct"]

\* Which handlers t subscribes: Main brings them, a monitor takes those the bus
\* knows.  A subscription that is skipped leaves its handler behind.
Wanted(t, kinds) == IF t = Main THEN kinds ELSE kinds \cap handlers

Known(t, kinds, n) ==
    IF t # Main THEN handlers
    ELSE IF n # None /\ "broadcast" \in kinds THEN handlers \cup {"broadcast"}
    ELSE handlers \cup kinds

\* The connection is set up: c takes the place of _nc.  A monitor is started
\* unless _monitor_task is running.
Connected(t, c) ==
    /\ conn' = [conn EXCEPT ![c] = "live"]
    /\ nc' = c
    /\ IF ref # None /\ ~ Done(ref)
       THEN /\ task' = [task EXCEPT ![t] = Subscribing(t, Wanted(t, Kind), c)]
            /\ UNCHANGED ref
       ELSE \E m \in Monitor :
                /\ Unborn(m)
                /\ ref' = m
                /\ task' = [task EXCEPT
                               ![m] = At("sleeping"),
                               ![t] = Subscribing(t, Wanted(t, Kind), c)]

Connect(t) ==
    /\ task[t].pc = "connecting" /\ t \notin cancelled
    /\ \E c \in Connection : /\ Unused(c)
                             /\ Connected(t, c)
                             /\ handlers' = Known(t, Kind, c)
    /\ UNCHANGED <<subs, cancelled, failures>>

\* Faulty: one attempt too many.
ConnectFailsLate(t) ==
    /\ task[t].pc = "connecting" /\ t \notin cancelled
    /\ failures < MaxFailures
    /\ failures' = failures + 1
    /\ nc' = None
    /\ task' = [task EXCEPT ![t] = IF @.tries <= Attempts
                                   THEN Connecting(@.tries + 1) ELSE Fail(t)]
    /\ UNCHANGED <<conn, subs, handlers, ref, cancelled>>

\* The attempt failed.  _nc is cleared whoever set it.
ConnectFails(t) ==
    /\ task[t].pc = "connecting" /\ t \notin cancelled
    /\ failures < MaxFailures
    /\ failures' = failures + 1
    /\ nc' = None
    /\ task' = [task EXCEPT ![t] = IF @.tries < Attempts
                                   THEN Connecting(@.tries + 1) ELSE Fail(t)]
    /\ UNCHANGED <<conn, subs, handlers, ref, cancelled>>

\* The durable consumer is bound to some other connection of this process.
Bound(k, c) == \E d \in Live \ {c} : <<k, d>> \in subs

Subscribe(t) ==
    LET k == task[t].kind
        c == task[t].on
        more == {"direct"} \ {k}
    IN  /\ task[t].pc = "subscribing" /\ t \notin cancelled
        /\ conn[c] = "live" /\ ~ Bound(k, c)
        /\ subs' = subs \cup {<<k, c>>}
        /\ task' = [task EXCEPT ![t] = Subscribing(t, Wanted(t, more), nc)]
        /\ handlers' = Known(t, more, nc)
        /\ UNCHANGED <<conn, nc, ref, cancelled, failures>>

\* The monitor logs it and sleeps; at the start, the agent goes without a bus.
SubscribeFails(t) ==
    /\ task[t].pc = "subscribing" /\ t \notin cancelled
    /\ IF conn[task[t].on] # "live" \/ Bound(task[t].kind, task[t].on)
       THEN UNCHANGED failures
       ELSE failures < MaxFailures /\ failures' = failures + 1
    /\ task' = [task EXCEPT ![t] = Fail(t)]
    /\ UNCHANGED <<conn, nc, subs, handlers, ref, cancelled>>

----------------------------------------------------------------------------
\* The monitor, and the end of the agent.

\* Ten seconds have passed.
Wake(m) ==
    /\ task[m].pc = "sleeping" /\ m \notin cancelled
    /\ ~ IsConnected
    /\ Close(m)
    /\ UNCHANGED <<handlers, failures>>

\* Outside close(), a cancellation ends the task.
Cancelled(m) ==
    /\ m \in cancelled
    /\ task[m].pc # "joining"
    /\ task' = [task EXCEPT ![m] = At("done")]
    /\ cancelled' = cancelled \ {m}
    /\ UNCHANGED <<conn, nc, subs, handlers, ref, failures>>

Shutdown ==
    /\ task[Main].pc = "running"
    /\ Close(Main)
    /\ UNCHANGED <<handlers, failures>>

----------------------------------------------------------------------------
\* nats-py and the network.

Drop(c) ==
    /\ conn[c] = "live"
    /\ failures < MaxFailures
    /\ failures' = failures + 1
    /\ conn' = [conn EXCEPT ![c] = "reconnecting"]
    /\ UNCHANGED <<nc, subs, handlers, ref, task, cancelled>>

Recover(c) ==
    /\ conn[c] = "reconnecting"
    /\ conn' = [conn EXCEPT ![c] = "live"]
    /\ UNCHANGED <<nc, subs, handlers, ref, task, cancelled, failures>>

GiveUp(c) ==
    /\ conn[c] = "reconnecting"
    /\ conn' = [conn EXCEPT ![c] = "closed"]
    /\ UNCHANGED <<nc, subs, handlers, ref, task, cancelled, failures>>

----------------------------------------------------------------------------

Step(t) ==
    \/ Join(t) \/ Drained(t) \/ Closed(t)
    \/ Connect(t) \/ ConnectFails(t)
    \/ Subscribe(t) \/ SubscribeFails(t)

Next ==
    \/ \E t \in Task : Step(t)
    \/ \E m \in Monitor : Wake(m) \/ Cancelled(m)
    \/ \E c \in Connection : Drop(c) \/ Recover(c) \/ GiveUp(c)
    \/ Shutdown

Spec == Init /\ [][Next]_vars

\* The event loop runs every task that can run, and what a task awaits returns
\* or raises.  The network owes nothing, and nobody has to shut down.
FairSpec ==
    /\ Spec
    /\ \A t \in Task : WF_vars(Step(t))
    /\ \A m \in Monitor : WF_vars(Wake(m) \/ Cancelled(m))

----------------------------------------------------------------------------
(***************************************************************************)
(* Properties.                                                             *)
(***************************************************************************)

\* The shape of the state; connect() makes at most Attempts attempts.
TypeOK ==
    /\ conn \in [Connection ->
                    {"unused", "live", "draining", "reconnecting", "closed"}]
    /\ nc \in Connection \cup {None}
    /\ subs \in SUBSET (Kind \X Connection)
    /\ handlers \in SUBSET Kind
    /\ ref \in Monitor \cup {None}
    /\ task \in [Task -> TaskState]
    /\ cancelled \in SUBSET Monitor
    /\ failures \in 0..MaxFailures

\* m is running and will not end by a cancellation already on its way.
Lives(m) == ~ Done(m) /\ (m \in cancelled => task[m].pc = "joining")

\* As long as the agent uses the bus some monitor watches it, though every
\* reconnect cancels _monitor_task, and with it most often itself.
MonitorSurvives ==
    task[Main].pc = "running" => \E m \in Monitor : Lives(m)

\* If nothing ever failed, nothing is left when the bus is closed.
CleanShutdown ==
    task[Main].pc = "done" /\ failures = 0 =>
        /\ \A m \in Monitor : Done(m)
        /\ Live = {} /\ subs = {} /\ nc = None

\* An outage that nats-py does not repair is noticed: somebody gets as far as
\* connect(), unless the agent stops.
OutageNoticed ==
    task[Main].pc = "running" /\ ~ IsConnected
        ~> \/ IsConnected
           \/ task[Main].pc # "running"
           \/ \E m \in Monitor : task[m].pc = "connecting"

\* A bus that loses a connection it was subscribed on is subscribed again in the
\* end (docs/pillywiggins-overview-v2.md).
Resubscribes ==
    \A c \in Connection :
        nc = c /\ conn[c] = "reconnecting" /\ Kind \X {c} \subseteq subs
            ~> \/ \A k \in Kind : \E d \in Live : <<k, d>> \in subs
               \/ task[Main].pc # "running"
=============================================================================

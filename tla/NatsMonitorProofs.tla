------------------------- MODULE NatsMonitorProofs -------------------------
(***************************************************************************)
(* Proofs about NatsMonitor, for any numbers of attempts, connections,     *)
(* monitors and failures: a bus that is used is watched, and one that is   *)
(* closed without a failure leaves nothing behind.                         *)
(***************************************************************************)
EXTENDS NatsMonitor, TLAPS

USE NatsMonitorAssumption

Pc == {"unborn", "sleeping", "joining", "draining", "closing",
       "connecting", "subscribing", "running", "done"}

\* What a task awaits is what its place in the code says.
Formed(x) ==
    /\ x.pc = "joining" => x.on \in Monitor
    /\ x.pc \in {"draining", "closing", "subscribing"} => x.on \in Connection
    /\ x.pc = "subscribing" => x.kind \in Kind

AllFormed == \A t \in Task : Formed(task[t])

\* Main connects once, before there is any monitor.
BeforeConnect ==
    task[Main].pc = "connecting" =>
        ref = None /\ cancelled = {} /\ \A m \in Monitor : task[m].pc = "unborn"

\* From then on some monitor lives, until Main closes the bus.
Watched ==
    task[Main].pc \in {"subscribing", "running"} => \E m \in Monitor : Lives(m)

\* Without a failure one monitor is ever started, and it never wakes; it is gone
\* when Main drains the one connection.
Undisturbed ==
    /\ \A m \in Monitor : task[m].pc \in {"unborn", "sleeping", "done"}
    /\ \A m \in Monitor : task[m].pc = "sleeping" => m = ref
    /\ \A c \in Connection : conn[c] # "reconnecting" /\ (conn[c] = "live" => c = nc)
    /\ task[Main].pc \notin {"closing", "unborn", "sleeping"}
    /\ task[Main].pc = "connecting" => nc = None /\ subs = {}
    /\ task[Main].pc \in {"subscribing", "running", "joining"} => IsConnected
    /\ task[Main].pc \in {"subscribing", "draining"} => task[Main].on = nc
    /\ task[Main].pc = "joining" => task[Main].on = ref
    /\ task[Main].pc \in {"draining", "done"} =>
           subs = {} /\ \A m \in Monitor : Done(m)
    /\ task[Main].pc = "draining" => conn[nc] = "draining"
    /\ task[Main].pc = "done" => nc = None

\* The inductive invariant.
Inv ==
    /\ TypeOK
    /\ AllFormed
    /\ BeforeConnect
    /\ Watched
    /\ failures = 0 => Undisturbed

----------------------------------------------------------------------------
\* The numbers, and the states a task can be given.

LEMMA Numbers ==
    /\ Main \in Task /\ Main \notin Monitor /\ Monitor \subseteq Task
    /\ Task = Monitor \cup {Main}
    /\ None \notin Task /\ None \notin Connection
  BY DEF Main, Task, Monitor, None, Connection

LEMMA AtType ==
    ASSUME NEW pc \in Pc
    PROVE  At(pc) \in TaskState /\ At(pc).pc = pc /\ At(pc).on = None
  BY DEF At, TaskState, Pc

LEMMA OnType ==
    ASSUME NEW pc \in Pc, NEW x \in Task \cup Connection \cup {None}
    PROVE  On(pc, x) \in TaskState /\ On(pc, x).pc = pc /\ On(pc, x).on = x
  BY DEF On, At, TaskState, Pc

LEMMA ConnectingType ==
    ASSUME NEW k \in 0..Attempts
    PROVE  Connecting(k) \in TaskState /\ Connecting(k).pc = "connecting"
  BY DEF Connecting, At, TaskState

LEMMA RestType ==
    ASSUME NEW t \in Task
    PROVE  /\ Rest(t) \in TaskState /\ Formed(Rest(t))
           /\ Rest(t).pc = IF t = Main THEN "running" ELSE "sleeping"
           /\ Fail(t) \in TaskState /\ Formed(Fail(t))
           /\ Fail(t).pc = IF t = Main THEN "done" ELSE "sleeping"
  BY AtType DEF Rest, Fail, Formed, Pc

LEMMA AfterCloseType ==
    ASSUME NEW t \in Task
    PROVE  /\ AfterClose(t) \in TaskState /\ Formed(AfterClose(t))
           /\ AfterClose(t).pc = IF t = Main THEN "done" ELSE "connecting"
<1>1. 1 \in 0..Attempts
    OBVIOUS
<1> QED
    BY <1>1, AtType, ConnectingType DEF AfterClose, Formed, Pc

LEMMA SubscribingType ==
    ASSUME NEW t \in Task, NEW kinds \in SUBSET Kind, NEW n \in Connection \cup {None}
    PROVE  /\ Subscribing(t, kinds, n) \in TaskState /\ Formed(Subscribing(t, kinds, n))
           /\ Subscribing(t, kinds, n).pc \in
                  {"subscribing", IF t = Main THEN "running" ELSE "sleeping"}
           /\ Subscribing(t, kinds, n).pc = "subscribing" =>
                  Subscribing(t, kinds, n).on = n
<1> DEFINE k == IF "broadcast" \in kinds THEN "broadcast" ELSE "direct"
           x == [On("subscribing", n) EXCEPT !.kind = k]
<1>1. CASE kinds = {} \/ n = None
    BY <1>1, RestType DEF Subscribing
<1>2. CASE kinds # {} /\ n # None
    <2>1. k \in Kind
        BY DEF Kind
    <2>2. /\ On("subscribing", n) \in TaskState /\ On("subscribing", n).pc = "subscribing"
          /\ On("subscribing", n).on = n
        BY OnType DEF Pc
    <2> HIDE DEF k
    <2>3. x \in TaskState /\ x.pc = "subscribing" /\ x.on = n /\ x.kind = k
        BY <2>1, <2>2 DEF TaskState
    <2>4. Subscribing(t, kinds, n) = x
        BY <1>2 DEF Subscribing, k
    <2> HIDE DEF x
    <2> QED
        BY <1>2, <2>1, <2>3, <2>4 DEF Formed
<1> QED
    BY <1>1, <1>2

----------------------------------------------------------------------------
\* What the step of one task does to the others.

\* t goes on at x.
Moves(t, x) ==
    /\ x \in TaskState /\ Formed(x)
    /\ task' = [task EXCEPT ![t] = x]

LEMMA MovesEffect ==
    ASSUME Inv, NEW t \in Task, NEW x, Moves(t, x)
    PROVE  /\ task' \in [Task -> TaskState] /\ AllFormed'
           /\ task'[t] = x /\ \A u \in Task \ {t} : task'[u] = task[u]
  BY DEF Inv, TypeOK, AllFormed, Moves

\* Whoever lived still lives, if the task that moves is not done.
LEMMA WatchKept ==
    ASSUME Inv, NEW t \in Task,
           \A u \in Monitor \ {t} : task[u].pc # "unborn" => task'[u] = task[u],
           \A u \in Monitor \ {t} : u \in cancelled' => u \in cancelled,
           t \in Monitor => ~ Done(t)' /\ t \notin cancelled',
           task'[Main].pc \in {"subscribing", "running"} =>
               task[Main].pc \in {"subscribing", "running"}
    PROVE  Watched'
<1> SUFFICES ASSUME task'[Main].pc \in {"subscribing", "running"}
             PROVE  \E m \in Monitor : Lives(m)'
    BY DEF Watched
<1>1. PICK m \in Monitor : Lives(m)
    BY DEF Inv, Watched
<1>2. CASE m = t
    BY <1>2 DEF Lives
<1>3. CASE m # t
    <2>1. task'[m] = task[m]
        BY <1>1, <1>3 DEF Lives, Done
    <2> QED
        BY <1>1, <1>3, <2>1 DEF Lives, Done
<1> QED
    BY <1>2, <1>3

\* Before Main has connected, only Main can move.
LEMMA BeforeConnectKept ==
    ASSUME Inv, NEW t \in Task, task[t].pc # "unborn",
           t # Main => task'[Main] = task[Main],
           t = Main => task'[Main].pc # "connecting"
    PROVE  BeforeConnect'
<1>1. CASE t = Main
    BY <1>1 DEF BeforeConnect
<1>2. CASE t # Main
    BY <1>2, Numbers DEF Inv, BeforeConnect
<1> QED
    BY <1>1, <1>2

\* Without a failure no monitor does more than end.
LEMMA MonitorsRest ==
    ASSUME Inv, failures = 0, NEW m \in Monitor,
           task[m].pc \in {"joining", "draining", "closing", "connecting", "subscribing"}
    PROVE  FALSE
  BY DEF Inv, Undisturbed

LEMMA FailuresType ==
    ASSUME Inv
    PROVE  /\ failures \in Nat /\ failures + 1 # 0
           /\ failures < MaxFailures => failures + 1 \in 0..MaxFailures
  BY DEF Inv, TypeOK

----------------------------------------------------------------------------
\* close().

LEMMA DisconnectEffect ==
    ASSUME Inv, NEW t \in Task, Disconnect(t)
    PROVE  /\ \E x : /\ Moves(t, x)
                     /\ x.pc \in {"draining", "closing", IF t = Main THEN "done" ELSE "connecting"}
           /\ conn' \in [Connection ->
                            {"unused", "live", "draining", "reconnecting", "closed"}]
           /\ nc' \in Connection \cup {None}
           /\ subs' \in SUBSET (Kind \X Connection)
<1> USE DEF Inv, TypeOK
<1>1. subs' \in SUBSET (Kind \X Connection)
    BY DEF Disconnect
<1>2. CASE nc # None /\ conn[nc] = "live"
    <2>1. /\ conn' = [conn EXCEPT ![nc] = "draining"] /\ nc' = nc
          /\ task' = [task EXCEPT ![t] = On("draining", nc)]
        BY <1>2 DEF Disconnect
    <2>2. nc \in Connection
        BY <1>2
    <2>3. On("draining", nc) \in TaskState /\ Formed(On("draining", nc)) /\ On("draining", nc).pc = "draining"
        BY <2>2, OnType DEF Formed, Pc
    <2> QED
        BY <1>1, <2>1, <2>2, <2>3 DEF Moves
<1>3. CASE nc # None /\ conn[nc] = "draining"
    <2>1. /\ task' = [task EXCEPT ![t] = On("closing", nc)] /\ UNCHANGED <<conn, nc>>
        BY <1>3 DEF Disconnect
    <2>2. nc \in Connection
        BY <1>3
    <2>3. On("closing", nc) \in TaskState /\ Formed(On("closing", nc)) /\ On("closing", nc).pc = "closing"
        BY <2>2, OnType DEF Formed, Pc
    <2> QED
        BY <1>1, <2>1, <2>2, <2>3 DEF Moves
<1>4. CASE ~(nc # None /\ conn[nc] \in {"live", "draining"})
    <2>1. task' = [task EXCEPT ![t] = AfterClose(t)] /\ nc' = None /\ conn' = conn
        BY <1>4 DEF Disconnect
    <2> QED
        BY <1>1, <2>1, AfterCloseType DEF Moves
<1> QED
    BY <1>2, <1>3, <1>4

\* The agent stops and nothing has failed: what is connected is drained.
LEMMA CleanDisconnect ==
    ASSUME Inv, Undisturbed, Disconnect(Main), IsConnected,
           \A m \in Monitor : task[m].pc # "sleeping"
    PROVE  Undisturbed'
<1> USE DEF Inv, TypeOK
<1>1. nc \in Connection /\ conn[nc] = "live"
    BY DEF IsConnected
<1>2. /\ conn' = [conn EXCEPT ![nc] = "draining"] /\ nc' = nc /\ subs' = {}
      /\ task' = [task EXCEPT ![Main] = On("draining", nc)]
    BY <1>1, Numbers DEF Disconnect
<1>3. On("draining", nc).pc = "draining" /\ On("draining", nc).on = nc
    BY <1>1, OnType DEF Pc
<1>4. /\ task'[Main].pc = "draining" /\ task'[Main].on = nc
      /\ \A m \in Monitor : task'[m] = task[m]
    BY <1>2, <1>3, Numbers
<1>5. \A m \in Monitor : task[m].pc \in {"unborn", "done"}
    BY DEF Undisturbed
<1>6. conn'[nc] = "draining" /\ \A c \in Connection \ {nc} : conn'[c] = conn[c]
    BY <1>1, <1>2
<1>7. \A c \in Connection : conn'[c] # "reconnecting" /\ (conn'[c] = "live" => c = nc')
    BY <1>2, <1>6 DEF Undisturbed
<1> QED
    BY <1>2, <1>4, <1>5, <1>6, <1>7 DEF Undisturbed, Done

\* What a task finds when it resumes in close().
LEMMA JoinKeepsInv ==
    ASSUME Inv, NEW t \in Task, Join(t)
    PROVE  Inv'
<1>1. /\ task[t].pc = "joining"
      /\ t \in cancelled \/ Done(task[t].on)
      /\ cancelled' = cancelled \ {t} /\ ref' = None /\ Disconnect(t)
      /\ UNCHANGED <<handlers, failures>>
    BY DEF Join
<1>2. PICK x : /\ Moves(t, x)
               /\ x.pc \in {"draining", "closing", IF t = Main THEN "done" ELSE "connecting"}
    BY <1>1, DisconnectEffect
<1>3. /\ task' \in [Task -> TaskState] /\ AllFormed'
      /\ task'[t] = x /\ \A u \in Task \ {t} : task'[u] = task[u]
    BY <1>2, MovesEffect
<1>4. TypeOK'
    BY <1>1, <1>3, DisconnectEffect DEF Inv, TypeOK
<1>5. BeforeConnect'
    BY <1>1, <1>2, <1>3, Numbers, BeforeConnectKept
<1>6. Watched'
    <2>1. t \in Monitor => ~ Done(t)'
        BY <1>2, <1>3, Numbers DEF Done
    <2>2. task'[Main].pc \in {"subscribing", "running"} => task[Main].pc \in {"subscribing", "running"}
        BY <1>2, <1>3, Numbers
    <2> QED
        BY <1>1, <1>3, <2>1, <2>2, Numbers, WatchKept
<1>7. ASSUME failures' = 0 PROVE Undisturbed'
    <2>1. failures = 0 /\ Undisturbed
        BY <1>1, <1>7 DEF Inv
    <2>2. t = Main
        BY <1>1, <2>1, MonitorsRest, Numbers
    <2>3. Done(ref) /\ IsConnected
        BY <1>1, <2>1, <2>2, Numbers DEF Inv, TypeOK, Undisturbed
    <2>4. \A m \in Monitor : task[m].pc # "sleeping"
        BY <2>1, <2>3 DEF Undisturbed, Done
    <2> QED
        BY <1>1, <2>1, <2>2, <2>3, <2>4, CleanDisconnect
<1> QED
    BY <1>3, <1>4, <1>5, <1>6, <1>7 DEF Inv

\* The same for the other steps that move one task, and do not end a monitor.
LEMMA StepKeepsWatch ==
    ASSUME Inv, NEW t \in Task, t \notin cancelled, UNCHANGED cancelled,
           task[t].pc # "unborn", NEW x, Moves(t, x),
           t # Main => x.pc \notin {"unborn", "done"},
           t = Main => x.pc # "connecting",
           t = Main /\ x.pc \in {"subscribing", "running"} => task[t].pc \in {"subscribing", "running"}
    PROVE  AllFormed' /\ BeforeConnect' /\ Watched'
<1>1. /\ task' \in [Task -> TaskState] /\ AllFormed'
      /\ task'[t] = x /\ \A u \in Task \ {t} : task'[u] = task[u]
    BY MovesEffect
<1>2. BeforeConnect'
    BY <1>1, Numbers, BeforeConnectKept
<1>3. Watched'
    <2>1. t \in Monitor => ~ Done(t)' /\ t \notin cancelled'
        BY <1>1, Numbers DEF Done
    <2>2. task'[Main].pc \in {"subscribing", "running"} => task[Main].pc \in {"subscribing", "running"}
        BY <1>1, Numbers
    <2> QED
        BY <1>1, <2>1, <2>2, Numbers, WatchKept
<1> QED
    BY <1>1, <1>2, <1>3

LEMMA DrainedKeepsInv ==
    ASSUME Inv, NEW t \in Task, Drained(t)
    PROVE  Inv'
<1> DEFINE c == task[t].on
<1>1. /\ task[t].pc = "draining" /\ t \notin cancelled
      /\ conn' = [conn EXCEPT ![c] = "closed"]
      /\ UNCHANGED <<subs, handlers, ref, cancelled, failures>>
    BY DEF Drained
<1>2. c \in Connection
    BY <1>1 DEF Inv, AllFormed, Formed
<1>3. conn' \in [Connection -> {"unused", "live", "draining", "reconnecting", "closed"}]
    BY <1>1 DEF Inv, TypeOK
<1>4. PICK x : /\ Moves(t, x) /\ nc' \in Connection \cup {None}
               /\ x.pc \in {"closing", IF t = Main THEN "done" ELSE "connecting"}
    <2>1. CASE nc \in {None, c}
        BY <2>1, AfterCloseType DEF Drained, Moves
    <2>2. CASE nc \notin {None, c}
        <3>1. nc \in Connection /\ task' = [task EXCEPT ![t] = On("closing", nc)] /\ nc' = nc
            BY <2>2 DEF Drained, Inv, TypeOK
        <3>2. /\ On("closing", nc) \in TaskState /\ Formed(On("closing", nc))
              /\ On("closing", nc).pc = "closing"
            BY <3>1, OnType DEF Formed, Pc
        <3> QED
            BY <3>1, <3>2 DEF Moves
    <2> QED
        BY <2>1, <2>2
<1>5. /\ task' \in [Task -> TaskState]
      /\ task'[t] = x /\ \A u \in Task \ {t} : task'[u] = task[u]
    BY <1>4, MovesEffect
<1>6. TypeOK'
    BY <1>1, <1>3, <1>4, <1>5 DEF Inv, TypeOK
<1>7. AllFormed' /\ BeforeConnect' /\ Watched'
    BY <1>1, <1>4, StepKeepsWatch
<1>8. ASSUME failures' = 0 PROVE Undisturbed'
    <2>1. failures = 0 /\ Undisturbed
        BY <1>1, <1>8 DEF Inv
    <2>2. t = Main
        BY <1>1, <2>1, MonitorsRest, Numbers
    <2>3. nc = c /\ subs = {} /\ \A m \in Monitor : Done(m)
        BY <1>1, <2>1, <2>2 DEF Undisturbed
    <2>4. nc' = None /\ task' = [task EXCEPT ![Main] = AfterClose(Main)]
        BY <2>2, <2>3 DEF Drained
    <2>5. task'[Main].pc = "done" /\ \A m \in Monitor : task'[m] = task[m]
        BY <2>4, AfterCloseType, Numbers DEF Inv, TypeOK
    <2>6. \A d \in Connection : conn'[d] \notin {"reconnecting", "live"}
        BY <1>1, <1>2, <2>1, <2>3 DEF Undisturbed, Inv, TypeOK
    <2> QED
        BY <1>1, <2>1, <2>3, <2>4, <2>5, <2>6 DEF Undisturbed, Done
<1> QED
    BY <1>6, <1>7, <1>8 DEF Inv

LEMMA ClosedKeepsInv ==
    ASSUME Inv, NEW t \in Task, Closed(t)
    PROVE  Inv'
<1>1. /\ task[t].pc = "closing" /\ t \notin cancelled /\ nc' = None
      /\ conn' = [conn EXCEPT ![task[t].on] = "closed"]
      /\ task' = [task EXCEPT ![t] = AfterClose(t)]
      /\ UNCHANGED <<subs, handlers, ref, cancelled, failures>>
    BY DEF Closed
<1>2. Moves(t, AfterClose(t)) /\ AfterClose(t).pc = IF t = Main THEN "done" ELSE "connecting"
    BY <1>1, AfterCloseType DEF Moves
<1>3. task' \in [Task -> TaskState]
    BY <1>2, MovesEffect
<1>4. conn' \in [Connection -> {"unused", "live", "draining", "reconnecting", "closed"}]
    BY <1>1 DEF Inv, TypeOK
<1>5. TypeOK'
    BY <1>1, <1>3, <1>4 DEF Inv, TypeOK
<1>6. AllFormed' /\ BeforeConnect' /\ Watched'
    BY <1>1, <1>2, StepKeepsWatch
<1>7. failures' # 0
    <2>1. SUFFICES ASSUME failures = 0 PROVE FALSE
        BY <1>1
    <2>2. t = Main
        BY <1>1, <2>1, MonitorsRest, Numbers
    <2> QED
        BY <1>1, <2>1, <2>2 DEF Inv, Undisturbed
<1> QED
    BY <1>5, <1>6, <1>7 DEF Inv

----------------------------------------------------------------------------
\* connect() and the subscriptions.

LEMMA ConnectFailsKeepsInv ==
    ASSUME Inv, NEW t \in Task, ConnectFails(t)
    PROVE  Inv'
<1> DEFINE x == IF task[t].tries < Attempts THEN Connecting(task[t].tries + 1) ELSE Fail(t)
<1>1. /\ task[t].pc = "connecting" /\ t \notin cancelled
      /\ failures < MaxFailures /\ failures' = failures + 1 /\ nc' = None
      /\ UNCHANGED <<conn, subs, handlers, ref, cancelled>>
    BY DEF ConnectFails
<1>2. task' = [task EXCEPT ![t] = x]
    BY DEF ConnectFails
<1>3. x \in TaskState /\ Formed(x) /\ x.pc \in {"connecting", Fail(t).pc}
    <2>1. task[t].tries \in 0..Attempts
        BY DEF Inv, TypeOK, TaskState
    <2>2. CASE task[t].tries < Attempts
        <3>1. task[t].tries + 1 \in 0..Attempts
            BY <2>1, <2>2
        <3>2. x = Connecting(task[t].tries + 1)
            BY <2>2
        <3> QED
            BY <3>1, <3>2, ConnectingType DEF Formed
    <2>3. CASE ~(task[t].tries < Attempts)
        BY <2>3, RestType
    <2> QED
        BY <2>2, <2>3
<1> HIDE DEF x
<1>4. Fail(t).pc = IF t = Main THEN "done" ELSE "sleeping"
    BY RestType
<1>5. /\ task' \in [Task -> TaskState] /\ AllFormed'
      /\ task'[t] = x /\ \A u \in Task \ {t} : task'[u] = task[u]
    BY <1>2, <1>3, MovesEffect DEF Moves
<1>6. failures' \in 0..MaxFailures /\ failures' # 0
    BY <1>1, FailuresType
<1>7. TypeOK'
    BY <1>1, <1>5, <1>6 DEF Inv, TypeOK
<1>8. BeforeConnect'
    <2>1. CASE t = Main
        BY <1>1, <1>5, <2>1, Numbers DEF Inv, BeforeConnect
    <2>2. CASE t # Main
        BY <1>1, <1>5, <2>2, Numbers, BeforeConnectKept
    <2> QED
        BY <2>1, <2>2
<1>9. Watched'
    <2>1. t \in Monitor => ~ Done(t)' /\ t \notin cancelled'
        BY <1>1, <1>3, <1>4, <1>5, Numbers DEF Done
    <2>2. task'[Main].pc \in {"subscribing", "running"} => task[Main].pc \in {"subscribing", "running"}
        BY <1>3, <1>4, <1>5, Numbers
    <2> QED
        BY <1>1, <1>5, <2>1, <2>2, Numbers, WatchKept
<1> QED
    BY <1>5, <1>6, <1>7, <1>8, <1>9 DEF Inv

LEMMA WantedType ==
    ASSUME Inv, NEW t, NEW kinds \in SUBSET Kind, NEW n
    PROVE  Wanted(t, kinds) \in SUBSET Kind /\ Known(t, kinds, n) \in SUBSET Kind
  BY DEF Wanted, Known, Inv, TypeOK, Kind

\* A connection is set up, and a monitor is started unless one is running.
LEMMA ConnectKeepsInv ==
    ASSUME Inv, NEW t \in Task, Connect(t)
    PROVE  Inv'
<1>1. PICK c \in Connection : Unused(c) /\ Connected(t, c) /\ handlers' = Known(t, Kind, c)
    BY DEF Connect
<1>2. /\ task[t].pc = "connecting" /\ t \notin cancelled
      /\ UNCHANGED <<subs, cancelled, failures>>
    BY DEF Connect
<1> DEFINE x == Subscribing(t, Wanted(t, Kind), c)
<1>3. /\ x \in TaskState /\ Formed(x)
      /\ x.pc \in {"subscribing", IF t = Main THEN "running" ELSE "sleeping"}
      /\ x.pc = "subscribing" => x.on = c
    BY <1>1, WantedType, SubscribingType
<1>4. /\ conn' = [conn EXCEPT ![c] = "live"] /\ nc' = c
      /\ handlers' \in SUBSET Kind
      /\ conn' \in [Connection -> {"unused", "live", "draining", "reconnecting", "closed"}]
    BY <1>1, WantedType DEF Connected, Inv, TypeOK
<1>5. CASE ref # None /\ ~ Done(ref)
    <2>1. task' = [task EXCEPT ![t] = x] /\ ref' = ref
        BY <1>1, <1>5 DEF Connected
    <2>2. t # Main
        BY <1>2, <1>5 DEF Inv, BeforeConnect
    <2> HIDE DEF x
    <2>3. Moves(t, x) /\ x.pc \notin {"unborn", "done"}
        BY <1>3, <2>1, <2>2 DEF Moves
    <2>4. AllFormed' /\ BeforeConnect' /\ Watched'
        BY <1>2, <2>2, <2>3, StepKeepsWatch
    <2>5. task' \in [Task -> TaskState]
        BY <2>3, MovesEffect
    <2>6. TypeOK'
        BY <1>1, <1>2, <1>4, <2>1, <2>5 DEF Inv, TypeOK
    <2>7. failures' # 0
        BY <1>2, <2>2, MonitorsRest, Numbers
    <2> QED
        BY <2>4, <2>6, <2>7 DEF Inv
<1>6. CASE ~(ref # None /\ ~ Done(ref))
    <2>1. PICK m \in Monitor :
              /\ Unborn(m) /\ ref' = m
              /\ task' = [task EXCEPT ![m] = At("sleeping"), ![t] = x]
        BY <1>1, <1>6 DEF Connected
    <2> HIDE DEF x
    <2>2. /\ At("sleeping") \in TaskState /\ Formed(At("sleeping"))
          /\ At("sleeping").pc = "sleeping"
        BY AtType DEF Formed, Pc
    <2>3. m # t /\ m \in Task /\ task[m].pc = "unborn"
        BY <1>2, <2>1, Numbers DEF Unborn
    <2>4. /\ task' \in [Task -> TaskState]
          /\ task'[t] = x /\ task'[m] = At("sleeping")
          /\ \A u \in Task \ {m, t} : task'[u] = task[u]
        BY <1>3, <2>1, <2>2, <2>3 DEF Inv, TypeOK
    <2>5. TypeOK'
        BY <1>1, <1>2, <1>4, <2>1, <2>4 DEF Inv, TypeOK
    <2>6. AllFormed'
        BY <1>3, <2>2, <2>4 DEF Inv, AllFormed
    <2>7. BeforeConnect'
        BY <1>2, <1>3, <2>3, <2>4, <2>1, Numbers, BeforeConnectKept
    <2>8. Watched'
        <3>1. CASE t = Main
            <4>1. m \notin cancelled'
                BY <1>2, <3>1 DEF Inv, BeforeConnect
            <4>2. ~ Done(m)'
                BY <2>2, <2>4 DEF Done
            <4> QED
                BY <4>1, <4>2 DEF Watched, Lives
        <3>2. CASE t # Main
            <4>1. ~ Done(t)' /\ t \notin cancelled'
                BY <1>2, <1>3, <2>4, <3>2 DEF Done
            <4>2. task'[Main] = task[Main]
                BY <2>1, <2>4, <3>2, Numbers
            <4>3. \A u \in Monitor \ {t} : task[u].pc # "unborn" => task'[u] = task[u]
                BY <2>3, <2>4, Numbers
            <4> QED
                BY <1>2, <4>1, <4>2, <4>3, WatchKept
        <3> QED
            BY <3>1, <3>2
    <2>9. ASSUME failures' = 0 PROVE Undisturbed'
        <3>1. failures = 0 /\ Undisturbed
            BY <1>2, <2>9 DEF Inv
        <3>2. t = Main
            BY <1>2, <3>1, MonitorsRest, Numbers
        <3>3. nc = None /\ subs = {} /\ \A u \in Monitor : task[u].pc = "unborn"
            BY <1>2, <3>1, <3>2 DEF Undisturbed, Inv, BeforeConnect
        <3>4. \A u \in Monitor \ {m} : task'[u].pc = "unborn"
            BY <2>4, <3>2, <3>3, Numbers
        <3>5. task'[m].pc = "sleeping"
            BY <2>2, <2>4
        <3>6. conn'[c] = "live" /\ \A d \in Connection \ {c} : conn'[d] = conn[d]
            BY <1>1, <1>4 DEF Inv, TypeOK
        <3>7. \A d \in Connection : conn'[d] # "reconnecting" /\ (conn'[d] = "live" => d = nc')
            BY <1>4, <3>1, <3>3, <3>6, Numbers DEF Undisturbed
        <3>8. /\ task'[Main].pc \in {"subscribing", "running"}
              /\ task'[Main].pc = "subscribing" => task'[Main].on = c
            BY <1>3, <2>4, <3>2
        <3>9. IsConnected'
            BY <1>1, <1>4, <3>6, Numbers DEF IsConnected
        <3> QED
            BY <1>4, <2>1, <3>4, <3>5, <3>7, <3>8, <3>9 DEF Undisturbed
    <2> QED
        BY <2>5, <2>6, <2>7, <2>8, <2>9 DEF Inv
<1> QED
    BY <1>5, <1>6

LEMMA SubscribeKeepsInv ==
    ASSUME Inv, NEW t \in Task, Subscribe(t)
    PROVE  Inv'
<1> DEFINE k == task[t].kind
           c == task[t].on
           more == {"direct"} \ {k}
           x == Subscribing(t, Wanted(t, more), nc)
<1>1. /\ task[t].pc = "subscribing" /\ t \notin cancelled
      /\ subs' = subs \cup {<<k, c>>}
      /\ task' = [task EXCEPT ![t] = x] /\ handlers' = Known(t, more, nc)
      /\ UNCHANGED <<conn, nc, ref, cancelled, failures>>
    BY DEF Subscribe
<1>2. k \in Kind /\ c \in Connection
    BY <1>1 DEF Inv, AllFormed, Formed
<1>3. more \in SUBSET Kind /\ nc \in Connection \cup {None}
    BY DEF Kind, Inv, TypeOK
<1>4. /\ x \in TaskState /\ Formed(x)
      /\ x.pc \in {"subscribing", IF t = Main THEN "running" ELSE "sleeping"}
      /\ x.pc = "subscribing" => x.on = nc
      /\ handlers' \in SUBSET Kind
    <2> HIDE DEF more
    <2> QED
        BY <1>1, <1>3, WantedType, SubscribingType
<1> HIDE DEF x
<1>5. Moves(t, x) /\ task' \in [Task -> TaskState] /\ task'[t] = x
    BY <1>1, <1>4, MovesEffect DEF Moves
<1>6. AllFormed' /\ BeforeConnect' /\ Watched'
    BY <1>1, <1>4, <1>5, StepKeepsWatch
<1>7. TypeOK'
    <2>1. subs' \in SUBSET (Kind \X Connection)
        <3> HIDE DEF k, c
        <3> QED
            BY <1>1, <1>2 DEF Inv, TypeOK
    <2> QED
        BY <1>1, <1>4, <1>5, <2>1 DEF Inv, TypeOK
<1>8. ASSUME failures' = 0 PROVE Undisturbed'
    <2>1. failures = 0 /\ Undisturbed
        BY <1>1, <1>8 DEF Inv
    <2>2. t = Main
        BY <1>1, <2>1, MonitorsRest, Numbers
    <2>3. /\ \A m \in Monitor : task'[m] = task[m]
          /\ task'[Main].pc \in {"subscribing", "running"}
          /\ task'[Main].pc = "subscribing" => task'[Main].on = nc
        BY <1>1, <1>4, <1>5, <2>2, Numbers DEF Inv, TypeOK
    <2>4. IsConnected'
        BY <1>1, <2>1, <2>2 DEF Undisturbed, IsConnected
    <2> QED
        BY <1>1, <2>1, <2>3, <2>4 DEF Undisturbed
<1> QED
    BY <1>6, <1>7, <1>8 DEF Inv

LEMMA SubscribeFailsKeepsInv ==
    ASSUME Inv, NEW t \in Task, SubscribeFails(t)
    PROVE  Inv'
<1>1. /\ task[t].pc = "subscribing" /\ t \notin cancelled
      /\ IF conn[task[t].on] # "live" \/ Bound(task[t].kind, task[t].on)
         THEN UNCHANGED failures
         ELSE failures < MaxFailures /\ failures' = failures + 1
      /\ task' = [task EXCEPT ![t] = Fail(t)]
      /\ UNCHANGED <<conn, nc, subs, handlers, ref, cancelled>>
    BY DEF SubscribeFails
<1>2. Moves(t, Fail(t)) /\ Fail(t).pc = IF t = Main THEN "done" ELSE "sleeping"
    BY <1>1, RestType DEF Moves
<1>3. AllFormed' /\ BeforeConnect' /\ Watched'
    BY <1>1, <1>2, StepKeepsWatch
<1>4. failures' \in 0..MaxFailures
    BY <1>1, FailuresType DEF Inv, TypeOK
<1>5. TypeOK'
    <2>1. task' \in [Task -> TaskState]
        BY <1>2, MovesEffect
    <2> QED
        BY <1>1, <1>4, <2>1 DEF Inv, TypeOK
<1>6. failures' # 0
    <2>1. SUFFICES ASSUME failures' = 0 PROVE FALSE
        OBVIOUS
    <2>2. /\ UNCHANGED failures /\ failures = 0
          /\ conn[task[t].on] # "live" \/ Bound(task[t].kind, task[t].on)
        BY <1>1, <2>1, FailuresType
    <2>3. t = Main
        BY <1>1, <2>2, MonitorsRest, Numbers
    <2>4. task[t].on = nc /\ IsConnected /\ Live \subseteq {nc}
        BY <1>1, <2>2, <2>3 DEF Inv, Undisturbed, Live
    <2> QED
        BY <2>2, <2>4 DEF IsConnected, Bound
<1> QED
    BY <1>3, <1>5, <1>6 DEF Inv

----------------------------------------------------------------------------
\* The monitor, and the end of the agent.

\* close() cancels a monitor that runs, or disconnects at once.  Whoever closes
\* the bus may be cancelled as well, but does not end of it.
LEMMA CloseKeepsInv ==
    ASSUME Inv, NEW t \in Task, Close(t), t \notin cancelled,
           task[t].pc \in {"sleeping", "running"},
           t = Main <=> task[t].pc = "running",
           failures = 0 => t = Main,
           UNCHANGED <<handlers, failures>>
    PROVE  Inv'
<1>1. CASE ref # None /\ ~ Done(ref)
    <2> DEFINE x == On("joining", ref)
    <2>1. /\ cancelled' = cancelled \cup {ref} /\ ref \in Monitor
          /\ task' = [task EXCEPT ![t] = x]
          /\ UNCHANGED <<conn, nc, subs, ref>>
        BY <1>1 DEF Close, Inv, TypeOK
    <2>2. x \in TaskState /\ Formed(x) /\ x.pc = "joining" /\ x.on = ref
        BY <2>1, OnType, Numbers DEF Formed, Pc
    <2> HIDE DEF x
    <2>3. /\ task' \in [Task -> TaskState] /\ AllFormed'
          /\ task'[t] = x /\ \A u \in Task \ {t} : task'[u] = task[u]
        BY <2>1, <2>2, MovesEffect DEF Moves
    <2>4. TypeOK'
        BY <2>1, <2>3 DEF Inv, TypeOK
    <2>5. BeforeConnect'
        BY <2>2, <2>3, Numbers, BeforeConnectKept
    <2>6. Watched'
        <3>1. CASE t = Main
            BY <2>2, <2>3, <3>1 DEF Watched
        <3>2. CASE t # Main
            <4>1. t \in Monitor /\ Lives(t)'
                BY <2>2, <2>3, <3>2, Numbers DEF Lives, Done
            <4> QED
                BY <4>1 DEF Watched
        <3> QED
            BY <3>1, <3>2
    <2>7. ASSUME failures' = 0 PROVE Undisturbed'
        <3>1. Undisturbed /\ t = Main
            BY <2>7 DEF Inv
        <3>2. \A m \in Monitor : task'[m] = task[m]
            BY <2>3, <3>1, Numbers
        <3>3. IsConnected'
            BY <2>1, <3>1 DEF Undisturbed, IsConnected
        <3> QED
            BY <2>1, <2>2, <2>3, <3>1, <3>2, <3>3 DEF Undisturbed
    <2> QED
        BY <2>3, <2>4, <2>5, <2>6, <2>7 DEF Inv
<1>2. CASE ~(ref # None /\ ~ Done(ref))
    <2>1. Disconnect(t) /\ UNCHANGED <<ref, cancelled>>
        BY <1>2 DEF Close
    <2>2. PICK x : /\ Moves(t, x)
                   /\ x.pc \in {"draining", "closing", IF t = Main THEN "done" ELSE "connecting"}
        BY <2>1, DisconnectEffect
    <2>3. task' \in [Task -> TaskState]
        BY <2>2, MovesEffect
    <2>4. TypeOK'
        BY <2>1, <2>3, DisconnectEffect DEF Inv, TypeOK
    <2>5. AllFormed' /\ BeforeConnect' /\ Watched'
        BY <2>1, <2>2, StepKeepsWatch
    <2>6. ASSUME failures' = 0 PROVE Undisturbed'
        <3>1. Undisturbed /\ t = Main
            BY <2>6 DEF Inv
        <3>2. IsConnected
            BY <3>1 DEF Undisturbed
        <3>3. \A m \in Monitor : task[m].pc # "sleeping"
            BY <1>2, <3>1, Numbers DEF Undisturbed, Done
        <3> QED
            BY <2>1, <3>1, <3>2, <3>3, CleanDisconnect
    <2> QED
        BY <2>4, <2>5, <2>6 DEF Inv
<1> QED
    BY <1>1, <1>2

\* Without a failure no monitor finds the bus disconnected while it sleeps.
LEMMA WakeKeepsInv ==
    ASSUME Inv, NEW m \in Monitor, Wake(m)
    PROVE  Inv'
<1>1. /\ task[m].pc = "sleeping" /\ m \notin cancelled /\ ~ IsConnected
      /\ Close(m) /\ UNCHANGED <<handlers, failures>>
    BY DEF Wake
<1>2. failures # 0
    <2>1. SUFFICES ASSUME Undisturbed PROVE FALSE
        BY DEF Inv
    <2>2. task[Main].pc # "connecting"
        BY <1>1 DEF Inv, BeforeConnect
    <2>3. task[Main].pc \notin {"subscribing", "running", "joining"}
        BY <1>1, <2>1 DEF Undisturbed
    <2>4. task[Main].pc \notin {"draining", "done", "closing"}
        BY <1>1, <2>1 DEF Undisturbed, Done
    <2>5. task[Main].pc \notin {"unborn", "sleeping"}
        BY <2>1 DEF Undisturbed
    <2> QED
        BY <2>2, <2>3, <2>4, <2>5, Numbers DEF Inv, TypeOK, TaskState
<1> QED
    BY <1>1, <1>2, Numbers, CloseKeepsInv

\* A monitor that ends because it was cancelled was not counted on.
LEMMA CancelledKeepsInv ==
    ASSUME Inv, NEW m \in Monitor, Cancelled(m)
    PROVE  Inv'
<1>1. /\ m \in cancelled /\ task[m].pc # "joining"
      /\ task' = [task EXCEPT ![m] = At("done")] /\ cancelled' = cancelled \ {m}
      /\ UNCHANGED <<conn, nc, subs, handlers, ref, failures>>
    BY DEF Cancelled
<1>2. Moves(m, At("done")) /\ At("done").pc = "done" /\ m \in Task /\ m # Main
    BY <1>1, AtType, Numbers DEF Formed, Pc, Moves
<1>3. /\ task' \in [Task -> TaskState] /\ AllFormed'
      /\ task'[m] = At("done") /\ \A u \in Task \ {m} : task'[u] = task[u]
    BY <1>2, MovesEffect
<1>4. TypeOK'
    BY <1>1, <1>3 DEF Inv, TypeOK
<1>5. task'[Main] = task[Main]
    BY <1>2, <1>3, Numbers
<1>6. BeforeConnect'
    BY <1>1, <1>5 DEF Inv, BeforeConnect
<1>7. Watched'
    <2>1. \A n \in Monitor : Lives(n) => n # m /\ Lives(n)'
        BY <1>1, <1>3, Numbers DEF Lives, Done
    <2> QED
        BY <1>5, <2>1 DEF Inv, Watched
<1>8. ASSUME failures' = 0 PROVE Undisturbed'
    <2>1. Undisturbed
        BY <1>1, <1>8 DEF Inv
    <2>2. \A n \in Monitor : task'[n] = task[n] \/ task'[n].pc = "done"
        BY <1>2, <1>3, Numbers
    <2>3. IsConnected' <=> IsConnected
        BY <1>1 DEF IsConnected
    <2>4. \A n \in Monitor : /\ task'[n].pc \in {"unborn", "sleeping", "done"}
                             /\ task'[n].pc = "sleeping" => n = ref
                             /\ Done(n) => Done(n)'
        BY <2>1, <2>2 DEF Undisturbed, Done
    <2> QED
        BY <1>1, <1>5, <2>1, <2>3, <2>4 DEF Undisturbed
<1> QED
    BY <1>3, <1>4, <1>6, <1>7, <1>8 DEF Inv

LEMMA ShutdownKeepsInv ==
    ASSUME Inv, Shutdown
    PROVE  Inv'
<1>1. task[Main].pc = "running" /\ Close(Main) /\ UNCHANGED <<handlers, failures>>
    BY DEF Shutdown
<1>2. Main \notin cancelled
    BY Numbers DEF Inv, TypeOK
<1> QED
    BY <1>1, <1>2, Numbers, CloseKeepsInv

----------------------------------------------------------------------------
\* nats-py and the network.

\* The network touches no task; without a failure there is nothing to repair.
LEMMA NetworkKeepsInv ==
    ASSUME Inv, NEW c \in Connection, Drop(c) \/ Recover(c) \/ GiveUp(c)
    PROVE  Inv'
<1>1. UNCHANGED <<nc, subs, handlers, ref, task, cancelled>>
    BY DEF Drop, Recover, GiveUp
<1>2. conn' \in [Connection -> {"unused", "live", "draining", "reconnecting", "closed"}]
    BY DEF Drop, Recover, GiveUp, Inv, TypeOK
<1>3. failures' \in 0..MaxFailures
    BY FailuresType DEF Drop, Recover, GiveUp, Inv, TypeOK
<1>4. failures' # 0
    <2>1. CASE Drop(c)
        BY <2>1, FailuresType DEF Drop
    <2>2. CASE Recover(c) \/ GiveUp(c)
        BY <2>2 DEF Recover, GiveUp, Inv, Undisturbed
    <2> QED
        BY <2>1, <2>2
<1>5. TypeOK'
    BY <1>1, <1>2, <1>3 DEF Inv, TypeOK
<1>6. AllFormed' /\ BeforeConnect' /\ Watched'
    BY <1>1 DEF Inv, AllFormed, BeforeConnect, Watched, Lives, Done
<1> QED
    BY <1>4, <1>5, <1>6 DEF Inv

----------------------------------------------------------------------------
\* Main is about to connect, and there is nothing yet.
LEMMA InvInit == Init => Inv
<1> SUFFICES ASSUME Init PROVE Inv
    OBVIOUS
<1>1. /\ conn = [c \in Connection |-> "unused"] /\ nc = None /\ subs = {}
      /\ handlers = {} /\ ref = None /\ cancelled = {} /\ failures = 0
      /\ task = [t \in Task |-> IF t = Main THEN Connecting(1) ELSE At("unborn")]
    BY DEF Init
<1>2. 1 \in 0..Attempts
    OBVIOUS
<1>3. /\ Connecting(1) \in TaskState /\ Connecting(1).pc = "connecting"
      /\ At("unborn") \in TaskState /\ At("unborn").pc = "unborn"
    BY <1>2, ConnectingType, AtType DEF Pc
<1>4. /\ task \in [Task -> TaskState] /\ task[Main].pc = "connecting"
      /\ \A m \in Monitor : task[m].pc = "unborn"
      /\ \A t \in Task : task[t].pc \in {"connecting", "unborn"}
    BY <1>1, <1>3, Numbers
<1>5. failures \in 0..MaxFailures
    BY <1>1
<1>6. TypeOK
    BY <1>1, <1>4, <1>5 DEF TypeOK
<1>7. AllFormed /\ BeforeConnect /\ Watched
    BY <1>1, <1>4 DEF AllFormed, Formed, BeforeConnect, Watched
<1>8. Undisturbed
    BY <1>1, <1>4 DEF Undisturbed
<1> QED
    BY <1>6, <1>7, <1>8 DEF Inv

LEMMA NextKeepsInv == Inv /\ [Next]_vars => Inv'
<1> SUFFICES ASSUME Inv, [Next]_vars PROVE Inv'
    OBVIOUS
<1>1. ASSUME NEW t \in Task, Step(t) PROVE Inv'
    BY <1>1, JoinKeepsInv, DrainedKeepsInv, ClosedKeepsInv, ConnectKeepsInv,
       ConnectFailsKeepsInv, SubscribeKeepsInv, SubscribeFailsKeepsInv DEF Step
<1>2. ASSUME NEW m \in Monitor, Wake(m) \/ Cancelled(m) PROVE Inv'
    BY <1>2, WakeKeepsInv, CancelledKeepsInv
<1>3. ASSUME NEW c \in Connection, Drop(c) \/ Recover(c) \/ GiveUp(c) PROVE Inv'
    BY <1>3, NetworkKeepsInv
<1>4. CASE Shutdown
    BY <1>4, ShutdownKeepsInv
<1>5. CASE UNCHANGED vars
    <2>1. TypeOK' /\ AllFormed' /\ BeforeConnect'
        BY <1>5 DEF vars, Inv, TypeOK, AllFormed, BeforeConnect
    <2>2. Watched'
        BY <1>5 DEF vars, Inv, Watched, Lives, Done
    <2>3. failures' = 0 => Undisturbed'
        BY <1>5 DEF vars, Inv, Undisturbed, Done, IsConnected
    <2> QED
        BY <2>1, <2>2, <2>3 DEF Inv
<1> QED
    BY <1>1, <1>2, <1>3, <1>4, <1>5 DEF Next

\* The invariant holds in every reachable state.
LEMMA Invariance == Spec => []Inv
  BY InvInit, NextKeepsInv, PTL DEF Spec

\* The type invariant of the monitor holds; connect() makes no attempt too many.
THEOREM TypeCorrect == Spec => []TypeOK
  BY Invariance, PTL DEF Inv

\* A bus that is used is watched by a monitor, whichever of them close it at the
\* same time and cancel each other or themselves.
THEOREM SomeMonitorSurvives == Spec => []MonitorSurvives
<1>1. Inv => MonitorSurvives
    BY DEF Inv, Watched, MonitorSurvives
<1> QED
    BY <1>1, Invariance, PTL

\* When a bus that never failed is closed, no monitor, connection or
\* subscription is left.
THEOREM NothingIsLeft == Spec => []CleanShutdown
<1>1. Inv => CleanShutdown
    <2> SUFFICES ASSUME Undisturbed, task[Main].pc = "done"
                 PROVE  /\ \A m \in Monitor : Done(m)
                        /\ Live = {} /\ subs = {} /\ nc = None
        BY DEF Inv, CleanShutdown
    <2> QED
        BY Numbers DEF Undisturbed, Live
<1> QED
    BY <1>1, Invariance, PTL
=============================================================================

----------------------------- MODULE CouncilBus -----------------------------
(***************************************************************************)
(* Messages between agents: NatsBus (messaging/nats_bus.py) over one       *)
(* JetStream stream, and the handler PillywigginAgent gives it             *)
(* (_on_nats_message in agents/base.py).                                   *)
(*                                                                         *)
(* The stream and its consumers belong to the NATS server and are modelled *)
(* from how the bus configures them: an agent has one durable consumer for *)
(* its own subject and one for broadcasts, each of which delivers a        *)
(* message up to MaxDeliver times, again after a nak or when an            *)
(* acknowledgement is late, and no new one while MaxAckPending are pending.*)
(* A new process has new consumer names, and so receives the whole stream. *)
(* nats-py runs the callback of one subscription on one message at a time. *)
(*                                                                         *)
(* Messages are numbered by their place in the stream.                     *)
(***************************************************************************)
EXTENDS Integers, Sequences, FiniteSets

CONSTANTS
    Agent,
    Sender,        \* agents that send requests and broadcasts
    Everyone,      \* the subject council.broadcast; an agent is its own subject
    MaxDeliver,    \* DEFAULT_MAX_DELIVER
    MaxAckPending, \* DEFAULT_MAX_ACK_PENDING
    MaxSeen,       \* _max_seen_ids
    MaxStream,     \* bound of the model: messages ever published
    MaxSent,       \* bound: of which requests and broadcasts, not replies
    MaxFailures    \* bound: lost connections and ended processes

ASSUME CouncilBusAssumption ==
    /\ Sender \subseteq Agent
    /\ Everyone \notin Agent
    /\ MaxDeliver \in Nat \ {0}
    /\ MaxAckPending \in Nat \ {0}
    /\ MaxSeen \in Nat \ {0}
    /\ MaxStream \in Nat
    /\ MaxSent \in Nat
    /\ MaxFailures \in Nat

VARIABLES
    stream,     \* the JetStream stream
    consumer,   \* consumer[a][m]: how far a's consumer of m's subject is with m
    queue,      \* queue[a][s]: deliveries waiting in subscription s of a
    handling,   \* handling[a]: messages whose handler is running
    seen,       \* _seen_message_ids
    life,       \* number of processes agent a has run in
    failures,   \* lost connections and ended processes so far
    begun,      \* history variable: messages this process began to handle
    done        \* history variable: messages whose handler returned

vars == <<stream, consumer, queue, handling, seen, life, failures, begun, done>>

Index == 1..MaxStream
Life == 1..MaxFailures + 1
Subject == Agent \cup {Everyone}
Kind == {"message", "direct_reply", "notice"}

\* re and by say which request, in which life, a direct_reply answers.
Message == [kind : Kind, from : Agent, to : Subject,
            re : 0..MaxStream, by : 0..MaxFailures + 1]

\* ready: to be delivered; out: delivered and not settled; acked: settled.
Delivery == [n : 0..MaxDeliver, st : {"ready", "out", "acked"}]

Published == DOMAIN stream
Addressed(a, m) == m \in Published /\ stream[m].to \in {a, Everyone}

\* Faulty: without max_deliver, what nobody acknowledges is never given up.
PendingForever(a, m) ==
    \/ consumer[a][m].st = "out"
    \/ consumer[a][m].st = "ready" /\ consumer[a][m].n > 0

\* Delivered, and neither acknowledged nor given up.
Pending(a, m) ==
    \/ consumer[a][m].st = "out"
    \/ consumer[a][m].st = "ready" /\ consumer[a][m].n \in 1..MaxDeliver - 1

\* What counts against max_ack_pending of a's consumer of subject s.
Outstanding(a, s) == {m \in Published : stream[m].to = s /\ Pending(a, m)}

NewConsumer == [m \in Index |-> [n |-> 0, st |-> "ready"]]

Init ==
    /\ stream = <<>>
    /\ consumer = [a \in Agent |-> NewConsumer]
    /\ queue = [a \in Agent |-> [s \in Subject |-> <<>>]]
    /\ handling = [a \in Agent |-> {}]
    /\ seen = [a \in Agent |-> {}]
    /\ life = [a \in Agent |-> 1]
    /\ failures = 0
    /\ begun = [a \in Agent |-> {}]
    /\ done = [a \in Agent |-> {}]

----------------------------------------------------------------------------
\* Publishing.  A publish that fails is logged and forgotten.

\* The stream after a publish that the server may have refused.
Publish(msg) ==
    \/ /\ Len(stream) < MaxStream
       /\ stream' = Append(stream, msg)
    \/ UNCHANGED stream

Sent == {m \in Published : stream[m].kind # "direct_reply"}

\* The brain of agent a calls send_message_to_agent.
SendMessage(a, b) ==
    /\ Len(stream) < MaxStream /\ Cardinality(Sent) < MaxSent
    /\ stream' = Append(stream, [kind |-> "message", from |-> a, to |-> b,
                                 re |-> 0, by |-> 0])
    /\ UNCHANGED <<consumer, queue, handling, seen, life, failures, begun, done>>

\* An insight, a heartbeat or a published skill: a hears its own broadcasts.
Broadcast(a) ==
    /\ Len(stream) < MaxStream /\ Cardinality(Sent) < MaxSent
    /\ stream' = Append(stream, [kind |-> "notice", from |-> a, to |-> Everyone,
                                 re |-> 0, by |-> 0])
    /\ UNCHANGED <<consumer, queue, handling, seen, life, failures, begun, done>>

----------------------------------------------------------------------------
\* The server.

\* A consumer at its limit redelivers, but delivers nothing new.
Deliver(a, m) ==
    /\ Addressed(a, m)
    /\ consumer[a][m].st = "ready"
    /\ consumer[a][m].n < MaxDeliver
    /\ \/ Pending(a, m)
       \/ Cardinality(Outstanding(a, stream[m].to)) < MaxAckPending
    /\ consumer' = [consumer EXCEPT ![a][m] = [n |-> @.n + 1, st |-> "out"]]
    /\ queue' = [queue EXCEPT ![a][stream[m].to] = Append(@, m)]
    /\ UNCHANGED <<stream, handling, seen, life, failures, begun, done>>

\* DEFAULT_ACK_WAIT has passed while the message is in the queue, is handled
\* or went with the connection.
AckTimeout(a, m) ==
    /\ consumer[a][m].st = "out"
    /\ consumer' = [consumer EXCEPT ![a][m].st = "ready"]
    /\ UNCHANGED <<stream, queue, handling, seen, life, failures, begun, done>>

\* The server learns that it may redeliver m, or that it need not; it never
\* forgets that m was acknowledged.
Settle(a, m, st) ==
    consumer' = [consumer EXCEPT ![a][m].st = IF @ = "acked" THEN @ ELSE st]

\* msg.ack() and msg.nak().  A nak that is lost is a late acknowledgement, and
\* an ack that is lost has the effect of a nak: the wait ends in both cases.
Ack(a, m) == Settle(a, m, "acked") \/ Settle(a, m, "ready")
Nak(a, m) == Settle(a, m, "ready")

----------------------------------------------------------------------------
\* The callback of a subscription.

\* Faulty: the hash leaves out the timestamp, so that two messages of the
\* same sender and kind are one.
IsDuplicateByContent(a, m) ==
    \E o \in seen[a] : stream[o].kind = stream[m].kind
                       /\ stream[o].from = stream[m].from

IsDuplicate(a, m) == m \in seen[a]

\* Faulty: the id is remembered when the handler has returned.
RememberNothing(a, m) == UNCHANGED seen

\* Faulty: nothing is ever dropped from the set.
RememberAll(a, m) == seen' = [seen EXCEPT ![a] = @ \cup {m}]

\* The set is kept at MaxSeen ids by popping arbitrary ones.
Remember(a, m) ==
    \E kept \in SUBSET (seen[a] \cup {m}) :
        /\ Cardinality(kept) =
               IF Cardinality(seen[a] \cup {m}) > MaxSeen THEN MaxSeen
               ELSE Cardinality(seen[a] \cup {m})
        /\ seen' = [seen EXCEPT ![a] = kept]

\* The subscription is between two messages.
Take(a, s, m) ==
    /\ \A o \in handling[a] : stream[o].to # s
    /\ queue[a][s] # <<>>
    /\ m = Head(queue[a][s])
    /\ queue' = [queue EXCEPT ![a][s] = Tail(@)]

\* Acknowledged unread.
SkipDuplicate(a, s) ==
    \E m \in Index :
        /\ Take(a, s, m)
        /\ IsDuplicate(a, m)
        /\ Ack(a, m)
        /\ UNCHANGED <<stream, handling, seen, life, failures, begun, done>>

\* Marked as seen first, then handed to _on_nats_message.
Begin(a, s) ==
    \E m \in Index :
        /\ Take(a, s, m)
        /\ ~ IsDuplicate(a, m)
        /\ Remember(a, m)
        /\ handling' = [handling EXCEPT ![a] = @ \cup {m}]
        /\ begun' = [begun EXCEPT ![a] = @ \cup {m}]
        /\ UNCHANGED <<stream, consumer, life, failures, done>>

\* Faulty: a reply is answered like a request.
AnswerEverything(a, m) ==
    IF stream[m].kind # "notice"
    THEN Publish([kind |-> "direct_reply", from |-> a, to |-> stream[m].from,
                  re |-> m, by |-> life[a]])
    ELSE UNCHANGED stream

\* What the handler publishes.  The answer to a message goes to the user
\* directly if the channel is this agent's own, and to the sender otherwise.
Answer(a, m) ==
    IF stream[m].kind = "message"
    THEN Publish([kind |-> "direct_reply", from |-> a, to |-> stream[m].from,
                  re |-> m, by |-> life[a]])
    ELSE UNCHANGED stream

\* The handler returned.
Return(a, m) ==
    /\ m \in handling[a]
    /\ Answer(a, m)
    /\ handling' = [handling EXCEPT ![a] = @ \ {m}]
    /\ done' = [done EXCEPT ![a] = @ \cup {m}]
    /\ Ack(a, m)
    /\ UNCHANGED <<queue, seen, life, failures, begun>>

\* handle_message, an adapter or the registry raised.
Raise(a, m) ==
    /\ m \in handling[a]
    /\ handling' = [handling EXCEPT ![a] = @ \ {m}]
    /\ Nak(a, m)
    /\ UNCHANGED <<stream, queue, seen, life, failures, begun, done>>

----------------------------------------------------------------------------
\* Failures.

\* The monitor closes and reopens the connection.  The subscriptions go, with
\* what they had queued and the handlers they ran; the durable consumers stay,
\* and so does what the bus has seen.
Reconnect(a) ==
    /\ failures < MaxFailures
    /\ failures' = failures + 1
    /\ queue' = [queue EXCEPT ![a] = [s \in Subject |-> <<>>]]
    /\ handling' = [handling EXCEPT ![a] = {}]
    /\ UNCHANGED <<stream, consumer, seen, life, begun, done>>

\* The process of a ends and a new one starts.
Restart(a) ==
    /\ failures < MaxFailures
    /\ failures' = failures + 1
    /\ life' = [life EXCEPT ![a] = @ + 1]
    /\ consumer' = [consumer EXCEPT ![a] = NewConsumer]
    /\ queue' = [queue EXCEPT ![a] = [s \in Subject |-> <<>>]]
    /\ handling' = [handling EXCEPT ![a] = {}]
    /\ seen' = [seen EXCEPT ![a] = {}]
    /\ begun' = [begun EXCEPT ![a] = {}]
    /\ done' = [done EXCEPT ![a] = {}]
    /\ UNCHANGED stream

----------------------------------------------------------------------------

Server(a) == \E m \in Index : Deliver(a, m) \/ AckTimeout(a, m)
Callback(a) == \E s \in Subject : SkipDuplicate(a, s) \/ Begin(a, s)
Handler(a) == \E m \in Index : Return(a, m) \/ Raise(a, m)

Next ==
    \/ \E a \in Sender : (\E b \in Agent \ {a} : SendMessage(a, b)) \/ Broadcast(a)
    \/ \E a \in Agent : Server(a) \/ Callback(a) \/ Handler(a)
    \/ \E a \in Agent : Reconnect(a) \/ Restart(a)

Spec == Init /\ [][Next]_vars

\* The server delivers and times out, nats-py calls the callback, and handlers
\* return or raise; nobody has to publish, to fail or to restart.
FairSpec ==
    /\ Spec
    /\ \A a \in Agent : /\ WF_vars(Server(a))
                        /\ WF_vars(Callback(a))
                        /\ WF_vars(Handler(a))

----------------------------------------------------------------------------
(***************************************************************************)
(* Properties.                                                             *)
(***************************************************************************)

\* The shape of the state, and the limits of the consumers and of the seen ids.
TypeOK ==
    /\ stream \in Seq(Message) /\ Len(stream) <= MaxStream
    /\ consumer \in [Agent -> [Index -> Delivery]]
    /\ queue \in [Agent -> [Subject -> Seq(Index)]]
    /\ handling \in [Agent -> SUBSET Index]
    /\ seen \in [Agent -> SUBSET Index]
    /\ life \in [Agent -> Life]
    /\ failures \in 0..MaxFailures
    /\ begun \in [Agent -> SUBSET Index]
    /\ done \in [Agent -> SUBSET Index]
    /\ \A a \in Agent, s \in Subject :
           Cardinality(Outstanding(a, s)) <= MaxAckPending
    /\ \A a \in Agent : Cardinality(seen[a]) <= MaxSeen

\* A process handles a message at most once, however often it is delivered, as
\* long as it has not begun more messages than _seen_message_ids can hold.
HandledOnce ==
    [][\A a \in Agent :
           life'[a] = life[a] /\ (handling'[a] \ handling[a]) \cap begun[a] # {}
               => Cardinality(begun[a]) > MaxSeen]_vars

\* What a process has acknowledged, it has at least begun to handle: dropping
\* duplicates never drops a message it has not looked at.
NothingSkipped ==
    \A a \in Agent, m \in Index :
        consumer[a][m].st = "acked" => m \in begun[a]

\* An answer goes from the agent that was asked to the one that asked; nothing
\* else is answered, so two agents never answer each other's answers, whatever
\* is delivered twice, to two subscriptions or to a new process.
OnlyRequestsAnswered ==
    \A i \in Published : stream[i].kind = "direct_reply" =>
        LET q == stream[stream[i].re]
        IN  q.kind = "message" /\ q.to = stream[i].from /\ q.from = stream[i].to

\* A message that the server may still deliver gets to the handler of every
\* agent it is addressed to, however late the acknowledgements before it, unless
\* a connection or a process is lost.  (All deliveries may pile up in the queue
\* behind a slow handler and go with the connection: the proviso is needed.)
EveryMessageBegun ==
    \A a \in Agent, m \in Index, f \in 0..MaxFailures :
        Addressed(a, m) /\ consumer[a][m].n < MaxDeliver /\ failures = f
            ~> m \in begun[a] \/ failures # f

\* A message whose handler failed is retried until MaxDeliver deliveries are
\* used up; it is not acknowledged before (docs/pillywiggins-overview-v2.md).
FailedIsRetried ==
    \A a \in Agent, m \in Index :
        consumer[a][m].st = "acked" /\ m \notin done[a] =>
            consumer[a][m].n = MaxDeliver
=============================================================================

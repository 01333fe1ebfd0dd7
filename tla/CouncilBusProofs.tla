-------------------------- MODULE CouncilBusProofs --------------------------
(***************************************************************************)
(* Proofs about CouncilBus, for any agents and any limits: no message is   *)
(* dropped unseen, requests alone are answered, and a message is handled   *)
(* once as long as _seen_message_ids can hold what was begun.              *)
(***************************************************************************)
EXTENDS CouncilBus, FiniteSetTheorems, SequenceTheorems, TLAPS

\* A new process costs a failure.
LifeBound == \A a \in Agent : life[a] <= failures + 1

\* What waits for a subscription, or is being handled, was published and is
\* addressed to it; only agents are sent requests.
Delivered ==
    /\ \A a \in Agent, s \in Subject : \A i \in 1..Len(queue[a][s]) :
           Addressed(a, queue[a][s][i])
    /\ \A a \in Agent : \A m \in handling[a] : Addressed(a, m)
    /\ \A i \in Published : stream[i].kind = "message" => stream[i].to \in Agent

\* A reply names a request that was published.
RepliesToPublished ==
    \A i \in Published : stream[i].kind = "direct_reply" => stream[i].re \in Published

\* Whatever a process has seen or is handling, it has begun to handle.
SeenIsBegun == \A a \in Agent : seen[a] \subseteq begun[a] /\ handling[a] \subseteq begun[a]

\* Nothing has been dropped from _seen_message_ids that could have been kept.
SeenWhileRoom ==
    \A a \in Agent : Cardinality(begun[a]) <= MaxSeen => seen[a] = begun[a]

\* A consumer has delivered nothing that is not in the stream.
Undelivered ==
    \A a \in Agent, m \in Index \ Published :
        consumer[a][m].n = 0 /\ consumer[a][m].st = "ready"

\* The inductive invariant.
Inv ==
    /\ TypeOK
    /\ Undelivered
    /\ LifeBound
    /\ Delivered
    /\ RepliesToPublished
    /\ OnlyRequestsAnswered
    /\ SeenIsBegun
    /\ SeenWhileRoom
    /\ NothingSkipped

\* What each agent's process has seen and begun, and what concerns the stream.
StreamInv == Delivered /\ RepliesToPublished /\ OnlyRequestsAnswered
SeenInv == SeenIsBegun /\ SeenWhileRoom /\ NothingSkipped

USE CouncilBusAssumption

----------------------------------------------------------------------------
\* Sets of messages are finite.

LEMMA IndexFinite == IsFiniteSet(Index)
  BY FS_Interval DEF Index

LEMMA MessagesFinite ==
    ASSUME NEW S \in SUBSET Index
    PROVE  IsFiniteSet(S) /\ Cardinality(S) \in Nat
  BY IndexFinite, FS_Subset, FS_CardinalityType

\* Fewer messages, fewer of them outstanding.
LEMMA FewerOutstanding ==
    ASSUME NEW S \in SUBSET Index, NEW T \in SUBSET Index, S \subseteq T
    PROVE  Cardinality(S) <= Cardinality(T)
  BY MessagesFinite, FS_Subset

\* What is outstanding is in the stream.
LEMMA OutstandingType ==
    ASSUME TypeOK, NEW a, NEW s
    PROVE  Outstanding(a, s) \in SUBSET Index
  BY DEF TypeOK, Outstanding, Published, Index

\* A message more is one more at most.
LEMMA OneMessageMore ==
    ASSUME NEW S \in SUBSET Index, NEW m \in Index
    PROVE  Cardinality(S \cup {m}) <= Cardinality(S) + 1
  BY MessagesFinite, FS_AddElement

\* No consumer is over max_ack_pending.
PendingLimit ==
    \A a \in Agent, s \in Subject :
        Cardinality(Outstanding(a, s)) <= MaxAckPending

\* A late acknowledgement changes as little as a settlement does: the state of
\* one message for one agent, which is not outstanding then.
Settled(a, m) ==
    \/ \E st \in {"ready", "acked"} : Settle(a, m, st)
    \/ /\ consumer[a][m].st = "out"
       /\ consumer' = [consumer EXCEPT ![a][m].st = "ready"]

LEMMA SettledEffect ==
    ASSUME TypeOK, NEW a \in Agent, NEW m \in Index, Settled(a, m)
    PROVE  /\ consumer' \in [Agent -> [Index -> Delivery]]
           /\ \A b \in Agent, o \in Index :
                  (b = a /\ o = m) \/ consumer'[b][o] = consumer[b][o]
           /\ \A b \in Agent, o \in Index : Pending(b, o)' => Pending(b, o)
<1> DEFINE old == consumer[a][m]
<1>1. consumer \in [Agent -> [Index -> Delivery]] /\ old \in Delivery
    BY DEF TypeOK
<1>2. PICK st \in {"ready", "acked"} :
          /\ consumer' = [consumer EXCEPT ![a][m].st = st]
          /\ st = "ready" => old.st # "acked"
    BY DEF Settled, Settle
<1>3. consumer' = [consumer EXCEPT ![a] = [consumer[a] EXCEPT ![m] = [old EXCEPT !.st = st]]]
    BY <1>1, <1>2
<1>4. /\ [old EXCEPT !.st = st] \in Delivery /\ [old EXCEPT !.st = st].st = st
      /\ [old EXCEPT !.st = st].n = old.n /\ old.st \in {"ready", "out", "acked"}
    BY <1>1 DEF Delivery
<1>5. /\ consumer' \in [Agent -> [Index -> Delivery]]
      /\ \A b \in Agent, o \in Index :
             (b = a /\ o = m) \/ consumer'[b][o] = consumer[b][o]
      /\ consumer'[a][m].st = st /\ consumer'[a][m].n = old.n
    <2> HIDE DEF old
    <2> QED
        BY <1>1, <1>3, <1>4
<1>6. Pending(a, m)' => Pending(a, m)
    BY <1>2, <1>4, <1>5 DEF Pending
<1>7. ASSUME NEW b \in Agent, NEW o \in Index, ~(b = a /\ o = m)
      PROVE  Pending(b, o)' => Pending(b, o)
    BY <1>5, <1>7 DEF Pending
<1> QED
    BY <1>5, <1>6, <1>7

\* The stream stays as it is, or a message is published that fits.
Extended ==
    \/ UNCHANGED stream
    \/ Len(stream) < MaxStream /\ \E msg \in Message : stream' = Append(stream, msg)

\* A message that joins the stream is pending for nobody, so that a step which
\* makes nothing pending keeps every consumer within its limit.
LEMMA LimitKept ==
    ASSUME TypeOK, Undelivered, Extended,
           \A a \in Agent, m \in Index : Pending(a, m)' => Pending(a, m)
    PROVE  PendingLimit'
<1> SUFFICES ASSUME NEW a \in Agent, NEW s \in Subject
             PROVE  Cardinality(Outstanding(a, s)') <= MaxAckPending
    BY DEF PendingLimit
<1>1. /\ Published \subseteq Published' /\ Published' \subseteq Index
      /\ \A i \in Published : stream'[i] = stream[i]
    <2>1. /\ stream \in Seq(Message) /\ Len(stream) \in Nat
          /\ Len(stream) <= MaxStream /\ Published = 1..Len(stream)
        BY DEF TypeOK, Published
    <2>2. CASE UNCHANGED stream
        BY <2>1, <2>2 DEF Published, Index
    <2>3. ASSUME Len(stream) < MaxStream, NEW msg \in Message, stream' = Append(stream, msg)
          PROVE  /\ Published' = 1..(Len(stream) + 1)
                 /\ \A i \in Published : stream'[i] = stream[i]
        BY <2>1, <2>3 DEF Published
    <2>4. CASE Len(stream) < MaxStream /\ \E msg \in Message : stream' = Append(stream, msg)
        BY <2>1, <2>3, <2>4 DEF Index
    <2> QED
        BY <2>2, <2>4 DEF Extended
<1>2. \A m \in Index \ Published : ~ Pending(a, m)
    BY DEF Undelivered, Pending
<1>3. Outstanding(a, s)' \subseteq Outstanding(a, s)
    BY <1>1, <1>2 DEF Outstanding
<1>4. Outstanding(a, s) \in SUBSET Index
    BY OutstandingType
<1>5. Outstanding(a, s)' \in SUBSET Index
    BY <1>3, <1>4
<1>6. Cardinality(Outstanding(a, s)) <= MaxAckPending
    BY DEF TypeOK
<1>7. Cardinality(Outstanding(a, s)') <= Cardinality(Outstanding(a, s))
    BY <1>3, <1>4, <1>5, FewerOutstanding
<1>8. /\ Cardinality(Outstanding(a, s)) \in Nat
      /\ Cardinality(Outstanding(a, s)') \in Nat
    BY <1>4, <1>5, MessagesFinite
<1> QED
    BY <1>6, <1>7, <1>8

\* A step that delivers nothing but what is in the stream.
LEMMA UndeliveredKept ==
    ASSUME TypeOK, Undelivered, Extended,
           \A a \in Agent, m \in Index \ Published : consumer'[a][m] = consumer[a][m]
    PROVE  Undelivered'
<1>1. Published \subseteq Published'
    BY DEF Extended, TypeOK, Published
<1> QED
    BY <1>1 DEF Undelivered

\* Acknowledging or refusing a message, or the end of the wait for it.
LEMMA SettleKeeps ==
    ASSUME TypeOK, Undelivered, Extended,
           NEW a \in Agent, NEW m \in Published, Settled(a, m)
    PROVE  /\ consumer' \in [Agent -> [Index -> Delivery]]
           /\ PendingLimit' /\ Undelivered'
<1>1. m \in Index
    BY DEF TypeOK, Published, Index
<1>2. /\ consumer' \in [Agent -> [Index -> Delivery]]
      /\ \A b \in Agent, o \in Index :
             (b = a /\ o = m) \/ consumer'[b][o] = consumer[b][o]
      /\ \A b \in Agent, o \in Index : Pending(b, o)' => Pending(b, o)
    BY <1>1, SettledEffect
<1>3. PendingLimit'
    BY <1>2, LimitKept
<1>4. \A b \in Agent, o \in Index \ Published : consumer'[b][o] = consumer[b][o]
    BY <1>2
<1>5. Undelivered'
    BY <1>4, UndeliveredKept
<1> QED
    BY <1>2, <1>3, <1>5

LEMMA AckKeeps ==
    ASSUME TypeOK, Undelivered, Extended,
           NEW a \in Agent, NEW m \in Published, Ack(a, m) \/ Nak(a, m)
    PROVE  /\ consumer' \in [Agent -> [Index -> Delivery]]
           /\ PendingLimit' /\ Undelivered'
<1>1. Settled(a, m)
    BY DEF Settled, Ack, Nak
<1> QED
    BY <1>1, SettleKeeps

\* A step that leaves the consumers alone.
LEMMA ConsumerKept ==
    ASSUME TypeOK, Undelivered, Extended, UNCHANGED consumer
    PROVE  PendingLimit' /\ Undelivered'
<1>1. \A a \in Agent, m \in Index : Pending(a, m)' => Pending(a, m)
    BY DEF Pending
<1>2. PendingLimit'
    BY <1>1, LimitKept
<1>3. Undelivered'
    BY UndeliveredKept
<1> QED
    BY <1>2, <1>3

\* It concerns m alone, and only an acknowledgement acknowledges.
LEMMA AckEffect ==
    ASSUME TypeOK, NEW a \in Agent, NEW m \in Index, Ack(a, m) \/ Nak(a, m),
           NEW b \in Agent, NEW o \in Index, consumer'[b][o].st = "acked"
    PROVE  consumer[b][o].st = "acked" \/ (b = a /\ o = m)
  BY DEF TypeOK, Ack, Nak, Settle, Delivery

----------------------------------------------------------------------------
\* The stream only grows, and what it holds is not changed.

LEMMA StreamGrows ==
    ASSUME TypeOK, NEW msg, stream' = Append(stream, msg)
    PROVE  /\ Published' = 1..(Len(stream) + 1) /\ Published = 1..Len(stream)
           /\ \A i \in Published : stream'[i] = stream[i]
           /\ stream'[Len(stream) + 1] = msg
           /\ Len(stream) + 1 \notin Published
  BY DEF TypeOK, Published

\* Another message in the stream is addressed as it was.
LEMMA AddressedKept ==
    ASSUME TypeOK, NEW a, NEW m, Addressed(a, m),
           UNCHANGED stream \/ \E msg : stream' = Append(stream, msg)
    PROVE  Addressed(a, m)'
<1>1. CASE UNCHANGED stream
    BY <1>1 DEF Addressed, Published
<1>2. ASSUME NEW msg, stream' = Append(stream, msg) PROVE Addressed(a, m)'
    BY <1>2, StreamGrows DEF Addressed
<1> QED
    BY <1>1, <1>2

\* A message that is not a reply to anything but a request, and that goes to an
\* agent if it is a request, keeps what is known of the stream.
LEMMA PublishKeepsStream ==
    ASSUME TypeOK, StreamInv, NEW msg \in Message, stream' = Append(stream, msg),
           UNCHANGED queue, \A a \in Agent : handling'[a] \subseteq handling[a],
           msg.kind = "message" => msg.to \in Agent,
           msg.kind = "direct_reply" =>
               /\ msg.re \in Published /\ stream[msg.re].kind = "message"
               /\ stream[msg.re].to = msg.from /\ stream[msg.re].from = msg.to
    PROVE  StreamInv'
<1> USE DEF StreamInv
<1>1. /\ Published' = 1..(Len(stream) + 1) /\ Published = 1..Len(stream)
      /\ \A i \in Published : stream'[i] = stream[i]
      /\ stream'[Len(stream) + 1] = msg /\ Len(stream) \in Nat
    BY StreamGrows DEF TypeOK
<1>2. \A i \in Published' : (i \in Published /\ stream'[i] = stream[i]) \/ stream'[i] = msg
    BY <1>1
<1>3. Delivered'
    <2>1. \A a \in Agent, s \in Subject : \A i \in 1..Len(queue[a][s]) :
              Addressed(a, queue[a][s][i])'
        BY AddressedKept DEF Delivered
    <2>2. \A a \in Agent : \A m \in handling'[a] : Addressed(a, m)'
        BY AddressedKept DEF Delivered
    <2>3. \A i \in Published' : stream'[i].kind = "message" => stream'[i].to \in Agent
        BY <1>2 DEF Delivered
    <2> QED
        BY <2>1, <2>2, <2>3 DEF Delivered
<1>4. Published \subseteq Published'
    BY <1>1
<1>5. RepliesToPublished'
    BY <1>2, <1>4 DEF RepliesToPublished
<1>6. OnlyRequestsAnswered'
    <2> SUFFICES ASSUME NEW i \in Published', stream'[i].kind = "direct_reply"
                 PROVE  LET q == stream'[stream'[i].re]
                        IN  q.kind = "message" /\ q.to = stream'[i].from /\ q.from = stream'[i].to
        BY DEF OnlyRequestsAnswered
    <2>1. CASE i \in Published /\ stream'[i] = stream[i]
        <3>1. stream[i].re \in Published
            BY <2>1 DEF RepliesToPublished
        <3>2. stream'[stream[i].re] = stream[stream[i].re]
            BY <3>1, <1>1
        <3> QED
            BY <2>1, <3>2 DEF OnlyRequestsAnswered
    <2>2. CASE stream'[i] = msg
        BY <2>2, <1>1
    <2> QED
        BY <2>1, <2>2, <1>2
<1> QED
    BY <1>3, <1>5, <1>6

\* A step that does not publish, and leaves no more queued or handled than was
\* queued before.
LEMMA QuietKeepsStream ==
    ASSUME StreamInv, UNCHANGED stream,
           \A a \in Agent, s \in Subject : \A i \in 1..Len(queue'[a][s]) :
               Addressed(a, queue'[a][s][i]),
           \A a \in Agent : \A m \in handling'[a] : Addressed(a, m)
    PROVE  StreamInv'
<1>1. \A a, m : Addressed(a, m)' = Addressed(a, m)
    BY DEF Addressed, Published
<1> QED
    BY <1>1 DEF StreamInv, Delivered, RepliesToPublished, OnlyRequestsAnswered, Published

----------------------------------------------------------------------------

\* The bus starts in the invariant.
LEMMA InvInit == Init => Inv
<1> SUFFICES ASSUME Init PROVE Inv
    OBVIOUS
<1> USE DEF Init
<1>1. \A a \in Agent : seen[a] = {} /\ begun[a] = {}
    OBVIOUS
<1>0. \A a \in Agent, s \in Subject : Outstanding(a, s) = {}
    BY DEF Outstanding, Published
<1>2. TypeOK
    <2>1. NewConsumer \in [Index -> Delivery]
        BY DEF NewConsumer, Delivery
    <2>2. <<>> \in Seq(Message) /\ Len(<<>>) = 0 /\ <<>> \in Seq(Index)
        OBVIOUS
    <2>3. 1 \in Life /\ 0 \in 0..MaxFailures
        BY DEF Life
    <2>4. Cardinality({}) = 0
        BY FS_EmptySet
    <2>5. ASSUME NEW a \in Agent, NEW s \in Subject
          PROVE  Cardinality(Outstanding(a, s)) <= MaxAckPending
        <3>1. Cardinality(Outstanding(a, s)) = 0
            BY <1>0, <2>4
        <3> QED
            BY <3>1
    <2>6. \A a \in Agent : Cardinality(seen[a]) <= MaxSeen
        BY <1>1, <2>4
    <2> QED
        BY <2>1, <2>2, <2>3, <2>5, <2>6 DEF TypeOK
<1>3. LifeBound /\ Delivered /\ RepliesToPublished /\ OnlyRequestsAnswered
    BY DEF LifeBound, Delivered, RepliesToPublished, OnlyRequestsAnswered, Published
<1>4. SeenIsBegun /\ SeenWhileRoom /\ NothingSkipped
    BY <1>1 DEF SeenIsBegun, SeenWhileRoom, NothingSkipped, NewConsumer
<1>5. Undelivered
    BY DEF Undelivered, NewConsumer
<1> QED
    BY <1>2, <1>3, <1>4, <1>5 DEF Inv

\* A step that leaves what was delivered, begun and seen.
LEMMA SeenKept ==
    ASSUME SeenInv, UNCHANGED <<consumer, handling, seen, begun>>
    PROVE  SeenInv'
  BY DEF SeenInv, SeenIsBegun, SeenWhileRoom, NothingSkipped

\* Publishing a request or a broadcast.
LEMMA PublishKeepsInv ==
    ASSUME Inv, NEW msg \in Message, msg.kind # "direct_reply",
           msg.kind = "message" => msg.to \in Agent,
           Len(stream) < MaxStream, stream' = Append(stream, msg),
           UNCHANGED <<consumer, queue, handling, seen, life, failures, begun, done>>
    PROVE  Inv'
<1>0. PendingLimit' /\ Undelivered'
    BY ConsumerKept DEF Inv, Extended
<1>1. TypeOK'
    <2>1. stream' \in Seq(Message) /\ Len(stream') <= MaxStream
        BY DEF Inv, TypeOK
    <2> QED
        BY <1>0, <2>1 DEF Inv, TypeOK, PendingLimit
<1>2. StreamInv'
    BY PublishKeepsStream DEF Inv, StreamInv
<1>3. SeenInv'
    BY SeenKept DEF Inv, SeenInv
<1> QED
    BY <1>0, <1>1, <1>2, <1>3 DEF Inv, StreamInv, SeenInv, LifeBound

LEMMA SendKeepsInv ==
    ASSUME Inv, NEW a \in Agent, NEW b \in Agent, SendMessage(a, b)
    PROVE  Inv'
<1> DEFINE msg == [kind |-> "message", from |-> a, to |-> b, re |-> 0, by |-> 0]
<1>1. msg \in Message
    BY DEF Message, Kind, Subject
<1>2. msg.kind = "message" /\ msg.to \in Agent
    OBVIOUS
<1>3. /\ Len(stream) < MaxStream /\ stream' = Append(stream, msg)
      /\ UNCHANGED <<consumer, queue, handling, seen, life, failures, begun, done>>
    BY DEF SendMessage
<1> HIDE DEF msg
<1> QED
    BY <1>1, <1>2, <1>3, PublishKeepsInv

LEMMA BroadcastKeepsInv ==
    ASSUME Inv, NEW a \in Agent, Broadcast(a)
    PROVE  Inv'
<1> DEFINE msg == [kind |-> "notice", from |-> a, to |-> Everyone, re |-> 0, by |-> 0]
<1>1. msg \in Message
    BY DEF Message, Kind, Subject
<1>2. msg.kind = "notice"
    OBVIOUS
<1>3. /\ Len(stream) < MaxStream /\ stream' = Append(stream, msg)
      /\ UNCHANGED <<consumer, queue, handling, seen, life, failures, begun, done>>
    BY DEF Broadcast
<1> HIDE DEF msg
<1> QED
    BY <1>1, <1>2, <1>3, PublishKeepsInv

\* The server delivers: at most MaxAckPending messages are outstanding then.
LEMMA DeliverKeepsInv ==
    ASSUME Inv, NEW a \in Agent, NEW m \in Index, Deliver(a, m)
    PROVE  Inv'
<1> USE DEF Inv
<1> DEFINE s == stream[m].to
<1>1. /\ consumer' = [consumer EXCEPT ![a][m] = [n |-> consumer[a][m].n + 1, st |-> "out"]]
      /\ queue' = [queue EXCEPT ![a][s] = Append(queue[a][s], m)]
      /\ consumer[a][m].st = "ready" /\ consumer[a][m].n < MaxDeliver
      /\ Pending(a, m) \/ Cardinality(Outstanding(a, s)) < MaxAckPending
      /\ Addressed(a, m)
      /\ UNCHANGED <<stream, handling, seen, life, failures, begun, done>>
    BY DEF Deliver, TypeOK
<1>2. s \in Subject
    BY <1>1 DEF Addressed, Subject
<1>3. consumer' \in [Agent -> [Index -> Delivery]]
    BY <1>1 DEF TypeOK, Delivery
<1>4. PendingLimit'
    <2> SUFFICES ASSUME NEW b \in Agent, NEW u \in Subject
                 PROVE  Cardinality(Outstanding(b, u)') <= MaxAckPending
        BY DEF PendingLimit
    <2>1. \A c \in Agent, o \in Index : (c = a /\ o = m) \/ consumer'[c][o] = consumer[c][o]
        BY <1>1 DEF TypeOK
    <2>2. /\ Outstanding(b, u) \in SUBSET Index /\ Published \subseteq Index
          /\ Cardinality(Outstanding(b, u)) \in Nat
          /\ Cardinality(Outstanding(b, u)) <= MaxAckPending
        BY OutstandingType, MessagesFinite DEF TypeOK, Published, Index
    <2>3. CASE b = a /\ u = s
        <3>1. Outstanding(b, u)' \subseteq Outstanding(b, u) \cup {m}
            BY <2>1, <2>2, <1>1 DEF Outstanding, Published, Pending
        <3>2. Outstanding(b, u)' \in SUBSET Index
            BY <2>2, <3>1
        <3>3. /\ Cardinality(Outstanding(b, u)') \in Nat
              /\ Cardinality(Outstanding(b, u) \cup {m}) \in Nat
              /\ Cardinality(Outstanding(b, u)') <= Cardinality(Outstanding(b, u) \cup {m})
            <4>1. Outstanding(b, u) \cup {m} \in SUBSET Index
                BY <2>2
            <4> QED
                BY <3>1, <3>2, <4>1, FewerOutstanding, MessagesFinite
        <3>4. CASE Pending(a, m)
            <4>1. m \in Outstanding(b, u)
                BY <2>3, <3>4, <1>1 DEF Outstanding, Addressed
            <4>2. Outstanding(b, u) \cup {m} = Outstanding(b, u)
                BY <4>1
            <4> QED
                BY <2>2, <3>3, <4>2
        <3>5. CASE Cardinality(Outstanding(b, u)) < MaxAckPending
            <4>1. Cardinality(Outstanding(b, u) \cup {m}) <= Cardinality(Outstanding(b, u)) + 1
                BY <2>2, OneMessageMore
            <4> QED
                BY <2>2, <3>3, <3>5, <4>1
        <3> QED
            BY <2>3, <3>4, <3>5, <1>1
    <2>4. CASE ~(b = a /\ u = s)
        <3>1. Outstanding(b, u)' = Outstanding(b, u)
            BY <2>1, <2>2, <2>4, <1>1 DEF Outstanding, Published, Pending
        <3> QED
            BY <3>1, <2>2
    <2> QED
        BY <2>3, <2>4
<1>9. Undelivered'
    <2>1. \A c \in Agent, o \in Index \ Published : consumer'[c][o] = consumer[c][o]
        BY <1>1 DEF TypeOK, Addressed
    <2> QED
        BY <1>1, <2>1, UndeliveredKept DEF Extended
<1>5. queue' \in [Agent -> [Subject -> Seq(Index)]]
    BY <1>1, <1>2 DEF TypeOK
<1>6. TypeOK'
    BY <1>1, <1>3, <1>4, <1>5 DEF TypeOK, PendingLimit
<1>7. StreamInv'
    <2> SUFFICES ASSUME NEW b \in Agent, NEW u \in Subject, NEW i \in 1..Len(queue'[b][u])
                 PROVE  Addressed(b, queue'[b][u][i])
        BY <1>1, QuietKeepsStream DEF StreamInv, Delivered
    <2>1. CASE b = a /\ u = s
        <3>1. queue[a][s] \in Seq(Index) /\ queue'[a][s] = Append(queue[a][s], m)
            <4>1. queue \in [Agent -> [Subject -> Seq(Index)]]
                BY DEF TypeOK
            <4>2. queue' = [queue EXCEPT ![a][s] = Append(queue[a][s], m)]
                BY <1>1
            <4> HIDE DEF s
            <4> QED
                BY <4>1, <4>2, <1>2
        <3>2. queue'[a][s][i] = m \/ (i \in 1..Len(queue[a][s]) /\ queue'[a][s][i] = queue[a][s][i])
            <4>1. i \in 1..Len(queue'[a][s])
                BY <2>1
            <4> HIDE DEF s
            <4> QED
                BY <4>1, <3>1
        <3> QED
            BY <2>1, <3>2, <1>1, <1>2 DEF Delivered
    <2>2. CASE ~(b = a /\ u = s)
        <3>1. queue'[b][u] = queue[b][u]
            BY <2>2, <1>1, <1>2 DEF TypeOK
        <3> QED
            BY <3>1 DEF Delivered
    <2> QED
        BY <2>1, <2>2
<1>8. SeenInv'
    <2>1. \A b \in Agent, o \in Index : consumer'[b][o].st = "acked" => consumer[b][o].st = "acked"
        BY <1>1 DEF TypeOK
    <2> QED
        BY <1>1, <2>1 DEF SeenInv, SeenIsBegun, SeenWhileRoom, NothingSkipped
<1> QED
    BY <1>1, <1>6, <1>7, <1>8, <1>9 DEF StreamInv, SeenInv, LifeBound

\* An acknowledgement is late.
LEMMA TimeoutKeepsInv ==
    ASSUME Inv, NEW a \in Agent, NEW m \in Index, AckTimeout(a, m)
    PROVE  Inv'
<1> USE DEF Inv
<1>1. /\ consumer' = [consumer EXCEPT ![a][m].st = "ready"]
      /\ UNCHANGED <<stream, queue, handling, seen, life, failures, begun, done>>
    BY DEF AckTimeout
<1>2. Settled(a, m) /\ m \in Published
    BY <1>1 DEF AckTimeout, Settled, Undelivered
<1>3. /\ consumer' \in [Agent -> [Index -> Delivery]]
      /\ PendingLimit' /\ Undelivered'
    BY <1>1, <1>2, SettleKeeps DEF Extended
<1>4. TypeOK'
    BY <1>1, <1>3 DEF TypeOK, PendingLimit
<1>5. StreamInv'
    BY <1>1, QuietKeepsStream DEF StreamInv, Delivered
<1>6. SeenInv'
    <2>1. \A b \in Agent, o \in Index : consumer'[b][o].st = "acked" => consumer[b][o].st = "acked"
        BY <1>1 DEF TypeOK, Delivery
    <2> QED
        BY <1>1, <2>1 DEF SeenInv, SeenIsBegun, SeenWhileRoom, NothingSkipped
<1> QED
    BY <1>1, <1>3, <1>4, <1>5, <1>6 DEF StreamInv, SeenInv, LifeBound

\* The callback takes a message that was addressed to the agent, and leaves the
\* queue with the others.
LEMMA TakeEffect ==
    ASSUME Inv, NEW a \in Agent, NEW s \in Subject, NEW m \in Index, Take(a, s, m)
    PROVE  /\ Addressed(a, m)
           /\ queue' \in [Agent -> [Subject -> Seq(Index)]]
           /\ \A b \in Agent, u \in Subject : \A i \in 1..Len(queue'[b][u]) :
                  Addressed(b, queue'[b][u][i])
<1> USE DEF Inv
<1>1. /\ queue[a][s] \in Seq(Index) /\ queue[a][s] # <<>>
      /\ queue' = [queue EXCEPT ![a][s] = Tail(queue[a][s])] /\ m = queue[a][s][1]
    BY DEF Take, TypeOK
<1>2. Addressed(a, m)
    <2>1. 1 \in 1..Len(queue[a][s])
        BY <1>1
    <2> QED
        BY <2>1, <1>1 DEF Delivered
<1>3. queue' \in [Agent -> [Subject -> Seq(Index)]]
    BY <1>1 DEF TypeOK
<1>4. ASSUME NEW b \in Agent, NEW u \in Subject, NEW i \in 1..Len(queue'[b][u])
      PROVE  Addressed(b, queue'[b][u][i])
    <2>1. CASE b = a /\ u = s
        <3>1. queue'[a][s] = Tail(queue[a][s])
            BY <1>1 DEF TypeOK
        <3>2. i + 1 \in 1..Len(queue[a][s]) /\ queue'[a][s][i] = queue[a][s][i + 1]
            BY <2>1, <3>1, <1>1
        <3> QED
            BY <2>1, <3>2 DEF Delivered
    <2>2. CASE ~(b = a /\ u = s)
        <3>1. queue'[b][u] = queue[b][u]
            BY <2>2, <1>1 DEF TypeOK
        <3> QED
            BY <3>1 DEF Delivered
    <2> QED
        BY <2>1, <2>2
<1> QED
    BY <1>2, <1>3, <1>4

\* A duplicate is acknowledged unread: it is in _seen_message_ids, and so begun.
LEMMA SkipKeepsInv ==
    ASSUME Inv, NEW a \in Agent, NEW s \in Subject, SkipDuplicate(a, s)
    PROVE  Inv'
<1> USE DEF Inv
<1> PICK m \in Index :
        /\ Take(a, s, m) /\ m \in seen[a] /\ Ack(a, m)
        /\ UNCHANGED <<stream, handling, seen, life, failures, begun, done>>
    BY DEF SkipDuplicate, IsDuplicate
<1>1. /\ m \in Published /\ queue' \in [Agent -> [Subject -> Seq(Index)]]
      /\ \A b \in Agent, u \in Subject : \A i \in 1..Len(queue'[b][u]) :
             Addressed(b, queue'[b][u][i])
    BY TakeEffect DEF Addressed
<1>5. /\ consumer' \in [Agent -> [Index -> Delivery]]
      /\ PendingLimit' /\ Undelivered'
    BY <1>1, AckKeeps DEF Extended
<1>2. TypeOK'
    BY <1>1, <1>5 DEF TypeOK, PendingLimit
<1>3. StreamInv'
    BY <1>1, QuietKeepsStream DEF StreamInv, Delivered
<1>4. SeenInv'
    <2>1. m \in begun[a]
        BY DEF SeenIsBegun
    <2>2. NothingSkipped'
        BY <2>1, AckEffect DEF NothingSkipped
    <2> QED
        BY <2>2 DEF SeenInv, SeenIsBegun, SeenWhileRoom
<1> QED
    BY <1>2, <1>3, <1>4, <1>5 DEF StreamInv, SeenInv, LifeBound

\* What is seen after m was remembered.
LEMMA RememberEffect ==
    ASSUME TypeOK, NEW a \in Agent, NEW m \in Index, Remember(a, m)
    PROVE  /\ seen' \in [Agent -> SUBSET Index]
           /\ \A b \in Agent \ {a} : seen'[b] = seen[b]
           /\ seen'[a] \subseteq seen[a] \cup {m}
           /\ Cardinality(seen'[a]) <= MaxSeen
           /\ Cardinality(seen[a] \cup {m}) <= MaxSeen => seen'[a] = seen[a] \cup {m}
<1> PICK kept \in SUBSET (seen[a] \cup {m}) :
        /\ Cardinality(kept) =
               IF Cardinality(seen[a] \cup {m}) > MaxSeen THEN MaxSeen
               ELSE Cardinality(seen[a] \cup {m})
        /\ seen' = [seen EXCEPT ![a] = kept]
    BY DEF Remember
<1>1. seen[a] \cup {m} \in SUBSET Index /\ kept \in SUBSET Index
    BY DEF TypeOK
<1>2. IsFiniteSet(seen[a] \cup {m}) /\ Cardinality(seen[a] \cup {m}) \in Nat
    BY <1>1, MessagesFinite
<1>3. seen' \in [Agent -> SUBSET Index] /\ seen'[a] = kept
      /\ \A b \in Agent \ {a} : seen'[b] = seen[b]
    BY <1>1 DEF TypeOK
<1>4. Cardinality(kept) <= MaxSeen
    BY <1>2
<1>5. Cardinality(seen[a] \cup {m}) <= MaxSeen => kept = seen[a] \cup {m}
    <2> SUFFICES ASSUME Cardinality(seen[a] \cup {m}) <= MaxSeen PROVE kept = seen[a] \cup {m}
        OBVIOUS
    <2>1. Cardinality(kept) = Cardinality(seen[a] \cup {m})
        BY <1>2
    <2> QED
        BY <2>1, <1>2, FS_Subset
<1> QED
    BY <1>3, <1>4, <1>5

\* The handler of a message begins.
LEMMA BeginKeepsInv ==
    ASSUME Inv, NEW a \in Agent, NEW s \in Subject, Begin(a, s)
    PROVE  Inv'
<1> USE DEF Inv
<1> PICK m \in Index :
        /\ Take(a, s, m) /\ m \notin seen[a] /\ Remember(a, m)
        /\ handling' = [handling EXCEPT ![a] = handling[a] \cup {m}]
        /\ begun' = [begun EXCEPT ![a] = begun[a] \cup {m}]
        /\ UNCHANGED <<stream, consumer, life, failures, done>>
    BY DEF Begin, IsDuplicate
<1>1. /\ Addressed(a, m) /\ queue' \in [Agent -> [Subject -> Seq(Index)]]
      /\ \A b \in Agent, u \in Subject : \A i \in 1..Len(queue'[b][u]) :
             Addressed(b, queue'[b][u][i])
    BY TakeEffect
<1>2. /\ seen' \in [Agent -> SUBSET Index]
      /\ \A b \in Agent \ {a} : seen'[b] = seen[b]
      /\ seen'[a] \subseteq seen[a] \cup {m}
      /\ Cardinality(seen'[a]) <= MaxSeen
      /\ Cardinality(seen[a] \cup {m}) <= MaxSeen => seen'[a] = seen[a] \cup {m}
    BY RememberEffect
<1>3. PendingLimit' /\ Undelivered'
    BY ConsumerKept DEF Extended
<1>4. TypeOK'
    <2>1. handling' \in [Agent -> SUBSET Index] /\ begun' \in [Agent -> SUBSET Index]
        BY DEF TypeOK
    <2>2. \A b \in Agent : Cardinality(seen'[b]) <= MaxSeen
        BY <1>2 DEF TypeOK
    <2> QED
        BY <2>1, <2>2, <1>1, <1>2, <1>3 DEF TypeOK, PendingLimit
<1>5. StreamInv'
    <2>1. \A b \in Agent : \A o \in handling'[b] : Addressed(b, o)
        BY <1>1 DEF Delivered, TypeOK
    <2> QED
        BY <2>1, <1>1, QuietKeepsStream DEF StreamInv
<1>6. begun'[a] = begun[a] \cup {m} /\ \A b \in Agent \ {a} : begun'[b] = begun[b]
    BY DEF TypeOK
<1>7. SeenIsBegun'
    BY <1>2, <1>6 DEF SeenIsBegun, TypeOK
<1>8. SeenWhileRoom'
    <2> SUFFICES ASSUME Cardinality(begun'[a]) <= MaxSeen PROVE seen'[a] = begun'[a]
        BY <1>2, <1>6 DEF SeenWhileRoom
    <2>1. begun[a] \in SUBSET Index /\ begun'[a] \in SUBSET Index
        BY <1>6 DEF TypeOK
    <2>2. Cardinality(begun[a]) <= Cardinality(begun'[a])
        BY <2>1, <1>6, FewerOutstanding
    <2>3. Cardinality(begun[a]) <= MaxSeen
        BY <2>1, <2>2, MessagesFinite
    <2>4. seen[a] = begun[a]
        BY <2>3 DEF SeenWhileRoom
    <2> QED
        BY <2>4, <1>2, <1>6
<1>9. NothingSkipped'
    BY <1>6 DEF NothingSkipped
<1> QED
    BY <1>3, <1>4, <1>5, <1>7, <1>8, <1>9 DEF StreamInv, LifeBound

\* The end of a handler leaves the bus as it was, but for m.
LEMMA EndKeepsSeen ==
    ASSUME Inv, NEW a \in Agent, NEW m \in handling[a], Ack(a, m) \/ Nak(a, m),
           handling' = [handling EXCEPT ![a] = @ \ {m}], UNCHANGED <<seen, begun>>
    PROVE  SeenInv'
<1> USE DEF Inv
<1>1. m \in begun[a] /\ m \in Index
    BY DEF SeenIsBegun, TypeOK
<1>2. NothingSkipped'
    BY <1>1, AckEffect DEF NothingSkipped
<1>3. \A b \in Agent : handling'[b] \subseteq handling[b]
    BY DEF TypeOK
<1> QED
    BY <1>2, <1>3 DEF SeenInv, SeenIsBegun, SeenWhileRoom

\* The handler returned, perhaps with an answer: to a request, which was
\* addressed to this agent alone.
LEMMA ReturnKeepsInv ==
    ASSUME Inv, NEW a \in Agent, NEW m \in Index, Return(a, m)
    PROVE  Inv'
<1> USE DEF Inv
<1> DEFINE msg == [kind |-> "direct_reply", from |-> a, to |-> stream[m].from,
                   re |-> m, by |-> life[a]]
<1>1. /\ m \in handling[a] /\ Addressed(a, m) /\ Ack(a, m)
      /\ handling' = [handling EXCEPT ![a] = @ \ {m}]
      /\ done' = [done EXCEPT ![a] = @ \cup {m}]
      /\ UNCHANGED <<queue, seen, life, failures, begun>>
    BY DEF Return, Delivered
<1>2. m \in Published /\ stream[m] \in Message
    BY <1>1 DEF Addressed, Published, TypeOK
<1>3. /\ handling' \in [Agent -> SUBSET Index] /\ done' \in [Agent -> SUBSET Index]
      /\ \A b \in Agent : handling'[b] \subseteq handling[b]
    BY <1>1 DEF TypeOK
<1>4. \/ UNCHANGED stream
      \/ /\ stream[m].kind = "message"
         /\ Len(stream) < MaxStream /\ stream' = Append(stream, msg)
    BY DEF Return, Answer, Publish
<1>5. msg \in Message
    <2>1. stream[m].from \in Subject
        BY <1>2 DEF Message, Subject
    <2>2. m \in 0..MaxStream /\ life[a] \in 0..MaxFailures + 1
        BY DEF Index, TypeOK, Life
    <2> QED
        BY <2>1, <2>2 DEF Message, Kind
<1>6. msg.kind = "direct_reply" /\ msg.re = m /\ msg.from = a /\ msg.to = stream[m].from
    OBVIOUS
<1> HIDE DEF msg
<1>7. stream' \in Seq(Message) /\ Len(stream') <= MaxStream
    <2>1. stream \in Seq(Message) /\ Len(stream) <= MaxStream /\ Len(stream) \in Nat
        BY DEF TypeOK
    <2>2. CASE UNCHANGED stream
        BY <2>1, <2>2
    <2>3. CASE Len(stream) < MaxStream /\ stream' = Append(stream, msg)
        BY <2>1, <2>3, <1>5
    <2> QED
        BY <2>2, <2>3, <1>4
<1>11. /\ consumer' \in [Agent -> [Index -> Delivery]]
       /\ PendingLimit' /\ Undelivered'
    <2>1. Extended
        BY <1>4, <1>5 DEF Extended
    <2> QED
        BY <2>1, <1>1, <1>2, AckKeeps
<1>8. TypeOK'
    BY <1>1, <1>3, <1>7, <1>11 DEF TypeOK, PendingLimit
<1>9. StreamInv'
    <2>1. \A b \in Agent, u \in Subject : \A i \in 1..Len(queue'[b][u]) :
              Addressed(b, queue'[b][u][i])
        BY <1>1 DEF Delivered
    <2>2. \A b \in Agent : \A o \in handling'[b] : Addressed(b, o)
        BY <1>3 DEF Delivered
    <2>3. CASE UNCHANGED stream
        BY <2>1, <2>2, <2>3, QuietKeepsStream DEF StreamInv
    <2>4. CASE stream[m].kind = "message" /\ stream' = Append(stream, msg)
        <3>1. stream[m].to = a
            BY <2>4, <1>1, <1>2 DEF Delivered, Addressed
        <3>2. TypeOK /\ StreamInv /\ UNCHANGED queue
            BY <1>1 DEF StreamInv
        <3>3. msg.kind = "message" => msg.to \in Agent
            BY <1>6
        <3>4. msg.kind = "direct_reply" =>
                  /\ msg.re \in Published /\ stream[msg.re].kind = "message"
                  /\ stream[msg.re].to = msg.from /\ stream[msg.re].from = msg.to
            BY <1>2, <1>6, <2>4, <3>1
        <3> QED
            BY <2>4, <3>2, <3>3, <3>4, <1>3, <1>5, PublishKeepsStream
    <2> QED
        BY <2>3, <2>4, <1>4
<1>10. SeenInv'
    BY <1>1, EndKeepsSeen
<1> QED
    BY <1>1, <1>8, <1>9, <1>10, <1>11 DEF StreamInv, SeenInv, LifeBound


\* The handler raised, and the message is refused.
LEMMA RaiseKeepsInv ==
    ASSUME Inv, NEW a \in Agent, NEW m \in Index, Raise(a, m)
    PROVE  Inv'
<1> USE DEF Inv
<1>1. /\ m \in handling[a] /\ Nak(a, m)
      /\ handling' = [handling EXCEPT ![a] = @ \ {m}]
      /\ UNCHANGED <<stream, queue, seen, life, failures, begun, done>>
    BY DEF Raise
<1>2. /\ handling' \in [Agent -> SUBSET Index]
      /\ \A b \in Agent : handling'[b] \subseteq handling[b]
    BY <1>1 DEF TypeOK
<1>6. m \in Published
    BY <1>1 DEF Delivered, Addressed
<1>7. /\ consumer' \in [Agent -> [Index -> Delivery]]
      /\ PendingLimit' /\ Undelivered'
    BY <1>1, <1>6, AckKeeps DEF Extended
<1>3. TypeOK'
    BY <1>1, <1>2, <1>7 DEF TypeOK, PendingLimit
<1>4. StreamInv'
    BY <1>1, <1>2, QuietKeepsStream DEF StreamInv, Delivered
<1>5. SeenInv'
    BY <1>1, EndKeepsSeen
<1> QED
    BY <1>1, <1>3, <1>4, <1>5, <1>7 DEF StreamInv, SeenInv, LifeBound

\* What a lost connection or a process that ends takes with it of a's: the
\* queues and the running handlers.
Dropped(a) ==
    /\ queue' = [queue EXCEPT ![a] = [s \in Subject |-> <<>>]]
    /\ handling' = [handling EXCEPT ![a] = {}]
    /\ UNCHANGED stream

\* What was dropped is no longer waited for.
LEMMA DropKeepsStream ==
    ASSUME Inv, NEW a \in Agent, Dropped(a)
    PROVE  /\ StreamInv'
           /\ queue' \in [Agent -> [Subject -> Seq(Index)]]
           /\ handling' \in [Agent -> SUBSET Index]
           /\ handling'[a] = {} /\ \A b \in Agent \ {a} : handling'[b] = handling[b]
<1> USE DEF Inv, Dropped
<1>1. /\ queue' \in [Agent -> [Subject -> Seq(Index)]]
      /\ handling' \in [Agent -> SUBSET Index]
      /\ handling'[a] = {} /\ \A b \in Agent \ {a} : handling'[b] = handling[b]
    BY DEF TypeOK
<1>2. ASSUME NEW b \in Agent, NEW u \in Subject, NEW i \in 1..Len(queue'[b][u])
      PROVE  Addressed(b, queue'[b][u][i])
    <2>1. CASE b = a
        BY <2>1 DEF TypeOK
    <2>2. CASE b # a
        BY <2>2 DEF Delivered, TypeOK
    <2> QED
        BY <2>1, <2>2
<1>3. \A b \in Agent : \A o \in handling'[b] : Addressed(b, o)
    BY <1>1 DEF Delivered
<1>4. StreamInv'
    BY <1>2, <1>3, QuietKeepsStream DEF StreamInv
<1> QED
    BY <1>1, <1>4

\* The connection is closed and reopened.
LEMMA ReconnectKeepsInv ==
    ASSUME Inv, NEW a \in Agent, Reconnect(a)
    PROVE  Inv'
<1> USE DEF Inv
<1>1. /\ Dropped(a) /\ failures < MaxFailures /\ failures' = failures + 1
      /\ UNCHANGED <<consumer, seen, life, begun, done>>
    BY DEF Reconnect, Dropped
<1>2. /\ StreamInv'
      /\ queue' \in [Agent -> [Subject -> Seq(Index)]]
      /\ handling' \in [Agent -> SUBSET Index]
      /\ handling'[a] = {} /\ \A b \in Agent \ {a} : handling'[b] = handling[b]
    BY <1>1, DropKeepsStream
<1>3. UNCHANGED stream /\ failures' \in 0..MaxFailures
    BY <1>1 DEF Dropped, TypeOK
<1>4. PendingLimit' /\ Undelivered'
    BY <1>1, <1>3, ConsumerKept DEF Extended
<1>5. TypeOK'
    BY <1>1, <1>2, <1>3, <1>4 DEF TypeOK, PendingLimit
<1>6. SeenInv'
    BY <1>1, <1>2 DEF SeenInv, SeenIsBegun, SeenWhileRoom, NothingSkipped
<1>7. LifeBound'
    BY <1>1 DEF LifeBound, TypeOK, Life
<1> QED
    BY <1>2, <1>4, <1>5, <1>6, <1>7 DEF StreamInv, SeenInv

\* The process ends; the new one has seen nothing and begun nothing.
LEMMA RestartKeepsInv ==
    ASSUME Inv, NEW a \in Agent, Restart(a)
    PROVE  Inv'
<1> USE DEF Inv
<1>1. /\ Dropped(a) /\ failures < MaxFailures /\ failures' = failures + 1
      /\ life' = [life EXCEPT ![a] = @ + 1]
      /\ consumer' = [consumer EXCEPT ![a] = NewConsumer]
      /\ seen' = [seen EXCEPT ![a] = {}]
      /\ begun' = [begun EXCEPT ![a] = {}]
      /\ done' = [done EXCEPT ![a] = {}]
    BY DEF Restart, Dropped
<1>2. /\ StreamInv'
      /\ queue' \in [Agent -> [Subject -> Seq(Index)]]
      /\ handling' \in [Agent -> SUBSET Index]
      /\ handling'[a] = {} /\ \A b \in Agent \ {a} : handling'[b] = handling[b]
    BY <1>1, DropKeepsStream
<1>3. NewConsumer \in [Index -> Delivery]
    BY DEF NewConsumer, Delivery
<1>4. /\ consumer' \in [Agent -> [Index -> Delivery]]
      /\ consumer'[a] = NewConsumer /\ \A b \in Agent \ {a} : consumer'[b] = consumer[b]
    BY <1>1, <1>3 DEF TypeOK
<1>5. /\ seen' \in [Agent -> SUBSET Index]
      /\ begun' \in [Agent -> SUBSET Index]
      /\ done' \in [Agent -> SUBSET Index]
      /\ seen'[a] = {} /\ \A b \in Agent \ {a} : seen'[b] = seen[b]
      /\ begun'[a] = {} /\ \A b \in Agent \ {a} : begun'[b] = begun[b]
    BY <1>1 DEF TypeOK
<1>6. /\ UNCHANGED stream /\ failures' \in 0..MaxFailures
      /\ life' \in [Agent -> Life] /\ LifeBound'
    BY <1>1 DEF Dropped, TypeOK, LifeBound, Life
<1>7. PendingLimit' /\ Undelivered'
    <2>1. \A b \in Agent, o \in Index : Pending(b, o)' => Pending(b, o)
        BY <1>4 DEF Pending, NewConsumer
    <2>2. PendingLimit'
        BY <2>1, <1>6, LimitKept DEF Extended
    <2>3. Undelivered'
        BY <1>4, <1>6 DEF Undelivered, NewConsumer, Published
    <2> QED
        BY <2>2, <2>3
<1>10. \A b \in Agent : Cardinality(seen'[b]) <= MaxSeen
    <2>1. Cardinality(seen'[a]) = 0
        BY <1>5, FS_EmptySet
    <2>2. \A b \in Agent \ {a} : Cardinality(seen'[b]) <= MaxSeen
        BY <1>5 DEF TypeOK
    <2> QED
        BY <2>1, <2>2
<1>8. TypeOK'
    BY <1>2, <1>4, <1>5, <1>6, <1>7, <1>10 DEF TypeOK, PendingLimit
<1>9. SeenInv'
    <2>1. SeenIsBegun' /\ SeenWhileRoom'
        BY <1>2, <1>5 DEF SeenIsBegun, SeenWhileRoom
    <2>2. NothingSkipped'
        BY <1>4, <1>5 DEF NothingSkipped, NewConsumer
    <2> QED
        BY <2>1, <2>2 DEF SeenInv
<1> QED
    BY <1>2, <1>6, <1>7, <1>8, <1>9 DEF StreamInv, SeenInv

\* Every step keeps the invariant.
LEMMA NextKeepsInv == Inv /\ [Next]_vars => Inv'
<1> SUFFICES ASSUME Inv, [Next]_vars PROVE Inv'
    OBVIOUS
<1>1. ASSUME NEW a \in Sender, NEW b \in Agent \ {a}, SendMessage(a, b) PROVE Inv'
    BY <1>1, SendKeepsInv
<1>2. ASSUME NEW a \in Sender, Broadcast(a) PROVE Inv'
    BY <1>2, BroadcastKeepsInv
<1>3. ASSUME NEW a \in Agent, Server(a) PROVE Inv'
    BY <1>3, DeliverKeepsInv, TimeoutKeepsInv DEF Server
<1>4. ASSUME NEW a \in Agent, Callback(a) PROVE Inv'
    BY <1>4, SkipKeepsInv, BeginKeepsInv DEF Callback
<1>5. ASSUME NEW a \in Agent, Handler(a) PROVE Inv'
    BY <1>5, ReturnKeepsInv, RaiseKeepsInv DEF Handler
<1>6. ASSUME NEW a \in Agent, Reconnect(a) \/ Restart(a) PROVE Inv'
    BY <1>6, ReconnectKeepsInv, RestartKeepsInv
<1>7. CASE UNCHANGED vars
    <2>5. PendingLimit' /\ Undelivered'
        BY <1>7, ConsumerKept DEF vars, Inv, Extended
    <2>1. TypeOK'
        BY <1>7, <2>5 DEF vars, Inv, TypeOK, PendingLimit
    <2>2. StreamInv'
        BY <1>7, QuietKeepsStream DEF vars, Inv, StreamInv, Delivered
    <2>3. SeenInv'
        BY <1>7, SeenKept DEF vars, Inv, SeenInv
    <2>4. LifeBound'
        BY <1>7 DEF vars, Inv, LifeBound
    <2> QED
        BY <2>1, <2>2, <2>3, <2>4, <2>5 DEF Inv, StreamInv, SeenInv
<1> QED
    BY <1>1, <1>2, <1>3, <1>4, <1>5, <1>6, <1>7 DEF Next

\* The invariant holds in every reachable state.
LEMMA Invariance == Spec => []Inv
  BY InvInit, NextKeepsInv, PTL DEF Spec

----------------------------------------------------------------------------

\* The state keeps its shape, neither of an agent's two consumers has more than
\* MaxAckPending messages pending, through redeliveries, refusals and new
\* processes, and no bus remembers more than MaxSeen ids.
THEOREM TypeCorrect == Spec => []TypeOK
<1>1. Inv => TypeOK
    BY DEF Inv
<1> QED
    BY <1>1, Invariance, PTL

\* A message that a process acknowledged was begun by its handler: duplicate
\* suppression and the eviction of seen ids drop nothing unseen.
THEOREM NothingDropped == Spec => []NothingSkipped
<1>1. Inv => NothingSkipped
    BY DEF Inv
<1> QED
    BY <1>1, Invariance, PTL

\* An answer goes back to the agent that asked the one that answers, and
\* nothing but a request is answered.
THEOREM AnswersEnd == Spec => []OnlyRequestsAnswered
<1>1. Inv => OnlyRequestsAnswered
    BY DEF Inv
<1> QED
    BY <1>1, Invariance, PTL

\* One step of HandledOnce.
HandledOnceStep ==
    \A a \in Agent :
        life'[a] = life[a] /\ (handling'[a] \ handling[a]) \cap begun[a] # {}
            => Cardinality(begun[a]) > MaxSeen

\* Handlers are begun by Begin alone.
LEMMA HandlingShrinks ==
    ASSUME \A a \in Agent : handling'[a] \subseteq handling[a]
    PROVE  HandledOnceStep
  BY DEF HandledOnceStep

\* What Begin hands to the handler was not in the seen ids, and so was not
\* begun before if they hold all that was begun.
LEMMA BeginOnce ==
    ASSUME Inv, NEW a \in Agent, NEW s \in Subject, Begin(a, s)
    PROVE  HandledOnceStep
<1> USE DEF Inv
<1> PICK m \in Index :
        /\ m \notin seen[a]
        /\ handling' = [handling EXCEPT ![a] = handling[a] \cup {m}]
    BY DEF Begin, IsDuplicate
<1> SUFFICES ASSUME NEW b \in Agent, (handling'[b] \ handling[b]) \cap begun[b] # {}
             PROVE  Cardinality(begun[b]) > MaxSeen
    BY DEF HandledOnceStep
<1>1. b = a /\ m \in begun[a]
    BY DEF TypeOK
<1>2. seen[a] # begun[a]
    BY <1>1
<1>3. begun[a] \in SUBSET Index
    BY DEF TypeOK
<1>4. Cardinality(begun[a]) \in Nat
    BY <1>3, MessagesFinite
<1> QED
    BY <1>1, <1>2, <1>4 DEF SeenWhileRoom

\* Every step that begins to handle a message begins it for the first time.
LEMMA NextHandledOnce == Inv /\ [Next]_vars => HandledOnceStep
<1> SUFFICES ASSUME Inv, [Next]_vars PROVE HandledOnceStep
    OBVIOUS
<1> USE DEF Inv
<1>1. ASSUME NEW a \in Sender, NEW b \in Agent \ {a}, SendMessage(a, b)
      PROVE  HandledOnceStep
    BY <1>1, HandlingShrinks DEF SendMessage
<1>2. ASSUME NEW a \in Sender, Broadcast(a) PROVE HandledOnceStep
    BY <1>2, HandlingShrinks DEF Broadcast
<1>3. ASSUME NEW a \in Agent, Server(a) PROVE HandledOnceStep
    BY <1>3, HandlingShrinks DEF Server, Deliver, AckTimeout
<1>4. ASSUME NEW a \in Agent, Callback(a) PROVE HandledOnceStep
    <2>1. ASSUME NEW s \in Subject, SkipDuplicate(a, s) PROVE HandledOnceStep
        BY <2>1, HandlingShrinks DEF SkipDuplicate
    <2>2. ASSUME NEW s \in Subject, Begin(a, s) PROVE HandledOnceStep
        BY <2>2, BeginOnce
    <2> QED
        BY <1>4, <2>1, <2>2 DEF Callback
<1>5. ASSUME NEW a \in Agent, Handler(a) PROVE HandledOnceStep
    <2>1. PICK m : handling' = [handling EXCEPT ![a] = @ \ {m}]
        BY <1>5 DEF Handler, Return, Raise
    <2>2. \A b \in Agent : handling'[b] \subseteq handling[b]
        BY <2>1 DEF TypeOK
    <2> QED
        BY <2>2, HandlingShrinks
<1>6. ASSUME NEW a \in Agent, Reconnect(a) \/ Restart(a) PROVE HandledOnceStep
    <2>1. handling' = [handling EXCEPT ![a] = {}]
        BY <1>6 DEF Reconnect, Restart
    <2>2. \A b \in Agent : handling'[b] \subseteq handling[b]
        BY <2>1 DEF TypeOK
    <2> QED
        BY <2>2, HandlingShrinks
<1>7. CASE UNCHANGED vars
    BY <1>7, HandlingShrinks DEF vars
<1> QED
    BY <1>1, <1>2, <1>3, <1>4, <1>5, <1>6, <1>7 DEF Next

\* A process handles a message at most once, as long as it has begun no more
\* than _seen_message_ids can hold.
THEOREM AtMostOnce == Spec => HandledOnce
<1>1. Inv /\ [Next]_vars => [HandledOnceStep]_vars
    BY NextHandledOnce
<1>2. Spec => [][HandledOnceStep]_vars
    BY <1>1, Invariance, PTL DEF Spec
<1> QED
    BY <1>2 DEF HandledOnce, HandledOnceStep
=============================================================================

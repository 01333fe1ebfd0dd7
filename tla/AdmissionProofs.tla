-------------------------- MODULE AdmissionProofs --------------------------
(***************************************************************************)
(* Proofs about Admission, for any agents, people, limits and windows: the *)
(* shape of the state, what the token bucket lets pass, and how long       *)
(* agents that trust each other can keep a conversation going.             *)
(***************************************************************************)
EXTENDS Admission, FiniteSetTheorems, SequenceTheorems, TLAPS

\* Only a message that waits can be at the brain.
Busy == \A a \in Agent : thinking[a] => queue[a] # <<>>

\* What has been let pass since the i-th call, and what the bucket still holds,
\* are paid for by a full bucket and what has been earned since.
Paid ==
    \A a \in Agent : \A i \in DOMAIN granted[a] :
        /\ granted[a][i] <= refilled[a]
        /\ tokens[a] + (Len(granted[a]) - i + 1 - Calls) * Window
               <= (refilled[a] - granted[a][i]) * Calls

\* The inductive invariant.
Inv == TypeOK /\ Busy /\ Paid /\ WindowLimit

\* What can be said is a text.
LEMMA Texts == Plain \in Text /\ Command \in Text
  BY DEF Text

\* Posting keeps the channel's shape.
LEMMA PostType ==
    ASSUME TypeOK, NEW s \in Speaker, NEW x \in Text, Post(s, x)
    PROVE  channel' \in Seq([by : Speaker, text : Text]) /\ Len(channel') <= MaxMessages
<1>1. [by |-> s, text |-> x] \in [by : Speaker, text : Text]
    OBVIOUS
<1> QED
    BY <1>1, AdmissionAssumption DEF TypeOK, Post

\* Hearing keeps the position of the listener within the channel.
LEMMA HearsType ==
    ASSUME TypeOK, NEW a \in Agent, NEW m, Hears(a, m)
    PROVE  /\ heard' \in [Agent -> 0..MaxMessages]
           /\ heard'[a] \in 0..MaxMessages
  BY AdmissionAssumption DEF TypeOK, Hears

\* A refill takes tokens neither away nor beyond the size of the bucket.
LEMMA RefillBounds ==
    ASSUME TypeOK, NEW a \in Agent
    PROVE  /\ Refill(a) \in Nat /\ Refill(a) <= Calls * Window
           /\ Refill(a) <= tokens[a] + (now - refilled[a]) * Calls
<1>1. tokens[a] \in 0..(Calls * Window) /\ refilled[a] \in 0..now /\ now \in Nat
    BY DEF TypeOK
<1>2. Calls \in Nat /\ Window \in Nat /\ Calls * Window \in Nat
    BY AdmissionAssumption
<1>3. now - refilled[a] \in Nat
    BY <1>1
<1>4. (now - refilled[a]) * Calls \in Nat
    BY <1>2, <1>3
<1> QED
    BY <1>1, <1>2, <1>4 DEF Refill, AtMost

\* What is earned in two stretches is what is earned in both together.
LEMMA Earned ==
    ASSUME NEW x \in Int, NEW y \in Int, NEW z \in Int, NEW c \in Int
    PROVE  (y - x) * c + (z - y) * c = (z - x) * c
  OBVIOUS

\* Who could pay for what was spent can, with what was earned since, pay still.
LEMMA StillPaid ==
    ASSUME NEW held \in Int, NEW spent \in Int, NEW income \in Int, NEW more \in Int,
           NEW filled \in Int, held + spent <= income, filled <= held + more
    PROVE  filled + spent <= income + more
  OBVIOUS

\* A product of integers is one.
LEMMA Product == ASSUME NEW x \in Int, NEW y \in Int PROVE x * y \in Int
  OBVIOUS

\* One call more costs a window more.
LEMMA OneMore ==
    ASSUME NEW k \in Int, NEW w \in Int
    PROVE  (k + 1) * w = k * w + w
  OBVIOUS

\* Nothing is paid for by a bucket that was not touched.
LEMMA BucketKept ==
    ASSUME Paid, WindowLimit, UNCHANGED bucket
    PROVE  Paid' /\ WindowLimit'
  BY DEF Paid, WindowLimit, bucket

\* A step of anything but the lock's holder.
LEMMA BusyKept ==
    ASSUME TypeOK, Busy, UNCHANGED <<queue, thinking>>
    PROVE  Busy'
  BY DEF Busy

\* A message more in one queue.
LEMMA QueueGrows ==
    ASSUME TypeOK, Busy, NEW a \in Agent, NEW e \in Entry,
           queue' = [queue EXCEPT ![a] = Append(@, e)], UNCHANGED thinking
    PROVE  queue' \in [Agent -> Seq(Entry)] /\ Busy'
<1>1. queue \in [Agent -> Seq(Entry)]
    BY DEF TypeOK
<1>2. Append(queue[a], e) \in Seq(Entry) /\ Append(queue[a], e) # <<>>
    BY <1>1
<1>3. queue' \in [Agent -> Seq(Entry)]
    BY <1>1, <1>2
<1>4. \A b \in Agent : queue'[b] = IF b = a THEN Append(queue[a], e) ELSE queue[b]
    BY <1>1
<1> QED
    BY <1>2, <1>3, <1>4 DEF Busy

\* The first message of a queue is done.
LEMMA QueueShrinks ==
    ASSUME TypeOK, NEW a \in Agent, Pop(a), queue[a] # <<>>
    PROVE  /\ queue' \in [Agent -> Seq(Entry)]
           /\ \A b \in Agent \ {a} : queue'[b] = queue[b]
  BY DEF TypeOK, Pop

\* The invariant holds when the agents start.
LEMMA InvInit == Init => Inv
<1> SUFFICES ASSUME Init PROVE Inv
    OBVIOUS
<1> USE AdmissionAssumption DEF Init
<1>1. Calls * Window \in Nat
    OBVIOUS
<1>2. TypeOK
    BY <1>1 DEF TypeOK
<1>3. Busy /\ Paid /\ WindowLimit
    BY DEF Busy, Paid, WindowLimit
<1> QED
    BY <1>2, <1>3 DEF Inv

\* Talking and the passing of time.
LEMMA SpeakKeepsInv ==
    ASSUME Inv, NEW s \in Speaker, NEW x \in Text, Speak(s, x)
    PROVE  Inv'
<1> USE DEF Speak, Inv
<1>1. channel' \in Seq([by : Speaker, text : Text]) /\ Len(channel') <= MaxMessages
    BY PostType
<1>2. spoken' \in 0..MaxSpoken
    BY AdmissionAssumption DEF TypeOK
<1>3. TypeOK'
    BY <1>1, <1>2 DEF TypeOK, bucket
<1> QED
    BY <1>3, BucketKept, BusyKept

LEMMA TickKeepsInv ==
    ASSUME Inv, Tick
    PROVE  Inv'
<1> USE DEF Tick, Inv
<1>1. now \in Nat /\ now' \in 0..MaxTime /\ now' = now + 1
    BY AdmissionAssumption DEF TypeOK
<1>2. 0..now \subseteq 0..now'
    BY <1>1
<1>3. Seq(0..now) \subseteq Seq(0..now')
    <2> SUFFICES ASSUME NEW times \in Seq(0..now) PROVE times \in Seq(0..now')
        OBVIOUS
    <2>1. times \in [1..Len(times) -> 0..now']
        BY <1>2, LenProperties
    <2> QED
        BY <2>1, LenProperties, IsASeq
<1>4. granted' \in [Agent -> Seq(0..now')] /\ refilled' \in [Agent -> 0..now']
    BY <1>2, <1>3 DEF TypeOK, bucket
<1>5. TypeOK'
    BY <1>1, <1>4 DEF TypeOK, bucket
<1> QED
    BY <1>5, BucketKept, BusyKept

\* Whatever the callback of the adapter does with a message.
LEMMA HearKeepsInv ==
    ASSUME Inv, NEW a \in Agent, Hear(a)
    PROVE  Inv'
<1> USE DEF Inv
<1>8. ASSUME NEW i \in DOMAIN channel PROVE channel[i].by \in Speaker
    <2>1. channel \in Seq([by : Speaker, text : Text]) /\ i \in 1..Len(channel)
        BY DEF TypeOK
    <2>2. channel[i] \in [by : Speaker, text : Text]
        BY <2>1, ElementOfSeq
    <2> QED
        BY <2>2
<1> PICK m \in {channel[i] : i \in DOMAIN channel} :
        HearOwn(a, m) \/ Refuse(a, m) \/ Ignore(a, m) \/ Admit(a, m) \/ Dispatch(a, m)
    BY DEF Hear
<1>1. Hears(a, m)
    BY DEF HearOwn, Refuse, Ignore, Admit, Dispatch
<1>2. heard' \in [Agent -> 0..MaxMessages] /\ heard'[a] \in 0..MaxMessages
    BY <1>1, HearsType
<1>3. UNCHANGED <<spoken, inbox, thinking, bucket, now, requests>>
    BY DEF HearOwn, Refuse, Ignore, Admit, Dispatch
<1>4. channel' \in Seq([by : Speaker, text : Text]) /\ Len(channel') <= MaxMessages
    <2>1. UNCHANGED channel \/ Post(a, Plain)
        BY DEF HearOwn, Refuse, Ignore, Admit, Dispatch
    <2> QED
        BY <2>1, PostType, Texts DEF TypeOK, Speaker
<1>5. chatter' \in [Agent -> 0..BotChatLimit]
    <2>1. CASE UNCHANGED chatter
        BY <2>1 DEF TypeOK
    <2>2. CASE chatter' = [chatter EXCEPT ![a] = Counted(a, m)] /\ ~TooMuch(a, m)
        <3>1. chatter[a] \in 0..BotChatLimit
            BY DEF TypeOK
        <3>2. Counted(a, m) \in 0..BotChatLimit
            BY <2>2, <3>1, AdmissionAssumption DEF Counted, TooMuch
        <3> QED
            BY <2>2, <3>2 DEF TypeOK
    <2> QED
        BY <2>1, <2>2 DEF HearOwn, Refuse, Ignore, Admit, Dispatch
<1>6. queue' \in [Agent -> Seq(Entry)] /\ Busy'
    <2>1. CASE UNCHANGED queue
        BY <2>1, <1>3, BusyKept DEF TypeOK
    <2>2. CASE queue' = [queue EXCEPT ![a] =
                             Append(@, [id |-> heard'[a], by |-> m.by, via |-> a])]
        <3>1. heard'[a] \in Int /\ m.by \in Speaker
            BY <1>2, <1>8, AdmissionAssumption
        <3>2. [id |-> heard'[a], by |-> m.by, via |-> a] \in Entry
            BY <3>1 DEF Entry
        <3> QED
            BY <2>2, <3>2, <1>3, QueueGrows
    <2> QED
        BY <2>1, <2>2 DEF HearOwn, Refuse, Ignore, Admit, Dispatch
<1>7. TypeOK'
    BY <1>2, <1>3, <1>4, <1>5, <1>6 DEF TypeOK, bucket
<1> QED
    BY <1>3, <1>6, <1>7, BucketKept

\* A request more waits.
LEMMA InboxGrows ==
    ASSUME Inv, NEW b \in Agent, NEW q \in Request,
           inbox' = [inbox EXCEPT ![b] = Append(@, q)],
           UNCHANGED <<channel, spoken, heard, chatter, queue, thinking, bucket, now, requests>>
    PROVE  Inv'
<1> USE DEF Inv
<1>1. inbox' \in [Agent -> Seq(Request)]
    BY DEF TypeOK
<1>2. TypeOK'
    BY <1>1 DEF TypeOK, bucket
<1> QED
    BY <1>2, BucketKept, BusyKept

LEMMA AskKeepsInv ==
    ASSUME Inv, NEW a \in Agent, NEW b \in Agent, NEW x \in Content, Ask(a, b, x)
    PROVE  Inv'
<1> DEFINE s == Head(queue[a]).by
           poster == IF s = Nobody THEN Nobody ELSE IF b \in Away THEN a ELSE b
<1>1. queue[a] # <<>> /\ queue[a] \in Seq(Entry)
    BY DEF Inv, TypeOK, Busy, Ask
<1>2. Head(queue[a]) \in Entry
    BY <1>1
<1>3. s \in Speaker \cup {Nobody}
    BY <1>2 DEF Entry
<1>4. poster \in Agent \cup {Nobody}
    OBVIOUS
<1>5. /\ inbox' = [inbox EXCEPT ![b] = Append(@, [by |-> s, via |-> poster, text |-> x])]
      /\ UNCHANGED <<channel, spoken, heard, chatter, queue, thinking, bucket, now, requests>>
    BY DEF Ask
<1> HIDE DEF s, poster
<1>6. [by |-> s, via |-> poster, text |-> x] \in Request
    BY <1>3, <1>4 DEF Request
<1> QED
    BY <1>5, <1>6, InboxGrows

LEMMA AskByJobKeepsInv ==
    ASSUME Inv, NEW b \in Agent, AskByJob(b)
    PROVE  Inv'
<1>1. [by |-> Nobody, via |-> Nobody, text |-> Blank] \in Request
    BY DEF Request, Content
<1> QED
    BY <1>1, InboxGrows DEF AskByJob

\* What is taken up is what waited.
LEMMA TakesType ==
    ASSUME Inv, NEW a \in Agent, NEW q, Takes(a, q)
    PROVE  /\ q \in Request /\ inbox' \in [Agent -> Seq(Request)]
           /\ requests' \in 0..MaxRequests /\ requests \in Nat /\ requests' = requests + 1
<1>1. inbox \in [Agent -> Seq(Request)] /\ inbox[a] # <<>> /\ q = Head(inbox[a])
    BY DEF Inv, TypeOK, Takes
<1>2. q \in Request /\ Tail(inbox[a]) \in Seq(Request)
    BY <1>1
<1>3. inbox' \in [Agent -> Seq(Request)]
    BY <1>1, <1>2 DEF Takes
<1>4. requests' \in 0..MaxRequests /\ requests \in Nat /\ requests' = requests + 1
    BY AdmissionAssumption DEF Inv, TypeOK, Takes
<1> QED
    BY <1>2, <1>3, <1>4

\* The counter is within its limit, whether a message or a request is let in.
LEMMA CountedType ==
    ASSUME TypeOK, NEW a \in Agent, NEW m, ~TooMuch(a, m)
    PROVE  Counted(a, m) \in 0..BotChatLimit
<1>1. chatter[a] \in 0..BotChatLimit /\ BotChatLimit \in Nat
    BY AdmissionAssumption DEF TypeOK
<1> QED
    BY <1>1 DEF Counted, TooMuch

LEMMA ReceiveKeepsInv ==
    ASSUME Inv, NEW a \in Agent, Receive(a)
    PROVE  Inv'
<1> USE DEF Inv
<1> PICK q : TurnDown(a, q) \/ TakeUp(a, q)
    BY DEF Receive
<1>1. Takes(a, q)
    BY DEF TurnDown, TakeUp
<1>2. /\ q \in Request /\ inbox' \in [Agent -> Seq(Request)]
      /\ requests' \in 0..MaxRequests /\ requests \in Nat /\ requests' = requests + 1
    BY <1>1, TakesType
<1>3. UNCHANGED <<channel, spoken, heard, thinking, bucket, now>>
    BY <1>1 DEF Takes
<1>4. chatter' \in [Agent -> 0..BotChatLimit]
    <2>1. CASE UNCHANGED chatter
        BY <2>1 DEF TypeOK
    <2>2. CASE chatter' = [chatter EXCEPT ![a] = Counted(a, q)] /\ ~TooMuch(a, q)
        <3>1. Counted(a, q) \in 0..BotChatLimit
            BY <2>2, CountedType
        <3> QED
            BY <2>2, <3>1 DEF TypeOK
    <2> QED
        BY <2>1, <2>2 DEF TurnDown, TakeUp
<1>5. queue' \in [Agent -> Seq(Entry)] /\ Busy'
    <2>1. CASE TurnDown(a, q)
        BY <2>1, <1>3, BusyKept DEF TypeOK, TurnDown
    <2>2. CASE TakeUp(a, q)
        <3> DEFINE e == [id |-> -requests', by |-> q.by, via |-> q.via]
        <3>1. q.by \in Speaker \cup {Nobody} /\ q.via \in Agent \cup {Nobody}
              /\ -requests' \in Int
            BY <1>2 DEF Request
        <3>2. e \in Entry
            BY <3>1 DEF Entry
        <3>3. queue' = [queue EXCEPT ![a] = Append(@, e)]
            BY <2>2 DEF TakeUp
        <3> HIDE DEF e
        <3> QED
            BY <1>3, <3>2, <3>3, QueueGrows
    <2> QED
        BY <2>1, <2>2
<1>6. TypeOK'
    BY <1>2, <1>3, <1>4, <1>5 DEF TypeOK, bucket
<1> QED
    BY <1>3, <1>5, <1>6, BucketKept

\* An answer is posted by an agent, or not at all.
LEMMA ReplyPosts ==
    ASSUME TypeOK, NEW a \in Agent, queue[a] # <<>>, NEW x \in Text,
           Reply(a, x) \/ UNCHANGED channel
    PROVE  \/ UNCHANGED channel
           \/ /\ Head(queue[a]).via \in Agent /\ Head(queue[a]).via # Nobody
              /\ Post(Head(queue[a]).via, x)
<1>1. queue[a] \in Seq(Entry)
    BY DEF TypeOK
<1>2. Head(queue[a]) \in Entry
    BY <1>1
<1>3. Head(queue[a]).via \in Agent \cup {Nobody}
    BY <1>2 DEF Entry
<1> QED
    BY <1>3 DEF Reply

\* A call that passes is paid for.
LEMMA BeginPaid ==
    ASSUME Inv, NEW a \in Agent, Begin(a)
    PROVE  TypeOK' /\ Paid' /\ WindowLimit'
<1> USE DEF Inv
<1> DEFINE n == Len(granted[a])
<1>1. /\ tokens' = [tokens EXCEPT ![a] = Refill(a) - Window]
      /\ refilled' = [refilled EXCEPT ![a] = now]
      /\ granted' = [granted EXCEPT ![a] = Append(granted[a], now)]
      /\ Refill(a) >= Window /\ now' = now
    BY DEF Begin, Begins
<1>2. /\ tokens[a] \in Nat /\ refilled[a] \in 0..now /\ now \in Nat
      /\ granted[a] \in Seq(0..now) /\ n \in Nat
      /\ Calls \in Nat \ {0} /\ Window \in Nat \ {0} /\ Calls * Window \in Nat
    BY AdmissionAssumption DEF TypeOK
<1>3. /\ Refill(a) \in Nat /\ Refill(a) <= Calls * Window
      /\ Refill(a) <= tokens[a] + (now - refilled[a]) * Calls
    BY RefillBounds
<1>4. tokens'[a] = Refill(a) - Window /\ tokens'[a] \in 0..(Calls * Window)
    BY <1>1, <1>2, <1>3 DEF TypeOK
<1>5. /\ granted'[a] \in Seq(0..now) /\ Len(granted'[a]) = n + 1
      /\ granted'[a][n + 1] = now /\ \A i \in 1..n : granted'[a][i] = granted[a][i]
      /\ DOMAIN granted'[a] = 1..(n + 1) /\ DOMAIN granted[a] = 1..n
      /\ refilled'[a] = now
    BY <1>1, <1>2 DEF TypeOK
<1>6. TypeOK'
    <2>1. tokens' \in [Agent -> 0..(Calls * Window)]
        BY <1>1, <1>4 DEF TypeOK
    <2>2. refilled' \in [Agent -> 0..now'] /\ granted' \in [Agent -> Seq(0..now')]
        BY <1>1, <1>2, <1>5 DEF TypeOK
    <2>3. thinking' \in [Agent -> BOOLEAN]
        BY DEF Begin, TypeOK
    <2> QED
        BY <2>1, <2>2, <2>3 DEF TypeOK, Begin
<1>7. ASSUME NEW i \in 1..n
      PROVE  tokens'[a] + ((n + 1) - i + 1 - Calls) * Window <= (now - granted[a][i]) * Calls
    <2>1. granted[a][i] \in 0..now
        BY <1>2
    <2>2. tokens[a] + (n - i + 1 - Calls) * Window <= (refilled[a] - granted[a][i]) * Calls
        BY <1>5 DEF Paid
    <2>3. ((n + 1) - i + 1 - Calls) * Window = (n - i + 1 - Calls) * Window + Window
        <3>1. n - i + 1 - Calls \in Int /\ (n + 1) - i + 1 - Calls = (n - i + 1 - Calls) + 1
            BY <1>2
        <3> QED
            BY <3>1, <1>2, OneMore
    <2>4. (refilled[a] - granted[a][i]) * Calls + (now - refilled[a]) * Calls
              = (now - granted[a][i]) * Calls
        BY <1>2, <2>1, Earned
    <2>5. /\ (n - i + 1 - Calls) * Window \in Int
          /\ (refilled[a] - granted[a][i]) * Calls \in Int
          /\ (now - refilled[a]) * Calls \in Int
        <3>1. /\ n - i + 1 - Calls \in Int /\ refilled[a] - granted[a][i] \in Int
              /\ now - refilled[a] \in Int /\ Window \in Int /\ Calls \in Int
            BY <1>2, <2>1
        <3> QED
            BY <3>1, Product
    <2> DEFINE spent == (n - i + 1 - Calls) * Window
               income == (refilled[a] - granted[a][i]) * Calls
               more == (now - refilled[a]) * Calls
    <2>6. /\ spent \in Int /\ income \in Int /\ more \in Int
          /\ tokens[a] + spent <= income /\ Refill(a) <= tokens[a] + more
        BY <1>3, <2>2, <2>5
    <2>7. ((n + 1) - i + 1 - Calls) * Window = spent + Window
        BY <2>3
    <2>8. (now - granted[a][i]) * Calls = income + more
        BY <2>4
    <2> HIDE DEF n, spent, income, more
    <2>9. Refill(a) + spent <= income + more
        BY <1>2, <1>3, <2>6, StillPaid
    <2> QED
        BY <1>2, <1>3, <1>4, <2>6, <2>7, <2>8, <2>9
<1>8. tokens'[a] + ((n + 1) - (n + 1) + 1 - Calls) * Window <= (now - now) * Calls
    <2>1. (1 - Calls) * Window = Window - Calls * Window
        BY <1>2
    <2>2. (n + 1) - (n + 1) + 1 - Calls = 1 - Calls /\ (now - now) * Calls = 0
        BY <1>2
    <2> QED
        BY <1>2, <1>3, <1>4, <2>1, <2>2
<1>9. ASSUME NEW i \in 1..(n + 1)
      PROVE  /\ granted'[a][i] <= now
             /\ tokens'[a] + ((n + 1) - i + 1 - Calls) * Window <= (now - granted'[a][i]) * Calls
    <2>1. CASE i = n + 1
        BY <2>1, <1>2, <1>5, <1>8
    <2>2. CASE i \in 1..n
        <3>1. granted'[a][i] = granted[a][i]
            BY <2>2, <1>5
        <3>2. granted[a][i] \in 0..now
            BY <2>2, <1>2, ElementOfSeq
        <3>3. granted'[a][i] <= now
            BY <3>1, <3>2, <1>2
        <3>4. tokens'[a] + ((n + 1) - i + 1 - Calls) * Window <= (now - granted[a][i]) * Calls
            BY <2>2, <1>7
        <3> HIDE DEF n
        <3> QED
            BY <3>1, <3>3, <3>4
    <2> QED
        BY <2>1, <2>2, <1>2
<1>10. Paid'
    <2> SUFFICES ASSUME NEW b \in Agent, NEW i \in DOMAIN granted'[b]
                 PROVE  /\ granted'[b][i] <= refilled'[b]
                        /\ tokens'[b] + (Len(granted'[b]) - i + 1 - Calls) * Window
                               <= (refilled'[b] - granted'[b][i]) * Calls
        BY DEF Paid
    <2>1. CASE b = a
        BY <2>1, <1>5, <1>9
    <2>2. CASE b # a
        <3>1. tokens'[b] = tokens[b] /\ refilled'[b] = refilled[b] /\ granted'[b] = granted[b]
            BY <2>2, <1>1 DEF TypeOK
        <3> QED
            BY <3>1 DEF Paid
    <2> QED
        BY <2>1, <2>2
<1>11. WindowLimit'
    <2> SUFFICES ASSUME NEW b \in Agent, NEW i \in DOMAIN granted'[b],
                        NEW j \in DOMAIN granted'[b], i <= j
                 PROVE  (j - i + 1 - Calls) * Window
                            <= (granted'[b][j] - granted'[b][i]) * Calls
        BY DEF WindowLimit
    <2>1. CASE b # a
        <3>1. granted'[b] = granted[b]
            BY <2>1, <1>1 DEF TypeOK
        <3> QED
            BY <3>1 DEF WindowLimit
    <2>2. CASE b = a /\ j = n + 1
        <3>1. i \in 1..(n + 1) /\ granted'[a][j] = now
            BY <2>2, <1>5
        <3>2. tokens'[a] + ((n + 1) - i + 1 - Calls) * Window <= (now - granted'[a][i]) * Calls
            BY <3>1, <1>9
        <3>3. granted'[a][i] \in 0..now
            BY <3>1, <1>5, ElementOfSeq
        <3>4. ((n + 1) - i + 1 - Calls) * Window \in Int /\ (now - granted'[a][i]) * Calls \in Int
            <4>1. /\ (n + 1) - i + 1 - Calls \in Int /\ now - granted'[a][i] \in Int
                  /\ Window \in Int /\ Calls \in Int
                BY <3>1, <3>3, <1>2
            <4> QED
                BY <4>1, Product
        <3> HIDE DEF n
        <3>5. tokens'[a] \in Nat
            BY <1>2, <1>4
        <3>6. ((n + 1) - i + 1 - Calls) * Window <= (now - granted'[a][i]) * Calls
            BY <3>2, <3>4, <3>5
        <3> QED
            BY <2>2, <3>1, <3>6
    <2>3. CASE b = a /\ j # n + 1
        <3>1. j \in 1..n /\ i \in 1..n
            <4>1. i \in 1..(n + 1) /\ j \in 1..(n + 1) /\ n \in Nat
                BY <2>3, <1>2, <1>5
            <4> HIDE DEF n
            <4> QED
                BY <2>3, <4>1
        <3>2. granted'[a][i] = granted[a][i] /\ granted'[a][j] = granted[a][j]
            BY <3>1, <1>5
        <3> QED
            BY <2>3, <3>1, <3>2, <1>5 DEF WindowLimit
    <2> QED
        BY <2>1, <2>2, <2>3
<1> QED
    BY <1>6, <1>10, <1>11

LEMMA BeginKeepsInv ==
    ASSUME Inv, NEW a \in Agent, Begin(a)
    PROVE  Inv'
<1>1. Busy'
    BY DEF Inv, TypeOK, Busy, Begin, Begins
<1> QED
    BY <1>1, BeginPaid DEF Inv

\* A refusal only refills the bucket.
LEMMA PostponeKeepsInv ==
    ASSUME Inv, NEW a \in Agent, Postpone(a)
    PROVE  Inv'
<1> USE DEF Inv
<1>1. /\ tokens' = [tokens EXCEPT ![a] = Refill(a)]
      /\ refilled' = [refilled EXCEPT ![a] = now]
      /\ granted' = granted /\ now' = now /\ thinking' = thinking
      /\ queue[a] # <<>> /\ ~thinking[a] /\ Pop(a)
    BY DEF Postpone, Begins
<1>2. /\ tokens[a] \in Nat /\ refilled[a] \in 0..now /\ now \in Nat
      /\ granted[a] \in Seq(0..now)
      /\ Calls \in Nat /\ Window \in Nat
    BY AdmissionAssumption DEF TypeOK
<1>3. /\ Refill(a) \in Nat /\ Refill(a) <= Calls * Window
      /\ Refill(a) <= tokens[a] + (now - refilled[a]) * Calls
    BY RefillBounds
<1>4. queue' \in [Agent -> Seq(Entry)] /\ \A b \in Agent \ {a} : queue'[b] = queue[b]
    BY <1>1, QueueShrinks
<1>5. channel' \in Seq([by : Speaker, text : Text]) /\ Len(channel') <= MaxMessages
    <2>1. UNCHANGED channel \/ \E s \in Agent : Post(s, Plain)
        BY <1>1, ReplyPosts, Texts DEF Postpone
    <2> QED
        BY <2>1, PostType, Texts DEF TypeOK, Speaker
<1>6. TypeOK'
    <2>1. Refill(a) \in 0..(Calls * Window)
        BY <1>2, <1>3
    <2>2. tokens' \in [Agent -> 0..(Calls * Window)] /\ refilled' \in [Agent -> 0..now']
        BY <1>1, <1>2, <2>1 DEF TypeOK
    <2> QED
        BY <1>1, <1>4, <1>5, <2>2 DEF TypeOK, Postpone
<1>7. Busy'
    BY <1>1, <1>4 DEF Busy
<1>8. Paid'
    <2> SUFFICES ASSUME NEW b \in Agent, NEW i \in DOMAIN granted[b]
                 PROVE  /\ granted[b][i] <= refilled'[b]
                        /\ tokens'[b] + (Len(granted[b]) - i + 1 - Calls) * Window
                               <= (refilled'[b] - granted[b][i]) * Calls
        BY <1>1 DEF Paid
    <2>1. CASE b # a
        <3>1. tokens'[b] = tokens[b] /\ refilled'[b] = refilled[b]
            BY <2>1, <1>1 DEF TypeOK
        <3> QED
            BY <3>1 DEF Paid
    <2>2. CASE b = a
        <3>1. tokens'[a] = Refill(a) /\ refilled'[a] = now
            BY <1>1 DEF TypeOK
        <3>2. /\ granted[a][i] \in 0..now /\ i \in Nat /\ Len(granted[a]) \in Nat
              /\ tokens[a] + (Len(granted[a]) - i + 1 - Calls) * Window
                     <= (refilled[a] - granted[a][i]) * Calls
            <4>1. granted[a] \in Seq(0..now) /\ i \in 1..Len(granted[a])
                BY <2>2, <1>2
            <4>2. i \in Nat /\ Len(granted[a]) \in Nat
                BY <4>1
            <4>3. granted[a][i] \in 0..now
                BY <4>1, ElementOfSeq
            <4> QED
                BY <2>2, <4>2, <4>3 DEF Paid
        <3>3. (refilled[a] - granted[a][i]) * Calls + (now - refilled[a]) * Calls
                  = (now - granted[a][i]) * Calls
            <4>1. granted[a][i] \in Int /\ refilled[a] \in Int /\ now \in Int /\ Calls \in Int
                BY <1>2, <3>2
            <4> QED
                BY <4>1, Earned
        <3>4. /\ (Len(granted[a]) - i + 1 - Calls) * Window \in Int
              /\ (refilled[a] - granted[a][i]) * Calls \in Int
              /\ (now - refilled[a]) * Calls \in Int
            <4>1. /\ Len(granted[a]) - i + 1 - Calls \in Int
                  /\ refilled[a] - granted[a][i] \in Int /\ now - refilled[a] \in Int
                  /\ Window \in Int /\ Calls \in Int
                BY <1>2, <3>2
            <4> QED
                BY <4>1, Product
        <3> DEFINE spent == (Len(granted[a]) - i + 1 - Calls) * Window
                   income == (refilled[a] - granted[a][i]) * Calls
                   more == (now - refilled[a]) * Calls
        <3>5. /\ spent \in Int /\ income \in Int /\ more \in Int
              /\ tokens[a] + spent <= income /\ Refill(a) <= tokens[a] + more
            BY <1>3, <3>2, <3>4
        <3>6. (now - granted[a][i]) * Calls = income + more
            BY <3>3
        <3> HIDE DEF spent, income, more
        <3>7. Refill(a) + spent <= income + more
            BY <1>2, <1>3, <3>5, StillPaid
        <3>8. Refill(a) + spent <= (now - granted[a][i]) * Calls
            BY <3>6, <3>7
        <3>9. granted[a][i] <= now
            BY <1>2, <3>2
        <3> QED
            BY <2>2, <3>1, <3>8, <3>9 DEF spent
    <2> QED
        BY <2>1, <2>2
<1>9. WindowLimit'
    BY <1>1 DEF WindowLimit
<1> QED
    BY <1>6, <1>7, <1>8, <1>9

\* An answer touches the channel and the queue.
LEMMA AnswerKeepsInv ==
    ASSUME Inv, NEW a \in Agent, NEW x \in Text, Answer(a, x)
    PROVE  Inv'
<1> USE DEF Inv
<1>1. /\ thinking' = [thinking EXCEPT ![a] = FALSE] /\ queue[a] # <<>> /\ Pop(a)
      /\ UNCHANGED <<spoken, heard, chatter, inbox, bucket, now, requests>>
    BY DEF Answer, Busy
<1>2. queue' \in [Agent -> Seq(Entry)] /\ \A b \in Agent \ {a} : queue'[b] = queue[b]
    BY <1>1, QueueShrinks
<1>3. channel' \in Seq([by : Speaker, text : Text]) /\ Len(channel') <= MaxMessages
    <2>1. UNCHANGED channel \/ \E s \in Agent : Post(s, x)
        BY <1>1, ReplyPosts DEF Answer
    <2> QED
        BY <2>1, PostType DEF TypeOK, Speaker
<1>4. TypeOK'
    BY <1>1, <1>2, <1>3 DEF TypeOK, bucket
<1>5. Busy'
    BY <1>1, <1>2 DEF Busy, TypeOK
<1> QED
    BY <1>1, <1>4, <1>5, BucketKept

\* Nothing happens.
LEMMA StutterKeepsInv == Inv /\ UNCHANGED vars => Inv'
<1> SUFFICES ASSUME Inv, UNCHANGED vars PROVE Inv'
    OBVIOUS
<1>1. TypeOK'
    BY DEF Inv, TypeOK, vars
<1>2. UNCHANGED bucket /\ UNCHANGED <<queue, thinking>>
    BY DEF vars, bucket
<1> QED
    BY <1>1, <1>2, BucketKept, BusyKept DEF Inv

\* Every step keeps the invariant.
LEMMA NextKeepsInv == Inv /\ [Next]_vars => Inv'
<1> SUFFICES ASSUME Inv, [Next]_vars PROVE Inv'
    OBVIOUS
<1>1. CASE \E s \in Person \cup Here, x \in Text : Speak(s, x)
    BY <1>1, SpeakKeepsInv DEF Speaker, Here
<1>2. ASSUME NEW a \in Agent,
             Hear(a) \/ AskByJob(a) \/ Receive(a) \/ Handle(a)
      PROVE  Inv'
    BY <1>2, HearKeepsInv, AskByJobKeepsInv, ReceiveKeepsInv, BeginKeepsInv,
       PostponeKeepsInv, AnswerKeepsInv
       DEF Handle
<1>5. ASSUME NEW a \in Agent, NEW b \in Agent, NEW x \in Content, Ask(a, b, x)
      PROVE  Inv'
    BY <1>5, AskKeepsInv
<1>3. CASE Tick
    BY <1>3, TickKeepsInv
<1>4. CASE UNCHANGED vars
    BY <1>4, StutterKeepsInv
<1> QED
    BY <1>1, <1>2, <1>3, <1>4, <1>5 DEF Next, Here

LEMMA Invariance == Spec => []Inv
  BY InvInit, NextKeepsInv, PTL DEF Spec

----------------------------------------------------------------------------

\* The state keeps its shape: no counter of bot messages passes its limit, no
\* bucket holds more than its size or less than nothing.
THEOREM AdmissionTypeCorrect == Spec => []TypeOK
<1>1. Inv => TypeOK
    BY DEF Inv
<1> QED
    BY <1>1, Invariance, PTL

\* In any stretch of time the bucket lets at most as many messages of an agent pass
\* as a full bucket and what is earned during the stretch pay for.
THEOREM WindowSafety == Spec => []WindowLimit
<1>1. Inv => WindowLimit
    BY DEF Inv
<1> QED
    BY <1>1, Invariance, PTL

----------------------------------------------------------------------------
(***************************************************************************)
(* How long a conversation of agents can go on.  Every message of the      *)
(* channel, and every one that an agent has let in and not yet answered,   *)
(* is charged to a message that nobody asked for: as this message itself,  *)
(* as an agent's answer to it (0), or as one of the remarks that an agent  *)
(* may make about bots until the next person speaks; or to a request: as   *)
(* its answer (0), or as one of the remarks of an agent whose counter it   *)
(* has set to zero.  No two are charged alike.                             *)
(***************************************************************************)

Decent == \A i \in DOMAIN channel :
              channel[i].by \in Agent => channel[i].text \in {Plain, Command}

Reason == {<<Nobody, 0>>} \cup (Here \X (0..BotChatLimit))

\* The requests by their numbers.
Asks == (-requests)..(-1)

\* S: where the channel has the messages that nobody asked for.
Funds(S) == (S \X Reason) \cup (Asks \X (0..BotChatLimit))

Unasked(S) ==
    /\ S \subseteq DOMAIN channel /\ Cardinality(S) = spoken
    /\ \A p \in DOMAIN channel : p \in S \/ channel[p].by \in Agent
    /\ Len(channel) > 0 => 1 \in S

\* <<Nobody, p>> stands for the p-th message, <<a, e>> for what a has in its queue.
Keys(K) ==
    /\ \A p \in DOMAIN channel : <<Nobody, p>> \in K
    /\ \A p : <<Nobody, p>> \in K => p \in DOMAIN channel
    /\ \A a \in Agent : \A i \in DOMAIN queue[a] : <<a, queue[a][i].id>> \in K
    /\ \A a \in Agent : \A e : <<a, e>> \in K => e \in (1..heard[a]) \cup Asks

\* g charges each of them.
Charges(S, K, g) == g \in [K -> Funds(S)] /\ \A k, l \in K : g[k] = g[l] => k = l

\* base[a]: the last message of a person, or request, that set the counter of a to
\* zero.
Based(S, base) ==
    /\ base \in [Agent -> Int]
    /\ \A a \in Agent : \/ base[a] = 1
                        \/ base[a] \in S /\ base[a] <= heard[a]
                        \/ base[a] \in Asks
    /\ \A a, b \in Agent : base[a] < 0 /\ base[a] = base[b] => a = b

\* An agent reacts to what it has heard, and not beyond its counter.
Spent(base, u) ==
    /\ \A a \in Agent, p \in Nat, j \in 0..BotChatLimit :
           u = <<p, <<a, j>>>> => p <= heard[a] /\ (p = base[a] => j <= chatter[a])
    /\ \A a \in Agent, p \in Int, j \in 0..BotChatLimit :
           p < 0 /\ u = <<p, j>> /\ p = base[a] => j <= chatter[a]

Accounts(S, K, g, base) ==
    Unasked(S) /\ Keys(K) /\ Charges(S, K, g) /\ Based(S, base)
    /\ \A k \in K : Spent(base, g[k])

Account == \E S, K, g, base : Accounts(S, K, g, base)

\* What an agent handles was heard or taken up, and waits once.
Waiting ==
    \A a \in Agent : \A i, j \in DOMAIN queue[a] :
        /\ queue[a][i].id <= heard[a] /\ -requests <= queue[a][i].id
        /\ i < j => queue[a][j].id # queue[a][i].id

\* Nobody is answered in a channel in which nobody has spoken.
Placed ==
    channel = <<>> =>
        /\ \A a \in Agent : \A i \in DOMAIN queue[a] :
               queue[a][i].by = Nobody /\ queue[a][i].via = Nobody
        /\ \A a \in Agent : \A i \in DOMAIN inbox[a] :
               inbox[a][i].by = Nobody /\ inbox[a][i].via = Nobody

\* There are so many reasons for each message that nobody asked for.
LEMMA Reasons ==
    IsFiniteSet(Reason) /\ Cardinality(Reason) = 1 + Cardinality(Here) * (1 + BotChatLimit)
<1> DEFINE R == Here \X (0..BotChatLimit)
<1> USE AdmissionAssumption
<1>8. IsFiniteSet(Here) /\ Nobody \notin Here
    BY FS_Subset DEF Here
<1>1. IsFiniteSet(0..BotChatLimit) /\ Cardinality(0..BotChatLimit) = 1 + BotChatLimit
    BY FS_Interval
<1>2. IsFiniteSet(R) /\ Cardinality(R) = Cardinality(Here) * (1 + BotChatLimit)
    BY <1>1, <1>8, FS_Product
<1>3. <<Nobody, 0>> \notin R
    BY <1>8
<1>4. Cardinality(R) \in Nat
    BY <1>2, FS_CardinalityType
<1>5. Reason = R \cup {<<Nobody, 0>>}
    BY DEF Reason
<1> HIDE DEF R
<1>6. IsFiniteSet(Reason) /\ Cardinality(Reason) = Cardinality(R) + 1
    BY <1>2, <1>3, <1>5, FS_AddElement
<1>7. \A x \in Nat : x + 1 = 1 + x
    OBVIOUS
<1> QED
    BY <1>2, <1>4, <1>6, <1>7

\* So much can be charged.
LEMMA FundsSize ==
    ASSUME TypeOK, NEW S, IsFiniteSet(S), Cardinality(S) = spoken
    PROVE  /\ IsFiniteSet(Funds(S))
           /\ Cardinality(Funds(S)) <= spoken * (1 + Cardinality(Here) * (1 + BotChatLimit))
                                       + requests * (1 + BotChatLimit)
<1> DEFINE T == S \X Reason
           U == Asks \X (0..BotChatLimit)
<1> USE AdmissionAssumption
<1>1. IsFiniteSet(T)
      /\ Cardinality(T) = spoken * (1 + Cardinality(Here) * (1 + BotChatLimit))
    BY Reasons, FS_Product
<1>2. requests \in Nat
    BY DEF TypeOK
<1>3. IsFiniteSet(Asks) /\ Cardinality(Asks) = requests
    <2>1. -requests \in Int /\ -1 \in Int
        BY <1>2
    <2>2. IsFiniteSet(Asks)
          /\ Cardinality(Asks) = IF -requests > -1 THEN 0 ELSE -1 - (-requests) + 1
        BY <2>1, FS_Interval DEF Asks
    <2> QED
        BY <1>2, <2>2
<1>4. IsFiniteSet(0..BotChatLimit) /\ Cardinality(0..BotChatLimit) = 1 + BotChatLimit
    BY FS_Interval
<1>5. IsFiniteSet(U) /\ Cardinality(U) = requests * (1 + BotChatLimit)
    BY <1>3, <1>4, FS_Product
<1>6. Funds(S) = T \cup U
    BY DEF Funds
<1> HIDE DEF T, U
<1>7. /\ IsFiniteSet(T \cup U) /\ IsFiniteSet(T \cap U)
      /\ Cardinality(T \cup U) = Cardinality(T) + Cardinality(U) - Cardinality(T \cap U)
    BY <1>1, <1>5, FS_Union, FS_Intersection
<1>8. Cardinality(T) \in Nat /\ Cardinality(U) \in Nat /\ Cardinality(T \cap U) \in Nat
    BY <1>1, <1>5, <1>7, FS_CardinalityType
<1>9. Cardinality(T \cup U) <= Cardinality(T) + Cardinality(U)
    BY <1>7, <1>8
<1> QED
    BY <1>1, <1>5, <1>6, <1>7, <1>9

\* Whoever is charged once can pay.
LEMMA AccountBounds ==
    ASSUME TypeOK, Account
    PROVE  Len(channel) <= spoken * (1 + Cardinality(Here) * (1 + BotChatLimit))
                           + requests * (1 + BotChatLimit)
<1> PICK S, K, g, base : Accounts(S, K, g, base)
    BY DEF Account
<1> DEFINE n == Len(channel)
           T == Funds(S)
           f == [p \in 1..n |-> g[<<Nobody, p>>]]
           most == spoken * (1 + Cardinality(Here) * (1 + BotChatLimit))
                       + requests * (1 + BotChatLimit)
<1>1. n \in Nat /\ DOMAIN channel = 1..n
    BY DEF TypeOK
<1>2. IsFiniteSet(S) /\ Cardinality(S) = spoken
    <2>1. S \in SUBSET (1..n) /\ Cardinality(S) = spoken
        BY <1>1 DEF Accounts, Unasked
    <2>2. IsFiniteSet(1..n)
        BY <1>1, FS_Interval
    <2> HIDE DEF n
    <2> QED
        BY <2>1, <2>2, FS_Subset
<1>3. IsFiniteSet(T) /\ Cardinality(T) <= most
    BY <1>2, FundsSize
<1>8. most \in Int
    <2>1. Cardinality(Here) \in Nat
        BY AdmissionAssumption, FS_Subset, FS_CardinalityType DEF Here
    <2> DEFINE h == Cardinality(Here)
    <2>2. h \in Nat /\ spoken \in Nat /\ requests \in Nat /\ BotChatLimit \in Nat
        BY <2>1, AdmissionAssumption DEF TypeOK
    <2> HIDE DEF h
    <2>3. spoken * (1 + h * (1 + BotChatLimit)) + requests * (1 + BotChatLimit) \in Int
        BY <2>2
    <2> QED
        BY <2>3 DEF h
<1> HIDE DEF n, most
<1>4. f \in [1..n -> T] /\ \A p, q \in 1..n : f[p] = f[q] => p = q
    BY <1>1 DEF Accounts, Keys, Charges
<1> HIDE DEF f, T
<1>5. f \in Injection(1..n, T)
    BY <1>4 DEF Injection, IsInjective
<1>6. Cardinality(1..n) <= Cardinality(T)
    BY <1>3, <1>5, FS_Injection
<1>7. Cardinality(1..n) = n
    <2>1. Cardinality(1..n) = IF 1 > n THEN 0 ELSE n - 1 + 1
        BY <1>1, FS_Interval
    <2> QED
        BY <1>1, <2>1
<1>9. Cardinality(T) \in Nat
    BY <1>3, FS_CardinalityType
<1>10. n <= most
    BY <1>1, <1>3, <1>6, <1>7, <1>8, <1>9
<1> QED
    BY <1>10 DEF n, most

\* What posting does to the channel.
LEMMA Posted ==
    ASSUME TypeOK, NEW s \in Speaker, NEW x \in Text, Post(s, x)
    PROVE  /\ Len(channel) \in Nat /\ DOMAIN channel = 1..Len(channel)
           /\ Len(channel') = Len(channel) + 1 /\ DOMAIN channel' = 1..(Len(channel) + 1)
           /\ \A p \in DOMAIN channel : channel'[p] = channel[p]
           /\ channel'[Len(channel) + 1] = [by |-> s, text |-> x]
<1> DEFINE e == [by |-> s, text |-> x]
           n == Len(channel)
<1>1. channel' = Append(channel, e) /\ n \in Nat /\ DOMAIN channel = 1..n
    BY DEF Post, TypeOK
<1>2. channel \in Seq([by : Speaker, text : Text]) /\ e \in [by : Speaker, text : Text]
    BY DEF TypeOK
<1> HIDE DEF e
<1>3. /\ Len(channel') = n + 1 /\ DOMAIN channel' = 1..(n + 1)
      /\ \A p \in 1..n : channel'[p] = channel[p]
      /\ channel'[n + 1] = e
    BY <1>1, <1>2, AppendProperties
<1> QED
    BY <1>1, <1>3 DEF e

\* Nothing that was said is unsaid, and nothing that was heard unheard.
LEMMA Grows ==
    ASSUME Inv, [Next]_vars
    PROVE  /\ UNCHANGED channel \/ \E s \in Speaker, x \in Text : Post(s, x)
           /\ \A a \in Agent : heard[a] \in Nat /\ heard'[a] \in Nat /\ heard[a] <= heard'[a]
           /\ requests \in Nat /\ requests' \in Nat /\ requests <= requests'
<1>1. heard \in [Agent -> Nat] /\ requests \in Nat
    BY AdmissionAssumption DEF Inv, TypeOK
<1>2. ASSUME UNCHANGED <<heard, requests>>
      PROVE  /\ \A b \in Agent : heard[b] \in Nat /\ heard'[b] \in Nat /\ heard[b] <= heard'[b]
             /\ requests' \in Nat /\ requests <= requests'
    BY <1>1, <1>2
<1>3. ASSUME NEW a \in Agent, Hear(a)
      PROVE  /\ UNCHANGED channel \/ Post(a, Plain)
             /\ heard' = [heard EXCEPT ![a] = @ + 1] /\ requests' = requests
    BY <1>3 DEF Hear, HearOwn, Refuse, Ignore, Admit, Dispatch, Hears
<1>4. ASSUME NEW a \in Agent, Handle(a)
      PROVE  /\ UNCHANGED channel \/ \E s \in Agent, x \in Text : Post(s, x)
             /\ UNCHANGED <<heard, requests>>
    <2>1. CASE Begin(a)
        BY <2>1 DEF Begin
    <2>2. CASE Postpone(a)
        BY <2>2, ReplyPosts, Texts DEF Postpone, Begins, Inv
    <2>3. ASSUME NEW x \in Text, Answer(a, x)
          PROVE  /\ UNCHANGED channel \/ \E s \in Agent, y \in Text : Post(s, y)
                 /\ UNCHANGED <<heard, requests>>
        BY <2>3, ReplyPosts DEF Answer, Inv, Busy
    <2> QED
        BY <1>4, <2>1, <2>2, <2>3 DEF Handle
<1>5. ASSUME NEW a \in Agent, Receive(a)
      PROVE  UNCHANGED <<channel, heard>> /\ requests' = requests + 1
    BY <1>5 DEF Receive, TurnDown, TakeUp, Takes
<1>6. ASSUME NEW s \in Speaker, NEW x \in Text, Speak(s, x)
      PROVE  Post(s, x) /\ UNCHANGED <<heard, requests>>
    BY <1>6 DEF Speak
<1>7. CASE Tick \/ UNCHANGED vars \/ (\E a \in Agent : AskByJob(a))
           \/ \E a, b \in Agent, x \in Content : Ask(a, b, x)
    <2>1. UNCHANGED <<channel, heard, requests>>
        BY <1>7 DEF Tick, vars, AskByJob, Ask
    <2> QED
        BY <1>1, <1>2, <2>1
<1>8. CASE \E s \in Speaker, x \in Text : Speak(s, x)
    BY <1>1, <1>2, <1>6, <1>8
<1>9. CASE \E a \in Agent : Hear(a)
    <2> PICK a \in Agent : Hear(a)
        BY <1>9
    <2>1. \A b \in Agent : heard'[b] \in Nat /\ heard[b] <= heard'[b]
        BY <1>1, <1>3
    <2> QED
        BY <1>1, <1>3, <2>1, Texts DEF Speaker
<1>10. CASE \E a \in Agent : Handle(a)
    BY <1>1, <1>2, <1>4, <1>10 DEF Speaker
<1>11. CASE \E a \in Agent : Receive(a)
    BY <1>1, <1>5, <1>11
<1> QED
    BY <1>7, <1>8, <1>9, <1>10, <1>11 DEF Next, Here, Speaker

\* What is not decent does not become so.
LEMMA DecentStays ==
    ASSUME Inv, [Next]_vars, Decent'
    PROVE  Decent
<1>1. CASE UNCHANGED channel
    BY <1>1 DEF Decent
<1>2. ASSUME NEW s \in Speaker, NEW x \in Text, Post(s, x)
      PROVE  Decent
    <2>1. TypeOK
        BY DEF Inv
    <2>2. /\ Len(channel) \in Nat /\ DOMAIN channel = 1..Len(channel)
          /\ DOMAIN channel' = 1..(Len(channel) + 1)
          /\ \A p \in DOMAIN channel : channel'[p] = channel[p]
        BY <1>2, <2>1, Posted
    <2>3. DOMAIN channel \subseteq DOMAIN channel'
        BY <2>2
    <2> QED
        BY <2>2, <2>3 DEF Decent
<1> QED
    BY <1>1, <1>2, Grows

\* What was heard stays heard, and what was taken up, taken up.
Onward ==
    /\ \A b \in Agent : heard[b] \in Nat /\ heard'[b] \in Nat /\ heard[b] <= heard'[b]
    /\ requests \in Nat /\ requests' \in Nat /\ requests <= requests'

LEMMA TakenUp ==
    ASSUME Onward, NEW x \in Int, -requests <= x
    PROVE  -requests' <= x
<1>1. requests \in Nat /\ requests' \in Nat /\ requests <= requests'
    BY DEF Onward
<1>2. \A r, s \in Nat : r <= s /\ -r <= x => -s <= x
    OBVIOUS
<1> QED
    BY <1>1, <1>2

\* What waits: the entry of a queue that grows by one that is new.
LEMMA WaitingMore ==
    ASSUME Inv, Waiting, NEW a \in Agent, NEW e \in Entry,
           queue' = [queue EXCEPT ![a] = Append(@, e)],
           Onward, e.id <= heard'[a], -requests' <= e.id,
           heard[a] < e.id \/ e.id < -requests
    PROVE  Waiting'
<1>1. queue \in [Agent -> Seq(Entry)]
    BY DEF Inv, TypeOK
<1>2. \A b \in Agent \ {a} : queue'[b] = queue[b]
    BY <1>1
<1> DEFINE q == queue[a]
           n == Len(q)
           r == queue'[a]
<1>3. /\ q \in Seq(Entry) /\ n \in Nat /\ DOMAIN q = 1..n
      /\ DOMAIN r = 1..(n + 1) /\ r[n + 1] = e /\ \A i \in 1..n : r[i] = q[i]
    BY <1>1
<1>4. \A i, j \in 1..n : /\ q[i].id <= heard[a] /\ -requests <= q[i].id
                         /\ i < j => q[j].id # q[i].id
    BY <1>3 DEF Waiting
<1>5. \A i \in 1..n : q[i].id \in Int
    <2> SUFFICES ASSUME NEW i \in 1..n PROVE q[i] \in Entry
        BY DEF Entry
    <2> HIDE DEF q
    <2> QED
        BY <1>3, ElementOfSeq
<1>6. e.id \in Int
    BY DEF Entry
<1>7. ASSUME NEW b \in Agent, NEW x \in Int, x <= heard[b]
      PROVE  x <= heard'[b]
    <2>1. heard[b] \in Nat /\ heard'[b] \in Nat /\ heard[b] <= heard'[b]
        BY DEF Onward
    <2> QED
        BY <1>7, <2>1
<1>8. \A x \in Int : -requests <= x => -requests' <= x
    BY TakenUp
<1>9. r = queue'[a]
    OBVIOUS
<1> HIDE DEF q, n, r
<1>10. \A i, j \in DOMAIN r : /\ r[i].id <= heard'[a] /\ -requests' <= r[i].id
                              /\ i < j => r[j].id # r[i].id
    <2> SUFFICES ASSUME NEW i \in 1..(n + 1), NEW j \in 1..(n + 1)
                 PROVE  /\ r[i].id <= heard'[a] /\ -requests' <= r[i].id
                        /\ i < j => r[j].id # r[i].id
        BY <1>3
    <2>1. CASE i = n + 1
        BY <2>1, <1>3
    <2>2. CASE i \in 1..n /\ j = n + 1
        <3>1. r[i].id = q[i].id /\ r[j].id = e.id /\ q[i].id \in Int
            BY <2>2, <1>3, <1>5
        <3>2. q[i].id <= heard[a] /\ -requests <= q[i].id
            BY <2>2, <1>4
        <3>3. heard[a] \in Nat /\ requests \in Nat
            BY DEF Onward
        <3>4. q[i].id # e.id
            BY <3>1, <3>2, <3>3, <1>6
        <3> QED
            BY <3>1, <3>2, <3>4, <1>7, <1>8
    <2>3. CASE i \in 1..n /\ j \in 1..n
        BY <2>3, <1>3, <1>4, <1>5, <1>7, <1>8
    <2> QED
        BY <2>1, <2>2, <2>3, <1>3
<1> SUFFICES ASSUME NEW b \in Agent, NEW i \in DOMAIN queue'[b], NEW j \in DOMAIN queue'[b]
             PROVE  /\ queue'[b][i].id <= heard'[b] /\ -requests' <= queue'[b][i].id
                    /\ i < j => queue'[b][j].id # queue'[b][i].id
    BY DEF Waiting
<1>11. CASE b = a
    BY <1>9, <1>10, <1>11
<1>12. CASE b # a
    <2>1. queue'[b] = queue[b] /\ queue[b] \in Seq(Entry) /\ i \in 1..Len(queue[b])
        BY <1>1, <1>2, <1>12
    <2>2. queue[b][i] \in Entry
        BY <2>1, ElementOfSeq
    <2>3. queue[b][i].id \in Int
        BY <2>2 DEF Entry
    <2>4. /\ queue[b][i].id <= heard[b] /\ -requests <= queue[b][i].id
          /\ i < j => queue[b][j].id # queue[b][i].id
        BY <2>1 DEF Waiting
    <2> QED
        BY <2>1, <2>3, <2>4, <1>7, <1>8
<1> QED
    BY <1>11, <1>12

\* The first of a queue is not in the rest of it.
LEMMA WaitingPop ==
    ASSUME Inv, Waiting, NEW a \in Agent, queue[a] # <<>>, Pop(a), UNCHANGED <<heard, requests>>
    PROVE  /\ Waiting'
           /\ Head(queue[a]) = queue[a][1] /\ 1 \in DOMAIN queue[a]
           /\ \A b \in Agent : \A i \in DOMAIN queue'[b] :
                 \E j \in DOMAIN queue[b] : queue'[b][i] = queue[b][j]
           /\ \A i \in DOMAIN queue'[a] : queue'[a][i].id # Head(queue[a]).id
<1> DEFINE q == queue[a]
           n == Len(q)
<1>1. /\ q \in Seq(Entry) /\ q # <<>>
      /\ queue'[a] = Tail(q) /\ \A b \in Agent \ {a} : queue'[b] = queue[b]
    BY DEF Inv, TypeOK, Pop
<1>2. /\ n \in Nat \ {0} /\ DOMAIN q = 1..n /\ Head(q) = q[1]
      /\ DOMAIN queue'[a] = 1..(n - 1)
      /\ \A i \in 1..(n - 1) : queue'[a][i] = q[i + 1]
    BY <1>1
<1>3. \A i, j \in 1..n : /\ q[i].id <= heard[a] /\ -requests <= q[i].id
                         /\ i < j => q[j].id # q[i].id
    BY <1>2 DEF Waiting
<1> DEFINE r == queue'[a]
<1>4. r = queue'[a] /\ q = queue[a]
    OBVIOUS
<1> HIDE DEF q, n, r
<1>5. \A i \in 1..(n - 1) : i \in 1..n /\ i + 1 \in 1..n /\ 1 < i + 1
    BY <1>2
<1>11. \A i, j \in DOMAIN r : /\ r[i].id <= heard[a] /\ -requests <= r[i].id
                              /\ i < j => r[j].id # r[i].id
    <2> SUFFICES ASSUME NEW i \in DOMAIN r, NEW j \in DOMAIN r
                 PROVE  /\ r[i].id <= heard[a] /\ -requests <= r[i].id
                        /\ i < j => r[j].id # r[i].id
        OBVIOUS
    <2>1. DOMAIN r = 1..(n - 1) /\ \A k \in 1..(n - 1) : r[k] = q[k + 1]
        BY <1>2, <1>4
    <2>2. i + 1 \in 1..n /\ j + 1 \in 1..n /\ r[i] = q[i + 1] /\ r[j] = q[j + 1]
        BY <1>5, <2>1
    <2>3. i < j => i + 1 < j + 1
        BY <1>2, <2>1
    <2> QED
        BY <1>3, <2>2, <2>3
<1>6. /\ \A i \in DOMAIN r : \E j \in 1..n : r[i] = q[j]
      /\ \A i \in DOMAIN r : r[i].id # q[1].id
    <2>2. DOMAIN r = 1..(n - 1) /\ \A i \in 1..(n - 1) : r[i] = q[i + 1]
        BY <1>2, <1>4
    <2>3. \A i \in DOMAIN r : r[i].id # q[1].id
        BY <1>2, <1>3, <1>5, <2>2
    <2>4. \A i \in DOMAIN r : \E j \in 1..n : r[i] = q[j]
        BY <1>5, <2>2
    <2> QED
        BY <2>3, <2>4
<1>7. Waiting'
    <2> SUFFICES ASSUME NEW b \in Agent, NEW i \in DOMAIN queue'[b], NEW j \in DOMAIN queue'[b]
                 PROVE  /\ queue'[b][i].id <= heard[b] /\ -requests <= queue'[b][i].id
                        /\ i < j => queue'[b][j].id # queue'[b][i].id
        BY DEF Waiting
    <2>1. CASE b = a
        <3>1. queue'[b] = r
            BY <2>1, <1>4
        <3>2. i \in DOMAIN r /\ j \in DOMAIN r
            BY <3>1
        <3>3. r[i].id <= heard[a] /\ -requests <= r[i].id
            BY <3>2, <1>11
        <3>4. i < j => r[j].id # r[i].id
            BY <3>2, <1>11
        <3> QED
            BY <2>1, <3>1, <3>3, <3>4
    <2>2. CASE b # a
        BY <2>2, <1>1 DEF Waiting
    <2> QED
        BY <2>1, <2>2
<1>8. ASSUME NEW b \in Agent, NEW i \in DOMAIN queue'[b]
      PROVE  \E j \in DOMAIN queue[b] : queue'[b][i] = queue[b][j]
    <2>1. CASE b = a
        BY <2>1, <1>2, <1>4, <1>6
    <2>2. CASE b # a
        BY <2>2, <1>1
    <2> QED
        BY <2>1, <2>2
<1>9. Head(queue[a]) = queue[a][1] /\ 1 \in DOMAIN queue[a]
    BY <1>2, <1>4
<1>10. \A i \in DOMAIN queue'[a] : queue'[a][i].id # Head(queue[a]).id
    BY <1>2, <1>4, <1>6
<1> QED
    BY <1>7, <1>8, <1>9, <1>10

\* The number of what is let in is new.
LEMMA AdmitsNew ==
    ASSUME Inv, NEW a \in Agent, NEW m, Admit(a, m)
    PROVE  /\ [id |-> heard'[a], by |-> m.by, via |-> a] \in Entry
           /\ heard[a] \in Nat /\ heard'[a] = heard[a] + 1 /\ Len(channel) > 0
<1>1. heard'[a] \in 0..MaxMessages
    BY HearsType DEF Admit, Inv
<1>2. /\ channel \in Seq([by : Speaker, text : Text]) /\ heard[a] \in Nat
      /\ heard'[a] = heard[a] + 1 /\ heard[a] < Len(channel) /\ m = channel[heard[a] + 1]
    BY AdmissionAssumption DEF Inv, TypeOK, Admit, Hears
<1>3. heard[a] + 1 \in 1..Len(channel) /\ Len(channel) > 0
    BY <1>2
<1>4. m \in [by : Speaker, text : Text]
    BY <1>2, <1>3, ElementOfSeq
<1>5. m.by \in Speaker \cup {Nobody} /\ heard'[a] \in Int
    BY <1>1, <1>4, AdmissionAssumption
<1>6. [id |-> heard'[a], by |-> m.by, via |-> a] \in Entry
    BY <1>5 DEF Entry
<1> QED
    BY <1>2, <1>3, <1>6

LEMMA TakesNew ==
    ASSUME Inv, NEW a \in Agent, NEW q, TakeUp(a, q)
    PROVE  /\ [id |-> -requests', by |-> q.by, via |-> q.via] \in Entry
           /\ requests \in Nat /\ requests' = requests + 1
<1>1. q \in Request /\ requests \in Nat /\ requests' = requests + 1
    BY TakesType DEF TakeUp
<1>2. q.by \in Speaker \cup {Nobody} /\ q.via \in Agent \cup {Nobody} /\ -requests' \in Int
    BY <1>1 DEF Request
<1> QED
    BY <1>1, <1>2 DEF Entry

\* Every step keeps what waits apart.
LEMMA WaitingStep ==
    ASSUME Inv, Waiting, [Next]_vars
    PROVE  Waiting'
<1>0. Onward
    BY Grows DEF Onward
<1>1. CASE UNCHANGED queue
    <2> SUFFICES ASSUME NEW b \in Agent, NEW i \in DOMAIN queue[b], NEW j \in DOMAIN queue[b]
                 PROVE  /\ queue[b][i].id <= heard'[b] /\ -requests' <= queue[b][i].id
                        /\ i < j => queue[b][j].id # queue[b][i].id
        BY <1>1 DEF Waiting
    <2>1. queue[b] \in Seq(Entry) /\ i \in 1..Len(queue[b])
        BY DEF Inv, TypeOK
    <2>2. queue[b][i] \in Entry
        BY <2>1, ElementOfSeq
    <2>3. queue[b][i].id \in Int
        BY <2>2 DEF Entry
    <2>4. /\ queue[b][i].id <= heard[b] /\ -requests <= queue[b][i].id
          /\ i < j => queue[b][j].id # queue[b][i].id
        BY DEF Waiting
    <2> QED
        BY <2>3, <2>4, <1>0 DEF Onward
<1>2. ASSUME NEW a \in Agent, Hear(a)
      PROVE  Waiting'
    <2> PICK m \in {channel[i] : i \in DOMAIN channel} :
            HearOwn(a, m) \/ Refuse(a, m) \/ Ignore(a, m) \/ Admit(a, m) \/ Dispatch(a, m)
        BY <1>2 DEF Hear
    <2>1. CASE Admit(a, m)
        <3> PICK e : e = [id |-> heard'[a], by |-> m.by, via |-> a]
            OBVIOUS
        <3>1. e \in Entry /\ heard'[a] = heard[a] + 1 /\ e.id = heard'[a]
            BY <2>1, AdmitsNew
        <3>2. queue' = [queue EXCEPT ![a] = Append(@, e)]
            BY <2>1 DEF Admit
        <3>3. e.id <= heard'[a] /\ -requests' <= e.id /\ heard[a] < e.id
            BY <1>0, <3>1 DEF Onward
        <3> QED
            BY <1>0, <3>1, <3>2, <3>3, WaitingMore
    <2> QED
        BY <1>1, <2>1 DEF HearOwn, Refuse, Ignore, Dispatch
<1>3. ASSUME NEW a \in Agent, Receive(a)
      PROVE  Waiting'
    <2> PICK q : TurnDown(a, q) \/ TakeUp(a, q)
        BY <1>3 DEF Receive
    <2>1. CASE TakeUp(a, q)
        <3> PICK e : e = [id |-> -requests', by |-> q.by, via |-> q.via]
            OBVIOUS
        <3>1. e \in Entry /\ requests' = requests + 1 /\ e.id = -requests'
            BY <2>1, TakesNew
        <3>2. queue' = [queue EXCEPT ![a] = Append(@, e)]
            BY <2>1 DEF TakeUp
        <3>3. e.id <= heard'[a] /\ -requests' <= e.id /\ e.id < -requests
            BY <1>0, <3>1 DEF Onward
        <3> QED
            BY <1>0, <3>1, <3>2, <3>3, WaitingMore
    <2> QED
        BY <1>1, <2>1 DEF TurnDown
<1>4. ASSUME NEW a \in Agent, Handle(a)
      PROVE  Waiting'
    <2>1. CASE Begin(a)
        BY <1>1, <2>1 DEF Begin
    <2>2. CASE Postpone(a)
        BY <2>2, WaitingPop DEF Postpone, Begins
    <2>3. ASSUME NEW x \in Text, Answer(a, x)
          PROVE  Waiting'
        <3>1. queue[a] # <<>>
            BY <2>3 DEF Inv, Busy, Answer
        <3> QED
            BY <2>3, <3>1, WaitingPop DEF Answer
    <2> QED
        BY <1>4, <2>1, <2>2, <2>3 DEF Handle
<1>5. CASE \/ Tick \/ UNCHANGED vars \/ \E s \in Speaker, x \in Text : Speak(s, x)
           \/ \E a \in Agent : AskByJob(a)
           \/ \E a, b \in Agent, x \in Content : Ask(a, b, x)
    BY <1>1, <1>5 DEF Tick, vars, Speak, AskByJob, Ask
<1> QED
    BY <1>2, <1>3, <1>4, <1>5 DEF Next, Here, Speaker

\* Every agent's queue holds what it held before, or less.
QueuesKept ==
    \A b \in Agent : \A i \in DOMAIN queue'[b] :
        \E j \in DOMAIN queue[b] : queue'[b][i] = queue[b][j]

\* What can be charged at a later moment, too.
LEMMA AsksKept ==
    ASSUME Onward, NEW S, NEW T, S \subseteq T
    PROVE  Asks \subseteq Asks' /\ Funds(S) \subseteq Funds(T)'
<1>1. requests \in Nat /\ requests' \in Nat /\ requests <= requests'
    BY DEF Onward
<1>2. \A r, s \in Nat : r <= s => (-r)..(-1) \subseteq (-s)..(-1)
    OBVIOUS
<1>3. Asks \subseteq Asks'
    BY <1>1, <1>2 DEF Asks
<1> QED
    BY <1>3 DEF Funds

LEMMA HeardKept ==
    ASSUME Onward, NEW b \in Agent
    PROVE  (1..heard[b]) \cup Asks \subseteq (1..heard'[b]) \cup Asks'
<1>1. heard[b] \in Nat /\ heard'[b] \in Nat /\ heard[b] <= heard'[b]
    BY DEF Onward
<1>2. 1..heard[b] \subseteq 1..heard'[b]
    BY <1>1
<1> QED
    BY <1>2, AsksKept

\* The keys of a channel that is as it was;
LEMMA KeysKept ==
    ASSUME NEW K, Keys(K), UNCHANGED channel, QueuesKept, Onward
    PROVE  Keys(K)'
<1>1. \A b \in Agent : \A e : <<b, e>> \in K => e \in (1..heard'[b]) \cup Asks'
    BY HeardKept DEF Keys
<1>2. \A b \in Agent : \A i \in DOMAIN queue'[b] : <<b, queue'[b][i].id>> \in K
    BY DEF Keys, QueuesKept
<1>3. (\A p \in DOMAIN channel' : <<Nobody, p>> \in K)
      /\ \A p : <<Nobody, p>> \in K => p \in DOMAIN channel'
    BY DEF Keys
<1> QED
    BY <1>1, <1>2, <1>3 DEF Keys

\* ... of one with a message more;
LEMMA KeysPost ==
    ASSUME TypeOK, NEW K, Keys(K), NEW s \in Speaker, NEW x \in Text, Post(s, x),
           NEW n, n = <<Nobody, Len(channel) + 1>>, QueuesKept, Onward
    PROVE  n \notin K /\ Keys(K \cup {n})'
<1> DEFINE M == K \cup {n}
<1>1. /\ Len(channel) \in Nat /\ DOMAIN channel = 1..Len(channel)
      /\ DOMAIN channel' = 1..(Len(channel) + 1)
    BY Posted
<1>2. n \notin K
    BY <1>1 DEF Keys
<1>3. \A b \in Agent : \A e : <<b, e>> # n
    BY AdmissionAssumption
<1>4. \A b \in Agent : \A e : <<b, e>> \in M => e \in (1..heard'[b]) \cup Asks'
    BY <1>3, HeardKept DEF Keys
<1>5. \A b \in Agent : \A i \in DOMAIN queue'[b] : <<b, queue'[b][i].id>> \in M
    BY DEF Keys, QueuesKept
<1>6. (\A p \in DOMAIN channel' : <<Nobody, p>> \in M)
      /\ \A p : <<Nobody, p>> \in M => p \in DOMAIN channel'
    BY <1>1 DEF Keys
<1>7. Keys(M)'
    BY <1>4, <1>5, <1>6 DEF Keys
<1> QED
    BY <1>2, <1>7

\* ... with one that answers what a had in its queue, whoever posts it;
LEMMA KeysAnswer ==
    ASSUME TypeOK, NEW K, Keys(K), NEW s \in Speaker, NEW x \in Text, Post(s, x),
           NEW n, n = <<Nobody, Len(channel) + 1>>, QueuesKept, Onward,
           NEW a \in Agent, NEW e, \A i \in DOMAIN queue'[a] : queue'[a][i].id # e
    PROVE  n \notin K /\ Keys((K \ {<<a, e>>}) \cup {n})'
<1> DEFINE M == (K \ {<<a, e>>}) \cup {n}
<1>1. n \notin K /\ Keys(K \cup {n})'
    BY KeysPost
<1>2. \A p : <<Nobody, p>> # <<a, e>>
    BY AdmissionAssumption
<1>3. \A b \in Agent : \A i \in DOMAIN queue'[b] : <<b, queue'[b][i].id>> \in M
    BY <1>1 DEF Keys
<1>4. (\A p \in DOMAIN channel' : <<Nobody, p>> \in M)
      /\ \A p : <<Nobody, p>> \in M => p \in DOMAIN channel'
    BY <1>1, <1>2 DEF Keys
<1>5. \A b \in Agent : \A i : <<b, i>> \in M => i \in (1..heard'[b]) \cup Asks'
    BY <1>1 DEF Keys
<1>6. Keys(M)'
    BY <1>3, <1>4, <1>5 DEF Keys
<1> QED
    BY <1>1, <1>6

\* ... and of one of which an agent has something more to handle.
LEMMA KeysMore ==
    ASSUME TypeOK, NEW K, Keys(K), NEW a \in Agent, NEW e \in Entry, UNCHANGED channel,
           queue' = [queue EXCEPT ![a] = Append(@, e)], Onward,
           e.id \in (1..heard'[a]) \cup Asks', e.id \notin (1..heard[a]) \cup Asks
    PROVE  <<a, e.id>> \notin K /\ Keys(K \cup {<<a, e.id>>})'
<1> DEFINE M == K \cup {<<a, e.id>>}
<1>1. queue \in [Agent -> Seq(Entry)]
    BY DEF TypeOK
<1>2. <<a, e.id>> \notin K
    BY DEF Keys
<1>3. \A b \in Agent : \A i : <<b, i>> \in M => i \in (1..heard'[b]) \cup Asks'
    BY HeardKept DEF Keys
<1>4. ASSUME NEW b \in Agent, NEW i \in DOMAIN queue'[b]
      PROVE  <<b, queue'[b][i].id>> \in M
    <2>1. CASE b # a
        <3>1. queue'[b] = queue[b]
            BY <1>1, <2>1
        <3> QED
            BY <3>1 DEF Keys
    <2>2. CASE b = a
        <3>1. queue[a] \in Seq(Entry) /\ queue'[a] = Append(queue[a], e)
            BY <1>1
        <3>2. (i \in DOMAIN queue[a] /\ queue'[a][i] = queue[a][i]) \/ queue'[a][i] = e
            BY <2>2, <3>1
        <3> QED
            BY <2>2, <3>2 DEF Keys
    <2> QED
        BY <2>1, <2>2
<1>5. \A p : <<Nobody, p>> \in M <=> <<Nobody, p>> \in K
    BY AdmissionAssumption
<1>6. Keys(M)'
    BY <1>3, <1>4, <1>5 DEF Keys
<1> QED
    BY <1>2, <1>6

\* Where the messages stand that nobody asked for.
LEMMA UnaskedRange ==
    ASSUME TypeOK, NEW S, Unasked(S)
    PROVE  S \subseteq Nat \ {0} /\ IsFiniteSet(S)
<1> DEFINE n == Len(channel)
<1>1. n \in Nat /\ DOMAIN channel = 1..n
    BY DEF TypeOK
<1>2. S \in SUBSET (1..n) /\ IsFiniteSet(1..n)
    BY <1>1, FS_Interval DEF Unasked
<1> HIDE DEF n
<1>3. 1..n \subseteq Nat \ {0}
    BY <1>1
<1> QED
    BY <1>2, <1>3, FS_Subset

LEMMA UnaskedKept ==
    ASSUME TypeOK, NEW S, Unasked(S), UNCHANGED spoken,
           UNCHANGED channel \/ (Len(channel) > 0 /\ \E a \in Agent, x \in Text : Post(a, x))
    PROVE  Unasked(S)'
<1>1. CASE UNCHANGED channel
    BY <1>1 DEF Unasked
<1>2. ASSUME Len(channel) > 0, NEW a \in Agent, NEW x \in Text, Post(a, x)
      PROVE  Unasked(S)'
    <2>1. /\ Len(channel) \in Nat /\ DOMAIN channel = 1..Len(channel)
          /\ Len(channel') = Len(channel) + 1 /\ DOMAIN channel' = 1..(Len(channel) + 1)
          /\ \A p \in DOMAIN channel : channel'[p] = channel[p]
          /\ channel'[Len(channel) + 1] = [by |-> a, text |-> x]
        BY <1>2, Posted DEF Speaker
    <2>2. S \subseteq DOMAIN channel' /\ Cardinality(S) = spoken'
        BY <2>1 DEF Unasked
    <2>3. \A p \in DOMAIN channel' : p \in S \/ channel'[p].by \in Agent
        <3> SUFFICES ASSUME NEW p \in DOMAIN channel' PROVE p \in S \/ channel'[p].by \in Agent
            OBVIOUS
        <3>1. CASE p \in DOMAIN channel
            BY <2>1, <3>1 DEF Unasked
        <3>2. CASE p = Len(channel) + 1
            BY <2>1, <3>2
        <3> QED
            BY <2>1, <3>1, <3>2
    <2>4. 1 \in S
        BY <1>2 DEF Unasked
    <2> QED
        BY <2>2, <2>3, <2>4 DEF Unasked
<1> QED
    BY <1>1, <1>2

\* The account with a charge more.
LEMMA NewCharge ==
    ASSUME Onward, NEW S, NEW K, NEW g, Charges(S, K, g),
           NEW T, S \subseteq T, NEW base, NEW n, n \notin K,
           NEW u, u \in Funds(T)', \A k \in K : g[k] # u,
           Unasked(T)', Keys(K \cup {n})', Based(T, base)',
           \A k \in K : Spent(base, g[k])', Spent(base, u)'
    PROVE  Account'
<1>1. g \in [K -> Funds(T)'] /\ \A k, l \in K : g[k] = g[l] => k = l
    BY AsksKept DEF Charges
<1> PICK U : U = Funds(T)'
    OBVIOUS
<1> PICK M : M = K \cup {n}
    OBVIOUS
<1> PICK h : h = [k \in M |-> IF k = n THEN u ELSE g[k]]
    OBVIOUS
<1>2. g \in [K -> U] /\ u \in U
    BY <1>1
<1>3. h \in [M -> U] /\ h[n] = u /\ \A k \in K : h[k] = g[k]
    BY <1>2
<1>4. \A k, l \in M : h[k] = h[l] => k = l
    BY <1>1, <1>3
<1>5. Charges(T, M, h)'
    BY <1>3, <1>4 DEF Charges
<1>6. \A k \in M : Spent(base, h[k])'
    BY <1>3
<1>7. Accounts(T, M, h, base)'
    BY <1>5, <1>6 DEF Accounts
<1> QED
    BY <1>7 DEF Account

\* What agents spent stays spent: a's counter may only go up, or begin anew with
\* something that a has not reacted to, or that nothing is charged to.
LEMMA StaysSpent ==
    ASSUME Onward, NEW a \in Agent, NEW base, NEW fresh, NEW u, Spent(base, u),
           \A b \in Agent : chatter[b] \in Nat /\ chatter'[b] \in Nat,
           \A b \in Agent \ {a} : fresh[b] = base[b] /\ chatter'[b] = chatter[b],
           \/ fresh[a] = heard[a] + 1
           \/ fresh[a] = base[a] /\ chatter[a] <= chatter'[a]
           \/ \A p, x : u = <<p, x>> => p # fresh[a]
    PROVE  Spent(fresh, u)'
<1>1. ASSUME NEW b \in Agent, NEW p \in Nat, NEW j \in 0..BotChatLimit, u = <<p, <<b, j>>>>
      PROVE  p <= heard'[b] /\ (p = fresh[b] => j <= chatter'[b])
    <2>1. p <= heard[b] /\ (p = base[b] => j <= chatter[b])
        BY <1>1 DEF Spent
    <2>2. heard[b] \in Nat /\ heard'[b] \in Nat /\ heard[b] <= heard'[b]
        BY DEF Onward
    <2>3. p <= heard'[b]
        BY <2>1, <2>2
    <2>4. j \in Nat /\ chatter[b] \in Nat /\ chatter'[b] \in Nat
        BY AdmissionAssumption
    <2>5. CASE b # a
        BY <2>1, <2>3, <2>5
    <2>6. CASE b = a /\ fresh[a] = heard[a] + 1
        BY <2>1, <2>2, <2>3, <2>6
    <2>7. CASE b = a /\ fresh[a] = base[a] /\ chatter[a] <= chatter'[a]
        BY <2>1, <2>3, <2>4, <2>7
    <2>8. CASE b = a /\ p # fresh[a]
        BY <2>3, <2>8
    <2> QED
        BY <1>1, <2>5, <2>6, <2>7, <2>8
<1>2. ASSUME NEW b \in Agent, NEW p \in Int, NEW j \in 0..BotChatLimit,
             p < 0, u = <<p, j>>, p = fresh[b]
      PROVE  j <= chatter'[b]
    <2>1. p = base[b] => j <= chatter[b]
        BY <1>2 DEF Spent
    <2>2. j \in Nat /\ chatter[b] \in Nat /\ chatter'[b] \in Nat
        BY AdmissionAssumption
    <2>3. CASE b # a
        BY <1>2, <2>1, <2>3
    <2>4. CASE b = a /\ fresh[a] = base[a] /\ chatter[a] <= chatter'[a]
        BY <1>2, <2>1, <2>2, <2>4
    <2>5. CASE b = a /\ fresh[a] = heard[a] + 1
        BY <1>2, <2>5 DEF Onward
    <2>6. CASE b = a /\ p # fresh[a]
        BY <1>2, <2>6
    <2> QED
        BY <1>2, <2>3, <2>4, <2>5, <2>6
<1> QED
    BY <1>1, <1>2 DEF Spent

\* A step has a charge that nobody has yet.
Chargeable(S, K, g) ==
    \E u, base :
        /\ u \in Funds(S)' /\ Based(S, base)' /\ Spent(base, u)'
        /\ \A k \in K : g[k] # u /\ Spent(base, g[k])'

\* What hearing more, and taking up more, changes nothing about.
LEMMA BasedKept ==
    ASSUME Onward, NEW S, NEW T, S \subseteq T, S \subseteq Nat, NEW base, Based(S, base)
    PROVE  Based(T, base)'
<1>1. Asks \subseteq Asks'
    BY AsksKept
<1>2. ASSUME NEW b \in Agent
      PROVE  base[b] = 1 \/ (base[b] \in T /\ base[b] <= heard'[b]) \/ base[b] \in Asks'
    <2>1. heard[b] \in Nat /\ heard'[b] \in Nat /\ heard[b] <= heard'[b]
        BY DEF Onward
    <2>2. base[b] = 1 \/ (base[b] \in S /\ base[b] <= heard[b]) \/ base[b] \in Asks
        BY DEF Based
    <2>3. base[b] \in S /\ base[b] <= heard[b] => base[b] <= heard'[b]
        BY <2>1
    <2> QED
        BY <1>1, <2>2, <2>3
<1> QED
    BY <1>2 DEF Based

LEMMA SpentKept ==
    ASSUME Onward, UNCHANGED chatter, NEW base, NEW u, Spent(base, u)
    PROVE  Spent(base, u)'
<1>1. ASSUME NEW b \in Agent, NEW p \in Nat, NEW j \in 0..BotChatLimit, u = <<p, <<b, j>>>>
      PROVE  p <= heard'[b] /\ (p = base[b] => j <= chatter[b])
    <2>1. p <= heard[b] /\ (p = base[b] => j <= chatter[b])
        BY <1>1 DEF Spent
    <2> QED
        BY <2>1 DEF Onward
<1>2. ASSUME NEW b \in Agent, NEW p \in Int, NEW j \in 0..BotChatLimit,
             p < 0, u = <<p, j>>, p = base[b]
      PROVE  j <= chatter[b]
    BY <1>2 DEF Spent
<1> QED
    BY <1>1, <1>2 DEF Spent

\* A message that is let in, or answered at once, is charged to the person who
\* wrote it, or to whatever set the counter to zero last.
LEMMA ReactsToPerson ==
    ASSUME Inv, Onward, UNCHANGED requests, NEW S, NEW K, NEW g, NEW base,
           Accounts(S, K, g, base), NEW a \in Here, NEW m, Hears(a, m), m.by \notin Agent,
           \/ chatter' = [chatter EXCEPT ![a] = 0]
           \/ UNCHANGED chatter
    PROVE  Chargeable(S, K, g)
<1> a \in Agent
    BY DEF Here
<1> PICK h : h = heard[a] + 1
    OBVIOUS
<1>1. /\ h \in DOMAIN channel /\ m = channel[h]
      /\ h \in Nat /\ heard[a] \in Nat /\ heard'[a] = h /\ h > heard[a] /\ h >= 1
    BY AdmissionAssumption DEF Inv, TypeOK, Hears
<1>2. /\ BotChatLimit \in Nat
      /\ \A b \in Agent : chatter[b] \in Nat /\ chatter'[b] \in Nat
      /\ \A b \in Agent \ {a} : chatter'[b] = chatter[b]
      /\ chatter'[a] = 0 \/ chatter'[a] = chatter[a]
    <2>1. chatter \in [Agent -> 0..BotChatLimit] /\ BotChatLimit \in Nat
        BY AdmissionAssumption DEF Inv, TypeOK
    <2>2. \A b \in Agent : chatter[b] \in Nat
        BY <2>1
    <2>3. CASE UNCHANGED chatter
        BY <2>1, <2>2, <2>3
    <2>4. CASE chatter' = [chatter EXCEPT ![a] = 0]
        <3>1. chatter'[a] = 0 /\ \A b \in Agent \ {a} : chatter'[b] = chatter[b]
            BY <2>1, <2>4
        <3> QED
            BY <2>1, <2>2, <3>1
    <2> QED
        BY <2>3, <2>4
<1>3. S \subseteq Nat \ {0} /\ h \in S
    BY <1>1, UnaskedRange DEF Inv, Accounts, Unasked
<1>4. Based(S, base) /\ \A k \in K : Spent(base, g[k])
    BY DEF Accounts
<1> PICK fresh : fresh = [base EXCEPT ![a] = h]
    OBVIOUS
<1>5. /\ fresh \in [Agent -> Int] /\ fresh[a] = h
      /\ \A b \in Agent \ {a} : fresh[b] = base[b]
    BY <1>1, <1>4 DEF Based
<1>6. Based(S, fresh)'
    <2>1. Based(S, base)'
        BY <1>3, <1>4, BasedKept
    <2>2. h \in S /\ h <= heard'[a]
        BY <1>1, <1>3
    <2>3. ASSUME NEW b \in Agent, NEW c \in Agent, fresh[b] < 0, fresh[b] = fresh[c]
          PROVE  b = c
        BY <1>1, <1>5, <2>1, <2>3 DEF Based
    <2> QED
        BY <1>5, <2>1, <2>2, <2>3 DEF Based
<1> PICK u : u = <<h, <<a, 0>>>>
    OBVIOUS
<1>7. u \in Funds(S)'
    BY <1>2, <1>3 DEF Reason, Funds
<1>8. Spent(fresh, u)'
    <2>1. \A b \in Agent, p \in Nat, j \in 0..BotChatLimit :
              u = <<p, <<b, j>>>> => p = h /\ b = a /\ j = 0
        OBVIOUS
    <2>2. \A p \in Int : \A j : p < 0 => u # <<p, j>>
        BY <1>1
    <2> QED
        BY <1>1, <1>2, <2>1, <2>2 DEF Spent
<1>9. ASSUME NEW k \in K PROVE g[k] # u /\ Spent(fresh, g[k])'
    <2>1. Spent(base, g[k])
        BY <1>4
    <2>2. g[k] # u
        <3>1. 0 \in 0..BotChatLimit
            BY <1>2
        <3> QED
            BY <1>1, <2>1, <3>1 DEF Spent
    <2>3. Spent(fresh, g[k])'
        BY <1>2, <1>5, <2>1, StaysSpent
    <2> QED
        BY <2>2, <2>3
<1> QED
    BY <1>6, <1>7, <1>8, <1>9 DEF Chargeable

LEMMA ReactsToAgent ==
    ASSUME Inv, Onward, UNCHANGED requests, NEW S, NEW K, NEW g, NEW base,
           Accounts(S, K, g, base), NEW a \in Here, NEW m, Hears(a, m),
           chatter[a] < BotChatLimit, chatter' = [chatter EXCEPT ![a] = chatter[a] + 1]
    PROVE  Chargeable(S, K, g)
<1> a \in Agent
    BY DEF Here
<1>1. heard[a] \in Nat /\ heard'[a] = heard[a] + 1 /\ Len(channel) > 0
    BY AdmissionAssumption DEF Inv, TypeOK, Hears
<1>2. /\ BotChatLimit \in Nat
      /\ \A b \in Agent : chatter[b] \in Nat /\ chatter'[b] \in Nat
      /\ \A b \in Agent \ {a} : chatter'[b] = chatter[b]
      /\ chatter'[a] = chatter[a] + 1
    BY AdmissionAssumption DEF Inv, TypeOK
<1>3. S \subseteq Nat \ {0} /\ 1 \in S
    BY <1>1, UnaskedRange DEF Inv, Accounts, Unasked
<1>4. Based(S, base) /\ \A k \in K : Spent(base, g[k])
    BY DEF Accounts
<1>5. Based(S, base)' /\ base \in [Agent -> Int]
    BY <1>3, <1>4, BasedKept DEF Based
<1>6. /\ base[a] = 1 \/ (base[a] \in S /\ base[a] <= heard[a]) \/ base[a] \in Asks
      /\ \A b \in Agent : base[b] < 0 /\ base[b] = base[a] => b = a
    BY <1>4 DEF Based
<1>7. chatter[a] + 1 \in 0..BotChatLimit /\ chatter[a] \in Nat
    BY <1>2
<1>8. ASSUME NEW k \in K PROVE Spent(base, g[k])'
    <2>1. chatter[a] <= chatter'[a]
        BY <1>2
    <2> QED
        BY <1>2, <1>4, <2>1, StaysSpent
<1>9. CASE base[a] \in S
    <2> PICK u : u = <<base[a], <<a, chatter[a] + 1>>>>
        OBVIOUS
    <2>1. base[a] \in Nat /\ base[a] <= heard'[a]
        <3>1. base[a] \in Nat /\ (base[a] <= heard[a] \/ base[a] = 1 \/ base[a] \in Asks)
            BY <1>3, <1>6, <1>9
        <3>2. base[a] \in Asks => base[a] < 0
            BY DEF Asks
        <3> QED
            BY <1>1, <3>1, <3>2
    <2>2. u \in Funds(S)'
        BY <1>7, <1>9 DEF Reason, Funds
    <2>3. Spent(base, u)'
        <3>1. \A b \in Agent, p \in Nat, j \in 0..BotChatLimit :
                  u = <<p, <<b, j>>>> => p = base[a] /\ b = a /\ j = chatter[a] + 1
            OBVIOUS
        <3>2. \A p \in Int : \A j : p < 0 => u # <<p, j>>
            BY <2>1
        <3> QED
            BY <1>2, <2>1, <3>1, <3>2 DEF Spent
    <2>4. ASSUME NEW k \in K PROVE g[k] # u
        <3>1. Spent(base, g[k])
            BY <1>4
        <3>2. ~(chatter[a] + 1 <= chatter[a])
            BY <1>7
        <3> QED
            BY <1>7, <2>1, <3>1, <3>2 DEF Spent
    <2> QED
        BY <1>5, <1>8, <2>2, <2>3, <2>4 DEF Chargeable
<1>10. CASE base[a] \in Asks
    <2> PICK u : u = <<base[a], chatter[a] + 1>>
        OBVIOUS
    <2>1. base[a] \in Int /\ base[a] < 0
        BY <1>10 DEF Asks
    <2>2. u \in Funds(S)'
        BY <1>7, <1>10 DEF Funds, Asks
    <2>3. Spent(base, u)'
        <3>1. \A p \in Nat : \A x : u # <<p, x>>
            BY <2>1
        <3>2. \A b \in Agent, p \in Int, j \in 0..BotChatLimit :
                  p < 0 /\ u = <<p, j>> /\ p = base[b] => b = a /\ j = chatter[a] + 1
            BY <1>6
        <3>3. \A b \in Agent, p \in Int, j \in 0..BotChatLimit :
                  p < 0 /\ u = <<p, j>> /\ p = base[b] => j <= chatter'[b]
            BY <1>2, <3>2
        <3> QED
            BY <3>1, <3>3 DEF Spent
    <2>4. ASSUME NEW k \in K PROVE g[k] # u
        <3>1. Spent(base, g[k])
            BY <1>4
        <3>2. ~(chatter[a] + 1 <= chatter[a])
            BY <1>7
        <3> QED
            BY <1>7, <2>1, <3>1, <3>2 DEF Spent
    <2> QED
        BY <1>5, <1>8, <2>2, <2>3, <2>4 DEF Chargeable
<1> QED
    BY <1>3, <1>6, <1>9, <1>10

\* Both, for what Admit and Dispatch have in common.
LEMMA Reacts ==
    ASSUME Inv, Decent, Onward, UNCHANGED requests, NEW S, NEW K, NEW g, NEW base,
           Accounts(S, K, g, base), NEW a \in Here, NEW m, Hears(a, m), ~TooMuch(a, m),
           chatter' = [chatter EXCEPT ![a] = Counted(a, m)]
    PROVE  Chargeable(S, K, g)
<1>1. CASE m.by \notin Agent
    <2>1. Counted(a, m) = 0
        BY <1>1 DEF Counted
    <2> QED
        BY <1>1, <2>1, ReactsToPerson
<1>2. CASE m.by \in Agent
    <2>1. m.text.to = Nobody /\ m.text.names = Nobody
        <3>1. heard[a] + 1 \in DOMAIN channel /\ m = channel[heard[a] + 1]
            BY AdmissionAssumption DEF Inv, TypeOK, Hears, Here
        <3> QED
            BY <1>2, <3>1 DEF Decent, Plain, Command
    <2>2. Counted(a, m) = chatter[a] + 1
        BY <1>2, <2>1, AdmissionAssumption DEF Counted, Here
    <2>3. chatter[a] < BotChatLimit
        BY <1>2, <2>1, AdmissionAssumption DEF TooMuch, Inv, TypeOK, Here
    <2> QED
        BY <2>2, <2>3, ReactsToAgent
<1> QED
    BY <1>1, <1>2

\* A request that is taken up is charged to itself.
LEMMA TakesUp ==
    ASSUME Inv, Onward, NEW S, NEW K, NEW g, NEW base, Accounts(S, K, g, base),
           NEW a \in Agent, NEW q, TakeUp(a, q)
    PROVE  Chargeable(S, K, g)
<1> PICK r : r = -(requests + 1)
    OBVIOUS
<1>1. /\ requests \in Nat /\ requests' = requests + 1 /\ r \in Int /\ r < 0
      /\ UNCHANGED heard /\ r \in Asks' /\ Asks = (-requests)..(-1) /\ r < -requests
    <2>1. requests \in Nat /\ requests' = requests + 1 /\ UNCHANGED heard
        BY TakesType DEF TakeUp, Takes
    <2>2. Asks = (-requests)..(-1) /\ Asks' = (-requests')..(-1)
        BY DEF Asks
    <2> QED
        BY <2>1, <2>2
<1>2. BotChatLimit \in Nat /\ \A b \in Agent : chatter[b] \in Nat
    BY AdmissionAssumption DEF Inv, TypeOK
<1>3. /\ \A b \in Agent : chatter'[b] \in Nat
      /\ \A b \in Agent \ {a} : chatter'[b] = chatter[b]
      /\ chatter'[a] = 0 \/ chatter[a] <= chatter'[a]
    <2>1. UNCHANGED chatter \/ chatter' = [chatter EXCEPT ![a] = Counted(a, q)]
        BY DEF TakeUp
    <2>2. Counted(a, q) \in {0, chatter[a], chatter[a] + 1}
        BY DEF Counted
    <2>3. chatter \in [Agent -> 0..BotChatLimit]
        BY DEF Inv, TypeOK
    <2>4. CASE UNCHANGED chatter
        BY <1>2, <2>4
    <2>5. CASE chatter' = [chatter EXCEPT ![a] = Counted(a, q)]
        <3>1. chatter'[a] = Counted(a, q) /\ \A b \in Agent \ {a} : chatter'[b] = chatter[b]
            BY <2>3, <2>5
        <3> QED
            BY <1>2, <2>2, <3>1
    <2> QED
        BY <2>1, <2>4, <2>5
<1>4. S \subseteq Nat \ {0}
    BY UnaskedRange DEF Inv, Accounts
<1>5. Based(S, base) /\ Charges(S, K, g) /\ \A k \in K : Spent(base, g[k])
    BY DEF Accounts
<1>6. \A k \in K : \A x : g[k] # <<r, x>>
    <2> SUFFICES ASSUME NEW k \in K, NEW x, g[k] = <<r, x>> PROVE FALSE
        OBVIOUS
    <2>1. g[k] \in Funds(S)
        BY <1>5 DEF Charges
    <2>2. r \in S \/ r \in Asks
        BY <2>1 DEF Funds
    <2> QED
        BY <1>1, <1>4, <2>2
<1>0. PICK fresh : fresh = [base EXCEPT ![a] = IF chatter'[a] = 0 THEN r ELSE base[a]]
    OBVIOUS
<1>7. /\ base \in [Agent -> Int] /\ fresh \in [Agent -> Int]
      /\ fresh[a] = r \/ (fresh[a] = base[a] /\ chatter[a] <= chatter'[a])
      /\ \A b \in Agent \ {a} : fresh[b] = base[b]
    <2>1. base \in [Agent -> Int]
        BY <1>5 DEF Based
    <2>2. /\ fresh[a] = IF chatter'[a] = 0 THEN r ELSE base[a]
          /\ \A b \in Agent \ {a} : fresh[b] = base[b]
        BY <1>0, <2>1
    <2>3. (IF chatter'[a] = 0 THEN r ELSE base[a]) \in Int
        BY <1>1, <2>1
    <2>4. fresh \in [Agent -> Int]
        BY <1>0, <2>1, <2>3
    <2> QED
        BY <1>3, <2>1, <2>2, <2>4
<1>8. Based(S, fresh)'
    <2>1. Based(S, base)'
        BY <1>4, <1>5, BasedKept
    <2>2. \A b \in Agent : base[b] # r
        <3>1. \A b \in Agent : base[b] = 1 \/ base[b] \in S \/ base[b] \in Asks
            BY <1>5 DEF Based
        <3> QED
            BY <1>1, <1>4, <3>1
    <2>3. ASSUME NEW b \in Agent, NEW c \in Agent, fresh[b] < 0, fresh[b] = fresh[c]
          PROVE  b = c
        <3>1. \A d \in Agent : fresh[d] = base[d] \/ (d = a /\ fresh[d] = r)
            BY <1>7
        <3> QED
            BY <2>1, <2>2, <2>3, <3>1 DEF Based
    <2> QED
        BY <1>1, <1>7, <2>1, <2>3 DEF Based
<1> PICK u : u = <<r, 0>>
    OBVIOUS
<1>9. u \in Funds(S)'
    BY <1>1, <1>2 DEF Funds
<1>10. Spent(fresh, u)'
    <2>1. \A p \in Nat : \A x : u # <<p, x>>
        BY <1>1
    <2>2. \A p, j : u = <<p, j>> => j = 0
        OBVIOUS
    <2> QED
        BY <1>3, <2>1, <2>2 DEF Spent
<1>11. ASSUME NEW k \in K PROVE g[k] # u /\ Spent(fresh, g[k])'
    <2>1. g[k] # u
        BY <1>6
    <2>2. \A p, x : g[k] = <<p, x>> => p # r
        BY <1>6
    <2>3. \/ (fresh[a] = base[a] /\ chatter[a] <= chatter'[a])
          \/ \A p, x : g[k] = <<p, x>> => p # fresh[a]
        BY <1>7, <2>2
    <2>4. Spent(base, g[k])
        BY <1>5
    <2>5. \A b \in Agent \ {a} : fresh[b] = base[b] /\ chatter'[b] = chatter[b]
        BY <1>3, <1>7
    <2>10. \A b \in Agent : chatter[b] \in Nat /\ chatter'[b] \in Nat
        BY <1>2, <1>3
    <2> PICK v : v = g[k]
        OBVIOUS
    <2>6. Spent(base, v)
        BY <2>4
    <2>7. ASSUME fresh[a] = base[a] /\ chatter[a] <= chatter'[a] PROVE Spent(fresh, v)'
        BY <2>5, <2>6, <2>7, <2>10, StaysSpent
    <2>8. ASSUME \A p, x : v = <<p, x>> => p # fresh[a] PROVE Spent(fresh, v)'
        BY <2>5, <2>6, <2>8, <2>10, StaysSpent
    <2>9. Spent(fresh, v)'
        BY <2>3, <2>7, <2>8
    <2> QED
        BY <2>1, <2>9
<1> QED
    BY <1>8, <1>9, <1>10, <1>11 DEF Chargeable

\* A step that charges nothing;
LEMMA QuietKeepsAccount ==
    ASSUME Inv, Account, Onward, QueuesKept, UNCHANGED <<channel, spoken, chatter>>
    PROVE  Account'
<1> PICK S, K, g, base : Accounts(S, K, g, base)
    BY DEF Account
<1>1. Unasked(S)'
    BY DEF Accounts, Unasked
<1>2. Keys(K)'
    BY KeysKept DEF Accounts
<1>3. Based(S, base)'
    <2>1. S \subseteq Nat
        BY UnaskedRange DEF Inv, Accounts
    <2> QED
        BY <2>1, BasedKept DEF Accounts
<1>4. \A k \in K : Spent(base, g[k])'
    BY SpentKept DEF Accounts
<1>5. Charges(S, K, g)'
    <2>1. Charges(S, K, g) /\ Funds(S) \subseteq Funds(S)'
        BY AsksKept DEF Accounts
    <2> PICK U : U = Funds(S)'
        OBVIOUS
    <2>2. g \in [K -> U]
        BY <2>1 DEF Charges
    <2> QED
        BY <2>1, <2>2 DEF Charges
<1>6. Accounts(S, K, g, base)'
    BY <1>1, <1>2, <1>3, <1>4, <1>5 DEF Accounts
<1> QED
    BY <1>6 DEF Account

\* ... one that somebody takes by itself;
LEMMA SpeakKeepsAccount ==
    ASSUME Inv, Account, Onward, QueuesKept, NEW s \in Speaker, NEW x \in Text, Speak(s, x)
    PROVE  Account'
<1> PICK S, K, g, base : Accounts(S, K, g, base)
    BY DEF Account
<1> PICK l : l = Len(channel) + 1
    OBVIOUS
<1> PICK T : T = S \cup {l}
    OBVIOUS
<1> PICK n : n = <<Nobody, l>>
    OBVIOUS
<1> PICK u : u = <<l, <<Nobody, 0>>>>
    OBVIOUS
<1>1. TypeOK /\ Post(s, x) /\ spoken' = spoken + 1 /\ UNCHANGED <<chatter, requests>>
    BY DEF Inv, Speak
<1>2. /\ Len(channel) \in Nat /\ DOMAIN channel = 1..Len(channel)
      /\ Len(channel') = l /\ DOMAIN channel' = 1..l
      /\ \A p \in DOMAIN channel : channel'[p] = channel[p]
    BY <1>1, Posted
<1>3. /\ S \subseteq DOMAIN channel /\ S \subseteq Nat /\ l \in Nat /\ l \notin S
      /\ IsFiniteSet(S) /\ Cardinality(S) = spoken
    BY <1>1, <1>2, UnaskedRange DEF Accounts, Unasked
<1>4. Unasked(T)'
    <2>1. Cardinality(T) = spoken'
        BY <1>1, <1>3, FS_AddElement
    <2>2. T \subseteq DOMAIN channel'
        BY <1>2, <1>3
    <2>3. \A p \in DOMAIN channel' : p \in T \/ channel'[p].by \in Agent
        <3>1. \A p \in DOMAIN channel' : p \in DOMAIN channel \/ p = l
            BY <1>2
        <3> QED
            BY <1>2, <3>1 DEF Accounts, Unasked
    <2>4. 1 \in T
        <3>1. CASE Len(channel) > 0
            BY <3>1 DEF Accounts, Unasked
        <3>2. CASE Len(channel) = 0
            BY <3>2
        <3> QED
            BY <1>2, <3>1, <3>2
    <2> QED
        BY <2>1, <2>2, <2>3, <2>4 DEF Unasked
<1>5. n \notin K /\ Keys(K \cup {n})'
    BY <1>1, KeysPost DEF Accounts
<1>6. S \subseteq T /\ Charges(S, K, g) /\ Based(S, base)
    BY DEF Accounts
<1>7. Based(T, base)'
    BY <1>3, <1>6, BasedKept
<1>8. u \in Funds(T)' /\ \A k \in K : g[k] # u
    <2>1. \A k \in K : g[k] \in Funds(S)
        BY <1>6 DEF Charges
    <2>2. l \notin Asks
        BY <1>3 DEF Asks
    <2> QED
        BY <1>3, <2>1, <2>2 DEF Reason, Funds
<1>9. \A k \in K : Spent(base, g[k])'
    BY <1>1, SpentKept DEF Accounts
<1>10. Spent(base, u)'
    <2>1. \A b \in Agent : \A p, j : u # <<p, <<b, j>>>>
        BY AdmissionAssumption
    <2>2. \A p \in Int : \A j : p < 0 => u # <<p, j>>
        BY <1>3
    <2> QED
        BY <2>1, <2>2 DEF Spent
<1> QED
    BY <1>4, <1>5, <1>6, <1>7, <1>8, <1>9, <1>10, NewCharge

\* ... one that answers at once what was heard, or does not;
LEMMA ReplyKeepsAccount ==
    ASSUME Inv, NEW S, NEW K, NEW g, NEW base, Accounts(S, K, g, base), Chargeable(S, K, g),
           Onward, QueuesKept, UNCHANGED spoken, Len(channel) > 0,
           NEW a \in Agent, Post(a, Plain) \/ UNCHANGED channel
    PROVE  Account'
<1> PICK u, fresh : /\ u \in Funds(S)' /\ Based(S, fresh)' /\ Spent(fresh, u)'
                    /\ \A k \in K : g[k] # u /\ Spent(fresh, g[k])'
    BY DEF Chargeable
<1>1. Unasked(S)'
    BY UnaskedKept, Texts DEF Inv, Accounts
<1>2. Charges(S, K, g) /\ Keys(K)
    BY DEF Accounts
<1>3. CASE UNCHANGED channel
    <2>1. Keys(K)'
        BY <1>2, <1>3, KeysKept
    <2>2. Charges(S, K, g)'
        <3> PICK U : U = Funds(S)'
            OBVIOUS
        <3>1. g \in [K -> U]
            BY <1>2, AsksKept DEF Charges
        <3> QED
            BY <1>2, <3>1 DEF Charges
    <2>3. Accounts(S, K, g, fresh)'
        BY <1>1, <2>1, <2>2 DEF Accounts
    <2> QED
        BY <2>3 DEF Account
<1>4. CASE Post(a, Plain)
    <2> PICK n : n = <<Nobody, Len(channel) + 1>>
        OBVIOUS
    <2>1. n \notin K /\ Keys(K \cup {n})'
        BY <1>2, <1>4, KeysPost, Texts DEF Inv, Speaker
    <2> QED
        BY <1>1, <1>2, <2>1, NewCharge
<1> QED
    BY <1>3, <1>4

\* ... one that gives an agent something to handle;
LEMMA MoreKeepsAccount ==
    ASSUME Inv, NEW S, NEW K, NEW g, NEW base, Accounts(S, K, g, base), Chargeable(S, K, g),
           Onward, NEW a \in Agent, NEW e \in Entry, UNCHANGED <<channel, spoken>>,
           queue' = [queue EXCEPT ![a] = Append(@, e)],
           e.id \in (1..heard'[a]) \cup Asks', e.id \notin (1..heard[a]) \cup Asks
    PROVE  Account'
<1> PICK u, fresh : /\ u \in Funds(S)' /\ Based(S, fresh)' /\ Spent(fresh, u)'
                    /\ \A k \in K : g[k] # u /\ Spent(fresh, g[k])'
    BY DEF Chargeable
<1>1. Unasked(S)'
    BY UnaskedKept DEF Inv, Accounts
<1>2. Charges(S, K, g) /\ Keys(K)
    BY DEF Accounts
<1> PICK n : n = <<a, e.id>>
    OBVIOUS
<1>3. n \notin K /\ Keys(K \cup {n})'
    BY <1>2, KeysMore DEF Inv
<1> QED
    BY <1>1, <1>2, <1>3, NewCharge

\* ... and one that answers, or gives up, what waited.
LEMMA AnswerKeepsAccount ==
    ASSUME Inv, Waiting, Account, Onward, NEW a \in Agent, NEW x \in Text,
           queue[a] # <<>>, Pop(a), UNCHANGED <<heard, chatter, spoken, requests>>,
           UNCHANGED channel \/ (Len(channel) > 0 /\ \E s \in Agent : Post(s, x))
    PROVE  Account'
<1> PICK e : e = Head(queue[a]).id
    OBVIOUS
<1>1. /\ e = queue[a][1].id /\ 1 \in DOMAIN queue[a] /\ QueuesKept
      /\ \A i \in DOMAIN queue'[a] : queue'[a][i].id # e
    BY WaitingPop DEF QueuesKept
<1>2. CASE UNCHANGED channel
    BY <1>1, <1>2, QuietKeepsAccount
<1>3. ASSUME Len(channel) > 0, NEW s \in Agent, Post(s, x)
      PROVE  Account'
    <2> PICK S, K, g, base : Accounts(S, K, g, base)
        BY DEF Account
    <2> PICK n : n = <<Nobody, Len(channel) + 1>>
        OBVIOUS
    <2> PICK o : o = <<a, e>>
        OBVIOUS
    <2> PICK M : M = (K \ {o}) \cup {n}
        OBVIOUS
    <2> PICK h : h = [k \in M |-> IF k = n THEN g[o] ELSE g[k]]
        OBVIOUS
    <2> PICK U : U = Funds(S)'
        OBVIOUS
    <2>1. o \in K
        BY <1>1 DEF Accounts, Keys
    <2>2. n \notin K /\ Keys(M)'
        BY <1>1, <1>3, KeysAnswer DEF Inv, Accounts, Speaker
    <2>3. g \in [K -> U] /\ \A k, l \in K : g[k] = g[l] => k = l
        BY AsksKept DEF Accounts, Charges
    <2>4. h \in [M -> U] /\ h[n] = g[o] /\ \A k \in K \ {o} : h[k] = g[k]
        <3>1. n \in M /\ \A k \in K \ {o} : k \in M /\ k # n
            BY <2>2
        <3>2. \A k \in M : (IF k = n THEN g[o] ELSE g[k]) \in U
            BY <2>1, <2>3
        <3>3. h \in [M -> U]
            BY <3>2
        <3> QED
            BY <3>1, <3>3
    <2>5. \A k, l \in M : h[k] = h[l] => k = l
        BY <2>1, <2>3, <2>4
    <2>6. Charges(S, M, h)'
        BY <2>4, <2>5 DEF Charges
    <2>7. Unasked(S)'
        BY <1>3, UnaskedKept DEF Inv, Accounts
    <2>8. Based(S, base)'
        <3>1. S \subseteq Nat
            BY UnaskedRange DEF Inv, Accounts
        <3> QED
            BY <3>1, BasedKept DEF Accounts
    <2>9. \A k \in K : Spent(base, g[k])'
        BY SpentKept DEF Accounts
    <2>10. \A k \in M : Spent(base, h[k])'
        BY <2>1, <2>4, <2>9
    <2>11. Accounts(S, M, h, base)'
        BY <2>2, <2>6, <2>7, <2>8, <2>10 DEF Accounts
    <2> QED
        BY <2>11 DEF Account
<1> QED
    BY <1>2, <1>3

\* Nobody is answered before somebody has spoken.
LEMMA PlacedStep ==
    ASSUME Inv, Waiting, Placed, [Next]_vars
    PROVE  Placed'
<1> SUFFICES ASSUME channel' = <<>>
             PROVE  /\ \A b \in Agent : \A i \in DOMAIN queue'[b] :
                           queue'[b][i].by = Nobody /\ queue'[b][i].via = Nobody
                    /\ \A b \in Agent : \A i \in DOMAIN inbox'[b] :
                           inbox'[b][i].by = Nobody /\ inbox'[b][i].via = Nobody
    BY DEF Placed
<1>1. UNCHANGED channel
    <2> SUFFICES ASSUME NEW s \in Speaker, NEW x \in Text, Post(s, x) PROVE FALSE
        BY Grows
    <2>1. Len(channel) \in Nat /\ Len(channel') = Len(channel) + 1
        BY Posted DEF Inv
    <2> QED
        BY <2>1
<1>2. /\ queue \in [Agent -> Seq(Entry)] /\ inbox \in [Agent -> Seq(Request)]
      /\ \A b \in Agent : \A i \in DOMAIN queue[b] :
             queue[b][i].by = Nobody /\ queue[b][i].via = Nobody
      /\ \A b \in Agent : \A i \in DOMAIN inbox[b] :
             inbox[b][i].by = Nobody /\ inbox[b][i].via = Nobody
    BY <1>1 DEF Inv, TypeOK, Placed
<1>3. CASE UNCHANGED <<queue, inbox>>
    BY <1>2, <1>3
<1>4. ASSUME NEW c \in Agent, NEW q, q.by = Nobody, q.via = Nobody,
             UNCHANGED queue, inbox' = [inbox EXCEPT ![c] = Append(@, q)]
      PROVE  \A b \in Agent : \A i \in DOMAIN inbox'[b] :
                 inbox'[b][i].by = Nobody /\ inbox'[b][i].via = Nobody
    <2> SUFFICES ASSUME NEW b \in Agent, NEW i \in DOMAIN inbox'[b]
                 PROVE  inbox'[b][i].by = Nobody /\ inbox'[b][i].via = Nobody
        OBVIOUS
    <2>1. CASE b = c
        <3> PICK s : s = inbox[c]
            OBVIOUS
        <3>1. s \in Seq(Request) /\ inbox'[c] = Append(s, q)
            BY <1>2, <1>4
        <3>2. (i \in DOMAIN s /\ inbox'[c][i] = s[i]) \/ inbox'[c][i] = q
            BY <2>1, <3>1
        <3> QED
            BY <1>2, <1>4, <2>1, <3>2
    <2>2. CASE b # c
        BY <1>2, <1>4, <2>2
    <2> QED
        BY <2>1, <2>2
<1>5. ASSUME NEW a \in Agent, NEW b \in Agent, NEW x \in Content, Ask(a, b, x)
      PROVE  Placed'
    <2> PICK q : q = [by |-> Nobody, via |-> Nobody, text |-> x]
        OBVIOUS
    <2>1. Head(queue[a]).by = Nobody
        <3>1. queue[a] \in Seq(Entry) /\ queue[a] # <<>>
            BY <1>2, <1>5 DEF Ask, Inv, Busy
        <3>2. Head(queue[a]) = queue[a][1] /\ 1 \in DOMAIN queue[a]
            BY <3>1
        <3> QED
            BY <1>2, <3>2
    <2>2. inbox' = [inbox EXCEPT ![b] = Append(@, q)] /\ UNCHANGED queue
        BY <1>5, <2>1 DEF Ask
    <2> QED
        BY <1>2, <1>4, <2>2 DEF Placed
<1>6. ASSUME NEW b \in Agent, AskByJob(b)
      PROVE  Placed'
    <2> PICK q : q = [by |-> Nobody, via |-> Nobody, text |-> Blank]
        OBVIOUS
    <2>1. inbox' = [inbox EXCEPT ![b] = Append(@, q)] /\ UNCHANGED queue
        BY <1>6 DEF AskByJob
    <2> QED
        BY <1>2, <1>4, <2>1 DEF Placed
<1>7. ASSUME NEW a \in Agent, Receive(a)
      PROVE  Placed'
    <2> PICK q : TurnDown(a, q) \/ TakeUp(a, q)
        BY <1>7 DEF Receive
    <2> PICK r : r = inbox[a]
        OBVIOUS
    <2>1. r \in Seq(Request) /\ r # <<>> /\ q = r[1] /\ inbox' = [inbox EXCEPT ![a] = Tail(r)]
        BY <1>2 DEF TurnDown, TakeUp, Takes
    <2>2. q.by = Nobody /\ q.via = Nobody
        <3>1. 1 \in DOMAIN r
            BY <2>1
        <3> QED
            BY <1>2, <2>1, <3>1
    <2>3. ASSUME NEW b \in Agent, NEW i \in DOMAIN inbox'[b]
          PROVE  inbox'[b][i].by = Nobody /\ inbox'[b][i].via = Nobody
        <3>1. CASE b = a
            <4>1. inbox'[a] = Tail(r)
                BY <1>2, <2>1
            <4>2. /\ Len(r) \in Nat /\ DOMAIN r = 1..Len(r)
                  /\ Len(Tail(r)) = Len(r) - 1 /\ Tail(r) \in Seq(Request)
                  /\ \A j \in 1..Len(Tail(r)) : Tail(r)[j] = r[j + 1]
                BY <2>1, HeadTailProperties
            <4>3. i \in 1..Len(Tail(r))
                BY <3>1, <4>1, <4>2
            <4>4. i + 1 \in DOMAIN r /\ inbox'[a][i] = r[i + 1]
                BY <4>1, <4>2, <4>3
            <4> QED
                BY <1>2, <3>1, <4>4
        <3>2. CASE b # a
            BY <1>2, <2>1, <3>2
        <3> QED
            BY <3>1, <3>2
    <2>4. CASE TurnDown(a, q)
        BY <1>2, <2>3, <2>4 DEF TurnDown, Placed
    <2>5. CASE TakeUp(a, q)
        <3> PICK e : e = [id |-> -requests', by |-> q.by, via |-> q.via]
            OBVIOUS
        <3>1. queue' = [queue EXCEPT ![a] = Append(@, e)]
            BY <2>5 DEF TakeUp
        <3>2. e.by = Nobody /\ e.via = Nobody
            BY <2>2
        <3>3. ASSUME NEW b \in Agent, NEW i \in DOMAIN queue'[b]
              PROVE  queue'[b][i].by = Nobody /\ queue'[b][i].via = Nobody
            <4>1. CASE b = a
                <5> PICK s : s = queue[a]
                    OBVIOUS
                <5>1. s \in Seq(Entry) /\ queue'[a] = Append(s, e)
                    BY <1>2, <3>1
                <5>2. (i \in DOMAIN s /\ queue'[a][i] = s[i]) \/ queue'[a][i] = e
                    BY <4>1, <5>1
                <5> QED
                    BY <1>2, <3>2, <4>1, <5>2
            <4>2. CASE b # a
                BY <1>2, <3>1, <4>2
            <4> QED
                BY <4>1, <4>2
        <3> QED
            BY <2>3, <3>3 DEF Placed
    <2> QED
        BY <2>4, <2>5
<1>8. ASSUME NEW a \in Agent, Pop(a), queue[a] # <<>>, UNCHANGED <<inbox, heard, requests>>
      PROVE  Placed'
    <2>1. \A b \in Agent : \A i \in DOMAIN queue'[b] :
              \E j \in DOMAIN queue[b] : queue'[b][i] = queue[b][j]
        BY <1>8, WaitingPop
    <2> QED
        BY <1>2, <1>8, <2>1 DEF Placed
<1>9. ASSUME NEW a \in Agent, Handle(a)
      PROVE  Placed'
    <2>1. CASE Begin(a)
        BY <1>2, <2>1 DEF Begin, Placed
    <2>2. CASE Postpone(a)
        BY <1>8, <2>2 DEF Postpone, Begins
    <2>3. ASSUME NEW x \in Text, Answer(a, x)
          PROVE  Placed'
        BY <1>8, <2>3 DEF Answer, Inv, Busy
    <2> QED
        BY <1>9, <2>1, <2>2, <2>3 DEF Handle
<1>10. ASSUME NEW a \in Agent, Hear(a)
       PROVE  FALSE
    <2> PICK m : Hears(a, m)
        BY <1>10 DEF Hear, HearOwn, Refuse, Ignore, Admit, Dispatch
    <2>1. heard[a] \in Nat /\ heard[a] < Len(channel) /\ Len(channel) = 0
        BY <1>1, AdmissionAssumption DEF Hears, Inv, TypeOK
    <2> QED
        BY <2>1
<1>11. CASE Tick \/ UNCHANGED vars \/ \E s \in Speaker, x \in Text : Speak(s, x)
    BY <1>3, <1>11 DEF Tick, vars, Speak
<1>12. Placed' => /\ \A b \in Agent : \A i \in DOMAIN queue'[b] :
                         queue'[b][i].by = Nobody /\ queue'[b][i].via = Nobody
                  /\ \A b \in Agent : \A i \in DOMAIN inbox'[b] :
                         inbox'[b][i].by = Nobody /\ inbox'[b][i].via = Nobody
    BY DEF Placed
<1>13. \/ Tick \/ UNCHANGED vars \/ \E s \in Speaker, x \in Text : Speak(s, x)
       \/ \E a \in Agent : Hear(a) \/ AskByJob(a) \/ Receive(a) \/ Handle(a)
       \/ \E a, b \in Agent, x \in Content : Ask(a, b, x)
    BY DEF Next, Here, Speaker
<1> QED
    BY <1>5, <1>6, <1>7, <1>9, <1>10, <1>11, <1>12, <1>13

\* Nothing is charged when the agents start.
LEMMA AccountInit == Init => Waiting /\ Placed /\ Account
<1> SUFFICES ASSUME Init PROVE Waiting /\ Placed /\ Account
    OBVIOUS
<1>1. Waiting /\ Placed
    BY DEF Init, Waiting, Placed
<1> PICK S : S = {}
    OBVIOUS
<1> PICK K : K = {}
    OBVIOUS
<1> PICK g : g = [k \in K |-> k]
    OBVIOUS
<1> PICK base : base = [a \in Agent |-> 1]
    OBVIOUS
<1>2. Unasked(S)
    BY FS_EmptySet DEF Init, Unasked
<1>3. Keys(K)
    BY DEF Init, Keys
<1>4. Charges(S, K, g) /\ Based(S, base)
    BY DEF Charges, Based
<1>5. Accounts(S, K, g, base)
    BY <1>2, <1>3, <1>4 DEF Accounts
<1> QED
    BY <1>1, <1>5 DEF Account

\* What an agent returns is posted where somebody has spoken.
LEMMA ReplyPlaced ==
    ASSUME Inv, Placed, NEW a \in Agent, queue[a] # <<>>, NEW x \in Text,
           Reply(a, x) \/ UNCHANGED channel
    PROVE  UNCHANGED channel \/ (Len(channel) > 0 /\ \E s \in Agent : Post(s, x))
<1>1. CASE Reply(a, x)
    <2>1. queue[a] \in Seq(Entry) /\ channel \in Seq([by : Speaker, text : Text])
        BY DEF Inv, TypeOK
    <2>2. Head(queue[a]) = queue[a][1] /\ 1 \in DOMAIN queue[a]
        BY <2>1
    <2>3. CASE Head(queue[a]).via = Nobody
        BY <1>1, <2>3 DEF Reply
    <2>4. CASE Head(queue[a]).via # Nobody
        <3>1. channel # <<>>
            BY <2>2, <2>4 DEF Placed
        <3>2. Len(channel) > 0
            BY <2>1, <3>1
        <3> QED
            BY <1>1, <3>2, ReplyPosts DEF Inv
    <2> QED
        BY <2>3, <2>4
<1> QED
    BY <1>1

\* Every step of decent agents that let each other in is charged.
LEMMA AccountStep ==
    ASSUME Agent \subseteq Trusted, Inv, Waiting, Placed, Decent, Account, [Next]_vars
    PROVE  Account'
<1>1. Onward
    BY Grows DEF Onward
<1>2. UNCHANGED queue => QueuesKept
    BY DEF QueuesKept
<1>3. ASSUME NEW s \in Speaker, NEW x \in Text, Speak(s, x)
      PROVE  Account'
    <2>1. QueuesKept
        BY <1>2, <1>3 DEF Speak
    <2> QED
        BY <1>1, <1>3, <2>1, SpeakKeepsAccount
<1>4. CASE \/ Tick \/ UNCHANGED vars \/ \E a \in Agent : AskByJob(a)
           \/ \E a, b \in Agent, x \in Content : Ask(a, b, x)
    BY <1>1, <1>2, <1>4, QuietKeepsAccount DEF Tick, vars, AskByJob, Ask
<1>5. ASSUME NEW a \in Here, Hear(a)
      PROVE  Account'
    <2>0. a \in Agent
        BY DEF Here
    <2> PICK m \in {channel[i] : i \in DOMAIN channel} :
            HearOwn(a, m) \/ Refuse(a, m) \/ Ignore(a, m) \/ Admit(a, m) \/ Dispatch(a, m)
        BY <1>5 DEF Hear
    <2>1. Hears(a, m)
        BY DEF HearOwn, Refuse, Ignore, Admit, Dispatch
    <2>2. Len(channel) > 0
        BY <2>0, <2>1, AdmissionAssumption DEF Hears, Inv, TypeOK
    <2> PICK S, K, g, base : Accounts(S, K, g, base)
        BY DEF Account
    <2>3. CASE HearOwn(a, m) \/ Ignore(a, m)
        BY <1>1, <1>2, <2>3, QuietKeepsAccount DEF HearOwn, Ignore
    <2>4. CASE Refuse(a, m)
        <3>1. /\ Hears(a, m) /\ m.by \notin Agent /\ UNCHANGED <<chatter, queue, spoken, requests>>
              /\ Post(a, Plain)
            BY <2>4 DEF Refuse
        <3>2. Chargeable(S, K, g)
            BY <1>1, <3>1, ReactsToPerson
        <3> QED
            BY <1>1, <1>2, <2>0, <2>2, <3>1, <3>2, ReplyKeepsAccount
    <2>5. CASE Admit(a, m)
        <3>1. Chargeable(S, K, g)
            BY <1>1, <2>5, Reacts DEF Admit
        <3> PICK e : e = [id |-> heard'[a], by |-> m.by, via |-> a]
            OBVIOUS
        <3>2. e \in Entry /\ heard[a] \in Nat /\ heard'[a] = heard[a] + 1 /\ e.id = heard'[a]
            BY <2>0, <2>5, AdmitsNew
        <3>3. /\ UNCHANGED <<channel, spoken>>
              /\ queue' = [queue EXCEPT ![a] = Append(@, e)]
            BY <2>5 DEF Admit
        <3>4. e.id \in (1..heard'[a]) \cup Asks' /\ e.id \notin (1..heard[a]) \cup Asks
            BY <3>2 DEF Asks
        <3> QED
            BY <1>1, <2>0, <3>1, <3>2, <3>3, <3>4, MoreKeepsAccount
    <2>6. CASE Dispatch(a, m)
        <3>1. Chargeable(S, K, g)
            BY <1>1, <2>6, Reacts DEF Dispatch
        <3>2. QueuesKept /\ UNCHANGED spoken /\ (Post(a, Plain) \/ UNCHANGED channel)
            BY <1>2, <2>6 DEF Dispatch
        <3> QED
            BY <1>1, <2>0, <2>2, <3>1, <3>2, ReplyKeepsAccount
    <2> QED
        BY <2>3, <2>4, <2>5, <2>6
<1>6. ASSUME NEW a \in Agent, Receive(a)
      PROVE  Account'
    <2> PICK q : TurnDown(a, q) \/ TakeUp(a, q)
        BY <1>6 DEF Receive
    <2>1. CASE TurnDown(a, q)
        BY <1>1, <1>2, <2>1, QuietKeepsAccount DEF TurnDown, Takes
    <2>2. CASE TakeUp(a, q)
        <3> PICK S, K, g, base : Accounts(S, K, g, base)
            BY DEF Account
        <3>1. Chargeable(S, K, g)
            BY <1>1, <2>2, TakesUp
        <3> PICK e : e = [id |-> -requests', by |-> q.by, via |-> q.via]
            OBVIOUS
        <3>2. /\ e \in Entry /\ requests \in Nat /\ requests' = requests + 1
              /\ e.id = -requests'
            BY <2>2, TakesNew
        <3>3. /\ UNCHANGED <<channel, spoken>>
              /\ queue' = [queue EXCEPT ![a] = Append(@, e)]
            BY <2>2 DEF TakeUp, Takes
        <3>4. e.id \in (1..heard'[a]) \cup Asks'
            BY <3>2 DEF Asks
        <3>5. e.id \notin (1..heard[a]) \cup Asks
            BY <3>2 DEF Asks
        <3> QED
            BY <1>1, <3>1, <3>2, <3>3, <3>4, <3>5, MoreKeepsAccount
    <2> QED
        BY <2>1, <2>2
<1>7. ASSUME NEW a \in Agent, Handle(a)
      PROVE  Account'
    <2>1. CASE Begin(a)
        BY <1>1, <1>2, <2>1, QuietKeepsAccount DEF Begin
    <2>2. CASE Postpone(a)
        <3>1. /\ queue[a] # <<>> /\ Pop(a) /\ Reply(a, Plain)
              /\ UNCHANGED <<heard, chatter, spoken, requests>>
            BY <2>2 DEF Postpone, Begins
        <3>2. UNCHANGED channel \/ (Len(channel) > 0 /\ \E s \in Agent : Post(s, Plain))
            BY <3>1, ReplyPlaced, Texts
        <3> QED
            BY <1>1, <3>1, <3>2, Texts, AnswerKeepsAccount
    <2>3. ASSUME NEW x \in Text, Answer(a, x)
          PROVE  Account'
        <3>1. /\ queue[a] # <<>> /\ Pop(a) /\ (Reply(a, x) \/ UNCHANGED channel)
              /\ UNCHANGED <<heard, chatter, spoken, requests>>
            BY <2>3 DEF Inv, Busy, Answer
        <3>2. UNCHANGED channel \/ (Len(channel) > 0 /\ \E s \in Agent : Post(s, x))
            BY <3>1, ReplyPlaced
        <3> QED
            BY <1>1, <3>1, <3>2, AnswerKeepsAccount
    <2> QED
        BY <1>7, <2>1, <2>2, <2>3 DEF Handle
<1>8. \/ Tick \/ UNCHANGED vars \/ \E s \in Speaker, x \in Text : Speak(s, x)
      \/ \E a \in Here : Hear(a)
      \/ \E a \in Agent : AskByJob(a) \/ Receive(a) \/ Handle(a)
      \/ \E a, b \in Agent, x \in Content : Ask(a, b, x)
    BY DEF Next, Here, Speaker
<1> QED
    BY <1>3, <1>4, <1>5, <1>6, <1>7, <1>8

\* Agents that let each other in, and that neither address nor name each other in
\* the channel, do not keep a conversation going: to each message that nobody asked
\* for belong at most one answer and BotChatLimit remarks of each agent, to each
\* request between agents its answer and BotChatLimit remarks of the one who was
\* asked, whether the answers come from the brain, from a command or from the rate
\* limiter.  (Agents that do not let each other in tell each other so for ever:
\* every refusal is heard, and refused, as a message.)
THEOREM ChatterBounded ==
    ASSUME Agent \subseteq Trusted
    PROVE  Spec => []ChatterIsBounded
<1> DEFINE IInv == Inv /\ Waiting /\ Placed /\ (Decent => Account)
<1>1. Init => IInv
    BY InvInit, AccountInit
<1>2. IInv /\ [Next]_vars => IInv'
    <2> SUFFICES ASSUME IInv, [Next]_vars PROVE IInv'
        OBVIOUS
    <2>1. Inv' /\ Waiting' /\ Placed'
        BY NextKeepsInv, WaitingStep, PlacedStep
    <2>2. Decent' => Account'
        BY DecentStays, AccountStep
    <2> QED
        BY <2>1, <2>2
<1>3. IInv => ChatterIsBounded
    <2> SUFFICES ASSUME IInv, Decent
                 PROVE  Len(channel)
                            <= spoken * (1 + Cardinality(Here) * (1 + BotChatLimit))
                               + requests * (1 + BotChatLimit)
        BY DEF Decent, ChatterIsBounded
    <2> QED
        BY AccountBounds DEF Inv
<1> QED
    BY <1>1, <1>2, <1>3, PTL DEF Spec

=============================================================================

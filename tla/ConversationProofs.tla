------------------------- MODULE ConversationProofs -------------------------
(***************************************************************************)
(* Theorems about Conversation, for any number of coroutines, conversation *)
(* keys, turns, thresholds and any choice of lock-free operations.         *)
(*                                                                         *)
(* TypeCorrect rests on StateOK, which adds to the types where each        *)
(* operation can be (TaskShape).  LockSafety needs StateOK only.           *)
(* SerialSafety and CopiesSafety rest on Serial: at most one operation is  *)
(* in flight on a conversation on which nothing overlapped (Alone), and    *)
(* what it holds is what is expected of the conversation (HistoryInHand).  *)
(* MessageIsolation adds that only handle_message is in flight where       *)
(* nothing else may start (OnlyMessages), and LogImplemented that a turn   *)
(* is in no history before its answer (Fresh).                             *)
(***************************************************************************)
EXTENDS Conversation, SequenceTheorems, TLAPS

\* An empty history carries no turn.
LEMMA CoveredEmpty == Covered(<<>>) = {}
BY DEF Covered, Range

\* A history carries turns and nothing else.
LEMMA CoveredSubset ==
    ASSUME NEW h \in History
    PROVE  Covered(h) \subseteq Turn
BY DEF Covered, Range, History

\* Concatenation carries the turns of both parts.
LEMMA CoveredConcat ==
    ASSUME NEW g \in History, NEW h \in History
    PROVE  /\ g \o h \in History
           /\ Covered(g \o h) = Covered(g) \cup Covered(h)
<1>1. Range(g \o h) = Range(g) \cup Range(h)
  BY RangeConcatenation DEF History
<1> QED
  BY <1>1 DEF Covered, History

\* Two messages carry the turns of each.
LEMMA CoveredPair ==
    ASSUME NEW a \in SUBSET Turn, NEW b \in SUBSET Turn
    PROVE  /\ <<a, b>> \in History
           /\ Covered(<<a, b>>) = a \cup b
<1>1. <<a, b>> \in History
  BY DEF History
<1>2. DOMAIN <<a, b>> = 1..2
  OBVIOUS
<1>3. Range(<<a, b>>) = {a, b}
  BY <1>2 DEF Range
<1> QED
  BY <1>1, <1>3 DEF Covered

\* result.all_messages() adds its own turn and loses none.
LEMMA ExchangeOK ==
    ASSUME NEW h \in History, NEW n \in Turn
    PROVE  /\ Exchange(h, n) \in History
           /\ Covered(Exchange(h, n)) = Covered(h) \cup {n}
<1>1. <<{n}, {n}>> \in History /\ Covered(<<{n}, {n}>>) = {n}
  BY CoveredPair
<1> QED
  BY <1>1, CoveredConcat DEF Exchange

\* A sequence is its beginning and its end.
LEMMA CutInTwo ==
    ASSUME NEW S, NEW s \in Seq(S), NEW n \in 0..Len(s)
    PROVE  /\ SubSeq(s, 1, n) \in Seq(S) /\ SubSeq(s, n + 1, Len(s)) \in Seq(S)
           /\ s = SubSeq(s, 1, n) \o SubSeq(s, n + 1, Len(s))
<1> DEFINE a == SubSeq(s, 1, n)
           b == SubSeq(s, n + 1, Len(s))
<1>1. Len(s) \in Nat /\ n \in Int /\ n + 1 \in Int /\ Len(s) \in Int
      /\ \A i \in 1..Len(s) : s[i] \in S
  OBVIOUS
<1>2. /\ a \in Seq(S) /\ Len(a) = n
      /\ \A i \in 1..n : a[i] = s[i]
  OBVIOUS
<1>3. /\ b \in Seq(S) /\ Len(b) = Len(s) - n
      /\ \A i \in 1..(Len(s) - n) : b[i] = s[n + i]
  OBVIOUS
<1> HIDE DEF a, b
<1>4. /\ a \o b \in Seq(S) /\ Len(a \o b) = Len(s)
      /\ \A i \in 1..Len(s) : (a \o b)[i] = IF i <= n THEN a[i] ELSE b[i - n]
  <2>1. /\ a \o b \in Seq(S) /\ Len(a \o b) = Len(a) + Len(b)
        /\ \A i \in 1..Len(a) + Len(b) :
               (a \o b)[i] = IF i <= Len(a) THEN a[i] ELSE b[i - Len(a)]
    BY <1>2, <1>3, ConcatProperties
  <2>2. Len(a) = n /\ Len(a) + Len(b) = Len(s)
    BY <1>1, <1>2, <1>3
  <2> QED
    BY <2>1, <2>2
<1>5. ASSUME NEW i \in 1..Len(s) PROVE (a \o b)[i] = s[i]
  <2>1. CASE i <= n
    BY <1>1, <1>2, <1>4, <2>1
  <2>2. CASE ~ (i <= n)
    <3>1. i - n \in 1..(Len(s) - n) /\ n + (i - n) = i
      BY <1>1, <2>2
    <3> QED
      BY <1>3, <1>4, <2>2, <3>1
  <2> QED
    BY <2>1, <2>2
<1>6. s = a \o b
  BY <1>4, <1>5, SeqEqual
<1> QED
  BY <1>2, <1>3, <1>6 DEF a, b

\* compact_history keeps the turns of a history that it shortens.
LEMMA CompactOK ==
    ASSUME NEW h \in History, Len(h) > Keep
    PROVE  /\ Compact(h) \in History
           /\ Covered(Compact(h)) = Covered(h)
<1> DEFINE cut == Len(h) - Keep
           old == SubSeq(h, 1, cut)
           kept == SubSeq(h, cut + 1, Len(h))
<1>1. cut \in 1..Len(h) - 1
  BY ConversationAssumption DEF History
<1>2. h \in Seq(SUBSET Turn) /\ cut \in 0..Len(h)
  BY <1>1 DEF History
<1>3. old \in History /\ kept \in History /\ h = old \o kept
  <2> HIDE DEF cut
  <2> QED
    BY <1>2, CutInTwo DEF History
<1>4. Covered(old) \in SUBSET Turn
  BY <1>3, CoveredSubset
<1>5. <<{}, Covered(old)>> \in History /\ Covered(<<{}, Covered(old)>>) = Covered(old)
  <2>1. \A s \in SUBSET Turn : <<{}, s>> \in History /\ Covered(<<{}, s>>) = s
    <3>1. {} \in SUBSET Turn
      OBVIOUS
    <3> QED
      BY <3>1, CoveredPair, Zenon
  <2> QED
    BY <1>4, <2>1
<1>6. Covered(h) = Covered(old) \cup Covered(kept)
  BY <1>3, CoveredConcat
<1>7. Compact(h) = <<{}, Covered(old)>> \o kept
  BY DEF Compact
<1> QED
  BY <1>3, <1>5, <1>6, <1>7, CoveredConcat

----------------------------------------------------------------------------
(***************************************************************************)
(* The inductive invariant.                                                *)
(***************************************************************************)

Turned == {"message", "send", "prompt"}

\* Where an operation can be.
Stages(op) ==
    CASE op = "message" -> {"waiting", "compacting", "thinking",
                            "savingCache", "savingStore"}
      [] op = "send"    -> {"thinking", "savingCache", "savingStore"}
      [] op = "prompt"  -> {"thinking", "sending", "savingCache", "savingStore"}
      [] op = "compact" -> {"compacting"}
      [] op = "reset"   -> {"savingCache", "savingStore"}
      [] op = "none"    -> {"idle"}

Shaped(r) ==
    /\ r.pc \in Stages(r.op)
    /\ r.op = "none" => r = Idle
    /\ r.op \in Turned => r.turn \in Turn
    /\ r.pc = "compacting" => Len(r.hist) > Keep

TaskShape == \A t \in Task : Shaped(task[t])

\* A conversation that only handle_message touches.
OnlyMessages ==
    \A k \in MessageOnly :
        /\ k \notin disturbed
        /\ \A t \in Task : InFlight(t) /\ task[t].key = k =>
               task[t].op = "message"

\* At most one operation at a time where nothing overlapped.
Alone ==
    \A t, u \in Task :
        InFlight(t) /\ InFlight(u) /\ task[t].key = task[u].key
        /\ task[t].key \notin disturbed => t = u

\* The turns that t's history carries when nothing overlapped.
InHand(t) ==
    IF task[t].op = "prompt" /\ task[t].pc = "thinking" THEN {}
    ELSE IF task[t].op = "prompt" /\ task[t].pc = "sending" THEN {task[t].turn}
    ELSE expected[task[t].key]

HistoryInHand ==
    \A t \in Task : InFlight(t) /\ task[t].key \notin disturbed =>
        Covered(task[t].hist) = InHand(t)

StateOK == TypeOK /\ TaskShape

\* t has a turn that no history carries yet.
Open(t) ==
    task[t].op \in Turned /\ task[t].pc \in {"waiting", "compacting", "thinking"}

\* The turns that a later step can still read in some history.
Seen ==
    (UNION {Covered(memory[k]) : k \in Key})
        \cup (UNION {Covered(cache[k]) : k \in Key})
        \cup (UNION {Covered(task[t].hist) : t \in Task})

\* A turn is numbered once, and joins no history before its answer.
Fresh ==
    /\ \A n \in Seen : n <= turns
    /\ \A t \in Task : task[t].turn <= turns
    /\ \A t \in Task : Open(t) =>
          /\ task[t].turn \notin Seen
          /\ \A u \in Task \ {t} : task[u].turn # task[t].turn

----------------------------------------------------------------------------

USE ConversationAssumption

\* The agent starts in the shape of StateOK.
LEMMA InitState == Init => StateOK
<1> SUFFICES ASSUME Init PROVE StateOK
  OBVIOUS
<1>1. <<>> \in History
  BY DEF History
<1>2. Idle \in TaskState
  BY <1>1 DEF Idle, TaskState, Op
<1>3. TypeOK
  BY <1>1, <1>2 DEF Init, TypeOK, QueueOK, Idle
<1>4. TaskShape
  BY DEF Init, TaskShape, Shaped, Stages, Turned, Idle
<1> QED
  BY <1>3, <1>4 DEF StateOK


\* The idle coroutine and the empty history are in the types.
LEMMA IdleOK == Idle \in TaskState /\ <<>> \in History
BY DEF Idle, TaskState, Op, History

\* A coroutine that goes on stays in its type.
LEMMA AdvanceOK ==
    ASSUME TypeOK, NEW t \in Task, NEW pc \in Flight, NEW h \in History,
           Advance(t, pc, h)
    PROVE  task' \in [Task -> TaskState]
BY DEF Advance, TypeOK, TaskState

\* A coroutine that returns stays in its type, and so does the lock.
LEMMA FinishOK ==
    ASSUME TypeOK, NEW t \in Task, Finish(t)
    PROVE  /\ task' \in [Task -> TaskState]
           /\ lock' \in Task \cup {Free}
BY IdleOK DEF Finish, TypeOK

\* An operation that starts stays in its type.
LEMMA EnterOK ==
    ASSUME TypeOK, NEW t \in Task, NEW op \in Op, NEW k \in Key,
           NEW n \in 0..MaxTurns, NEW pc \in Flight, NEW h \in History,
           Enter(t, op, k, n, pc, h)
    PROVE  /\ task' \in [Task -> TaskState]
           /\ disturbed' \in SUBSET Key
BY DEF Enter, TypeOK, TaskState

\* Replacing a history keeps the types of all it writes.
LEMMA CommitOK ==
    ASSUME TypeOK, NEW t \in Task, task[t].turn \in Turn, NEW h \in History,
           Commit(t, h)
    PROVE  /\ memory' \in [Key -> History]
           /\ expected' \in [Key -> SUBSET Turn]
           /\ saved' \in [Key -> SUBSET Copy]
           /\ task' \in [Task -> TaskState]
<1>1. task[t] \in TaskState
  BY DEF TypeOK
<1>2. task' \in [Task -> TaskState]
  BY AdvanceOK DEF Commit, Flight
<1> QED
  BY <1>1, <1>2 DEF Commit, TypeOK, TaskState

\* What the state of a coroutine says of its operation.
LEMMA ShapedTask ==
    ASSUME StateOK, NEW t \in Task
    PROVE  /\ task[t] \in TaskState
           /\ task[t].pc \in Stages(task[t].op)
           /\ task[t].pc = "compacting" => task[t].op \in {"message", "compact"}
           /\ task[t].pc = "thinking" => task[t].op \in Turned
           /\ task[t].pc = "sending" => task[t].op = "prompt"
           /\ task[t].pc = "waiting" => task[t].op = "message"
           /\ task[t].op \in Turned => task[t].turn \in Turn
BY DEF StateOK, TypeOK, TaskShape, Shaped, TaskState, Stages, Op, LockFree, Turned

----------------------------------------------------------------------------
(* The lock's queue.                                                       *)

\* Asking for the lock keeps the queue in order.
LEMMA QueueAppend ==
    ASSUME TypeOK, NEW t \in Task, task[t].pc = "idle",
           task' \in [Task -> TaskState],
           \A u \in Task \ {t} : task'[u] = task[u],
           task'[t].pc = "waiting",
           waiters' = Append(waiters, t)
    PROVE  waiters' \in Seq(Task) /\ QueueOK'
<1>1. /\ waiters \in Seq(Task)
      /\ waiters' \in Seq(Task)
      /\ Len(waiters') = Len(waiters) + 1
      /\ \A i \in 1..Len(waiters) : waiters'[i] = waiters[i]
      /\ waiters'[Len(waiters')] = t
  BY AppendProperties DEF TypeOK
<1>2. \A i \in 1..Len(waiters) : waiters[i] # t /\ waiters[i] \in Task
  BY <1>1 DEF TypeOK, QueueOK
<1>3. \A u \in Task : task'[u].pc = "waiting" <=>
          u = t \/ \E i \in 1..Len(waiters) : waiters[i] = u
  BY <1>1, <1>2 DEF TypeOK, QueueOK
<1>4. Len(waiters) \in Nat
  BY <1>1
<1>5. \A i, j \in 1..Len(waiters) : waiters[i] = waiters[j] => i = j
  BY DEF TypeOK, QueueOK
<1>6. \A i, j \in 1..Len(waiters') : waiters'[i] = waiters'[j] => i = j
  BY <1>1, <1>2, <1>4, <1>5
<1>7. \A u \in Task : task'[u].pc = "waiting" <=>
          \E i \in 1..Len(waiters') : waiters'[i] = u
  BY <1>1, <1>3, <1>4
<1> QED
  BY <1>1, <1>6, <1>7 DEF QueueOK

\* Leaving the head of the queue keeps it in order.
LEMMA QueueTail ==
    ASSUME TypeOK, NEW t \in Task, Granted(t),
           task' \in [Task -> TaskState],
           \A u \in Task \ {t} : task'[u] = task[u],
           task'[t].pc # "waiting"
    PROVE  waiters' \in Seq(Task) /\ QueueOK'
<1>1. /\ waiters \in Seq(Task) /\ waiters # <<>>
      /\ waiters[1] = t
      /\ waiters' \in Seq(Task)
      /\ Len(waiters) \in Nat /\ Len(waiters) >= 1
      /\ Len(waiters') = Len(waiters) - 1
      /\ \A i \in 1..Len(waiters') : waiters'[i] = waiters[i + 1]
  BY DEF TypeOK, Granted
<1>2. \A i \in 1..Len(waiters') : waiters'[i] # t
  BY <1>1 DEF TypeOK, QueueOK
<1>3. \A u \in Task : task'[u].pc = "waiting" =>
          \E i \in 1..Len(waiters') : waiters'[i] = u
  <2> SUFFICES ASSUME NEW u \in Task, task'[u].pc = "waiting"
               PROVE  \E i \in 1..Len(waiters') : waiters'[i] = u
    OBVIOUS
  <2>1. u # t /\ task[u].pc = "waiting"
    OBVIOUS
  <2>2. PICK j \in 1..Len(waiters) : waiters[j] = u
    BY <2>1 DEF TypeOK, QueueOK
  <2>3. j # 1 /\ j - 1 \in 1..Len(waiters') /\ waiters'[j - 1] = u
    BY <1>1, <2>1, <2>2
  <2> QED
    BY <2>3
<1>4. \A i \in 1..Len(waiters') : waiters'[i] \in Task /\ task'[waiters'[i]].pc = "waiting"
  BY <1>1, <1>2 DEF TypeOK, QueueOK
<1>5. \A i, j \in 1..Len(waiters') : waiters'[i] = waiters'[j] => i = j
  BY <1>1 DEF TypeOK, QueueOK
<1> QED
  BY <1>1, <1>3, <1>4, <1>5 DEF QueueOK

\* Every other step neither queues nor serves a coroutine.
LEMMA QueueSame ==
    ASSUME TypeOK, UNCHANGED waiters,
           \A u \in Task : task'[u].pc = "waiting" <=> task[u].pc = "waiting"
    PROVE  waiters' \in Seq(Task) /\ QueueOK'
BY DEF TypeOK, QueueOK

\* A step that moves one coroutine only has that one to look at.
LEMMA OneTask ==
    ASSUME StateOK, NEW t \in Task, Shaped(task'[t]),
           \A u \in Task \ {t} : task'[u] = task[u]
    PROVE  TaskShape'
BY DEF StateOK, TaskShape

----------------------------------------------------------------------------
(* Every action keeps the shape of the state.                              *)

\* Arrive keeps the shape of the state.
LEMMA ArriveOK ==
    ASSUME StateOK, NEW t \in Task, NEW k \in Key, Arrive(t, k)
    PROVE  StateOK'
<1> DEFINE r == [Idle EXCEPT !.pc = "waiting", !.op = "message",
                             !.key = k, !.turn = turns + 1]
<1>1. TypeOK /\ task \in [Task -> TaskState] /\ turns \in 0..MaxTurns
  BY DEF StateOK, TypeOK
<1>2. turns + 1 \in Turn /\ turns' = turns + 1 /\ turns' \in 0..MaxTurns
  BY <1>1 DEF Arrive, Turn
<1>3. /\ r \in TaskState
      /\ r.pc = "waiting" /\ r.op = "message" /\ r.turn = turns + 1
  BY <1>2, IdleOK DEF TaskState, Op, Idle, Turn
<1>4. task' = [task EXCEPT ![t] = r]
  BY DEF Arrive
<1>5. /\ task' \in [Task -> TaskState] /\ task'[t] = r
      /\ \A u \in Task \ {t} : task'[u] = task[u]
  BY <1>1, <1>3, <1>4
<1>6. task[t].pc = "idle"
  BY DEF Arrive, Idle
<1>7. waiters' \in Seq(Task) /\ QueueOK'
  BY <1>1, <1>3, <1>5, <1>6, QueueAppend DEF Arrive
<1>8. TypeOK'
  BY <1>1, <1>2, <1>5, <1>7 DEF TypeOK, Arrive, copies, ghosts
<1>9. Shaped(task'[t])
  BY <1>2, <1>3, <1>5 DEF Shaped, Stages, Turned
<1> QED
  BY <1>5, <1>8, <1>9, OneTask DEF StateOK

\* Acquire keeps the shape of the state.
LEMMA AcquireOK ==
    ASSUME StateOK, NEW t \in Task, Acquire(t)
    PROVE  StateOK'
<1> DEFINE k == task[t].key
           n == task[t].turn
           pc == IF TooLong(memory[k]) THEN "compacting" ELSE "thinking"
<1>1. TypeOK /\ task \in [Task -> TaskState]
  BY DEF StateOK, TypeOK
<1>2. k \in Key /\ n \in Turn /\ n \in 0..MaxTurns
  BY <1>1, ShapedTask DEF Acquire, Granted, TaskState, Turned
<1>3. memory[k] \in History /\ pc \in Flight /\ "message" \in Op
  BY <1>1, <1>2 DEF TypeOK, Flight, Op
<1>4. Enter(t, "message", k, n, pc, memory[k])
  BY DEF Acquire
<1>5. task' \in [Task -> TaskState] /\ disturbed' \in SUBSET Key
  <2> HIDE DEF k, n, pc
  <2> QED
    BY <1>1, <1>2, <1>3, <1>4, EnterOK
<1>6. /\ task'[t] = [pc |-> pc, op |-> "message", key |-> k,
                     turn |-> n, hist |-> memory[k]]
      /\ \A u \in Task \ {t} : task'[u] = task[u]
  BY <1>1, <1>4 DEF Enter
<1>7. waiters' \in Seq(Task) /\ QueueOK'
  <2>1. Granted(t) /\ task'[t].pc # "waiting"
    BY <1>6 DEF Acquire
  <2> QED
    BY <1>1, <1>5, <1>6, <2>1, QueueTail
<1>8. TypeOK'
  BY <1>1, <1>5, <1>7 DEF TypeOK, Acquire, copies
<1>9. Shaped(task'[t])
  BY <1>2, <1>6 DEF Shaped, Stages, Turned, TooLong
<1> QED
  BY <1>6, <1>8, <1>9, OneTask DEF StateOK

\* Refuse keeps the shape of the state.
LEMMA RefuseOK ==
    ASSUME StateOK, NEW t \in Task, Refuse(t)
    PROVE  StateOK'
<1>1. TypeOK /\ task \in [Task -> TaskState]
  BY DEF StateOK, TypeOK
<1>2. /\ Finish(t) /\ Granted(t)
      /\ task'[t] = Idle /\ \A u \in Task \ {t} : task'[u] = task[u]
  BY <1>1 DEF Refuse, Finish
<1>3. task' \in [Task -> TaskState] /\ lock' \in Task \cup {Free}
  BY <1>1, <1>2, FinishOK
<1>4. waiters' \in Seq(Task) /\ QueueOK'
  <2>1. task'[t].pc # "waiting"
    BY <1>2 DEF Idle
  <2> QED
    BY <1>1, <1>2, <1>3, <2>1, QueueTail
<1>5. TypeOK'
  BY <1>1, <1>3, <1>4 DEF TypeOK, Refuse, copies, ghosts
<1>6. Shaped(task'[t])
  BY <1>2 DEF Shaped, Stages, Turned, Idle
<1> QED
  BY <1>2, <1>5, <1>6, OneTask DEF StateOK

\* The steps that move one coroutine, all but its arrival and its admission.
LEMMA AdvanceKeeps ==
    ASSUME StateOK, NEW t \in Task, NEW pc \in Flight, NEW h \in History,
           task[t].pc # "waiting", Advance(t, pc, h),
           pc \in Stages(task[t].op), pc # "compacting", UNCHANGED waiters
    PROVE  /\ task' \in [Task -> TaskState]
           /\ waiters' \in Seq(Task) /\ QueueOK'
           /\ TaskShape'
<1>1. TypeOK /\ task \in [Task -> TaskState]
  BY DEF StateOK, TypeOK
<1>2. task' \in [Task -> TaskState]
  BY <1>1, AdvanceOK
<1>3. /\ task'[t].pc = pc /\ task'[t].op = task[t].op
      /\ task'[t].turn = task[t].turn
      /\ \A u \in Task \ {t} : task'[u] = task[u]
  BY <1>1 DEF Advance, TaskState
<1>4. waiters' \in Seq(Task) /\ QueueOK'
  <2>1. \A u \in Task : task'[u].pc = "waiting" <=> task[u].pc = "waiting"
    BY <1>3 DEF Flight
  <2> QED
    BY <1>1, <2>1, QueueSame
<1>5. Shaped(task'[t])
  <2>1. task[t].op # "none"
    BY <1>1 DEF Stages, Flight
  <2> QED
    BY <1>3, <2>1, ShapedTask DEF Shaped
<1> QED
  BY <1>2, <1>3, <1>4, <1>5, OneTask

\* Returning or raising keeps the queue and the shape of the coroutines.
LEMMA FinishKeeps ==
    ASSUME StateOK, NEW t \in Task, task[t].pc # "waiting", Finish(t),
           UNCHANGED waiters
    PROVE  /\ task' \in [Task -> TaskState]
           /\ lock' \in Task \cup {Free}
           /\ waiters' \in Seq(Task) /\ QueueOK'
           /\ TaskShape'
<1>1. TypeOK /\ task \in [Task -> TaskState]
  BY DEF StateOK, TypeOK
<1>2. task' \in [Task -> TaskState] /\ lock' \in Task \cup {Free}
  BY <1>1, FinishOK
<1>3. task'[t] = Idle /\ \A u \in Task \ {t} : task'[u] = task[u]
  BY <1>1 DEF Finish
<1>4. waiters' \in Seq(Task) /\ QueueOK'
  <2>1. \A u \in Task : task'[u].pc = "waiting" <=> task[u].pc = "waiting"
    BY <1>3 DEF Idle
  <2> QED
    BY <1>1, <2>1, QueueSame
<1>5. Shaped(task'[t])
  BY <1>3 DEF Shaped, Stages, Turned, Idle
<1> QED
  BY <1>2, <1>3, <1>4, <1>5, OneTask

\* CompactDone keeps the shape of the state.
LEMMA CompactDoneOK ==
    ASSUME StateOK, NEW t \in Task, CompactDone(t)
    PROVE  StateOK'
<1>1. TypeOK /\ task[t].pc = "compacting" /\ task[t].pc # "waiting"
  BY DEF StateOK, CompactDone
<1>2. task[t].key \in Key /\ task[t].hist \in History /\ Len(task[t].hist) > Keep
  BY <1>1, ShapedTask DEF TaskState, StateOK, TaskShape, Shaped
<1>3. memory' \in [Key -> History]
  BY <1>1, <1>2, CompactOK DEF CompactDone, TypeOK
<1>4. CASE task[t].op = "message"
  <2>1. Advance(t, "thinking", task[t].hist) /\ UNCHANGED lock
    BY <1>4 DEF CompactDone
  <2>2. "thinking" \in Stages(task[t].op) /\ "thinking" \in Flight
    BY <1>4 DEF Stages, Flight
  <2>3. UNCHANGED waiters
    BY DEF CompactDone
  <2>4. /\ task' \in [Task -> TaskState]
        /\ waiters' \in Seq(Task) /\ QueueOK'
        /\ TaskShape'
    BY <1>1, <1>2, <2>1, <2>2, <2>3, AdvanceKeeps
  <2> QED
    BY <1>1, <1>3, <2>1, <2>4 DEF StateOK, TypeOK, CompactDone, copies, ghosts
<1>5. CASE task[t].op # "message"
  <2>1. Finish(t) /\ UNCHANGED waiters
    BY <1>5 DEF CompactDone
  <2> QED
    BY <1>1, <1>3, <2>1, FinishKeeps DEF StateOK, TypeOK, CompactDone, copies, ghosts
<1> QED
  BY <1>4, <1>5

\* CompactFails keeps the shape of the state.
LEMMA CompactFailsOK ==
    ASSUME StateOK, NEW t \in Task, CompactFails(t)
    PROVE  StateOK'
<1>1. TypeOK /\ task[t].pc = "compacting" /\ task[t].pc # "waiting"
  BY DEF StateOK, CompactFails
<1>2. task[t].hist \in History
  BY <1>1, ShapedTask DEF TaskState
<1>3. CASE task[t].op = "message"
  <2>1. Advance(t, "thinking", task[t].hist) /\ UNCHANGED lock
    BY <1>3 DEF CompactFails
  <2>2. "thinking" \in Stages(task[t].op) /\ "thinking" \in Flight
    BY <1>3 DEF Stages, Flight
  <2>3. UNCHANGED waiters
    BY DEF CompactFails
  <2>4. /\ task' \in [Task -> TaskState]
        /\ waiters' \in Seq(Task) /\ QueueOK'
        /\ TaskShape'
    BY <1>1, <1>2, <2>1, <2>2, <2>3, AdvanceKeeps
  <2> QED
    BY <1>1, <2>1, <2>4 DEF StateOK, TypeOK, CompactFails, copies, ghosts
<1>4. CASE task[t].op # "message"
  <2>1. Finish(t) /\ UNCHANGED waiters
    BY <1>4 DEF CompactFails
  <2> QED
    BY <1>1, <2>1, FinishKeeps DEF StateOK, TypeOK, CompactFails, copies, ghosts
<1> QED
  BY <1>3, <1>4

\* Replacing the history, for the two actions that do it.
LEMMA CommitKeeps ==
    ASSUME StateOK, NEW t \in Task, task[t].op \in Turned,
           task[t].pc # "waiting", NEW h \in History, Commit(t, h),
           UNCHANGED <<cache, store, lock, waiters, turns>>,
           disturbed' \in SUBSET Key
    PROVE  StateOK'
<1>1. TypeOK
  BY DEF StateOK
<1>2. task[t].turn \in Turn
  BY ShapedTask
<1>3. /\ memory' \in [Key -> History]
      /\ expected' \in [Key -> SUBSET Turn]
      /\ saved' \in [Key -> SUBSET Copy]
      /\ task' \in [Task -> TaskState]
  BY <1>1, <1>2, CommitOK
<1>4. "savingCache" \in Stages(task[t].op) /\ "savingCache" \in Flight
  BY DEF Stages, Flight, Turned
<1>5. waiters' \in Seq(Task) /\ QueueOK' /\ TaskShape'
  BY <1>1, <1>4, AdvanceKeeps DEF Commit
<1> QED
  BY <1>1, <1>3, <1>5 DEF StateOK, TypeOK

\* BrainAnswers keeps the shape of the state.
LEMMA BrainAnswersOK ==
    ASSUME StateOK, NEW t \in Task, BrainAnswers(t)
    PROVE  StateOK'
<1>1. /\ task[t].pc # "waiting"
      /\ task[t].op \in Turned
      /\ Commit(t, Exchange(task[t].hist, task[t].turn))
      /\ UNCHANGED <<cache, store, lock, waiters, turns, disturbed>>
  BY DEF BrainAnswers, Turned, copies
<1>2. Exchange(task[t].hist, task[t].turn) \in History
  BY <1>1, ShapedTask, ExchangeOK DEF TaskState
<1>3. disturbed' \in SUBSET Key
  BY <1>1 DEF StateOK, TypeOK
<1> QED
  BY <1>1, <1>2, <1>3, CommitKeeps

\* PromptSent keeps the shape of the state.
LEMMA PromptSentOK ==
    ASSUME StateOK, NEW t \in Task, PromptSent(t)
    PROVE  StateOK'
<1>1. /\ task[t].pc # "waiting"
      /\ task[t].op \in Turned
      /\ Commit(t, task[t].hist)
      /\ UNCHANGED <<cache, store, lock, waiters, turns>>
      /\ disturbed' \subseteq disturbed \cup {task[t].key}
  BY ShapedTask DEF PromptSent, Turned, copies
<1>2. task[t].hist \in History /\ task[t].key \in Key
  BY ShapedTask DEF TaskState
<1>3. disturbed' \in SUBSET Key
  BY <1>1, <1>2 DEF StateOK, TypeOK
<1> QED
  BY <1>1, <1>2, <1>3, CommitKeeps

\* BrainFails keeps the shape of the state.
LEMMA BrainFailsOK ==
    ASSUME StateOK, NEW t \in Task, BrainFails(t)
    PROVE  StateOK'
<1>1. TypeOK /\ task[t].pc # "waiting" /\ Finish(t) /\ UNCHANGED waiters
  BY DEF StateOK, BrainFails
<1> QED
  BY <1>1, FinishKeeps DEF StateOK, TypeOK, BrainFails, copies, ghosts

\* PromptAnswers keeps the shape of the state.
LEMMA PromptAnswersOK ==
    ASSUME StateOK, NEW t \in Task, PromptAnswers(t)
    PROVE  StateOK'
<1> DEFINE h == Exchange(task[t].hist, task[t].turn)
<1>1. TypeOK /\ task[t].pc # "waiting" /\ task[t].op = "prompt"
  BY DEF StateOK, PromptAnswers
<1>2. h \in History
  BY <1>1, ShapedTask, ExchangeOK DEF TaskState, Turned
<1>3. "sending" \in Stages(task[t].op) /\ "sending" \in Flight
  BY <1>1 DEF Stages, Flight
<1>4. Advance(t, "sending", h) /\ UNCHANGED waiters
  BY DEF PromptAnswers
<1>5. /\ task' \in [Task -> TaskState]
      /\ waiters' \in Seq(Task) /\ QueueOK'
      /\ TaskShape'
  <2> HIDE DEF h
  <2> QED
    BY <1>1, <1>2, <1>3, <1>4, AdvanceKeeps
<1> QED
  BY <1>1, <1>5 DEF StateOK, TypeOK, PromptAnswers, copies, ghosts

\* SaveCache keeps the shape of the state.
LEMMA SaveCacheOK ==
    ASSUME StateOK, NEW t \in Task, SaveCache(t)
    PROVE  StateOK'
<1>1. /\ TypeOK /\ task[t].pc = "savingCache"
      /\ Advance(t, "savingStore", task[t].hist) /\ UNCHANGED waiters
  BY DEF StateOK, SaveCache
<1>2. task[t].key \in Key /\ task[t].hist \in History
  BY ShapedTask DEF TaskState
<1>3. cache' \in [Key -> History] /\ saved' \in [Key -> SUBSET Copy]
  BY <1>1, <1>2 DEF TypeOK, SaveCache, Copy
<1>4. "savingStore" \in Stages(task[t].op) /\ "savingStore" \in Flight
  BY <1>1, ShapedTask DEF Stages, Flight, TaskState, Op, LockFree
<1>5. /\ task' \in [Task -> TaskState]
      /\ waiters' \in Seq(Task) /\ QueueOK'
      /\ TaskShape'
  BY <1>1, <1>2, <1>4, AdvanceKeeps
<1> QED
  BY <1>1, <1>3, <1>5 DEF StateOK, TypeOK, SaveCache

\* SaveStore keeps the shape of the state.
LEMMA SaveStoreOK ==
    ASSUME StateOK, NEW t \in Task, SaveStore(t)
    PROVE  StateOK'
<1>1. TypeOK /\ task[t].pc # "waiting" /\ Finish(t) /\ UNCHANGED waiters
  BY DEF StateOK, SaveStore
<1>2. task[t].key \in Key /\ task[t].hist \in History
  BY ShapedTask DEF TaskState
<1>3. store' \in [Key -> History] /\ saved' \in [Key -> SUBSET Copy]
  BY <1>1, <1>2 DEF TypeOK, SaveStore, Copy
<1> QED
  BY <1>1, <1>3, FinishKeeps DEF StateOK, TypeOK, SaveStore

\* An operation that starts without asking for the lock.
LEMMA EnterKeeps ==
    ASSUME StateOK, NEW t \in Task, task[t] = Idle, NEW op \in Op,
           NEW k \in Key, NEW n \in 0..MaxTurns, NEW pc \in Flight,
           NEW h \in History, Enter(t, op, k, n, pc, h),
           pc \in Stages(op), op # "none", op \in Turned => n \in Turn,
           pc = "compacting" => Len(h) > Keep,
           turns' \in 0..MaxTurns,
           UNCHANGED <<memory, cache, store, lock, waiters, expected, saved>>
    PROVE  StateOK'
<1>1. TypeOK /\ task \in [Task -> TaskState]
  BY DEF StateOK, TypeOK
<1>2. task' \in [Task -> TaskState] /\ disturbed' \in SUBSET Key
  BY <1>1, EnterOK
<1>3. /\ task'[t] = [pc |-> pc, op |-> op, key |-> k, turn |-> n, hist |-> h]
      /\ \A u \in Task \ {t} : task'[u] = task[u]
  BY <1>1 DEF Enter
<1>4. waiters' \in Seq(Task) /\ QueueOK'
  <2>1. \A u \in Task : task'[u].pc = "waiting" <=> task[u].pc = "waiting"
    BY <1>3 DEF Idle, Flight
  <2> QED
    BY <1>1, <2>1, QueueSame
<1>5. Shaped(task'[t])
  BY <1>3 DEF Shaped
<1>6. TaskShape'
  BY <1>3, <1>5, OneTask
<1> QED
  BY <1>1, <1>2, <1>4, <1>6 DEF StateOK, TypeOK

\* ScheduledSend keeps the shape of the state.
LEMMA ScheduledSendOK ==
    ASSUME StateOK, NEW t \in Task, NEW k \in Key, ScheduledSend(t, k)
    PROVE  StateOK'
<1>1. /\ task[t] = Idle /\ memory[k] \in History
      /\ turns' = turns + 1 /\ turns + 1 \in Turn /\ turns' \in 0..MaxTurns
  BY DEF StateOK, TypeOK, ScheduledSend, Turn
<1>2. /\ "send" \in Op /\ "thinking" \in Flight /\ "thinking" \in Stages("send")
      /\ turns + 1 \in 0..MaxTurns
  BY <1>1 DEF Op, LockFree, Flight, Stages
<1>3. /\ Enter(t, "send", k, turns + 1, "thinking", memory[k])
      /\ UNCHANGED <<memory, cache, store, lock, waiters, expected, saved>>
  BY DEF ScheduledSend, copies
<1> QED
  BY <1>1, <1>2, <1>3, EnterKeeps

\* ScheduledPrompt keeps the shape of the state.
LEMMA ScheduledPromptOK ==
    ASSUME StateOK, NEW t \in Task, NEW k \in Key, ScheduledPrompt(t, k)
    PROVE  StateOK'
<1>1. /\ task[t] = Idle /\ <<>> \in History
      /\ turns' = turns + 1 /\ turns + 1 \in Turn /\ turns' \in 0..MaxTurns
  BY IdleOK DEF StateOK, TypeOK, ScheduledPrompt, Turn
<1>2. /\ "prompt" \in Op /\ "thinking" \in Flight /\ "thinking" \in Stages("prompt")
      /\ turns + 1 \in 0..MaxTurns
  BY <1>1 DEF Op, LockFree, Flight, Stages
<1>3. /\ Enter(t, "prompt", k, turns + 1, "thinking", <<>>)
      /\ UNCHANGED <<memory, cache, store, lock, waiters, expected, saved>>
  BY DEF ScheduledPrompt, copies
<1> QED
  BY <1>1, <1>2, <1>3, EnterKeeps

\* StartCompact keeps the shape of the state.
LEMMA StartCompactOK ==
    ASSUME StateOK, NEW t \in Task, NEW k \in Key, StartCompact(t, k)
    PROVE  StateOK'
<1>1. /\ task[t] = Idle /\ memory[k] \in History /\ Len(memory[k]) > Keep
      /\ turns' \in 0..MaxTurns
  BY DEF StateOK, TypeOK, StartCompact
<1>2. /\ "compact" \in Op /\ "compacting" \in Flight
      /\ "compacting" \in Stages("compact") /\ 0 \in 0..MaxTurns
      /\ "compact" \notin Turned
  BY DEF Op, LockFree, Flight, Stages, Turned
<1>3. /\ Enter(t, "compact", k, 0, "compacting", memory[k])
      /\ UNCHANGED <<memory, cache, store, lock, waiters, expected, saved>>
  BY DEF StartCompact, copies
<1> QED
  BY <1>1, <1>2, <1>3, EnterKeeps

\* Reset keeps the shape of the state.
LEMMA ResetOK ==
    ASSUME StateOK, NEW t \in Task, NEW k \in Key, Reset(t, k)
    PROVE  StateOK'
<1> DEFINE r == [Idle EXCEPT !.pc = "savingCache", !.op = "reset", !.key = k]
<1>1. TypeOK /\ task \in [Task -> TaskState] /\ task[t] = Idle
  BY DEF StateOK, TypeOK, Reset
<1>2. /\ r \in TaskState
      /\ r.pc = "savingCache" /\ r.op = "reset"
  BY IdleOK DEF TaskState, Idle, Op, LockFree, Flight
<1>3. task' = [task EXCEPT ![t] = r]
  BY DEF Reset
<1>4. /\ task' \in [Task -> TaskState] /\ task'[t] = r
      /\ \A u \in Task \ {t} : task'[u] = task[u]
  BY <1>1, <1>2, <1>3
<1>5. waiters' \in Seq(Task) /\ QueueOK'
  <2>1. \A u \in Task : task'[u].pc = "waiting" <=> task[u].pc = "waiting"
    <3>1. task[t].pc = "idle" /\ task'[t].pc = "savingCache"
      BY <1>1, <1>2, <1>4 DEF Idle
    <3> QED
      BY <1>4, <3>1
  <2> QED
    BY <1>1, <2>1, QueueSame DEF Reset
<1>6. Shaped(task'[t])
  BY <1>2, <1>4 DEF Shaped, Stages, Turned
<1>7. TaskShape'
  BY <1>4, <1>6, OneTask
<1>8. memory' \in [Key -> History] /\ disturbed' \in SUBSET Key
  BY <1>1, IdleOK DEF Reset, TypeOK
<1>9. TypeOK'
  BY <1>1, <1>4, <1>5, <1>8 DEF TypeOK, Reset, copies
<1> QED
  BY <1>7, <1>9 DEF StateOK

\* Expire keeps the shape of the state.
LEMMA ExpireOK ==
    ASSUME StateOK, NEW k \in Key, Expire(k)
    PROVE  StateOK'
<1>1. TypeOK /\ waiters' \in Seq(Task) /\ QueueOK'
  BY DEF StateOK, TypeOK, Expire, QueueOK
<1>2. cache' \in [Key -> History]
  BY <1>1, IdleOK DEF TypeOK, Expire
<1> QED
  BY <1>1, <1>2 DEF StateOK, TypeOK, TaskShape, Expire

\* Restart keeps the shape of the state.
LEMMA RestartOK ==
    ASSUME StateOK, Restart
    PROVE  StateOK'
<1>1. TypeOK
  BY DEF StateOK
<1>2. \A a \in BOOLEAN, k \in Key : LoadHistory(a)[k] \in History
  BY <1>1, IdleOK DEF LoadHistory, TypeOK
<1>3. \A a \in BOOLEAN : LoadHistory(a) \in [Key -> History]
  BY <1>2 DEF LoadHistory
<1>4. memory' \in [Key -> History]
  BY <1>3 DEF Restart
<1>5. expected' \in [Key -> SUBSET Turn]
  <2>1. \A a \in BOOLEAN, k \in Key : Covered(LoadHistory(a)[k]) \in SUBSET Turn
    BY <1>2, CoveredSubset
  <2> QED
    BY <2>1 DEF Restart
<1>6. /\ task' \in [Task -> TaskState]
      /\ \A t \in Task : task'[t] = Idle
  BY IdleOK DEF Restart
<1>7. waiters' = <<>> /\ waiters' \in Seq(Task) /\ QueueOK'
  BY <1>6 DEF Restart, QueueOK, Idle
<1>8. TypeOK'
  BY <1>1, <1>4, <1>5, <1>6, <1>7 DEF TypeOK, Restart, copies
<1>9. TaskShape'
  BY <1>6 DEF TaskShape, Shaped, Stages, Turned, Idle
<1> QED
  BY <1>8, <1>9 DEF StateOK

\* Every step keeps the shape of the state.
LEMMA StateStep == StateOK /\ [Next]_vars => StateOK'
<1> SUFFICES ASSUME StateOK, [Next]_vars PROVE StateOK'
  OBVIOUS
<1>1. CASE UNCHANGED vars
  BY <1>1 DEF vars, StateOK, TypeOK, QueueOK, TaskShape
<1>2. CASE \E t \in Task : Progress(t)
  BY <1>2, AcquireOK, RefuseOK, CompactDoneOK, CompactFailsOK, BrainAnswersOK,
     BrainFailsOK, PromptAnswersOK, PromptSentOK, SaveCacheOK, SaveStoreOK
     DEF Progress
<1>3. CASE \E t \in Task, k \in Key : Start(t, k)
  BY <1>3, ArriveOK, ScheduledSendOK, ScheduledPromptOK, StartCompactOK, ResetOK
     DEF Start
<1>4. CASE \E k \in Key : Expire(k)
  BY <1>4, ExpireOK
<1>5. CASE Restart
  BY <1>5, RestartOK
<1> QED
  BY <1>1, <1>2, <1>3, <1>4, <1>5 DEF Next

\* Whatever the order of messages, jobs, commands, failures and restarts, the
\* histories, the copies and the lock's queue keep their shape: every waiting
\* handle_message is queued once, and nobody else is.
THEOREM TypeCorrect == Spec => []TypeOK
<1>1. StateOK => TypeOK
  BY DEF StateOK
<1> QED
  BY <1>1, InitState, StateStep, PTL DEF Spec

----------------------------------------------------------------------------
(***************************************************************************)
(* The lock.                                                               *)
(***************************************************************************)

\* What a step of t does to the coroutines, when it goes on,
LEMMA AdvanceEffect ==
    ASSUME StateOK, NEW t \in Task, NEW pc, NEW h, Advance(t, pc, h)
    PROVE  /\ task'[t].pc = pc /\ task'[t].hist = h
           /\ task'[t].op = task[t].op /\ task'[t].key = task[t].key
           /\ task'[t].turn = task[t].turn
           /\ \A u \in Task \ {t} : task'[u] = task[u]
BY DEF StateOK, TypeOK, TaskState, Advance

\* ... when it returns or raises,
LEMMA FinishEffect ==
    ASSUME StateOK, NEW t \in Task, Finish(t)
    PROVE  /\ task'[t] = Idle
           /\ \A u \in Task \ {t} : task'[u] = task[u]
BY DEF StateOK, TypeOK, Finish

\* ... when it starts,
LEMMA EnterEffect ==
    ASSUME StateOK, NEW t \in Task, NEW op, NEW k, NEW n, NEW pc, NEW h,
           Enter(t, op, k, n, pc, h)
    PROVE  /\ task'[t].pc = pc /\ task'[t].hist = h
           /\ task'[t].op = op /\ task'[t].key = k /\ task'[t].turn = n
           /\ \A u \in Task \ {t} : task'[u] = task[u]
BY DEF StateOK, TypeOK, Enter

\* ... when it asks for the lock,
LEMMA ArriveEffect ==
    ASSUME StateOK, NEW t \in Task, NEW k, Arrive(t, k)
    PROVE  /\ task'[t].pc = "waiting" /\ task'[t].op = "message"
           /\ \A u \in Task \ {t} : task'[u] = task[u]
BY DEF StateOK, TypeOK, Arrive, Idle

\* ... and when it resets.
LEMMA ResetEffect ==
    ASSUME StateOK, NEW t \in Task, NEW k, Reset(t, k)
    PROVE  /\ task'[t].pc = "savingCache" /\ task'[t].hist = <<>>
           /\ task'[t].op = "reset" /\ task'[t].key = k
           /\ \A u \in Task \ {t} : task'[u] = task[u]
BY DEF StateOK, TypeOK, Reset, Idle

\* Idle and waiting coroutines hold no history.
LEMMA IdleNotInFlight == Idle.pc \notin Flight /\ "waiting" \notin Flight
BY DEF Idle, Flight

\* A step of t that leaves the lock alone and keeps t's operation in flight,
\* or in its queue, or starts one that does not take the lock.
LEMMA LockKept ==
    ASSUME StateOK, LockDiscipline, NEW t \in Task, UNCHANGED lock,
           \A u \in Task \ {t} : task'[u] = task[u],
           task'[t].pc \in Flight /\ task'[t].op = "message" <=>
               task[t].pc \in Flight /\ task[t].op = "message"
    PROVE  LockDiscipline'
BY DEF LockDiscipline, InFlight

\* Returning or raising gives the lock back, if it was held.
LEMMA LockReleased ==
    ASSUME StateOK, LockDiscipline, NEW t \in Task, Finish(t)
    PROVE  LockDiscipline'
<1>1. task'[t] = Idle /\ \A u \in Task \ {t} : task'[u] = task[u]
  BY FinishEffect
<1>2. lock' = IF lock = t THEN Free ELSE lock
  BY DEF Finish
<1>3. ~ InFlight(t)'
  BY <1>1, IdleNotInFlight DEF InFlight
<1> QED
  BY <1>1, <1>2, <1>3 DEF LockDiscipline, InFlight

\* The lock goes to the message that starts to work.
LEMMA LockAcquired ==
    ASSUME StateOK, LockDiscipline, NEW t \in Task, Acquire(t)
    PROVE  LockDiscipline'
<1>1. lock = Free /\ lock' = t
  BY DEF Acquire, Granted
<1>2. /\ task'[t].pc \in Flight /\ task'[t].op = "message"
      /\ \A u \in Task \ {t} : task'[u] = task[u]
  <2> DEFINE pc == IF TooLong(memory[task[t].key]) THEN "compacting" ELSE "thinking"
  <2>1. pc \in Flight
    BY DEF Flight
  <2>2. Enter(t, "message", task[t].key, task[t].turn, pc, memory[task[t].key])
    BY DEF Acquire
  <2> HIDE DEF pc
  <2> QED
    BY <2>1, <2>2, EnterEffect
<1> QED
  BY <1>1, <1>2 DEF LockDiscipline, InFlight

\* Every step keeps the lock with the message in progress.
LEMMA LockStep ==
    StateOK /\ LockDiscipline /\ [Next]_vars => LockDiscipline'
<1> SUFFICES ASSUME StateOK, LockDiscipline, [Next]_vars PROVE LockDiscipline'
  OBVIOUS
<1>1. CASE UNCHANGED vars
  BY <1>1 DEF vars, LockDiscipline, InFlight
<1>2. ASSUME NEW t \in Task, Progress(t) PROVE LockDiscipline'
  <2>1. CASE Acquire(t)
    BY <2>1, LockAcquired
  <2>2. CASE Refuse(t) \/ BrainFails(t) \/ SaveStore(t)
    BY <2>2, LockReleased DEF Refuse, BrainFails, SaveStore
  <2>3. ASSUME CompactDone(t) \/ CompactFails(t) PROVE LockDiscipline'
    <3>1. CASE task[t].op = "message"
      <4>1. /\ Advance(t, "thinking", task[t].hist) /\ UNCHANGED lock
            /\ task[t].pc = "compacting"
        BY <2>3, <3>1 DEF CompactDone, CompactFails
      <4>2. task'[t].pc = "thinking" /\ task'[t].op = task[t].op
        BY <4>1, AdvanceEffect
      <4> QED
        BY <4>1, <4>2, AdvanceEffect, LockKept DEF Flight
    <3>2. CASE task[t].op # "message"
      BY <2>3, <3>2, LockReleased DEF CompactDone, CompactFails
    <3> QED
      BY <3>1, <3>2
  <2>4. ASSUME \/ BrainAnswers(t) \/ PromptAnswers(t) \/ PromptSent(t)
               \/ SaveCache(t)
        PROVE  LockDiscipline'
    <3>1. PICK pc, h : pc \in Flight /\ Advance(t, pc, h)
      BY <2>4 DEF BrainAnswers, PromptAnswers, PromptSent, SaveCache, Commit,
                  Flight
    <3>2. task'[t].pc = pc /\ task'[t].op = task[t].op
      BY <3>1, AdvanceEffect
    <3>3. task[t].pc \in Flight /\ UNCHANGED lock
      BY <2>4 DEF BrainAnswers, PromptAnswers, PromptSent, SaveCache, Flight
    <3> QED
      BY <3>1, <3>2, <3>3, AdvanceEffect, LockKept
  <2> QED
    BY <1>2, <2>1, <2>2, <2>3, <2>4 DEF Progress
<1>3. ASSUME NEW t \in Task, NEW k \in Key, Start(t, k) PROVE LockDiscipline'
  <2>1. task[t] = Idle /\ UNCHANGED lock
    BY <1>3 DEF Start, Arrive, ScheduledSend, ScheduledPrompt, StartCompact, Reset
  <2>2. /\ \A u \in Task \ {t} : task'[u] = task[u]
        /\ task'[t].pc = "waiting" \/ task'[t].op # "message"
    <3>1. CASE Arrive(t, k)
      BY <3>1, ArriveEffect
    <3>2. CASE Reset(t, k)
      BY <3>2, ResetEffect
    <3>3. CASE ScheduledSend(t, k)
      BY <3>3, EnterEffect DEF ScheduledSend
    <3>4. CASE ScheduledPrompt(t, k)
      BY <3>4, EnterEffect DEF ScheduledPrompt
    <3>5. CASE StartCompact(t, k)
      BY <3>5, EnterEffect DEF StartCompact
    <3> QED
      BY <1>3, <3>1, <3>2, <3>3, <3>4, <3>5 DEF Start
  <2> QED
    BY <2>1, <2>2, LockKept, IdleNotInFlight
<1>4. ASSUME NEW k \in Key, Expire(k) PROVE LockDiscipline'
  BY <1>4 DEF Expire, LockDiscipline, InFlight
<1>5. CASE Restart
  BY <1>5, IdleNotInFlight DEF Restart, LockDiscipline, InFlight
<1> QED
  BY <1>1, <1>2, <1>3, <1>4, <1>5 DEF Next

\* handle_message holds self._lock from its first read of the history to its
\* last save, and nobody else ever holds it: at most one message is handled at
\* a time, and an exception, a refusal or a restart always gives the lock back.
THEOREM LockSafety == Spec => []LockDiscipline
<1>1. Init => LockDiscipline
  BY IdleNotInFlight DEF Init, LockDiscipline, InFlight
<1> QED
  BY <1>1, InitState, StateStep, LockStep, PTL DEF Spec

----------------------------------------------------------------------------
(***************************************************************************)
(* Serial behaviour where nothing overlaps.                                *)
(***************************************************************************)

Serial == Alone /\ HistoryInHand /\ SerialHistory /\ SavedCopiesAgree

\* t goes on with its operation or leaves it; nothing starts.
LEMMA AloneKept ==
    ASSUME Alone, NEW t \in Task, disturbed \subseteq disturbed',
           \A u \in Task \ {t} : task'[u] = task[u],
           InFlight(t)' => InFlight(t) /\ task'[t].key = task[t].key
    PROVE  Alone'
BY DEF Alone, InFlight

\* t starts an operation on k and overlaps with whatever is in flight there.
LEMMA AloneStarted ==
    ASSUME Alone, NEW t \in Task, NEW k,
           \A u \in Task \ {t} : task'[u] = task[u],
           task'[t].key = k, Busy(t, k) => k \in disturbed',
           \A j : j # k /\ j \notin disturbed' => j \notin disturbed
    PROVE  Alone'
<1> SUFFICES ASSUME NEW u \in Task, NEW v \in Task, u # v,
                    InFlight(u)', InFlight(v)', task'[u].key = task'[v].key,
                    task'[u].key \notin disturbed'
             PROVE  FALSE
  BY DEF Alone
<1>1. CASE u = t \/ v = t
  BY <1>1 DEF Busy, InFlight
<1>2. CASE u # t /\ v # t /\ task[u].key = k
  BY <1>2 DEF Busy, InFlight
<1>3. CASE u # t /\ v # t /\ task[u].key # k
  BY <1>3 DEF Alone, InFlight
<1> QED
  BY <1>1, <1>2, <1>3

\* The coroutines that do not move still hold what they held.
LEMMA HandOthers ==
    ASSUME HistoryInHand, NEW t \in Task, NEW k,
           \A u \in Task \ {t} : task'[u] = task[u],
           \A j : j # k /\ j \notin disturbed' =>
               j \notin disturbed /\ expected'[j] = expected[j],
           k \notin disturbed' =>
               \/ ~ Busy(t, k)
               \/ k \notin disturbed /\ expected'[k] = expected[k]
    PROVE  \A u \in Task \ {t} :
               InFlight(u)' /\ task'[u].key \notin disturbed' =>
                   Covered(task'[u].hist) = InHand(u)'
<1> SUFFICES ASSUME NEW u \in Task \ {t}, InFlight(u)',
                    task'[u].key \notin disturbed'
             PROVE  Covered(task'[u].hist) = InHand(u)'
  OBVIOUS
<1>1. task'[u] = task[u] /\ InFlight(u)
  BY DEF InFlight
<1>2. task[u].key \notin disturbed
      /\ expected'[task[u].key] = expected[task[u].key]
  BY <1>1 DEF Busy
<1>3. Covered(task[u].hist) = InHand(u)
  BY <1>1, <1>2 DEF HistoryInHand
<1> QED
  BY <1>1, <1>2, <1>3 DEF InHand

\* Where nothing overlapped, t shares its conversation with nobody.
LEMMA BusyAlone ==
    ASSUME Alone, NEW t \in Task, InFlight(t), task[t].key \notin disturbed
    PROVE  ~ Busy(t, task[t].key)
BY DEF Alone, Busy

\* t returns or raises.
LEMMA SerialFinish ==
    ASSUME StateOK, Serial, NEW t \in Task, Finish(t),
           UNCHANGED <<disturbed, expected>>
    PROVE  Alone' /\ HistoryInHand'
<1>1. task'[t] = Idle /\ \A u \in Task \ {t} : task'[u] = task[u]
  BY FinishEffect
<1>2. ~ InFlight(t)'
  BY <1>1, IdleNotInFlight DEF InFlight
<1>3. Alone'
  BY <1>1, <1>2, AloneKept DEF Serial
<1>4. \A u \in Task \ {t} : InFlight(u)' /\ task'[u].key \notin disturbed' =>
          Covered(task'[u].hist) = InHand(u)'
  BY <1>1, HandOthers DEF Serial
<1> QED
  BY <1>2, <1>3, <1>4 DEF HistoryInHand

\* t goes on with the history it holds.
LEMMA SerialAdvance ==
    ASSUME StateOK, Serial, NEW t \in Task, InFlight(t), NEW pc \in Flight,
           NEW h, Advance(t, pc, h), UNCHANGED <<disturbed, expected>>,
           task[t].key \notin disturbed => Covered(h) = InHand(t)'
    PROVE  Alone' /\ HistoryInHand'
<1>1. /\ task'[t].pc = pc /\ task'[t].hist = h
      /\ task'[t].op = task[t].op /\ task'[t].key = task[t].key
      /\ \A u \in Task \ {t} : task'[u] = task[u]
  BY AdvanceEffect
<1>2. Alone'
  BY <1>1, AloneKept DEF Serial
<1>3. \A u \in Task \ {t} : InFlight(u)' /\ task'[u].key \notin disturbed' =>
          Covered(task'[u].hist) = InHand(u)'
  BY <1>1, HandOthers DEF Serial
<1> QED
  BY <1>1, <1>2, <1>3 DEF HistoryInHand

\* t replaces the history of its conversation.
LEMMA SerialCommit ==
    ASSUME StateOK, Serial, NEW t \in Task, InFlight(t), NEW h \in History,
           task[t].op \in Turned, Commit(t, h),
           UNCHANGED <<cache, store>>, disturbed \subseteq disturbed',
           disturbed' \subseteq disturbed \cup {task[t].key},
           task[t].key \notin disturbed' =>
               Covered(h) = expected[task[t].key] \cup {task[t].turn}
    PROVE  Serial'
<1> DEFINE k == task[t].key
<1>1. /\ task'[t].pc = "savingCache" /\ task'[t].hist = h
      /\ task'[t].op = task[t].op /\ task'[t].key = task[t].key
      /\ \A u \in Task \ {t} : task'[u] = task[u]
  BY AdvanceEffect DEF Commit
<1>2. /\ k \in Key /\ memory \in [Key -> History]
      /\ expected \in [Key -> SUBSET Turn] /\ saved \in [Key -> SUBSET Copy]
  BY ShapedTask DEF StateOK, TypeOK, TaskState
<1>3. /\ memory'[k] = h /\ saved'[k] = {}
      /\ expected'[k] = expected[k] \cup {task[t].turn}
      /\ \A j : j # k => expected'[j] = expected[j]
      /\ \A j \in Key \ {k} : memory'[j] = memory[j] /\ saved'[j] = saved[j]
  <2>1. /\ memory' = [memory EXCEPT ![k] = h]
        /\ saved' = [saved EXCEPT ![k] = {}]
        /\ expected' = [expected EXCEPT ![k] = @ \cup {task[t].turn}]
    BY DEF Commit
  <2> HIDE DEF k
  <2> QED
    BY <1>2, <2>1
<1>4. Alone'
  BY <1>1, AloneKept DEF Serial
<1>5. \A u \in Task \ {t} : InFlight(u)' /\ task'[u].key \notin disturbed' =>
          Covered(task'[u].hist) = InHand(u)'
  <2>1. k \notin disturbed' => ~ Busy(t, k)
    BY BusyAlone DEF Serial
  <2> HIDE DEF k
  <2> QED
    BY <1>1, <1>3, <2>1, HandOthers DEF Serial
<1>6. HistoryInHand'
  <2>1. InHand(t)' = expected'[k]
    BY <1>1 DEF InHand
  <2>2. k \notin disturbed' => Covered(task'[t].hist) = InHand(t)'
    BY <1>1, <1>3, <2>1
  <2> QED
    BY <1>1, <1>5, <2>2 DEF HistoryInHand
<1>7. SerialHistory'
  BY <1>1, <1>3 DEF Serial, SerialHistory
<1>8. SavedCopiesAgree'
  BY <1>3 DEF Serial, SavedCopiesAgree
<1> QED
  BY <1>4, <1>6, <1>7, <1>8 DEF Serial

\* t starts an operation on k with history h in hand.
LEMMA SerialEnter ==
    ASSUME StateOK, Serial, NEW t \in Task, NEW op, NEW k \in Key, NEW n,
           NEW pc, NEW h, Enter(t, op, k, n, pc, h),
           UNCHANGED <<memory, cache, store, expected, saved>>,
           k \notin disturbed' => Covered(h) = InHand(t)'
    PROVE  Serial'
<1>1. /\ task'[t].hist = h /\ task'[t].key = k
      /\ \A u \in Task \ {t} : task'[u] = task[u]
  BY EnterEffect
<1>2. disturbed' = IF Busy(t, k) THEN disturbed \cup {k} ELSE disturbed
  BY DEF Enter
<1>3. Alone'
  BY <1>1, <1>2, AloneStarted DEF Serial
<1>4. \A u \in Task \ {t} : InFlight(u)' /\ task'[u].key \notin disturbed' =>
          Covered(task'[u].hist) = InHand(u)'
  BY <1>1, <1>2, HandOthers DEF Serial
<1>5. HistoryInHand'
  BY <1>1, <1>4 DEF HistoryInHand
<1>6. SerialHistory' /\ SavedCopiesAgree'
  BY <1>2 DEF Serial, SerialHistory, SavedCopiesAgree
<1> QED
  BY <1>3, <1>5, <1>6 DEF Serial

\* ... which is the one in memory, for all operations but the custom prompt.
LEMMA SerialRead ==
    ASSUME StateOK, Serial, NEW t \in Task, NEW op, op # "prompt",
           NEW k \in Key, NEW n, NEW pc, Enter(t, op, k, n, pc, memory[k]),
           UNCHANGED <<memory, cache, store, expected, saved>>
    PROVE  Serial'
<1>1. InHand(t)' = expected[k]
  BY EnterEffect DEF InHand
<1>2. k \notin disturbed' => Covered(memory[k]) = expected[k]
  BY DEF Enter, Serial, SerialHistory
<1> QED
  BY <1>1, <1>2, SerialEnter

\* /reset empties a conversation and what is expected of it.
LEMMA SerialReset ==
    ASSUME StateOK, Serial, NEW t \in Task, NEW k \in Key, Reset(t, k)
    PROVE  Serial'
<1>1. /\ task'[t].pc = "savingCache" /\ task'[t].hist = <<>>
      /\ task'[t].op = "reset" /\ task'[t].key = k
      /\ \A u \in Task \ {t} : task'[u] = task[u]
  BY ResetEffect
<1>2. disturbed' = IF Busy(t, k) THEN disturbed \cup {k} ELSE disturbed \ {k}
  BY DEF Reset
<1>3. /\ memory'[k] = <<>> /\ expected'[k] = {} /\ saved'[k] = {}
      /\ \A j : j # k => expected'[j] = expected[j]
      /\ \A j \in Key \ {k} : memory'[j] = memory[j] /\ saved'[j] = saved[j]
      /\ UNCHANGED <<cache, store>>
  BY DEF Reset, StateOK, TypeOK, copies
<1>4. Alone'
  BY <1>1, <1>2, AloneStarted DEF Serial
<1>5. \A u \in Task \ {t} : InFlight(u)' /\ task'[u].key \notin disturbed' =>
          Covered(task'[u].hist) = InHand(u)'
  BY <1>1, <1>2, <1>3, HandOthers DEF Serial
<1>6. InHand(t)' = {} /\ Covered(task'[t].hist) = {}
  BY <1>1, <1>3, CoveredEmpty DEF InHand
<1>7. HistoryInHand'
  BY <1>5, <1>6 DEF HistoryInHand
<1>8. SerialHistory'
  BY <1>2, <1>3, CoveredEmpty DEF Serial, SerialHistory
<1>9. SavedCopiesAgree'
  BY <1>2, <1>3 DEF Serial, SavedCopiesAgree
<1> QED
  BY <1>4, <1>7, <1>8, <1>9 DEF Serial

\* Asking for the lock touches no conversation.
LEMMA SerialArrive ==
    ASSUME StateOK, Serial, NEW t \in Task, NEW k \in Key, Arrive(t, k)
    PROVE  Serial'
<1>1. /\ task'[t].pc = "waiting"
      /\ \A u \in Task \ {t} : task'[u] = task[u]
      /\ UNCHANGED <<memory, cache, store, expected, disturbed, saved>>
  BY ArriveEffect DEF Arrive, copies, ghosts
<1>2. ~ InFlight(t)'
  BY <1>1, IdleNotInFlight DEF InFlight
<1>3. Alone'
  BY <1>1, <1>2, AloneKept DEF Serial
<1>4. HistoryInHand'
  BY <1>1, <1>2, HandOthers DEF Serial, HistoryInHand
<1> QED
  BY <1>1, <1>3, <1>4 DEF Serial, SerialHistory, SavedCopiesAgree

\* Compaction replaces the history in memory by one that covers the same turns.
LEMMA SerialCompactDone ==
    ASSUME StateOK, Serial, NEW t \in Task, CompactDone(t)
    PROVE  Serial'
<1> DEFINE k == task[t].key
<1>1. /\ InFlight(t) /\ task[t].pc = "compacting"
      /\ UNCHANGED <<cache, store, expected, disturbed, saved>>
  BY DEF CompactDone, InFlight, Flight, copies, ghosts
<1>2. task[t].op # "prompt"
  BY <1>1, ShapedTask
<1>3. k \notin disturbed => Covered(task[t].hist) = expected[k]
  BY <1>1, <1>2 DEF Serial, HistoryInHand, InHand
<1>4. Covered(Compact(task[t].hist)) = Covered(task[t].hist)
  BY <1>1, CompactOK, ShapedTask DEF TaskState, StateOK, TaskShape, Shaped
<1>5. memory' = [memory EXCEPT ![k] = Compact(task[t].hist)]
  BY DEF CompactDone
<1>6. SerialHistory'
  <2>1. memory'[k] = Compact(task[t].hist) \/ k \notin Key
    BY <1>5 DEF StateOK, TypeOK
  <2>2. \A j \in Key \ {k} : memory'[j] = memory[j]
    BY <1>5 DEF StateOK, TypeOK
  <2> QED
    BY <1>1, <1>3, <1>4, <2>1, <2>2 DEF Serial, SerialHistory
<1>7. Alone' /\ HistoryInHand'
  <2>1. CASE task[t].op = "message"
    <3>1. Advance(t, "thinking", task[t].hist)
      BY <2>1 DEF CompactDone
    <3>2. InHand(t)' = expected[k]
      BY <1>1, <2>1, <3>1, AdvanceEffect DEF InHand
    <3> QED
      BY <1>1, <1>3, <3>1, <3>2, SerialAdvance DEF Flight
  <2>2. CASE task[t].op # "message"
    BY <1>1, <2>2, SerialFinish DEF CompactDone
  <2> QED
    BY <2>1, <2>2
<1> QED
  BY <1>1, <1>6, <1>7 DEF Serial, SavedCopiesAgree

\* A failed compaction changes no history.
LEMMA SerialCompactFails ==
    ASSUME StateOK, Serial, NEW t \in Task, CompactFails(t)
    PROVE  Serial'
<1>1. /\ InFlight(t) /\ task[t].pc = "compacting"
      /\ UNCHANGED <<memory, cache, store, expected, disturbed, saved>>
  BY DEF CompactFails, InFlight, Flight, copies, ghosts
<1>2. Alone' /\ HistoryInHand'
  <2>1. CASE task[t].op = "message"
    <3>1. Advance(t, "thinking", task[t].hist)
      BY <2>1 DEF CompactFails
    <3>2. InHand(t)' = InHand(t)
      BY <1>1, <2>1, <3>1, AdvanceEffect DEF InHand
    <3>3. task[t].key \notin disturbed => Covered(task[t].hist) = InHand(t)
      BY <1>1 DEF Serial, HistoryInHand
    <3> QED
      BY <1>1, <3>1, <3>2, <3>3, SerialAdvance DEF Flight
  <2>2. CASE task[t].op # "message"
    BY <1>1, <2>2, SerialFinish DEF CompactFails
  <2> QED
    BY <2>1, <2>2
<1> QED
  BY <1>1, <1>2 DEF Serial, SerialHistory, SavedCopiesAgree

\* An answer adds its turn to the history that was read.
LEMMA SerialBrainAnswers ==
    ASSUME StateOK, Serial, NEW t \in Task, BrainAnswers(t)
    PROVE  Serial'
<1> DEFINE h == Exchange(task[t].hist, task[t].turn)
<1>1. /\ InFlight(t) /\ task[t].op \in Turned /\ task[t].op # "prompt"
      /\ Commit(t, h) /\ UNCHANGED <<cache, store, disturbed>>
  BY DEF BrainAnswers, InFlight, Flight, Turned, copies
<1>2. /\ h \in History
      /\ Covered(h) = Covered(task[t].hist) \cup {task[t].turn}
  BY <1>1, ExchangeOK, ShapedTask DEF TaskState
<1>3. task[t].key \notin disturbed =>
          Covered(task[t].hist) = expected[task[t].key]
  BY <1>1 DEF Serial, HistoryInHand, InHand
<1>4. task[t].key \notin disturbed' =>
          Covered(h) = expected[task[t].key] \cup {task[t].turn}
  BY <1>1, <1>2, <1>3
<1> HIDE DEF h
<1> QED
  BY <1>1, <1>2, <1>4, SerialCommit

\* A custom prompt adds its turn to a conversation that was empty, and disturbs
\* any other.
LEMMA SerialPromptSent ==
    ASSUME StateOK, Serial, NEW t \in Task, PromptSent(t)
    PROVE  Serial'
<1> DEFINE k == task[t].key
<1>1. /\ InFlight(t) /\ task[t].op = "prompt" /\ task[t].op \in Turned
      /\ task[t].pc = "sending"
      /\ Commit(t, task[t].hist) /\ UNCHANGED <<cache, store>>
      /\ disturbed' = IF memory[k] = <<>> THEN disturbed
                      ELSE disturbed \cup {k}
  BY ShapedTask DEF PromptSent, InFlight, Flight, Turned, copies
<1>2. task[t].hist \in History /\ k \in Key
  BY ShapedTask DEF TaskState
<1>3. k \notin disturbed => Covered(task[t].hist) = {task[t].turn}
  BY <1>1 DEF Serial, HistoryInHand, InHand
<1>4. k \notin disturbed' => k \notin disturbed /\ expected[k] = {}
  BY <1>1, <1>2, CoveredEmpty DEF Serial, SerialHistory
<1>5. k \notin disturbed' =>
          Covered(task[t].hist) = expected[k] \cup {task[t].turn}
  BY <1>3, <1>4
<1> QED
  BY <1>1, <1>2, <1>5, SerialCommit

\* Its answer is in hand before it is in memory.
LEMMA SerialPromptAnswers ==
    ASSUME StateOK, Serial, NEW t \in Task, PromptAnswers(t)
    PROVE  Serial'
<1> DEFINE h == Exchange(task[t].hist, task[t].turn)
<1>1. /\ InFlight(t) /\ task[t].op = "prompt" /\ task[t].pc = "thinking"
      /\ Advance(t, "sending", h)
      /\ UNCHANGED <<memory, cache, store, expected, disturbed, saved>>
  BY DEF PromptAnswers, InFlight, Flight, copies, ghosts
<1>2. task[t].key \notin disturbed => Covered(task[t].hist) = {}
  BY <1>1 DEF Serial, HistoryInHand, InHand
<1>3. Covered(h) = Covered(task[t].hist) \cup {task[t].turn}
  BY <1>1, ExchangeOK, ShapedTask DEF TaskState, Turned
<1>4. InHand(t)' = {task[t].turn}
  <2> HIDE DEF h
  <2>1. task'[t].op = "prompt" /\ task'[t].pc = "sending" /\ task'[t].turn = task[t].turn
    BY <1>1, AdvanceEffect
  <2> QED
    BY <2>1 DEF InHand
<1>5. Alone' /\ HistoryInHand'
  <2>1. task[t].key \notin disturbed => Covered(h) = InHand(t)'
    BY <1>2, <1>3, <1>4
  <2> HIDE DEF h
  <2> QED
    BY <1>1, <2>1, SerialAdvance DEF Flight
<1> QED
  BY <1>1, <1>5 DEF Serial, SerialHistory, SavedCopiesAgree

\* Redis receives the history in hand, or keeps what it had.
LEMMA SerialSaveCache ==
    ASSUME StateOK, Serial, NEW t \in Task, SaveCache(t)
    PROVE  Serial'
<1> DEFINE k == task[t].key
<1>1. /\ InFlight(t) /\ task[t].pc = "savingCache"
      /\ Advance(t, "savingStore", task[t].hist)
      /\ UNCHANGED <<memory, store, expected, disturbed>>
  BY DEF SaveCache, InFlight, Flight
<1>2. k \notin disturbed => Covered(task[t].hist) = expected[k]
  BY <1>1 DEF Serial, HistoryInHand, InHand
<1>3. InHand(t)' = expected[k]
  BY <1>1, AdvanceEffect DEF InHand
<1>4. Alone' /\ HistoryInHand'
  BY <1>1, <1>2, <1>3, SerialAdvance DEF Flight
<1>5. SavedCopiesAgree'
  <2>1. CASE UNCHANGED <<cache, saved>>
    BY <1>1, <2>1 DEF Serial, SavedCopiesAgree
  <2>2. CASE /\ cache' = [cache EXCEPT ![k] = task[t].hist]
             /\ saved' = [saved EXCEPT ![k] = @ \cup {"cache"}]
    <3>1. /\ k \in Key => cache'[k] = task[t].hist
          /\ \A j \in Key \ {k} : cache'[j] = cache[j] /\ saved'[j] = saved[j]
          /\ k \in Key => saved'[k] = saved[k] \cup {"cache"}
      BY <2>2 DEF StateOK, TypeOK
    <3> QED
      BY <1>1, <1>2, <3>1 DEF Serial, SavedCopiesAgree
  <2> QED
    BY <2>1, <2>2 DEF SaveCache
<1> QED
  BY <1>1, <1>4, <1>5 DEF Serial, SerialHistory

\* PostgreSQL receives the history in hand, or keeps what it had.
LEMMA SerialSaveStore ==
    ASSUME StateOK, Serial, NEW t \in Task, SaveStore(t)
    PROVE  Serial'
<1> DEFINE k == task[t].key
<1>1. /\ InFlight(t) /\ task[t].pc = "savingStore" /\ Finish(t)
      /\ UNCHANGED <<memory, cache, expected, disturbed>>
  BY DEF SaveStore, InFlight, Flight
<1>2. k \notin disturbed => Covered(task[t].hist) = expected[k]
  BY <1>1 DEF Serial, HistoryInHand, InHand
<1>3. Alone' /\ HistoryInHand'
  BY <1>1, SerialFinish
<1>4. SavedCopiesAgree'
  <2>1. CASE UNCHANGED <<store, saved>>
    BY <1>1, <2>1 DEF Serial, SavedCopiesAgree
  <2>2. CASE /\ store' = [store EXCEPT ![k] = task[t].hist]
             /\ saved' = [saved EXCEPT ![k] = @ \cup {"store"}]
    <3>1. /\ k \in Key => store'[k] = task[t].hist
          /\ \A j \in Key \ {k} : store'[j] = store[j] /\ saved'[j] = saved[j]
          /\ k \in Key => saved'[k] = saved[k] \cup {"store"}
      BY <2>2 DEF StateOK, TypeOK
    <3> QED
      BY <1>1, <1>2, <3>1 DEF Serial, SavedCopiesAgree
  <2> QED
    BY <2>1, <2>2 DEF SaveStore
<1> QED
  BY <1>1, <1>3, <1>4 DEF Serial, SerialHistory

\* A new process expects what it loaded, and trusts no copy.
LEMMA SerialRestart ==
    ASSUME StateOK, Restart
    PROVE  Serial'
<1>1. /\ \A t \in Task : task'[t] = Idle
      /\ saved' = [k \in Key |-> {}]
  BY DEF Restart
<1>2. SerialHistory'
  <2>1. PICK a \in BOOLEAN :
            /\ memory' = LoadHistory(a)
            /\ expected' = [k \in Key |-> Covered(LoadHistory(a)[k])]
    BY DEF Restart
  <2> QED
    BY <2>1 DEF SerialHistory
<1>3. SavedCopiesAgree'
  BY <1>1 DEF SavedCopiesAgree
<1>4. Alone' /\ HistoryInHand'
  BY <1>1, IdleNotInFlight DEF Alone, HistoryInHand, InFlight
<1> QED
  BY <1>2, <1>3, <1>4 DEF Serial

\* Every step keeps the conversations serial.
LEMMA SerialStep == StateOK /\ Serial /\ [Next]_vars => Serial'
<1> SUFFICES ASSUME StateOK, Serial, [Next]_vars PROVE Serial'
  OBVIOUS
<1>1. CASE UNCHANGED vars
  BY <1>1 DEF vars, Serial, Alone, HistoryInHand, InHand, InFlight,
              SerialHistory, SavedCopiesAgree
<1>2. ASSUME NEW t \in Task, Progress(t) PROVE Serial'
  <2>1. CASE Acquire(t)
    <3> DEFINE pc == IF TooLong(memory[task[t].key]) THEN "compacting" ELSE "thinking"
    <3>1. /\ task[t].key \in Key
          /\ Enter(t, "message", task[t].key, task[t].turn, pc, memory[task[t].key])
          /\ UNCHANGED <<memory, cache, store, expected, saved>>
      BY <2>1, ShapedTask DEF Acquire, TaskState, copies
    <3> HIDE DEF pc
    <3> QED
      BY <3>1, SerialRead
  <2>2. CASE Refuse(t) \/ BrainFails(t)
    <3>1. Finish(t) /\ UNCHANGED <<memory, cache, store, expected, disturbed, saved>>
      BY <2>2 DEF Refuse, BrainFails, copies, ghosts
    <3>2. Alone' /\ HistoryInHand'
      BY <3>1, SerialFinish
    <3> QED
      BY <3>1, <3>2 DEF Serial, SerialHistory, SavedCopiesAgree
  <2> QED
    BY <1>2, <2>1, <2>2, SerialCompactDone, SerialCompactFails,
       SerialBrainAnswers, SerialPromptAnswers, SerialPromptSent,
       SerialSaveCache, SerialSaveStore DEF Progress
<1>3. ASSUME NEW t \in Task, NEW k \in Key, Start(t, k) PROVE Serial'
  <2>1. CASE ScheduledSend(t, k)
    BY <2>1, SerialRead DEF ScheduledSend, copies
  <2>2. CASE ScheduledPrompt(t, k)
    <3>1. /\ Enter(t, "prompt", k, turns + 1, "thinking", <<>>)
          /\ UNCHANGED <<memory, cache, store, expected, saved>>
      BY <2>2 DEF ScheduledPrompt, copies
    <3>2. InHand(t)' = {}
      BY <3>1, EnterEffect DEF InHand
    <3> QED
      BY <3>1, <3>2, CoveredEmpty, SerialEnter
  <2>3. CASE StartCompact(t, k)
    BY <2>3, SerialRead DEF StartCompact, copies
  <2> QED
    BY <1>3, <2>1, <2>2, <2>3, SerialArrive, SerialReset DEF Start
<1>4. ASSUME NEW k \in Key, Expire(k) PROVE Serial'
  <2>1. /\ UNCHANGED <<memory, store, task, expected, disturbed>>
        /\ saved' = [saved EXCEPT ![k] = @ \ {"cache"}]
        /\ cache' = [cache EXCEPT ![k] = <<>>]
    BY <1>4 DEF Expire
  <2>2. SavedCopiesAgree'
    <3>1. /\ saved'[k] = saved[k] \ {"cache"}
          /\ \A j \in Key \ {k} : cache'[j] = cache[j] /\ saved'[j] = saved[j]
      BY <2>1 DEF StateOK, TypeOK
    <3> QED
      BY <2>1, <3>1 DEF Serial, SavedCopiesAgree
  <2> QED
    BY <2>1, <2>2 DEF Serial, Alone, HistoryInHand, InHand, InFlight, SerialHistory
<1>5. CASE Restart
  BY <1>5, SerialRestart
<1> QED
  BY <1>1, <1>2, <1>3, <1>4, <1>5 DEF Next

\* A new agent is serial.
LEMMA SerialInit == Init => Serial
<1> SUFFICES ASSUME Init PROVE Serial
  OBVIOUS
<1>1. \A t \in Task : task[t] = Idle
  BY DEF Init
<1>2. Alone /\ HistoryInHand
  BY <1>1, IdleNotInFlight DEF Alone, HistoryInHand, InFlight
<1>3. SerialHistory /\ SavedCopiesAgree
  BY CoveredEmpty DEF Init, SerialHistory, SavedCopiesAgree
<1> QED
  BY <1>2, <1>3 DEF Serial

\* Serial is an invariant: both theorems below read it off.
LEMMA SerialAlways == Spec => []Serial
<1> QED
  BY InitState, StateStep, SerialInit, SerialStep, PTL DEF Spec

\* Where operations on a conversation do not overlap and no custom prompt job
\* replaces its history, the agent remembers the turns of all of them since the
\* last /reset, whatever was compacted, refused, raised or lost with a process
\* in between.
THEOREM SerialSafety == Spec => []SerialHistory
<1>1. Serial => SerialHistory
  BY DEF Serial
<1> QED
  BY <1>1, SerialAlways, PTL

\* There a copy in Redis or PostgreSQL that took the last save remembers the
\* same turns, although the saves that _save_history swallows may fail one by
\* one and a compaction rewrites memory alone.
THEOREM CopiesSafety == Spec => []SavedCopiesAgree
<1>1. Serial => SavedCopiesAgree
  BY DEF Serial
<1> QED
  BY <1>1, SerialAlways, PTL

----------------------------------------------------------------------------
(***************************************************************************)
(* Conversations that only handle_message touches.                         *)
(***************************************************************************)

\* A step of t that starts nothing and disturbs no such conversation.
LEMMA OnlyKept ==
    ASSUME OnlyMessages, NEW t \in Task,
           \A j \in MessageOnly : j \in disturbed' => j \in disturbed,
           \A u \in Task \ {t} : task'[u] = task[u],
           InFlight(t)' => /\ InFlight(t) /\ task'[t].key = task[t].key
                           /\ task'[t].op = task[t].op
    PROVE  OnlyMessages'
BY DEF OnlyMessages, InFlight

\* An operation that may start on k, and the conversations it does not touch.
LEMMA OnlyStarted ==
    ASSUME OnlyMessages, NEW t \in Task, NEW k \in Key \ MessageOnly,
           \A u \in Task \ {t} : task'[u] = task[u],
           task'[t].key = k, disturbed' \subseteq disturbed \cup {k}
    PROVE  OnlyMessages'
BY DEF OnlyMessages, InFlight

\* No step starts anything but a message on such a conversation.
LEMMA OnlyStep ==
    StateOK /\ LockDiscipline /\ OnlyMessages /\ [Next]_vars => OnlyMessages'
<1> SUFFICES ASSUME StateOK, LockDiscipline, OnlyMessages, [Next]_vars
             PROVE  OnlyMessages'
  OBVIOUS
<1>1. CASE UNCHANGED vars
  BY <1>1 DEF vars, OnlyMessages, InFlight
<1>2. ASSUME NEW t \in Task, Progress(t) PROVE OnlyMessages'
  <2>1. CASE Acquire(t)
    <3> DEFINE k == task[t].key
               pc == IF TooLong(memory[k]) THEN "compacting" ELSE "thinking"
    <3>1. Enter(t, "message", k, task[t].turn, pc, memory[k]) /\ lock = Free
      BY <2>1 DEF Acquire, Granted
    <3>2. /\ task'[t].op = "message" /\ task'[t].key = k
          /\ \A u \in Task \ {t} : task'[u] = task[u]
      BY <3>1, EnterEffect
    <3>3. k \in MessageOnly => ~ Busy(t, k)
      BY <3>1 DEF OnlyMessages, LockDiscipline, Busy
    <3>4. k \in MessageOnly => disturbed' = disturbed
      BY <3>1, <3>3 DEF Enter
    <3>5. disturbed' \subseteq disturbed \cup {k}
      BY <3>1 DEF Enter
    <3> HIDE DEF k, pc
    <3> QED
      BY <3>2, <3>4, <3>5 DEF OnlyMessages, InFlight
  <2>2. ASSUME \/ Finish(t) /\ UNCHANGED disturbed
               \/ \E pc, h : Advance(t, pc, h) /\ UNCHANGED disturbed /\ InFlight(t)
        PROVE  OnlyMessages'
    <3>1. CASE Finish(t) /\ UNCHANGED disturbed
      <4>1. /\ \A u \in Task \ {t} : task'[u] = task[u]
            /\ ~ InFlight(t)'
        BY <3>1, FinishEffect, IdleNotInFlight DEF InFlight
      <4> QED
        BY <3>1, <4>1, OnlyKept
    <3>2. CASE \E pc, h : Advance(t, pc, h) /\ UNCHANGED disturbed /\ InFlight(t)
      BY <3>2, AdvanceEffect, OnlyKept
    <3> QED
      BY <2>2, <3>1, <3>2
  <2>3. CASE Refuse(t) \/ BrainFails(t) \/ SaveStore(t)
    BY <2>2, <2>3 DEF Refuse, BrainFails, SaveStore, ghosts
  <2>4. CASE CompactDone(t) \/ CompactFails(t)
    BY <2>2, <2>4 DEF CompactDone, CompactFails, InFlight, Flight, ghosts
  <2>5. CASE BrainAnswers(t) \/ PromptAnswers(t) \/ SaveCache(t)
    BY <2>2, <2>5 DEF BrainAnswers, PromptAnswers, SaveCache,
                      Commit, InFlight, Flight, ghosts
  <2>6. CASE PromptSent(t)
    <3>1. /\ task[t].op = "prompt" /\ InFlight(t)
          /\ Advance(t, "savingCache", task[t].hist)
          /\ disturbed' \subseteq disturbed \cup {task[t].key}
      BY <2>6, ShapedTask DEF PromptSent, Commit, InFlight, Flight
    <3>2. task[t].key \notin MessageOnly
      BY <3>1 DEF OnlyMessages
    <3>3. \A j \in MessageOnly : j \in disturbed' => j \in disturbed
      BY <3>1, <3>2
    <3> QED
      BY <3>1, <3>3, AdvanceEffect, OnlyKept
  <2> QED
    BY <1>2, <2>1, <2>3, <2>4, <2>5, <2>6 DEF Progress
<1>3. ASSUME NEW t \in Task, NEW k \in Key, Start(t, k) PROVE OnlyMessages'
  <2>1. CASE Arrive(t, k)
    <3>1. /\ \A u \in Task \ {t} : task'[u] = task[u]
          /\ ~ InFlight(t)' /\ UNCHANGED disturbed
      BY <2>1, ArriveEffect, IdleNotInFlight DEF InFlight, Arrive, ghosts
    <3> QED
      BY <3>1, OnlyKept
  <2>2. CASE Reset(t, k)
    <3>1. /\ \A u \in Task \ {t} : task'[u] = task[u]
          /\ task'[t].key = k
      BY <2>2, ResetEffect
    <3>2. k \in Key \ MessageOnly /\ disturbed' \subseteq disturbed \cup {k}
      BY <2>2 DEF Reset, Allowed
    <3> QED
      BY <3>1, <3>2, OnlyStarted
  <2>3. ASSUME \/ ScheduledSend(t, k) \/ ScheduledPrompt(t, k)
               \/ StartCompact(t, k)
        PROVE  OnlyMessages'
    <3>1. PICK op, n, pc, h : Enter(t, op, k, n, pc, h)
      BY <2>3 DEF ScheduledSend, ScheduledPrompt, StartCompact
    <3>2. k \in Key \ MessageOnly
      BY <2>3 DEF ScheduledSend, ScheduledPrompt, StartCompact, Allowed
    <3>3. disturbed' \subseteq disturbed \cup {k}
      BY <3>1 DEF Enter
    <3> QED
      BY <3>1, <3>2, <3>3, EnterEffect, OnlyStarted
  <2> QED
    BY <1>3, <2>1, <2>2, <2>3 DEF Start
<1>4. ASSUME NEW k \in Key, Expire(k) PROVE OnlyMessages'
  BY <1>4 DEF Expire, OnlyMessages, InFlight
<1>5. CASE Restart
  BY <1>5, IdleNotInFlight DEF Restart, OnlyMessages, InFlight
<1> QED
  BY <1>1, <1>2, <1>3, <1>4, <1>5 DEF Next

\* Serial histories are in hand where only messages are in flight.
LEMMA IsolationHolds == StateOK /\ Serial /\ OnlyMessages => Isolation
<1> SUFFICES ASSUME StateOK, Serial, OnlyMessages, NEW k \in MessageOnly,
                    NEW t \in Task, InFlight(t), task[t].key = k
             PROVE  Covered(task[t].hist) = Covered(memory[k])
  BY DEF Isolation, OnlyMessages
<1>1. k \notin disturbed /\ task[t].op = "message"
  BY DEF OnlyMessages
<1>2. k \in Key
  BY ConversationAssumption
<1>3. Covered(task[t].hist) = expected[k]
  BY <1>1 DEF Serial, HistoryInHand, InHand
<1> QED
  BY <1>1, <1>2, <1>3 DEF Serial, SerialHistory

\* On a conversation that no job and no command touches, handle_message runs
\* as if alone: nothing overlaps with it, and what the turn in progress holds
\* agrees with memory, even though a compaction may have rewritten memory
\* since the turn read it.
THEOREM MessageIsolation == Spec => []Isolation
<1>1. Init => LockDiscipline /\ OnlyMessages
  BY IdleNotInFlight DEF Init, LockDiscipline, OnlyMessages, InFlight
<1> QED
  BY <1>1, IsolationHolds, InitState, StateStep, LockStep, OnlyStep, SerialAlways,
     PTL DEF Spec

----------------------------------------------------------------------------
(***************************************************************************)
(* Such a conversation is a log.                                           *)
(***************************************************************************)

\* Every history that can still be read is seen,
LEMMA SeenHas ==
    /\ \A k \in Key : Covered(memory[k]) \subseteq Seen
    /\ \A k \in Key : Covered(cache[k]) \subseteq Seen
    /\ \A t \in Task : Covered(task[t].hist) \subseteq Seen
BY DEF Seen

\* ... and nothing else is.
LEMMA SeenOnly ==
    ASSUME NEW S,
           \A k \in Key : Covered(memory'[k]) \subseteq S,
           \A k \in Key : Covered(cache'[k]) \subseteq S,
           \A t \in Task : Covered(task'[t].hist) \subseteq S
    PROVE  Seen' \subseteq S
BY DEF Seen

\* An open turn is a number that was given out.
LEMMA OpenTurn ==
    ASSUME StateOK, NEW t \in Task, Open(t)
    PROVE  task[t].turn \in Turn
BY ShapedTask DEF Open

\* Nothing new is seen, and no coroutine has a turn that it did not have.
LEMMA FreshKept ==
    ASSUME StateOK, Fresh, UNCHANGED turns, Seen' \subseteq Seen,
           \A u \in Task : task'[u].turn \in {task[u].turn, 0},
           \A u \in Task : Open(u)' => Open(u) /\ task'[u].turn = task[u].turn
    PROVE  Fresh'
<1>1. turns \in Nat
  BY DEF StateOK, TypeOK
<1>2. \A n \in Seen' : n <= turns'
  BY DEF Fresh
<1>3. \A u \in Task : task'[u].turn <= turns'
  <2>1. \A u \in Task : task[u].turn <= turns
    BY DEF Fresh
  <2> QED
    BY <1>1, <2>1
<1>4. ASSUME NEW u \in Task, Open(u)'
      PROVE  /\ task'[u].turn \notin Seen'
             /\ \A v \in Task \ {u} : task'[v].turn # task'[u].turn
  <2>1. Open(u) /\ task'[u].turn = task[u].turn
    BY <1>4
  <2>2. task[u].turn # 0
    BY <2>1, OpenTurn DEF Turn
  <2> QED
    BY <2>1, <2>2 DEF Fresh
<1> QED
  BY <1>2, <1>3, <1>4 DEF Fresh

\* The answer to t's turn is there: the turn is seen, and t has it no more.
LEMMA FreshClosed ==
    ASSUME StateOK, Fresh, NEW t \in Task, Open(t), UNCHANGED turns,
           Seen' \subseteq Seen \cup {task[t].turn},
           task'[t].turn = task[t].turn, ~ Open(t)',
           \A u \in Task \ {t} : task'[u] = task[u]
    PROVE  Fresh'
<1>1. \A n \in Seen' : n <= turns'
  BY DEF Fresh
<1>2. \A u \in Task : task'[u].turn <= turns'
  BY DEF Fresh
<1>3. ASSUME NEW u \in Task, Open(u)'
      PROVE  /\ task'[u].turn \notin Seen'
             /\ \A v \in Task \ {u} : task'[v].turn # task'[u].turn
  <2>1. u # t /\ Open(u) /\ task'[u] = task[u]
    BY <1>3 DEF Open
  <2>2. task[u].turn \notin Seen /\ \A v \in Task \ {u} : task[v].turn # task[u].turn
    BY <2>1 DEF Fresh
  <2> QED
    BY <2>1, <2>2
<1> QED
  BY <1>1, <1>2, <1>3 DEF Fresh

\* t starts the next turn.
LEMMA FreshStarted ==
    ASSUME StateOK, Fresh, NEW t \in Task, turns' = turns + 1,
           task'[t].turn = turns + 1, Seen' \subseteq Seen,
           \A u \in Task \ {t} : task'[u] = task[u]
    PROVE  Fresh'
<1>1. turns \in Nat /\ Seen \subseteq Nat
  <2>1. \A h \in History : Covered(h) \subseteq Turn
    BY CoveredSubset
  <2>2. \A u \in Task : task[u].hist \in History
    BY DEF StateOK, TypeOK, TaskState
  <2>3. Seen \subseteq Turn
    BY <2>1, <2>2 DEF Seen, StateOK, TypeOK
  <2> QED
    BY <2>3 DEF Turn, StateOK, TypeOK
<1>2. ASSUME NEW n \in Seen' PROVE n < turns'
  <2>1. n \in Nat /\ n <= turns
    BY <1>1 DEF Fresh
  <2> QED
    BY <1>1, <2>1
<1>3. \A u \in Task : task[u].turn \in Nat
  BY DEF StateOK, TypeOK, TaskState
<1>4. ASSUME NEW u \in Task \ {t} PROVE task'[u].turn < turns'
  <2>1. task[u].turn \in Nat /\ task[u].turn <= turns
    BY <1>3 DEF Fresh
  <2> QED
    BY <1>1, <2>1
<1>5. ASSUME NEW u \in Task, Open(u)'
      PROVE  /\ task'[u].turn \notin Seen'
             /\ \A v \in Task \ {u} : task'[v].turn # task'[u].turn
  <2>1. CASE u = t
    <3>1. task'[u].turn = turns' /\ turns' \in Nat
      BY <1>1, <2>1
    <3>2. task'[u].turn \notin Seen'
      BY <1>1, <1>2, <3>1
    <3> QED
      BY <1>1, <1>3, <1>4, <2>1, <3>1, <3>2
  <2>2. CASE u # t
    <3>1. Open(u) /\ task'[u] = task[u]
      BY <1>5, <2>2 DEF Open
    <3>2. task[u].turn \notin Seen /\ \A v \in Task \ {u} : task[v].turn # task[u].turn
      BY <3>1 DEF Fresh
    <3>3. task'[t].turn # task'[u].turn
      BY <1>1, <1>3, <1>4, <2>2
    <3> QED
      BY <3>1, <3>2, <3>3
  <2> QED
    BY <2>1, <2>2
<1>6. \A u \in Task : task'[u].turn <= turns'
  BY <1>1, <1>3, <1>4
<1> QED
  BY <1>1, <1>2, <1>5, <1>6 DEF Fresh

\* t goes on with a history whose turns have been seen.
LEMMA FreshAdvance ==
    ASSUME StateOK, Fresh, NEW t \in Task, NEW pc, NEW h, Advance(t, pc, h),
           Covered(h) \subseteq Seen, UNCHANGED turns,
           \A k \in Key : Covered(memory'[k]) \subseteq Seen,
           \A k \in Key : Covered(cache'[k]) \subseteq Seen,
           pc \in {"waiting", "compacting", "thinking"} => Open(t)
    PROVE  Fresh'
<1>1. /\ task'[t].pc = pc /\ task'[t].hist = h /\ task'[t].op = task[t].op
      /\ task'[t].turn = task[t].turn
      /\ \A u \in Task \ {t} : task'[u] = task[u]
  BY AdvanceEffect
<1>2. Seen' \subseteq Seen
  <2> DEFINE S == Seen
  <2>1. \A u \in Task : Covered(task'[u].hist) \subseteq S
    BY <1>1, SeenHas
  <2>2. \A k \in Key : Covered(memory'[k]) \subseteq S /\ Covered(cache'[k]) \subseteq S
    OBVIOUS
  <2> QED
    BY <2>1, <2>2, SeenOnly
<1>3. \A u \in Task : Open(u)' => Open(u)
  BY <1>1 DEF Open
<1> QED
  BY <1>1, <1>2, <1>3, FreshKept

\* t returns or raises.
LEMMA FreshFinish ==
    ASSUME StateOK, Fresh, NEW t \in Task, Finish(t), UNCHANGED turns,
           \A k \in Key : Covered(memory'[k]) \subseteq Seen,
           \A k \in Key : Covered(cache'[k]) \subseteq Seen
    PROVE  Fresh'
<1>1. task'[t] = Idle /\ \A u \in Task \ {t} : task'[u] = task[u]
  BY FinishEffect
<1>2. Idle.hist = <<>> /\ Idle.turn = 0 /\ Idle.op \notin Turned
  BY DEF Idle, Turned
<1>3. Seen' \subseteq Seen
  BY <1>1, <1>2, CoveredEmpty, SeenHas, SeenOnly
<1>4. \A u \in Task : Open(u)' => Open(u) /\ u # t
  BY <1>1, <1>2 DEF Open
<1> QED
  BY <1>1, <1>2, <1>3, <1>4, FreshKept

\* t's turn gets its answer, on top of a history that was seen.
LEMMA FreshAnswer ==
    ASSUME StateOK, Fresh, NEW t \in Task, NEW pc, NEW h, Open(t),
           Advance(t, pc, h), UNCHANGED <<cache, turns>>,
           pc \notin {"waiting", "compacting", "thinking"},
           Covered(h) \subseteq Seen \cup {task[t].turn},
           \A k \in Key :
               Covered(memory'[k]) \subseteq Seen \cup {task[t].turn}
    PROVE  Fresh'
<1>1. /\ task'[t].pc = pc /\ task'[t].hist = h /\ task'[t].turn = task[t].turn
      /\ \A u \in Task \ {t} : task'[u] = task[u]
  BY AdvanceEffect
<1>2. Seen' \subseteq Seen \cup {task[t].turn}
  <2> DEFINE S == Seen \cup {task[t].turn}
  <2>1. \A u \in Task : Covered(task'[u].hist) \subseteq S
    BY <1>1, SeenHas
  <2>2. \A k \in Key : Covered(memory'[k]) \subseteq S /\ Covered(cache'[k]) \subseteq S
    BY SeenHas
  <2> HIDE DEF S
  <2>3. Seen' \subseteq S
    BY <2>1, <2>2, SeenOnly
  <2> QED
    BY <2>3 DEF S
<1>3. ~ Open(t)'
  BY <1>1 DEF Open
<1> QED
  BY <1>1, <1>2, <1>3, FreshClosed

\* Every step of a coroutine keeps the open turns out of the histories.
LEMMA FreshProgress ==
    ASSUME StateOK, Fresh, NEW t \in Task, Progress(t)
    PROVE  Fresh'
<1>1. task[t] \in TaskState /\ Covered(task[t].hist) \subseteq Seen
  BY ShapedTask, SeenHas
<1>2. \A k \in Key : /\ Covered(memory[k]) \subseteq Seen
                     /\ Covered(cache[k]) \subseteq Seen
  BY SeenHas
<1>3. task[t].key \in Key /\ task[t].hist \in History
  BY <1>1 DEF TaskState
<1>4. CASE Acquire(t)
  <2> DEFINE k == task[t].key
             pc == IF TooLong(memory[k]) THEN "compacting" ELSE "thinking"
  <2>1. /\ Enter(t, "message", k, task[t].turn, pc, memory[k])
        /\ UNCHANGED <<memory, cache, turns>>
    BY <1>4 DEF Acquire, copies
  <2>2. Open(t)
    BY <1>4, ShapedTask DEF Acquire, Granted, Open, Turned
  <2>3. /\ task'[t].hist = memory[k] /\ task'[t].turn = task[t].turn
        /\ \A u \in Task \ {t} : task'[u] = task[u]
    BY <2>1, EnterEffect
  <2>4. Seen' \subseteq Seen
    BY <1>2, <1>3, <2>1, <2>3, SeenHas, SeenOnly
  <2>5. \A u \in Task : Open(u)' => Open(u)
    BY <2>2, <2>3 DEF Open
  <2> HIDE DEF k, pc
  <2> QED
    BY <2>1, <2>3, <2>4, <2>5, FreshKept
<1>5. CASE Refuse(t) \/ BrainFails(t) \/ SaveStore(t)
  BY <1>2, <1>5, FreshFinish DEF Refuse, BrainFails, SaveStore, copies
<1>6. CASE CompactDone(t) \/ CompactFails(t)
  <2>1. task[t].pc = "compacting" /\ UNCHANGED <<cache, turns>>
    BY <1>6 DEF CompactDone, CompactFails, copies
  <2>2. Covered(Compact(task[t].hist)) = Covered(task[t].hist)
    BY <1>3, <2>1, CompactOK DEF StateOK, TaskShape, Shaped
  <2>3. \A k \in Key : Covered(memory'[k]) \subseteq Seen
    <3>1. CASE CompactDone(t)
      <4>1. memory' = [memory EXCEPT ![task[t].key] = Compact(task[t].hist)]
        BY <3>1 DEF CompactDone
      <4>2. \A k \in Key : memory'[k] = memory[k] \/ memory'[k] = Compact(task[t].hist)
        BY <4>1 DEF StateOK, TypeOK
      <4> QED
        BY <1>1, <1>2, <2>2, <4>2
    <3>2. CASE CompactFails(t)
      BY <1>2, <3>2 DEF CompactFails
    <3> QED
      BY <1>6, <3>1, <3>2
  <2>4. CASE task[t].op = "message"
    <3>1. Advance(t, "thinking", task[t].hist) /\ Open(t)
      BY <1>6, <2>1, <2>4 DEF CompactDone, CompactFails, Open, Turned
    <3> QED
      BY <1>1, <1>2, <2>1, <2>3, <3>1, FreshAdvance
  <2>5. CASE task[t].op # "message"
    <3>1. Finish(t)
      BY <1>6, <2>5 DEF CompactDone, CompactFails
    <3> QED
      BY <1>2, <2>1, <2>3, <3>1, FreshFinish
  <2> QED
    BY <2>4, <2>5
<1>7. CASE BrainAnswers(t) \/ PromptAnswers(t)
  <2> DEFINE h == Exchange(task[t].hist, task[t].turn)
  <2>1. Open(t)
    BY <1>7 DEF BrainAnswers, PromptAnswers, Open, Turned
  <2>2. Covered(h) = Covered(task[t].hist) \cup {task[t].turn}
    BY <1>3, <2>1, OpenTurn, ExchangeOK
  <2>3. PICK pc \in {"savingCache", "sending"} : Advance(t, pc, h)
    BY <1>7 DEF BrainAnswers, PromptAnswers, Commit
  <2>4. UNCHANGED <<cache, turns>>
    BY <1>7 DEF BrainAnswers, PromptAnswers, copies
  <2>5. memory' = memory \/ memory' = [memory EXCEPT ![task[t].key] = h]
    BY <1>7 DEF BrainAnswers, PromptAnswers, Commit
  <2>6. \A k \in Key : memory'[k] = memory[k] \/ memory'[k] = h
    BY <2>5 DEF StateOK, TypeOK
  <2> HIDE DEF h
  <2>7. \A k \in Key : Covered(memory'[k]) \subseteq Seen \cup {task[t].turn}
    BY <1>1, <1>2, <2>2, <2>6
  <2> QED
    BY <1>1, <2>1, <2>2, <2>3, <2>4, <2>7, FreshAnswer
<1>8. CASE PromptSent(t) \/ SaveCache(t)
  <2>1. PICK pc \in {"savingCache", "savingStore"} : Advance(t, pc, task[t].hist)
    BY <1>8 DEF PromptSent, SaveCache, Commit
  <2>2. /\ UNCHANGED turns
        /\ \/ memory' = memory
           \/ memory' = [memory EXCEPT ![task[t].key] = task[t].hist]
        /\ \/ cache' = cache
           \/ cache' = [cache EXCEPT ![task[t].key] = task[t].hist]
    BY <1>8 DEF PromptSent, SaveCache, Commit, copies
  <2>3. /\ \A k \in Key : memory'[k] = memory[k] \/ memory'[k] = task[t].hist
        /\ \A k \in Key : cache'[k] = cache[k] \/ cache'[k] = task[t].hist
    BY <2>2 DEF StateOK, TypeOK
  <2>4. /\ \A k \in Key : Covered(memory'[k]) \subseteq Seen
        /\ \A k \in Key : Covered(cache'[k]) \subseteq Seen
    BY <1>1, <1>2, <2>3
  <2> QED
    BY <1>1, <2>1, <2>2, <2>4, FreshAdvance
<1> QED
  BY <1>4, <1>5, <1>6, <1>7, <1>8 DEF Progress

\* Every step keeps the open turns out of the histories.
LEMMA FreshStep == StateOK /\ Fresh /\ [Next]_vars => Fresh'
<1> SUFFICES ASSUME StateOK, Fresh, [Next]_vars PROVE Fresh'
  OBVIOUS
<1>1. CASE UNCHANGED vars
  BY <1>1 DEF vars, copies, ghosts, Fresh, Seen, Open
<1>2. ASSUME NEW t \in Task, Progress(t) PROVE Fresh'
  BY <1>2, FreshProgress
<1>3. ASSUME NEW t \in Task, NEW k \in Key, Start(t, k) PROVE Fresh'
  <2>1. CASE Arrive(t, k)
    <3>1. /\ task'[t].turn = turns + 1 /\ task'[t].hist = <<>>
          /\ \A u \in Task \ {t} : task'[u] = task[u]
      BY <2>1 DEF Arrive, Idle, StateOK, TypeOK
    <3>2. turns' = turns + 1 /\ UNCHANGED <<memory, cache>>
      BY <2>1 DEF Arrive, copies
    <3>3. Seen' \subseteq Seen
      BY <3>1, <3>2, CoveredEmpty, SeenHas, SeenOnly
    <3> QED
      BY <3>1, <3>2, <3>3, FreshStarted
  <2>2. CASE ScheduledSend(t, k) \/ ScheduledPrompt(t, k)
    <3>1. PICK op, h : /\ Enter(t, op, k, turns + 1, "thinking", h)
                       /\ h = memory[k] \/ h = <<>>
      BY <2>2 DEF ScheduledSend, ScheduledPrompt
    <3>2. turns' = turns + 1 /\ UNCHANGED <<memory, cache>>
      BY <2>2 DEF ScheduledSend, ScheduledPrompt, copies
    <3>3. /\ task'[t].turn = turns + 1 /\ task'[t].hist = h
          /\ \A u \in Task \ {t} : task'[u] = task[u]
      BY <3>1, EnterEffect
    <3>4. Seen' \subseteq Seen
      BY <3>1, <3>2, <3>3, CoveredEmpty, SeenHas, SeenOnly
    <3> QED
      BY <3>2, <3>3, <3>4, FreshStarted
  <2>3. CASE StartCompact(t, k)
    <3>1. /\ task'[t].op = "compact" /\ task'[t].turn = 0
          /\ task'[t].hist = memory[k]
          /\ \A u \in Task \ {t} : task'[u] = task[u]
      BY <2>3, EnterEffect DEF StartCompact
    <3>2. UNCHANGED <<memory, cache, turns>>
      BY <2>3 DEF StartCompact, copies
    <3>3. Seen' \subseteq Seen
      BY <3>1, <3>2, SeenHas, SeenOnly
    <3>4. \A u \in Task : Open(u)' => Open(u) /\ u # t
      BY <3>1 DEF Open, Turned
    <3> QED
      BY <3>1, <3>2, <3>3, <3>4, FreshKept
  <2>4. CASE Reset(t, k)
    <3>1. /\ task'[t].op = "reset" /\ task'[t].turn = 0
          /\ task'[t].hist = <<>>
          /\ \A u \in Task \ {t} : task'[u] = task[u]
      BY <2>4 DEF Reset, Idle, StateOK, TypeOK
    <3>2. /\ UNCHANGED <<cache, turns>>
          /\ \A j \in Key : memory'[j] = memory[j] \/ memory'[j] = <<>>
      BY <2>4 DEF Reset, copies, StateOK, TypeOK
    <3>3. Seen' \subseteq Seen
      BY <3>1, <3>2, CoveredEmpty, SeenHas, SeenOnly
    <3>4. \A u \in Task : Open(u)' => Open(u) /\ u # t
      BY <3>1 DEF Open, Turned
    <3> QED
      BY <3>1, <3>2, <3>3, <3>4, FreshKept
  <2> QED
    BY <1>3, <2>1, <2>2, <2>3, <2>4 DEF Start
<1>4. ASSUME NEW k \in Key, Expire(k) PROVE Fresh'
  <2>1. /\ UNCHANGED <<memory, task, turns>>
        /\ \A j \in Key : cache'[j] = cache[j] \/ cache'[j] = <<>>
    BY <1>4 DEF Expire, StateOK, TypeOK
  <2>2. Seen' \subseteq Seen
    BY <2>1, CoveredEmpty, SeenHas, SeenOnly
  <2> QED
    BY <2>1, <2>2, FreshKept DEF Open
<1>5. CASE Restart
  <2>1. /\ UNCHANGED <<cache, turns>>
        /\ \A j \in Key : memory'[j] = cache[j] \/ memory'[j] = <<>>
        /\ \A u \in Task : task'[u] = Idle
    BY <1>5 DEF Restart, LoadHistory, copies
  <2>2. Idle.hist = <<>> /\ Idle.turn = 0 /\ Idle.op \notin Turned
    BY DEF Idle, Turned
  <2>3. Seen' \subseteq Seen
    BY <2>1, <2>2, CoveredEmpty, SeenHas, SeenOnly
  <2>4. \A u \in Task : ~ Open(u)'
    BY <2>1, <2>2 DEF Open
  <2> QED
    BY <2>1, <2>2, <2>3, <2>4, FreshKept
<1> QED
  BY <1>1, <1>2, <1>3, <1>4, <1>5 DEF Next

\* A new agent has handed out no turn.
LEMMA FreshInit == Init => Fresh
<1> SUFFICES ASSUME Init PROVE Fresh
  OBVIOUS
<1>1. \A t \in Task : task[t] = Idle
  BY DEF Init
<1>2. Idle.hist = <<>> /\ Idle.turn = 0 /\ Idle.op \notin Turned
  BY DEF Idle, Turned
<1>3. Seen = {}
  BY <1>1, <1>2, CoveredEmpty DEF Init, Seen
<1> QED
  BY <1>1, <1>2, <1>3 DEF Init, Fresh, Open

\* The state of ConversationLog in a state of the agent.
LogState == <<[k \in MessageOnly |-> Covered(memory[k])],
              [k \in MessageOnly |-> Covered(cache[k])],
              [k \in MessageOnly |-> Covered(store[k])]>>

\* A step that covers the same turns everywhere is a stutter of the log.
LEMMA LogSame ==
    ASSUME \A k \in MessageOnly : /\ Covered(memory'[k]) = Covered(memory[k])
                                  /\ Covered(cache'[k]) = Covered(cache[k])
                                  /\ Covered(store'[k]) = Covered(store[k])
    PROVE  UNCHANGED LogState
BY DEF LogState

\* A step that gives memory a new turn is Record.
LEMMA LogRecord ==
    ASSUME NEW k \in MessageOnly, NEW n \in Turn \ Covered(memory[k]),
           Covered(memory'[k]) = Covered(memory[k]) \cup {n},
           \A j \in MessageOnly \ {k} : memory'[j] = memory[j],
           UNCHANGED <<cache, store>>
    PROVE  Log!Record(k)
<1> DEFINE log == [j \in MessageOnly |-> Covered(memory[j])]
<1>1. n \in Turn \ log[k]
  OBVIOUS
<1>2. [j \in MessageOnly |-> Covered(memory'[j])] = [log EXCEPT ![k] = @ \cup {n}]
  OBVIOUS
<1> QED
  BY <1>1, <1>2 DEF Log!Record

\* A save in Redis that went through is Cache.
LEMMA LogCache ==
    ASSUME NEW k \in MessageOnly, Covered(cache'[k]) = Covered(memory[k]),
           \A j \in MessageOnly \ {k} : cache'[j] = cache[j],
           UNCHANGED <<memory, store>>
    PROVE  Log!Cache(k)
BY DEF Log!Cache

\* A save in PostgreSQL that went through is Store.
LEMMA LogStore ==
    ASSUME NEW k \in MessageOnly, Covered(store'[k]) = Covered(memory[k]),
           \A j \in MessageOnly \ {k} : store'[j] = store[j],
           UNCHANGED <<memory, cache>>
    PROVE  Log!Store(k)
BY DEF Log!Store

\* What a coroutine does is a step of the log or a stutter.
LEMMA LogProgress ==
    ASSUME StateOK, Isolation, Fresh, NEW t \in Task, Progress(t)
    PROVE  \/ UNCHANGED LogState
           \/ \E k \in MessageOnly : Log!Record(k) \/ Log!Cache(k) \/ Log!Store(k)
<1> DEFINE k == task[t].key
           h == task[t].hist
<1>1. /\ k \in Key /\ h \in History
      /\ InFlight(t) /\ k \in MessageOnly => Covered(h) = Covered(memory[k])
  BY ShapedTask DEF TaskState, Isolation
<1>2. MessageOnly \subseteq Key
  BY ConversationAssumption
<1>3. CASE UNCHANGED <<memory, cache, store>>
  BY <1>3, LogSame
<1>4. CASE CompactDone(t)
  <2>1. /\ memory' = [memory EXCEPT ![k] = Compact(h)]
        /\ UNCHANGED <<cache, store>> /\ InFlight(t)
    BY <1>4 DEF CompactDone, copies, InFlight, Flight
  <2>2. Covered(Compact(h)) = Covered(h)
    BY <1>1, <1>4, CompactOK DEF CompactDone, StateOK, TaskShape, Shaped
  <2>3. \A j \in Key : memory'[j] = IF j = k THEN Compact(h) ELSE memory[j]
    BY <2>1 DEF StateOK, TypeOK
  <2> HIDE DEF k, h
  <2>4. \A j \in MessageOnly : Covered(memory'[j]) = Covered(memory[j])
    BY <1>1, <1>2, <2>1, <2>2, <2>3
  <2> QED
    BY <2>1, <2>4, LogSame
<1>5. CASE BrainAnswers(t)
  <2> DEFINE n == task[t].turn
             new == Exchange(h, n)
  <2>1. /\ memory' = [memory EXCEPT ![k] = new]
        /\ UNCHANGED <<cache, store>> /\ InFlight(t) /\ Open(t)
    BY <1>5 DEF BrainAnswers, Commit, copies, InFlight, Flight, Open, Turned
  <2>2. n \in Turn /\ Covered(new) = Covered(h) \cup {n}
    BY <1>1, <2>1, OpenTurn, ExchangeOK
  <2>3. n \notin Covered(memory[k])
    BY <1>1, <2>1, SeenHas DEF Fresh
  <2>4. \A j \in Key : memory'[j] = IF j = k THEN new ELSE memory[j]
    BY <2>1 DEF StateOK, TypeOK
  <2> HIDE DEF k, h, n, new
  <2>5. CASE k \in MessageOnly
    <3>1. Covered(memory'[k]) = Covered(memory[k]) \cup {n}
      BY <1>1, <2>1, <2>2, <2>4, <2>5
    <3>2. \A j \in MessageOnly \ {k} : memory'[j] = memory[j]
      BY <1>2, <2>4
    <3>3. Log!Record(k)
      BY <2>1, <2>2, <2>3, <2>5, <3>1, <3>2, LogRecord
    <3> QED
      BY <2>5, <3>3
  <2>6. CASE k \notin MessageOnly
    <3>1. \A j \in MessageOnly : memory'[j] = memory[j]
      BY <1>2, <2>4, <2>6
    <3> QED
      BY <2>1, <3>1, LogSame
  <2> QED
    BY <2>5, <2>6
<1>6. CASE PromptSent(t)
  <2>1. /\ memory' = [memory EXCEPT ![k] = h]
        /\ UNCHANGED <<cache, store>> /\ InFlight(t)
    BY <1>6 DEF PromptSent, Commit, copies, InFlight, Flight
  <2>2. \A j \in Key : memory'[j] = IF j = k THEN h ELSE memory[j]
    BY <2>1 DEF StateOK, TypeOK
  <2> HIDE DEF k, h
  <2>3. \A j \in MessageOnly : Covered(memory'[j]) = Covered(memory[j])
    BY <1>1, <1>2, <2>1, <2>2
  <2> QED
    BY <2>1, <2>3, LogSame
<1>7. ASSUME SaveCache(t), cache' = [cache EXCEPT ![k] = h]
      PROVE  \/ UNCHANGED LogState
             \/ k \in MessageOnly /\ Log!Cache(k)
  <2>1. UNCHANGED <<memory, store>> /\ InFlight(t)
    BY <1>7 DEF SaveCache, InFlight, Flight
  <2>2. \A j \in Key : cache'[j] = IF j = k THEN h ELSE cache[j]
    BY <1>7 DEF StateOK, TypeOK
  <2> HIDE DEF k, h
  <2>3. CASE k \in MessageOnly
    BY <1>1, <1>2, <2>1, <2>2, <2>3, LogCache
  <2>4. CASE k \notin MessageOnly
    BY <1>2, <2>1, <2>2, <2>4, LogSame
  <2> QED
    BY <2>3, <2>4
<1>8. ASSUME SaveStore(t), store' = [store EXCEPT ![k] = h]
      PROVE  \/ UNCHANGED LogState
             \/ k \in MessageOnly /\ Log!Store(k)
  <2>1. UNCHANGED <<memory, cache>> /\ InFlight(t)
    BY <1>8 DEF SaveStore, InFlight, Flight
  <2>2. \A j \in Key : store'[j] = IF j = k THEN h ELSE store[j]
    BY <1>8 DEF StateOK, TypeOK
  <2> HIDE DEF k, h
  <2>3. CASE k \in MessageOnly
    BY <1>1, <1>2, <2>1, <2>2, <2>3, LogStore
  <2>4. CASE k \notin MessageOnly
    BY <1>2, <2>1, <2>2, <2>4, LogSame
  <2> QED
    BY <2>3, <2>4
<1>9. CASE \/ Acquire(t) \/ Refuse(t) \/ CompactFails(t) \/ BrainFails(t)
           \/ PromptAnswers(t)
  <2>1. UNCHANGED <<memory, cache, store>>
    BY <1>9 DEF Acquire, Refuse, CompactFails, BrainFails, PromptAnswers, copies
  <2> QED
    BY <1>3, <2>1
<1>10. CASE SaveCache(t)
  <2>1. \/ cache' = [cache EXCEPT ![k] = h]
        \/ UNCHANGED <<memory, cache, store>>
    BY <1>10 DEF SaveCache
  <2> QED
    BY <1>3, <1>7, <1>10, <2>1
<1>11. CASE SaveStore(t)
  <2>1. \/ store' = [store EXCEPT ![k] = h]
        \/ UNCHANGED <<memory, cache, store>>
    BY <1>11 DEF SaveStore
  <2> QED
    BY <1>3, <1>8, <1>11, <2>1
<1> QED
  BY <1>4, <1>5, <1>6, <1>9, <1>10, <1>11 DEF Progress

\* Every step of the agent is a step of the log or a stutter.
LEMMA LogStep ==
    StateOK /\ Isolation /\ Fresh /\ [Next]_vars => [Log!Next]_LogState
<1> SUFFICES ASSUME StateOK, Isolation, Fresh, [Next]_vars
             PROVE  Log!Next \/ UNCHANGED LogState
  OBVIOUS
<1>1. MessageOnly \subseteq Key
  BY ConversationAssumption
<1>2. CASE UNCHANGED vars
  BY <1>2, LogSame DEF vars, copies
<1>3. ASSUME NEW t \in Task, Progress(t) PROVE Log!Next \/ UNCHANGED LogState
  BY <1>3, LogProgress DEF Log!Next
<1>4. ASSUME NEW t \in Task, NEW k \in Key, Start(t, k)
      PROVE  UNCHANGED LogState
  <2>1. \/ UNCHANGED memory
        \/ k \notin MessageOnly /\ memory' = [memory EXCEPT ![k] = <<>>]
    BY <1>4 DEF Start, Arrive, ScheduledSend, ScheduledPrompt, StartCompact,
                Reset, Allowed
  <2>2. UNCHANGED <<cache, store>>
    BY <1>4 DEF Start, Arrive, ScheduledSend, ScheduledPrompt, StartCompact,
                Reset, copies
  <2>3. \A j \in MessageOnly : memory'[j] = memory[j]
    BY <1>1, <2>1 DEF StateOK, TypeOK
  <2> QED
    BY <2>2, <2>3, LogSame
<1>5. ASSUME NEW k \in Key, Expire(k) PROVE Log!Next \/ UNCHANGED LogState
  <2>1. /\ UNCHANGED <<memory, store>>
        /\ \A j \in Key : cache'[j] = IF j = k THEN <<>> ELSE cache[j]
    BY <1>5 DEF Expire, StateOK, TypeOK
  <2>2. CASE k \in MessageOnly
    <3>1. Log!Expire(k)
      BY <1>1, <2>1, <2>2, CoveredEmpty DEF Log!Expire
    <3> QED
      BY <2>2, <3>1 DEF Log!Next
  <2>3. CASE k \notin MessageOnly
    BY <1>1, <2>1, <2>3, LogSame
  <2> QED
    BY <2>2, <2>3
<1>6. CASE Restart
  <2>1. PICK answers \in BOOLEAN : memory' = LoadHistory(answers)
    BY <1>6 DEF Restart
  <2>2. UNCHANGED <<cache, store>>
    BY <1>6 DEF Restart, copies
  <2>3. \A k \in MessageOnly :
            Covered(memory'[k]) = IF k = DefaultKey /\ answers
                                  THEN Covered(cache[k]) ELSE {}
    BY <1>1, <2>1, CoveredEmpty DEF LoadHistory
  <2>4. Log!Restart
    BY <2>2, <2>3 DEF Log!Restart
  <2> QED
    BY <2>4 DEF Log!Next
<1> QED
  BY <1>2, <1>3, <1>4, <1>5, <1>6 DEF Next

\* A conversation that only handle_message touches is the log of turns that
\* ConversationLog describes: a turn joins it once, when its answer is there,
\* and no compaction, failed save or restart changes it behind the log's back.
THEOREM LogImplemented == Spec => ImplementsLog
<1>1. Init => LockDiscipline /\ OnlyMessages
  BY IdleNotInFlight DEF Init, LockDiscipline, OnlyMessages, InFlight
<1>2. Init => Log!Init
  <2> SUFFICES ASSUME Init PROVE Log!Init
    OBVIOUS
  <2>1. \A k \in MessageOnly :
            Covered(memory[k]) = {} /\ Covered(cache[k]) = {} /\ Covered(store[k]) = {}
    BY CoveredEmpty, ConversationAssumption DEF Init
  <2> QED
    BY <2>1 DEF Log!Init
<1>3. Spec => [](StateOK /\ LockDiscipline /\ OnlyMessages /\ Fresh)
  BY <1>1, InitState, StateStep, LockStep, OnlyStep, FreshInit, FreshStep,
     PTL DEF Spec
<1>4. Spec => []Isolation
  BY MessageIsolation
<1>5. Spec => [][Log!Next]_LogState
  BY <1>3, <1>4, LogStep, PTL DEF Spec
<1> QED
  BY <1>2, <1>5, PTL DEF Spec, ImplementsLog, Log!Spec, LogState
=============================================================================

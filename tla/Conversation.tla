---------------------------- MODULE Conversation ----------------------------
(***************************************************************************)
(* The conversation state of one agent process: the in-memory histories of *)
(* PillywigginAgent (agents/base.py), their copies in Redis                *)
(* (memory/cache.py) and PostgreSQL (memory/store.py), and the coroutines  *)
(* that read and replace them.                                             *)
(*                                                                         *)
(* The event loop switches coroutines only at an `await`, so every action  *)
(* below is the code between two awaits.  handle_message runs under        *)
(* self._lock; the scheduled jobs and the /compact and /reset commands run *)
(* beside it without the lock.                                             *)
(*                                                                         *)
(* A history is a sequence of model messages.  A message is represented by *)
(* the set of turns whose content it carries: {n} for a prompt or a reply  *)
(* of turn n, {} for the summarising prompt and the union of what it       *)
(* replaces for a summary.                                                 *)
(***************************************************************************)
EXTENDS Integers, Sequences, Functions

CONSTANTS
    Task,          \* coroutines of the event loop, reused when they finish
    Key,           \* conversation keys
    DefaultKey,    \* the key "" of messages that carry no conversation
    MessageOnly,   \* keys for which only handle_message is ever called
    LockFreeOps,   \* the operations that reach the other keys
    Threshold,     \* compact_threshold_messages
    Keep,          \* compact_keep_messages
    MaxTurns,      \* bound of the model: turns started in a behaviour
    Free           \* the value of lock when nobody holds it

LockFree == {"send", "prompt", "compact", "reset"}

ASSUME ConversationAssumption ==
    /\ DefaultKey \in Key
    /\ MessageOnly \subseteq Key
    /\ LockFreeOps \subseteq LockFree
    /\ Threshold \in Nat
    /\ Keep \in Nat \ {0}
    /\ MaxTurns \in Nat
    /\ Free \notin Task

VARIABLES
    memory,     \* _conversation_histories; a missing key is the empty history
    cache,      \* Redis, same representation
    store,      \* the conversation_cache table, same representation
    lock,       \* the task inside `async with self._lock`, or Free
    waiters,    \* the FIFO of asyncio.Lock
    task,       \* what each coroutine is doing
    turns,      \* number of turns started so far
    expected,   \* history variable: turns a serial execution would remember
    disturbed,  \* history variable: keys on which two operations overlapped
                \* or a custom prompt replaced a history
    saved       \* history variable: the copies that took the last commit

vars == <<memory, cache, store, lock, waiters, task, turns,
          expected, disturbed, saved>>
ghosts == <<expected, disturbed, saved>>
copies == <<cache, store>>

Turn == 1..MaxTurns
History == Seq(SUBSET Turn)
Copy == {"cache", "store"}

Flight == {"compacting", "thinking", "sending", "savingCache", "savingStore"}
Op == {"none", "message"} \cup LockFree

TaskState == [pc   : {"idle", "waiting"} \cup Flight,
              op   : Op,
              key  : Key,
              turn : 0..MaxTurns,
              hist : History]

Idle == [pc |-> "idle", op |-> "none", key |-> DefaultKey,
         turn |-> 0, hist |-> <<>>]

(***************************************************************************)
(* Histories.                                                              *)
(***************************************************************************)

\* The turns a history still carries, verbatim or in a summary.
Covered(h) == UNION Range(h)

\* Faulty: keeps result.new_messages() instead of result.all_messages().
ExchangeNewOnly(h, n) == <<{n}, {n}>>

\* result.all_messages(): what brain.run was given, the prompt and the reply.
Exchange(h, n) == h \o <<{n}, {n}>>

\* Faulty: drops the old messages instead of summarising them.
CompactTruncates(h) == SubSeq(h, Len(h) - Keep + 1, Len(h))

\* compact_history: all but the last Keep messages become one summary.
Compact(h) ==
    LET cut == Len(h) - Keep
    IN  <<{}, Covered(SubSeq(h, 1, cut))>> \o SubSeq(h, cut + 1, Len(h))

\* _maybe_summarize_history, and the early return of compact_history.
TooLong(h) == Len(h) > Threshold /\ Len(h) > Keep

(***************************************************************************)
(* Coroutines.                                                             *)
(***************************************************************************)

Allowed(op, k) == op \in LockFreeOps /\ k \notin MessageOnly

InFlight(t) == task[t].pc \in Flight

\* Some other operation on k has read or written the history and not finished.
Busy(t, k) == \E u \in Task \ {t} : InFlight(u) /\ task[u].key = k

\* t starts to work on k at pc with history h in hand.
Enter(t, op, k, n, pc, h) ==
    /\ task' = [task EXCEPT ![t] = [pc |-> pc, op |-> op, key |-> k,
                                    turn |-> n, hist |-> h]]
    /\ disturbed' = IF Busy(t, k) THEN disturbed \cup {k} ELSE disturbed

Advance(t, pc, h) == task' = [task EXCEPT ![t].pc = pc, ![t].hist = h]

\* Faulty: every operation releases the lock, whoever holds it.
FinishReleasesAny(t) ==
    /\ task' = [task EXCEPT ![t] = Idle]
    /\ lock' = Free

\* Faulty: an operation that returns or raises keeps the lock.
FinishKeepsLock(t) ==
    /\ task' = [task EXCEPT ![t] = Idle]
    /\ UNCHANGED lock

\* The coroutine returns or raises; leaving `async with` releases the lock.
Finish(t) ==
    /\ task' = [task EXCEPT ![t] = Idle]
    /\ lock' = IF lock = t THEN Free ELSE lock

\* Faulty: saves the history that was read, not the new one.
CommitSavesOld(t, h) ==
    LET k == task[t].key
        n == task[t].turn
    IN  /\ memory' = [memory EXCEPT ![k] = h]
        /\ expected' = [expected EXCEPT ![k] = @ \cup {n}]
        /\ saved' = [saved EXCEPT ![k] = {}]
        /\ Advance(t, "savingCache", task[t].hist)

\* t replaces the history of its key in memory and goes on to save it.
Commit(t, h) ==
    LET k == task[t].key
        n == task[t].turn
    IN  /\ memory' = [memory EXCEPT ![k] = h]
        /\ expected' = [expected EXCEPT ![k] = @ \cup {n}]
        /\ saved' = [saved EXCEPT ![k] = {}]
        /\ Advance(t, "savingCache", h)

Init ==
    /\ memory = [k \in Key |-> <<>>]
    /\ cache = [k \in Key |-> <<>>]
    /\ store = [k \in Key |-> <<>>]
    /\ lock = Free
    /\ waiters = <<>>
    /\ task = [t \in Task |-> Idle]
    /\ turns = 0
    /\ expected = [k \in Key |-> {}]
    /\ disturbed = {}
    /\ saved = [k \in Key |-> {}]

(***************************************************************************)
(* handle_message.                                                         *)
(***************************************************************************)

\* An adapter or the NATS bus calls handle_message, which asks for the lock.
Arrive(t, k) ==
    /\ task[t] = Idle
    /\ turns < MaxTurns
    /\ turns' = turns + 1
    /\ task' = [task EXCEPT ![t] = [Idle EXCEPT !.pc = "waiting",
                                                !.op = "message",
                                                !.key = k,
                                                !.turn = turns + 1]]
    /\ waiters' = Append(waiters, t)
    /\ UNCHANGED <<memory, copies, lock, ghosts>>

\* Faulty: the lock is not waited for.
GrantedAtOnce(t) ==
    /\ task[t].pc = "waiting"
    /\ waiters # <<>>
    /\ Head(waiters) = t
    /\ waiters' = Tail(waiters)

\* Faulty: the queue keeps a waiter that was served.
GrantedStaysQueued(t) ==
    /\ task[t].pc = "waiting"
    /\ lock = Free
    /\ waiters # <<>>
    /\ Head(waiters) = t
    /\ UNCHANGED waiters

\* It is t's turn to take the lock.
Granted(t) ==
    /\ task[t].pc = "waiting"
    /\ lock = Free
    /\ waiters # <<>>
    /\ Head(waiters) = t
    /\ waiters' = Tail(waiters)

\* The history is read here, once, before any compaction.
Acquire(t) ==
    LET k == task[t].key
    IN  /\ Granted(t)
        /\ lock' = t
        /\ Enter(t, "message", k, task[t].turn,
                 IF TooLong(memory[k]) THEN "compacting" ELSE "thinking",
                 memory[k])
        /\ UNCHANGED <<memory, copies, turns, expected, saved>>

\* Rate limit reached, or the sanitizer blocked the prompt: answered at once.
Refuse(t) ==
    /\ Granted(t)
    /\ Finish(t)
    /\ UNCHANGED <<memory, copies, turns, ghosts>>

(***************************************************************************)
(* Steps shared by the operations.                                         *)
(***************************************************************************)

\* The summarising brain.run of compact_history returned.  The summary goes
\* to memory only, and handle_message goes on with the history it had read.
CompactDone(t) ==
    LET k == task[t].key
    IN  /\ task[t].pc = "compacting"
        /\ memory' = [memory EXCEPT ![k] = Compact(task[t].hist)]
        /\ IF task[t].op = "message"
           THEN Advance(t, "thinking", task[t].hist) /\ UNCHANGED lock
           ELSE Finish(t)
        /\ UNCHANGED <<copies, waiters, turns, ghosts>>

\* It raised: handle_message swallows the exception, /compact fails.
CompactFails(t) ==
    /\ task[t].pc = "compacting"
    /\ IF task[t].op = "message"
       THEN Advance(t, "thinking", task[t].hist) /\ UNCHANGED lock
       ELSE Finish(t)
    /\ UNCHANGED <<memory, copies, waiters, turns, ghosts>>

\* brain.run returned in handle_message or in a scheduled send_message.
BrainAnswers(t) ==
    /\ task[t].pc = "thinking"
    /\ task[t].op \in {"message", "send"}
    /\ Commit(t, Exchange(task[t].hist, task[t].turn))
    /\ UNCHANGED <<copies, lock, waiters, turns, disturbed>>

\* brain.run, or the adapter.send of a custom prompt, raised.
BrainFails(t) ==
    /\ task[t].pc \in {"thinking", "sending"}
    /\ Finish(t)
    /\ UNCHANGED <<memory, copies, waiters, turns, ghosts>>

\* ConversationCache.save; an error is logged and the save is skipped.
SaveCache(t) ==
    LET k == task[t].key
    IN  /\ task[t].pc = "savingCache"
        /\ \/ /\ cache' = [cache EXCEPT ![k] = task[t].hist]
              /\ saved' = [saved EXCEPT ![k] = @ \cup {"cache"}]
           \/ UNCHANGED <<cache, saved>>
        /\ Advance(t, "savingStore", task[t].hist)
        /\ UNCHANGED <<memory, store, lock, waiters, turns, expected, disturbed>>

\* ConversationStore.save, an upsert of the whole history; errors as above.
SaveStore(t) ==
    LET k == task[t].key
    IN  /\ task[t].pc = "savingStore"
        /\ \/ /\ store' = [store EXCEPT ![k] = task[t].hist]
              /\ saved' = [saved EXCEPT ![k] = @ \cup {"store"}]
           \/ UNCHANGED <<store, saved>>
        /\ Finish(t)
        /\ UNCHANGED <<memory, cache, waiters, turns, expected, disturbed>>

(***************************************************************************)
(* Operations that do not take the lock.                                   *)
(***************************************************************************)

\* The agent's send_message job: it answers in the conversation's history.
ScheduledSend(t, k) ==
    /\ task[t] = Idle
    /\ Allowed("send", k)
    /\ turns < MaxTurns
    /\ turns' = turns + 1
    /\ Enter(t, "send", k, turns + 1, "thinking", memory[k])
    /\ UNCHANGED <<memory, copies, lock, waiters, expected, saved>>

\* A custom prompt job with a conversation_key: it is given no history.
ScheduledPrompt(t, k) ==
    /\ task[t] = Idle
    /\ Allowed("prompt", k)
    /\ turns < MaxTurns
    /\ turns' = turns + 1
    /\ Enter(t, "prompt", k, turns + 1, "thinking", <<>>)
    /\ UNCHANGED <<memory, copies, lock, waiters, expected, saved>>

PromptAnswers(t) ==
    /\ task[t].pc = "thinking"
    /\ task[t].op = "prompt"
    /\ Advance(t, "sending", Exchange(task[t].hist, task[t].turn))
    /\ UNCHANGED <<memory, copies, lock, waiters, turns, ghosts>>

\* The answer went out; only now does the job replace the history, by one that
\* begins with its prompt.
PromptSent(t) ==
    LET k == task[t].key
    IN  /\ task[t].pc = "sending"
        /\ Commit(t, task[t].hist)
        /\ disturbed' = IF memory[k] = <<>> THEN disturbed
                        ELSE disturbed \cup {k}
        /\ UNCHANGED <<copies, lock, waiters, turns>>

\* /compact, or the memory_review job.
StartCompact(t, k) ==
    /\ task[t] = Idle
    /\ Allowed("compact", k)
    /\ Len(memory[k]) > Keep
    /\ Enter(t, "compact", k, 0, "compacting", memory[k])
    /\ UNCHANGED <<memory, copies, lock, waiters, turns, expected, saved>>

\* /reset: clear_history empties the memory, then saves the empty history.
Reset(t, k) ==
    /\ task[t] = Idle
    /\ Allowed("reset", k)
    /\ memory' = [memory EXCEPT ![k] = <<>>]
    /\ expected' = [expected EXCEPT ![k] = {}]
    /\ saved' = [saved EXCEPT ![k] = {}]
    /\ task' = [task EXCEPT ![t] = [Idle EXCEPT !.pc = "savingCache",
                                                !.op = "reset", !.key = k]]
    /\ disturbed' = IF Busy(t, k) THEN disturbed \cup {k} ELSE disturbed \ {k}
    /\ UNCHANGED <<copies, lock, waiters, turns>>

(***************************************************************************)
(* The environment.                                                        *)
(***************************************************************************)

\* Redis drops an entry 1800 s after it was written.
Expire(k) ==
    /\ cache[k] # <<>>
    /\ cache' = [cache EXCEPT ![k] = <<>>]
    /\ saved' = [saved EXCEPT ![k] = @ \ {"cache"}]
    /\ UNCHANGED <<memory, store, lock, waiters, task, turns,
                   expected, disturbed>>

\* load_history as _run calls it: the default key, from Redis, if it answers.
LoadHistory(answers) ==
    [k \in Key |-> IF k = DefaultKey /\ answers THEN cache[k] ELSE <<>>]

\* The process dies at any point and _run starts a new one.
Restart ==
    /\ \E answers \in BOOLEAN :
          /\ memory' = LoadHistory(answers)
          /\ expected' = [k \in Key |-> Covered(LoadHistory(answers)[k])]
    /\ task' = [t \in Task |-> Idle]
    /\ lock' = Free
    /\ waiters' = <<>>
    /\ disturbed' = {}
    /\ saved' = [k \in Key |-> {}]
    /\ UNCHANGED <<copies, turns>>

----------------------------------------------------------------------------

\* Everything a started coroutine does until it returns.
Progress(t) ==
    \/ Acquire(t)
    \/ Refuse(t)
    \/ CompactDone(t)
    \/ CompactFails(t)
    \/ BrainAnswers(t)
    \/ BrainFails(t)
    \/ PromptAnswers(t)
    \/ PromptSent(t)
    \/ SaveCache(t)
    \/ SaveStore(t)

\* A new coroutine on key k.
Start(t, k) ==
    \/ Arrive(t, k)
    \/ ScheduledSend(t, k)
    \/ ScheduledPrompt(t, k)
    \/ StartCompact(t, k)
    \/ Reset(t, k)

Next ==
    \/ \E t \in Task : Progress(t)
    \/ \E t \in Task, k \in Key : Start(t, k)
    \/ \E k \in Key : Expire(k)
    \/ Restart

Spec == Init /\ [][Next]_vars

\* The loop keeps running coroutines, and brain.run, Redis, PostgreSQL and
\* adapter.send return or raise in the end.  Nothing else has to happen.
FairSpec == Spec /\ \A t \in Task : WF_vars(Progress(t))

----------------------------------------------------------------------------
(***************************************************************************)
(* Properties.                                                             *)
(***************************************************************************)

\* The lock's queue holds the waiting coroutines, each once.
QueueOK ==
    /\ \A i, j \in 1..Len(waiters) : waiters[i] = waiters[j] => i = j
    /\ \A t \in Task : task[t].pc = "waiting" <=>
           \E i \in 1..Len(waiters) : waiters[i] = t

\* The shape of the state and of the lock's queue.
TypeOK ==
    /\ memory \in [Key -> History]
    /\ cache \in [Key -> History]
    /\ store \in [Key -> History]
    /\ lock \in Task \cup {Free}
    /\ waiters \in Seq(Task)
    /\ task \in [Task -> TaskState]
    /\ turns \in 0..MaxTurns
    /\ expected \in [Key -> SUBSET Turn]
    /\ disturbed \in SUBSET Key
    /\ saved \in [Key -> SUBSET Copy]
    /\ QueueOK

\* handle_message is exclusive from its first read of the history to its last
\* save, over all conversations, and the lock is held by nobody else.
LockDiscipline ==
    \A t \in Task : lock = t <=> InFlight(t) /\ task[t].op = "message"

\* While operations on a conversation do not overlap, and no custom prompt job
\* replaces its history, memory holds the turns that running the operations one
\* after the other should leave: none is lost, and none that /reset erased comes
\* back, whatever was compacted in between.
SerialHistory ==
    \A k \in Key \ disturbed : Covered(memory[k]) = expected[k]

\* ... and a copy whose last save went through holds the same turns, even if
\* earlier saves failed and memory has been compacted since.
SavedCopiesAgree ==
    \A k \in Key \ disturbed :
        /\ "cache" \in saved[k] => Covered(cache[k]) = expected[k]
        /\ "store" \in saved[k] => Covered(store[k]) = expected[k]

\* Nothing overlaps on a conversation that only handle_message touches, and
\* what its turn in progress holds agrees with memory, whatever the jobs and
\* commands do to other conversations in the meantime.
Isolation ==
    \A k \in MessageOnly :
        /\ k \notin disturbed
        /\ \A t \in Task : InFlight(t) /\ task[t].key = k =>
               Covered(task[t].hist) = Covered(memory[k])

Log == INSTANCE ConversationLog
    WITH Key    <- MessageOnly,
         log    <- [k \in MessageOnly |-> Covered(memory[k])],
         cached <- [k \in MessageOnly |-> Covered(cache[k])],
         stored <- [k \in MessageOnly |-> Covered(store[k])]

\* Such a conversation is the log of turns of ConversationLog.
ImplementsLog == Log!Spec

\* A message that asked for the lock is answered, refused or dropped with the
\* process; no raising brain.run and no stream of other messages keeps it out.
EveryMessageReturns ==
    \A t \in Task : task[t].pc = "waiting" ~> task[t] = Idle

\* No turn is ever lost but by /reset, whatever runs beside it and whichever job
\* it belongs to: what the documentation says of scheduled messages (README).
NoTurnLost == \A k \in Key : expected[k] \subseteq Covered(memory[k])
=============================================================================

# Pillywiggins in TLA+

Pillywiggins runs a council of AI agents. Each agent is one Python process
(asyncio) with a personality, a chat channel, a conversation memory, a private
memory, scheduled jobs and a set of skills. Agents talk to each other over NATS
JetStream and share PostgreSQL, Redis and a directory of skills.

This directory holds TLA+ models of the parts of that program where order,
failure or concurrency decide whether it is right, the TLC runs that check them,
and proofs for TLAPS. Source paths below are relative to
`src/pillywiggins/` of the repository unless they say otherwise.

## 1. The system

### Components, their state and their operations

| Component | State | Operations | Modelled in |
|---|---|---|---|
| Agent core (`agents/base.py`) | `_conversation_histories`, `_lock` | `handle_message`, `compact_history`, `clear_history`, the `send_message` job, `load_history`, `start`, `shutdown` | `Conversation` |
| Conversation cache and store (`memory/cache.py`, `memory/store.py`) | one history per conversation in Redis (30 minutes) and in PostgreSQL | `save`, `load` | `Conversation` |
| Token bucket (`agents/base.py`) | `_tokens`, `_last_refill` | `_check_rate_limit` | `Admission` |
| Reply-chain limit (`agents/base.py`) | `_seen_mentions_this_limit_cycle` | `should_process_message` | `Admission` |
| Message bus, delivery (`messaging/nats_bus.py`, `_on_nats_message`) | stream and consumers at the server, `_seen_message_ids` | publish, the two callbacks, ack, nak | `CouncilBus` |
| Message bus, connection (`messaging/nats_bus.py`) | `_nc`, `_subs`, `_monitor_task`, handlers | `connect`, `close`, `reconnect`, `subscribe_*`, `_monitor` | `NatsMonitor` |
| Scheduler (`scheduling/scheduler.py`, two tools) | APScheduler's jobs, `<agent>_schedules.json`, registered handlers | `start`, `stop`, `reload`, `add_job`, `remove_job` | `Scheduler` |
| Skill registry (`skills/registry.py`) | `_skills`, the shared directory, `registry.json`, `registry.json.tmp` | `load_all`, `register_skill`, `unregister_skill` | `SkillRegistry` |
| Skill builder, sandbox and tools (`skills/builder.py`, `skills/sandbox.py`, `agents/tools.py`) | drafts in flight, `_retry_counts`, the brain's tools | draft, test, publish, broadcast, remove, reload | `Skills` |
| Council memory (`memory/council.py`) | one table shared by all agents | `write_entry`, `search`, insights | `Memories` |
| Private memory (`memory/private.py`) | one table with the rows of all agents | `save`, `search`, `prune_by_age`, `prune_to_max` | `Memories` |
| Embeddings (`memory/embeddings.py`, `embeddings/resolver.py`) | `_embedding_cache`, the dimension of the settings | `embed_text` with retries | `Memories` |
| Discord adapter (`adapters/`) | the transport's session | `_on_message`, commands, send | `Admission`; connection and shutdown are not |
| Other chat adapters | transport sessions; the e-mail adapter's thread contexts | receive, dispatch a command, send | as callers, in `Conversation` |
| Brain (`agents/brain.py`) | its tools; nothing else outlives a run | a run returns a history or raises | as a choice of outcomes; the tools in `Skills` |
| Onboarding wizard (`onboard.py`) | `agents.yaml`, `docker-compose.yaml`, `.env` | add, replace, reconfigure and remove agents, search settings | `Onboarding` |
| Sanitizer, schema, templates, importer, URL filter | none that outlives a call | checks of one text | not modelled |
| Configuration, personalities, health, logging | files read once | | constants |

`PROJECT.json` lists the same components with the source files of each.

### How they interact

- An adapter normalises what it receives and calls `handle_message`; a text that
  begins with `/` becomes a command (`/compact`, `/reset`, ...). Discord, Slack,
  Matrix and e-mail run one coroutine per message; Telegram one after the other.
- `handle_message` runs the brain, whose tools call the scheduler, the bus, the
  memories and the skills. All agents' messages of one process pass one lock.
- The scheduler calls jobs in the same event loop: `send_message` and `custom`
  run the brain and replace a conversation's history, `memory_review` compacts it,
  `heartbeat` publishes. **None of them takes the lock.**
- The bus hands messages of other agents to `_on_nats_message`, which calls
  `handle_message` and answers, stores an insight or reloads the skills.
- Processes share the NATS server, PostgreSQL, Redis and the skill directory, and
  nothing else. A process may end at any point and is restarted by its container.

### What is hard

Coroutines that read a history, await the brain and write it back; two copies of a
history whose saves may fail; redeliveries, late acknowledgements and replays by
new processes; a monitor that cancels itself; subscriptions that fail after a
connection succeeded; files that are read, changed and rewritten by several processes
without a lock, through one temporary file of a fixed name; queries that are checked
before an insert, outside any transaction; bots that hear each other's answers; a
configuration spread over three files that are written one after the other.
`PROJECT.json` has the list under "hazards", each at its line, with the properties
that would notice it.

### What makes each component correct

- **Conversations**: run one after the other, operations lose no turn and bring none
  back, except a custom job with a prompt, which replaces the history; the lock gives
  this to messages; copies that were saved agree with memory; every message returns.
- **Bus, delivery**: a message is handled at most once per process, never skipped,
  reaches its handler if it can still be delivered; only requests are answered.
- **Bus, connection**: some monitor always watches a bus in use; an outage is noticed;
  an undisturbed bus closes without leaving a task, a connection or a subscription.
- **Scheduler**: confirmed jobs survive with their action unless a write of the file is
  interrupted, removed ones do not come back, and what runs is what the next start would
  load. The callback of a job survives no restart (section 3, disagreements).
- **Skills**: an operation on the directory that nobody disturbs does what it says,
  whatever others left behind; a skill that was deployed is in every brain that has
  heard of it, whatever entries of the registry were lost.
- **Memories**: the hourly limit and the check for duplicates are exact for one writer
  and exceeded by at most one row per further coroutine; whatever was broadcast is
  stored; every vector fits its table; pruning keeps the newest rows of the table.
- **Admission**: no more messages than the bucket's size plus what has been earned pass
  to the brain in any interval (jobs call it without asking the bucket); agents that do
  not address each other fall silent, also when they ask each other over NATS.
- **Onboarding**: at the menu the files agree, every referenced secret has a line of its
  own unless its name is part of another's, and nobody but the agent in question was
  changed.

## 2. Modules

    ConversationLog   <-- implemented by --   Conversation
                                               |        |
                                   MCConversation    ConversationProofs
    CouncilBus     --  CouncilBusProofs
    NatsMonitor    --  NatsMonitorProofs
    Scheduler      --  MCScheduler, SchedulerProofs
    SkillRegistry  <-- extended by --  Skills  --  MCSkills, SkillsProofs
    Memories       --  MCMemories, MemoriesProofs
    Admission      --  MCAdmission, AdmissionProofs
    Onboarding     --  MCOnboarding, OnboardingProofs

Common conventions: an action is the code of one coroutine between two awaits (or
one whole operation where nothing awaits). Definitions keep the source's names where
that is possible. A definition whose comment begins with "Faulty:" is a variant that
a plausible mistake in the code would give; it is used by no specification and serves
to see that a property can fail. Variables commented "history variable" exist for the
properties only.

### Conversation

| TLA+ | Code |
|---|---|
| `memory` | `_conversation_histories`; the empty history stands for a missing key |
| `cache`, `store` | the entry in Redis, the row of `conversation_cache` |
| `lock`, `waiters` | `self._lock` and its FIFO |
| `task[t]` | where coroutine `t` is, for which key and turn, and the history it holds in a local variable |
| `Arrive`, `Acquire`, `Refuse` | `handle_message` up to its first await: lock, rate limit, read, sanitizer |
| `CompactDone`, `CompactFails` | `compact_history` from inside `handle_message`, `/compact` or `memory_review` |
| `BrainAnswers`, `BrainFails` | `brain.run` returned and the history is replaced, or it raised |
| `SaveCache`, `SaveStore` | the two saves, each of which may fail silently |
| `ScheduledSend` | the `send_message` job: reads the history, without the lock |
| `ScheduledPrompt`, `PromptAnswers`, `PromptSent` | a `custom` job with a prompt: no history, send, replace |
| `StartCompact`, `Reset` | `/compact`, `memory_review`, `/reset` |
| `Expire`, `Restart` | Redis's time to live; the process ends and `_run` begins anew |

A message of a history is abstracted to the set of turns whose content it carries. A
turn adds two messages; a summary carries the union of what it replaces. This is what
the properties compare: which turns an agent still remembers, not what was said. The
answer to a rate limit or to the sanitizer is a choice (`Refuse`), and so is whether a
save works.

`MessageOnly` names the conversations on which no job and no command ever runs:
those whose key no scheduled job mentions and whose user sends no `/compact` and no
`/reset`. The lock gives these conversations isolation, and the module shows that
each is then the plain log of turns of `ConversationLog` (`ImplementsLog`, with the
refinement mapping `Log`). The other conversations are open to the operations of
`LockFreeOps`; for them `SerialHistory` and `SavedCopiesAgree` hold until two
operations on the conversation overlap or a custom prompt replaces a history that was
not empty (`disturbed`, cleared by an undisturbed reset or a restart). `expected` counts
the replaced turns too: were such a conversation not exempt, `SerialHistory` would fail.

### CouncilBus

| TLA+ | Code |
|---|---|
| `stream`, `consumer`, `Deliver`, `AckTimeout`, `Settle` | the JetStream server, external: modelled from `ConsumerConfig(max_deliver, ack_wait, max_ack_pending)` |
| `queue` | deliveries that wait for the callback of a subscription; nats-py runs one at a time |
| `seen`, `IsDuplicate`, `Remember` | `_seen_message_ids`; an id is a hash of the payload with its timestamp, so the position in the stream stands for it |
| `SkipDuplicate`, `Begin`, `Return`, `Raise` | the branches of `_cb`: duplicate, handler called, handler returned and ack, handler raised and nak |
| `Answer` | what `_on_nats_message` publishes |
| `Reconnect`, `Restart` | a new connection of the same bus; a new process with a new consumer name, which receives the stream from its beginning |

The two callbacks of `subscribe_broadcast` and `subscribe_direct` are the same code on
two subjects and are one set of actions with the subscription as a parameter. Each has
a durable consumer of its own, so `Outstanding(a, s)` is counted, and `max_ack_pending`
applies, per agent and subject. A consumer at its limit still redelivers what is pending.

### NatsMonitor

One bus; its tasks are `Main` (`_start_nats_bus`, later `shutdown`) and any number of
monitors. `task[t].pc` names the await a task is at: sleeping, joining (awaiting the
cancelled monitor in `close`), draining, closing, connecting, subscribing. A connection
is unused, live, draining, reconnecting (by nats-py itself) or closed.

The point of the module is what asyncio does to a monitor that calls `close()`:
`_monitor_task.cancel()` followed by `await self._monitor_task` from inside that task
throws the cancellation at that very await, where `except CancelledError: pass`
swallows it (`Join`). The monitor goes on to reconnect, and since `_monitor_task` is
now None, `connect` starts a second one. From then on several monitors may notice the
next outage and close and connect against each other.

### Scheduler

Nothing in `AgentScheduler` awaits, so each operation is one step, or the step in
which a write of the file fails or the process ends (`AddFails`, `RemoveFails`,
`DieWriting`). `live` is what APScheduler runs, `file` what the JSON file holds,
`bound` the jobs whose callback is one the agent registered (heartbeat, send_message)
and not a builtin; `early` the names whose callback was chosen before the agent had
registered its own, which is what a start does to all of them. `write_text` truncates before it writes: an interrupted write leaves
`Corrupt`, which loads as no jobs. Triggers, and jobs without a valid one, are left
out: they are added neither to the memory nor to the file.

### SkillRegistry and Skills

| TLA+ | Code |
|---|---|
| `disk[n]`, `reg`, `tmp` | the file `n.py`, `registry.json`, `registry.json.tmp` of the directory all agents mount |
| `op[a]` | where agent `a` is in an operation of the registry, with the list it read and the file it has open |
| `skills[a]`, `brain[a]` | `SkillRegistry._skills`; the skills the brain has tools for |
| `BeginLoad`, `ReadForLoad`, `Scan`, `EndLoad` | `load_all`: clear, read `registry.json`, look for files it does not list, load |
| `BeginRegister`, `WriteFile`, `ReadForRegister`, `EndRegister` | `register_skill` |
| `BeginUnregister`, `ReadForUnregister`, `EndUnregister` | `unregister_skill` |
| `OpenTmp`, `FillTmp`, `Replace`, `ReplaceRaises` | `_write_registry_json`: open and empty, write, `os.replace` |
| `StartTest`, `Decline`, `TestFails`, `Report`, `Publish`, `Registered`, `Announce` | the five tools that test or publish, from one await to the next |
| `HandleNotice`, `ReloadJob`, `Crash` | the broadcast `skill_deployed`, the job `skill_reload`, a process that ends and starts anew |

`SkillRegistry` has the operations, `Skills` composes them with what starts them. Within
a process an operation does not await; between processes every access to a file is a
step, and the end of a process may come between any two. The temporary file has one
name for all: whoever opened it may find that it is `registry.json` by now (another
process replaced it), or that it is gone. `Operation.fd` says where the open file is.

A code is a model value with the name it declares. That this name need not be the stem of
its file is the reason for most of the detail in `Unlisted`, `LoadedFrom` and `Touch`.

### Memories

| TLA+ | Code |
|---|---|
| `rows[s]`, `aged[s]` | the two tables, oldest row first, and how many rows are past the hour or the retention |
| `column[s]`, `dim[a]` | the dimension of the vector column; that of the settings of an agent's process |
| `cache[a]` | `_embedding_cache` |
| `task[t]` | a coroutine of an agent: the statement or request it will do next |
| `Ask`, `Retry`, `GiveUp`, `Answer` | `embed_text`: cache, attempts, the check of the dimension |
| `Count`, `Compare`, `Insert`, `Announce` | `write_entry` and the broadcast of `share_to_council` |
| `Insight` | the handler of a broadcast insight, which stores it under the receiver's own name |
| `Review`, `PruneByAge`, `Size`, `Trim` | the job `memory_review` on private memory |
| `Start` | a new process with the embedding model that is configured by then, and `_migrate_embedding_dimension` |

The agents connect as `POSTGRES_USER`, the owner of the tables (`docker-compose.yaml.example`,
`onboard.py`), and `scripts/init-db.sql` enables row level security without FORCE. It does
not bind them, and the statements of a review reach the rows of all agents; so they do here.

Similarity is equality of texts. No statement is in a transaction with another, so
anything may happen between two of them; any of them may raise.

### Admission

| TLA+ | Code |
|---|---|
| `channel` | the messages of one Discord channel, which all agents in it hear in the same order |
| `chatter[a]` | `_seen_mentions_this_limit_cycle` |
| `Refuse`, `Ignore`, `Admit`, `Dispatch` | `_on_message`: not authorised, `should_process_message`, `handle_message`, a command |
| `Begin`, `Postpone` | `_check_rate_limit` said yes or no |
| `Answer` | the brain answered, or raised |
| `Ask`, `AskByJob` | `send_message_to_agent` from a brain at a message, or from a job |
| `TurnDown`, `TakeUp` | `process_message` for the next request over NATS, which shares the counter, the bucket and the lock |
| `Reply` | what `handle_message` returns is posted: by the adapter for a message, and by `_on_nats_message` for a request, into the channel its `routing_info` names |
| `Speak` | a person says something; a job calls the brain past lock and bucket and posts |

What an agent posts, the others hear, answers of the rate limiter included. A request
carries the metadata of the message its sender is at, so that `should_process_message` judges it like that message, and its answer
is posted by the agent that was asked, if it is on this platform, or else by the sender,
who gets it as a `direct_reply`; the model posts it together with the answer. The requests
of a `send_message` job have no metadata of a group and route nowhere on Discord; those of
a custom prompt do not occur, because "scheduler" is no `ChannelType`. The text of a
message is whom it addresses and whom it names: the only things the code looks for.
Tokens are counted in units of `1/Window` of a call, so that the float is an integer.

### Onboarding

| TLA+ | Code |
|---|---|
| `agents`, `services`, `env` | `agents.yaml`, `docker-compose.yaml`, `.env` |
| `todo`, `draft` | what the flow still asks and writes, and the answers so far |
| `WriteAgent`, `AddService`, `WriteToken`, `WriteKey` | the writers `_add_agent_flow` calls |
| `ChangeService` | the service as `_reconfigure_agent_flow` rewrites it |
| `DropAgent`, `DropService`, `Comment` | `_remove_agent_flow` |
| `Cancel`, `Raise` | a question is cancelled; a write raises and may leave its file empty |

The search for a variable in `.env` is by part of a line in the code, and so it is here:
`Ends` are pairs of agents one of whose variables contains the other's name. A token that
the wizard puts together from several answers (`MultiLine`: Matrix, e-mail) is written as
one assignment with line breaks in it, of which the variable keeps the first line; `whole`
says whether a line holds all that was entered.

## 3. Runs

| Run | Bounds | Shows |
|---|---|---|
| `conversation` | 2 coroutines, 2 conversations, 2 turns, compaction above 1 message keeping 1 | `TypeOK`, `LockDiscipline`, `SerialHistory`, `SavedCopiesAgree`, `Isolation`, the refinement `ImplementsLog`, and `EveryMessageReturns` under fairness |
| `council_bus` | 2 agents, 1 message and its replies, 2 deliveries of each, one reconnect or restart, 1 seen id | `TypeOK` (with the limits), `NothingSkipped`, `OnlyRequestsAnswered`, `HandledOnce`, `EveryMessageBegun` |
| `nats_monitor` | 4 connections, 3 monitors, 3 failures, 2 attempts | `TypeOK`, `MonitorSurvives`, `CleanShutdown`, `OutageNoticed` |
| `scheduler` | 3 names, 3 actions, one job in the YAML; no other bound | `TypeOK`, `ConfirmedJobsRun`, `RemovedStaysRemoved`, `MemoryMatchesFile` |
| `skills` | 2 agents, 2 files, 2 versions that declare one name and a broken code, 2 calls, 1 crash | `TypeOK` (with the retry limit), `DeployedIsLoaded`, `AloneIsExact` |
| `memories` | 2 agents, two coroutines of one, 2 texts, 2 dimensions, limits 2 and 1, 2 calls, 1 new start | `TypeOK` (with the retry limit), `HourlyLimit`, `FewCopies`, `VectorsFit`, `AnnouncedIsStored`, `NewestKept` |
| `admission` | 2 agents in the channel, a person and a stranger, limit 1, bucket of 1 call in 2 ticks, 3 ticks, 1 message, 1 request, 8 messages in all | `TypeOK` (with the limits), `WindowLimit`, `ChatterIsBounded` |
| `onboarding` | 2 agents with similar ids, 3 channels, one with tokens of several lines, 2 models, 4 flows, 1 write that raises | `TypeOK`, `FilesAgree`, `SecretsDefined`, `OthersUntouched` |

Why these bounds are enough for the interesting cases:

- *Conversations.* Two coroutines are what an overlap needs. With a threshold of 1 the
  second turn already compacts. One conversation is `MessageOnly` and the default one
  (which a restart reads back), the other is open to every operation, so isolation is
  checked against all of them. More turns and coroutines are covered by the theorems,
  which know no bound; 3 turns were run during development as well.
- *Bus.* A message and the replies to it are enough for one to be taken for another; two
  deliveries make a duplicate; `MaxSeen` below the number of messages makes the set drop
  ids. Every message is subject to late and lost acknowledgements, and every handler may
  raise. Each consumer may have one message outstanding. The limit binds when the one
  that was asked is restarted and answers again: the second answer waits until the first
  is acknowledged, or given up after its deliveries. The mutant `PendingForever`, by which
  it would wait for good, breaks `EveryMessageBegun`.
- *Connection.* The third failure is what lets two monitors notice one outage, after
  the first left a second monitor behind.
- *Scheduler.* Names do not interact except through the file: the job being changed, one
  of the personality and a bystander are the cases. The state space is finite without a
  bound.
- *Skills.* Two operations at the same time are enough for each way in which they can
  meet in the files; a process that ends in one of them leaves what the other then
  finds, and its successor loads. Both codes declare the same name, which makes one file
  right and the other misnamed. A call that publishes and one that removes exercise every
  action.
- *Memories.* Two coroutines of one agent make the checks race; the third belongs to
  another agent and receives. A limit of 2 with rows from two texts is reached by shares
  and received insights together; `Earlier` puts old private rows in place for the reviews.
- *Admission.* One message that nobody asked for, one request, and everything that
  follows from them. `ChatterIsBounded` allows seven messages for them, and the eighth
  would break it. Three ticks are a window and the tick after it. To keep the run small
  a channel in which agents address each other is not continued (`MCQuiet`; the property
  is not about it), one request is made at most, and time passes only where none is made
  (`MCApart`); the theorems have neither restriction, and are about agents on another platform as well.
- *Onboarding.* Four flows add both agents, change or replace one and remove one, with a
  failure anywhere.

Where `CHECK_DEADLOCK FALSE` is given, the system can stop: the bound on new messages,
calls or flows is reached and everything has been handled, or the bus has been shut down.

### Disagreements

Four runs show that the code does not do what the documentation says. Each checks the one
property that states it, and PROJECT.json quotes the text.

| Run | Text | Code |
|---|---|---|
| `conversation_scheduled` (`NoTurnLost`) | scheduled messages are recorded like user-initiated ones | the job works without the lock: it and a turn of the same conversation erase each other |
| `council_bus_retry` (`FailedIsRetried`) | a failed message is retried three times | its redelivery is dropped as a duplicate |
| `nats_monitor_subscribe` (`Resubscribes`) | the monitor re-subscribes after an outage | one failed subscription is never tried again |
| `admission_refusals` (`ChatterIsBounded`) | `bot_chat_limit` controls the depth of bot-to-bot conversation | refusals of unauthorised senders are posted before the limit is asked; two agents that admit people only refuse each other's refusals |

The text about `bot_chat_limit` (ONBOARD.md:134) stands in the section on Telegram groups, but
the setting is described for every agent; the Telegram adapter refuses in the same way.

In the following the models do what the code does, and the checked property says what holds;
the text says more.

| Text | Code | What holds |
|---|---|---|
| docs/pillywiggins-overview-v2.md:186, :214: scheduled messages are recorded like user-initiated ones, and take the same path | a `custom` job with a prompt runs the brain without the history (scheduling/scheduler.py:143-161) and replaces the history by what that run returned (line 172), with nothing else running | `SerialHistory`, except where that happened |
| docs/pillywiggins-overview-v2.md:182, docs/IMPLEMENTATION-PLAN.md:699: jobs survive restarts | they are bound before the agent registers its handlers (agents/base.py:299-302): after a restart a heartbeat only logs, and a send_message job runs `_builtin_custom`, which sends nothing | `ConfirmedJobsRun`: the action survives, the agent's callback lasts until the next start |
| docs/pillywiggins-overview-v2.md:182: a job is picked up when a crashed container comes back | the only file of jobs is emptied before it is written (scheduling/scheduler.py:510) | `ConfirmedJobsRun`, unless a write was interrupted |
| docs/pillywiggins-overview-v2.md:123: the registry is updated atomically, nobody sees it half written | all processes write one `registry.json.tmp`, and one renames what another has just emptied (skills/registry.py:289-291) | `DeployedIsLoaded` and `AloneIsExact`, in spite of a torn registry |
| docs/SECURITY.md:133, docs/IMPLEMENTATION-PLAN.md:824: `prune_to_max` caps the count per agent | the statements name no agent, and row level security does not bind the owner of the table (memory/private.py:77-98, scripts/init-db.sql:27) | `NewestKept` of the table |
| docs/SECURITY.md:184, docs/pillywiggins-overview-v2.md:71: ten council entries per hour and agent | the count precedes the insert | `HourlyLimit`: exceeded by fewer rows than the agent has coroutines |
| docs/SECURITY.md:185: no duplicate within an hour | the comparison precedes the insert | `FewCopies`: one copy per coroutine |
| config.py:29: maximum of brain calls per window | jobs call the brain past the bucket (agents/base.py:373, scheduling/scheduler.py:143), and a bucket that refills while it is used passes up to twice its size | `WindowLimit` of what passes the bucket |
| onboard.py:786: "Tokens added to .env" | a Matrix or e-mail token of several lines is written into one assignment (onboard.py:542, 954, 991), and the variable holds its first line; a name that is the end of another's is taken to be there (line 557), and no line is written | `SecretsDefined` |
| messaging/nats_bus.py, comment on `_seen_message_ids`: the oldest ids go | arbitrary ones go | `HandledOnce`, as long as all fit |

### Further observations

Things met while modelling that no run singles out.

*Conversations and scheduler.* A restart loads only the conversation with the empty key
(docs/IMPLEMENTATION-PLAN.md:358 says that a restarted bot resumes). `handle_message` gives
the brain the history it read before the compaction. A job whose confirmation failed still
runs until the next restart; a job of the personality that was removed is back after one.

*Bus.* A restarted agent handles the whole stream again, because its consumer name is new.
After an outage `close()` can leave a monitor running, which may connect the bus again
(docs/TROUBLESHOOTING.md:170 says that it cancels it), and `shutdown` may await a monitor
that never ends.

*Skills.* `publish_skill_code` with an empty list of tests publishes what was never run.
`remove_skill` goes by the declared name and leaves a file of another name. Retry counts
are never reset. A `load_all` that raised leaves the registry empty and the brain with
its old tools.

*Memories.* An agent that starts with another dimension while the table is empty changes
the column, and the writes of running agents fail until they restart. Every receiver of an
insight stores its own copy, out of its own hourly budget; a restarted one is sent the
stream again and, after the hour, stores old insights anew.

*Admission.* Agents that address each other are unlimited, by design, and so are the
requests a brain may send to other agents. Slack's messages carry no mark of a bot, so all of
them count as a person's; on Telegram the counter of a group has the sender's id as its key,
so that a person never resets a bot's.

*Onboarding.* "Replace it?" removes the agent before questions that can be cancelled.
"Start blank" raises. The service of an agent whose id is that
of an infrastructure service is not written when it is added, and deleted with it when it
is removed. A reconfiguration drops the time zone from an entry.

*Process.* The `finally` of `_run` closes a cache that `shutdown` has set to None, so the
clean-up of the health server behind it is not reached. main cannot construct the adapters of
Slack, Matrix and e-mail: it passes them arguments they do not have, or reads settings
that do not exist.

## 4. Fairness

- `Conversation!FairSpec`: weak fairness of what each coroutine does once it has
  started. The event loop runs every ready callback, `asyncio.Lock` is FIFO, and the
  brain, Redis, PostgreSQL and the adapters have timeouts, so that an await returns or
  raises. Nothing says that messages arrive, that the process lives or that it ends.
- `CouncilBus!FairSpec`: the server delivers or times out, nats-py calls the callback,
  a handler returns or raises. `EveryMessageBegun` has the proviso that no connection and
  no process is lost meanwhile: all deliveries of a message may be queued behind a slow
  handler and go with the connection.
- `NatsMonitor!FairSpec`: tasks run, monitors wake, what a task awaits returns or
  raises. A lost connection need not come back, and nobody has to shut down.
- `Scheduler`, `Skills`, `Memories`, `Admission` and `Onboarding` state safety only and
  assume none. Skills that are published do not reach an agent whose `load_all` raised, and
  an insight whose broadcast failed reaches nobody: there is no promise to be kept.

## 5. Proofs

All theorems hold for every value of the constants that the ASSUME of the module
allows: any number of coroutines, conversations, jobs, and any thresholds.

**ConversationProofs** (about `Conversation!Spec`)

- `TypeCorrect`: `TypeOK`, which includes that the lock's queue holds exactly the
  waiting coroutines, each once. The inductive invariant is `StateOK`: `TypeOK` and
  which operation can be at which await with what in hand (`Shaped`), so that for
  example a compaction is only ever in flight on a history longer than what it keeps.
- `LockSafety`: `LockDiscipline`, by induction with `StateOK`: an operation is a message
  exactly if it went through the queue.
- `SerialSafety` and `CopiesSafety`: `SerialHistory` and `SavedCopiesAgree`, for
  conversations that are not `disturbed`. Neither is
  inductive: they say nothing about what a coroutine between two awaits holds in its
  local variable. The strengthening `Serial` adds `Alone`, at most one operation is in
  flight on a conversation that is not disturbed, and `HistoryInHand`, what that operation holds
  carries the turns expected at the stage it is at. The lemmas `ExchangeOK` and
  `CompactOK` carry the data part: an exchange adds its turn, a compaction loses none.
- `MessageIsolation`: `Isolation`, from `LockDiscipline`, `Serial` and `OnlyMessages`: on a
  `MessageOnly` conversation everything in flight is a message, holds the lock, and is
  therefore alone.
- `LogImplemented`: the refinement, `Spec => ImplementsLog`. A step of the agent is one step
  of `ConversationLog` or a stutter (`LogStep`): an answer is `Record`, a save that went
  through is `Cache` or `Store`, a compaction is a stutter. `Isolation` gives that what is
  saved is what memory remembers. That an answer adds a turn that was not in the log needs
  one more invariant, `Fresh`: turns are numbered once, and a turn without its answer is in
  no history that anybody can still read, in memory, in Redis or in a local variable.

**CouncilBusProofs** (about `CouncilBus!Spec`)

- `TypeCorrect` (with the limits on what each of an agent's two consumers has outstanding,
  and on remembered ids),
  `NothingDropped`, `AnswersEnd` and the action property `AtMostOnce`. `NothingSkipped` is
  not inductive: an acknowledgement also comes from a delivery that was taken for a
  duplicate. `SeenIsBegun` says that only what was begun is remembered. `OnlyRequestsAnswered`
  needs that what waits for a callback was addressed to its agent (`Delivered`) and that a
  reply names a request that exists. `AtMostOnce` rests on `SeenWhileRoom`: ids are dropped
  only when there were more than fit.

**NatsMonitorProofs** (about `NatsMonitor!Spec`)

- `TypeCorrect`, `SomeMonitorSurvives` and `NothingIsLeft`. `MonitorSurvives` holds while the
  agent runs, and is already true while it subscribes (`Watched`): a step may cancel the
  monitor that `_monitor_task` names, but the one that cancels is itself alive, or is Main on
  its way out. `CleanShutdown` needs the whole life of a bus without failures
  (`Undisturbed`): one monitor, which never wakes, and one connection.

**MemoriesProofs** (about `Memories!Spec`)

- `TypeCorrect`, `LimitExceededByFew`, `CopiesAreFew`, `DimensionsFit`,
  `OnlyStoredIsAnnounced`, and the action property `PruningKeepsNewest`, which is about the
  table as a whole: agent by agent it does not hold.
  `HourlyLimit` and `FewCopies` are stated so that they are inductive: rows that are there
  plus coroutines past their check are bounded, and a coroutine moves from one term to the
  other. Their proofs are about cardinalities of sets of rows. `AnnouncedIsStored` adds
  what is about to be broadcast (`BroadcastIsStored`).

**OnboardingProofs** (about `Onboarding!Spec`)

- `TypeCorrect`, `ConfigurationAgrees`, `SecretsAreThere`, and the action property
  `OneAgentAtATime`. `FilesAgree` and `SecretsDefined` hold at the menu only. The latter
  promises a line with what was entered for the agent, the whole of it where the token is
  one answer, and exempts variables whose name is the end of another's, because no more
  is true. The
  invariant says for every stage of a flow what has been written of it (`AddingSoFar`,
  `ChangingSoFar`, `RemovingSoFar`), and that the flow leaves all other agents settled
  (`Settled`).

**SkillsProofs** (about `Skills!Spec`)

- `TypeCorrect`, `DeploymentReaches` and the action property `ExactWhenAlone`.
  `DeployedIsLoaded` speaks of idle agents; what it rests on in the middle of an operation
  is `AllKnown`: an agent that was told of a skill has it in the registry and in the brain,
  or is in a `load_all` whose list names the file as soon as it has scanned the directory,
  and removes no skill of that name. `DeployedHolds` says that the file still holds the
  code. The lemma `TouchOK` is why a change of another file does not matter: it ends every
  announcement that the change could make untrue. `Scan`, which looks for files that no entry names, is why
  a lost update of `registry.json` does not matter; `AddedOK` is the lemma about it.
- `ExactWhenAlone` needs what an undisturbed operation has achieved at each of its steps:
  the code is in place (`Placed`), the list is complete (`Listed`), and the temporary file
  and then `registry.json` hold it (`Saved`). Whoever changes a file disturbs everybody
  else, so no step of another process is a case (`DisturbOK`, `AloneKept`); that
  `os.replace` raises only under a disturbed operation is the lemma `Undisturbed`.
- The shape invariant (`Shape`) includes that finitely many files exist, which `SetToSeq`
  in `Scan` needs. About lists, the lemmas `WithEntryOK`, `WithoutEntryOK`, `LoadedFromOK`
  and `SetToSeqOK` say what the operators return.

**SchedulerProofs** (about `Scheduler!Spec`)

- `JobsTypeCorrect`, `ConfirmedJobsSafety`, `RemovalSafety`, `FileSafety`: the four
  invariants of the run. `ConfirmedJobsRun` says of the callback too: it is the agent's
  until the next start, and then that of before its handlers were registered. The strengthening ties the memory to the file: a confirmed
  job is in the file and does not drift (`Saved`), a removed one is not in the file
  (`Erased`). `ConfirmedJobsRun` then follows, because a restart would load what is saved
  and what is saved is what runs (`MemoryMatchesFile`).

**AdmissionProofs** (about `Admission!Spec`)

- `AdmissionTypeCorrect`: `TypeOK`, with its limits: the counter of bot messages and the
  bucket stay within their bounds. It needs `Busy`, only a message that waits can be at
  the brain.
- `WindowSafety`: `WindowLimit`, of what the bucket lets pass. It says nothing about tokens and is not inductive; the
  strengthening `Paid` is the account of the bucket: what it holds and what has passed
  since any call are paid for by a full bucket and what has been earned since that call. A
  refill adds to both sides, a call moves a window from one term to the other.
- `ChatterBounded`: `ChatterIsBounded`, if every agent lets every other in
  (`Agent \subseteq Trusted`): `allowed_user_ids` is "all", or lists the ids of the agents
  besides those of the people. An empty list, the default, lets nobody in, and then, or
  with people only, the property is false: agents that refuse each other answer every
  refusal with a refusal, which is what the run `admission_refusals` shows.
  The property counts the messages of the whole channel and no step keeps it by itself.
  The strengthening is an account (`Account`): an injection from the messages of the
  channel, and the entries that wait in a queue and will be posted, to pairs of what
  nobody asked for, a message or a request, and a reason. The reason is the message
  itself, an agent's answer to it, or one of the `BotChatLimit` remarks that an agent may
  make until the next person speaks. A message or request that is let in gets a reason that is
  free because the counter is below its limit; its answer takes the reason over, for which
  nothing must wait twice (`Waiting`) and every answer must have an agent in the channel
  that posts it (`Placed`). The account is kept while no agent addresses or names another
  (`Decent`), and the bound is the number of such pairs.

Assumed besides the ASSUMEs: nothing but the hypothesis of `ChatterBounded`. The theorem
modules of the standard library are cited for finite sets, functions and sequences. The
inductive invariants were first checked by TLC on the instances of section 3, except
`Account`, which quantifies over functions that TLC cannot enumerate.

Model-checked only:

- the liveness properties (`EveryMessageReturns`, `EveryMessageBegun`, `OutageNoticed`):
  temporal reasoning under fairness is outside this prover's reach.

## 6. Not modelled, and why

- What a text says: prompts, sanitizing, formatting, schema and permissions of skills, the
  importer, the URL filter. These are functions of one text without state; the modules
  have their verdicts as choices or constants.
- Time, except as a nondeterministic choice or a tick: expiry, ack_wait, the monitor's
  sleep, the hour of the council.
- Finer steps that no property would tell apart: `Scan` takes the listing of the skill
  directory and `EndLoad` the loads of its files in one step each, so that a file that
  another process changes in between is seen in one state only; `WriteFile` does not tell
  a file from one that was unlinked while open and created anew; in `Onboarding` a write
  that raises leaves its file as it was or empty, and a partial file stands with the
  empty one; a `direct_reply` of an agent on another platform is posted together with
  the answer it forwards (`Admission`).
- What the other queries of private memory return, which the lack of row level security
  concerns as well (`search`): no property is about the rows a search finds.
- The adapters of Slack, Matrix, Telegram and e-mail as such: what they do to an agent
  are the calls in `Conversation`. main cannot construct three of them.
- Code that nothing calls: the watcher of the skill directory, `delete_entry`, `get_entry`,
  `list_entries` of council memory, `delete` of private memory, `embed_texts`.
- The order of `shutdown`, health and logging; the wizard's flows for MCP servers and for
  starting containers, which touch none of the three files.
- Several tool calls of one brain at the same time in `Skills`; a skill that is run while
  its file changes.

## 7. Plan

| # | Module | State | Next |
|---|---|---|---|
| 1 | `Conversation`, `ConversationLog` | checked and proved, with the refinement | |
| 2 | `CouncilBus` | checked and proved | |
| 3 | `NatsMonitor` | checked and proved | that shutdown returns |
| 4 | `Scheduler` | checked and proved | |
| 5 | `SkillRegistry`, `Skills` | checked and proved | |
| 6 | `Memories` | checked and proved | |
| 7 | `Admission` | checked and proved | |
| 8 | `Onboarding` | checked and proved | |
| 9 | `Lifecycle` | not begun | start and shutdown of an agent's services: what is started is closed |

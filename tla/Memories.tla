------------------------------ MODULE Memories ------------------------------
(***************************************************************************)
(* The two vector stores of the agents, over one PostgreSQL database       *)
(* (memory/base.py): council memory, which all agents write and read       *)
(* (memory/council.py), and the private memory of each (memory/private.py),*)
(* with the client of the embedding server that turns a text into a vector *)
(* (memory/embeddings.py), the tools that use them (agents/tools.py) and   *)
(* the broadcast of insights.                                              *)
(*                                                                         *)
(* A task is a coroutine of an agent: a tool call, a handler of a          *)
(* broadcast, or the job memory_review.  Every statement sent to the       *)
(* database is a step, none of them in a transaction with another.  A      *)
(* vector is the text it was made from and its dimension; two vectors of   *)
(* one text are similar.  Whoever calls write_entry gives a vector, so     *)
(* rows without one are left out, and so are contents that are too long    *)
(* and tags that are not allowed: they are refused before anything is read.*)
(***************************************************************************)
EXTENDS Integers, Sequences, FiniteSets

CONSTANTS
    Agent,
    Task,          \* coroutines
    Owner,         \* the agent of each
    Text,
    Dim,           \* dimensions of vectors
    None,
    Limit,         \* RATE_LIMIT_PER_HOUR
    MaxPrivate,    \* memory_max_entries
    MaxRetries,    \* _MAX_RETRIES
    Earlier,       \* bound of the model: whose the first private rows are
    MaxCalls,      \* bound of the model: tool calls and jobs
    MaxStarts      \* bound of the model: starts of processes after the first

ASSUME MemoriesAssumption ==
    /\ Owner \in [Task -> Agent] /\ IsFiniteSet(Task)
    /\ None \notin Dim /\ None \notin Text
    /\ Limit \in Nat \ {0} /\ MaxPrivate \in Nat /\ MaxRetries \in Nat \ {0}
    /\ Earlier \in Seq(Agent) /\ MaxCalls \in Nat /\ MaxStarts \in Nat

VARIABLES
    rows,       \* rows[s]: the table of store s, oldest row first
    aged,       \* aged[s]: how many of them are past the hour, or the retention
    column,     \* column[s]: the dimension of its vector column
    dim,        \* dim[a]: embedding_dimension of the settings of a's process
    up,         \* up[a]: the stores a's process is connected to
    cache,      \* cache[a]: _embedding_cache, the dimension of a text's vector
    task,       \* task[t]: what coroutine t is doing
    inbox,      \* inbox[a]: insights that were broadcast and not yet handled
    announced,  \* the insights of the JetStream stream
    calls, starts

vars == <<rows, aged, column, dim, up, cache, task, inbox, announced, calls, starts>>
tables == <<rows, aged, column>>
process == <<dim, up, cache>>

Store == {"council", "private"}
Vector == [text : Text, dim : Dim]

\* Nothing depends on the text of a private row.
Row == [agent : Agent, vec : Vector \cup [text : {None}, dim : Dim]]
Private(a, d) == [agent |-> a, vec |-> [text |-> None, dim |-> d]]

Kind == {"share", "insight", "save", "query", "review"}
Pc == {"idle", "requesting", "counting", "comparing", "inserting",
       "broadcasting", "searching", "aging", "sizing", "trimming"}

State == [pc : Pc, kind : Kind \cup {"none"}, text : Text \cup {None},
          dim : Dim \cup {None}, attempt : 0..MaxRetries]
Idle == [pc |-> "idle", kind |-> "none", text |-> None, dim |-> None, attempt |-> 0]

StoreOf(kind) == IF kind \in {"save", "review"} THEN "private" ELSE "council"

Tasks(a) == {t \in Task : Owner[t] = a}
VectorOf(t) == [text |-> task[t].text, dim |-> task[t].dim]

\* The tables were created by init-db.sql with the default dimension; an agent
\* may have saved before.
Init ==
    /\ aged = [s \in Store |-> 0]
    /\ \E d \in Dim :
           /\ column = [s \in Store |-> d]
           /\ dim = [a \in Agent |-> d]
           /\ rows = [council |-> <<>>,
                      private |-> [i \in DOMAIN Earlier |-> Private(Earlier[i], d)]]
    /\ up = [a \in Agent |-> Store]
    /\ cache = [a \in Agent |-> [x \in Text |-> None]]
    /\ task = [t \in Task |-> Idle]
    /\ inbox = [a \in Agent |-> {}]
    /\ announced = {}
    /\ calls = 0
    /\ starts = 0

----------------------------------------------------------------------------
\* Processes.

\* _migrate_embedding_dimension changes the column to d; PostgreSQL refuses to
\* convert vectors of another dimension.
Migrates(s, d) == column[s] = d \/ rows[s] = <<>>

\* The process of a ends wherever it is and starts again, with the embedding
\* model that resolve_embedding_config finds now.  It connects to a store if
\* the database answers and the column has, or can get, the right dimension.
\* Its new consumer is sent the stream again (CouncilBus).
Start(a) ==
    /\ starts < MaxStarts
    /\ starts' = starts + 1
    /\ \E d \in Dim, reached \in BOOLEAN :
           LET S == {s \in Store : reached /\ Migrates(s, d)}
           IN  /\ dim' = [dim EXCEPT ![a] = d]
               /\ up' = [up EXCEPT ![a] = S]
               /\ column' = [s \in Store |-> IF s \in S THEN d ELSE column[s]]
    /\ cache' = [cache EXCEPT ![a] = [x \in Text |-> None]]
    /\ task' = [t \in Task |-> IF t \in Tasks(a) THEN Idle ELSE task[t]]
    /\ inbox' = [inbox EXCEPT ![a] = announced]
    /\ UNCHANGED <<rows, aged, announced, calls>>

\* Time passes for the oldest row that is still young.
Age(s) ==
    /\ aged[s] < Len(rows[s])
    /\ aged' = [aged EXCEPT ![s] = @ + 1]
    /\ UNCHANGED <<rows, column, process, task, inbox, announced, calls, starts>>

----------------------------------------------------------------------------
\* Embeddings.

\* t goes on, with the other variables as given by the action.
Goes(t, pc) == task' = [task EXCEPT ![t].pc = pc]
Returns(t) == task' = [task EXCEPT ![t] = Idle]

\* What a caller does with its vector.
After(kind) == CASE kind = "share" -> "counting"
                 [] kind = "save"  -> "inserting"
                 [] OTHER          -> "searching"

\* write_entry, save and search go on with a vector of the right dimension only.
Fits(a, d) == d = dim[a]

\* share_to_council, save_to_private_memory and the two tools that search ask
\* for a vector; what is in the cache is returned as it is, unless it is older
\* than its time to live.
Ask(t, kind, x) ==
    LET a == Owner[t] IN
    /\ task[t] = Idle /\ calls < MaxCalls
    /\ StoreOf(kind) \in up[a]
    /\ calls' = calls + 1
    /\ \E known \in {cache[a][x], None} :
           /\ cache' = [cache EXCEPT ![a][x] = known]
           /\ task' = [task EXCEPT ![t] =
                  IF known = None
                  THEN [pc |-> "requesting", kind |-> kind, text |-> x, dim |-> None,
                        attempt |-> 1]
                  ELSE IF Fits(a, known)
                  THEN [pc |-> After(kind), kind |-> kind, text |-> x,
                        dim |-> known, attempt |-> 0]
                  ELSE Idle]
    /\ UNCHANGED <<tables, dim, up, inbox, announced, starts>>

\* Faulty: one attempt too many.
RetryLate(t) ==
    /\ task[t].pc = "requesting" /\ task[t].attempt <= MaxRetries
    /\ task' = [task EXCEPT ![t].attempt = @ + 1]
    /\ UNCHANGED <<tables, process, inbox, announced, calls, starts>>

\* The server raised, answered 5xx, or nothing that can be parsed.
Retry(t) ==
    /\ task[t].pc = "requesting" /\ task[t].attempt < MaxRetries
    /\ task' = [task EXCEPT ![t].attempt = @ + 1]
    /\ UNCHANGED <<tables, process, inbox, announced, calls, starts>>

\* The last attempt failed, or the server refused.
GiveUp(t) ==
    /\ task[t].pc = "requesting"
    /\ Returns(t)
    /\ UNCHANGED <<tables, process, inbox, announced, calls, starts>>

\* Faulty: the vector is cached before its dimension is checked.
AnswerCachedFirst(t) ==
    /\ task[t].pc = "requesting"
    /\ \E d \in Dim :
           /\ cache' = [cache EXCEPT ![Owner[t]][task[t].text] = d]
           /\ IF Fits(Owner[t], d)
              THEN task' = [task EXCEPT ![t] = [@ EXCEPT !.pc = After(task[t].kind),
                                                !.dim = d, !.attempt = 0]]
              ELSE Returns(t)
    /\ UNCHANGED <<tables, dim, up, inbox, announced, calls, starts>>

\* A vector, of whatever dimension the model that answers has.
Answer(t) ==
    /\ task[t].pc = "requesting"
    /\ \E d \in Dim :
           IF Fits(Owner[t], d)
           THEN /\ cache' = [cache EXCEPT ![Owner[t]][task[t].text] = d]
                /\ task' = [task EXCEPT ![t] = [@ EXCEPT !.pc = After(task[t].kind),
                                                !.dim = d, !.attempt = 0]]
           ELSE Returns(t) /\ UNCHANGED cache
    /\ UNCHANGED <<tables, dim, up, inbox, announced, calls, starts>>

\* search reads the rows and returns.
Search(t) ==
    /\ task[t].pc = "searching"
    /\ Returns(t)
    /\ UNCHANGED <<tables, process, inbox, announced, calls, starts>>

----------------------------------------------------------------------------
\* Council memory.

Own(a) == {i \in DOMAIN rows["council"] : rows["council"][i].agent = a}
Recent(a) == {i \in Own(a) : i > aged["council"]}
Copies(a, v) == {i \in Recent(a) : rows["council"][i].vec = v}

\* _on_nats_message: every receiver, the sender too, writes an insight under
\* its own name, one at a time (CouncilBus), if its dimension is the same.
Insight(t, v) ==
    LET a == Owner[t] IN
    /\ task[t] = Idle
    /\ v \in inbox[a]
    /\ \A u \in Tasks(a) : task[u].kind # "insight"
    /\ inbox' = [inbox EXCEPT ![a] = @ \ {v}]
    /\ IF "council" \in up[a] /\ Fits(a, v.dim)
       THEN task' = [task EXCEPT ![t] = [Idle EXCEPT !.pc = "counting",
                         !.kind = "insight", !.text = v.text, !.dim = v.dim]]
       ELSE UNCHANGED task
    /\ UNCHANGED <<tables, process, announced, calls, starts>>

\* Faulty: allows one write more in the hour.
RoomOffByOne(a) == Cardinality(Recent(a)) <= Limit

Room(a) == Cardinality(Recent(a)) < Limit

\* SELECT COUNT.
Count(t) ==
    /\ task[t].pc = "counting"
    /\ IF Room(Owner[t]) THEN Goes(t, "comparing") ELSE Returns(t)
    /\ UNCHANGED <<tables, process, inbox, announced, calls, starts>>

\* Faulty: looks for a duplicate among the rows of everybody else.
DuplicateOfOthers(a, v) == \E b \in Agent \ {a} : Copies(b, v) # {}

\* SELECT MIN of the distances to a's own rows of the last hour.
Duplicate(a, v) == Copies(a, v) # {}

\* Vectors of different dimensions cannot be compared.
Compare(t) ==
    /\ task[t].pc = "comparing"
    /\ IF \/ Duplicate(Owner[t], VectorOf(t))
          \/ Recent(Owner[t]) # {} /\ column["council"] # task[t].dim
       THEN Returns(t) ELSE Goes(t, "inserting")
    /\ UNCHANGED <<tables, process, inbox, announced, calls, starts>>

\* Faulty: a row that was refused is broadcast too.
InsertAnnounced(t) ==
    LET s == StoreOf(task[t].kind) IN
    /\ task[t].pc = "inserting"
    /\ IF column[s] = task[t].dim
       THEN rows' = [rows EXCEPT ![s] = Append(@,
                        IF s = "private" THEN Private(Owner[t], task[t].dim)
                        ELSE [agent |-> Owner[t], vec |-> VectorOf(t)])]
       ELSE UNCHANGED rows
    /\ IF task[t].kind = "share" THEN Goes(t, "broadcasting") ELSE Returns(t)
    /\ UNCHANGED <<aged, column, process, inbox, announced, calls, starts>>

\* INSERT, into either store; PostgreSQL refuses another dimension.
Insert(t) ==
    LET s == StoreOf(task[t].kind) IN
    /\ task[t].pc = "inserting"
    /\ IF column[s] = task[t].dim
       THEN /\ rows' = [rows EXCEPT ![s] = Append(@,
                            IF s = "private" THEN Private(Owner[t], task[t].dim)
                            ELSE [agent |-> Owner[t], vec |-> VectorOf(t)])]
            /\ IF task[t].kind = "share" THEN Goes(t, "broadcasting") ELSE Returns(t)
       ELSE Returns(t) /\ UNCHANGED rows
    /\ UNCHANGED <<aged, column, process, inbox, announced, calls, starts>>

\* The broadcast of the insight, whose failure is ignored.
Announce(t) ==
    /\ task[t].pc = "broadcasting"
    /\ \/ /\ inbox' = [a \in Agent |-> inbox[a] \cup {VectorOf(t)}]
          /\ announced' = announced \cup {VectorOf(t)}
       \/ UNCHANGED <<inbox, announced>>
    /\ Returns(t)
    /\ UNCHANGED <<tables, process, calls, starts>>

----------------------------------------------------------------------------
\* Private memory.

\* The agents connect as the owner of the table, whom row level security does not
\* bind (docker-compose.yaml.example, init-db.sql), and the statements below
\* name no agent: they read and delete the rows of all.

\* The k oldest rows go.
DropOldest(k) ==
    /\ rows' = [rows EXCEPT !["private"] = SubSeq(@, k + 1, Len(@))]
    /\ aged' = [aged EXCEPT !["private"] = IF @ > k THEN @ - k ELSE 0]

\* memory_review, after compact_history (Conversation).
Review(t) ==
    /\ task[t] = Idle /\ calls < MaxCalls
    /\ "private" \in up[Owner[t]]
    /\ calls' = calls + 1
    /\ task' = [task EXCEPT ![t] = [Idle EXCEPT !.pc = "aging", !.kind = "review"]]
    /\ UNCHANGED <<tables, process, inbox, announced, starts>>

\* prune_by_age
PruneByAge(t) ==
    /\ task[t].pc = "aging"
    /\ DropOldest(aged["private"])
    /\ Goes(t, "sizing")
    /\ UNCHANGED <<column, process, inbox, announced, calls, starts>>

\* The SELECT COUNT of prune_to_max.
Size(t) ==
    /\ task[t].pc = "sizing"
    /\ IF Len(rows["private"]) > MaxPrivate THEN Goes(t, "trimming") ELSE Returns(t)
    /\ UNCHANGED <<tables, process, inbox, announced, calls, starts>>

\* Faulty: one row too many.
SurplusAndOne == Len(rows["private"]) - MaxPrivate + 1

\* How many rows there are too many, or none.
Surplus ==
    IF Len(rows["private"]) > MaxPrivate THEN Len(rows["private"]) - MaxPrivate ELSE 0

\* The DELETE of prune_to_max, which counts again.
Trim(t) ==
    /\ task[t].pc = "trimming"
    /\ DropOldest(Surplus)
    /\ Returns(t)
    /\ UNCHANGED <<column, process, inbox, announced, calls, starts>>

----------------------------------------------------------------------------

\* A statement raises: the database is away.
DatabaseFails(t) ==
    /\ task[t].pc \in {"counting", "comparing", "inserting", "searching",
                       "aging", "sizing", "trimming"}
    /\ Returns(t)
    /\ UNCHANGED <<tables, process, inbox, announced, calls, starts>>

\* What a coroutine does once it has begun.
Step(t) ==
    \/ Retry(t) \/ GiveUp(t) \/ Answer(t) \/ Search(t)
    \/ Count(t) \/ Compare(t) \/ Insert(t) \/ Announce(t)
    \/ PruneByAge(t) \/ Size(t) \/ Trim(t)
    \/ DatabaseFails(t)

Next ==
    \/ \E t \in Task :
           \/ Step(t)
           \/ \E kind \in {"share", "save", "query"}, x \in Text : Ask(t, kind, x)
           \/ \E v \in inbox[Owner[t]] : Insight(t, v)
           \/ Review(t)
    \/ \E a \in Agent : Start(a)
    \/ \E s \in Store : Age(s)

Spec == Init /\ [][Next]_vars

----------------------------------------------------------------------------

TypeOK ==
    /\ rows \in [Store -> Seq(Row)]
    /\ aged \in [Store -> Nat] /\ \A s \in Store : aged[s] <= Len(rows[s])
    /\ column \in [Store -> Dim]
    /\ dim \in [Agent -> Dim] /\ up \in [Agent -> SUBSET Store]
    /\ cache \in [Agent -> [Text -> Dim \cup {None}]]
    /\ task \in [Task -> State]
    /\ inbox \in [Agent -> SUBSET Vector] /\ announced \subseteq Vector
    /\ calls \in 0..MaxCalls /\ starts \in 0..MaxStarts

\* Coroutines of a that were told there is room and have not inserted yet.
Admitted(a) ==
    {t \in Tasks(a) : task[t].pc \in {"comparing", "inserting"} /\ task[t].kind # "save"}

\* Council rows of one agent and one hour exceed the limit by at most the number
\* of its coroutines less one: not at all if only one coroutine writes, although
\* each counts first and inserts two statements later.
HourlyLimit ==
    \A a \in Agent : Tasks(a) # {} =>
        Cardinality(Recent(a)) + Cardinality(Admitted(a))
            <= Limit - 1 + Cardinality(Tasks(a))

\* Coroutines of a that found no row like v and are about to insert it.
Unrivalled(a, v) ==
    {t \in Tasks(a) : /\ task[t].pc = "inserting" /\ task[t].kind # "save"
                      /\ VectorOf(t) = v}

\* An insight is stored under one agent and in one hour at most as often as it
\* has coroutines: once if only one writes, even if it also receives its own
\* broadcast, or the whole stream again after a restart.
FewCopies ==
    \A a \in Agent, v \in Vector :
        Cardinality(Copies(a, v)) + Cardinality(Unrivalled(a, v))
            <= Cardinality(Tasks(a))

\* Every vector in a cache, in a table or on its way to one has the dimension
\* of the process or of the column it is in, whatever dimensions the embedding
\* server answered with and the processes were started with.
VectorsFit ==
    /\ \A a \in Agent, x \in Text : cache[a][x] \in {None, dim[a]}
    /\ \A s \in Store : \A i \in DOMAIN rows[s] : rows[s][i].vec.dim = column[s]
    /\ \A t \in Task : task[t].dim \in {None, dim[Owner[t]]}

\* Whatever was broadcast as an insight is in council memory for good.
AnnouncedIsStored ==
    \A v \in announced : \E i \in DOMAIN rows["council"] : rows["council"][i].vec = v

\* How many private rows are within the retention: the newest.
Young == Len(rows["private"]) - aged["private"]

\* Pruning takes rows within the retention only while memory_max_entries of the
\* table, the newest, stay: reviews that overlap each other or a save, between
\* the count and the deletion, never remove more.
NewestKept ==
    [][rows'["private"] # rows["private"] => Young' >= Young \/ Young' >= MaxPrivate]_vars
=============================================================================

--------------------------- MODULE MemoriesProofs ---------------------------
(***************************************************************************)
(* Proofs about Memories, for any agents, coroutines, limits and           *)
(* dimensions: how far the limits that are counted in one statement and    *)
(* enforced in another can be exceeded, that vectors fit, that what was    *)
(* broadcast is stored, and that pruning keeps the newest rows.            *)
(***************************************************************************)
EXTENDS Memories, FiniteSetTheorems, SequenceTheorems, TLAPS

\* A coroutine that asks for a vector has a text, one that writes has a vector.
Equipped(x) ==
    /\ x.pc = "requesting" => x.text \in Text
    /\ x.pc \in {"counting", "comparing", "inserting", "broadcasting"} =>
           x.text \in Text /\ x.dim \in Dim

AllEquipped == \A t \in Task : Equipped(task[t])

\* What is about to be broadcast is in council memory.
Stored(v) == \E i \in DOMAIN rows["council"] : rows["council"][i].vec = v
BroadcastIsStored ==
    \A t \in Task : task[t].pc = "broadcasting" => Stored(VectorOf(t))

\* The inductive invariant.
Inv ==
    /\ TypeOK
    /\ AllEquipped
    /\ HourlyLimit
    /\ FewCopies
    /\ VectorsFit
    /\ AnnouncedIsStored
    /\ BroadcastIsStored

USE MemoriesAssumption

----------------------------------------------------------------------------
\* What is counted is finite.

LEMMA TasksFinite ==
    ASSUME NEW a \in Agent, NEW S \in SUBSET Tasks(a)
    PROVE  /\ IsFiniteSet(S) /\ Cardinality(S) \in Nat
           /\ IsFiniteSet(Tasks(a)) /\ Cardinality(Tasks(a)) \in Nat
           /\ Cardinality(S) <= Cardinality(Tasks(a))
<1>1. Tasks(a) \in SUBSET Task
    BY DEF Tasks
<1>2. IsFiniteSet(Tasks(a))
    BY <1>1, FS_Subset
<1> QED
    BY <1>2, FS_Subset, FS_CardinalityType

LEMMA IntervalFinite ==
    ASSUME NEW n \in Int
    PROVE  IsFiniteSet(1..n)
BY FS_Interval

LEMMA RowsFinite ==
    ASSUME TypeOK, NEW s \in Store, NEW S \in SUBSET DOMAIN rows[s]
    PROVE  IsFiniteSet(S) /\ Cardinality(S) \in Nat
<1>1. DOMAIN rows[s] = 1..Len(rows[s]) /\ Len(rows[s]) \in Int
    BY DEF TypeOK
<1>2. IsFiniteSet(1..Len(rows[s]))
    BY <1>1, IntervalFinite
<1> QED
    BY <1>1, <1>2, FS_Subset, FS_CardinalityType

\* The sets that the limits count.
LEMMA CountsType ==
    ASSUME TypeOK, NEW a \in Agent, NEW v
    PROVE  /\ IsFiniteSet(Recent(a)) /\ Cardinality(Recent(a)) \in Nat
           /\ IsFiniteSet(Copies(a, v)) /\ Cardinality(Copies(a, v)) \in Nat
           /\ IsFiniteSet(Admitted(a)) /\ Cardinality(Admitted(a)) \in Nat
           /\ IsFiniteSet(Unrivalled(a, v)) /\ Cardinality(Unrivalled(a, v)) \in Nat
           /\ Cardinality(Tasks(a)) \in Nat
<1>1. Recent(a) \in SUBSET DOMAIN rows["council"] /\ Copies(a, v) \in SUBSET DOMAIN rows["council"]
    BY DEF Recent, Copies, Own
<1>2. Admitted(a) \in SUBSET Tasks(a) /\ Unrivalled(a, v) \in SUBSET Tasks(a)
    BY DEF Admitted, Unrivalled
<1>3. "council" \in Store
    BY DEF Store
<1> QED
    BY <1>1, <1>2, <1>3, RowsFinite, TasksFinite

----------------------------------------------------------------------------
\* What a step of one coroutine does to the others: nothing.

LEMMA Replaced ==
    ASSUME TypeOK, NEW t \in Task, NEW x \in State, task' = [task EXCEPT ![t] = x]
    PROVE  /\ task' \in [Task -> State]
           /\ task'[t] = x /\ \A u \in Task \ {t} : task'[u] = task[u]
  BY DEF TypeOK

LEMMA IdleState == Idle \in State /\ Equipped(Idle)
  BY DEF State, Idle, Pc, Equipped

LEMMA ReturnsEffect ==
    ASSUME TypeOK, NEW t \in Task, Returns(t)
    PROVE  /\ task' \in [Task -> State]
           /\ task'[t] = Idle /\ \A u \in Task \ {t} : task'[u] = task[u]
  BY IdleState, Replaced DEF Returns

LEMMA GoesEffect ==
    ASSUME TypeOK, NEW t \in Task, NEW pc \in Pc, Goes(t, pc)
    PROVE  /\ task' \in [Task -> State]
           /\ task'[t] = [task[t] EXCEPT !.pc = pc]
           /\ task'[t].pc = pc /\ task'[t].kind = task[t].kind
           /\ task'[t].text = task[t].text /\ task'[t].dim = task[t].dim
           /\ \A u \in Task \ {t} : task'[u] = task[u]
<1> DEFINE x == [task[t] EXCEPT !.pc = pc]
<1>1. task[t] \in State
    BY DEF TypeOK
<1>2. /\ x \in State /\ x.pc = pc /\ x.kind = task[t].kind
      /\ x.text = task[t].text /\ x.dim = task[t].dim
    BY <1>1 DEF State
<1>3. task' = [task EXCEPT ![t] = x]
    BY DEF Goes, TypeOK
<1> HIDE DEF x
<1>4. /\ task' \in [Task -> State]
      /\ task'[t] = x /\ \A u \in Task \ {t} : task'[u] = task[u]
    BY <1>2, <1>3, Replaced
<1> QED
    BY <1>2, <1>4 DEF x

\* What the two limits count of a coroutine.
Admitting(x) == x.pc \in {"comparing", "inserting"} /\ x.kind # "save"
Rivalling(x) == x.pc = "inserting" /\ x.kind # "save"

\* A step that writes nothing to council memory.
Still == rows'["council"] = rows["council"] /\ aged'["council"] >= aged["council"]

\* A step that adds nothing to what the limits count, and nothing to announce.
NoneAdmitted == \A u \in Task : Admitting(task'[u]) => Admitting(task[u])
NoneRivals == \A u \in Task : Rivalling(task'[u]) => task'[u] = task[u]
NoneBroadcasts == \A u \in Task : task'[u].pc = "broadcasting" => task'[u] = task[u]

Calm == Still /\ NoneAdmitted /\ NoneRivals /\ NoneBroadcasts /\ UNCHANGED announced

LEMMA StillRecent ==
    ASSUME TypeOK, TypeOK', Still, NEW a \in Agent, NEW v
    PROVE  /\ Recent(a)' \subseteq Recent(a) /\ Copies(a, v)' \subseteq Copies(a, v)
           /\ Cardinality(Recent(a)') <= Cardinality(Recent(a)) /\ Cardinality(Recent(a)') \in Nat
           /\ Cardinality(Copies(a, v)') <= Cardinality(Copies(a, v))
           /\ Cardinality(Copies(a, v)') \in Nat
<1>1. Own(a)' = Own(a)
    BY DEF Own, Still
<1>2. aged["council"] \in Int /\ aged'["council"] \in Int
    BY DEF TypeOK, Store
<1>3. \A i \in Own(a) : i \in Int
    BY DEF Own, TypeOK, Store
<1>4. Recent(a)' \subseteq Recent(a)
    BY <1>1, <1>2, <1>3 DEF Recent, Still
<1>5. Copies(a, v)' \subseteq Copies(a, v)
    BY <1>4 DEF Copies, Still
<1> QED
    BY <1>4, <1>5, CountsType, FS_Subset, FS_CardinalityType

\* The hourly limit is kept by whatever admits no coroutine, ...
LEMMA HourlyKept ==
    ASSUME Inv, TypeOK', Still, NoneAdmitted
    PROVE  HourlyLimit'
<1> USE DEF Inv
<1>1. ASSUME NEW a \in Agent, Tasks(a) # {}
      PROVE  Cardinality(Recent(a)') + Cardinality(Admitted(a)')
                 <= Limit - 1 + Cardinality(Tasks(a))
    <2>1. Admitted(a)' \subseteq Admitted(a)
        BY DEF Admitted, Admitting, Tasks, NoneAdmitted
    <2>2. /\ Cardinality(Recent(a)') <= Cardinality(Recent(a)) /\ Cardinality(Recent(a)') \in Nat
          /\ Cardinality(Admitted(a)') <= Cardinality(Admitted(a)) /\ Cardinality(Admitted(a)') \in Nat
        BY <2>1, StillRecent, CountsType, FS_Subset, FS_CardinalityType
    <2>3. Cardinality(Recent(a)) + Cardinality(Admitted(a)) <= Limit - 1 + Cardinality(Tasks(a))
        BY <1>1 DEF HourlyLimit
    <2>4. /\ Cardinality(Recent(a)) \in Nat /\ Cardinality(Admitted(a)) \in Nat
          /\ Cardinality(Tasks(a)) \in Nat /\ Limit \in Nat
        BY CountsType
    <2> QED
        BY <2>2, <2>3, <2>4
<1>2. \A a \in Agent : Tasks(a)' = Tasks(a)
    BY DEF Tasks
<1> QED
    BY <1>1, <1>2 DEF HourlyLimit

\* ... the bound on copies by whatever lets none insert, ...
LEMMA CopiesKept ==
    ASSUME Inv, TypeOK', Still, NoneRivals
    PROVE  FewCopies'
<1> USE DEF Inv
<1>1. ASSUME NEW a \in Agent, NEW v \in Vector
      PROVE  Cardinality(Copies(a, v)') + Cardinality(Unrivalled(a, v)') <= Cardinality(Tasks(a))
    <2>1. Unrivalled(a, v)' \subseteq Unrivalled(a, v)
        BY DEF Unrivalled, Rivalling, Tasks, VectorOf, NoneRivals
    <2>2. /\ Cardinality(Copies(a, v)') <= Cardinality(Copies(a, v)) /\ Cardinality(Copies(a, v)') \in Nat
          /\ Cardinality(Unrivalled(a, v)') <= Cardinality(Unrivalled(a, v))
          /\ Cardinality(Unrivalled(a, v)') \in Nat
        BY <2>1, StillRecent, CountsType, FS_Subset, FS_CardinalityType
    <2>3. Cardinality(Copies(a, v)) + Cardinality(Unrivalled(a, v)) <= Cardinality(Tasks(a))
        BY DEF FewCopies
    <2>4. /\ Cardinality(Copies(a, v)) \in Nat /\ Cardinality(Unrivalled(a, v)) \in Nat
          /\ Cardinality(Tasks(a)) \in Nat
        BY CountsType
    <2> QED
        BY <2>2, <2>3, <2>4
<1>2. \A a \in Agent : Tasks(a)' = Tasks(a)
    BY DEF Tasks
<1> QED
    BY <1>1, <1>2 DEF FewCopies

\* ... and what was announced stays stored, as long as nobody announces more.
LEMMA StoredKept ==
    ASSUME Inv, Still, NoneBroadcasts
    PROVE  /\ UNCHANGED announced => AnnouncedIsStored'
           /\ BroadcastIsStored'
<1> USE DEF Inv
<1>1. \A v : Stored(v)' = Stored(v)
    BY DEF Stored, Still
<1>2. UNCHANGED announced => AnnouncedIsStored'
    BY <1>1 DEF AnnouncedIsStored, Stored
<1>3. \A u \in Task : task'[u].pc = "broadcasting" => VectorOf(u)' = VectorOf(u)
    BY DEF NoneBroadcasts, VectorOf
<1> QED
    BY <1>1, <1>2, <1>3 DEF BroadcastIsStored, NoneBroadcasts

\* A calm step has only to keep the rest of the invariant.
LEMMA CalmKeepsInv ==
    ASSUME Inv, Calm, TypeOK', AllEquipped', VectorsFit'
    PROVE  Inv'
  BY HourlyKept, CopiesKept, StoredKept DEF Calm, Inv

----------------------------------------------------------------------------
\* Coroutines that end, fail, retry and search.

LEMMA ReturnKeepsInv ==
    ASSUME Inv, NEW t \in Task, Returns(t),
           UNCHANGED <<tables, process, inbox, announced, calls, starts>>
    PROVE  Inv'
<1> USE DEF Inv, tables, process
<1>1. /\ task' \in [Task -> State]
      /\ task'[t] = Idle /\ \A u \in Task \ {t} : task'[u] = task[u]
    BY ReturnsEffect
<1>2. Idle.pc = "idle" /\ Idle.dim = None
    BY DEF Idle
<1>3. TypeOK'
    BY <1>1 DEF TypeOK
<1>4. AllEquipped'
    BY <1>1, IdleState DEF AllEquipped
<1>5. VectorsFit'
    BY <1>1, <1>2 DEF VectorsFit
<1>6. aged["council"] \in Int
    BY DEF TypeOK, Store
<1>7. Calm
    BY <1>1, <1>2, <1>6 DEF Calm, Still, NoneAdmitted, NoneRivals, NoneBroadcasts, Admitting, Rivalling
<1> QED
    BY <1>3, <1>4, <1>5, <1>7, CalmKeepsInv

\* The server fails, and there are attempts left.
LEMMA RetryKeepsInv ==
    ASSUME Inv, NEW t \in Task, Retry(t)
    PROVE  Inv'
<1> USE DEF Inv, tables, process
<1> DEFINE x == [task[t] EXCEPT !.attempt = task[t].attempt + 1]
<1>1. /\ task[t].pc = "requesting" /\ task[t].attempt < MaxRetries
      /\ task' = [task EXCEPT ![t] = x]
      /\ UNCHANGED <<tables, process, inbox, announced, calls, starts>>
    BY DEF Retry, TypeOK
<1>2. task[t] \in State /\ task[t].attempt + 1 \in 0..MaxRetries
    BY <1>1 DEF TypeOK, State
<1>3. /\ x \in State /\ x.pc = "requesting" /\ x.text = task[t].text
      /\ x.dim = task[t].dim
    BY <1>1, <1>2 DEF State
<1> HIDE DEF x
<1>4. /\ task' \in [Task -> State]
      /\ task'[t] = x /\ \A u \in Task \ {t} : task'[u] = task[u]
    BY <1>1, <1>3, Replaced
<1>5. TypeOK'
    BY <1>1, <1>4 DEF TypeOK
<1>6. AllEquipped'
    BY <1>1, <1>3, <1>4 DEF AllEquipped, Equipped
<1>7. VectorsFit'
    BY <1>1, <1>3, <1>4 DEF VectorsFit
<1>8. aged["council"] \in Int
    BY DEF TypeOK, Store
<1>9. Calm
    BY <1>1, <1>3, <1>4, <1>8 DEF Calm, Still, NoneAdmitted, NoneRivals, NoneBroadcasts, Admitting, Rivalling
<1> QED
    BY <1>5, <1>6, <1>7, <1>9, CalmKeepsInv

\* What a caller goes on with, once it has its vector: nothing that the limits
\* count.
LEMMA AfterCalm ==
    ASSUME NEW kind \in Kind
    PROVE  /\ After(kind) \in Pc /\ After(kind) # "broadcasting" /\ After(kind) # "comparing"
           /\ After(kind) = "inserting" => kind = "save"
           /\ After(kind) # "requesting"
  BY DEF After, Pc, Kind

\* A tool is called, and the cache may know the vector.
LEMMA AskKeepsInv ==
    ASSUME Inv, NEW t \in Task, NEW kind \in {"share", "save", "query"}, NEW x \in Text,
           Ask(t, kind, x)
    PROVE  Inv'
<1> USE DEF Inv, tables, process
<1> DEFINE a == Owner[t]
<1> PICK known \in {cache[a][x], None} :
        /\ cache' = [cache EXCEPT ![a][x] = known]
        /\ task' = [task EXCEPT ![t] =
               IF known = None
               THEN [pc |-> "requesting", kind |-> kind, text |-> x, dim |-> None,
                     attempt |-> 1]
               ELSE IF Fits(a, known)
               THEN [pc |-> After(kind), kind |-> kind, text |-> x,
                     dim |-> known, attempt |-> 0]
               ELSE Idle]
    BY DEF Ask
<1> DEFINE y == IF known = None
                THEN [pc |-> "requesting", kind |-> kind, text |-> x, dim |-> None,
                      attempt |-> 1]
                ELSE IF Fits(a, known)
                THEN [pc |-> After(kind), kind |-> kind, text |-> x,
                      dim |-> known, attempt |-> 0]
                ELSE Idle
<1>1. /\ task' = [task EXCEPT ![t] = y]
      /\ task[t] = Idle /\ calls < MaxCalls /\ calls' = calls + 1
      /\ UNCHANGED <<tables, dim, up, inbox, announced, starts>>
    BY DEF Ask
<1>2. a \in Agent /\ kind \in Kind
    BY DEF Kind
<1>3. known \in Dim \cup {None} /\ known \in {None, dim[a]}
    BY <1>2 DEF TypeOK, VectorsFit
<1>4. /\ y \in State /\ Equipped(y) /\ y.dim \in {None, dim[a]}
      /\ ~ Admitting(y) /\ ~ Rivalling(y) /\ y.pc # "broadcasting"
    <2>1. CASE known = None
        <3>1. y = [pc |-> "requesting", kind |-> kind, text |-> x, dim |-> None, attempt |-> 1]
            BY <2>1
        <3>2. y \in State
            BY <3>1, <1>2 DEF State, Pc
        <3> QED
            BY <3>1, <3>2 DEF Equipped, Admitting, Rivalling
    <2>2. CASE known # None /\ Fits(a, known)
        <3>1. y = [pc |-> After(kind), kind |-> kind, text |-> x, dim |-> known, attempt |-> 0]
            BY <2>2
        <3>2. y \in State
            BY <3>1, <1>2, <1>3, AfterCalm DEF State
        <3> QED
            BY <2>2, <3>1, <3>2, <1>2, <1>3, AfterCalm DEF Equipped, Admitting, Rivalling
    <2>3. CASE known # None /\ ~ Fits(a, known)
        <3>1. y = Idle
            BY <2>3
        <3> QED
            BY <3>1, IdleState DEF Idle, Admitting, Rivalling
    <2> QED
        BY <2>1, <2>2, <2>3
<1> HIDE DEF y
<1>5. /\ task' \in [Task -> State]
      /\ task'[t] = y /\ \A u \in Task \ {t} : task'[u] = task[u]
    BY <1>1, <1>4, Replaced
<1>6. /\ cache' \in [Agent -> [Text -> Dim \cup {None}]]
      /\ \A b \in Agent, z \in Text : cache'[b][z] \in {cache[b][z], known}
      /\ \A b \in Agent \ {a}, z \in Text : cache'[b][z] = cache[b][z]
    BY <1>2, <1>3 DEF TypeOK
<1>7. calls' \in 0..MaxCalls
    BY <1>1 DEF TypeOK
<1>8. TypeOK'
    BY <1>1, <1>5, <1>6, <1>7 DEF TypeOK
<1>9. AllEquipped'
    BY <1>4, <1>5 DEF AllEquipped
<1>10. VectorsFit'
    <2>1. \A b \in Agent, z \in Text : cache'[b][z] \in {None, dim[b]}
        BY <1>3, <1>6 DEF VectorsFit
    <2>2. \A u \in Task : task'[u].dim \in {None, dim[Owner[u]]}
        BY <1>4, <1>5 DEF VectorsFit
    <2> QED
        BY <2>1, <2>2, <1>1 DEF VectorsFit
<1>11. aged["council"] \in Int
    BY DEF TypeOK, Store
<1>12. Calm
    BY <1>1, <1>4, <1>5, <1>11 DEF Calm, Still, NoneAdmitted, NoneRivals, NoneBroadcasts, Admitting, Rivalling
<1> QED
    BY <1>8, <1>9, <1>10, <1>12, CalmKeepsInv

\* A coroutine that begins to do something.
LEMMA FromIdle ==
    ASSUME NEW pc \in Pc, NEW kind \in Kind
    PROVE  LET y == [Idle EXCEPT !.pc = pc, !.kind = kind]
           IN  /\ y \in State /\ y.pc = pc /\ y.kind = kind
               /\ y.text = None /\ y.dim = None
<1> DEFINE y1 == [Idle EXCEPT !.pc = pc]
<1>1. y1 \in State /\ y1.pc = pc /\ y1.text = None /\ y1.dim = None
    <2>1. Idle \in State /\ Idle.text = None /\ Idle.dim = None
        BY IdleState DEF Idle
    <2> HIDE DEF Idle
    <2> QED
        BY <2>1 DEF State
<1>2. [Idle EXCEPT !.pc = pc, !.kind = kind] = [y1 EXCEPT !.kind = kind]
    OBVIOUS
<1> HIDE DEF y1
<1> QED
    BY <1>1, <1>2 DEF State

\* The embedding server answers; a vector that does not fit is not kept.
LEMMA AnswerKeepsInv ==
    ASSUME Inv, NEW t \in Task, Answer(t)
    PROVE  Inv'
<1> USE DEF Inv, tables, process
<1> DEFINE a == Owner[t]
           x == task[t].text
<1> PICK d \in Dim :
        IF Fits(a, d)
        THEN /\ cache' = [cache EXCEPT ![a][x] = d]
             /\ task' = [task EXCEPT ![t] = [@ EXCEPT !.pc = After(task[t].kind),
                                             !.dim = d, !.attempt = 0]]
        ELSE Returns(t) /\ UNCHANGED cache
    BY DEF Answer
<1>1. task[t].pc = "requesting" /\ UNCHANGED <<tables, dim, up, inbox, announced, calls, starts>>
    BY DEF Answer
<1>2. CASE ~ Fits(a, d)
    BY <1>1, <1>2, ReturnKeepsInv
<1>3. CASE Fits(a, d)
    <2> DEFINE y == [task[t] EXCEPT !.pc = After(task[t].kind), !.dim = d, !.attempt = 0]
    <2>1. a \in Agent /\ task[t] \in State /\ x \in Text /\ d = dim[a]
        BY <1>1, <1>3 DEF TypeOK, AllEquipped, Equipped, Fits
    <2>2. /\ After(task[t].kind) \in Pc /\ After(task[t].kind) # "broadcasting"
          /\ After(task[t].kind) # "comparing" /\ After(task[t].kind) # "requesting"
          /\ After(task[t].kind) = "inserting" => task[t].kind = "save"
        BY <2>1, AfterCalm DEF State, After, Pc
    <2>3. /\ y.pc = After(task[t].kind) /\ y.kind = task[t].kind /\ y.text = x /\ y.dim = d
          /\ y \in State
        <3> DEFINE y1 == [task[t] EXCEPT !.pc = After(task[t].kind)]
                   y2 == [y1 EXCEPT !.dim = d]
        <3>1. /\ y1 \in State /\ y1.pc = After(task[t].kind) /\ y1.kind = task[t].kind
              /\ y1.text = x
            BY <2>1, <2>2 DEF State
        <3>2. y = [y2 EXCEPT !.attempt = 0]
            OBVIOUS
        <3> HIDE DEF y1
        <3>3. /\ y2 \in State /\ y2.pc = After(task[t].kind) /\ y2.kind = task[t].kind
              /\ y2.text = x /\ y2.dim = d
            BY <3>1 DEF State
        <3> HIDE DEF y, y2
        <3> QED
            BY <3>2, <3>3 DEF State
    <2>4. task' = [task EXCEPT ![t] = y] /\ cache' = [cache EXCEPT ![a][x] = d]
        BY <1>3 DEF TypeOK
    <2> HIDE DEF y
    <2>5. Equipped(y) /\ ~ Admitting(y) /\ ~ Rivalling(y) /\ y.pc # "broadcasting"
        BY <2>1, <2>2, <2>3 DEF Equipped, Admitting, Rivalling
    <2>6. /\ task' \in [Task -> State]
          /\ task'[t] = y /\ \A u \in Task \ {t} : task'[u] = task[u]
        BY <2>3, <2>4, Replaced
    <2>7. /\ cache' \in [Agent -> [Text -> Dim \cup {None}]]
          /\ \A b \in Agent, z \in Text : cache'[b][z] \in {cache[b][z], d}
          /\ \A b \in Agent \ {a}, z \in Text : cache'[b][z] = cache[b][z]
        BY <2>1, <2>4 DEF TypeOK
    <2>8. TypeOK'
        BY <1>1, <2>6, <2>7 DEF TypeOK
    <2>9. AllEquipped'
        BY <2>5, <2>6 DEF AllEquipped
    <2>10. VectorsFit'
        <3>1. \A b \in Agent, z \in Text : cache'[b][z] \in {None, dim[b]}
            BY <2>1, <2>7 DEF VectorsFit
        <3>2. \A u \in Task : task'[u].dim \in {None, dim[Owner[u]]}
            BY <2>1, <2>3, <2>6 DEF VectorsFit
        <3> QED
            BY <3>1, <3>2, <1>1 DEF VectorsFit
    <2>11. aged["council"] \in Int
        BY DEF TypeOK, Store
    <2>12. Calm
        BY <1>1, <2>5, <2>6, <2>11 DEF Calm, Still, NoneAdmitted, NoneRivals, NoneBroadcasts, Admitting, Rivalling
    <2> QED
        BY <2>8, <2>9, <2>10, <2>12, CalmKeepsInv
<1> QED
    BY <1>2, <1>3

\* A coroutine that becomes y, which is neither counted nor about to broadcast.
LEMMA TurnKeepsInv ==
    ASSUME Inv, NEW t \in Task, NEW y \in State, task' = [task EXCEPT ![t] = y],
           Equipped(y), ~ Admitting(y), y.pc # "broadcasting",
           y.dim \in {None, dim[Owner[t]]},
           inbox' \in [Agent -> SUBSET Vector], calls' \in 0..MaxCalls,
           UNCHANGED <<tables, process, announced, starts>>
    PROVE  Inv'
<1> USE DEF Inv, tables, process
<1>1. /\ task' \in [Task -> State]
      /\ task'[t] = y /\ \A u \in Task \ {t} : task'[u] = task[u]
    BY Replaced
<1>2. TypeOK'
    BY <1>1 DEF TypeOK
<1>3. AllEquipped'
    BY <1>1 DEF AllEquipped
<1>4. VectorsFit'
    BY <1>1 DEF VectorsFit
<1>5. aged["council"] \in Int
    BY DEF TypeOK, Store
<1>6. Calm
    BY <1>1, <1>5 DEF Calm, Still, NoneAdmitted, NoneRivals, NoneBroadcasts, Admitting, Rivalling
<1> QED
    BY <1>2, <1>3, <1>4, <1>6, CalmKeepsInv

\* A broadcast insight is received, and written if it fits.
LEMMA InsightKeepsInv ==
    ASSUME Inv, NEW t \in Task, NEW v \in inbox[Owner[t]], Insight(t, v)
    PROVE  Inv'
<1> USE DEF Inv
<1> DEFINE a == Owner[t]
           y == [Idle EXCEPT !.pc = "counting", !.kind = "insight",
                             !.text = v.text, !.dim = v.dim]
<1>1. /\ task[t] = Idle
      /\ inbox' = [inbox EXCEPT ![a] = inbox[a] \ {v}]
      /\ UNCHANGED <<tables, process, announced, calls, starts>>
      /\ \/ Fits(a, v.dim) /\ task' = [task EXCEPT ![t] = y]
         \/ UNCHANGED task
    BY DEF Insight
<1>2. a \in Agent /\ v \in Vector /\ v.text \in Text /\ v.dim \in Dim
    BY DEF TypeOK, Vector
<1>3. inbox' \in [Agent -> SUBSET Vector] /\ calls' \in 0..MaxCalls
    BY <1>1, <1>2 DEF TypeOK
<1>4. y \in State /\ y.pc = "counting" /\ y.text = v.text /\ y.dim = v.dim
    <2> DEFINE y2 == [Idle EXCEPT !.pc = "counting", !.kind = "insight"]
               y3 == [y2 EXCEPT !.text = v.text]
    <2>1. y2 \in State /\ y2.pc = "counting"
        BY FromIdle DEF Pc, Kind
    <2>2. y = [y3 EXCEPT !.dim = v.dim]
        OBVIOUS
    <2> HIDE DEF y2
    <2>3. y3 \in State /\ y3.pc = "counting" /\ y3.text = v.text
        BY <1>2, <2>1 DEF State
    <2> HIDE DEF y3
    <2> QED
        BY <1>2, <2>2, <2>3 DEF State
<1> HIDE DEF y
<1>5. /\ y \in State /\ Equipped(y) /\ ~ Admitting(y) /\ y.pc # "broadcasting" /\ y.dim = v.dim
    BY <1>2, <1>4 DEF Equipped, Admitting
<1>6. CASE Fits(a, v.dim) /\ task' = [task EXCEPT ![t] = y]
    BY <1>1, <1>3, <1>5, <1>6, TurnKeepsInv DEF Fits
<1>7. CASE UNCHANGED task
    <2>1. task' = [task EXCEPT ![t] = Idle]
        BY <1>1, <1>7 DEF TypeOK
    <2>2. Idle.pc = "idle" /\ Idle.dim = None
        BY DEF Idle
    <2> QED
        BY <1>1, <1>3, <2>1, <2>2, IdleState, TurnKeepsInv DEF Admitting
<1> QED
    BY <1>1, <1>6, <1>7

\* A review begins, and goes from one pruning to the next.
LEMMA ReviewKeepsInv ==
    ASSUME Inv, NEW t \in Task, Review(t)
    PROVE  Inv'
<1> USE DEF Inv
<1> DEFINE y == [Idle EXCEPT !.pc = "aging", !.kind = "review"]
<1>1. /\ task' = [task EXCEPT ![t] = y] /\ calls < MaxCalls /\ calls' = calls + 1
      /\ UNCHANGED <<tables, process, inbox, announced, starts>>
    BY DEF Review
<1>2. y \in State /\ y.pc = "aging" /\ y.dim = None
    BY FromIdle DEF Pc, Kind
<1> HIDE DEF y
<1>3. Equipped(y) /\ ~ Admitting(y) /\ y.pc # "broadcasting"
    BY <1>2 DEF Equipped, Admitting
<1>4. inbox' \in [Agent -> SUBSET Vector] /\ calls' \in 0..MaxCalls
    BY <1>1 DEF TypeOK
<1> QED
    BY <1>1, <1>2, <1>3, <1>4, TurnKeepsInv

\* A coroutine goes on to a statement that nothing counts.
LEMMA GoesKeepsInv ==
    ASSUME Inv, NEW t \in Task, NEW pc \in {"sizing", "trimming"}, Goes(t, pc),
           UNCHANGED <<tables, process, inbox, announced, calls, starts>>
    PROVE  Inv'
<1> USE DEF Inv
<1> DEFINE y == [task[t] EXCEPT !.pc = pc]
<1>1. task[t] \in State
    BY DEF TypeOK
<1>2. y \in State /\ y.pc = pc /\ y.dim = task[t].dim
    BY <1>1 DEF State, Pc
<1>3. task' = [task EXCEPT ![t] = y]
    BY DEF Goes, TypeOK
<1> HIDE DEF y
<1>4. Equipped(y) /\ ~ Admitting(y) /\ y.pc # "broadcasting"
    BY <1>2 DEF Equipped, Admitting
<1>5. y.dim \in {None, dim[Owner[t]]}
    BY <1>2 DEF VectorsFit
<1>6. inbox' \in [Agent -> SUBSET Vector] /\ calls' \in 0..MaxCalls
    BY DEF TypeOK
<1> QED
    BY <1>2, <1>3, <1>4, <1>5, <1>6, TurnKeepsInv

LEMMA SizeKeepsInv ==
    ASSUME Inv, NEW t \in Task, Size(t)
    PROVE  Inv'
  BY GoesKeepsInv, ReturnKeepsInv DEF Size

----------------------------------------------------------------------------
\* Council memory.

\* A coroutine that goes on with its vector.
LEMMA OnwardEffect ==
    ASSUME Inv, NEW t \in Task, task[t].pc \in {"counting", "comparing", "inserting"},
           NEW pc \in {"comparing", "inserting", "broadcasting"}, Goes(t, pc),
           UNCHANGED <<process, inbox, announced, calls, starts>>
    PROVE  /\ task' \in [Task -> State] /\ AllEquipped'
           /\ \A u \in Task : task'[u].dim \in {None, dim[Owner[u]]}
           /\ task'[t].pc = pc /\ task'[t].kind = task[t].kind /\ VectorOf(t)' = VectorOf(t)
           /\ VectorOf(t) \in Vector
           /\ \A u \in Task \ {t} : task'[u] = task[u]
<1> USE DEF Inv, process
<1>1. /\ task' \in [Task -> State]
      /\ task'[t].pc = pc /\ task'[t].kind = task[t].kind
      /\ task'[t].text = task[t].text /\ task'[t].dim = task[t].dim
      /\ \A u \in Task \ {t} : task'[u] = task[u]
    BY GoesEffect DEF Pc
<1>2. task[t].text \in Text /\ task[t].dim \in Dim
    BY DEF AllEquipped, Equipped
<1>3. AllEquipped'
    BY <1>1, <1>2 DEF AllEquipped, Equipped
<1>4. \A u \in Task : task'[u].dim \in {None, dim[Owner[u]]}
    BY <1>1 DEF VectorsFit
<1>5. VectorOf(t)' = VectorOf(t) /\ VectorOf(t) \in Vector
    BY <1>1, <1>2 DEF VectorOf, Vector
<1> QED
    BY <1>1, <1>3, <1>4, <1>5

\* There is room in the hour: the rows are fewer than the limit.
LEMMA CountKeepsInv ==
    ASSUME Inv, NEW t \in Task, Count(t)
    PROVE  Inv'
<1> USE DEF Inv
<1> DEFINE a == Owner[t]
<1>1. task[t].pc = "counting" /\ UNCHANGED <<tables, process, inbox, announced, calls, starts>>
    BY DEF Count
<1>2. CASE ~ Room(a)
    BY <1>1, <1>2, ReturnKeepsInv DEF Count
<1>3. CASE Room(a)
    <2>1. Goes(t, "comparing")
        BY <1>3 DEF Count
    <2>2. /\ task' \in [Task -> State] /\ AllEquipped'
          /\ \A u \in Task : task'[u].dim \in {None, dim[Owner[u]]}
          /\ task'[t].pc = "comparing"
          /\ \A u \in Task \ {t} : task'[u] = task[u]
        BY <1>1, <2>1, OnwardEffect
    <2>3. TypeOK' /\ VectorsFit'
        <3>1. TypeOK'
            BY <1>1, <2>2 DEF TypeOK, tables, process
        <3>2. VectorsFit'
            BY <1>1, <2>2 DEF VectorsFit, tables, process
        <3> QED
            BY <3>1, <3>2
    <2>4. aged["council"] \in Int
        BY DEF TypeOK, Store
    <2>5. Still /\ NoneRivals /\ NoneBroadcasts
        BY <1>1, <2>2, <2>4 DEF Still, NoneRivals, NoneBroadcasts, Rivalling, tables
    <2>6. HourlyLimit'
        <3>1. ASSUME NEW b \in Agent, Tasks(b) # {}
              PROVE  Cardinality(Recent(b)') + Cardinality(Admitted(b)')
                         <= Limit - 1 + Cardinality(Tasks(b))
            <4>1. Recent(b)' = Recent(b)
                BY <1>1 DEF Recent, Own, tables
            <4>2. /\ Cardinality(Recent(b)) \in Nat /\ Cardinality(Tasks(b)) \in Nat
                  /\ Cardinality(Admitted(b)) \in Nat /\ Limit \in Nat
                BY CountsType
            <4>3. CASE b = a
                <5>1. Cardinality(Recent(b)) < Limit
                    BY <1>3, <4>3 DEF Room
                <5>2. Admitted(b)' \in SUBSET Tasks(b)
                    BY DEF Admitted, Tasks
                <5>3. Cardinality(Admitted(b)') <= Cardinality(Tasks(b)) /\ Cardinality(Admitted(b)') \in Nat
                    BY <5>2, TasksFinite
                <5> QED
                    BY <4>1, <4>2, <5>1, <5>3
            <4>4. CASE b # a
                <5>1. Admitted(b)' = Admitted(b)
                    BY <2>2, <4>4 DEF Admitted, Tasks
                <5>2. Cardinality(Recent(b)) + Cardinality(Admitted(b))
                          <= Limit - 1 + Cardinality(Tasks(b))
                    BY <3>1 DEF HourlyLimit
                <5> QED
                    BY <4>1, <5>1, <5>2
            <4> QED
                BY <4>3, <4>4
        <3>2. \A b \in Agent : Tasks(b)' = Tasks(b)
            BY DEF Tasks
        <3> QED
            BY <3>1, <3>2 DEF HourlyLimit
    <2> QED
        BY <1>1, <2>2, <2>3, <2>5, <2>6, CopiesKept, StoredKept
<1> QED
    BY <1>2, <1>3

\* There is no row like it: the coroutines of the agent may all have found so.
LEMMA CompareKeepsInv ==
    ASSUME Inv, NEW t \in Task, Compare(t)
    PROVE  Inv'
<1> USE DEF Inv
<1> DEFINE a == Owner[t]
           w == VectorOf(t)
<1>1. task[t].pc = "comparing" /\ UNCHANGED <<tables, process, inbox, announced, calls, starts>>
    BY DEF Compare
<1>2. CASE Returns(t)
    BY <1>1, <1>2, ReturnKeepsInv
<1>3. CASE ~ Duplicate(a, w) /\ Goes(t, "inserting")
    <2>1. /\ task' \in [Task -> State] /\ AllEquipped'
          /\ \A u \in Task : task'[u].dim \in {None, dim[Owner[u]]}
          /\ task'[t].pc = "inserting" /\ task'[t].kind = task[t].kind
          /\ VectorOf(t)' = w /\ w \in Vector
          /\ \A u \in Task \ {t} : task'[u] = task[u]
        BY <1>1, <1>3, OnwardEffect
    <2>2. TypeOK'
        BY <1>1, <2>1 DEF TypeOK, tables, process
    <2>3. VectorsFit'
        BY <1>1, <2>1 DEF VectorsFit, tables, process
    <2>4. aged["council"] \in Int
        BY DEF TypeOK, Store
    <2>5. Still /\ NoneAdmitted /\ NoneBroadcasts
        BY <1>1, <2>1, <2>4 DEF Still, NoneAdmitted, NoneBroadcasts, Admitting, tables
    <2>6. FewCopies'
        <3>1. ASSUME NEW b \in Agent, NEW v \in Vector
              PROVE  Cardinality(Copies(b, v)') + Cardinality(Unrivalled(b, v)')
                         <= Cardinality(Tasks(b))
            <4>1. Copies(b, v)' = Copies(b, v)
                BY <1>1 DEF Copies, Recent, Own, tables
            <4>2. CASE b = a /\ v = w
                <5>1. Cardinality(Copies(b, v)') = 0
                    BY <1>3, <4>1, <4>2, FS_EmptySet DEF Duplicate
                <5>2. Unrivalled(b, v)' \in SUBSET Tasks(b)
                    BY DEF Unrivalled, Tasks
                <5>3. /\ Cardinality(Unrivalled(b, v)') <= Cardinality(Tasks(b))
                      /\ Cardinality(Unrivalled(b, v)') \in Nat
                    BY <5>2, TasksFinite
                <5> QED
                    BY <5>1, <5>3
            <4>3. CASE ~(b = a /\ v = w)
                <5>1. \A u \in Tasks(b) : u # t => VectorOf(u)' = VectorOf(u)
                    BY <2>1 DEF VectorOf, Tasks
                <5>2. Unrivalled(b, v)' = Unrivalled(b, v)
                    BY <1>1, <2>1, <4>3, <5>1 DEF Unrivalled, Tasks
                <5> QED
                    BY <4>1, <5>2 DEF FewCopies
            <4> QED
                BY <4>2, <4>3
        <3>2. \A b \in Agent : Tasks(b)' = Tasks(b)
            BY DEF Tasks
        <3> QED
            BY <3>1, <3>2 DEF FewCopies
    <2> QED
        BY <1>1, <2>1, <2>2, <2>3, <2>5, <2>6, HourlyKept, StoredKept
<1> QED
    BY <1>2, <1>3 DEF Compare

\* The row that a coroutine inserts, and what becomes of the coroutine.
NewRow(t) == IF StoreOf(task[t].kind) = "private" THEN Private(Owner[t], task[t].dim)
             ELSE [agent |-> Owner[t], vec |-> VectorOf(t)]

LEMMA InsertEffect ==
    ASSUME Inv, NEW t \in Task, Insert(t),
           column[StoreOf(task[t].kind)] = task[t].dim
    PROVE  LET s == StoreOf(task[t].kind) IN
           /\ rows' = [rows EXCEPT ![s] = Append(rows[s], NewRow(t))]
           /\ s \in Store /\ NewRow(t) \in Row /\ NewRow(t).vec.dim = column[s]
           /\ task' \in [Task -> State] /\ AllEquipped'
           /\ \A u \in Task : task'[u].dim \in {None, dim[Owner[u]]}
           /\ \A u \in Task \ {t} : task'[u] = task[u]
           /\ ~ Admitting(task'[t]) /\ ~ Rivalling(task'[t])
           /\ task'[t].pc = "broadcasting" => s = "council" /\ VectorOf(t)' = VectorOf(t)
<1> USE DEF Inv
<1> DEFINE s == StoreOf(task[t].kind)
<1>1. /\ task[t].pc = "inserting" /\ rows' = [rows EXCEPT ![s] = Append(rows[s], NewRow(t))]
      /\ IF task[t].kind = "share" THEN Goes(t, "broadcasting") ELSE Returns(t)
      /\ UNCHANGED <<aged, column, process, inbox, announced, calls, starts>>
    BY DEF Insert, NewRow
<1>2. task[t].text \in Text /\ task[t].dim \in Dim
    BY <1>1 DEF AllEquipped, Equipped
<1>3. s \in Store
    BY DEF StoreOf, Store
<1>4. NewRow(t) \in Row /\ NewRow(t).vec.dim = task[t].dim
    BY <1>2 DEF NewRow, Private, Row, VectorOf, Vector
<1>5. CASE task[t].kind = "share"
    <2>1. /\ task' \in [Task -> State] /\ AllEquipped'
          /\ \A u \in Task : task'[u].dim \in {None, dim[Owner[u]]}
          /\ task'[t].pc = "broadcasting" /\ VectorOf(t)' = VectorOf(t)
          /\ \A u \in Task \ {t} : task'[u] = task[u]
        BY <1>1, <1>5, OnwardEffect
    <2>2. s = "council"
        BY <1>5 DEF StoreOf
    <2> QED
        BY <1>1, <1>3, <1>4, <2>1, <2>2 DEF Admitting, Rivalling
<1>6. CASE task[t].kind # "share"
    <2>1. /\ task' \in [Task -> State]
          /\ task'[t] = Idle /\ \A u \in Task \ {t} : task'[u] = task[u]
        BY <1>1, <1>6, ReturnsEffect
    <2>2. Idle.pc = "idle" /\ Idle.dim = None
        BY DEF Idle
    <2>3. AllEquipped'
        BY <2>1, IdleState DEF AllEquipped
    <2>4. \A u \in Task : task'[u].dim \in {None, dim[Owner[u]]}
        BY <2>1, <2>2 DEF VectorsFit
    <2> QED
        BY <1>1, <1>3, <1>4, <2>1, <2>2, <2>3, <2>4 DEF Admitting, Rivalling
<1> QED
    BY <1>5, <1>6

\* The types, and that vectors fit, whichever store has a row more.
LEMMA InsertKeepsType ==
    ASSUME Inv, NEW t \in Task, Insert(t),
           column[StoreOf(task[t].kind)] = task[t].dim
    PROVE  TypeOK' /\ VectorsFit'
<1> USE DEF Inv
<1> DEFINE s == StoreOf(task[t].kind)
<1>1. UNCHANGED <<aged, column, process, inbox, announced, calls, starts>>
    BY DEF Insert
<1>2. /\ rows' = [rows EXCEPT ![s] = Append(rows[s], NewRow(t))]
      /\ s \in Store /\ NewRow(t) \in Row /\ NewRow(t).vec.dim = column[s]
      /\ task' \in [Task -> State]
      /\ \A u \in Task : task'[u].dim \in {None, dim[Owner[u]]}
    BY InsertEffect
<1> HIDE DEF s
<1>3. /\ rows' \in [Store -> Seq(Row)]
      /\ rows'[s] = Append(rows[s], NewRow(t))
      /\ \A u \in Store \ {s} : rows'[u] = rows[u]
    BY <1>2 DEF TypeOK
<1>4. rows[s] \in Seq(Row) /\ Len(rows'[s]) = Len(rows[s]) + 1
    BY <1>2, <1>3 DEF TypeOK
<1>5. ASSUME NEW u \in Store PROVE aged'[u] <= Len(rows'[u])
    <2>1. aged'[u] = aged[u] /\ aged[u] <= Len(rows[u]) /\ aged[u] \in Nat /\ Len(rows[u]) \in Nat
        BY <1>1 DEF TypeOK
    <2>2. Len(rows'[u]) \in {Len(rows[u]), Len(rows[u]) + 1}
        BY <1>3, <1>4
    <2> QED
        BY <2>1, <2>2
<1>6. TypeOK'
    BY <1>1, <1>2, <1>3, <1>5 DEF TypeOK, process
<1>7. ASSUME NEW u \in Store, NEW i \in DOMAIN rows'[u]
      PROVE  rows'[u][i].vec.dim = column[u]
    <2>1. CASE u = s
        <3>1. (i \in DOMAIN rows[s] /\ rows'[s][i] = rows[s][i]) \/ rows'[s][i] = NewRow(t)
            BY <2>1, <1>3, <1>4
        <3> QED
            BY <2>1, <3>1, <1>2 DEF VectorsFit
    <2>2. CASE u # s
        BY <2>2, <1>3 DEF VectorsFit
    <2> QED
        BY <2>1, <2>2
<1>8. VectorsFit'
    BY <1>1, <1>2, <1>7 DEF VectorsFit, process
<1> QED
    BY <1>6, <1>8

\* A row more in council memory, which was counted as admitted before.
LEMMA CouncilInsertKeepsInv ==
    ASSUME Inv, NEW t \in Task, Insert(t), StoreOf(task[t].kind) = "council",
           column["council"] = task[t].dim
    PROVE  Inv'
<1> USE DEF Inv
<1> DEFINE a == Owner[t]
           w == VectorOf(t)
           old == rows["council"]
           n == Len(old) + 1
<1>1. /\ task[t].pc = "inserting" /\ task[t].kind # "save" /\ t \in Tasks(a)
      /\ UNCHANGED <<aged, column, process, inbox, announced, calls, starts>>
    BY DEF Insert, StoreOf, Tasks
<1>2. NewRow(t) = [agent |-> a, vec |-> w]
    BY DEF NewRow
<1>3. /\ rows' = [rows EXCEPT !["council"] = Append(old, NewRow(t))]
      /\ task' \in [Task -> State] /\ AllEquipped'
      /\ \A u \in Task \ {t} : task'[u] = task[u]
      /\ ~ Admitting(task'[t]) /\ ~ Rivalling(task'[t])
      /\ task'[t].pc = "broadcasting" => VectorOf(t)' = w
    BY InsertEffect
<1>4. TypeOK' /\ VectorsFit'
    BY InsertKeepsType
<1>5. old \in Seq(Row) /\ aged["council"] \in 0..Len(old)
    BY DEF TypeOK, Store
<1> HIDE DEF old
<1>6. rows'["council"] = Append(old, NewRow(t))
    BY <1>3 DEF TypeOK, Store
<1>7. /\ DOMAIN rows'["council"] = DOMAIN old \cup {n} /\ n \notin DOMAIN old
      /\ \A i \in DOMAIN old : rows'["council"][i] = old[i]
      /\ rows'["council"][n].agent = a /\ rows'["council"][n].vec = w /\ n > aged["council"]
    BY <1>2, <1>5, <1>6
<1> HIDE DEF n
<1>8. /\ Recent(a)' = Recent(a) \cup {n}
      /\ \A b \in Agent \ {a} : Recent(b)' = Recent(b)
    BY <1>1, <1>7 DEF Recent, Own, old
<1>9. \A b \in Agent, v \in Vector :
          Copies(b, v)' = IF b = a /\ v = w THEN Copies(b, v) \cup {n} ELSE Copies(b, v)
    <2>1. \A b \in Agent : Recent(b) \subseteq DOMAIN old
        BY DEF Recent, Own, old
    <2> QED
        BY <1>7, <1>8, <2>1 DEF Copies, old
<1>10. HourlyLimit'
    <2>1. ASSUME NEW b \in Agent, Tasks(b) # {}
          PROVE  Cardinality(Recent(b)') + Cardinality(Admitted(b)')
                     <= Limit - 1 + Cardinality(Tasks(b))
        <3>1. Cardinality(Recent(b)) + Cardinality(Admitted(b)) <= Limit - 1 + Cardinality(Tasks(b))
            BY <2>1 DEF HourlyLimit
        <3>2. CASE b = a
            <4>1. Admitted(b)' = Admitted(b) \ {t} /\ t \in Admitted(b)
                BY <1>1, <1>3, <3>2 DEF Admitted, Admitting, Tasks
            <4>2. Cardinality(Admitted(b)') = Cardinality(Admitted(b)) - 1
                <5>1. IsFiniteSet(Admitted(b))
                    BY CountsType
                <5> QED
                    BY <4>1, <5>1, FS_RemoveElement
            <4>3. Cardinality(Recent(b)') \in {Cardinality(Recent(b)), Cardinality(Recent(b)) + 1}
                <5>1. IsFiniteSet(Recent(b)) /\ Recent(b)' = Recent(b) \cup {n}
                    BY <1>8, <3>2, CountsType
                <5> QED
                    BY <5>1, FS_AddElement
            <4>4. /\ Cardinality(Recent(b)) \in Nat /\ Cardinality(Admitted(b)) \in Nat
                  /\ Cardinality(Tasks(b)) \in Nat /\ Limit \in Nat
                BY CountsType
            <4> QED
                BY <3>1, <4>2, <4>3, <4>4
        <3>3. CASE b # a
            <4>1. Admitted(b)' = Admitted(b)
                BY <1>1, <1>3, <3>3 DEF Admitted, Tasks
            <4> QED
                BY <1>8, <3>1, <3>3, <4>1
        <3> QED
            BY <3>2, <3>3
    <2>2. \A b \in Agent : Tasks(b)' = Tasks(b)
        BY DEF Tasks
    <2> QED
        BY <2>1, <2>2 DEF HourlyLimit
<1>11. FewCopies'
    <2>1. ASSUME NEW b \in Agent, NEW v \in Vector
          PROVE  Cardinality(Copies(b, v)') + Cardinality(Unrivalled(b, v)')
                     <= Cardinality(Tasks(b))
        <3>1. Cardinality(Copies(b, v)) + Cardinality(Unrivalled(b, v)) <= Cardinality(Tasks(b))
            BY DEF FewCopies
        <3>2. \A u \in Tasks(b) : u # t => VectorOf(u)' = VectorOf(u)
            BY <1>3 DEF VectorOf, Tasks
        <3>3. CASE b = a /\ v = w
            <4>1. Unrivalled(b, v)' = Unrivalled(b, v) \ {t} /\ t \in Unrivalled(b, v)
                BY <1>1, <1>3, <3>2, <3>3 DEF Unrivalled, Rivalling, Tasks
            <4>2. Cardinality(Unrivalled(b, v)') = Cardinality(Unrivalled(b, v)) - 1
                BY <4>1, CountsType, FS_RemoveElement
            <4>3. Cardinality(Copies(b, v)') \in {Cardinality(Copies(b, v)), Cardinality(Copies(b, v)) + 1}
                <5>1. IsFiniteSet(Copies(b, v))
                    BY CountsType
                <5>2. Copies(b, v)' = Copies(b, v) \cup {n}
                    BY <1>9, <3>3
                <5> QED
                    BY <5>1, <5>2, FS_AddElement
            <4>4. /\ Cardinality(Copies(b, v)) \in Nat /\ Cardinality(Unrivalled(b, v)) \in Nat
                  /\ Cardinality(Tasks(b)) \in Nat
                BY CountsType
            <4> QED
                BY <3>1, <4>2, <4>3, <4>4
        <3>4. CASE ~(b = a /\ v = w)
            <4>1. Unrivalled(b, v)' = Unrivalled(b, v)
                BY <1>1, <1>3, <3>2, <3>4 DEF Unrivalled, Rivalling, Tasks
            <4> QED
                BY <1>9, <3>1, <3>4, <4>1
        <3> QED
            BY <3>3, <3>4
    <2>2. \A b \in Agent : Tasks(b)' = Tasks(b)
        BY DEF Tasks
    <2> QED
        BY <2>1, <2>2 DEF FewCopies
<1>12. \A v : Stored(v) => Stored(v)'
    BY <1>7 DEF Stored, old
<1>13. \E i \in DOMAIN rows'["council"] : rows'["council"][i].vec = w
    BY <1>7
<1>14. AnnouncedIsStored'
    BY <1>1, <1>12 DEF AnnouncedIsStored, Stored
<1>15. BroadcastIsStored'
    <2>1. \A u \in Task \ {t} : VectorOf(u)' = VectorOf(u)
        BY <1>3 DEF VectorOf
    <2>2. ASSUME NEW u \in Task, task'[u].pc = "broadcasting" PROVE Stored(VectorOf(u))'
        <3>1. CASE u = t
            <4>1. VectorOf(t)' = w
                BY <1>3, <2>2, <3>1
            <4> QED
                BY <1>13, <3>1, <4>1 DEF Stored
        <3>2. CASE u # t
            <4>1. Stored(VectorOf(u)) /\ VectorOf(u)' = VectorOf(u)
                BY <1>3, <2>1, <2>2, <3>2 DEF BroadcastIsStored
            <4> QED
                BY <1>12, <4>1 DEF Stored
        <3> QED
            BY <3>1, <3>2
    <2> QED
        BY <2>2 DEF BroadcastIsStored
<1> QED
    BY <1>3, <1>4, <1>10, <1>11, <1>14, <1>15

\* An insert is refused, or goes to one of the stores.
LEMMA InsertKeepsInv ==
    ASSUME Inv, NEW t \in Task, Insert(t)
    PROVE  Inv'
<1> USE DEF Inv
<1> DEFINE s == StoreOf(task[t].kind)
<1>1. UNCHANGED <<aged, column, process, inbox, announced, calls, starts>>
    BY DEF Insert
<1>2. CASE column[s] # task[t].dim
    BY <1>1, <1>2, ReturnKeepsInv DEF Insert, tables
<1>3. CASE column[s] = task[t].dim /\ s = "council"
    BY <1>3, CouncilInsertKeepsInv
<1>4. CASE column[s] = task[t].dim /\ s # "council"
    <2>1. /\ rows' = [rows EXCEPT ![s] = Append(rows[s], NewRow(t))] /\ AllEquipped'
          /\ \A u \in Task \ {t} : task'[u] = task[u]
          /\ ~ Admitting(task'[t]) /\ ~ Rivalling(task'[t]) /\ task'[t].pc # "broadcasting"
        BY <1>4, InsertEffect
    <2>2. rows'["council"] = rows["council"] /\ aged["council"] \in Int
        BY <1>4, <2>1 DEF TypeOK, Store
    <2>3. Calm
        BY <1>1, <2>1, <2>2 DEF Calm, Still, NoneAdmitted, NoneRivals, NoneBroadcasts
    <2> QED
        BY <1>4, <2>1, <2>3, InsertKeepsType, CalmKeepsInv
<1> QED
    BY <1>2, <1>3, <1>4

\* An insight is broadcast when it is stored.
LEMMA AnnounceKeepsInv ==
    ASSUME Inv, NEW t \in Task, Announce(t)
    PROVE  Inv'
<1> USE DEF Inv
<1> DEFINE w == VectorOf(t)
<1>1. /\ task[t].pc = "broadcasting" /\ UNCHANGED <<tables, process, calls, starts>>
      /\ Returns(t)
    BY DEF Announce
<1>2. CASE UNCHANGED <<inbox, announced>>
    BY <1>1, <1>2, ReturnKeepsInv
<1>3. CASE /\ inbox' = [a \in Agent |-> inbox[a] \cup {w}]
           /\ announced' = announced \cup {w}
    <2>1. /\ task' \in [Task -> State]
          /\ task'[t] = Idle /\ \A u \in Task \ {t} : task'[u] = task[u]
        BY <1>1, ReturnsEffect
    <2>2. Idle.pc = "idle" /\ Idle.dim = None
        BY DEF Idle
    <2>3. w \in Vector /\ Stored(w)
        BY <1>1 DEF AllEquipped, Equipped, VectorOf, Vector, BroadcastIsStored
    <2> HIDE DEF w
    <2>4. inbox' \in [Agent -> SUBSET Vector] /\ announced' \subseteq Vector
        BY <1>3, <2>3 DEF TypeOK
    <2>5. TypeOK'
        BY <1>1, <2>1, <2>4 DEF TypeOK, tables, process
    <2>6. AllEquipped' /\ VectorsFit'
        <3>1. AllEquipped'
            BY <2>1, IdleState DEF AllEquipped
        <3>2. VectorsFit'
            BY <1>1, <2>1, <2>2 DEF VectorsFit, tables, process
        <3> QED
            BY <3>1, <3>2
    <2>7. aged["council"] \in Int
        BY DEF TypeOK, Store
    <2>8. Still /\ NoneAdmitted /\ NoneRivals /\ NoneBroadcasts
        BY <1>1, <2>1, <2>2, <2>7 DEF Still, NoneAdmitted, NoneRivals, NoneBroadcasts,
                                      Admitting, Rivalling, tables
    <2>9. AnnouncedIsStored'
        <3>1. \A v \in announced' : Stored(v)
            BY <1>3, <2>3 DEF AnnouncedIsStored, Stored
        <3> QED
            BY <1>1, <3>1 DEF AnnouncedIsStored, Stored, tables
    <2> QED
        BY <2>5, <2>6, <2>8, <2>9, HourlyKept, CopiesKept, StoredKept
<1> QED
    BY <1>1, <1>2, <1>3 DEF Announce

----------------------------------------------------------------------------
\* Pruning.

\* How many rows prune_by_age and prune_to_max may take.
Droppable(k) == k \in Nat /\ k <= Len(rows["private"])

\* What is too much is not more than there is.
LEMMA SurplusDroppable ==
    ASSUME TypeOK
    PROVE  Droppable(Surplus) /\ Droppable(aged["private"])
<1>1. Len(rows["private"]) \in Nat /\ aged["private"] \in Nat
      /\ aged["private"] <= Len(rows["private"])
    BY DEF TypeOK, Store
<1> QED
    BY <1>1, MemoriesAssumption DEF Surplus, Droppable

\* The rows that are kept are the newest, in their order; the young ones among
\* them are those that were.
LEMMA DropEffect ==
    ASSUME TypeOK, NEW k, Droppable(k), DropOldest(k)
    PROVE  /\ rows' \in [Store -> Seq(Row)] /\ rows'["council"] = rows["council"]
           /\ aged'["council"] = aged["council"]
           /\ aged' \in [Store -> Nat] /\ \A s \in Store : aged'[s] <= Len(rows'[s])
           /\ \A j \in DOMAIN rows'["private"] : \E i \in DOMAIN rows["private"] :
                  rows'["private"][j] = rows["private"][i]
           /\ Len(rows'["private"]) = Len(rows["private"]) - k
           /\ aged'["private"] = IF aged["private"] > k THEN aged["private"] - k ELSE 0
<1> DEFINE old == rows["private"]
           gone == aged["private"]
           new == SubSeq(old, k + 1, Len(old))
           left == IF gone > k THEN gone - k ELSE 0
<1>1. /\ old \in Seq(Row) /\ Len(old) \in Nat /\ gone \in Nat /\ gone <= Len(old)
      /\ k \in Nat /\ k <= Len(old)
      /\ aged["council"] \in Nat /\ aged["council"] <= Len(rows["council"])
    BY DEF TypeOK, Store, Droppable
<1>2. rows' = [rows EXCEPT !["private"] = new] /\ aged' = [aged EXCEPT !["private"] = left]
    BY DEF DropOldest
<1> HIDE DEF old, gone
<1>3. /\ new \in Seq(Row) /\ Len(new) = Len(old) - k /\ DOMAIN new = 1..Len(new)
      /\ \A j \in 1..Len(new) : new[j] = old[k + j] /\ k + j \in 1..Len(old)
    BY <1>1
<1>4. left \in Nat /\ left <= Len(new)
    BY <1>1, <1>3
<1> HIDE DEF new, left
<1>5. /\ rows' \in [Store -> Seq(Row)] /\ aged' \in [Store -> Nat]
      /\ rows'["private"] = new /\ rows'["council"] = rows["council"]
      /\ aged'["private"] = left /\ aged'["council"] = aged["council"]
    BY <1>2, <1>3, <1>4 DEF TypeOK, Store
<1>6. \A s \in Store : aged'[s] <= Len(rows'[s])
    BY <1>1, <1>4, <1>5 DEF Store
<1>7. DOMAIN old = 1..Len(old)
    BY <1>1
<1>8. \A j \in DOMAIN new : \E i \in DOMAIN old : new[j] = old[i]
    BY <1>3, <1>7
<1> QED
    BY <1>3, <1>5, <1>6, <1>8 DEF old, gone, left

\* Pruning leaves council memory alone, and vectors of the right dimension.
LEMMA PruneKeepsInv ==
    ASSUME Inv, NEW t \in Task, NEW k, Droppable(k), DropOldest(k),
           \/ Returns(t)
           \/ Goes(t, "sizing"),
           UNCHANGED <<column, process, inbox, announced, calls, starts>>
    PROVE  Inv'
<1> USE DEF Inv, process
<1>1. /\ rows' \in [Store -> Seq(Row)] /\ rows'["council"] = rows["council"]
      /\ aged'["council"] = aged["council"]
      /\ aged' \in [Store -> Nat] /\ \A s \in Store : aged'[s] <= Len(rows'[s])
      /\ \A j \in DOMAIN rows'["private"] : \E i \in DOMAIN rows["private"] :
             rows'["private"][j] = rows["private"][i]
    BY DropEffect
<1>2. /\ task' \in [Task -> State] /\ \A u \in Task \ {t} : task'[u] = task[u]
      /\ task'[t].pc \in {"idle", "sizing"} /\ task'[t].dim \in {None, dim[Owner[t]]}
    <2>1. CASE Returns(t)
        <3>1. Idle.pc = "idle" /\ Idle.dim = None
            BY DEF Idle
        <3> QED
            BY <2>1, <3>1, ReturnsEffect
    <2>2. CASE Goes(t, "sizing")
        <3>1. task[t].dim \in {None, dim[Owner[t]]}
            BY DEF VectorsFit
        <3> QED
            BY <2>2, <3>1, GoesEffect DEF Pc
    <2> QED
        BY <2>1, <2>2
<1>3. TypeOK'
    BY <1>1, <1>2 DEF TypeOK
<1>4. AllEquipped'
    BY <1>2 DEF AllEquipped, Equipped
<1>5. VectorsFit'
    <2>1. ASSUME NEW s \in Store, NEW j \in DOMAIN rows'[s] PROVE rows'[s][j].vec.dim = column[s]
        BY <1>1 DEF VectorsFit, Store
    <2> QED
        BY <1>2, <2>1 DEF VectorsFit
<1>6. aged["council"] \in Nat
    BY DEF TypeOK, Store
<1>7. Still
    BY <1>1, <1>6 DEF Still
<1>8. \A u \in Task : task'[u] = task[u] \/ task'[u].pc \in {"idle", "sizing"}
    BY <1>2
<1>9. NoneAdmitted /\ NoneRivals /\ NoneBroadcasts
    BY <1>8 DEF NoneAdmitted, NoneRivals, NoneBroadcasts, Admitting, Rivalling
<1>10. Calm
    BY <1>7, <1>9 DEF Calm
<1> QED
    BY <1>3, <1>4, <1>5, <1>10, CalmKeepsInv

\* Time passes for a row.
LEMMA AgeKeepsInv ==
    ASSUME Inv, NEW s \in Store, Age(s)
    PROVE  Inv'
<1> USE DEF Inv, process
<1>1. /\ aged[s] < Len(rows[s]) /\ aged' = [aged EXCEPT ![s] = aged[s] + 1]
      /\ UNCHANGED <<rows, column, process, task, inbox, announced, calls, starts>>
    BY DEF Age
<1>2. aged \in [Store -> Nat] /\ \A u \in Store : aged[u] <= Len(rows[u]) /\ Len(rows[u]) \in Nat
    BY DEF TypeOK
<1>3. /\ aged' \in [Store -> Nat] /\ \A u \in Store : aged'[u] <= Len(rows[u])
      /\ aged'["council"] >= aged["council"]
    BY <1>1, <1>2 DEF Store
<1>4. TypeOK'
    BY <1>1, <1>3 DEF TypeOK
<1>5. AllEquipped' /\ VectorsFit'
    BY <1>1 DEF AllEquipped, VectorsFit
<1>6. Calm
    BY <1>1, <1>3 DEF Calm, Still, NoneAdmitted, NoneRivals, NoneBroadcasts
<1> QED
    BY <1>4, <1>5, <1>6, CalmKeepsInv

\* A process starts with another dimension: its cache and its coroutines are
\* gone, and a column changes only while its table is empty.
LEMMA StartKeepsInv ==
    ASSUME Inv, NEW a \in Agent, Start(a)
    PROVE  Inv'
<1> USE DEF Inv
<1> PICK d \in Dim, reached \in BOOLEAN :
        LET S == {s \in Store : reached /\ Migrates(s, d)}
        IN  /\ dim' = [dim EXCEPT ![a] = d]
            /\ up' = [up EXCEPT ![a] = S]
            /\ column' = [s \in Store |-> IF s \in S THEN d ELSE column[s]]
    BY DEF Start
<1>1. /\ starts < MaxStarts /\ starts' = starts + 1
      /\ cache' = [cache EXCEPT ![a] = [x \in Text |-> None]]
      /\ task' = [t \in Task |-> IF t \in Tasks(a) THEN Idle ELSE task[t]]
      /\ inbox' = [inbox EXCEPT ![a] = announced]
      /\ UNCHANGED <<rows, aged, announced, calls>>
    BY DEF Start
<1>2. /\ task' \in [Task -> State]
      /\ \A t \in Task : IF Owner[t] = a THEN task'[t] = Idle ELSE task'[t] = task[t]
    BY <1>1, IdleState DEF TypeOK, Tasks
<1>3. Idle.pc = "idle" /\ Idle.dim = None
    BY DEF Idle
<1>4. /\ cache' \in [Agent -> [Text -> Dim \cup {None}]]
      /\ \A x \in Text : cache'[a][x] = None
      /\ \A b \in Agent \ {a} : cache'[b] = cache[b]
    BY <1>1 DEF TypeOK
<1>5. dim' \in [Agent -> Dim] /\ \A b \in Agent \ {a} : dim'[b] = dim[b]
    BY DEF TypeOK
<1>6. /\ column' \in [Store -> Dim]
      /\ \A s \in Store : column'[s] = column[s] \/ rows[s] = <<>>
    BY DEF TypeOK, Migrates
<1>7. TypeOK'
    <2>1. up' \in [Agent -> SUBSET Store]
        BY DEF TypeOK
    <2>2. inbox' \in [Agent -> SUBSET Vector]
        BY <1>1 DEF TypeOK
    <2>3. starts' \in 0..MaxStarts
        BY <1>1 DEF TypeOK
    <2> QED
        BY <1>1, <1>2, <1>4, <1>5, <1>6, <2>1, <2>2, <2>3 DEF TypeOK
<1>8. AllEquipped'
    BY <1>2, IdleState DEF AllEquipped
<1>9. VectorsFit'
    <2>1. \A b \in Agent, x \in Text : cache'[b][x] \in {None, dim'[b]}
        BY <1>4, <1>5 DEF VectorsFit
    <2>2. \A s \in Store : \A i \in DOMAIN rows'[s] : rows'[s][i].vec.dim = column'[s]
        BY <1>1, <1>6 DEF VectorsFit
    <2>3. \A t \in Task : task'[t].dim \in {None, dim'[Owner[t]]}
        BY <1>2, <1>3, <1>5 DEF VectorsFit
    <2> QED
        BY <2>1, <2>2, <2>3 DEF VectorsFit
<1>10. aged["council"] \in Nat
    BY DEF TypeOK, Store
<1>11. Calm
    BY <1>1, <1>2, <1>3, <1>10 DEF Calm, Still, NoneAdmitted, NoneRivals, NoneBroadcasts,
                                   Admitting, Rivalling
<1> QED
    BY <1>7, <1>8, <1>9, <1>11, CalmKeepsInv

----------------------------------------------------------------------------
\* The memories start in the invariant, with nobody writing.
LEMMA InvInit == Init => Inv
<1> SUFFICES ASSUME Init PROVE Inv
    OBVIOUS
<1> USE DEF Init
<1> PICK d \in Dim :
        /\ column = [s \in Store |-> d]
        /\ dim = [a \in Agent |-> d]
        /\ rows = [council |-> <<>>,
                   private |-> [i \in DOMAIN Earlier |-> Private(Earlier[i], d)]]
    OBVIOUS
<1> DEFINE first == [i \in DOMAIN Earlier |-> Private(Earlier[i], d)]
<1>1. /\ \A i \in DOMAIN Earlier : Earlier[i] \in Agent
      /\ DOMAIN Earlier = 1..Len(Earlier) /\ Len(Earlier) \in Nat
    OBVIOUS
<1>2. first \in Seq(Row) /\ \A i \in DOMAIN first : first[i].vec.dim = d
    <2>1. \A i \in DOMAIN Earlier : Private(Earlier[i], d) \in Row /\ Private(Earlier[i], d).vec.dim = d
        BY <1>1 DEF Private, Row
    <2> HIDE DEF Private
    <2> QED
        BY <1>1, <2>1
<1>3. rows["council"] = <<>> /\ rows["private"] = first /\ DOMAIN rows = Store
    BY DEF Store
<1> HIDE DEF first
<1>4. /\ rows \in [Store -> Seq(Row)]
      /\ \A s \in Store : aged[s] <= Len(rows[s])
    <2>1. \A s \in Store : rows[s] \in Seq(Row)
        <3>1. <<>> \in Seq(Row)
            OBVIOUS
        <3> QED
            BY <1>2, <1>3, <3>1 DEF Store
    <2>2. rows = [s \in Store |-> rows[s]]
        BY <1>3
    <2>3. rows \in [Store -> Seq(Row)]
        BY <2>1, <2>2
    <2>4. \A s \in Store : aged[s] = 0 /\ Len(rows[s]) \in Nat
        BY <2>1
    <2> QED
        BY <2>3, <2>4
<1>5. \A t \in Task : task[t] = Idle
    OBVIOUS
<1>6. Idle.pc = "idle" /\ Idle.dim = None
    BY DEF Idle
<1>7. TypeOK
    BY <1>4, IdleState DEF TypeOK
<1>8. AllEquipped /\ BroadcastIsStored /\ AnnouncedIsStored
    BY <1>5, <1>6 DEF AllEquipped, Equipped, BroadcastIsStored, AnnouncedIsStored
<1>9. VectorsFit
    BY <1>2, <1>3, <1>5, <1>6 DEF VectorsFit, Store
<1>10. \A a \in Agent : \A v : Recent(a) = {} /\ Copies(a, v) = {} /\ Admitted(a) = {} /\ Unrivalled(a, v) = {}
    BY <1>3, <1>5, <1>6 DEF Recent, Copies, Own, Admitted, Unrivalled, Tasks
<1>11. Cardinality({}) = 0
    BY FS_EmptySet
<1>12. HourlyLimit
    <2>1. ASSUME NEW a \in Agent
          PROVE  Cardinality(Recent(a)) + Cardinality(Admitted(a))
                     <= Limit - 1 + Cardinality(Tasks(a))
        <3>1. Cardinality(Recent(a)) = 0 /\ Cardinality(Admitted(a)) = 0
            BY <1>10, <1>11
        <3>2. Cardinality(Tasks(a)) \in Nat /\ Limit \in Nat \ {0}
            BY TasksFinite
        <3> QED
            BY <3>1, <3>2
    <2> QED
        BY <2>1 DEF HourlyLimit
<1>13. FewCopies
    <2>1. ASSUME NEW a \in Agent, NEW v \in Vector
          PROVE  Cardinality(Copies(a, v)) + Cardinality(Unrivalled(a, v))
                     <= Cardinality(Tasks(a))
        <3>1. Cardinality(Copies(a, v)) = 0 /\ Cardinality(Unrivalled(a, v)) = 0
            BY <1>10, <1>11
        <3>2. Cardinality(Tasks(a)) \in Nat
            BY TasksFinite
        <3> QED
            BY <3>1, <3>2
    <2> QED
        BY <2>1 DEF FewCopies
<1> QED
    BY <1>7, <1>8, <1>9, <1>12, <1>13 DEF Inv

\* Every step keeps the invariant.
LEMMA NextKeepsInv == Inv /\ [Next]_vars => Inv'
<1> SUFFICES ASSUME Inv, [Next]_vars PROVE Inv'
    OBVIOUS
<1>1. ASSUME NEW t \in Task, Step(t) PROVE Inv'
    <2>1. CASE Retry(t)
        BY <2>1, RetryKeepsInv
    <2>2. CASE GiveUp(t) \/ Search(t) \/ DatabaseFails(t)
        BY <2>2, ReturnKeepsInv DEF GiveUp, Search, DatabaseFails
    <2>3. CASE Answer(t)
        BY <2>3, AnswerKeepsInv
    <2>4. CASE Count(t) \/ Compare(t) \/ Insert(t) \/ Announce(t)
        BY <2>4, CountKeepsInv, CompareKeepsInv, InsertKeepsInv, AnnounceKeepsInv
    <2>5. CASE PruneByAge(t) \/ Trim(t)
        <3>1. TypeOK
            BY DEF Inv
        <3>2. Droppable(Surplus) /\ Droppable(aged["private"])
            BY <3>1, SurplusDroppable
        <3> QED
            BY <2>5, <3>2, PruneKeepsInv DEF PruneByAge, Trim
    <2>6. CASE Size(t)
        BY <2>6, SizeKeepsInv
    <2> QED
        BY <1>1, <2>1, <2>2, <2>3, <2>4, <2>5, <2>6 DEF Step
<1>2. ASSUME NEW t \in Task, NEW kind \in {"share", "save", "query"}, NEW x \in Text,
             Ask(t, kind, x)
      PROVE  Inv'
    BY <1>2, AskKeepsInv
<1>3. ASSUME NEW t \in Task, NEW v \in inbox[Owner[t]], Insight(t, v) PROVE Inv'
    BY <1>3, InsightKeepsInv
<1>4. ASSUME NEW t \in Task, Review(t) PROVE Inv'
    BY <1>4, ReviewKeepsInv
<1>5. ASSUME NEW a \in Agent, Start(a) PROVE Inv'
    BY <1>5, StartKeepsInv
<1>6. ASSUME NEW s \in Store, Age(s) PROVE Inv'
    BY <1>6, AgeKeepsInv
<1>7. CASE UNCHANGED vars
    <2>1. TypeOK'
        BY <1>7 DEF vars, Inv, TypeOK
    <2>2. AllEquipped' /\ VectorsFit'
        BY <1>7 DEF vars, Inv, AllEquipped, VectorsFit
    <2>3. aged["council"] \in Nat
        BY DEF Inv, TypeOK, Store
    <2>4. Calm
        BY <1>7, <2>3 DEF vars, Calm, Still, NoneAdmitted, NoneRivals, NoneBroadcasts
    <2> QED
        BY <2>1, <2>2, <2>4, CalmKeepsInv
<1> QED
    BY <1>1, <1>2, <1>3, <1>4, <1>5, <1>6, <1>7 DEF Next

\* The invariant holds in every reachable state.
LEMMA Invariance == Spec => []Inv
  BY InvInit, NextKeepsInv, PTL DEF Spec

\* The type invariant of the memories holds.
THEOREM TypeCorrect == Spec => []TypeOK
  BY Invariance, PTL DEF Inv

\* However many coroutines count before any of them inserts, an agent exceeds
\* the limit of council rows in an hour by fewer than it has coroutines.
THEOREM LimitExceededByFew == Spec => []HourlyLimit
  BY Invariance, PTL DEF Inv

\* One coroutine that writes, or hears its own broadcast again, stores an
\* insight once; several store it at most once each.
THEOREM CopiesAreFew == Spec => []FewCopies
  BY Invariance, PTL DEF Inv

\* No cache, table or coroutine holds a vector of another dimension than that
\* of its process or its column.
THEOREM DimensionsFit == Spec => []VectorsFit
  BY Invariance, PTL DEF Inv

\* What was broadcast as an insight is in council memory.
THEOREM OnlyStoredIsAnnounced == Spec => []AnnouncedIsStored
  BY Invariance, PTL DEF Inv

----------------------------------------------------------------------------
\* Pruning keeps the newest rows.

NewestStep ==
    rows'["private"] # rows["private"] => Young' >= Young \/ Young' >= MaxPrivate

\* Rows past the retention are not young.
LEMMA AgeLosesNone ==
    ASSUME Inv, NEW t \in Task, PruneByAge(t)
    PROVE  NewestStep
<1>1. TypeOK
    BY DEF Inv
<1>2. Droppable(aged["private"]) /\ DropOldest(aged["private"])
    BY <1>1, SurplusDroppable DEF PruneByAge
<1>3. /\ Len(rows'["private"]) = Len(rows["private"]) - aged["private"]
      /\ aged'["private"] = IF aged["private"] > aged["private"]
                            THEN aged["private"] - aged["private"] ELSE 0
    BY <1>1, <1>2, DropEffect
<1>4. aged["private"] \in Nat /\ Len(rows["private"]) \in Nat
    BY <1>1 DEF TypeOK, Store
<1> QED
    BY <1>3, <1>4 DEF NewestStep, Young

\* Trimming takes the oldest: rows past the retention before any young one, and
\* of the young ones only what is more than may be kept.
LEMMA TrimKeepsNewest ==
    ASSUME Inv, NEW t \in Task, Trim(t)
    PROVE  NewestStep
<1>1. TypeOK
    BY DEF Inv
<1>2. Droppable(Surplus) /\ DropOldest(Surplus)
    BY <1>1, SurplusDroppable DEF Trim
<1>3. /\ Len(rows'["private"]) = Len(rows["private"]) - Surplus
      /\ aged'["private"] = IF aged["private"] > Surplus
                            THEN aged["private"] - Surplus ELSE 0
    BY <1>1, <1>2, DropEffect
<1>4. aged["private"] \in Nat /\ Len(rows["private"]) \in Nat /\ Surplus \in Nat
    BY <1>1, <1>2 DEF TypeOK, Store, Droppable
<1>5. Surplus # 0 => Len(rows["private"]) - Surplus = MaxPrivate
    BY <1>4, MemoriesAssumption DEF Surplus
<1> QED
    BY <1>3, <1>4, <1>5, MemoriesAssumption DEF NewestStep, Young

\* A row more in either store.
LEMMA InsertLosesNone ==
    ASSUME Inv, NEW t \in Task, Insert(t)
    PROVE  NewestStep
<1> SUFFICES ASSUME rows'["private"] # rows["private"] PROVE Young' >= Young
    BY DEF NewestStep
<1>1. TypeOK
    BY DEF Inv
<1>2. PICK r : rows' = [rows EXCEPT !["private"] = Append(@, r)]
    <2> DEFINE s == StoreOf(task[t].kind)
    <2>1. s \in Store
        BY DEF StoreOf, Store
    <2>2. PICK r : rows' = [rows EXCEPT ![s] = Append(@, r)]
        BY DEF Insert
    <2> HIDE DEF s
    <2>3. s = "private"
        BY <1>1, <2>1, <2>2 DEF TypeOK, Store
    <2> QED
        BY <2>2, <2>3
<1>3. aged' = aged /\ rows["private"] \in Seq(Row) /\ rows \in [Store -> Seq(Row)]
      /\ aged["private"] \in Nat
    BY <1>1 DEF Insert, TypeOK, Store
<1>4. rows'["private"] = Append(rows["private"], r)
    BY <1>2, <1>3 DEF Store
<1>5. Len(rows'["private"]) = Len(rows["private"]) + 1 /\ Len(rows["private"]) \in Nat
    BY <1>3, <1>4
<1> QED
    BY <1>3, <1>5 DEF Young

LEMMA NextKeepsNewest == Inv /\ [Next]_vars => NewestStep
<1> SUFFICES ASSUME Inv, [Next]_vars, rows' # rows PROVE NewestStep
    BY DEF NewestStep
<1>1. ASSUME NEW t \in Task, Step(t) PROVE NewestStep
    <2>1. Insert(t) \/ PruneByAge(t) \/ Trim(t)
        BY <1>1 DEF Step, Retry, GiveUp, Answer, Search, Count, Compare, Announce, Size,
                    DatabaseFails, tables
    <2> QED
        BY <2>1, AgeLosesNone, TrimKeepsNewest, InsertLosesNone
<1>2. rows' = rows \/ \E t \in Task : Step(t)
    BY DEF Next, Ask, Insight, Review, Start, Age, tables, vars
<1> QED
    BY <1>1, <1>2

\* However reviews and saves overlap, between the count and the deletion, pruning
\* leaves all the young rows of the table or memory_max_entries of them.
THEOREM PruningKeepsNewest == Spec => NewestKept
<1>1. Inv /\ [Next]_vars => [NewestStep]_vars
    BY NextKeepsNewest
<1>2. Spec => [][NewestStep]_vars
    BY <1>1, Invariance, PTL DEF Spec
<1> QED
    BY <1>2 DEF NewestKept, NewestStep
=============================================================================

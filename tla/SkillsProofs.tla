---------------------------- MODULE SkillsProofs ----------------------------
(***************************************************************************)
(* Proofs about Skills and SkillRegistry, for any agents, names, codes and *)
(* limits: the shared directory keeps its shape, a skill whose deployment  *)
(* was announced is in the brains that have heard of it, and an operation  *)
(* that no other process disturbs does what it says.                       *)
(***************************************************************************)
EXTENDS Skills, FiniteSetTheorems, FunctionTheorems, SequenceTheorems,
        WellFoundedInduction, TLAPS

\* What an operation has in hand where it is.
ShapedOp(o) ==
    /\ o.kind = "none" <=> o.pc = "idle"
    /\ o.pc = "writing" => o.kind = "register"
    /\ o.pc = "scanning" => o.kind \in {"start", "reload"}
    /\ o.kind \in {"register", "unregister"} => o.name \in Name
    /\ o.kind = "register" => o.code \in Code

\* A tool that awaits something knows which skill it is about; register_skill
\* runs for a tool that publishes.
ShapedDraft(a) ==
    /\ draft[a].pc # "none" => draft[a].name \in Name /\ draft[a].code \in Code
    /\ op[a].kind = "register" => draft[a].pc = "registering"

Shape ==
    /\ \A a \in Agent : ShapedOp(op[a]) /\ ShapedDraft(a)
    /\ IsFiniteSet({n \in Name : disk[n] # Absent})

\* What was announced last is still what its file holds.
DeployedHolds == \A n \in Name : deployed[n] # Absent => disk[n] = deployed[n] /\ Loads(n)

\* a has handled the announcement of n.
Told(a, n) == deployed[n] # Absent /\ Sole(n) /\ ~ notice[a]

\* Then a has the skill, or a load_all under way is going to find it; and no
\* removal under way is going to take it from the registry.
Known(a, n) ==
    LET c == deployed[n]
    IN  /\ ~ Loading(a) /\ ~ failed[a] =>
              brain[a][Declares[c]] = c /\ skills[a][Declares[c]] = c
        /\ Loading(a) /\ op[a].pc \in {"opening", "filling", "replacing", "ending"} =>
              \E i \in DOMAIN op[a].list : op[a].list[i].file = n
        /\ op[a].kind = "unregister" => op[a].name # Declares[c]

AllKnown == \A a \in Agent, n \in Name : Told(a, n) => Known(a, n)

\* How far an operation has come that no other process disturbed: with the code,
Placed(a) ==
    /\ op[a].kind = "register" =>
           disk[op[a].name] = IF op[a].pc = "writing" THEN Torn ELSE op[a].code
    /\ op[a].kind = "unregister" => disk[op[a].name] = Absent

\* ... with the list of entries,
Listed(a) ==
    LET list == op[a].list
    IN  op[a].pc \in {"opening", "filling", "replacing", "ending"} =>
            /\ Loading(a) => \A n \in Name : Loads(n) =>
                                 \E i \in DOMAIN list : list[i].file = n
            /\ op[a].kind = "register" => \E i \in DOMAIN list : list[i].name = op[a].name
            /\ op[a].kind = "unregister" => \A i \in DOMAIN list : list[i].name # op[a].name

\* ... and with registry.json.
Saved(a) ==
    /\ op[a].pc = "scanning" => op[a].list = Entries
    /\ op[a].pc = "filling" => tmp = Torn /\ op[a].fd = "tmp"
    /\ op[a].pc = "replacing" => tmp = op[a].list
    /\ op[a].pc = "ending" => Entries = op[a].list

AloneSoFar ==
    \A a \in Agent : ~ IsIdle(a) /\ ~ disturbed[a] => Placed(a) /\ Listed(a) /\ Saved(a)

\* The inductive invariant.
Inv == TypeOK /\ Shape /\ DeployedHolds /\ AllKnown /\ AloneSoFar

USE SkillRegistryAssumption, SkillsAssumption

----------------------------------------------------------------------------
(***************************************************************************)
(* Lists of entries.                                                       *)
(***************************************************************************)

\* A set of positions has a last one.
LEMMA Largest ==
    ASSUME NEW n \in Nat, NEW S \in SUBSET (1..n), S # {}
    PROVE  \E m \in S : \A i \in S : i <= m
<1> DEFINE T == {n - i : i \in S}
           R == OpToRel(<, Nat)
<1>1. T \subseteq Nat /\ T # {}
  <2>1. \A i \in S : i \in Nat /\ n - i \in Nat
    OBVIOUS
  <2> QED
    BY <2>1
<1>2. \E k \in T : \A j \in T : ~ (<<j, k>> \in R)
  <2> HIDE DEF T, R
  <2>1. IsWellFoundedOn(R, Nat)
    BY NatLessThanWellFounded DEF R
  <2> QED
    BY <1>1, <2>1, WFMin
<1>3. PICK k \in T : \A j \in T : ~ (j < k)
  BY <1>1, <1>2 DEF OpToRel
<1>4. PICK m \in S : k = n - m
  OBVIOUS
<1>5. ASSUME NEW i \in S PROVE i <= m
  <2>1. n - i \in T
    OBVIOUS
  <2>2. ~ (n - i < n - m)
    BY <1>3, <1>4, <2>1
  <2> QED
    BY <2>2
<1> QED
  BY <1>5

\* A finite set as a sequence has all elements of the set and no others.
LEMMA SetToSeqOK ==
    ASSUME NEW S, IsFiniteSet(S)
    PROVE  /\ SetToSeq(S) \in Seq(S)
           /\ \A x \in S : \E i \in DOMAIN SetToSeq(S) : SetToSeq(S)[i] = x
<1> DEFINE k == Cardinality(S)
           s == SetToSeq(S)
<1>1. k \in Nat /\ ExistsBijection(1..k, S)
  BY FS_CardinalityType
<1>2. \E f \in [1..k -> S] : IsInjective(f)
  BY <1>1 DEF ExistsBijection, Bijection, Injection
<1>3. s \in [1..k -> S] /\ IsInjective(s)
  BY <1>2 DEF SetToSeq
<1> HIDE DEF s
<1>4. s \in Seq(S)
  <2> HIDE DEF k
  <2> QED
    BY <1>1, <1>3
<1>5. ASSUME NEW x \in S, \A i \in DOMAIN s : s[i] # x PROVE FALSE
  <2>1. s \in [1..k -> S \ {x}]
    BY <1>3, <1>5
  <2>2. IsFiniteSet(1..k) /\ Cardinality(1..k) = k
    BY <1>1, FS_Interval
  <2>3. /\ IsFiniteSet(S \ {x}) /\ Cardinality(S \ {x}) = k - 1
        /\ Cardinality(S \ {x}) \in Nat
    BY FS_RemoveElement, FS_CardinalityType
  <2>4. \E i, j \in 1..k : i # j /\ s[i] = s[j]
    <3> DEFINE D == 1..k
               T == S \ {x}
    <3>1. Cardinality(T) < Cardinality(D) /\ IsFiniteSet(D) /\ IsFiniteSet(T) /\ s \in [D -> T]
      BY <1>1, <2>1, <2>2, <2>3
    <3> HIDE DEF D, T
    <3>2. \E i, j \in D : i # j /\ s[i] = s[j]
      BY <3>1, FS_PigeonHole
    <3> QED
      BY <3>2 DEF D
  <2> QED
    BY <1>3, <2>4 DEF IsInjective
<1> QED
  BY <1>4, <1>5 DEF s

\* An entry more, if the name has none.
LEMMA WithEntryOK ==
    ASSUME NEW list \in Seq(Entry), NEW n \in Name
    PROVE  /\ WithEntry(list, n) \in Seq(Entry)
           /\ \E i \in DOMAIN WithEntry(list, n) : WithEntry(list, n)[i].name = n
<1> DEFINE e == [name |-> n, file |-> n]
<1>1. e \in Entry /\ e.name = n
  BY DEF Entry
<1>2. CASE \E i \in DOMAIN list : list[i].name = n
  BY <1>2 DEF WithEntry
<1>3. CASE ~ \E i \in DOMAIN list : list[i].name = n
  <2>1. WithEntry(list, n) = Append(list, e)
    BY <1>3 DEF WithEntry
  <2> HIDE DEF e
  <2>2. /\ Append(list, e) \in Seq(Entry)
        /\ Len(list) + 1 \in DOMAIN Append(list, e)
        /\ Append(list, e)[Len(list) + 1] = e
    BY <1>1
  <2> QED
    BY <1>1, <2>1, <2>2
<1> QED
  BY <1>2, <1>3

\* No entry of the name is left, nor anything that was not there.
LEMMA WithoutEntryOK ==
    ASSUME NEW list \in Seq(Entry), NEW n, NEW rest \in WithoutEntry(list, n)
    PROVE  /\ rest \in Seq(Entry)
           /\ \A i \in DOMAIN rest : rest[i].name # n
           /\ list = <<>> => rest = <<>>
<1> DEFINE keep == {i \in DOMAIN list : list[i].name # n}
           k == Cardinality(keep)
<1>1. IsFiniteSet(keep) /\ k \in Nat
  <2>1. IsFiniteSet(1..Len(list))
    BY FS_Interval
  <2>2. keep \in SUBSET (1..Len(list))
    OBVIOUS
  <2> QED
    BY <2>1, <2>2, FS_Subset, FS_CardinalityType
<1>2. PICK at \in Bijection(1..k, keep) : rest = [i \in DOMAIN at |-> list[at[i]]]
  BY DEF WithoutEntry
<1>3. at \in [1..k -> keep] /\ rest = [i \in 1..k |-> list[at[i]]]
  <2> HIDE DEF keep, k
  <2>1. at \in [1..k -> keep]
    BY DEF Bijection, Injection
  <2> QED
    BY <1>2, <2>1
<1>4. \A i \in 1..k : rest[i] \in Entry /\ rest[i].name # n
  <2> HIDE DEF k
  <2>1. \A i \in keep : list[i] \in Entry /\ list[i].name # n
    OBVIOUS
  <2> HIDE DEF keep
  <2> QED
    BY <1>3, <2>1
<1>5. rest \in Seq(Entry)
  <2> HIDE DEF keep, k
  <2> QED
    BY <1>1, <1>3, <1>4
<1>6. ASSUME list = <<>> PROVE rest = <<>>
  <2>1. keep = {}
    BY <1>6
  <2>2. k = 0
    BY <2>1, FS_EmptySet
  <2> HIDE DEF keep, k
  <2>3. Len(rest) = 0
    BY <1>3, <2>2
  <2> QED
    BY <1>5, <2>3
<1> QED
  BY <1>3, <1>4, <1>5, <1>6

\* Whatever registry.json is, the code reads a list.
LEMMA EntriesOK ==
    ASSUME reg \in Listing
    PROVE  /\ Entries \in Seq(Entry)
           /\ reg \in Seq(Entry) => Entries = reg
           /\ reg \in {Absent, Torn} => Entries = <<>>
BY DEF Entries, Listing

\* A skill is loaded from a file of the list that declares its name.
LEMMA LoadedFromOK ==
    ASSUME disk \in [Name -> Code \cup {Absent, Torn}], NEW list \in Seq(Entry)
    PROVE  /\ LoadedFrom(list) \in Loaded
           /\ \A n \in Name : LoadedFrom(list)[n] # Absent =>
                  \E i \in DOMAIN list :
                      /\ list[i].file \in Name /\ Loads(list[i].file)
                      /\ disk[list[i].file] = LoadedFrom(list)[n]
                      /\ Declares[disk[list[i].file]] = n
           /\ \A i \in DOMAIN list : Loads(list[i].file) =>
                  LoadedFrom(list)[Declares[disk[list[i].file]]] # Absent
<1> DEFINE I(n) == {i \in DOMAIN list : /\ Loads(list[i].file)
                                        /\ Declares[disk[list[i].file]] = n}
           last(n) == CHOOSE i \in I(n) : \A j \in I(n) : j <= i
<1>1. \A i \in DOMAIN list : list[i].file \in Name
  <2> HIDE DEF I, last
  <2>1. \A i \in DOMAIN list : list[i] \in Entry
    OBVIOUS
  <2> QED
    BY <2>1 DEF Entry
<1>2. \A n : I(n) # {} => last(n) \in I(n)
  <2> SUFFICES ASSUME NEW n, I(n) # {} PROVE last(n) \in I(n)
    OBVIOUS
  <2> DEFINE S == I(n)
  <2>1. S \in SUBSET (1..Len(list)) /\ Len(list) \in Nat /\ S # {}
    OBVIOUS
  <2> HIDE DEF S
  <2>2. \E i \in S : \A j \in S : j <= i
    BY <2>1, Largest
  <2> QED
    BY <2>2 DEF S
<1>3. \A n \in Name : LoadedFrom(list)[n] = IF I(n) = {} THEN Absent
                                            ELSE disk[list[last(n)].file]
  BY DEF LoadedFrom
<1> HIDE DEF last
<1>4. ASSUME NEW n \in Name, I(n) # {}
      PROVE  \E i \in DOMAIN list :
                 /\ list[i].file \in Name /\ Loads(list[i].file)
                 /\ disk[list[i].file] = LoadedFrom(list)[n]
                 /\ Declares[disk[list[i].file]] = n
                 /\ LoadedFrom(list)[n] \in Code
  BY <1>1, <1>2, <1>3, <1>4 DEF Loads
<1>5. \A i \in DOMAIN list : Loads(list[i].file) =>
          /\ Declares[disk[list[i].file]] \in Name
          /\ I(Declares[disk[list[i].file]]) # {}
  BY <1>1 DEF Loads
<1>6. \A n \in Name : I(n) = {} => LoadedFrom(list)[n] = Absent
  BY <1>3
<1>7. LoadedFrom(list) \in Loaded
  <2>1. \A n \in Name : LoadedFrom(list)[n] \in Code \cup {Absent}
    BY <1>4, <1>6
  <2> HIDE DEF I
  <2> QED
    BY <2>1 DEF LoadedFrom, Loaded
<1> HIDE DEF I
<1> QED
  BY <1>4, <1>5, <1>6, <1>7

----------------------------------------------------------------------------
(***************************************************************************)
(* What a step does to the operations.                                     *)
(***************************************************************************)

\* a goes on, and nobody else moves.
Goes(a, list, pc, fd) ==
    /\ op' \in [Agent -> Operation]
    /\ op'[a].kind = op[a].kind /\ op'[a].name = op[a].name
    /\ op'[a].code = op[a].code /\ op'[a].list = list
    /\ op'[a].pc = pc /\ op'[a].fd = fd
    /\ \A b \in Agent \ {a} : op'[b] = op[b]

\* b does not move, but what it has open may have been renamed.
Stays(b) ==
    /\ op'[b].kind = op[b].kind /\ op'[b].name = op[b].name
    /\ op'[b].code = op[b].code /\ op'[b].list = op[b].list
    /\ op'[b].pc = op[b].pc

\* A list is read or extended,
LEMMA GoesList ==
    ASSUME op \in [Agent -> Operation], NEW a \in Agent,
           NEW list \in Seq(Entry), NEW pc \in Pc,
           op' = [op EXCEPT ![a].list = list, ![a].pc = pc]
    PROVE  Goes(a, list, pc, op[a].fd)
<1>1. op[a] \in Operation
  OBVIOUS
<1>2. op'[a] = [op[a] EXCEPT !.list = list, !.pc = pc]
      /\ \A b \in Agent \ {a} : op'[b] = op[b]
  OBVIOUS
<1>3. op'[a] \in Operation
  BY <1>1, <1>2 DEF Operation
<1>4. op' \in [Agent -> Operation]
  <2>1. DOMAIN op' = Agent
    OBVIOUS
  <2>2. op' = [b \in Agent |-> op'[b]]
    OBVIOUS
  <2> QED
    BY <1>2, <1>3, <2>2
<1> QED
  BY <1>1, <1>2, <1>4 DEF Goes, Operation

\* ... a file is opened or closed,
LEMMA GoesFd ==
    ASSUME op \in [Agent -> Operation], NEW a \in Agent,
           NEW fd \in {"closed", "tmp", "reg", "deleted"}, NEW pc \in Pc,
           op' = [op EXCEPT ![a].fd = fd, ![a].pc = pc]
    PROVE  Goes(a, op[a].list, pc, fd)
<1>1. op[a] \in Operation
  OBVIOUS
<1>2. op'[a] = [op[a] EXCEPT !.fd = fd, !.pc = pc]
      /\ \A b \in Agent \ {a} : op'[b] = op[b]
  OBVIOUS
<1>3. op'[a] \in Operation
  BY <1>1, <1>2 DEF Operation
<1>4. op' \in [Agent -> Operation]
  <2>1. op' = [b \in Agent |-> op'[b]]
    OBVIOUS
  <2> QED
    BY <1>2, <1>3, <2>1
<1> QED
  BY <1>1, <1>2, <1>4 DEF Goes, Operation

\* ... or neither.
LEMMA GoesOn ==
    ASSUME op \in [Agent -> Operation], NEW a \in Agent, NEW pc \in Pc,
           op' = [op EXCEPT ![a].pc = pc]
    PROVE  Goes(a, op[a].list, pc, op[a].fd)
<1>1. op[a] \in Operation
  OBVIOUS
<1>2. op'[a] = [op[a] EXCEPT !.pc = pc]
      /\ \A b \in Agent \ {a} : op'[b] = op[b]
  OBVIOUS
<1>3. op'[a] \in Operation
  BY <1>1, <1>2 DEF Operation
<1>4. op' \in [Agent -> Operation]
  <2>1. op' = [b \in Agent |-> op'[b]]
    OBVIOUS
  <2> QED
    BY <1>2, <1>3, <2>1
<1> QED
  BY <1>1, <1>2, <1>4 DEF Goes, Operation

\* An operation begins, with nothing read and nothing open.
LEMMA RunningOK ==
    ASSUME NEW kind, NEW pc, NEW n, NEW c
    PROVE  Running(kind, pc, n, c) = [kind |-> kind, pc |-> pc, name |-> n, code |-> c,
                                      list |-> <<>>, fd |-> "closed"]
<1> DEFINE r1 == [Idle EXCEPT !.kind = kind]
           r2 == [r1 EXCEPT !.pc = pc]
           r3 == [r2 EXCEPT !.name = n]
<1>1. r1 = [kind |-> kind, pc |-> "idle", name |-> Absent, code |-> Absent,
            list |-> <<>>, fd |-> "closed"]
  BY DEF Idle
<1>2. Running(kind, pc, n, c) = [r3 EXCEPT !.code = c]
  BY DEF Running
<1> HIDE DEF r1
<1>3. r2 = [kind |-> kind, pc |-> pc, name |-> Absent, code |-> Absent,
            list |-> <<>>, fd |-> "closed"]
  BY <1>1
<1> HIDE DEF r2
<1>4. r3 = [kind |-> kind, pc |-> pc, name |-> n, code |-> Absent,
            list |-> <<>>, fd |-> "closed"]
  BY <1>3
<1> HIDE DEF r3
<1> QED
  BY <1>2, <1>4

LEMMA BeginsOp ==
    ASSUME op \in [Agent -> Operation], NEW a \in Agent, NEW r \in Operation,
           op' = [op EXCEPT ![a] = r]
    PROVE  /\ op' \in [Agent -> Operation]
           /\ op'[a] = r
           /\ \A b \in Agent \ {a} : op'[b] = op[b]
OBVIOUS

\* The operation of a ends.
LEMMA EndsOp ==
    ASSUME op \in [Agent -> Operation], NEW a \in Agent,
           op' = [op EXCEPT ![a] = Idle]
    PROVE  /\ op' \in [Agent -> Operation]
           /\ op'[a].kind = "none" /\ op'[a].pc = "idle"
           /\ \A b \in Agent \ {a} : op'[b] = op[b]
<1>1. Idle \in Operation /\ Idle.kind = "none" /\ Idle.pc = "idle"
  BY DEF Idle, Operation, Kind, Pc
<1> QED
  BY <1>1

\* The files that the entries are missing, as entries.
Added(list) == SetToSeq({[name |-> Declares[disk[n]], file |-> n] :
                             n \in {u \in Unlisted(list) : Loads(u)}})

LEMMA AddedOK ==
    ASSUME TypeOK, Shape, NEW list \in Seq(Entry)
    PROVE  /\ Added(list) \in Seq(Entry) /\ list \o Added(list) \in Seq(Entry)
           /\ \A n \in Name : Loads(n) =>
                  \E i \in DOMAIN (list \o Added(list)) : (list \o Added(list))[i].file = n
           /\ Unlisted(list) = {} => \A n \in Name : Loads(n) =>
                  \E i \in DOMAIN list : list[i].file = n
<1> DEFINE U == {u \in Unlisted(list) : Loads(u)}
           S == {[name |-> Declares[disk[n]], file |-> n] : n \in U}
           f == [n \in U |-> [name |-> Declares[disk[n]], file |-> n]]
           s == SetToSeq(S)
<1>1. U \in SUBSET {n \in Name : disk[n] # Absent}
  BY DEF Unlisted
<1>2. IsFiniteSet(U)
  <2> HIDE DEF U
  <2> QED
    BY <1>1, FS_Subset DEF Shape
<1>3. f \in Surjection(U, S)
  <2>1. f \in [U -> S] /\ \A x \in S : \E n \in U : f[n] = x
    <3> HIDE DEF U
    <3> QED
      OBVIOUS
  <2> HIDE DEF f, S, U
  <2> QED
    BY <2>1 DEF Surjection
<1>4. IsFiniteSet(S)
  <2> HIDE DEF f, S, U
  <2> QED
    BY <1>2, <1>3, FS_Surjection
<1>5. s \in Seq(S) /\ \A x \in S : \E i \in DOMAIN s : s[i] = x
  <2> HIDE DEF S
  <2> QED
    BY <1>4, SetToSeqOK
<1>6. S \subseteq Entry
  <2>1. \A n \in U : n \in Name /\ Declares[disk[n]] \in Name
    BY <1>1 DEF Loads
  <2> HIDE DEF U
  <2> QED
    BY <2>1 DEF Entry
<1>7. Added(list) = s
  BY DEF Added
<1>8. \A n \in U : \E i \in DOMAIN s : s[i].file = n
  <2> SUFFICES ASSUME NEW n \in U PROVE \E i \in DOMAIN s : s[i].file = n
    OBVIOUS
  <2> DEFINE e == [name |-> Declares[disk[n]], file |-> n]
  <2>1. e \in S /\ e.file = n
    OBVIOUS
  <2> HIDE DEF e, s, S, U
  <2> QED
    BY <1>5, <2>1
<1>9. ASSUME NEW n \in Name, Loads(n), n \notin U
      PROVE  \E i \in DOMAIN list : list[i].file = n
  <2>1. disk[n] # Absent
    BY <1>9 DEF Loads
  <2> QED
    BY <1>9, <2>1 DEF Unlisted
<1> HIDE DEF s, f, S
<1>10. s \in Seq(Entry)
  BY <1>5, <1>6
<1>11. list \o s \in Seq(Entry) /\ Len(list \o s) = Len(list) + Len(s)
       /\ \A i \in 1..Len(list) + Len(s) : (list \o s)[i] =
              IF i <= Len(list) THEN list[i] ELSE s[i - Len(list)]
  BY <1>10, ConcatProperties
<1>12. ASSUME NEW n \in Name, Loads(n)
       PROVE  \E i \in DOMAIN (list \o s) : (list \o s)[i].file = n
  <2>1. CASE n \in U
    <3>1. PICK j \in DOMAIN s : s[j].file = n
      BY <1>8, <2>1
    <3>2. j \in 1..Len(s) /\ Len(list) \in Nat /\ Len(s) \in Nat
      BY <1>10, <3>1
    <3>3. /\ Len(list) + j \in 1..Len(list) + Len(s) /\ ~ (Len(list) + j <= Len(list))
          /\ Len(list) + j - Len(list) = j
      BY <3>2
    <3>4. (list \o s)[Len(list) + j] = s[j]
      BY <1>11, <3>3
    <3>5. DOMAIN (list \o s) = 1..Len(list) + Len(s)
      BY <1>11
    <3> QED
      BY <3>1, <3>3, <3>4, <3>5
  <2>2. CASE n \notin U
    <3>1. PICK j \in DOMAIN list : list[j].file = n
      BY <1>9, <1>12, <2>2
    <3>2. j \in 1..Len(list) /\ Len(list) \in Nat /\ Len(s) \in Nat
      BY <1>10, <3>1
    <3>3. j \in 1..Len(list) + Len(s) /\ j <= Len(list)
      BY <3>2
    <3>4. (list \o s)[j] = list[j]
      BY <1>11, <3>3
    <3>5. DOMAIN (list \o s) = 1..Len(list) + Len(s)
      BY <1>11
    <3> QED
      BY <3>1, <3>3, <3>4, <3>5
  <2> QED
    BY <2>1, <2>2
<1>13. Unlisted(list) = {} => U = {}
  OBVIOUS
<1> HIDE DEF U
<1> QED
  BY <1>7, <1>9, <1>10, <1>11, <1>12, <1>13

----------------------------------------------------------------------------
(***************************************************************************)
(* What a step of one agent leaves to the others.                          *)
(***************************************************************************)

\* What an agent knows does not depend on what it has open.
LEMMA KnownKept ==
    ASSUME NEW b \in Agent, NEW n \in Name, Stays(b),
           skills'[b] = skills[b], brain'[b] = brain[b], failed'[b] = failed[b],
           deployed'[n] = deployed[n], Known(b, n)
    PROVE  Known(b, n)'
BY DEF Known, Stays, Loading

\* Where no file changes, nobody is told of anything but by an announcement.
LEMMA ToldKept ==
    ASSUME NEW b \in Agent, NEW n \in Name, disk' = disk, deployed'[n] = deployed[n],
           ~ notice'[b] => ~ notice[b], Told(b, n)'
    PROVE  Told(b, n)
BY DEF Told, Sole, Loads

\* A change of a file ends every announcement that it could make untrue.
LEMMA TouchOK ==
    ASSUME TypeOK, NEW n \in Name, NEW c, NEW names,
           Named(n, c) \subseteq names, Touch(n, names),
           NEW x \in Code \cup {Absent, Torn}, disk' = [disk EXCEPT ![n] = x]
    PROVE  /\ deployed' \in [Name -> Code \cup {Absent}]
           /\ disk' \in [Name -> Code \cup {Absent, Torn}]
           /\ \A m \in Name : deployed'[m] # Absent =>
                  /\ m # n /\ deployed'[m] = deployed[m] /\ disk'[m] = disk[m]
                  /\ Declares[deployed[m]] \notin names
           /\ \A b \in Agent, m \in Name : notice' = notice /\ Told(b, m)' => Told(b, m)
<1>1. deployed \in [Name -> Code \cup {Absent}] /\ disk \in [Name -> Code \cup {Absent, Torn}]
  BY DEF TypeOK, RegistryTypeOK
<1>2. /\ deployed' \in [Name -> Code \cup {Absent}]
      /\ disk' \in [Name -> Code \cup {Absent, Torn}]
      /\ \A m \in Name \ {n} : disk'[m] = disk[m]
  BY <1>1 DEF Touch
<1>3. \A m \in Name : deployed'[m] # Absent =>
          /\ m # n /\ deployed'[m] = deployed[m] /\ disk'[m] = disk[m]
          /\ Declares[deployed[m]] \notin names
  BY <1>1, <1>2 DEF Touch
<1>4. ASSUME NEW b \in Agent, NEW m \in Name, notice' = notice, Told(b, m)'
      PROVE  Told(b, m)
  <2>1. deployed'[m] # Absent /\ ~ notice'[b] /\ Sole(m)'
    BY <1>4 DEF Told
  <2>2. /\ m # n /\ deployed'[m] = deployed[m]
        /\ Declares[deployed[m]] \notin names
    BY <1>3, <2>1
  <2>3. ASSUME NEW k \in Name \ {m}, Loads(k) PROVE Declares[disk[k]] # Declares[deployed[m]]
    <3>1. CASE k = n
      <4>1. disk[n] \in Code
        BY <2>3, <3>1 DEF Loads
      <4>2. Declares[disk[n]] \in Named(n, c)
        BY <4>1 DEF Named
      <4> QED
        BY <2>2, <3>1, <4>2
    <3>2. CASE k # n
      <4>1. disk'[k] = disk[k]
        BY <1>2, <3>2
      <4> QED
        BY <2>1, <2>2, <2>3, <4>1 DEF Sole, Loads
    <3> QED
      BY <3>1, <3>2
  <2> QED
    BY <1>4, <2>1, <2>2, <2>3 DEF Told, Sole
<1> QED
  BY <1>2, <1>3, <1>4

\* A change of a file disturbs all others; a alone goes on as it was.
LEMMA DisturbOK ==
    ASSUME TypeOK, NEW a \in Agent, Disturb(a), \A b \in Agent \ {a} : Stays(b)
    PROVE  /\ disturbed' \in [Agent -> BOOLEAN]
           /\ \A b \in Agent \ {a} : IsIdle(b)' \/ disturbed'[b]
           /\ ~ IsIdle(a) => disturbed'[a] = disturbed[a]
<1>1. disturbed \in [Agent -> BOOLEAN]
  BY DEF TypeOK, RegistryTypeOK
<1>2. \A b \in Agent : disturbed'[b] = IF b = a THEN disturbed[b] /\ ~ IsIdle(a)
                                        ELSE disturbed[b] \/ ~ IsIdle(b)
  BY DEF Disturb
<1>3. \A b \in Agent : disturbed'[b] \in BOOLEAN
  BY <1>1, <1>2
<1>4. disturbed' \in [Agent -> BOOLEAN]
  <2>1. disturbed' = [b \in Agent |-> disturbed'[b]]
    BY DEF Disturb
  <2> QED
    BY <1>3, <2>1
<1>5. \A b \in Agent \ {a} : IsIdle(b)' \/ disturbed'[b]
  BY <1>2 DEF Stays, IsIdle
<1>6. ~ IsIdle(a) => disturbed'[a] = disturbed[a]
  BY <1>1, <1>2
<1> QED
  BY <1>4, <1>5, <1>6

\* An operation that does not move, and whose files do not change, is as far as
\* it was.
LEMMA AloneKept ==
    ASSUME AloneSoFar, NEW b \in Agent, UNCHANGED files,
           op'[b] = op[b], disturbed'[b] = disturbed[b],
           ~ IsIdle(b)', ~ disturbed'[b]
    PROVE  (Placed(b) /\ Listed(b) /\ Saved(b))'
<1>1. disk' = disk /\ reg' = reg /\ tmp' = tmp
  BY DEF files
<1>2. ~ IsIdle(b) /\ ~ disturbed[b]
  BY DEF IsIdle
<1>3. Placed(b) /\ Listed(b) /\ Saved(b)
  BY <1>2 DEF AloneSoFar
<1>4. Placed(b)'
  BY <1>1, <1>3 DEF Placed
<1>5. Listed(b)'
  BY <1>1, <1>3 DEF Listed, Loading, Loads
<1>6. Saved(b)'
  BY <1>1, <1>3 DEF Saved, Entries
<1> QED
  BY <1>4, <1>5, <1>6

----------------------------------------------------------------------------
(***************************************************************************)
(* The steps of an operation that leave the files of code alone.           *)
(***************************************************************************)

toolVars == <<draft, retries, notice, calls, crashes>>
Late == {"opening", "filling", "replacing", "ending"}

\* Such a step of a does not change what anybody is told or has loaded; it may
\* only not lose an entry of the list that load_all has put together.
LEMMA ListStep ==
    ASSUME Inv, NEW a \in Agent, UNCHANGED <<disk, skills, brain, failed, deployed, toolVars>>,
           NEW list \in Seq(Entry), NEW pc \in {"scanning"} \cup Late, NEW fd,
           op' \in [Agent -> Operation],
           op'[a].kind = op[a].kind, op'[a].name = op[a].name, op'[a].code = op[a].code,
           op'[a].list = list, op'[a].pc = pc,
           \A b \in Agent \ {a} : Stays(b),
           ~ IsIdle(a), pc = "scanning" => Loading(a),
           reg' \in Listing, tmp' \in Listing, disturbed' \in [Agent -> BOOLEAN],
           Loading(a) /\ pc \in Late =>
               \/ \A n \in Name : Loads(n) => \E i \in DOMAIN list : list[i].file = n
               \/ op[a].pc \in Late /\ list = op[a].list
    PROVE  TypeOK' /\ Shape' /\ DeployedHolds' /\ AllKnown'
<1>1. /\ disk' = disk /\ skills' = skills /\ brain' = brain /\ failed' = failed
      /\ deployed' = deployed /\ draft' = draft /\ retries' = retries
      /\ notice' = notice /\ calls' = calls /\ crashes' = crashes
  BY DEF toolVars
<1>2. TypeOK'
  BY <1>1 DEF Inv, TypeOK, RegistryTypeOK
<1>3. Shape'
  <2>1. ASSUME NEW b \in Agent PROVE (ShapedOp(op[b]) /\ ShapedDraft(b))'
    <3>1. ShapedOp(op[b]) /\ ShapedDraft(b)
      BY DEF Inv, Shape
    <3>2. CASE b = a
      BY <1>1, <3>1, <3>2 DEF ShapedOp, ShapedDraft, IsIdle, Late, Loading
    <3>3. CASE b # a
      BY <1>1, <3>1, <3>3 DEF ShapedOp, ShapedDraft, Stays
    <3> QED
      BY <3>2, <3>3
  <2> QED
    BY <1>1, <2>1 DEF Inv, Shape
<1>4. DeployedHolds'
  BY <1>1 DEF Inv, DeployedHolds, Loads
<1>5. ASSUME NEW b \in Agent, NEW n \in Name, Told(b, n)' PROVE Known(b, n)'
  <2>1. Told(b, n)
    BY <1>1, <1>5, ToldKept
  <2>2. Known(b, n)
    BY <2>1 DEF Inv, AllKnown
  <2>3. CASE b # a
    BY <1>1, <2>2, <2>3, KnownKept
  <2>4. CASE b = a
    <3>1. Loads(n)
      BY <2>1 DEF Inv, Told, DeployedHolds
    <3>2. (/\ ~ Loading(a) /\ ~ failed[a] =>
              brain[a][Declares[deployed[n]]] = deployed[n]
              /\ skills[a][Declares[deployed[n]]] = deployed[n])'
      BY <1>1, <2>2, <2>4 DEF Known, Loading
    <3>3. (Loading(a) /\ op[a].pc \in Late =>
              \E i \in DOMAIN op[a].list : op[a].list[i].file = n)'
      BY <1>1, <2>2, <2>4, <3>1 DEF Known, Loading, Late
    <3>4. (op[a].kind = "unregister" => op[a].name # Declares[deployed[n]])'
      BY <1>1, <2>2, <2>4 DEF Known
    <3> QED
      BY <2>4, <3>2, <3>3, <3>4 DEF Known, Late
  <2> QED
    BY <2>3, <2>4
<1> QED
  BY <1>2, <1>3, <1>4, <1>5 DEF AllKnown

LEMMA ReadForLoadKeeps ==
    ASSUME Inv, NEW a \in Agent, ReadForLoad(a), UNCHANGED toolVars
    PROVE  Inv'
<1> DEFINE list == Entries
<1>1. TypeOK /\ Shape /\ AloneSoFar /\ op \in [Agent -> Operation] /\ reg \in Listing
  BY DEF Inv, TypeOK, RegistryTypeOK
<1>2. list \in Seq(Entry)
  BY <1>1, EntriesOK
<1>3. op' = [op EXCEPT ![a].list = list, ![a].pc = "scanning"] /\ Loading(a)
      /\ op[a].pc = "reading"
  BY DEF ReadForLoad
<1>4. /\ UNCHANGED files
      /\ disk' = disk /\ reg' = reg /\ tmp' = tmp /\ skills' = skills /\ brain' = brain
      /\ failed' = failed /\ disturbed' = disturbed /\ deployed' = deployed
  BY DEF ReadForLoad, files, ghosts
<1>5. list' = list
  BY <1>4 DEF Entries
<1> HIDE DEF list
<1>6. Goes(a, list, "scanning", op[a].fd)
  BY <1>1, <1>2, <1>3, GoesList DEF Pc
<1>7. TypeOK' /\ Shape' /\ DeployedHolds' /\ AllKnown'
  <2>1. ~ IsIdle(a) /\ \A b \in Agent \ {a} : Stays(b)
    BY <1>3, <1>6 DEF IsIdle, Goes, Stays
  <2>2. reg' \in Listing /\ tmp' \in Listing /\ disturbed' \in [Agent -> BOOLEAN]
    BY <1>1, <1>4 DEF TypeOK, RegistryTypeOK
  <2> QED
    BY <1>2, <1>3, <1>4, <1>6, <2>1, <2>2, ListStep DEF Goes, Late
<1>8. ASSUME NEW b \in Agent, ~ IsIdle(b)', ~ disturbed'[b]
      PROVE  (Placed(b) /\ Listed(b) /\ Saved(b))'
  <2>1. CASE b # a
    BY <1>1, <1>4, <1>6, <1>8, <2>1, AloneKept DEF Goes
  <2>2. CASE b = a
    <3>1. Placed(a) /\ op'[a].kind \in {"start", "reload"}
      BY <1>1, <1>3, <1>4, <1>6, <1>8, <2>2 DEF AloneSoFar, IsIdle, Goes, Loading
    <3>2. Placed(a)' /\ Listed(a)'
      BY <1>6, <3>1 DEF Goes, Placed, Listed
    <3>3. Saved(a)'
      BY <1>5, <1>6 DEF Goes, Saved, list
    <3> QED
      BY <2>2, <3>2, <3>3
  <2> QED
    BY <2>1, <2>2
<1> QED
  BY <1>7, <1>8 DEF Inv, AloneSoFar

LEMMA ReadForRegisterKeeps ==
    ASSUME Inv, NEW a \in Agent, ReadForRegister(a), UNCHANGED toolVars
    PROVE  Inv'
<1> DEFINE list == WithEntry(Entries, op[a].name)
<1>1. TypeOK /\ Shape /\ AloneSoFar /\ op \in [Agent -> Operation] /\ reg \in Listing
  BY DEF Inv, TypeOK, RegistryTypeOK
<1>2. op' = [op EXCEPT ![a].list = list, ![a].pc = "opening"] /\ op[a].kind = "register"
      /\ op[a].pc = "reading"
  BY DEF ReadForRegister, At
<1>3. op[a].name \in Name
  BY <1>1, <1>2 DEF Shape, ShapedOp
<1>4. list \in Seq(Entry) /\ \E i \in DOMAIN list : list[i].name = op[a].name
  BY <1>1, <1>3, EntriesOK, WithEntryOK
<1>5. /\ UNCHANGED files
      /\ disk' = disk /\ reg' = reg /\ tmp' = tmp /\ skills' = skills /\ brain' = brain
      /\ failed' = failed /\ disturbed' = disturbed /\ deployed' = deployed
  BY DEF ReadForRegister, files, ghosts
<1> HIDE DEF list
<1>6. Goes(a, list, "opening", op[a].fd)
  BY <1>1, <1>2, <1>4, GoesList DEF Pc
<1>7. TypeOK' /\ Shape' /\ DeployedHolds' /\ AllKnown'
  <2>1. ~ IsIdle(a) /\ ~ Loading(a) /\ \A b \in Agent \ {a} : Stays(b)
    BY <1>2, <1>6 DEF IsIdle, Loading, Goes, Stays
  <2>2. reg' \in Listing /\ tmp' \in Listing /\ disturbed' \in [Agent -> BOOLEAN]
    BY <1>1, <1>5 DEF TypeOK, RegistryTypeOK
  <2> QED
    BY <1>4, <1>5, <1>6, <2>1, <2>2, ListStep DEF Goes, Late
<1>8. ASSUME NEW b \in Agent, ~ IsIdle(b)', ~ disturbed'[b]
      PROVE  (Placed(b) /\ Listed(b) /\ Saved(b))'
  <2>1. CASE b # a
    BY <1>1, <1>5, <1>6, <1>8, <2>1, AloneKept DEF Goes
  <2>2. CASE b = a
    <3>1. Placed(a)
      BY <1>1, <1>2, <1>5, <1>8, <2>2 DEF AloneSoFar, IsIdle
    <3>2. Placed(a)'
      BY <1>2, <1>5, <1>6, <3>1 DEF Goes, Placed
    <3>3. Listed(a)' /\ Saved(a)'
      BY <1>2, <1>4, <1>6 DEF Goes, Listed, Saved, Loading
    <3> QED
      BY <2>2, <3>2, <3>3
  <2> QED
    BY <2>1, <2>2
<1> QED
  BY <1>7, <1>8 DEF Inv, AloneSoFar

LEMMA ReadForUnregisterKeeps ==
    ASSUME Inv, NEW a \in Agent, ReadForUnregister(a), UNCHANGED toolVars
    PROVE  Inv'
<1> DEFINE unreadable == reg \in {Absent, Torn}
           pc == IF unreadable THEN "ending" ELSE "opening"
<1>1. TypeOK /\ Shape /\ AloneSoFar /\ op \in [Agent -> Operation] /\ reg \in Listing
  BY DEF Inv, TypeOK, RegistryTypeOK
<1>2. PICK rest \in WithoutEntry(Entries, op[a].name) :
          op' = [op EXCEPT ![a].list = rest, ![a].pc = pc]
  BY DEF ReadForUnregister
<1>3. op[a].kind = "unregister" /\ op[a].pc = "reading"
  BY DEF ReadForUnregister, At
<1>4. /\ rest \in Seq(Entry) /\ \A i \in DOMAIN rest : rest[i].name # op[a].name
      /\ unreadable => rest = Entries
  BY <1>1, EntriesOK, WithoutEntryOK
<1>5. /\ UNCHANGED files
      /\ disk' = disk /\ reg' = reg /\ tmp' = tmp /\ skills' = skills /\ brain' = brain
      /\ failed' = failed /\ disturbed' = disturbed /\ deployed' = deployed
  BY DEF ReadForUnregister, files, ghosts
<1>6. pc \in {"ending", "opening"} /\ (pc = "ending" => unreadable)
  OBVIOUS
<1>7. Entries' = Entries
  BY <1>5 DEF Entries
<1> HIDE DEF pc, unreadable
<1>8. Goes(a, rest, pc, op[a].fd)
  BY <1>1, <1>2, <1>4, <1>6, GoesList DEF Pc
<1>9. TypeOK' /\ Shape' /\ DeployedHolds' /\ AllKnown'
  <2>1. ~ IsIdle(a) /\ ~ Loading(a) /\ \A b \in Agent \ {a} : Stays(b)
    BY <1>3, <1>8 DEF IsIdle, Loading, Goes, Stays
  <2>2. reg' \in Listing /\ tmp' \in Listing /\ disturbed' \in [Agent -> BOOLEAN]
    BY <1>1, <1>5 DEF TypeOK, RegistryTypeOK
  <2>3. pc \in {"scanning"} \cup Late /\ pc # "scanning"
    BY <1>6 DEF Late
  <2> QED
    BY <1>4, <1>5, <1>8, <2>1, <2>2, <2>3, ListStep DEF Goes
<1>10. ASSUME NEW b \in Agent, ~ IsIdle(b)', ~ disturbed'[b]
       PROVE  (Placed(b) /\ Listed(b) /\ Saved(b))'
  <2>1. CASE b # a
    BY <1>1, <1>5, <1>8, <1>10, <2>1, AloneKept DEF Goes
  <2>2. CASE b = a
    <3>1. Placed(a)
      BY <1>1, <1>3, <1>5, <1>10, <2>2 DEF AloneSoFar, IsIdle
    <3>2. Placed(a)'
      BY <1>3, <1>5, <1>8, <3>1 DEF Goes, Placed
    <3>3. Listed(a)'
      BY <1>3, <1>4, <1>8 DEF Goes, Listed, Loading
    <3>4. Saved(a)'
      BY <1>4, <1>6, <1>7, <1>8 DEF Goes, Saved
    <3> QED
      BY <2>2, <3>2, <3>3, <3>4
  <2> QED
    BY <2>1, <2>2
<1> QED
  BY <1>9, <1>10 DEF Inv, AloneSoFar

LEMMA ScanKeeps ==
    ASSUME Inv, NEW a \in Agent, Scan(a), UNCHANGED toolVars
    PROVE  Inv'
<1> DEFINE old == op[a].list
           list == old \o Added(old)
           pc == IF Unlisted(old) = {} THEN "ending" ELSE "opening"
<1>1. /\ TypeOK /\ Shape /\ AloneSoFar /\ op \in [Agent -> Operation] /\ reg \in Listing
      /\ old \in Seq(Entry)
  BY DEF Inv, TypeOK, RegistryTypeOK, Operation
<1>2. op' = [op EXCEPT ![a].list = list, ![a].pc = pc] /\ op[a].pc = "scanning"
  BY <1>1 DEF Scan, Added
<1>3. Loading(a)
  BY <1>1, <1>2 DEF Shape, ShapedOp, Loading
<1>4. /\ list \in Seq(Entry)
      /\ \A n \in Name : Loads(n) => \E i \in DOMAIN list : list[i].file = n
  BY <1>1, AddedOK
<1>5. pc \in {"ending", "opening"} /\ (pc = "ending" => list = old)
  <2>1. ASSUME Unlisted(old) = {} PROVE list = old
    <3> DEFINE S == {[name |-> Declares[disk[n]], file |-> n] :
                        n \in {u \in Unlisted(old) : Loads(u)}}
    <3>1. S = {}
      BY <2>1
    <3>2. Added(old) = SetToSeq(S)
      BY DEF Added
    <3>3. SetToSeq(S) \in Seq({}) /\ SetToSeq(S) \in Seq(S)
      <4> HIDE DEF S
      <4> QED
        BY <3>1, FS_EmptySet, SetToSeqOK
    <3> HIDE DEF S
    <3>4. Added(old) \in Seq({})
      BY <3>2, <3>3
    <3>5. Added(old) = <<>>
      BY <3>4
    <3> QED
      BY <1>1, <3>5
  <2> QED
    BY <2>1
<1>6. /\ UNCHANGED files
      /\ disk' = disk /\ reg' = reg /\ tmp' = tmp /\ skills' = skills /\ brain' = brain
      /\ failed' = failed /\ disturbed' = disturbed /\ deployed' = deployed
  BY DEF Scan, files, ghosts
<1>7. Entries' = Entries
  BY <1>6 DEF Entries
<1> HIDE DEF pc, list
<1>8. Goes(a, list, pc, op[a].fd)
  BY <1>1, <1>2, <1>4, <1>5, GoesList DEF Pc
<1>9. TypeOK' /\ Shape' /\ DeployedHolds' /\ AllKnown'
  <2>1. ~ IsIdle(a) /\ \A b \in Agent \ {a} : Stays(b)
    BY <1>2, <1>8 DEF IsIdle, Goes, Stays
  <2>2. reg' \in Listing /\ tmp' \in Listing /\ disturbed' \in [Agent -> BOOLEAN]
    BY <1>1, <1>6 DEF TypeOK, RegistryTypeOK
  <2>3. pc \in {"scanning"} \cup Late
    BY <1>5 DEF Late
  <2> QED
    BY <1>3, <1>4, <1>6, <1>8, <2>1, <2>2, <2>3, ListStep DEF Goes
<1>10. ASSUME NEW b \in Agent, ~ IsIdle(b)', ~ disturbed'[b]
       PROVE  (Placed(b) /\ Listed(b) /\ Saved(b))'
  <2>1. CASE b # a
    BY <1>1, <1>6, <1>8, <1>10, <2>1, AloneKept DEF Goes
  <2>2. CASE b = a
    <3>1. Placed(a) /\ Saved(a)
      BY <1>1, <1>2, <1>6, <1>10, <2>2 DEF AloneSoFar, IsIdle
    <3>2. Placed(a)'
      BY <1>3, <1>6, <1>8, <3>1 DEF Goes, Placed, Loading
    <3>3. Listed(a)'
      BY <1>3, <1>4, <1>6, <1>8 DEF Goes, Listed, Loading, Loads
    <3>4. Saved(a)'
      BY <1>2, <1>5, <1>7, <1>8, <3>1 DEF Goes, Saved
    <3> QED
      BY <2>2, <3>2, <3>3, <3>4
  <2> QED
    BY <2>1, <2>2
<1> QED
  BY <1>9, <1>10 DEF Inv, AloneSoFar

LEMMA OpenTmpKeeps ==
    ASSUME Inv, NEW a \in Agent, OpenTmp(a), UNCHANGED toolVars
    PROVE  Inv'
<1>1. /\ TypeOK /\ Shape /\ AloneSoFar /\ op \in [Agent -> Operation]
      /\ op[a].list \in Seq(Entry)
  BY DEF Inv, TypeOK, RegistryTypeOK, Operation
<1>2. /\ op' = [op EXCEPT ![a].fd = "tmp", ![a].pc = "filling"] /\ op[a].pc = "opening"
      /\ disk' = disk /\ reg' = reg /\ tmp' = Torn /\ skills' = skills /\ brain' = brain
      /\ failed' = failed /\ deployed' = deployed /\ Disturb(a)
  BY DEF OpenTmp
<1>3. Goes(a, op[a].list, "filling", "tmp")
  BY <1>1, <1>2, GoesFd DEF Pc
<1>4. ~ IsIdle(a) /\ \A b \in Agent \ {a} : Stays(b)
  BY <1>2, <1>3 DEF IsIdle, Goes, Stays
<1>5. /\ disturbed' \in [Agent -> BOOLEAN] /\ disturbed'[a] = disturbed[a]
      /\ \A b \in Agent \ {a} : IsIdle(b)' \/ disturbed'[b]
  BY <1>1, <1>2, <1>4, DisturbOK
<1>6. TypeOK' /\ Shape' /\ DeployedHolds' /\ AllKnown'
  <2>1. reg' \in Listing /\ tmp' \in Listing
    BY <1>1, <1>2 DEF TypeOK, RegistryTypeOK, Listing
  <2> QED
    BY <1>1, <1>2, <1>3, <1>4, <1>5, <2>1, ListStep DEF Goes, Late
<1>7. ASSUME NEW b \in Agent, ~ IsIdle(b)', ~ disturbed'[b]
      PROVE  (Placed(b) /\ Listed(b) /\ Saved(b))'
  <2>1. b = a
    BY <1>5, <1>7
  <2>2. Placed(a) /\ Listed(a)
    BY <1>1, <1>4, <1>5, <1>7, <2>1 DEF AloneSoFar
  <2>3. Placed(a)'
    BY <1>2, <1>3, <2>2 DEF Goes, Placed
  <2>4. Listed(a)'
    BY <1>2, <1>3, <2>2 DEF Goes, Listed, Loading, Loads
  <2>5. Saved(a)'
    BY <1>2, <1>3 DEF Goes, Saved
  <2> QED
    BY <2>1, <2>3, <2>4, <2>5
<1> QED
  BY <1>6, <1>7 DEF Inv, AloneSoFar

LEMMA FillTmpKeeps ==
    ASSUME Inv, NEW a \in Agent, FillTmp(a), UNCHANGED toolVars
    PROVE  Inv'
<1>1. /\ TypeOK /\ Shape /\ AloneSoFar /\ op \in [Agent -> Operation]
      /\ op[a].list \in Seq(Entry) /\ reg \in Listing /\ tmp \in Listing
  BY DEF Inv, TypeOK, RegistryTypeOK, Operation
<1>2. /\ op' = [op EXCEPT ![a].fd = "closed", ![a].pc = "replacing"] /\ op[a].pc = "filling"
      /\ disk' = disk /\ skills' = skills /\ brain' = brain
      /\ failed' = failed /\ deployed' = deployed /\ Disturb(a)
  BY DEF FillTmp
<1>3. Goes(a, op[a].list, "replacing", "closed")
  BY <1>1, <1>2, GoesFd DEF Pc
<1>4. ~ IsIdle(a) /\ \A b \in Agent \ {a} : Stays(b)
  BY <1>2, <1>3 DEF IsIdle, Goes, Stays
<1>5. /\ disturbed' \in [Agent -> BOOLEAN] /\ disturbed'[a] = disturbed[a]
      /\ \A b \in Agent \ {a} : IsIdle(b)' \/ disturbed'[b]
  BY <1>1, <1>2, <1>4, DisturbOK
<1>6. /\ reg' \in Listing /\ tmp' \in Listing
      /\ op[a].fd = "tmp" /\ tmp = Torn => tmp' = op[a].list
  <2>1. CASE op[a].fd = "tmp"
    <3>1. tmp' \in Written(tmp, op[a].list) /\ reg' = reg
      BY <2>1 DEF FillTmp
    <3> QED
      BY <1>1, <3>1 DEF Written, Listing
  <2>2. CASE op[a].fd = "reg"
    <3>1. reg' \in Written(reg, op[a].list) /\ tmp' = tmp
      BY <2>2 DEF FillTmp
    <3> QED
      BY <1>1, <2>2, <3>1 DEF Written, Listing
  <2>3. CASE op[a].fd \notin {"tmp", "reg"}
    <3>1. reg' = reg /\ tmp' = tmp
      BY <2>3 DEF FillTmp
    <3> QED
      BY <1>1, <2>3, <3>1
  <2> QED
    BY <2>1, <2>2, <2>3
<1>7. TypeOK' /\ Shape' /\ DeployedHolds' /\ AllKnown'
  BY <1>1, <1>2, <1>3, <1>4, <1>5, <1>6, ListStep DEF Goes, Late
<1>8. ASSUME NEW b \in Agent, ~ IsIdle(b)', ~ disturbed'[b]
      PROVE  (Placed(b) /\ Listed(b) /\ Saved(b))'
  <2>1. b = a
    BY <1>5, <1>8
  <2>2. Placed(a) /\ Listed(a) /\ Saved(a)
    BY <1>1, <1>4, <1>5, <1>8, <2>1 DEF AloneSoFar
  <2>3. Placed(a)'
    BY <1>2, <1>3, <2>2 DEF Goes, Placed
  <2>4. Listed(a)'
    BY <1>2, <1>3, <2>2 DEF Goes, Listed, Loading, Loads
  <2>5. Saved(a)'
    BY <1>2, <1>3, <1>6, <2>2 DEF Goes, Saved
  <2> QED
    BY <2>1, <2>3, <2>4, <2>5
<1> QED
  BY <1>7, <1>8 DEF Inv, AloneSoFar

\* os.replace moves what others have open without moving them.
LEMMA Renames ==
    ASSUME op \in [Agent -> Operation], NEW a \in Agent, Replace(a)
    PROVE  /\ op' \in [Agent -> Operation]
           /\ op'[a].kind = op[a].kind /\ op'[a].name = op[a].name
           /\ op'[a].code = op[a].code /\ op'[a].list = op[a].list
           /\ op'[a].pc = "ending"
           /\ \A b \in Agent \ {a} : Stays(b)
<1> DEFINE done == [op[a] EXCEPT !.pc = "ending"]
           moved(b) == [op[b] EXCEPT !.fd = Renamed(@)]
<1>1. op' = [b \in Agent |-> IF b = a THEN done ELSE moved(b)]
  BY DEF Replace
<1>2. /\ done \in Operation /\ done.pc = "ending"
      /\ done.kind = op[a].kind /\ done.name = op[a].name
      /\ done.code = op[a].code /\ done.list = op[a].list
  <2>1. op[a] \in Operation
    OBVIOUS
  <2> QED
    BY <2>1 DEF Operation, Pc
<1>3. ASSUME NEW b \in Agent
      PROVE  /\ moved(b) \in Operation /\ moved(b).pc = op[b].pc
             /\ moved(b).kind = op[b].kind /\ moved(b).name = op[b].name
             /\ moved(b).code = op[b].code /\ moved(b).list = op[b].list
  <2>1. op[b] \in Operation
    OBVIOUS
  <2>2. Renamed(op[b].fd) \in {"closed", "tmp", "reg", "deleted"}
    BY <2>1 DEF Renamed, Operation
  <2> QED
    BY <2>1, <2>2 DEF Operation
<1> HIDE DEF done, moved
<1>4. op' \in [Agent -> Operation]
  BY <1>1, <1>2, <1>3
<1>5. op'[a] = done /\ \A b \in Agent \ {a} : op'[b] = moved(b)
  BY <1>1
<1> QED
  BY <1>2, <1>3, <1>4, <1>5 DEF Stays

LEMMA ReplaceKeeps ==
    ASSUME Inv, NEW a \in Agent, Replace(a), UNCHANGED toolVars
    PROVE  Inv'
<1>1. /\ TypeOK /\ Shape /\ AloneSoFar /\ op \in [Agent -> Operation]
      /\ op[a].list \in Seq(Entry) /\ reg \in Listing /\ tmp \in Listing
  BY DEF Inv, TypeOK, RegistryTypeOK, Operation
<1>2. /\ op[a].pc = "replacing" /\ reg' = tmp /\ tmp' = Absent
      /\ disk' = disk /\ skills' = skills /\ brain' = brain
      /\ failed' = failed /\ deployed' = deployed /\ Disturb(a)
  BY DEF Replace
<1>3. /\ op' \in [Agent -> Operation]
      /\ op'[a].kind = op[a].kind /\ op'[a].name = op[a].name
      /\ op'[a].code = op[a].code /\ op'[a].list = op[a].list
      /\ op'[a].pc = "ending"
      /\ \A b \in Agent \ {a} : Stays(b)
  BY <1>1, Renames
<1>4. ~ IsIdle(a)
  BY <1>2 DEF IsIdle
<1>5. /\ disturbed' \in [Agent -> BOOLEAN] /\ disturbed'[a] = disturbed[a]
      /\ \A b \in Agent \ {a} : IsIdle(b)' \/ disturbed'[b]
  BY <1>1, <1>2, <1>3, <1>4, DisturbOK
<1>6. TypeOK' /\ Shape' /\ DeployedHolds' /\ AllKnown'
  <2>1. reg' \in Listing /\ tmp' \in Listing
    BY <1>1, <1>2 DEF Listing
  <2> QED
    BY <1>1, <1>2, <1>3, <1>4, <1>5, <2>1, ListStep DEF Late
<1>7. ASSUME NEW b \in Agent, ~ IsIdle(b)', ~ disturbed'[b]
      PROVE  (Placed(b) /\ Listed(b) /\ Saved(b))'
  <2>1. b = a
    BY <1>5, <1>7
  <2>2. Placed(a) /\ Listed(a) /\ Saved(a)
    BY <1>1, <1>4, <1>5, <1>7, <2>1 DEF AloneSoFar
  <2>3. Placed(a)'
    BY <1>2, <1>3, <2>2 DEF Placed
  <2>4. Listed(a)'
    BY <1>2, <1>3, <2>2 DEF Listed, Loading, Loads
  <2>5. Saved(a)'
    <3>1. reg' = op[a].list /\ op[a].list \notin {Absent, Torn}
      BY <1>1, <1>2, <2>2 DEF Saved
    <3>2. Entries' = op[a].list
      BY <3>1 DEF Entries
    <3> QED
      BY <1>3, <3>2 DEF Saved
  <2> QED
    BY <2>1, <2>3, <2>4, <2>5
<1> QED
  BY <1>6, <1>7 DEF Inv, AloneSoFar

----------------------------------------------------------------------------
(***************************************************************************)
(* The steps that change a file of code.                                   *)
(***************************************************************************)

LEMMA WriteFileKeeps ==
    ASSUME Inv, NEW a \in Agent, WriteFile(a), UNCHANGED toolVars
    PROVE  Inv'
<1> DEFINE n == op[a].name
           c == op[a].code
<1>1. /\ TypeOK /\ Shape /\ AloneSoFar /\ op \in [Agent -> Operation]
      /\ op[a].list \in Seq(Entry) /\ disk \in [Name -> Code \cup {Absent, Torn}]
  BY DEF Inv, TypeOK, RegistryTypeOK, Operation
<1>2. /\ op' = [op EXCEPT ![a].pc = "reading"] /\ op[a].pc = "writing"
      /\ Touch(n, Named(n, c)) /\ Disturb(a)
      /\ reg' = reg /\ tmp' = tmp /\ skills' = skills /\ brain' = brain /\ failed' = failed
  BY DEF WriteFile
<1>3. op[a].kind = "register" /\ n \in Name /\ c \in Code
  BY <1>1, <1>2 DEF Shape, ShapedOp
<1>4. PICK x \in Code \cup {Absent, Torn} :
          /\ disk' = [disk EXCEPT ![n] = x]
          /\ x = Absent <=> disk[n] = Absent
          /\ disk[n] = Torn => x = c
  <2>1. CASE disk[n] = Absent
    <3>1. disk' = [disk EXCEPT ![n] = Absent]
      BY <2>1 DEF WriteFile
    <3> QED
      BY <2>1, <3>1
  <2>2. CASE disk[n] = Torn
    <3>1. disk' = [disk EXCEPT ![n] = c]
      BY <2>2 DEF WriteFile
    <3> QED
      BY <1>3, <2>2, <3>1
  <2>3. CASE disk[n] \notin {Absent, Torn}
    <3>1. \E y \in {c, Torn} : disk' = [disk EXCEPT ![n] = y]
      BY <2>3 DEF WriteFile
    <3> QED
      BY <1>3, <2>3, <3>1
  <2> QED
    BY <2>1, <2>2, <2>3
<1> HIDE DEF n, c
<1>5. /\ deployed' \in [Name -> Code \cup {Absent}]
      /\ disk' \in [Name -> Code \cup {Absent, Torn}]
      /\ \A m \in Name : deployed'[m] # Absent =>
             deployed'[m] = deployed[m] /\ disk'[m] = disk[m]
      /\ \A b \in Agent, m \in Name : notice' = notice /\ Told(b, m)' => Told(b, m)
  <2> DEFINE names == Named(n, c)
  <2>1. Touch(n, names) /\ Named(n, c) \subseteq names
    BY <1>2
  <2> HIDE DEF names
  <2> QED
    BY <1>1, <1>3, <1>4, <2>1, TouchOK
<1>6. Goes(a, op[a].list, "reading", op[a].fd)
  BY <1>1, <1>2, GoesOn DEF Pc
<1>7. ~ IsIdle(a) /\ \A b \in Agent \ {a} : Stays(b)
  BY <1>2, <1>6 DEF IsIdle, Goes, Stays
<1>8. /\ disturbed' \in [Agent -> BOOLEAN] /\ disturbed'[a] = disturbed[a]
      /\ \A b \in Agent \ {a} : IsIdle(b)' \/ disturbed'[b]
  BY <1>1, <1>2, <1>7, DisturbOK
<1>9. /\ draft' = draft /\ retries' = retries
      /\ notice' = notice /\ calls' = calls /\ crashes' = crashes
  BY DEF toolVars
<1>10. disk'[n] = x /\ \A m \in Name \ {n} : disk'[m] = disk[m]
  BY <1>1, <1>3, <1>4
<1>11. TypeOK'
  BY <1>1, <1>2, <1>5, <1>6, <1>8, <1>9 DEF TypeOK, RegistryTypeOK, Goes
<1>12. Shape'
  <2>1. ASSUME NEW b \in Agent PROVE (ShapedOp(op[b]) /\ ShapedDraft(b))'
    <3>1. ShapedOp(op[b]) /\ ShapedDraft(b)
      BY <1>1 DEF Shape
    <3>2. CASE b = a
      BY <1>3, <1>6, <1>9, <3>1, <3>2 DEF ShapedOp, ShapedDraft, Goes
    <3>3. CASE b # a
      BY <1>7, <1>9, <3>1, <3>3 DEF ShapedOp, ShapedDraft, Stays
    <3> QED
      BY <3>2, <3>3
  <2>2. {m \in Name : disk'[m] # Absent} = {m \in Name : disk[m] # Absent}
    BY <1>4, <1>10
  <2> QED
    BY <1>1, <2>1, <2>2 DEF Shape
<1>13. DeployedHolds'
  BY <1>5 DEF Inv, DeployedHolds, Loads
<1>14. ASSUME NEW b \in Agent, NEW m \in Name, Told(b, m)' PROVE Known(b, m)'
  <2>1. Known(b, m) /\ deployed'[m] = deployed[m]
    BY <1>5, <1>9, <1>14 DEF Inv, AllKnown, Told
  <2>2. CASE b # a
    BY <1>2, <1>7, <2>1, <2>2, KnownKept
  <2>3. CASE b = a
    BY <1>2, <1>3, <1>6, <2>1, <2>3 DEF Known, Loading, Goes
  <2> QED
    BY <2>2, <2>3
<1>15. ASSUME NEW b \in Agent, ~ IsIdle(b)', ~ disturbed'[b]
       PROVE  (Placed(b) /\ Listed(b) /\ Saved(b))'
  <2>1. b = a
    BY <1>8, <1>15
  <2>2. Placed(a)
    BY <1>1, <1>7, <1>8, <1>15, <2>1 DEF AloneSoFar
  <2>3. x = c
    BY <1>2, <1>3, <1>4, <2>2 DEF Placed, n
  <2>4. Placed(a)' /\ Listed(a)' /\ Saved(a)'
    BY <1>3, <1>6, <1>10, <2>3 DEF Placed, Listed, Saved, Goes, n, c
  <2> QED
    BY <2>1, <2>4
<1> QED
  BY <1>11, <1>12, <1>13, <1>14, <1>15 DEF Inv, AllKnown, AloneSoFar

\* register_skill begins with a tool that publishes.
LEMMA PublishKeeps ==
    ASSUME Inv, NEW a \in Agent, Publish(a)
    PROVE  Inv'
<1>1. /\ TypeOK /\ Shape /\ op \in [Agent -> Operation]
      /\ disk \in [Name -> Code \cup {Absent, Torn}] /\ draft \in [Agent -> Draft]
  BY DEF Inv, TypeOK, RegistryTypeOK
<1>2. IsIdle(a) /\ draft[a].pc = "testing"
  BY DEF Publish
<1>3. PICK n \in Name, c \in Code : n = draft[a].name /\ c = draft[a].code
  BY <1>1, <1>2 DEF Shape, ShapedDraft
<1>4. /\ IsIdle(a) /\ draft[a].pc = "testing"
      /\ op' = [op EXCEPT ![a] = Running("register", "writing", n, c)]
      /\ Touch(n, Named(n, c)) /\ Disturb(a) /\ disk' = [disk EXCEPT ![n] = Torn]
      /\ reg' = reg /\ tmp' = tmp /\ skills' = skills /\ brain' = brain /\ failed' = failed
      /\ draft' = [draft EXCEPT ![a].pc = "registering"]
      /\ retries' = retries /\ notice' = notice /\ calls' = calls /\ crashes' = crashes
  BY <1>3 DEF Publish, BeginRegister
<1>5. /\ deployed' \in [Name -> Code \cup {Absent}]
      /\ disk' \in [Name -> Code \cup {Absent, Torn}]
      /\ \A m \in Name : deployed'[m] # Absent =>
             deployed'[m] = deployed[m] /\ disk'[m] = disk[m]
      /\ \A b \in Agent, m \in Name : notice' = notice /\ Told(b, m)' => Told(b, m)
  BY <1>1, <1>3, <1>4, TouchOK
<1>6. disk'[n] = Torn /\ \A m \in Name \ {n} : disk'[m] = disk[m]
  BY <1>1, <1>3, <1>4
<1>7. /\ draft' \in [Agent -> Draft] /\ \A b \in Agent \ {a} : draft'[b] = draft[b]
      /\ draft'[a].name = n /\ draft'[a].code = c /\ draft'[a].pc = "registering"
  <2>1. draft[a] \in Draft
    BY <1>1
  <2>2. [draft[a] EXCEPT !.pc = "registering"] \in Draft
    BY <2>1 DEF Draft
  <2>3. draft'[a] = [draft[a] EXCEPT !.pc = "registering"]
    BY <1>1, <1>4
  <2> QED
    BY <1>1, <1>3, <1>4, <2>1, <2>2, <2>3 DEF Draft
<1>8. /\ op' \in [Agent -> Operation]
      /\ op'[a].kind = "register" /\ op'[a].pc = "writing"
      /\ op'[a].name = n /\ op'[a].code = c
      /\ \A b \in Agent \ {a} : op'[b] = op[b]
  <2> DEFINE r == Running("register", "writing", n, c)
  <2>1. r = [kind |-> "register", pc |-> "writing", name |-> n, code |-> c,
             list |-> <<>>, fd |-> "closed"]
    BY RunningOK
  <2>2. op' = [op EXCEPT ![a] = r]
    BY <1>4
  <2> HIDE DEF r
  <2>3. r \in Operation
    BY <2>1 DEF Operation, Kind, Pc
  <2>4. op' \in [Agent -> Operation] /\ op'[a] = r
        /\ \A b \in Agent \ {a} : op'[b] = op[b]
    BY <1>1, <2>2, <2>3, BeginsOp
  <2> QED
    BY <2>1, <2>4
<1>9. \A b \in Agent \ {a} : Stays(b)
  BY <1>8 DEF Stays
<1>10. /\ disturbed' \in [Agent -> BOOLEAN]
      /\ \A b \in Agent \ {a} : IsIdle(b)' \/ disturbed'[b]
  BY <1>1, <1>4, <1>9, DisturbOK
<1>11. TypeOK'
  BY <1>1, <1>4, <1>5, <1>7, <1>8, <1>10 DEF TypeOK, RegistryTypeOK
<1>12. Shape'
  <2>1. ASSUME NEW b \in Agent PROVE (ShapedOp(op[b]) /\ ShapedDraft(b))'
    <3>1. ShapedOp(op[b]) /\ ShapedDraft(b)
      BY <1>1 DEF Shape
    <3>2. CASE b = a
      BY <1>3, <1>7, <1>8, <3>2 DEF ShapedOp, ShapedDraft
    <3>3. CASE b # a
      BY <1>7, <1>8, <3>1, <3>3 DEF ShapedOp, ShapedDraft
    <3> QED
      BY <3>2, <3>3
  <2>2. {m \in Name : disk'[m] # Absent} = {m \in Name : disk[m] # Absent} \cup {n}
    BY <1>3, <1>6
  <2>3. IsFiniteSet({m \in Name : disk[m] # Absent} \cup {n})
    BY <1>1, FS_AddElement DEF Shape
  <2> QED
    BY <2>1, <2>2, <2>3 DEF Shape
<1>13. DeployedHolds'
  BY <1>5 DEF Inv, DeployedHolds, Loads
<1>14. ASSUME NEW b \in Agent, NEW m \in Name, Told(b, m)' PROVE Known(b, m)'
  <2>1. Known(b, m) /\ deployed'[m] = deployed[m]
    BY <1>4, <1>5, <1>14 DEF Inv, AllKnown, Told
  <2>2. CASE b # a
    BY <1>4, <1>9, <2>1, <2>2, KnownKept
  <2>3. CASE b = a
    <3>1. op[a].kind = "none"
      BY <1>1, <1>4 DEF Shape, ShapedOp, IsIdle
    <3> QED
      BY <1>4, <1>8, <2>1, <2>3, <3>1 DEF Known, Loading
  <2> QED
    BY <2>2, <2>3
<1>15. ASSUME NEW b \in Agent, ~ IsIdle(b)', ~ disturbed'[b]
       PROVE  (Placed(b) /\ Listed(b) /\ Saved(b))'
  <2>1. b = a
    BY <1>10, <1>15
  <2>2. Placed(a)' /\ Listed(a)' /\ Saved(a)'
    BY <1>6, <1>8 DEF Placed, Listed, Saved
  <2> QED
    BY <2>1, <2>2
<1> QED
  BY <1>11, <1>12, <1>13, <1>14, <1>15 DEF Inv, AllKnown, AloneSoFar

\* The tool remove_skill begins unregister_skill.
LEMMA RemoveSkillKeeps ==
    ASSUME Inv, NEW a \in Agent, NEW n \in Name, RemoveSkill(a, n)
    PROVE  Inv'
<1> DEFINE names == {n} \cup Named(n, Absent)
<1>1. /\ TypeOK /\ Shape /\ op \in [Agent -> Operation]
      /\ disk \in [Name -> Code \cup {Absent, Torn}] /\ calls \in 0..MaxCalls
  BY DEF Inv, TypeOK, RegistryTypeOK
<1>2. /\ IsIdle(a) /\ calls < MaxCalls /\ calls' = calls + 1
      /\ op' = [op EXCEPT ![a] = Running("unregister", "reading", n, Absent)]
      /\ Touch(n, names) /\ Disturb(a) /\ disk' = [disk EXCEPT ![n] = Absent]
      /\ reg' = reg /\ tmp' = tmp /\ skills' = skills /\ brain' = brain /\ failed' = failed
      /\ draft' = draft /\ retries' = retries /\ notice' = notice /\ crashes' = crashes
  BY DEF RemoveSkill, Call, BeginUnregister
<1>3. Named(n, Absent) \subseteq names /\ n \in names
  OBVIOUS
<1> HIDE DEF names
<1>4. /\ deployed' \in [Name -> Code \cup {Absent}]
      /\ disk' \in [Name -> Code \cup {Absent, Torn}]
      /\ \A m \in Name : deployed'[m] # Absent =>
             /\ deployed'[m] = deployed[m] /\ disk'[m] = disk[m]
             /\ Declares[deployed[m]] \notin names
      /\ \A b \in Agent, m \in Name : notice' = notice /\ Told(b, m)' => Told(b, m)
  BY <1>1, <1>2, <1>3, TouchOK
<1>5. disk'[n] = Absent /\ \A m \in Name \ {n} : disk'[m] = disk[m]
  BY <1>1, <1>2
<1>6. /\ op' \in [Agent -> Operation]
      /\ op'[a].kind = "unregister" /\ op'[a].pc = "reading" /\ op'[a].name = n
      /\ \A b \in Agent \ {a} : op'[b] = op[b]
  <2> DEFINE r == Running("unregister", "reading", n, Absent)
  <2>1. r = [kind |-> "unregister", pc |-> "reading", name |-> n, code |-> Absent,
             list |-> <<>>, fd |-> "closed"]
    BY RunningOK
  <2>2. op' = [op EXCEPT ![a] = r]
    BY <1>2
  <2> HIDE DEF r
  <2>3. r \in Operation
    BY <2>1 DEF Operation, Kind, Pc
  <2>4. op' \in [Agent -> Operation] /\ op'[a] = r
        /\ \A b \in Agent \ {a} : op'[b] = op[b]
    BY <1>1, <2>2, <2>3, BeginsOp
  <2> QED
    BY <2>1, <2>4
<1>7. \A b \in Agent \ {a} : Stays(b)
  BY <1>6 DEF Stays
<1>8. /\ disturbed' \in [Agent -> BOOLEAN]
      /\ \A b \in Agent \ {a} : IsIdle(b)' \/ disturbed'[b]
  BY <1>1, <1>2, <1>7, DisturbOK
<1>9. TypeOK'
  BY <1>1, <1>2, <1>4, <1>6, <1>8 DEF TypeOK, RegistryTypeOK
<1>10. Shape'
  <2>1. ASSUME NEW b \in Agent PROVE (ShapedOp(op[b]) /\ ShapedDraft(b))'
    <3>1. ShapedOp(op[b]) /\ ShapedDraft(b)
      BY <1>1 DEF Shape
    <3>2. CASE b = a
      BY <1>2, <1>6, <3>1, <3>2 DEF ShapedOp, ShapedDraft
    <3>3. CASE b # a
      BY <1>2, <1>6, <3>1, <3>3 DEF ShapedOp, ShapedDraft
    <3> QED
      BY <3>2, <3>3
  <2>2. {m \in Name : disk'[m] # Absent} \subseteq {m \in Name : disk[m] # Absent}
    BY <1>5
  <2>3. IsFiniteSet({m \in Name : disk'[m] # Absent})
    BY <1>1, <2>2, FS_Subset DEF Shape
  <2> QED
    BY <2>1, <2>3 DEF Shape
<1>11. DeployedHolds'
  BY <1>4 DEF Inv, DeployedHolds, Loads
<1>12. ASSUME NEW b \in Agent, NEW m \in Name, Told(b, m)' PROVE Known(b, m)'
  <2>1. Known(b, m) /\ deployed'[m] = deployed[m] /\ Declares[deployed[m]] # n
    BY <1>2, <1>3, <1>4, <1>12 DEF Inv, AllKnown, Told
  <2>2. CASE b # a
    BY <1>2, <1>7, <2>1, <2>2, KnownKept
  <2>3. CASE b = a
    <3>1. op[a].kind = "none"
      BY <1>1, <1>2 DEF Shape, ShapedOp, IsIdle
    <3> QED
      BY <1>2, <1>6, <2>1, <2>3, <3>1 DEF Known, Loading
  <2> QED
    BY <2>2, <2>3
<1>13. ASSUME NEW b \in Agent, ~ IsIdle(b)', ~ disturbed'[b]
       PROVE  (Placed(b) /\ Listed(b) /\ Saved(b))'
  <2>1. b = a
    BY <1>8, <1>13
  <2>2. Placed(a)' /\ Listed(a)' /\ Saved(a)'
    BY <1>5, <1>6 DEF Placed, Listed, Saved
  <2> QED
    BY <2>1, <2>2
<1> QED
  BY <1>9, <1>10, <1>11, <1>12, <1>13 DEF Inv, AllKnown, AloneSoFar

----------------------------------------------------------------------------
(***************************************************************************)
(* The steps that change no file.                                          *)
(***************************************************************************)

\* Such a step of a is judged by what it does to a.
LEMMA QuietStep ==
    ASSUME Inv, NEW a \in Agent, UNCHANGED files, deployed' = deployed, TypeOK',
           \A b \in Agent \ {a} :
               /\ op'[b] = op[b] /\ skills'[b] = skills[b] /\ brain'[b] = brain[b]
               /\ failed'[b] = failed[b] /\ disturbed'[b] = disturbed[b]
               /\ notice'[b] = notice[b],
           \A b \in Agent : ShapedDraft(b)',
           ShapedOp(op[a])',
           \A n \in Name : Told(a, n)' => Known(a, n)',
           ~ IsIdle(a)' /\ ~ disturbed'[a] => (Placed(a) /\ Listed(a) /\ Saved(a))'
    PROVE  Inv'
<1>1. disk' = disk
  BY DEF files
<1>2. Shape'
  <2>1. ASSUME NEW b \in Agent PROVE ShapedOp(op[b])'
    <3>1. ShapedOp(op[b])
      BY DEF Inv, Shape
    <3> QED
      BY <3>1 DEF ShapedOp
  <2> QED
    BY <1>1, <2>1 DEF Inv, Shape
<1>3. DeployedHolds'
  BY <1>1 DEF Inv, DeployedHolds, Loads
<1>4. ASSUME NEW b \in Agent, NEW n \in Name, Told(b, n)' PROVE Known(b, n)'
  <2>1. CASE b = a
    BY <1>4, <2>1
  <2>2. CASE b # a
    <3>1. Told(b, n)
      BY <1>1, <1>4, <2>2, ToldKept
    <3>2. Known(b, n) /\ Stays(b)
      BY <2>2, <3>1 DEF Inv, AllKnown, Stays
    <3> QED
      BY <2>2, <3>2, KnownKept
  <2> QED
    BY <2>1, <2>2
<1>5. ASSUME NEW b \in Agent, ~ IsIdle(b)', ~ disturbed'[b]
      PROVE  (Placed(b) /\ Listed(b) /\ Saved(b))'
  <2>1. CASE b = a
    BY <1>5, <2>1
  <2>2. CASE b # a
    BY <1>5, <2>2, AloneKept DEF Inv
  <2> QED
    BY <2>1, <2>2
<1> QED
  BY <1>2, <1>3, <1>4, <1>5 DEF Inv, AllKnown, AloneSoFar

\* What load_all loads for a skill that was announced and is alone in its name.
LEMMA Finds ==
    ASSUME Inv, NEW a \in Agent, NEW n \in Name, NEW list \in Seq(Entry), Told(a, n),
           \E i \in DOMAIN list : list[i].file = n
    PROVE  LoadedFrom(list)[Declares[deployed[n]]] = deployed[n]
<1> DEFINE c == deployed[n]
<1>1. disk \in [Name -> Code \cup {Absent, Torn}]
  BY DEF Inv, TypeOK, RegistryTypeOK
<1>2. disk[n] = c /\ Loads(n) /\ Sole(n)
  BY DEF Inv, DeployedHolds, Told
<1>3. PICK D \in Name : D = Declares[c]
  BY <1>2 DEF Loads
<1>4. LoadedFrom(list)[D] # Absent
  <2>1. \A j \in DOMAIN list : Loads(list[j].file) =>
            LoadedFrom(list)[Declares[disk[list[j].file]]] # Absent
    BY <1>1, LoadedFromOK
  <2> QED
    BY <1>2, <1>3, <2>1
<1>5. PICK i \in DOMAIN list :
          /\ list[i].file \in Name /\ Loads(list[i].file)
          /\ disk[list[i].file] = LoadedFrom(list)[D]
          /\ Declares[disk[list[i].file]] = D
  BY <1>1, <1>3, <1>4, LoadedFromOK
<1>6. list[i].file = n
  BY <1>2, <1>3, <1>5 DEF Sole
<1> QED
  BY <1>2, <1>3, <1>5, <1>6

LEMMA EndLoadKeeps ==
    ASSUME Inv, NEW a \in Agent, EndLoad(a), UNCHANGED toolVars
    PROVE  Inv'
<1> DEFINE L == LoadedFrom(op[a].list)
<1>1. /\ TypeOK /\ Shape /\ op \in [Agent -> Operation] /\ op[a].list \in Seq(Entry)
      /\ skills \in [Agent -> Loaded] /\ brain \in [Agent -> Loaded]
      /\ failed \in [Agent -> BOOLEAN] /\ disk \in [Name -> Code \cup {Absent, Torn}]
  BY DEF Inv, TypeOK, RegistryTypeOK, Operation
<1>2. L \in Loaded
  BY <1>1, LoadedFromOK
<1>3. /\ skills' = [skills EXCEPT ![a] = L] /\ brain' = [brain EXCEPT ![a] = L]
      /\ failed' = [failed EXCEPT ![a] = FALSE] /\ op' = [op EXCEPT ![a] = Idle]
      /\ UNCHANGED files /\ disturbed' = disturbed /\ deployed' = deployed
      /\ disk' = disk /\ reg' = reg /\ tmp' = tmp
      /\ Loading(a) /\ op[a].pc = "ending"
  BY DEF EndLoad, files
<1>4. /\ draft' = draft /\ retries' = retries
      /\ notice' = notice /\ calls' = calls /\ crashes' = crashes
  BY DEF toolVars
<1>5. /\ op' \in [Agent -> Operation]
      /\ op'[a].kind = "none" /\ op'[a].pc = "idle"
      /\ \A b \in Agent \ {a} : op'[b] = op[b]
  BY <1>1, <1>3, EndsOp
<1>6. ASSUME NEW n \in Name, Told(a, n)' PROVE Known(a, n)'
  <2>1. Told(a, n)
    BY <1>3, <1>4, <1>6, ToldKept
  <2>2. \E i \in DOMAIN op[a].list : op[a].list[i].file = n
    BY <1>3, <2>1 DEF Inv, AllKnown, Known
  <2>3. L[Declares[deployed[n]]] = deployed[n]
    BY <1>1, <2>1, <2>2, Finds
  <2>4. brain'[a] = L /\ skills'[a] = L
    BY <1>1, <1>3
  <2> HIDE DEF L
  <2> QED
    BY <1>3, <1>5, <2>3, <2>4 DEF Known, Loading
<1> HIDE DEF L
<1>7. TypeOK'
  <2>1. skills' \in [Agent -> Loaded] /\ brain' \in [Agent -> Loaded]
    BY <1>1, <1>2, <1>3
  <2>2. failed' \in [Agent -> BOOLEAN]
    BY <1>1, <1>3
  <2> QED
    BY <1>1, <1>3, <1>4, <1>5, <2>1, <2>2 DEF TypeOK, RegistryTypeOK
<1>8. \A b \in Agent \ {a} :
          /\ op'[b] = op[b] /\ skills'[b] = skills[b] /\ brain'[b] = brain[b]
          /\ failed'[b] = failed[b] /\ disturbed'[b] = disturbed[b]
          /\ notice'[b] = notice[b]
  BY <1>1, <1>3, <1>4, <1>5
<1>9. (\A b \in Agent : ShapedDraft(b)') /\ ShapedOp(op[a])' /\ IsIdle(a)'
  BY <1>1, <1>4, <1>5 DEF Shape, ShapedDraft, ShapedOp, IsIdle
<1> QED
  BY <1>3, <1>6, <1>7, <1>8, <1>9, QuietStep

LEMMA EndUnregisterKeeps ==
    ASSUME Inv, NEW a \in Agent, EndUnregister(a), UNCHANGED toolVars
    PROVE  Inv'
<1>1. /\ TypeOK /\ Shape /\ op \in [Agent -> Operation] /\ skills \in [Agent -> Loaded]
  BY DEF Inv, TypeOK, RegistryTypeOK
<1>2. /\ skills' = [skills EXCEPT ![a][op[a].name] = Absent] /\ op' = [op EXCEPT ![a] = Idle]
      /\ UNCHANGED files /\ brain' = brain
      /\ failed' = failed /\ disturbed' = disturbed /\ deployed' = deployed
      /\ disk' = disk /\ reg' = reg /\ tmp' = tmp
      /\ op[a].kind = "unregister"
  BY DEF EndUnregister, files, ghosts, At
<1>3. /\ draft' = draft /\ retries' = retries
      /\ notice' = notice /\ calls' = calls /\ crashes' = crashes
  BY DEF toolVars
<1>4. /\ op' \in [Agent -> Operation]
      /\ op'[a].kind = "none" /\ op'[a].pc = "idle"
      /\ \A b \in Agent \ {a} : op'[b] = op[b]
  BY <1>1, <1>2, EndsOp
<1>5. op[a].name \in Name
  BY <1>1, <1>2 DEF Shape, ShapedOp
<1>6. /\ skills' \in [Agent -> Loaded]
      /\ \A b \in Agent \ {a} : skills'[b] = skills[b]
      /\ \A m \in Name : m # op[a].name => skills'[a][m] = skills[a][m]
  BY <1>1, <1>2, <1>5 DEF Loaded
<1>7. ASSUME NEW n \in Name, Told(a, n)' PROVE Known(a, n)'
  <2>1. Told(a, n)
    BY <1>2, <1>3, <1>7, ToldKept
  <2>2. Known(a, n) /\ deployed[n] \in Code
    BY <1>1, <2>1 DEF Inv, AllKnown, Told, TypeOK, RegistryTypeOK
  <2>3. ~ Loading(a) /\ Declares[deployed[n]] # op[a].name /\ Declares[deployed[n]] \in Name
    BY <1>2, <2>2 DEF Known, Loading
  <2>4. skills'[a][Declares[deployed[n]]] = skills[a][Declares[deployed[n]]]
    BY <1>6, <2>3
  <2> QED
    BY <1>2, <1>4, <2>2, <2>3, <2>4 DEF Known, Loading
<1>8. TypeOK'
  BY <1>1, <1>2, <1>3, <1>4, <1>6 DEF TypeOK, RegistryTypeOK
<1>9. \A b \in Agent \ {a} :
          /\ op'[b] = op[b] /\ skills'[b] = skills[b] /\ brain'[b] = brain[b]
          /\ failed'[b] = failed[b] /\ disturbed'[b] = disturbed[b]
          /\ notice'[b] = notice[b]
  BY <1>2, <1>3, <1>4, <1>6
<1>10. (\A b \in Agent : ShapedDraft(b)') /\ ShapedOp(op[a])' /\ IsIdle(a)'
  BY <1>1, <1>3, <1>4 DEF Shape, ShapedDraft, ShapedOp, IsIdle
<1> QED
  BY <1>2, <1>7, <1>8, <1>9, <1>10, QuietStep

\* A tool that goes on or ends knows what it is about.
LEMMA DraftOK ==
    ASSUME TypeOK, Shape, NEW a \in Agent,
           NEW pc \in {"none", "testing", "registering", "announcing"},
           draft[a].pc # "none", op'[a].kind # "register",
           \A b \in Agent \ {a} : op'[b] = op[b],
           \/ draft' = [draft EXCEPT ![a] = NoDraft]
           \/ draft' = [draft EXCEPT ![a] = [@ EXCEPT !.pc = pc]]
    PROVE  draft' \in [Agent -> Draft] /\ \A b \in Agent : ShapedDraft(b)'
<1>1. draft \in [Agent -> Draft] /\ draft[a] \in Draft
  BY DEF TypeOK
<1>2. \A b \in Agent : ShapedDraft(b)
  BY DEF Shape
<1>3. CASE draft' = [draft EXCEPT ![a] = NoDraft]
  <2>1. NoDraft \in Draft /\ NoDraft.pc = "none"
    BY DEF NoDraft, Draft
  <2>2. draft' \in [Agent -> Draft] /\ draft'[a].pc = "none"
        /\ \A b \in Agent \ {a} : draft'[b] = draft[b]
    BY <1>1, <1>3, <2>1
  <2> QED
    BY <1>2, <2>2 DEF ShapedDraft
<1>4. CASE draft' = [draft EXCEPT ![a] = [@ EXCEPT !.pc = pc]]
  <2> DEFINE d == [draft[a] EXCEPT !.pc = pc]
  <2>1. d \in Draft /\ d.name = draft[a].name /\ d.code = draft[a].code
    BY <1>1 DEF Draft
  <2>2. draft' = [draft EXCEPT ![a] = d]
    BY <1>4
  <2> HIDE DEF d
  <2>3. draft' \in [Agent -> Draft] /\ draft'[a] = d
        /\ \A b \in Agent \ {a} : draft'[b] = draft[b]
    BY <1>1, <2>1, <2>2
  <2>4. draft[a].name \in Name /\ draft[a].code \in Code
    BY <1>2 DEF ShapedDraft
  <2> QED
    BY <1>2, <2>1, <2>3, <2>4 DEF ShapedDraft
<1> QED
  BY <1>3, <1>4

\* register_skill ends: the file is loaded as it is by now.
LEMMA RegisteredKeeps ==
    ASSUME Inv, NEW a \in Agent, Registered(a)
    PROVE  Inv'
<1> DEFINE n == op[a].name
<1>1. /\ TypeOK /\ Shape /\ op \in [Agent -> Operation] /\ skills \in [Agent -> Loaded]
      /\ disk \in [Name -> Code \cup {Absent, Torn}]
  BY DEF Inv, TypeOK, RegistryTypeOK
<1>2. /\ skills' = IF Loads(n) THEN [skills EXCEPT ![a][Declares[disk[n]]] = disk[n]]
                   ELSE skills
      /\ op' = [op EXCEPT ![a] = Idle] /\ op[a].kind = "register"
      /\ UNCHANGED files /\ brain' = brain
      /\ failed' = failed /\ disturbed' = disturbed /\ deployed' = deployed
      /\ disk' = disk /\ reg' = reg /\ tmp' = tmp
      /\ retries' = retries /\ notice' = notice /\ calls' = calls /\ crashes' = crashes
  BY DEF Registered, EndRegister, files, ghosts, At
<1>3. /\ op' \in [Agent -> Operation]
      /\ op'[a].kind = "none" /\ op'[a].pc = "idle"
      /\ \A b \in Agent \ {a} : op'[b] = op[b]
  BY <1>1, <1>2, EndsOp
<1>4. draft' \in [Agent -> Draft] /\ \A b \in Agent : ShapedDraft(b)'
  <2>1. draft[a].pc = "registering"
    BY <1>1, <1>2 DEF Shape, ShapedDraft
  <2>2. \/ draft' = [draft EXCEPT ![a] = NoDraft]
        \/ draft' = [draft EXCEPT ![a] = [@ EXCEPT !.pc = "announcing"]]
    BY DEF Registered
  <2> QED
    BY <1>1, <1>3, <2>1, <2>2, DraftOK
<1>5. n \in Name
  BY <1>1, <1>2 DEF Shape, ShapedOp
<1>6. /\ skills' \in [Agent -> Loaded]
      /\ \A b \in Agent \ {a} : skills'[b] = skills[b]
      /\ \A m \in Name : Loads(n) =>
             skills'[a][m] = IF m = Declares[disk[n]] THEN disk[n] ELSE skills[a][m]
      /\ ~ Loads(n) => skills' = skills
  <2>1. CASE Loads(n)
    <3>1. disk[n] \in Code /\ Declares[disk[n]] \in Name
      BY <2>1 DEF Loads
    <3>2. skills' = [skills EXCEPT ![a][Declares[disk[n]]] = disk[n]]
      BY <1>2, <2>1
    <3> HIDE DEF n
    <3> QED
      BY <1>1, <2>1, <3>1, <3>2 DEF Loaded
  <2>2. CASE ~ Loads(n)
    BY <1>1, <1>2, <2>2
  <2> QED
    BY <2>1, <2>2
<1> HIDE DEF n
<1>7. ASSUME NEW m \in Name, Told(a, m)' PROVE Known(a, m)'
  <2>1. Told(a, m)
    BY <1>2, <1>7, ToldKept
  <2>2. /\ Known(a, m) /\ ~ Loading(a) /\ deployed[m] \in Code
        /\ disk[m] = deployed[m] /\ Sole(m) /\ Declares[deployed[m]] \in Name
    BY <1>1, <1>2, <2>1 DEF Inv, AllKnown, Told, DeployedHolds, Loading, TypeOK, RegistryTypeOK
  <2>3. ~ failed[a] => skills'[a][Declares[deployed[m]]] = deployed[m]
    <3>1. ~ failed[a] => skills[a][Declares[deployed[m]]] = deployed[m]
      BY <2>2 DEF Known
    <3>2. Loads(n) /\ n # m => Declares[disk[n]] # Declares[deployed[m]]
      BY <1>5, <2>2 DEF Sole
    <3> QED
      BY <1>6, <2>2, <3>1, <3>2
  <2> QED
    BY <1>2, <1>3, <2>2, <2>3 DEF Known, Loading
<1>8. TypeOK'
  BY <1>1, <1>2, <1>3, <1>4, <1>6 DEF TypeOK, RegistryTypeOK
<1>9. \A b \in Agent \ {a} :
          /\ op'[b] = op[b] /\ skills'[b] = skills[b] /\ brain'[b] = brain[b]
          /\ failed'[b] = failed[b] /\ disturbed'[b] = disturbed[b]
          /\ notice'[b] = notice[b]
  BY <1>2, <1>3, <1>6
<1>10. ShapedOp(op[a])' /\ IsIdle(a)'
  BY <1>3 DEF ShapedOp, IsIdle
<1> QED
  BY <1>2, <1>4, <1>7, <1>8, <1>9, <1>10, QuietStep

\* switch_model takes over what the agent has loaded.
LEMMA SwitchModelKeeps ==
    ASSUME Inv, NEW a \in Agent, SwitchModel(a), UNCHANGED toolVars
    PROVE  Inv'
<1>1. /\ TypeOK /\ Shape /\ skills \in [Agent -> Loaded] /\ brain \in [Agent -> Loaded]
  BY DEF Inv, TypeOK, RegistryTypeOK
<1>2. /\ brain' = [brain EXCEPT ![a] = skills[a]] /\ IsIdle(a)
      /\ UNCHANGED files /\ op' = op /\ skills' = skills
      /\ failed' = failed /\ disturbed' = disturbed /\ deployed' = deployed
      /\ disk' = disk /\ reg' = reg /\ tmp' = tmp
  BY DEF SwitchModel, files, ghosts
<1>3. /\ draft' = draft /\ retries' = retries
      /\ notice' = notice /\ calls' = calls /\ crashes' = crashes
  BY DEF toolVars
<1>4. /\ brain' \in [Agent -> Loaded] /\ brain'[a] = skills[a]
      /\ \A b \in Agent \ {a} : brain'[b] = brain[b]
  BY <1>1, <1>2
<1>5. ASSUME NEW n \in Name, Told(a, n)' PROVE Known(a, n)'
  <2>1. Told(a, n)
    BY <1>2, <1>3, <1>5, ToldKept
  <2>2. Known(a, n)
    BY <2>1 DEF Inv, AllKnown
  <2> QED
    BY <1>2, <1>4, <2>2 DEF Known, Loading
<1>6. TypeOK'
  BY <1>1, <1>2, <1>3, <1>4 DEF TypeOK, RegistryTypeOK
<1>7. (\A b \in Agent : ShapedDraft(b)') /\ ShapedOp(op[a])' /\ IsIdle(a)'
  BY <1>1, <1>2, <1>3 DEF Shape, ShapedDraft, ShapedOp, IsIdle
<1> QED
  BY <1>2, <1>3, <1>4, <1>5, <1>6, <1>7, QuietStep

\* a starts to load, whatever it did before.
LEMMA Reloads ==
    ASSUME op \in [Agent -> Operation], NEW a \in Agent, NEW kind \in {"start", "reload"},
           op' = [op EXCEPT ![a] = Running(kind, "reading", Absent, Absent)]
    PROVE  /\ op' \in [Agent -> Operation]
           /\ op'[a].kind = kind /\ op'[a].pc = "reading"
           /\ \A b \in Agent \ {a} : op'[b] = op[b]
<1> DEFINE r == Running(kind, "reading", Absent, Absent)
<1>1. r = [kind |-> kind, pc |-> "reading", name |-> Absent, code |-> Absent,
           list |-> <<>>, fd |-> "closed"]
  BY RunningOK
<1>2. op' = [op EXCEPT ![a] = r]
  OBVIOUS
<1> HIDE DEF r
<1>3. r \in Operation
  BY <1>1 DEF Operation, Kind, Pc
<1> QED
  BY <1>1, <1>2, <1>3, BeginsOp

\* Nothing is asked of an agent that has only begun to load.
LEMMA LoadStep ==
    ASSUME Inv, NEW a \in Agent, NEW kind \in {"start", "reload"},
           op' = [op EXCEPT ![a] = Running(kind, "reading", Absent, Absent)],
           UNCHANGED files, deployed' = deployed,
           op' \in [Agent -> Operation] => TypeOK',
           \A b \in Agent \ {a} :
               /\ skills'[b] = skills[b] /\ brain'[b] = brain[b]
               /\ failed'[b] = failed[b] /\ disturbed'[b] = disturbed[b]
               /\ notice'[b] = notice[b] /\ draft'[b] = draft[b],
           draft'[a].pc = "none" \/ draft'[a] = draft[a]
    PROVE  Inv'
<1>1. /\ op' \in [Agent -> Operation]
      /\ op'[a].kind = kind /\ op'[a].pc = "reading"
      /\ \A b \in Agent \ {a} : op'[b] = op[b]
  BY Reloads DEF Inv, TypeOK, RegistryTypeOK
<1>2. ASSUME NEW b \in Agent PROVE ShapedDraft(b)'
  <2>1. ShapedDraft(b)
    BY DEF Inv, Shape
  <2>2. CASE b = a
    BY <1>1, <2>1, <2>2 DEF ShapedDraft
  <2>3. CASE b # a
    BY <1>1, <2>1, <2>3 DEF ShapedDraft
  <2> QED
    BY <2>2, <2>3
<1>3. ShapedOp(op[a])' /\ Placed(a)' /\ Listed(a)' /\ Saved(a)'
  BY <1>1 DEF ShapedOp, Placed, Listed, Saved
<1>4. \A n \in Name : Known(a, n)'
  BY <1>1 DEF Known, Loading
<1> QED
  BY <1>1, <1>2, <1>3, <1>4, QuietStep

\* load_all begins, for a broadcast or a scheduled job,
LEMMA BeginLoadKeeps ==
    ASSUME Inv, NEW a \in Agent, BeginLoad(a, "reload"),
           draft' = draft, retries' = retries, crashes' = crashes,
           calls' \in 0..MaxCalls, notice' \in [Agent -> BOOLEAN],
           \A b \in Agent \ {a} : notice'[b] = notice[b]
    PROVE  Inv'
<1>1. /\ TypeOK /\ skills \in [Agent -> Loaded] /\ disturbed \in [Agent -> BOOLEAN]
      /\ op' = [op EXCEPT ![a] = Running("reload", "reading", Absent, Absent)]
      /\ skills' = [skills EXCEPT ![a] = NoSkills]
      /\ disturbed' = [disturbed EXCEPT ![a] = FALSE]
      /\ disk' = disk /\ reg' = reg /\ tmp' = tmp /\ brain' = brain /\ failed' = failed
      /\ deployed' = deployed
  BY DEF Inv, TypeOK, RegistryTypeOK, BeginLoad
<1>2. NoSkills \in Loaded
  BY DEF NoSkills, Loaded
<1>3. /\ skills' \in [Agent -> Loaded] /\ disturbed' \in [Agent -> BOOLEAN]
      /\ \A b \in Agent \ {a} : skills'[b] = skills[b] /\ disturbed'[b] = disturbed[b]
  BY <1>1, <1>2
<1>4. op' \in [Agent -> Operation] => TypeOK'
  BY <1>1, <1>3 DEF TypeOK, RegistryTypeOK
<1>5. UNCHANGED files
  BY <1>1 DEF files
<1> QED
  BY <1>1, <1>3, <1>4, <1>5, LoadStep

LEMMA HandleNoticeKeeps ==
    ASSUME Inv, NEW a \in Agent, HandleNotice(a)
    PROVE  Inv'
<1>1. notice \in [Agent -> BOOLEAN] /\ calls \in 0..MaxCalls
  BY DEF Inv, TypeOK
<1>2. /\ notice' = [notice EXCEPT ![a] = FALSE] /\ BeginLoad(a, "reload")
      /\ draft' = draft /\ retries' = retries /\ calls' = calls /\ crashes' = crashes
  BY DEF HandleNotice
<1>3. notice' \in [Agent -> BOOLEAN] /\ \A b \in Agent \ {a} : notice'[b] = notice[b]
  BY <1>1, <1>2
<1> QED
  BY <1>1, <1>2, <1>3, BeginLoadKeeps

LEMMA ReloadJobKeeps ==
    ASSUME Inv, NEW a \in Agent, ReloadJob(a)
    PROVE  Inv'
<1>1. notice \in [Agent -> BOOLEAN] /\ calls \in 0..MaxCalls
  BY DEF Inv, TypeOK
<1>2. /\ calls < MaxCalls /\ calls' = calls + 1 /\ BeginLoad(a, "reload")
      /\ draft' = draft /\ retries' = retries /\ notice' = notice /\ crashes' = crashes
  BY DEF ReloadJob
<1>3. calls' \in 0..MaxCalls
  BY <1>1, <1>2
<1> QED
  BY <1>1, <1>2, <1>3, BeginLoadKeeps

\* ... or because the process starts again.
LEMMA CrashKeeps ==
    ASSUME Inv, NEW a \in Agent, Crash(a)
    PROVE  Inv'
<1>1. /\ TypeOK /\ skills \in [Agent -> Loaded] /\ brain \in [Agent -> Loaded]
      /\ failed \in [Agent -> BOOLEAN] /\ disturbed \in [Agent -> BOOLEAN]
      /\ draft \in [Agent -> Draft] /\ notice \in [Agent -> BOOLEAN]
      /\ retries \in [Agent -> [Counted -> 0..MaxRetries + 1]]
      /\ calls \in 0..MaxCalls /\ crashes \in 0..MaxCrashes
  BY DEF Inv, TypeOK, RegistryTypeOK
<1>2. /\ op' = [op EXCEPT ![a] = Running("start", "reading", Absent, Absent)]
      /\ skills' = [skills EXCEPT ![a] = NoSkills] /\ brain' = [brain EXCEPT ![a] = NoSkills]
      /\ failed' = [failed EXCEPT ![a] = FALSE]
      /\ disturbed' = [disturbed EXCEPT ![a] = FALSE]
      /\ UNCHANGED files /\ disk' = disk /\ reg' = reg /\ tmp' = tmp /\ deployed' = deployed
      /\ draft' = [draft EXCEPT ![a] = NoDraft]
      /\ retries' = [retries EXCEPT ![a] = [t \in Counted |-> 0]]
      /\ crashes < MaxCrashes /\ crashes' = crashes + 1 /\ calls' = calls
  BY DEF Crash, Reborn, files
<1>3. PICK again \in BOOLEAN : notice' = [notice EXCEPT ![a] = again]
  BY DEF Crash
<1>4. NoSkills \in Loaded /\ NoDraft \in Draft /\ NoDraft.pc = "none"
  BY DEF NoSkills, Loaded, NoDraft, Draft
<1>5. /\ skills' \in [Agent -> Loaded] /\ brain' \in [Agent -> Loaded]
      /\ \A b \in Agent \ {a} : skills'[b] = skills[b] /\ brain'[b] = brain[b]
  BY <1>1, <1>2, <1>4
<1>6. /\ failed' \in [Agent -> BOOLEAN] /\ disturbed' \in [Agent -> BOOLEAN]
      /\ notice' \in [Agent -> BOOLEAN]
      /\ \A b \in Agent \ {a} : /\ failed'[b] = failed[b] /\ disturbed'[b] = disturbed[b]
                                /\ notice'[b] = notice[b]
  BY <1>1, <1>2, <1>3
<1>7. /\ draft' \in [Agent -> Draft] /\ draft'[a].pc = "none"
      /\ \A b \in Agent \ {a} : draft'[b] = draft[b]
  BY <1>1, <1>2, <1>4
<1>8. retries' \in [Agent -> [Counted -> 0..MaxRetries + 1]]
  <2>1. [t \in Counted |-> 0] \in [Counted -> 0..MaxRetries + 1]
    OBVIOUS
  <2> QED
    BY <1>1, <1>2, <2>1
<1>9. calls' \in 0..MaxCalls /\ crashes' \in 0..MaxCrashes
  BY <1>1, <1>2
<1>10. op' \in [Agent -> Operation] => TypeOK'
  BY <1>1, <1>2, <1>5, <1>6, <1>7, <1>8, <1>9 DEF TypeOK, RegistryTypeOK
<1> QED
  BY <1>2, <1>5, <1>6, <1>7, <1>10, LoadStep

\* os.replace raises only under an operation that was disturbed.
LEMMA Undisturbed ==
    ASSUME Inv, NEW a \in Agent, ReplaceRaises(a)
    PROVE  disturbed[a]
<1>1. op[a].pc = "replacing" /\ tmp = Absent
  BY DEF ReplaceRaises
<1>2. ~ disturbed[a] => tmp = op[a].list
  BY <1>1 DEF Inv, AloneSoFar, IsIdle, Saved
<1>3. op[a].list \in Seq(Entry)
  BY DEF Inv, TypeOK, RegistryTypeOK, Operation
<1> QED
  BY <1>1, <1>2, <1>3

LEMMA RaisesKeeps ==
    ASSUME Inv, NEW a \in Agent, Raises(a)
    PROVE  Inv'
<1>1. /\ TypeOK /\ Shape /\ op \in [Agent -> Operation] /\ op[a] \in Operation
      /\ failed \in [Agent -> BOOLEAN]
  BY DEF Inv, TypeOK, RegistryTypeOK
<1>2. /\ op[a].pc = "replacing"
      /\ failed' = [failed EXCEPT ![a] = @ \/ op[a].kind = "reload"]
      /\ UNCHANGED files /\ skills' = skills /\ brain' = brain
      /\ disturbed' = disturbed /\ deployed' = deployed
      /\ disk' = disk /\ reg' = reg /\ tmp' = tmp
      /\ retries' = retries /\ notice' = notice /\ calls' = calls /\ crashes' = crashes
  BY DEF Raises, ReplaceRaises, files
<1>3. disturbed[a]
  BY Undisturbed DEF Raises
<1>4. /\ failed' \in [Agent -> BOOLEAN] /\ \A b \in Agent \ {a} : failed'[b] = failed[b]
      /\ failed'[a] <=> failed[a] \/ op[a].kind = "reload"
  <2>1. (failed[a] \/ op[a].kind = "reload") \in BOOLEAN
    OBVIOUS
  <2> QED
    BY <1>1, <1>2, <2>1
<1>5. op[a].kind \in {"start", "reload", "register", "unregister"}
  BY <1>1, <1>2 DEF Shape, ShapedOp, Operation, Kind
<1>6. ASSUME NEW n \in Name, Told(a, n)' PROVE Known(a, n)
  <2>1. Told(a, n)
    BY <1>2, <1>6, ToldKept
  <2> QED
    BY <2>1 DEF Inv, AllKnown
<1>7. CASE op[a].kind = "start"
  <2>1. /\ op' = [op EXCEPT ![a] = Running("start", "reading", Absent, Absent)]
        /\ draft' = draft
    BY <1>7 DEF Raises, ReplaceRaises
  <2>2. op' \in [Agent -> Operation] => TypeOK'
    BY <1>1, <1>2, <1>4, <2>1 DEF TypeOK, RegistryTypeOK
  <2> QED
    BY <1>2, <1>4, <2>1, <2>2, LoadStep
<1>8. CASE op[a].kind = "unregister"
  <2>1. op' = [op EXCEPT ![a].pc = "ending"] /\ draft' = draft
    BY <1>8 DEF Raises, ReplaceRaises
  <2>2. Goes(a, op[a].list, "ending", op[a].fd)
    BY <1>1, <2>1, GoesOn DEF Pc
  <2>3. TypeOK'
    BY <1>1, <1>2, <1>4, <2>1, <2>2 DEF TypeOK, RegistryTypeOK, Goes
  <2>4. ASSUME NEW b \in Agent PROVE ShapedDraft(b)'
    <3>1. op'[b].kind = op[b].kind
      BY <2>2 DEF Goes
    <3> QED
      BY <1>1, <2>1, <3>1 DEF Shape, ShapedDraft
  <2>5. ShapedOp(op[a])'
    BY <1>1, <1>2, <1>8, <2>2 DEF Goes, Shape, ShapedOp
  <2>6. \A n \in Name : Told(a, n)' => Known(a, n)'
    BY <1>2, <1>4, <1>6, <1>8, <2>2 DEF Goes, Known, Loading
  <2> QED
    BY <1>2, <1>3, <1>4, <2>2, <2>3, <2>4, <2>5, <2>6, QuietStep DEF Goes
<1>9. CASE op[a].kind \in {"reload", "register"}
  <2>1. op' = [op EXCEPT ![a] = Idle]
    BY <1>9 DEF Raises, ReplaceRaises
  <2>2. /\ op' \in [Agent -> Operation]
        /\ op'[a].kind = "none" /\ op'[a].pc = "idle"
        /\ \A b \in Agent \ {a} : op'[b] = op[b]
    BY <1>1, <2>1, EndsOp
  <2>3. draft' \in [Agent -> Draft] /\ \A b \in Agent : ShapedDraft(b)'
    <3>1. CASE op[a].kind = "register"
      <4>1. draft' = [draft EXCEPT ![a] = NoDraft] /\ draft[a].pc = "registering"
        BY <1>1, <3>1 DEF Raises, Shape, ShapedDraft
      <4> QED
        BY <1>1, <2>2, <4>1, DraftOK
    <3>2. CASE op[a].kind = "reload"
      <4>1. draft' = draft
        BY <3>2 DEF Raises
      <4> QED
        BY <1>1, <2>2, <4>1 DEF Shape, ShapedDraft, TypeOK
    <3> QED
      BY <1>9, <3>1, <3>2
  <2>4. TypeOK'
    BY <1>1, <1>2, <1>4, <2>2, <2>3 DEF TypeOK, RegistryTypeOK
  <2>5. ShapedOp(op[a])' /\ IsIdle(a)'
    BY <2>2 DEF ShapedOp, IsIdle
  <2>6. \A n \in Name : Told(a, n)' => Known(a, n)'
    BY <1>2, <1>4, <1>6, <1>9, <2>2 DEF Known, Loading
  <2> QED
    BY <1>2, <1>4, <2>2, <2>3, <2>4, <2>5, <2>6, QuietStep
<1> QED
  BY <1>5, <1>7, <1>8, <1>9

----------------------------------------------------------------------------
(***************************************************************************)
(* The steps of the tools beside the registry.                             *)
(***************************************************************************)

LEMMA ToolKeeps ==
    ASSUME Inv, UNCHANGED <<registryVars, notice, crashes>>, calls' \in 0..MaxCalls,
           retries' \in [Agent -> [Counted -> 0..MaxRetries + 1]],
           draft' \in [Agent -> Draft], \A b \in Agent : ShapedDraft(b)'
    PROVE  Inv'
<1>1. /\ UNCHANGED files /\ disk' = disk /\ reg' = reg /\ tmp' = tmp
      /\ op' = op /\ skills' = skills /\ brain' = brain
      /\ failed' = failed /\ disturbed' = disturbed /\ deployed' = deployed
      /\ notice' = notice /\ crashes' = crashes
  BY DEF registryVars, ghosts, files
<1>2. TypeOK'
  BY <1>1 DEF Inv, TypeOK, RegistryTypeOK
<1>3. Shape'
  BY <1>1 DEF Inv, Shape, ShapedOp
<1>4. DeployedHolds'
  BY <1>1 DEF Inv, DeployedHolds, Loads
<1>5. ASSUME NEW b \in Agent, NEW n \in Name, Told(b, n)' PROVE Known(b, n)'
  <2>1. Told(b, n)
    BY <1>1, <1>5, ToldKept
  <2>2. Known(b, n) /\ Stays(b)
    BY <1>1, <2>1 DEF Inv, AllKnown, Stays
  <2> QED
    BY <1>1, <2>2, KnownKept
<1>6. ASSUME NEW b \in Agent, ~ IsIdle(b)', ~ disturbed'[b]
      PROVE  (Placed(b) /\ Listed(b) /\ Saved(b))'
  BY <1>1, <1>6, AloneKept DEF Inv
<1> QED
  BY <1>2, <1>3, <1>4, <1>5, <1>6 DEF Inv, AllKnown, AloneSoFar

\* A call is counted up to the limit and once beyond it.
LEMMA CountOK ==
    ASSUME TypeOK, NEW a \in Agent, NEW t \in Tool, ~ Blocked(a, t), Count(a, t)
    PROVE  retries' \in [Agent -> [Counted -> 0..MaxRetries + 1]]
<1>1. retries \in [Agent -> [Counted -> 0..MaxRetries + 1]]
  BY DEF TypeOK
<1>2. CASE t \in Counted
  <2>1. retries' = [retries EXCEPT ![a][t] = retries[a][t] + 1]
    BY <1>2 DEF Count
  <2>2. retries[a] \in [Counted -> 0..MaxRetries + 1] /\ retries[a][t] \in 0..MaxRetries + 1
    BY <1>1, <1>2
  <2>3. retries[a][t] + 1 \in 0..MaxRetries + 1
    BY <1>2, <2>2 DEF Blocked
  <2> HIDE DEF Counted
  <2> QED
    BY <1>1, <1>2, <2>1, <2>2, <2>3
<1>3. CASE t \notin Counted
  BY <1>1, <1>3 DEF Count
<1> QED
  BY <1>2, <1>3

LEMMA CallsKeep ==
    ASSUME Inv, NEW a \in Agent, NEW t \in Tool, NEW c \in Code,
           Decline(a, t, c) \/ \E n \in Name : StartTest(a, t, n, c)
    PROVE  Inv'
<1>1. TypeOK /\ Shape /\ calls \in 0..MaxCalls /\ draft \in [Agent -> Draft]
      /\ retries \in [Agent -> [Counted -> 0..MaxRetries + 1]]
  BY DEF Inv, TypeOK
<1>2. Call(a) /\ UNCHANGED <<registryVars, notice, crashes>> /\ op' = op
  BY DEF Decline, StartTest, registryVars
<1>3. calls' \in 0..MaxCalls /\ IsIdle(a)
  BY <1>1, <1>2 DEF Call
<1>4. retries' \in [Agent -> [Counted -> 0..MaxRetries + 1]]
  <2>1. CASE Decline(a, t, c)
    <3>1. retries' = retries \/ (~ Blocked(a, t) /\ Count(a, t))
      BY <2>1 DEF Decline
    <3> QED
      BY <1>1, <3>1, CountOK
  <2>2. ASSUME NEW n \in Name, StartTest(a, t, n, c)
        PROVE  retries' \in [Agent -> [Counted -> 0..MaxRetries + 1]]
    <3>1. ~ Blocked(a, t) /\ Count(a, t)
      BY <2>2 DEF StartTest
    <3> QED
      BY <1>1, <3>1, CountOK
  <2> QED
    BY <2>1, <2>2
<1>5. draft' \in [Agent -> Draft] /\ \A b \in Agent : ShapedDraft(b)'
  <2>1. CASE Decline(a, t, c)
    BY <1>1, <1>2, <2>1 DEF Decline, Shape, ShapedDraft
  <2>2. ASSUME NEW n \in Name, StartTest(a, t, n, c)
        PROVE  draft' \in [Agent -> Draft] /\ \A b \in Agent : ShapedDraft(b)'
    <3> DEFINE d == [pc |-> "testing", tool |-> t, name |-> n, code |-> c]
    <3>1. d \in Draft /\ d.pc = "testing" /\ d.name = n /\ d.code = c
      BY DEF Draft
    <3>2. draft' = [draft EXCEPT ![a] = d]
      BY <2>2 DEF StartTest
    <3> HIDE DEF d
    <3>3. draft' \in [Agent -> Draft] /\ draft'[a] = d
          /\ \A b \in Agent \ {a} : draft'[b] = draft[b]
      BY <1>1, <3>1, <3>2
    <3>4. op[a].kind = "none"
      BY <1>1, <1>3 DEF Shape, ShapedOp, IsIdle
    <3> QED
      BY <1>1, <1>2, <3>1, <3>3, <3>4 DEF Shape, ShapedDraft
  <2> QED
    BY <2>1, <2>2
<1> QED
  BY <1>2, <1>3, <1>4, <1>5, ToolKeeps

LEMMA TestedKeeps ==
    ASSUME Inv, NEW a \in Agent, TestFails(a) \/ Report(a)
    PROVE  Inv'
<1>1. TypeOK /\ Shape
  BY DEF Inv
<1>2. /\ draft[a].pc = "testing" /\ IsIdle(a)
      /\ draft' = [draft EXCEPT ![a] = NoDraft]
      /\ UNCHANGED <<registryVars, notice, crashes>> /\ op' = op
      /\ retries' = retries /\ calls' = calls
  BY DEF TestFails, Report, Dropped, registryVars
<1>3. op'[a].kind # "register" /\ \A b \in Agent \ {a} : op'[b] = op[b]
  BY <1>1, <1>2 DEF Shape, ShapedOp, IsIdle
<1>4. draft' \in [Agent -> Draft] /\ \A b \in Agent : ShapedDraft(b)'
  BY <1>1, <1>2, <1>3, DraftOK
<1>5. calls' \in 0..MaxCalls /\ retries' \in [Agent -> [Counted -> 0..MaxRetries + 1]]
  BY <1>1, <1>2 DEF TypeOK
<1> QED
  BY <1>2, <1>4, <1>5, ToolKeeps

\* Whoever is told of a skill has not handled the broadcast yet.
LEMMA AnnounceKeeps ==
    ASSUME Inv, NEW a \in Agent, Announce(a)
    PROVE  Inv'
<1>1. /\ TypeOK /\ Shape /\ AloneSoFar /\ notice \in [Agent -> BOOLEAN]
      /\ deployed \in [Name -> Code \cup {Absent}]
  BY DEF Inv, TypeOK, RegistryTypeOK
<1>2. /\ draft[a].pc = "announcing" /\ IsIdle(a)
      /\ draft' = [draft EXCEPT ![a] = NoDraft]
      /\ disk' = disk /\ reg' = reg /\ tmp' = tmp
      /\ op' = op /\ skills' = skills /\ brain' = brain
      /\ failed' = failed /\ disturbed' = disturbed
      /\ retries' = retries /\ calls' = calls /\ crashes' = crashes
  BY DEF Announce
<1>3. draft' \in [Agent -> Draft] /\ \A b \in Agent : ShapedDraft(b)'
  <2>1. op'[a].kind # "register" /\ \A b \in Agent \ {a} : op'[b] = op[b]
    BY <1>1, <1>2 DEF Shape, ShapedOp, IsIdle
  <2> QED
    BY <1>1, <1>2, <2>1, DraftOK
<1>4. CASE UNCHANGED <<notice, deployed>>
  <2>1. UNCHANGED <<registryVars, notice, crashes>>
    BY <1>2, <1>4 DEF registryVars, ghosts
  <2>2. calls' \in 0..MaxCalls /\ retries' \in [Agent -> [Counted -> 0..MaxRetries + 1]]
    BY <1>1, <1>2 DEF TypeOK
  <2> QED
    BY <1>3, <2>1, <2>2, ToolKeeps
<1>5. CASE /\ notice' = [b \in Agent |-> TRUE]
           /\ deployed' = IF Loads(draft[a].name)
                          THEN [deployed EXCEPT ![draft[a].name] = disk[draft[a].name]]
                          ELSE deployed
  <2>1. PICK n \in Name : n = draft[a].name
    BY <1>1, <1>2 DEF Shape, ShapedDraft
  <2>2. /\ Loads(n) => deployed' = [deployed EXCEPT ![n] = disk[n]]
        /\ ~ Loads(n) => deployed' = deployed
    BY <1>5, <2>1
  <2>3. /\ deployed' \in [Name -> Code \cup {Absent}]
        /\ \A m \in Name \ {n} : deployed'[m] = deployed[m]
        /\ Loads(n) => deployed'[n] = disk[n]
        /\ ~ Loads(n) => deployed'[n] = deployed[n]
    <3>1. CASE Loads(n)
      <4>1. disk[n] \in Code
        BY <3>1 DEF Loads
      <4> QED
        BY <1>1, <2>2, <3>1, <4>1
    <3>2. CASE ~ Loads(n)
      <4>1. deployed' = deployed
        BY <2>2, <3>2
      <4> QED
        BY <1>1, <3>2, <4>1
    <3> QED
      BY <3>1, <3>2
  <2>4. TypeOK'
    BY <1>1, <1>2, <1>3, <1>5, <2>3 DEF TypeOK, RegistryTypeOK
  <2>5. Shape'
    BY <1>1, <1>2, <1>3 DEF Shape, ShapedOp
  <2>6. DeployedHolds'
    BY <1>2, <2>3 DEF Inv, DeployedHolds, Loads
  <2>7. AllKnown'
    BY <1>5 DEF AllKnown, Told
  <2>8. AloneSoFar'
    <3>1. UNCHANGED files
      BY <1>2 DEF files
    <3> QED
      BY <1>1, <1>2, <3>1, AloneKept DEF AloneSoFar
  <2> QED
    BY <2>4, <2>5, <2>6, <2>7, <2>8 DEF Inv
<1> QED
  BY <1>4, <1>5 DEF Announce

----------------------------------------------------------------------------
(***************************************************************************)
(* The invariant.                                                          *)
(***************************************************************************)

LEMMA InitOK == Init => Inv
<1> SUFFICES ASSUME Init PROVE Inv
  OBVIOUS
<1>1. /\ disk = [n \in Name |-> Absent] /\ reg = Absent /\ tmp = Absent
      /\ op = [a \in Agent |-> Idle]
      /\ skills = [a \in Agent |-> NoSkills] /\ brain = [a \in Agent |-> NoSkills]
      /\ failed = [a \in Agent |-> FALSE] /\ disturbed = [a \in Agent |-> FALSE]
      /\ deployed = [n \in Name |-> Absent]
      /\ draft = [a \in Agent |-> NoDraft]
      /\ retries = [a \in Agent |-> [t \in Counted |-> 0]]
      /\ notice = [a \in Agent |-> FALSE] /\ calls = 0 /\ crashes = 0
  BY DEF Init, RegistryInit
<1>2. /\ Idle \in Operation /\ Idle.kind = "none" /\ Idle.pc = "idle"
      /\ NoSkills \in Loaded /\ NoDraft \in Draft /\ NoDraft.pc = "none"
  BY DEF Idle, Operation, Kind, Pc, NoSkills, Loaded, NoDraft, Draft
<1>3. TypeOK
  <2>1. RegistryTypeOK
    BY <1>1, <1>2 DEF RegistryTypeOK, Listing
  <2>2. [t \in Counted |-> 0] \in [Counted -> 0..MaxRetries + 1]
    OBVIOUS
  <2>3. retries \in [Agent -> [Counted -> 0..MaxRetries + 1]]
    BY <1>1, <2>2
  <2> QED
    BY <1>1, <1>2, <2>1, <2>3 DEF TypeOK
<1>4. Shape
  <2>1. \A a \in Agent : ShapedOp(op[a]) /\ ShapedDraft(a)
    BY <1>1, <1>2 DEF ShapedOp, ShapedDraft
  <2>2. {n \in Name : disk[n] # Absent} = {}
    BY <1>1
  <2>3. IsFiniteSet({n \in Name : disk[n] # Absent})
    BY <2>2, FS_EmptySet
  <2> QED
    BY <2>1, <2>3 DEF Shape
<1>5. DeployedHolds /\ AllKnown
  BY <1>1 DEF DeployedHolds, AllKnown, Told
<1>6. AloneSoFar
  BY <1>1, <1>2 DEF AloneSoFar, IsIdle
<1> QED
  BY <1>3, <1>4, <1>5, <1>6 DEF Inv

\* The steps of Next, one by one.
LEMMA StepsOf ==
    ASSUME NEW a \in Agent, Step(a)
    PROVE  \/ UNCHANGED toolVars /\ (FileStep(a) \/ EndLoad(a) \/ EndUnregister(a))
           \/ TestFails(a) \/ Report(a) \/ Publish(a)
           \/ Registered(a) \/ Raises(a) \/ Announce(a) \/ HandleNotice(a)
BY DEF Step, Ends, toolVars

LEMMA StepKeeps ==
    ASSUME Inv, NEW a \in Agent, Step(a)
    PROVE  Inv'
<1>1. CASE FileStep(a) /\ UNCHANGED toolVars
  BY <1>1, WriteFileKeeps, ScanKeeps, ReadForLoadKeeps, ReadForRegisterKeeps,
     ReadForUnregisterKeeps, OpenTmpKeeps, FillTmpKeeps, ReplaceKeeps DEF FileStep
<1>2. CASE (EndLoad(a) \/ EndUnregister(a)) /\ UNCHANGED toolVars
  BY <1>2, EndLoadKeeps, EndUnregisterKeeps
<1>3. CASE TestFails(a) \/ Report(a)
  BY <1>3, TestedKeeps
<1>4. CASE Publish(a) \/ Registered(a) \/ Raises(a)
  BY <1>4, PublishKeeps, RegisteredKeeps, RaisesKeeps
<1>5. CASE Announce(a) \/ HandleNotice(a)
  BY <1>5, AnnounceKeeps, HandleNoticeKeeps
<1> QED
  BY <1>1, <1>2, <1>3, <1>4, <1>5, StepsOf

LEMMA NextKeeps == Inv /\ [Next]_vars => Inv'
<1> SUFFICES ASSUME Inv, [Next]_vars PROVE Inv'
  OBVIOUS
<1>1. CASE UNCHANGED vars
  <2>1. UNCHANGED <<registryVars, notice, crashes>> /\ op' = op
        /\ draft' = draft /\ retries' = retries /\ calls' = calls
    BY <1>1 DEF vars, registryVars
  <2>2. calls' \in 0..MaxCalls /\ retries' \in [Agent -> [Counted -> 0..MaxRetries + 1]]
        /\ draft' \in [Agent -> Draft]
    BY <2>1 DEF Inv, TypeOK
  <2>3. \A b \in Agent : ShapedDraft(b)'
    BY <2>1 DEF Inv, Shape, ShapedDraft
  <2> QED
    BY <2>1, <2>2, <2>3, ToolKeeps
<1>2. ASSUME NEW a \in Agent, Step(a) PROVE Inv'
  BY <1>2, StepKeeps
<1>3. ASSUME NEW a \in Agent, NEW t \in Tool, NEW c \in Code,
             Decline(a, t, c) \/ \E n \in Name : StartTest(a, t, n, c)
      PROVE  Inv'
  BY <1>3, CallsKeep
<1>4. ASSUME NEW a \in Agent, NEW n \in Name, RemoveSkill(a, n) PROVE Inv'
  BY <1>4, RemoveSkillKeeps
<1>5. ASSUME NEW a \in Agent, SwitchModel(a), UNCHANGED toolVars PROVE Inv'
  BY <1>5, SwitchModelKeeps
<1>6. ASSUME NEW a \in Agent, ReloadJob(a) \/ Crash(a) PROVE Inv'
  BY <1>6, ReloadJobKeeps, CrashKeeps
<1> QED
  BY <1>1, <1>2, <1>3, <1>4, <1>5, <1>6 DEF Next, toolVars

LEMMA Invariance == Spec => []Inv
<1>1. Init => Inv
  BY InitOK
<1>2. Inv /\ [Next]_vars => Inv'
  BY NextKeeps
<1> QED
  BY <1>1, <1>2, PTL DEF Spec

(***************************************************************************)
(* Every variable keeps its type, whatever the directory goes through: the *)
(* operations never load what is not a code, list what is not an entry, or *)
(* count a call beyond max_retries.                                        *)
(***************************************************************************)
THEOREM TypeCorrect == Spec => []TypeOK
<1>1. Inv => TypeOK
  BY DEF Inv
<1> QED
  BY <1>1, Invariance, PTL

(***************************************************************************)
(* A skill whose deployment was announced is in the brain of every agent   *)
(* that has handled the broadcast and is not in an operation, with the     *)
(* code that was announced; also after a restart, and whatever other       *)
(* processes did to registry.json: _on_nats_message and load_all.          *)
(***************************************************************************)
THEOREM DeploymentReaches == Spec => []DeployedIsLoaded
<1>1. ASSUME Inv, NEW a \in Agent, NEW n \in Name,
             deployed[n] # Absent, Sole(n), IsIdle(a), ~ notice[a], ~ failed[a]
      PROVE  brain[a][Declares[deployed[n]]] = deployed[n]
  <2>1. Known(a, n)
    BY <1>1 DEF Inv, AllKnown, Told
  <2>2. ~ Loading(a)
    BY <1>1 DEF Inv, Shape, ShapedOp, IsIdle, Loading
  <2> QED
    BY <1>1, <2>1, <2>2 DEF Known
<1>2. Inv => DeployedIsLoaded
  BY <1>1 DEF DeployedIsLoaded
<1> QED
  BY <1>2, Invariance, PTL

----------------------------------------------------------------------------
(***************************************************************************)
(* What an operation does that nobody disturbs.                            *)
(***************************************************************************)

Exact(a) ==
    ~ IsIdle(a) /\ op'[a].pc = "idle" /\ ~ disturbed[a] =>
        /\ ~ failed'[a] \/ failed[a]
        /\ Loading(a) => ~ failed'[a] /\ LoadExact(a)
        /\ op[a].kind = "register" => RegisterExact(a)
        /\ op[a].kind = "unregister" => UnregisterExact(a)

\* A file step ends no operation,
LEMMA FileStepGoesOn ==
    ASSUME Inv, NEW b \in Agent, FileStep(b), NEW a \in Agent
    PROVE  op'[a].pc = "idle" => IsIdle(a)
<1>1. op \in [Agent -> Operation] /\ op[a] \in Operation /\ op[b] \in Operation
  BY DEF Inv, TypeOK, RegistryTypeOK
<1>2. op'[b].pc # "idle" /\ (a # b => op'[a].pc = op[a].pc)
  <2>1. CASE WriteFile(b)
    BY <1>1, <2>1 DEF WriteFile
  <2>2. CASE ReadForLoad(b)
    <3>1. PICK list : op' = [op EXCEPT ![b].list = list, ![b].pc = "scanning"]
      BY <2>2 DEF ReadForLoad
    <3> QED
      BY <1>1, <3>1 DEF Operation
  <2>3. CASE ReadForRegister(b)
    <3>1. PICK list : op' = [op EXCEPT ![b].list = list, ![b].pc = "opening"]
      BY <2>3 DEF ReadForRegister
    <3> QED
      BY <1>1, <3>1 DEF Operation
  <2>4. CASE ReadForUnregister(b)
    <3> DEFINE pc == IF reg \in {Absent, Torn} THEN "ending" ELSE "opening"
    <3>1. PICK list : op' = [op EXCEPT ![b].list = list, ![b].pc = pc]
      BY <2>4 DEF ReadForUnregister
    <3>2. pc # "idle"
      OBVIOUS
    <3> HIDE DEF pc
    <3> QED
      BY <1>1, <3>1, <3>2 DEF Operation
  <2>5. CASE Scan(b)
    <3> DEFINE list == op[b].list \o Added(op[b].list)
               pc == IF Unlisted(op[b].list) = {} THEN "ending" ELSE "opening"
    <3>1. op' = [op EXCEPT ![b].list = list, ![b].pc = pc]
      BY <1>1, <2>5 DEF Scan, Added
    <3>2. pc # "idle"
      OBVIOUS
    <3> HIDE DEF list, pc
    <3> QED
      BY <1>1, <3>1, <3>2 DEF Operation
  <2>6. CASE OpenTmp(b)
    BY <1>1, <2>6 DEF OpenTmp, Operation
  <2>7. CASE FillTmp(b)
    <3>1. op' = [op EXCEPT ![b].fd = "closed", ![b].pc = "replacing"]
      BY <2>7 DEF FillTmp
    <3> QED
      BY <1>1, <3>1 DEF Operation
  <2>8. CASE Replace(b)
    BY <1>1, <2>8, Renames DEF Stays
  <2> QED
    BY <2>1, <2>2, <2>3, <2>4, <2>5, <2>6, <2>7, <2>8 DEF FileStep
<1> QED
  BY <1>2 DEF IsIdle

\* ... nor does the beginning of an operation.
LEMMA BeginningGoesOn ==
    ASSUME Inv, NEW b \in Agent, NEW kind, NEW pc \in Pc, pc # "idle", NEW n, NEW c,
           op' = [op EXCEPT ![b] = Running(kind, pc, n, c)], NEW a \in Agent
    PROVE  op'[a].pc = "idle" => IsIdle(a)
<1> DEFINE r == Running(kind, pc, n, c)
<1>1. r.pc = pc
  BY RunningOK
<1>2. op' = [op EXCEPT ![b] = r] /\ op \in [Agent -> Operation]
  BY DEF Inv, TypeOK, RegistryTypeOK
<1> HIDE DEF r
<1>3. op'[a] = IF a = b THEN r ELSE op[a]
  BY <1>2
<1> QED
  BY <1>1, <1>3 DEF IsIdle

\* An operation ends in one of four ways.
LEMMA Endings ==
    ASSUME Inv, Next, NEW a \in Agent, ~ IsIdle(a), op'[a].pc = "idle"
    PROVE  EndLoad(a) \/ EndUnregister(a) \/ EndRegister(a) \/ ReplaceRaises(a)
<1>1. op \in [Agent -> Operation]
  BY DEF Inv, TypeOK, RegistryTypeOK
<1>2. PICK b \in Agent :
          \/ Step(b)
          \/ \E t \in Tool, c \in Code :
                 Decline(b, t, c) \/ \E n \in Name : StartTest(b, t, n, c)
          \/ \E n \in Name : RemoveSkill(b, n)
          \/ SwitchModel(b) \/ ReloadJob(b) \/ Crash(b)
  BY DEF Next
<1>3. op' # op
  BY DEF IsIdle
<1>4. CASE \E t \in Tool, c \in Code :
               Decline(b, t, c) \/ \E n \in Name : StartTest(b, t, n, c)
  BY <1>3, <1>4 DEF Decline, StartTest, registryVars
<1>5. CASE SwitchModel(b)
  BY <1>3, <1>5 DEF SwitchModel
<1>6. CASE ReloadJob(b) \/ Crash(b)
  <2>1. PICK kind : op' = [op EXCEPT ![b] = Running(kind, "reading", Absent, Absent)]
    BY <1>6 DEF ReloadJob, BeginLoad, Crash, Reborn
  <2> QED
    BY <2>1, BeginningGoesOn DEF Pc
<1>7. ASSUME NEW n \in Name, RemoveSkill(b, n) PROVE FALSE
  <2>1. op' = [op EXCEPT ![b] = Running("unregister", "reading", n, Absent)]
    BY <1>7 DEF RemoveSkill, BeginUnregister
  <2> QED
    BY <2>1, BeginningGoesOn DEF Pc
<1>8. CASE Step(b)
  <2>1. CASE FileStep(b)
    BY <2>1, FileStepGoesOn
  <2>2. CASE TestFails(b) \/ Report(b) \/ Announce(b)
    BY <1>3, <2>2 DEF TestFails, Report, Dropped, Announce, registryVars
  <2>3. CASE Publish(b)
    <3>1. PICK n, c : op' = [op EXCEPT ![b] = Running("register", "writing", n, c)]
      BY <2>3 DEF Publish, BeginRegister
    <3> QED
      BY <3>1, BeginningGoesOn DEF Pc
  <2>4. CASE HandleNotice(b)
    <3>1. op' = [op EXCEPT ![b] = Running("reload", "reading", Absent, Absent)]
      BY <2>4 DEF HandleNotice, BeginLoad
    <3> QED
      BY <3>1, BeginningGoesOn DEF Pc
  <2>5. CASE EndLoad(b) \/ EndUnregister(b) \/ Registered(b) \/ Raises(b)
    <3>1. EndLoad(b) \/ EndUnregister(b) \/ EndRegister(b) \/ ReplaceRaises(b)
      BY <2>5 DEF Registered, Raises
    <3>2. PICK r : op' = [op EXCEPT ![b] = r]
      BY <3>1 DEF EndLoad, EndUnregister, EndRegister, ReplaceRaises
    <3>3. b # a => op'[a] = op[a]
      BY <1>1, <3>2
    <3> QED
      BY <3>1, <3>3 DEF IsIdle
  <2> QED
    BY <1>8, <2>1, <2>2, <2>3, <2>4, <2>5, StepsOf
<1> QED
  BY <1>2, <1>4, <1>5, <1>6, <1>7, <1>8

LEMMA EndLoadExact ==
    ASSUME Inv, NEW a \in Agent, EndLoad(a), ~ disturbed[a]
    PROVE  ~ failed'[a] /\ LoadExact(a)
<1> DEFINE list == op[a].list
           L == LoadedFrom(list)
<1>1. /\ op \in [Agent -> Operation] /\ list \in Seq(Entry)
      /\ skills \in [Agent -> Loaded] /\ failed \in [Agent -> BOOLEAN]
      /\ disk \in [Name -> Code \cup {Absent, Torn}]
  BY DEF Inv, TypeOK, RegistryTypeOK, Operation
<1>2. Loading(a) /\ op[a].pc = "ending" /\ skills' = [skills EXCEPT ![a] = L]
      /\ failed' = [failed EXCEPT ![a] = FALSE]
  BY DEF EndLoad
<1>3. ~ failed'[a] /\ skills'[a] = L
  BY <1>1, <1>2
<1>4. Listed(a) /\ Entries = list
  BY <1>2 DEF Inv, AloneSoFar, IsIdle, Saved
<1>5. \A k \in Name : L[k] # Absent =>
          \E j \in DOMAIN list : /\ list[j].file \in Name /\ Loads(list[j].file)
                                 /\ disk[list[j].file] = L[k]
                                 /\ Declares[disk[list[j].file]] = k
  <2> HIDE DEF list
  <2> QED
    BY <1>1, LoadedFromOK
<1>6. ASSUME NEW n \in Name, Loads(n)
      PROVE  /\ \E m \in Name : /\ Loads(m) /\ Declares[disk[m]] = Declares[disk[n]]
                                /\ L[Declares[disk[n]]] = disk[m]
             /\ \E i \in DOMAIN list : list[i].file = n
  <2>1. PICK i \in DOMAIN list : list[i].file = n
    BY <1>2, <1>4, <1>6 DEF Listed
  <2>2. PICK D \in Name : D = Declares[disk[n]]
    BY <1>6 DEF Loads
  <2> HIDE DEF list
  <2>3. L[D] # Absent
    <3>1. \A j \in DOMAIN list : Loads(list[j].file) =>
              L[Declares[disk[list[j].file]]] # Absent
      BY <1>1, LoadedFromOK
    <3>2. Loads(list[i].file) /\ Declares[disk[list[i].file]] = D
      BY <1>6, <2>1, <2>2
    <3> HIDE DEF L
    <3> QED
      BY <2>1, <3>1, <3>2
  <2>4. \E j \in DOMAIN list : /\ list[j].file \in Name /\ Loads(list[j].file)
                               /\ disk[list[j].file] = L[D]
                               /\ Declares[disk[list[j].file]] = D
    BY <1>5, <2>2, <2>3
  <2> HIDE DEF L
  <2> QED
    BY <2>1, <2>2, <2>4
<1>7. ASSUME NEW k \in Name, L[k] # Absent
      PROVE  \E m \in Name : disk[m] = L[k] /\ Declares[disk[m]] = k
  <2> HIDE DEF list, L
  <2> QED
    BY <1>5, <1>7
<1> HIDE DEF list, L
<1> QED
  BY <1>3, <1>4, <1>6, <1>7 DEF LoadExact

LEMMA EndRegisterExact ==
    ASSUME Inv, NEW a \in Agent, EndRegister(a), ~ disturbed[a]
    PROVE  failed'[a] = failed[a] /\ RegisterExact(a)
<1>1. op[a].kind = "register" /\ op[a].pc = "ending" /\ failed' = failed
  BY DEF EndRegister, At, ghosts
<1>2. Placed(a) /\ Listed(a) /\ Saved(a)
  BY <1>1 DEF Inv, AloneSoFar, IsIdle
<1>3. PICK n \in Name, c \in Code : n = op[a].name /\ c = op[a].code
  BY <1>1 DEF Inv, Shape, ShapedOp
<1>4. disk[n] = c /\ \E i \in DOMAIN Entries : Entries[i].name = n
  BY <1>1, <1>2, <1>3 DEF Placed, Listed, Saved
<1>5. ASSUME c \in Loadable PROVE skills'[a][Declares[c]] = c
  <2>1. Loads(n)
    BY <1>4, <1>5 DEF Loads
  <2>2. skills' = [skills EXCEPT ![a][Declares[c]] = c]
    BY <1>3, <1>4, <2>1 DEF EndRegister
  <2>3. skills \in [Agent -> Loaded] /\ Declares[c] \in Name
    BY DEF Inv, TypeOK, RegistryTypeOK
  <2> QED
    BY <2>2, <2>3 DEF Loaded
<1> QED
  BY <1>1, <1>3, <1>4, <1>5 DEF RegisterExact

LEMMA EndUnregisterExact ==
    ASSUME Inv, NEW a \in Agent, EndUnregister(a), ~ disturbed[a]
    PROVE  failed'[a] = failed[a] /\ UnregisterExact(a)
<1>1. op[a].kind = "unregister" /\ op[a].pc = "ending" /\ failed' = failed
      /\ skills' = [skills EXCEPT ![a][op[a].name] = Absent]
  BY DEF EndUnregister, At, ghosts
<1>2. Placed(a) /\ Listed(a) /\ Saved(a)
  BY <1>1 DEF Inv, AloneSoFar, IsIdle
<1>3. PICK n \in Name : n = op[a].name
  BY <1>1 DEF Inv, Shape, ShapedOp
<1>4. disk[n] = Absent /\ \A i \in DOMAIN Entries : Entries[i].name # n
  BY <1>1, <1>2, <1>3 DEF Placed, Listed, Saved
<1>5. skills'[a][n] = Absent
  <2>1. skills \in [Agent -> Loaded]
    BY DEF Inv, TypeOK, RegistryTypeOK
  <2> QED
    BY <1>1, <1>3, <2>1 DEF Loaded
<1> QED
  BY <1>1, <1>3, <1>4, <1>5 DEF UnregisterExact

(***************************************************************************)
(* load_all, register_skill and unregister_skill do what they say, and     *)
(* raise nothing, if no other process changes a file meanwhile: whatever   *)
(* an earlier process left torn, unlisted or half renamed in the directory.*)
(***************************************************************************)
THEOREM ExactWhenAlone == Spec => AloneIsExact
<1>1. ASSUME Inv, Next, NEW a \in Agent PROVE Exact(a)
  <2> SUFFICES ASSUME ~ IsIdle(a), op'[a].pc = "idle", ~ disturbed[a]
               PROVE  /\ ~ failed'[a] \/ failed[a]
                      /\ Loading(a) => ~ failed'[a] /\ LoadExact(a)
                      /\ op[a].kind = "register" => RegisterExact(a)
                      /\ op[a].kind = "unregister" => UnregisterExact(a)
    BY DEF Exact
  <2>1. CASE EndLoad(a)
    BY <1>1, <2>1, EndLoadExact DEF EndLoad, Loading
  <2>2. CASE EndRegister(a)
    BY <1>1, <2>2, EndRegisterExact DEF EndRegister, At, Loading
  <2>3. CASE EndUnregister(a)
    BY <1>1, <2>3, EndUnregisterExact DEF EndUnregister, At, Loading
  <2>4. CASE ReplaceRaises(a)
    BY <1>1, <2>4, Undisturbed
  <2> QED
    BY <1>1, <2>1, <2>2, <2>3, <2>4, Endings
<1>2. Inv /\ [Next]_vars => [\A a \in Agent : Exact(a)]_registryVars
  BY <1>1 DEF vars
<1>3. Spec => [][\A a \in Agent : Exact(a)]_registryVars
  BY <1>2, Invariance, PTL DEF Spec
<1> QED
  BY <1>3 DEF AloneIsExact, Exact
=============================================================================

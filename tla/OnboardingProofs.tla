-------------------------- MODULE OnboardingProofs --------------------------
(***************************************************************************)
(* Proofs about Onboarding, for any agents, channels, names and numbers of *)
(* flows and faults: at the menu the files of the configuration agree      *)
(* about every agent whose last flow was not cut short by a write that     *)
(* raised, and define the secrets it refers to.                            *)
(***************************************************************************)
EXTENDS Onboarding, SequenceTheorems, TLAPS

\* What is left of each flow.
Adding4 == <<"agents", "services", "token", "key">>
Adding3 == <<"services", "token", "key">>
Adding2 == <<"token", "key">>
Adding1 == <<"key">>

Changing3 == <<"token", "key", "services">>
Changing2 == <<"key", "services">>
Changing1 == <<"services">>

Removing2 == <<"drop service", "comment">>
Removing1 == <<"comment">>

Replacing == <<"drop agent", "drop service", "comment",
               "ask", "agents", "services", "token", "key">>
Replacing7 == <<"drop service", "comment", "ask", "agents", "services", "token", "key">>
Replacing6 == <<"comment", "ask", "agents", "services", "token", "key">>

Adds == {Adding, Adding4, Adding3, Adding2, Adding1}
Changes == {Changing, Changing3, Changing2, Changing1}
Removes == {Removing, Removing2, Removing1, Replacing, Replacing7, Replacing6}
Stages == {<<>>, Searching} \cup Adds \cup Changes \cup Removes

Defined(v) ==
    \/ Longer(v) # {}
    \/ /\ env[v].of = v.agent /\ env[v].on
       /\ v.kind \notin MultiLine => env[v].whole
Secrets(a) ==
    agents[a] # NoEntry =>
        /\ Defined(TokenOf(a, agents[a]))
        /\ agents[a].key => Defined(KeyOf(a))

\* The files agree about an agent, which is not the one of the flow.
Settled ==
    \A a \in Agent \ damaged : todo \in {<<>>, Searching} \/ a # draft.agent =>
        agents[a] = services[a] /\ Secrets(a)

\* Adding: the entry is written first, then the service, then the secrets.
AddingSoFar ==
    LET d == draft.agent
        e == draft.entry
    IN  /\ todo \in {Adding, Adding4} => agents[d] = NoEntry
        /\ todo \in {Adding, Adding4, Adding3} /\ d \notin damaged => services[d] = NoEntry
        /\ todo \in Adds \ {Adding} => e \in Entry /\ draft.token /\ draft.key = e.key
        /\ todo \in {Adding3, Adding2, Adding1} => agents[d] = e
        /\ todo \in {Adding2, Adding1} /\ d \notin damaged => services[d] = e
        /\ todo = Adding1 /\ d \notin damaged => Defined(TokenOf(d, e))

\* Changing: the entry first, then the secrets, the service last.
ChangingSoFar ==
    LET d == draft.agent
        e == draft.entry
    IN  /\ todo \in Changes => e \in Entry
        /\ todo \in Changes /\ d \notin damaged =>
               /\ services[d] \in Entry /\ services[d].channel = e.channel
               /\ draft.key => e.key
               /\ e.key => draft.key \/ services[d].key
               /\ Defined(TokenOf(d, e))
               /\ e.key => (draft.key /\ todo # Changing1) \/ Defined(KeyOf(d))
               /\ todo = Changing => agents[d] = services[d]
               /\ todo # Changing => agents[d] = e

\* Removing: the entry first, then the service.
RemovingSoFar ==
    /\ todo \in {Removing2, Removing1, Replacing7, Replacing6} => agents[draft.agent] = NoEntry
    /\ todo \in {Removing1, Replacing6} => services[draft.agent] = NoEntry

\* The inductive invariant.
Inv ==
    /\ TypeOK
    /\ todo \in Stages
    /\ todo \notin {<<>>, Searching} => draft.agent \in Agent
    /\ \A v \in Var : env[v].of = None => env[v] = Absent
    /\ Settled
    /\ AddingSoFar
    /\ ChangingSoFar
    /\ RemovingSoFar

\* Only tokens of some channels have several lines.
LinesOK == draft.lines => draft.entry.channel \in MultiLine

----------------------------------------------------------------------------
\* The stages of the flows.

\* Removing an agent before it is added again is one flow after the other.
LEMMA ReplacingIs == Removing \o Adding = Replacing
<1> DEFINE s == Removing \o Adding
<1>1. Removing \in Seq(Step) /\ Len(Removing) = 3 /\ Adding \in Seq(Step) /\ Len(Adding) = 5
    BY DEF Removing, Adding, Step
<1>2. Replacing \in Seq(Step) /\ Len(Replacing) = 8
    BY DEF Replacing, Step
<1>3. /\ s \in Seq(Step) /\ Len(s) = Len(Removing) + Len(Adding)
      /\ \A i \in 1..Len(Removing) + Len(Adding) :
             s[i] = IF i <= Len(Removing) THEN Removing[i] ELSE Adding[i - Len(Removing)]
    BY <1>1, ConcatProperties
<1> HIDE DEF s
<1>4. /\ s[1] = Removing[1] /\ s[2] = Removing[2] /\ s[3] = Removing[3]
      /\ s[4] = Adding[1] /\ s[5] = Adding[2] /\ s[6] = Adding[3]
      /\ s[7] = Adding[4] /\ s[8] = Adding[5] /\ Len(s) = 8
    BY <1>1, <1>3
<1>5. /\ Removing[1] = Replacing[1] /\ Removing[2] = Replacing[2] /\ Removing[3] = Replacing[3]
      /\ Adding[1] = Replacing[4] /\ Adding[2] = Replacing[5] /\ Adding[3] = Replacing[6]
      /\ Adding[4] = Replacing[7] /\ Adding[5] = Replacing[8]
    BY DEF Removing, Adding, Replacing
<1>6. \A i \in 1..8 : s[i] = Replacing[i]
    BY <1>4, <1>5
<1>7. s = Replacing
    BY <1>2, <1>3, <1>4, <1>6, SeqEqual
<1> QED
    BY <1>7 DEF s

LEMMA StagesType == Stages \subseteq Seq(Step)
<1>1. /\ <<>> \in Seq(Step) /\ Searching \in Seq(Step)
      /\ Removing \in Seq(Step) /\ Removing2 \in Seq(Step) /\ Removing1 \in Seq(Step)
    BY DEF Searching, Removing, Removing2, Removing1, Step
<1>2. /\ Adding \in Seq(Step) /\ Adding4 \in Seq(Step) /\ Adding3 \in Seq(Step)
      /\ Adding2 \in Seq(Step) /\ Adding1 \in Seq(Step)
    BY DEF Adding, Adding4, Adding3, Adding2, Adding1, Step
<1>3. /\ Changing \in Seq(Step) /\ Changing3 \in Seq(Step) /\ Changing2 \in Seq(Step)
      /\ Changing1 \in Seq(Step)
    BY DEF Changing, Changing3, Changing2, Changing1, Step
<1>4. Replacing \in Seq(Step) /\ Replacing7 \in Seq(Step) /\ Replacing6 \in Seq(Step)
    BY DEF Replacing, Replacing7, Replacing6, Step
<1> QED
    BY <1>1, <1>2, <1>3, <1>4 DEF Stages, Adds, Changes, Removes

\* The first step of each stage, and the stage that follows.
IsStage(s, step, t) == s # <<>> /\ Head(s) = step /\ Tail(s) = t

IsRest(s, t) == Len(s) = Len(t) + 1 /\ \A i \in 1..Len(t) : s[i + 1] = t[i]

LEMMA StageBy ==
    ASSUME NEW s \in Seq(Step), NEW t \in Seq(Step), IsRest(s, t)
    PROVE  IsStage(s, s[1], t)
<1>1. Len(t) \in Nat /\ s # <<>> /\ Head(s) = s[1]
    BY DEF IsRest
<1>2. /\ Tail(s) \in Seq(Step) /\ Len(Tail(s)) = Len(s) - 1
      /\ \A i \in 1..Len(Tail(s)) : Tail(s)[i] = s[i + 1]
    BY <1>1, HeadTailProperties
<1>3. Len(Tail(s)) = Len(t) /\ \A i \in 1..Len(Tail(s)) : Tail(s)[i] = t[i]
    BY <1>1, <1>2 DEF IsRest
<1>4. Tail(s) = t
    BY <1>2, <1>3, SeqEqual
<1> QED
    BY <1>1, <1>4 DEF IsStage

LEMMA AddsSteps ==
    /\ IsStage(Adding, "ask", Adding4) /\ IsStage(Adding4, "agents", Adding3)
    /\ IsStage(Adding3, "services", Adding2) /\ IsStage(Adding2, "token", Adding1)
    /\ IsStage(Adding1, "key", <<>>)
  BY DEF IsStage, Adding, Adding4, Adding3, Adding2, Adding1

LEMMA ChangesSteps ==
    /\ IsStage(Changing, "agents", Changing3) /\ IsStage(Changing3, "token", Changing2)
    /\ IsStage(Changing2, "key", Changing1) /\ IsStage(Changing1, "services", <<>>)
  BY DEF IsStage, Changing, Changing3, Changing2, Changing1

LEMMA RemovesSteps ==
    /\ IsStage(Removing, "drop agent", Removing2) /\ IsStage(Removing2, "drop service", Removing1)
    /\ IsStage(Removing1, "comment", <<>>)
    /\ IsStage(Replacing, "drop agent", Replacing7)
    /\ IsStage(Replacing7, "drop service", Replacing6)
    /\ IsStage(Replacing6, "comment", Adding) /\ IsStage(Searching, "search", <<>>)
<1>1. IsStage(Removing, "drop agent", Removing2)
    <2>1. Removing2 \in Seq(Step) /\ Len(Removing2) = 2
        BY DEF Removing2, Step
    <2>2. Removing \in Seq(Step) /\ Len(Removing) = 3 /\ Removing[1] = "drop agent"
        BY DEF Removing, Step
    <2>3. Removing[2] = Removing2[1] /\ Removing[3] = Removing2[2]
        BY DEF Removing, Removing2
    <2>4. IsRest(Removing, Removing2)
        <3>1. Len(Removing) = 3 /\ Len(Removing2) = 2
            BY <2>1, <2>2
        <3>2. \A i \in 1..2 : Removing[i + 1] = Removing2[i]
            BY <2>3
        <3>3. \A i \in 1..Len(Removing2) : Removing[i + 1] = Removing2[i]
            BY <3>1, <3>2
        <3>4. Len(Removing) = Len(Removing2) + 1
            BY <3>1
        <3> QED
            BY <3>3, <3>4 DEF IsRest
    <2>5. IsStage(Removing, Removing[1], Removing2)
        BY <2>1, <2>2, <2>4, StageBy
    <2> QED
        BY <2>2, <2>5
<1>7. IsStage(Removing2, "drop service", Removing1)
    BY DEF IsStage, Removing2, Removing1
<1>2. IsStage(Replacing, "drop agent", Replacing7)
    <2>1. Replacing7 \in Seq(Step) /\ Len(Replacing7) = 7
        BY DEF Replacing7, Step
    <2>2. Replacing \in Seq(Step) /\ Len(Replacing) = 8 /\ Replacing[1] = "drop agent"
        BY DEF Replacing, Step
    <2>3. /\ Replacing[2] = Replacing7[1] /\ Replacing[3] = Replacing7[2]
          /\ Replacing[4] = Replacing7[3] /\ Replacing[5] = Replacing7[4]
          /\ Replacing[6] = Replacing7[5] /\ Replacing[7] = Replacing7[6]
          /\ Replacing[8] = Replacing7[7]
        BY DEF Replacing, Replacing7
    <2>4. IsRest(Replacing, Replacing7)
        <3>1. Len(Replacing) = 8 /\ Len(Replacing7) = 7
            BY <2>1, <2>2
        <3>2. \A i \in 1..7 : Replacing[i + 1] = Replacing7[i]
            BY <2>3
        <3>3. \A i \in 1..Len(Replacing7) : Replacing[i + 1] = Replacing7[i]
            BY <3>1, <3>2
        <3>4. Len(Replacing) = Len(Replacing7) + 1
            BY <3>1
        <3> QED
            BY <3>3, <3>4 DEF IsRest
    <2>5. IsStage(Replacing, Replacing[1], Replacing7)
        BY <2>1, <2>2, <2>4, StageBy
    <2> QED
        BY <2>2, <2>5
<1>3. IsStage(Replacing7, "drop service", Replacing6)
    BY DEF IsStage, Replacing7, Replacing6
<1>4. IsStage(Replacing6, "comment", Adding)
    BY DEF IsStage, Replacing6, Adding
<1>5. IsStage(Removing1, "comment", <<>>)
    BY DEF IsStage, Removing1
<1>6. IsStage(Searching, "search", <<>>)
    BY DEF IsStage, Searching
<1> QED
    BY <1>1, <1>2, <1>3, <1>4, <1>5, <1>6, <1>7

\* No two stages are the same.
LEMMA StagesDiffer ==
    /\ Adding4 # Changing /\ Adding3 # Changing1 /\ Adding2 # Changing3
    /\ Adding1 # Changing2 /\ Removing # Replacing /\ Removing2 # Replacing7
    /\ Removing1 # Replacing6
  BY DEF Adding4, Adding3, Adding2, Adding1, Changing, Changing3, Changing2, Changing1,
         Removing, Removing2, Removing1, Replacing, Replacing7, Replacing6

LEMMA FlowsDiffer ==
    /\ Adds \cap Changes = {} /\ Adds \cap Removes = {} /\ Changes \cap Removes = {}
    /\ <<>> \notin Adds \cup Changes \cup Removes \cup {Searching}
    /\ Searching \notin Adds \cup Changes \cup Removes
<1>1. /\ \A s \in Adds : s # <<>> /\ Head(s) \in {"ask", "agents", "services", "token", "key"}
      /\ \A s \in Changes : s # <<>> /\ Head(s) \in {"agents", "services", "token", "key"}
      /\ \A s \in Removes : s # <<>> /\ Head(s) \in {"drop agent", "drop service", "comment"}
      /\ Searching # <<>> /\ Head(Searching) = "search"
    <2>1. \A s \in Adds : s # <<>> /\ Head(s) \in {"ask", "agents", "services", "token", "key"}
        BY AddsSteps DEF IsStage, Adds
    <2>2. \A s \in Changes : s # <<>> /\ Head(s) \in {"agents", "services", "token", "key"}
        BY ChangesSteps DEF IsStage, Changes
    <2>3. \A s \in Removes : s # <<>> /\ Head(s) \in {"drop agent", "drop service", "comment"}
        BY RemovesSteps DEF IsStage, Removes
    <2>4. Searching # <<>> /\ Head(Searching) = "search"
        BY RemovesSteps DEF IsStage
    <2> QED
        BY <2>1, <2>2, <2>3, <2>4
<1>2. \A s \in Changes : s \notin Adds
    <2>1. Adding \notin Changes
        BY AddsSteps, ChangesSteps DEF IsStage, Changes
    <2>2. Adding4 \notin Changes
        BY AddsSteps, ChangesSteps, StagesDiffer DEF IsStage, Changes
    <2>3. Adding3 \notin Changes
        BY AddsSteps, ChangesSteps, StagesDiffer DEF IsStage, Changes
    <2>4. Adding2 \notin Changes
        BY AddsSteps, ChangesSteps, StagesDiffer DEF IsStage, Changes
    <2>5. Adding1 \notin Changes
        BY AddsSteps, ChangesSteps, StagesDiffer DEF IsStage, Changes
    <2> QED
        BY <2>1, <2>2, <2>3, <2>4, <2>5 DEF Adds
<1> QED
    BY <1>1, <1>2

LEMMA StepsDiffer ==
    /\ Adding \notin {Adding4, Adding3, Adding2, Adding1}
    /\ Adding4 \notin {Adding3, Adding2, Adding1}
    /\ Adding3 \notin {Adding2, Adding1} /\ Adding2 # Adding1
    /\ Changing \notin {Changing3, Changing2, Changing1}
    /\ Changing3 \notin {Changing2, Changing1} /\ Changing2 # Changing1
    /\ Removing \notin {Removing2, Removing1, Replacing, Replacing7, Replacing6}
    /\ Removing2 \notin {Removing1, Replacing, Replacing7, Replacing6}
    /\ Removing1 \notin {Replacing, Replacing7, Replacing6}
    /\ Replacing \notin {Replacing7, Replacing6} /\ Replacing7 # Replacing6
  BY AddsSteps, ChangesSteps, RemovesSteps, StagesDiffer DEF IsStage

\* Where a flow is when it does a step, and where it is afterwards.
LEMMA DoesFrom ==
    ASSUME todo \in Stages, NEW step, Does(step)
    PROVE  /\ step = "ask" => todo = Adding /\ todo' = Adding4
           /\ step = "agents" => \/ todo = Adding4 /\ todo' = Adding3
                                 \/ todo = Changing /\ todo' = Changing3
           /\ step = "services" => \/ todo = Adding3 /\ todo' = Adding2
                                   \/ todo = Changing1 /\ todo' = <<>>
           /\ step = "token" => \/ todo = Adding2 /\ todo' = Adding1
                                \/ todo = Changing3 /\ todo' = Changing2
           /\ step = "key" => \/ todo = Adding1 /\ todo' = <<>>
                              \/ todo = Changing2 /\ todo' = Changing1
           /\ step = "drop agent" => \/ todo = Removing /\ todo' = Removing2
                                     \/ todo = Replacing /\ todo' = Replacing7
           /\ step = "drop service" => \/ todo = Removing2 /\ todo' = Removing1
                                       \/ todo = Replacing7 /\ todo' = Replacing6
           /\ step = "comment" => \/ todo = Removing1 /\ todo' = <<>>
                                  \/ todo = Replacing6 /\ todo' = Adding
           /\ step = "search" => todo = Searching /\ todo' = <<>>
           /\ todo' \in Stages \ {Searching}
<1>1. todo # <<>> /\ Head(todo) = step /\ todo' = Tail(todo)
    BY DEF Does
<1>2. todo \in {Searching} \cup Adds \cup Changes \cup Removes
    BY <1>1 DEF Stages
<1>3. CASE todo \in Adds
    BY <1>1, <1>3, AddsSteps, FlowsDiffer DEF IsStage, Adds, Stages
<1>4. CASE todo \in Changes
    BY <1>1, <1>4, ChangesSteps, FlowsDiffer DEF IsStage, Changes, Stages
<1>5. CASE todo \in Removes \cup {Searching}
    BY <1>1, <1>5, RemovesSteps, FlowsDiffer DEF IsStage, Removes, Stages, Adds
<1> QED
    BY <1>2, <1>3, <1>4, <1>5

----------------------------------------------------------------------------
\* What is written to .env.

USE OnboardingAssumption

EnvOK ==
    /\ env \in [Var -> Line]
    /\ \A v \in Var : env[v] # Absent /\ ~env[v].on => v.kind = telegram
    /\ \A v \in Var : env[v].of = None => env[v] = Absent

\* No line is lost, ...
Grows == \A v \in Var : env[v] # Absent => env'[v] # Absent

\* ... and those of a stay as they are.
KeptFor(a) == \A v \in Var : v.agent = a => env'[v] = env[v]

LEMMA DefinedKept ==
    ASSUME Grows, NEW v \in Var, env'[v] = env[v], Defined(v)
    PROVE  Defined(v)'
  BY DEF Grows, Defined, Longer

LEMMA VarsOf ==
    ASSUME NEW a \in Agent, NEW e \in Entry
    PROVE  /\ TokenOf(a, e) \in Var /\ TokenOf(a, e).agent = a
           /\ KeyOf(a) \in Var /\ KeyOf(a).agent = a /\ KeyOf(a) # TokenOf(a, e)
<1>1. e.channel \in Channel /\ e.channel # Key
    BY DEF Entry
<1> QED
    BY <1>1 DEF TokenOf, KeyOf, Var

LEMMA WithEffect ==
    ASSUME EnvOK, NEW v \in Var, NEW lines \in BOOLEAN, env' = With(v, lines),
           lines => v.kind \in MultiLine
    PROVE  /\ EnvOK' /\ Grows /\ Defined(v)'
           /\ \A w \in Var : Defined(w) => Defined(w)'
           /\ \A a \in Agent \ {v.agent} : KeptFor(a)
<1>0. PICK whole \in BOOLEAN : whole = ~lines
    OBVIOUS
<1> DEFINE line == [of |-> v.agent, on |-> TRUE, whole |-> whole]
<1>1. v.agent \in Agent
    BY DEF Var
<1>2. line \in Line /\ line # Absent /\ line.on /\ line.of # None
    BY <1>1 DEF Line, Absent
<1>5. line.of = v.agent /\ line.whole = whole
    OBVIOUS
<1>3. CASE Mentioned(v) /\ env[v] = Absent
    <2>1. env' = env /\ Longer(v) # {}
        BY <1>3 DEF With, Mentioned
    <2> QED
        BY <2>1 DEF EnvOK, Grows, Defined, Longer, KeptFor
<1>4. CASE ~(Mentioned(v) /\ env[v] = Absent)
    <2>1. env' = [env EXCEPT ![v] = line]
        BY <1>0, <1>4 DEF With, Assigned
    <2> HIDE DEF line
    <2>2. env'[v] = line /\ \A w \in Var \ {v} : env'[w] = env[w]
        BY <2>1 DEF EnvOK
    <2>3. EnvOK'
        BY <1>2, <2>1, <2>2 DEF EnvOK
    <2>4. Grows
        BY <1>2, <2>2 DEF Grows
    <2>5. Defined(v)'
        <3>1. env'[v].of = v.agent /\ env'[v].on
            BY <1>2, <1>5, <2>2
        <3>2. v.kind \notin MultiLine => env'[v].whole
            <4>1. v.kind \notin MultiLine => whole
                BY <1>0
            <4>2. env'[v].whole = whole
                BY <1>5, <2>2
            <4> QED
                BY <4>1, <4>2
        <3> QED
            BY <3>1, <3>2 DEF Defined
    <2>6. \A w \in Var : Defined(w) => Defined(w)'
        BY <2>2, <2>4, <2>5, DefinedKept
    <2>7. \A a \in Agent \ {v.agent} : KeptFor(a)
        BY <2>2 DEF KeptFor
    <2> QED
        BY <2>3, <2>4, <2>5, <2>6, <2>7
<1> QED
    BY <1>3, <1>4

LEMMA CommentedEffect ==
    ASSUME EnvOK, NEW d \in Agent, env' = Commented(d)
    PROVE  EnvOK' /\ Grows /\ \A a \in Agent \ {d} : KeptFor(a)
<1> DEFINE v == [agent |-> d, kind |-> telegram]
           line == [env[v] EXCEPT !.on = FALSE]
<1>1. v \in Var /\ v.agent = d /\ v.kind = telegram
    BY DEF Var
<1>2. env' = [env EXCEPT ![v] = line]
    BY DEF Commented, EnvOK
<1> HIDE DEF v
<1>3. env[v] \in Line
    BY <1>1 DEF EnvOK
<1>4. line \in Line /\ ~line.on /\ line.of = env[v].of
    BY <1>3 DEF Line
<1>5. env[v] # Absent => line # Absent
    <2>1. line = Absent => line.of = None
        BY DEF Absent
    <2>2. env[v].of = None => env[v] = Absent
        BY <1>1 DEF EnvOK
    <2> QED
        BY <1>4, <2>1, <2>2
<1>10. line.of = None => line = Absent
    <2>1. line.of = None => env[v] = Absent
        BY <1>1, <1>4 DEF EnvOK
    <2>2. line.whole = env[v].whole
        BY <1>3 DEF Line
    <2> HIDE DEF line
    <2>3. env[v] = Absent => line = Absent
        <3>1. SUFFICES ASSUME env[v] = Absent PROVE line = Absent
            OBVIOUS
        <3>2. line.of = None /\ ~line.on /\ ~line.whole
            BY <1>4, <2>2, <3>1 DEF Absent
        <3> QED
            BY <1>4, <3>2 DEF Line, Absent
    <2> QED
        BY <2>1, <2>3
<1> HIDE DEF line
<1>6. env'[v] = line /\ \A w \in Var \ {v} : env'[w] = env[w]
    BY <1>1, <1>2 DEF EnvOK
<1>7. EnvOK'
    BY <1>1, <1>2, <1>4, <1>6, <1>10 DEF EnvOK
<1>8. Grows
    BY <1>5, <1>6 DEF Grows
<1>9. \A a \in Agent \ {d} : KeptFor(a)
    BY <1>1, <1>6 DEF KeptFor
<1> QED
    BY <1>7, <1>8, <1>9

LEMMA EnvStays ==
    ASSUME EnvOK, UNCHANGED env
    PROVE  /\ EnvOK' /\ Grows /\ \A a \in Agent : KeptFor(a)
           /\ \A v \in Var : Defined(v) => Defined(v)'
<1>1. EnvOK' /\ Grows /\ \A a \in Agent : KeptFor(a)
    BY DEF EnvOK, Grows, KeptFor
<1> QED
    BY <1>1, DefinedKept

----------------------------------------------------------------------------
\* The agents that a flow is not about.

\* A step of a flow of d leaves the files of every other agent alone.
OthersKept(d) ==
    /\ Grows
    /\ \A a \in Agent \ {d} : KeptFor(a) /\ agents'[a] = agents[a] /\ services'[a] = services[a]

SettledFor(a) == agents[a] = services[a] /\ Secrets(a)

LEMMA SettledForKept ==
    ASSUME TypeOK, Grows, NEW a \in Agent, KeptFor(a),
           agents'[a] = agents[a], services'[a] = services[a], SettledFor(a)
    PROVE  SettledFor(a)'
<1>1. \A v \in Var : v.agent = a /\ Defined(v) => Defined(v)'
    BY DefinedKept DEF KeptFor
<1>2. SUFFICES ASSUME agents[a] # NoEntry PROVE Secrets(a)'
    BY DEF SettledFor, Secrets
<1>3. agents[a] \in Entry
    BY <1>2 DEF TypeOK
<1>4. PICK v \in Var, w \in Var :
          v = TokenOf(a, agents[a]) /\ w = KeyOf(a) /\ v.agent = a /\ w.agent = a
    BY <1>3, VarsOf
<1>5. Defined(v) /\ (agents[a].key => Defined(w))
    BY <1>2, <1>4 DEF SettledFor, Secrets
<1>6. Defined(v)' /\ (agents[a].key => Defined(w)')
    BY <1>1, <1>4, <1>5
<1>7. v = TokenOf(a, agents'[a]) /\ w = KeyOf(a)
    BY <1>4
<1> QED
    BY <1>6, <1>7 DEF Secrets

LEMMA SettledKept ==
    ASSUME Inv, NEW d, d = draft.agent, d = draft'.agent, OthersKept(d),
           \A a \in Agent \ {d} : a \notin damaged' => a \notin damaged,
           todo' = <<>> \/ \E step : Does(step),
           todo' = <<>> => \A a \in Agent \ damaged' : a = d => SettledFor(a)'
    PROVE  Settled'
<1>1. todo' # Searching
    BY DoesFrom, FlowsDiffer DEF Inv
<1> SUFFICES ASSUME NEW a \in Agent, a \notin damaged', todo' = <<>> \/ a # d
             PROVE  SettledFor(a)'
    BY <1>1 DEF Settled, SettledFor
<1>2. CASE a = d
    BY <1>2
<1>3. CASE a # d
    <2>1. SettledFor(a)
        BY <1>3 DEF Inv, Settled, SettledFor
    <2> QED
        BY <1>3, <2>1, SettledForKept DEF Inv, OthersKept
<1> QED
    BY <1>2, <1>3

LEMMA InvEnv == Inv => EnvOK
  BY DEF Inv, TypeOK, EnvOK

\* What the flow has done so far says nothing of another flow.
LEMMA SoFar ==
    /\ todo' \notin Adds => AddingSoFar'
    /\ todo' \notin Changes => ChangingSoFar'
    /\ todo' \notin Removes => RemovingSoFar'
  BY DEF AddingSoFar, ChangingSoFar, RemovingSoFar, Adds, Changes, Removes

\* Between flows there is nothing to say.
LEMMA MenuSoFar ==
    ASSUME todo' \in {<<>>, Searching}
    PROVE  todo' \in Stages /\ AddingSoFar' /\ ChangingSoFar' /\ RemovingSoFar'
<1>1. todo' \notin Adds \cup Changes \cup Removes
    BY FlowsDiffer
<1> QED
    BY <1>1, SoFar DEF Stages

----------------------------------------------------------------------------
\* The menu.

LEMMA ChoosesEffect ==
    ASSUME Inv, NEW flow \in Stages, Chooses(flow), draft' \in Draft
    PROVE  /\ todo = <<>> /\ todo' = flow /\ TypeOK' /\ EnvOK' /\ Settled'
           /\ \A v \in Var : Defined(v) => Defined(v)'
           /\ UNCHANGED files
<1>1. /\ todo = <<>> /\ flows < MaxFlows /\ flows' = flows + 1 /\ todo' = flow
      /\ UNCHANGED <<agents, services, env, damaged, faults>>
    BY DEF Chooses, files
<1>2. /\ EnvOK' /\ Grows /\ \A a \in Agent : KeptFor(a)
      /\ \A v \in Var : Defined(v) => Defined(v)'
    BY <1>1, InvEnv, EnvStays
<1>3. todo' \in Seq(Step)
    BY <1>1, StagesType
<1>4. TypeOK'
    BY <1>1, <1>2, <1>3 DEF Inv, TypeOK, EnvOK
<1>5. ASSUME NEW a \in Agent \ damaged PROVE SettledFor(a)'
    <2>1. SettledFor(a)
        BY <1>1 DEF Inv, Settled, SettledFor
    <2> QED
        BY <1>1, <1>2, <2>1, SettledForKept DEF Inv
<1>6. Settled'
    BY <1>1, <1>5 DEF Settled, SettledFor
<1> QED
    BY <1>1, <1>2, <1>4, <1>6 DEF files

LEMMA NoDraftOf ==
    ASSUME NEW a \in Agent
    PROVE  [NoDraft EXCEPT !.agent = a] \in Draft /\ [NoDraft EXCEPT !.agent = a].agent = a
  BY DEF NoDraft, Draft

LEMMA AddAgentKeepsInv ==
    ASSUME Inv, NEW a \in Agent, AddAgent(a)
    PROVE  Inv'
<1>1. draft' = [NoDraft EXCEPT !.agent = a]
    BY DEF AddAgent
<1>2. draft' \in Draft /\ draft'.agent = a
    BY <1>1, NoDraftOf
<1>3. CASE agents[a] = NoEntry
    <2>1. Chooses(Adding)
        BY <1>3 DEF AddAgent
    <2>2. Adding \in Stages /\ Adding \in Adds
        BY DEF Stages, Adds
    <2>3. /\ todo = <<>> /\ todo' = Adding /\ TypeOK' /\ EnvOK' /\ Settled' /\ UNCHANGED files
        BY <1>2, <2>1, <2>2, ChoosesEffect
    <2>4. a \notin damaged => services[a] = NoEntry
        BY <1>3, <2>3 DEF Inv, Settled
    <2>5. todo' \notin Changes /\ todo' \notin Removes
        BY <2>2, <2>3, FlowsDiffer
    <2>6. damaged' = damaged
        BY <2>1 DEF Chooses
    <2>7. AddingSoFar'
        BY <1>2, <1>3, <2>3, <2>4, <2>6, StepsDiffer DEF AddingSoFar, files, Adds
    <2> QED
        BY <1>2, <2>2, <2>3, <2>5, <2>7, SoFar DEF Inv, EnvOK
<1>4. CASE agents[a] # NoEntry
    <2>1. Chooses(Replacing)
        BY <1>4, ReplacingIs DEF AddAgent
    <2>2. Replacing \in Stages /\ Replacing \in Removes
        BY DEF Stages, Removes
    <2>3. todo' = Replacing /\ TypeOK' /\ EnvOK' /\ Settled'
        BY <1>2, <2>1, <2>2, ChoosesEffect
    <2>4. todo' \notin Changes /\ todo' \notin Adds
        BY <2>2, <2>3, FlowsDiffer
    <2>5. RemovingSoFar'
        BY <2>3, StepsDiffer DEF RemovingSoFar
    <2> QED
        BY <1>2, <2>2, <2>3, <2>4, <2>5, SoFar DEF Inv, EnvOK
<1> QED
    BY <1>3, <1>4

LEMMA RemoveAgentKeepsInv ==
    ASSUME Inv, NEW a \in Agent, RemoveAgent(a)
    PROVE  Inv'
<1>1. draft' = [NoDraft EXCEPT !.agent = a] /\ Chooses(Removing)
    BY DEF RemoveAgent
<1>2. draft' \in Draft /\ draft'.agent = a
    BY <1>1, NoDraftOf
<1>3. Removing \in Stages /\ Removing \in Removes
    BY DEF Stages, Removes
<1>4. todo' = Removing /\ TypeOK' /\ EnvOK' /\ Settled'
    BY <1>1, <1>2, <1>3, ChoosesEffect
<1>5. todo' \notin Changes /\ todo' \notin Adds
    BY <1>3, <1>4, FlowsDiffer
<1>6. RemovingSoFar'
    BY <1>4, StepsDiffer DEF RemovingSoFar
<1> QED
    BY <1>2, <1>3, <1>4, <1>5, <1>6, SoFar DEF Inv, EnvOK

LEMMA SearchKeepsInv ==
    ASSUME Inv, ConfigureSearch
    PROVE  Inv'
<1>1. draft' = NoDraft /\ Chooses(Searching)
    BY DEF ConfigureSearch
<1>2. draft' \in Draft
    BY <1>1 DEF NoDraft, Draft
<1>3. Searching \in Stages
    BY DEF Stages
<1>4. todo' = Searching /\ TypeOK' /\ EnvOK' /\ Settled'
    BY <1>1, <1>2, <1>3, ChoosesEffect
<1> QED
    BY <1>4, MenuSoFar DEF Inv, EnvOK

\* The changed entry has the channel of the old one, and a key if the old one
\* had it and it is still wanted, or if one was entered.
LEMMA ReconfigureKeepsInv ==
    ASSUME Inv, NEW a \in Agent, Reconfigure(a)
    PROVE  Inv'
<1>1. agents[a] \in Entry /\ Chooses(Changing)
    BY DEF Reconfigure, Inv, TypeOK
<1>2. PICK old : old = agents[a]
    OBVIOUS
<1>3. PICK m \in Model, needs \in BOOLEAN, key \in BOOLEAN, token \in BOOLEAN :
          /\ key => needs
          /\ draft' = [agent |-> a, token |-> token, lines |-> FALSE, key |-> key,
                       entry |-> [old EXCEPT !.model = m, !.key = key \/ (old.key /\ needs)]]
    BY <1>1, <1>2 DEF Reconfigure, Entry
<1> DEFINE e == [old EXCEPT !.model = m, !.key = key \/ (old.key /\ needs)]
<1>4. /\ e \in Entry /\ e.channel = old.channel /\ old.key \in BOOLEAN
      /\ (key => e.key) /\ (e.key => key \/ old.key)
    BY <1>1, <1>2, <1>3 DEF Entry
<1>5. /\ draft'.agent = a /\ draft'.entry = e /\ draft' \in Draft
      /\ (draft'.key => e.key) /\ (e.key => draft'.key \/ old.key)
    <2>1. draft'.agent = a /\ draft'.entry = e /\ draft'.key = key /\ draft'.token = token
        BY <1>3
    <2>2. draft' \in Draft
        BY <1>3, <1>4 DEF Draft
    <2>3. (draft'.key => e.key) /\ (e.key => draft'.key \/ old.key)
        <3> HIDE DEF e
        <3>1. CASE key = TRUE
            BY <1>4, <2>1, <3>1
        <3>2. CASE key = FALSE
            BY <1>4, <2>1, <3>2
        <3> QED
            BY <3>1, <3>2
    <2> QED
        BY <2>1, <2>2, <2>3
<1> HIDE DEF e
<1>6. Changing \in Stages /\ Changing \in Changes
    BY DEF Stages, Changes
<1>7. /\ todo = <<>> /\ todo' = Changing /\ TypeOK' /\ EnvOK' /\ Settled'
      /\ \A v \in Var : Defined(v) => Defined(v)' /\ UNCHANGED files
    BY <1>1, <1>5, <1>6, ChoosesEffect
<1>8. damaged' = damaged
    BY <1>1 DEF Chooses
<1>9. PICK v \in Var, w \in Var : v = TokenOf(a, old) /\ w = KeyOf(a)
    BY <1>1, <1>2, VarsOf
<1>10. a \notin damaged => services[a] = old /\ Defined(v) /\ (old.key => Defined(w))
    BY <1>2, <1>7, <1>9, <1>1 DEF Inv, Settled, Secrets, Reconfigure
<1>11. TokenOf(a, e) = v
    BY <1>4, <1>9 DEF TokenOf
<1>12. a \notin damaged =>
           /\ services'[a] = old /\ agents'[a] = old
           /\ Defined(v)' /\ (old.key => Defined(w)')
    BY <1>2, <1>7, <1>10 DEF files
<1>13. ChangingSoFar'
    <2>1. TokenOf(draft'.agent, draft'.entry) = v /\ KeyOf(draft'.agent) = w
        BY <1>5, <1>9, <1>11
    <2>2. a \notin damaged' =>
              /\ services'[a] \in Entry /\ services'[a].channel = e.channel
              /\ draft'.key => e.key
              /\ e.key => draft'.key \/ services'[a].key
              /\ agents'[a] = services'[a]
        <3>1. e.channel = old.channel
            BY <1>4
        <3> QED
            BY <1>1, <1>2, <1>5, <1>8, <1>12, <3>1
    <2>3. ASSUME a \notin damaged'
          PROVE  Defined(v)' /\ (e.key => draft'.key \/ Defined(w)')
        <3>1. Defined(v)' /\ (old.key => Defined(w)')
            BY <1>8, <1>12, <2>3
        <3>2. e.key => draft'.key \/ old.key
            BY <1>5
        <3> QED
            BY <3>1, <3>2
    <2>4. Changing # Changing1
        BY StepsDiffer
    <2> QED
        BY <1>4, <1>5, <1>7, <2>1, <2>2, <2>3, <2>4 DEF ChangingSoFar
<1>14. todo' \notin Adds /\ todo' \notin Removes
    BY <1>6, <1>7, FlowsDiffer
<1> QED
    BY <1>5, <1>6, <1>7, <1>13, <1>14, SoFar DEF Inv, EnvOK

----------------------------------------------------------------------------
\* The steps of a flow.

\* A step that leaves the answers alone keeps the types, if the files have theirs.
LEMMA StepKeepsTypes ==
    ASSUME Inv, NEW step, Does(step), UNCHANGED draft,
           agents' \in [Agent -> Entry \cup {NoEntry}],
           services' \in [Agent -> Entry \cup {NoEntry}],
           EnvOK', damaged' \in SUBSET Agent
    PROVE  TypeOK' /\ todo' \in Stages
<1>1. todo' \in Stages /\ UNCHANGED <<flows, faults>>
    BY DoesFrom DEF Inv, Does
<1>2. todo' \in Seq(Step)
    BY <1>1, StagesType
<1> QED
    BY <1>1, <1>2 DEF Inv, TypeOK, EnvOK

\* What the actions that leave the environment alone do to it.
LEMMA FilesOfOthers ==
    ASSUME Inv, NEW d, UNCHANGED env,
           \A a \in Agent \ {d} : agents'[a] = agents[a] /\ services'[a] = services[a]
    PROVE  EnvOK' /\ OthersKept(d) /\ \A v \in Var : Defined(v) => Defined(v)'
  BY InvEnv, EnvStays DEF OthersKept

LEMMA AnswerKeepsInv ==
    ASSUME Inv, Answer
    PROVE  Inv'
<1> DEFINE d == draft.agent
<1>1. Does("ask") /\ UNCHANGED <<agents, services, env, damaged>>
    BY DEF Answer, files
<1>2. todo = Adding /\ todo' = Adding4 /\ UNCHANGED <<flows, faults>>
    BY <1>1, DoesFrom DEF Inv, Does
<1>3. d \in Agent /\ todo # <<>>
    BY <1>2, FlowsDiffer DEF Inv, Adds
<1>4. PICK e \in Entry : draft' = [draft EXCEPT !.entry = e, !.key = e.key, !.token = TRUE,
                                           !.lines = e.channel \in MultiLine]
    BY DEF Answer
<1>5. e.key \in BOOLEAN /\ draft \in Draft
    BY DEF Entry, Inv, TypeOK
<1>15. PICK several \in BOOLEAN : several = (e.channel \in MultiLine)
    <2>1. CASE e.channel \in MultiLine
        BY <2>1, Zenon
    <2>2. CASE e.channel \notin MultiLine
        <3>1. (e.channel \in MultiLine) = FALSE
            BY <2>2
        <3> QED
            BY <3>1
    <2> QED
        BY <2>1, <2>2
<1>6. /\ draft' \in Draft /\ draft'.agent = d /\ draft'.entry = e
      /\ draft'.key = e.key /\ draft'.token = TRUE
    <2>1. draft' = [draft EXCEPT !.entry = e, !.key = e.key, !.token = TRUE, !.lines = several]
        BY <1>4, <1>15
    <2> QED
        BY <2>1, <1>5 DEF Draft
<1>7. EnvOK' /\ OthersKept(d)
    BY <1>1, FilesOfOthers
<1>8. Adding4 \in Adds \ {Adding} /\ Adding4 \in Stages
    BY StepsDiffer DEF Adds, Stages
<1>9. todo' \in Seq(Step)
    BY <1>2, <1>8, StagesType
<1>10. TypeOK'
    BY <1>1, <1>2, <1>6, <1>7, <1>9 DEF Inv, TypeOK, EnvOK
<1>11. /\ todo' # <<>> /\ todo' \notin Changes /\ todo' \notin Removes
    BY <1>2, <1>8, FlowsDiffer
<1>12. Settled'
    <2>1. \A a \in Agent \ {d} : a \notin damaged' => a \notin damaged
        BY <1>1
    <2> QED
        BY <1>1, <1>6, <1>7, <1>11, <2>1, SettledKept
<1>13. agents[d] = NoEntry /\ (d \notin damaged => services[d] = NoEntry)
    BY <1>2 DEF Inv, AddingSoFar
<1>14. AddingSoFar'
    BY <1>1, <1>2, <1>6, <1>13, StepsDiffer DEF AddingSoFar, Adds
<1> QED
    BY <1>3, <1>6, <1>7, <1>8, <1>2, <1>10, <1>11, <1>12, <1>14, SoFar DEF Inv, EnvOK

\* Nothing was written for an agent whose addition is cancelled.
LEMMA CancelKeepsInv ==
    ASSUME Inv, Cancel
    PROVE  Inv'
<1> DEFINE d == draft.agent
<1>1. /\ todo # <<>> /\ Head(todo) = "ask" /\ todo' = <<>>
      /\ UNCHANGED <<agents, services, env, draft, damaged, flows, faults>>
    BY DEF Cancel, files
<1>2. todo = Adding
    <2>1. todo \in {Searching} \cup Adds \cup Changes \cup Removes
        BY <1>1 DEF Inv, Stages
    <2> QED
        BY <1>1, <2>1, AddsSteps, ChangesSteps, RemovesSteps
           DEF IsStage, Adds, Changes, Removes
<1>3. EnvOK' /\ OthersKept(d)
    BY <1>1, FilesOfOthers
<1>4. TypeOK'
    <2>1. <<>> \in Seq(Step)
        OBVIOUS
    <2> QED
        BY <1>1, <1>3, <2>1 DEF Inv, TypeOK, EnvOK
<1>5. agents[d] = NoEntry /\ (d \notin damaged => services[d] = NoEntry)
    BY <1>2 DEF Inv, AddingSoFar
<1>6. Settled'
    <2>1. ASSUME NEW a \in Agent \ damaged', a = d PROVE SettledFor(a)'
        BY <1>1, <1>5, <2>1 DEF SettledFor, Secrets
    <2>2. \A a \in Agent \ {d} : a \notin damaged' => a \notin damaged
        BY <1>1
    <2> QED
        BY <1>1, <1>3, <2>1, <2>2, SettledKept
<1> QED
    BY <1>1, <1>3, <1>4, <1>6, MenuSoFar DEF Inv, EnvOK

LEMMA WriteAgentKeepsInv ==
    ASSUME Inv, WriteAgent
    PROVE  Inv'
<1> DEFINE d == draft.agent
           e == draft.entry
<1>1. /\ Does("agents") /\ agents' = [agents EXCEPT ![d] = e]
      /\ UNCHANGED <<services, env, draft, damaged>>
    BY DEF WriteAgent
<1>2. \/ todo = Adding4 /\ todo' = Adding3
      \/ todo = Changing /\ todo' = Changing3
    BY <1>1, DoesFrom DEF Inv
<1>3. /\ Adding4 \in Adds \ {Adding} /\ Adding3 \in Adds \ {Adding}
      /\ Changing \in Changes /\ Changing3 \in Changes
    BY StepsDiffer DEF Adds, Changes
<1>4. d \in Agent /\ todo' # <<>>
    BY <1>2, <1>3, FlowsDiffer DEF Inv
<1>5. e \in Entry
    BY <1>2, <1>3 DEF Inv, AddingSoFar, ChangingSoFar
<1>6. /\ agents' \in [Agent -> Entry \cup {NoEntry}] /\ agents'[d] = e
      /\ \A a \in Agent \ {d} : agents'[a] = agents[a]
    BY <1>1, <1>4, <1>5 DEF Inv, TypeOK
<1>7. EnvOK' /\ OthersKept(d) /\ \A v \in Var : Defined(v) => Defined(v)'
    BY <1>1, <1>6, FilesOfOthers
<1>8. TypeOK' /\ todo' \in Stages
    BY <1>1, <1>6, <1>7, StepKeepsTypes DEF Inv, TypeOK
<1>9. Settled'
    <2>1. \A a \in Agent \ {d} : a \notin damaged' => a \notin damaged
        BY <1>1
    <2> QED
        BY <1>1, <1>4, <1>7, <2>1, SettledKept
<1>10. CASE todo = Adding4
    <2>1. todo' = Adding3 /\ todo' \notin Changes /\ todo' \notin Removes
        BY <1>2, <1>3, <1>10, FlowsDiffer, StagesDiffer
    <2>2. (d \notin damaged => services[d] = NoEntry) /\ draft.token /\ draft.key = e.key
        BY <1>3, <1>10 DEF Inv, AddingSoFar
    <2>3. AddingSoFar'
        BY <1>1, <1>5, <1>6, <2>1, <2>2, StepsDiffer DEF AddingSoFar, Adds
    <2> QED
        BY <1>1, <1>4, <1>7, <1>8, <1>9, <2>1, <2>3, SoFar DEF Inv, EnvOK
<1>11. CASE todo = Changing
    <2>1. todo' = Changing3 /\ todo' \notin Adds /\ todo' \notin Removes
        BY <1>2, <1>3, <1>11, FlowsDiffer, StagesDiffer
    <2>2. PICK v \in Var, w \in Var : v = TokenOf(d, e) /\ w = KeyOf(d)
        BY <1>4, <1>5, VarsOf
    <2>3. d \notin damaged =>
              /\ services[d] \in Entry /\ services[d].channel = e.channel
              /\ draft.key => e.key
              /\ e.key => draft.key \/ services[d].key
              /\ Defined(v)
              /\ e.key => draft.key \/ Defined(w)
        BY <1>3, <1>11, <2>2 DEF Inv, ChangingSoFar
    <2>4. d \notin damaged => Defined(v)' /\ (e.key => draft.key \/ Defined(w)')
        BY <1>7, <2>3
    <2>5. Changing3 # Changing1 /\ Changing3 # Changing
        BY StepsDiffer
    <2>6. ChangingSoFar'
        <3>1. TokenOf(draft'.agent, draft'.entry) = v /\ KeyOf(draft'.agent) = w
            BY <1>1, <2>2
        <3> QED
            BY <1>1, <1>5, <1>6, <2>1, <2>3, <2>4, <2>5, <3>1 DEF ChangingSoFar
    <2> QED
        BY <1>1, <1>4, <1>7, <1>8, <1>9, <2>1, <2>6, SoFar DEF Inv, EnvOK
<1> QED
    BY <1>2, <1>10, <1>11

\* The service is added after the entry, and is the same; if it was there, a
\* write for this agent had raised.
LEMMA AddServiceKeepsInv ==
    ASSUME Inv, AddService
    PROVE  Inv'
<1> DEFINE d == draft.agent
           e == draft.entry
<1>1. /\ Does("services") /\ todo' # <<>>
      /\ IF services[d] = NoEntry
         THEN services' = [services EXCEPT ![d] = e] /\ damaged' = damaged \ {d}
         ELSE UNCHANGED <<services, damaged>>
      /\ UNCHANGED <<agents, env, draft>>
    BY DEF AddService
<1>2. todo = Adding3 /\ todo' = Adding2
    BY <1>1, DoesFrom DEF Inv
<1>3. Adding3 \in Adds \ {Adding} /\ Adding2 \in Adds \ {Adding}
    BY StepsDiffer DEF Adds
<1>4. todo' \notin Changes /\ todo' \notin Removes /\ d \in Agent
    BY <1>2, <1>3, FlowsDiffer DEF Inv
<1>5. /\ e \in Entry /\ draft.token /\ draft.key = e.key /\ agents[d] = e
      /\ d \notin damaged => services[d] = NoEntry
    BY <1>2, <1>3 DEF Inv, AddingSoFar
<1>6. /\ services' \in [Agent -> Entry \cup {NoEntry}] /\ damaged' \in SUBSET Agent
      /\ \A a \in Agent \ {d} : services'[a] = services[a] /\ (a \notin damaged' => a \notin damaged)
      /\ d \notin damaged' => services'[d] = e
    BY <1>1, <1>4, <1>5 DEF Inv, TypeOK
<1>7. EnvOK' /\ OthersKept(d)
    BY <1>1, <1>6, FilesOfOthers
<1>8. TypeOK' /\ todo' \in Stages
    BY <1>1, <1>6, <1>7, StepKeepsTypes DEF Inv, TypeOK
<1>9. Settled'
    BY <1>1, <1>6, <1>7, SettledKept
<1>10. AddingSoFar'
    BY <1>1, <1>2, <1>5, <1>6, StepsDiffer DEF AddingSoFar, Adds
<1> QED
    BY <1>1, <1>4, <1>7, <1>8, <1>9, <1>10, SoFar DEF Inv, EnvOK

\* Changing ends with the service, which then is the entry.
LEMMA ChangeServiceKeepsInv ==
    ASSUME Inv, ChangeService
    PROVE  Inv'
<1> DEFINE d == draft.agent
           e == draft.entry
<1>1. /\ Does("services") /\ todo' = <<>>
      /\ services' = [services EXCEPT ![d] = Changed(services[d])]
      /\ UNCHANGED <<agents, env, draft, damaged>>
    BY DEF ChangeService
<1>2. todo = Changing1
    <2>1. Adding2 # <<>>
        BY AddsSteps DEF IsStage
    <2> QED
        BY <1>1, <2>1, DoesFrom DEF Inv
<1>3. Changing1 \in Changes /\ Changing1 # Changing /\ Changing1 \in Stages
    BY StepsDiffer DEF Changes, Stages
<1>4. d \in Agent
    BY <1>2, <1>3, FlowsDiffer DEF Inv
<1>5. e \in Entry
    BY <1>2, <1>3 DEF Inv, ChangingSoFar
<1>6. ASSUME NEW old \in Entry \cup {NoEntry}
      PROVE  /\ Changed(old) \in Entry \cup {NoEntry}
             /\ old \in Entry /\ (draft.key => e.key) /\ (e.key => draft.key \/ old.key) =>
                    Changed(old) = e
    <2> HIDE DEF e
    <2>1. draft.key \in BOOLEAN /\ e.key \in BOOLEAN
        BY <1>5 DEF Inv, TypeOK, Draft, Entry
    <2>2. NoEntry \notin Entry
        BY DEF NoEntry, Entry
    <2>3. CASE old = NoEntry
        BY <2>2, <2>3 DEF Changed
    <2>4. CASE old \in Entry
        <3> DEFINE k == draft.key \/ (e.key /\ old.key)
        <3>1. Changed(old) = [e EXCEPT !.key = k] /\ k \in BOOLEAN
            BY <2>1, <2>2, <2>4 DEF Changed, e
        <3>2. (draft.key => e.key) /\ (e.key => draft.key \/ old.key) => k = e.key
            BY <2>1
        <3> HIDE DEF k
        <3>3. [e EXCEPT !.key = k] \in Entry /\ (k = e.key => [e EXCEPT !.key = k] = e)
            BY <1>5, <3>1 DEF Entry
        <3> QED
            BY <3>1, <3>2, <3>3
    <2> QED
        BY <2>3, <2>4
<1>7. /\ services' \in [Agent -> Entry \cup {NoEntry}] /\ services'[d] = Changed(services[d])
      /\ \A a \in Agent \ {d} : services'[a] = services[a]
    <2>1. Changed(services[d]) \in Entry \cup {NoEntry}
        BY <1>4, <1>6 DEF Inv, TypeOK
    <2> QED
        BY <1>1, <1>4, <2>1 DEF Inv, TypeOK
<1>8. PICK v \in Var, w \in Var : v = TokenOf(d, e) /\ w = KeyOf(d)
    BY <1>4, <1>5, VarsOf
<1>9. d \notin damaged =>
          /\ services[d] \in Entry /\ agents[d] = e /\ Defined(v)
          /\ draft.key => e.key
          /\ e.key => draft.key \/ services[d].key
          /\ e.key => Defined(w)
    BY <1>2, <1>3, <1>8 DEF Inv, ChangingSoFar
<1>10. EnvOK' /\ OthersKept(d) /\ \A x \in Var : Defined(x) => Defined(x)'
    BY <1>1, <1>7, FilesOfOthers
<1>11. TypeOK'
    BY <1>1, <1>7, <1>10, StepKeepsTypes DEF Inv, TypeOK
<1>12. ASSUME NEW a \in Agent \ damaged', a = d PROVE SettledFor(a)'
    <2>1. services'[a] = e /\ agents'[a] = e
        BY <1>1, <1>6, <1>7, <1>9, <1>12
    <2>2. Defined(v)' /\ (e.key => Defined(w)')
        BY <1>1, <1>9, <1>10, <1>12
    <2>3. TokenOf(a, agents'[a]) = v /\ KeyOf(a) = w
        BY <1>8, <1>12, <2>1
    <2> QED
        BY <2>1, <2>2, <2>3 DEF SettledFor, Secrets
<1>13. Settled'
    <2>1. \A a \in Agent \ {d} : a \notin damaged' => a \notin damaged
        BY <1>1
    <2> QED
        BY <1>1, <1>10, <1>12, <2>1, SettledKept
<1> QED
    BY <1>1, <1>10, <1>11, <1>13, MenuSoFar DEF Inv, EnvOK

\* A secret of d is written, or is not asked for.
LEMMA SecretWritten ==
    ASSUME Inv, NEW d \in Agent, NEW v \in Var, v.agent = d, NEW entered \in BOOLEAN,
           NEW lines \in BOOLEAN, lines => v.kind \in MultiLine,
           env' = IF entered THEN With(v, lines) ELSE env, UNCHANGED <<agents, services>>
    PROVE  /\ EnvOK' /\ OthersKept(d) /\ \A w \in Var : Defined(w) => Defined(w)'
           /\ entered => Defined(v)'
<1>1. CASE entered
    <2>1. env' = With(v, lines)
        BY <1>1
    <2> QED
        BY <2>1, InvEnv, WithEffect DEF OthersKept
<1>2. CASE ~entered
    <2>1. UNCHANGED env
        BY <1>2
    <2> QED
        BY <1>2, <2>1, FilesOfOthers
<1> QED
    BY <1>1, <1>2

LEMMA WriteTokenKeepsInv ==
    ASSUME Inv, LinesOK, WriteToken
    PROVE  Inv'
<1> DEFINE d == draft.agent
           e == draft.entry
<1>1. /\ Does("token")
      /\ env' = IF draft.token THEN With(TokenOf(d, e), draft.lines) ELSE env
      /\ UNCHANGED <<agents, services, draft, damaged>>
    BY DEF WriteToken
<1>2. \/ todo = Adding2 /\ todo' = Adding1
      \/ todo = Changing3 /\ todo' = Changing2
    BY <1>1, DoesFrom DEF Inv
<1>3. /\ Adding2 \in Adds \ {Adding} /\ Adding1 \in Adds \ {Adding}
      /\ Changing3 \in Changes /\ Changing2 \in Changes
    BY StepsDiffer DEF Adds, Changes
<1>4. d \in Agent /\ todo' # <<>>
    BY <1>2, <1>3, FlowsDiffer DEF Inv
<1>5. e \in Entry
    BY <1>2, <1>3 DEF Inv, AddingSoFar, ChangingSoFar
<1>6. PICK v \in Var, w \in Var : v = TokenOf(d, e) /\ w = KeyOf(d) /\ v.agent = d
    BY <1>4, <1>5, VarsOf
<1>7. PICK entered \in BOOLEAN, lines \in BOOLEAN :
          entered = draft.token /\ lines = draft.lines
    BY DEF Inv, TypeOK, Draft
<1>8. /\ EnvOK' /\ OthersKept(d) /\ \A x \in Var : Defined(x) => Defined(x)'
      /\ entered => Defined(v)'
    <2>1. lines => v.kind \in MultiLine
        BY <1>6, <1>7 DEF LinesOK, TokenOf
    <2> HIDE DEF d, e
    <2> QED
        BY <1>1, <1>4, <1>6, <1>7, <2>1, SecretWritten
<1>9. TypeOK' /\ todo' \in Stages
    BY <1>1, <1>8, StepKeepsTypes DEF Inv, TypeOK
<1>10. Settled'
    <2>1. \A a \in Agent \ {d} : a \notin damaged' => a \notin damaged
        BY <1>1
    <2> QED
        BY <1>1, <1>4, <1>8, <2>1, SettledKept
<1>11. CASE todo = Adding2
    <2>1. todo' = Adding1 /\ todo' \notin Changes /\ todo' \notin Removes
        BY <1>2, <1>3, <1>11, FlowsDiffer, StagesDiffer
    <2>2. /\ draft.token /\ draft.key = e.key /\ agents[d] = e
          /\ d \notin damaged => services[d] = e
        BY <1>3, <1>11 DEF Inv, AddingSoFar
    <2>3. Defined(v)' /\ TokenOf(draft'.agent, draft'.entry) = v
        BY <1>1, <1>6, <1>7, <1>8, <2>2
    <2>4. AddingSoFar'
        BY <1>1, <1>5, <2>1, <2>2, <2>3, StepsDiffer DEF AddingSoFar, Adds
    <2> QED
        BY <1>1, <1>4, <1>8, <1>9, <1>10, <2>1, <2>4, SoFar DEF Inv, EnvOK
<1>12. CASE todo = Changing3
    <2>1. todo' = Changing2 /\ todo' \notin Adds /\ todo' \notin Removes
        BY <1>2, <1>3, <1>12, FlowsDiffer, StagesDiffer
    <2>2. Changing3 # Changing /\ Changing2 # Changing1 /\ Changing2 # Changing
        BY StepsDiffer
    <2>3. d \notin damaged =>
              /\ services[d] \in Entry /\ services[d].channel = e.channel
              /\ draft.key => e.key
              /\ e.key => draft.key \/ services[d].key
              /\ agents[d] = e
              /\ Defined(v)
              /\ e.key => draft.key \/ Defined(w)
        BY <1>3, <1>6, <1>12, <2>2 DEF Inv, ChangingSoFar
    <2>4. d \notin damaged => Defined(v)' /\ (e.key => draft.key \/ Defined(w)')
        BY <1>8, <2>3
    <2>5. TokenOf(draft'.agent, draft'.entry) = v /\ KeyOf(draft'.agent) = w
        BY <1>1, <1>6
    <2>6. ChangingSoFar'
        BY <1>1, <1>5, <2>1, <2>2, <2>3, <2>4, <2>5 DEF ChangingSoFar
    <2> QED
        BY <1>1, <1>4, <1>8, <1>9, <1>10, <2>1, <2>6, SoFar DEF Inv, EnvOK
<1> QED
    BY <1>2, <1>11, <1>12

\* Adding ends with the key; then the entry and the service say the same, and
\* what they refer to is there.
LEMMA WriteKeyKeepsInv ==
    ASSUME Inv, WriteKey
    PROVE  Inv'
<1> DEFINE d == draft.agent
           e == draft.entry
<1>1. /\ Does("key") /\ env' = IF draft.key THEN With(KeyOf(d), FALSE) ELSE env
      /\ UNCHANGED <<agents, services, draft, damaged>>
    BY DEF WriteKey
<1>2. \/ todo = Adding1 /\ todo' = <<>>
      \/ todo = Changing2 /\ todo' = Changing1
    BY <1>1, DoesFrom DEF Inv
<1>3. /\ Adding1 \in Adds \ {Adding}
      /\ Changing2 \in Changes /\ Changing1 \in Changes
    BY StepsDiffer DEF Adds, Changes
<1>4. d \in Agent
    BY <1>2, <1>3, FlowsDiffer DEF Inv
<1>5. e \in Entry
    BY <1>2, <1>3 DEF Inv, AddingSoFar, ChangingSoFar
<1>6. PICK v \in Var, w \in Var : v = TokenOf(d, e) /\ w = KeyOf(d) /\ w.agent = d
    BY <1>4, <1>5, VarsOf
<1>7. PICK entered \in BOOLEAN : entered = draft.key
    BY DEF Inv, TypeOK, Draft
<1>8. /\ EnvOK' /\ OthersKept(d) /\ \A x \in Var : Defined(x) => Defined(x)'
      /\ entered => Defined(w)'
    <2> HIDE DEF d, e
    <2> QED
        BY <1>1, <1>4, <1>6, <1>7, SecretWritten
<1>9. TypeOK' /\ todo' \in Stages
    BY <1>1, <1>8, StepKeepsTypes DEF Inv, TypeOK
<1>10. \A a \in Agent \ {d} : a \notin damaged' => a \notin damaged
    BY <1>1
<1>11. CASE todo = Adding1
    <2>1. todo' = <<>>
        BY <1>2, <1>3, <1>11, FlowsDiffer, StagesDiffer
    <2>2. /\ draft.key = e.key /\ agents[d] = e
          /\ d \notin damaged => services[d] = e /\ Defined(v)
        BY <1>3, <1>6, <1>11 DEF Inv, AddingSoFar
    <2>3. ASSUME NEW a \in Agent \ damaged', a = d PROVE SettledFor(a)'
        <3>1. services'[a] = e /\ agents'[a] = e /\ Defined(v)'
            BY <1>1, <1>8, <2>2, <2>3
        <3>2. e.key => Defined(w)'
            BY <1>7, <1>8, <2>2
        <3>3. TokenOf(a, agents'[a]) = v /\ KeyOf(a) = w
            BY <1>6, <2>3, <3>1
        <3> QED
            BY <3>1, <3>2, <3>3 DEF SettledFor, Secrets
    <2>4. Settled'
        BY <1>1, <1>8, <1>10, <2>3, SettledKept
    <2> QED
        BY <1>8, <1>9, <2>1, <2>4, MenuSoFar DEF Inv, EnvOK
<1>12. CASE todo = Changing2
    <2>1. todo' = Changing1 /\ todo' \notin Adds /\ todo' \notin Removes /\ todo' # <<>>
        BY <1>2, <1>3, <1>12, FlowsDiffer, StagesDiffer
    <2>2. Changing2 # Changing /\ Changing2 # Changing1 /\ Changing1 # Changing
        BY StepsDiffer
    <2>3. d \notin damaged =>
              /\ services[d] \in Entry /\ services[d].channel = e.channel
              /\ draft.key => e.key
              /\ e.key => draft.key \/ services[d].key
              /\ agents[d] = e
              /\ Defined(v)
              /\ e.key => draft.key \/ Defined(w)
        BY <1>3, <1>6, <1>12, <2>2 DEF Inv, ChangingSoFar
    <2>4. d \notin damaged => Defined(v)' /\ (e.key => Defined(w)')
        BY <1>7, <1>8, <2>3
    <2>5. TokenOf(draft'.agent, draft'.entry) = v /\ KeyOf(draft'.agent) = w
        BY <1>1, <1>6
    <2>6. ChangingSoFar'
        BY <1>1, <1>5, <2>1, <2>2, <2>3, <2>4, <2>5 DEF ChangingSoFar
    <2>7. Settled'
        BY <1>1, <1>8, <1>10, <2>1, SettledKept
    <2> QED
        BY <1>1, <1>4, <1>8, <1>9, <2>1, <2>6, <2>7, SoFar DEF Inv, EnvOK
<1> QED
    BY <1>2, <1>11, <1>12

LEMMA DropAgentKeepsInv ==
    ASSUME Inv, DropAgent
    PROVE  Inv'
<1> DEFINE d == draft.agent
<1>1. /\ Does("drop agent") /\ agents' = [agents EXCEPT ![d] = NoEntry]
      /\ UNCHANGED <<services, env, draft, damaged>>
    BY DEF DropAgent
<1>2. \/ todo = Removing /\ todo' = Removing2
      \/ todo = Replacing /\ todo' = Replacing7
    BY <1>1, DoesFrom DEF Inv
<1>3. todo \in Removes /\ todo' \in Removes
    BY <1>2 DEF Removes
<1>4. d \in Agent /\ todo' # <<>> /\ todo' \notin Adds /\ todo' \notin Changes
    BY <1>3, FlowsDiffer DEF Inv
<1>5. /\ agents' \in [Agent -> Entry \cup {NoEntry}] /\ agents'[d] = NoEntry
      /\ \A a \in Agent \ {d} : agents'[a] = agents[a]
    BY <1>1, <1>4 DEF Inv, TypeOK
<1>6. EnvOK' /\ OthersKept(d)
    BY <1>1, <1>5, FilesOfOthers
<1>7. TypeOK' /\ todo' \in Stages
    BY <1>1, <1>5, <1>6, StepKeepsTypes DEF Inv, TypeOK
<1>8. Settled'
    <2>1. \A a \in Agent \ {d} : a \notin damaged' => a \notin damaged
        BY <1>1
    <2> QED
        BY <1>1, <1>4, <1>6, <2>1, SettledKept
<1>9. RemovingSoFar'
    BY <1>1, <1>2, <1>5, StepsDiffer DEF RemovingSoFar
<1> QED
    BY <1>1, <1>4, <1>6, <1>7, <1>8, <1>9, SoFar DEF Inv, EnvOK

LEMMA DropServiceKeepsInv ==
    ASSUME Inv, DropService
    PROVE  Inv'
<1> DEFINE d == draft.agent
<1>1. /\ Does("drop service") /\ services' = [services EXCEPT ![d] = NoEntry]
      /\ UNCHANGED <<agents, env, draft, damaged>>
    BY DEF DropService
<1>2. \/ todo = Removing2 /\ todo' = Removing1
      \/ todo = Replacing7 /\ todo' = Replacing6
    BY <1>1, DoesFrom DEF Inv
<1>3. todo \in Removes /\ todo' \in Removes
    BY <1>2 DEF Removes
<1>4. d \in Agent /\ todo' # <<>> /\ todo' \notin Adds /\ todo' \notin Changes
    BY <1>3, FlowsDiffer DEF Inv
<1>5. /\ services' \in [Agent -> Entry \cup {NoEntry}] /\ services'[d] = NoEntry
      /\ \A a \in Agent \ {d} : services'[a] = services[a]
    BY <1>1, <1>4 DEF Inv, TypeOK
<1>6. EnvOK' /\ OthersKept(d)
    BY <1>1, <1>5, FilesOfOthers
<1>7. TypeOK' /\ todo' \in Stages
    BY <1>1, <1>5, <1>6, StepKeepsTypes DEF Inv, TypeOK
<1>8. Settled'
    <2>1. \A a \in Agent \ {d} : a \notin damaged' => a \notin damaged
        BY <1>1
    <2> QED
        BY <1>1, <1>4, <1>6, <2>1, SettledKept
<1>9. agents[d] = NoEntry
    BY <1>2 DEF Inv, RemovingSoFar
<1>10. RemovingSoFar'
    BY <1>1, <1>2, <1>5, <1>9, StepsDiffer DEF RemovingSoFar
<1> QED
    BY <1>1, <1>4, <1>6, <1>7, <1>8, <1>10, SoFar DEF Inv, EnvOK

\* An agent that is removed has neither entry nor service, whose secrets would
\* be missing.
LEMMA CommentKeepsInv ==
    ASSUME Inv, Comment
    PROVE  Inv'
<1> DEFINE d == draft.agent
<1>1. /\ Does("comment") /\ env' = Commented(d)
      /\ UNCHANGED <<agents, services, draft, damaged>>
    BY DEF Comment
<1>2. \/ todo = Removing1 /\ todo' = <<>>
      \/ todo = Replacing6 /\ todo' = Adding
    BY <1>1, DoesFrom DEF Inv
<1>3. todo \in Removes
    BY <1>2 DEF Removes
<1>4. d \in Agent
    BY <1>3, FlowsDiffer DEF Inv
<1>5. EnvOK' /\ OthersKept(d)
    BY <1>1, <1>4, InvEnv, CommentedEffect DEF OthersKept
<1>6. TypeOK' /\ todo' \in Stages
    BY <1>1, <1>5, StepKeepsTypes DEF Inv, TypeOK
<1>7. agents[d] = NoEntry /\ services[d] = NoEntry
    BY <1>2 DEF Inv, RemovingSoFar
<1>8. Settled'
    <2>1. ASSUME NEW a \in Agent \ damaged', a = d PROVE SettledFor(a)'
        BY <1>1, <1>7, <2>1 DEF SettledFor, Secrets
    <2>2. \A a \in Agent \ {d} : a \notin damaged' => a \notin damaged
        BY <1>1
    <2> QED
        BY <1>1, <1>5, <2>1, <2>2, SettledKept
<1>9. CASE todo' = <<>>
    BY <1>5, <1>6, <1>8, <1>9, MenuSoFar DEF Inv, EnvOK
<1>10. CASE todo' = Adding
    <2>1. todo' \notin Changes /\ todo' \notin Removes
        BY <1>10, FlowsDiffer DEF Adds
    <2>2. AddingSoFar'
        BY <1>1, <1>7, <1>10, StepsDiffer DEF AddingSoFar, Adds
    <2> QED
        BY <1>1, <1>4, <1>5, <1>6, <1>8, <2>1, <2>2, SoFar DEF Inv, EnvOK
<1> QED
    BY <1>2, <1>9, <1>10

LEMMA WriteSearchKeepsInv ==
    ASSUME Inv, WriteSearch
    PROVE  Inv'
<1>1. Does("search") /\ UNCHANGED <<agents, services, env, draft, damaged>>
    BY DEF WriteSearch, files
<1>2. todo = Searching /\ todo' = <<>>
    BY <1>1, DoesFrom DEF Inv
<1>3. EnvOK' /\ Grows /\ \A a \in Agent : KeptFor(a)
    BY <1>1, InvEnv, EnvStays
<1>4. TypeOK'
    BY <1>1, <1>3, StepKeepsTypes DEF Inv, TypeOK
<1>5. Settled'
    <2>1. ASSUME NEW a \in Agent \ damaged PROVE SettledFor(a)'
        <3>1. SettledFor(a)
            BY <1>2 DEF Inv, Settled, SettledFor
        <3> QED
            BY <1>1, <1>3, <3>1, SettledForKept DEF Inv
    <2> QED
        BY <1>1, <2>1 DEF Settled, SettledFor
<1> QED
    BY <1>2, <1>3, <1>4, <1>5, MenuSoFar DEF Inv, EnvOK

\* A write that raises leaves what it wrote damaged, or all if a file is empty.
LEMMA RaiseKeepsInv ==
    ASSUME Inv, Raise
    PROVE  Inv'
<1> DEFINE d == draft.agent
<1>1. /\ faults < MaxFaults /\ faults' = faults + 1 /\ todo' = <<>>
      /\ UNCHANGED <<draft, flows>>
    BY DEF Raise
<1>2. faults' \in 0..MaxFaults /\ todo' \in Seq(Step)
    <2>1. <<>> \in Seq(Step)
        OBVIOUS
    <2> QED
        BY <1>1, <2>1 DEF Inv, TypeOK
<1>3. CASE damaged' = damaged \cup ({d} \ {None}) /\ UNCHANGED files
    <2>1. UNCHANGED <<agents, services, env>>
        BY <1>3 DEF files
    <2>2. EnvOK' /\ Grows /\ \A a \in Agent : KeptFor(a)
        BY <2>1, InvEnv, EnvStays
    <2>3. d \in Agent \cup {None}
        BY DEF Inv, TypeOK, Draft
    <2>4. TypeOK'
        BY <1>1, <1>2, <1>3, <2>1, <2>2, <2>3 DEF Inv, TypeOK, EnvOK
    <2>5. ASSUME NEW a \in Agent \ damaged' PROVE SettledFor(a)'
        <3>1. a \notin damaged /\ a # d
            BY <1>3
        <3>2. SettledFor(a)
            BY <3>1 DEF Inv, Settled, SettledFor
        <3> QED
            BY <2>1, <2>2, <3>2, SettledForKept DEF Inv
    <2>6. Settled'
        BY <2>5 DEF Settled, SettledFor
    <2> QED
        BY <1>1, <2>2, <2>4, <2>6, MenuSoFar DEF Inv, EnvOK
<1>4. CASE /\ damaged' = Agent
           /\ \/ agents' = [a \in Agent |-> NoEntry] /\ UNCHANGED <<services, env>>
              \/ services' = [a \in Agent |-> NoEntry] /\ UNCHANGED <<agents, env>>
              \/ env' = [v \in Var |-> Absent] /\ UNCHANGED <<agents, services>>
    <2>1. EnvOK'
        <3>1. Absent \in Line /\ ~Absent.on
            BY DEF Absent, Line
        <3>2. CASE env' = [v \in Var |-> Absent]
            BY <3>1, <3>2 DEF EnvOK
        <3>3. CASE UNCHANGED env
            BY <3>3, InvEnv, EnvStays
        <3> QED
            BY <1>4, <3>2, <3>3
    <2>2. TypeOK'
        BY <1>1, <1>2, <1>4, <2>1 DEF Inv, TypeOK, EnvOK
    <2>3. Settled'
        BY <1>4 DEF Settled
    <2> QED
        BY <1>1, <2>1, <2>2, <2>3, MenuSoFar DEF Inv, EnvOK
<1> QED
    BY <1>3, <1>4 DEF Raise

----------------------------------------------------------------------------
\* The templates have no agents.
LEMMA InvInit == Init => Inv
<1> SUFFICES ASSUME Init PROVE Inv
    OBVIOUS
<1>1. /\ todo = <<>> /\ draft = NoDraft /\ damaged = {} /\ flows = 0 /\ faults = 0
      /\ agents = [a \in Agent |-> NoEntry] /\ services = [a \in Agent |-> NoEntry]
      /\ env = [v \in Var |-> IF v \in Template THEN Placeholder ELSE Absent]
    BY DEF Init
<1>2. EnvOK
    <2>1. Absent \in Line /\ ~Absent.on /\ Placeholder \in Line /\ Placeholder.on
        BY DEF Absent, Placeholder, Line
    <2>2. Placeholder.of # None
        BY DEF Placeholder
    <2> QED
        BY <1>1, <2>1, <2>2 DEF EnvOK
<1>3. TypeOK
    <2>1. NoDraft \in Draft
        BY DEF NoDraft, Draft
    <2>2. <<>> \in Seq(Step)
        OBVIOUS
    <2> QED
        BY <1>1, <1>2, <2>1, <2>2 DEF TypeOK, EnvOK
<1>4. Settled
    BY <1>1 DEF Settled, Secrets
<1>5. todo \notin Adds \cup Changes \cup Removes /\ todo \in Stages
    BY <1>1, FlowsDiffer DEF Stages
<1>6. AddingSoFar /\ ChangingSoFar /\ RemovingSoFar
    BY <1>5 DEF AddingSoFar, ChangingSoFar, RemovingSoFar, Adds, Changes, Removes
<1> QED
    BY <1>1, <1>2, <1>3, <1>4, <1>5, <1>6 DEF Inv, EnvOK

LEMMA NextKeepsInv == Inv /\ LinesOK /\ [Next]_vars => Inv'
<1> SUFFICES ASSUME Inv, LinesOK, [Next]_vars PROVE Inv'
    OBVIOUS
<1>1. ASSUME NEW a \in Agent, AddAgent(a) \/ Reconfigure(a) \/ RemoveAgent(a) PROVE Inv'
    BY <1>1, AddAgentKeepsInv, ReconfigureKeepsInv, RemoveAgentKeepsInv
<1>2. CASE ConfigureSearch \/ Answer \/ Cancel
    BY <1>2, SearchKeepsInv, AnswerKeepsInv, CancelKeepsInv
<1>3. CASE WriteAgent \/ AddService \/ ChangeService \/ WriteToken \/ WriteKey
    BY <1>3, WriteAgentKeepsInv, AddServiceKeepsInv, ChangeServiceKeepsInv,
       WriteTokenKeepsInv, WriteKeyKeepsInv
<1>4. CASE DropAgent \/ DropService \/ Comment \/ WriteSearch
    BY <1>4, DropAgentKeepsInv, DropServiceKeepsInv, CommentKeepsInv, WriteSearchKeepsInv
<1>5. CASE Raise
    BY <1>5, RaiseKeepsInv
<1>6. CASE UNCHANGED vars
    <2>1. UNCHANGED <<agents, services, env, todo, draft, damaged, flows, faults>>
        BY <1>6 DEF vars
    <2>2. TypeOK' /\ EnvOK'
        BY <2>1 DEF Inv, TypeOK, EnvOK
    <2>3. Settled'
        BY <2>1 DEF Inv, Settled, Secrets, Defined, Longer
    <2>4. AddingSoFar' /\ RemovingSoFar'
        BY <2>1 DEF Inv, AddingSoFar, RemovingSoFar, Defined, Longer
    <2>5. ChangingSoFar'
        BY <2>1 DEF Inv, ChangingSoFar, Defined, Longer
    <2> QED
        BY <2>1, <2>2, <2>3, <2>4, <2>5 DEF Inv, EnvOK
<1> QED
    BY <1>1, <1>2, <1>3, <1>4, <1>5, <1>6 DEF Next

\* What is answered says which tokens have several lines.
LEMMA NextKeepsLines == Inv /\ LinesOK /\ [Next]_vars => LinesOK'
<1> SUFFICES ASSUME Inv, LinesOK, [Next]_vars PROVE LinesOK'
    OBVIOUS
<1>1. draft \in Draft
    BY DEF Inv, TypeOK
<1>2. CASE UNCHANGED draft
    BY <1>2 DEF LinesOK
<1>3. CASE Answer
    BY <1>1, <1>3 DEF Answer, LinesOK, Draft
<1>4. ASSUME NEW a \in Agent, AddAgent(a) \/ RemoveAgent(a) PROVE LinesOK'
    BY <1>4 DEF AddAgent, RemoveAgent, LinesOK, NoDraft
<1>5. ASSUME NEW a \in Agent, Reconfigure(a) PROVE LinesOK'
    BY <1>5 DEF Reconfigure, LinesOK
<1>6. CASE ConfigureSearch
    BY <1>6 DEF ConfigureSearch, LinesOK, NoDraft
<1>7. CASE WriteAgent \/ AddService \/ ChangeService \/ WriteToken \/ WriteKey
    BY <1>2, <1>7 DEF WriteAgent, AddService, ChangeService, WriteToken, WriteKey
<1>8. CASE DropAgent \/ DropService \/ Comment \/ WriteSearch
    BY <1>2, <1>8 DEF DropAgent, DropService, Comment, WriteSearch
<1>9. CASE Cancel \/ Raise \/ UNCHANGED vars
    BY <1>2, <1>9 DEF Cancel, Raise, vars
<1> QED
    BY <1>3, <1>4, <1>5, <1>6, <1>7, <1>8, <1>9 DEF Next

\* The invariant holds in every reachable state.
LEMMA LinesAlways == Spec => [](Inv /\ LinesOK)
<1>1. Init => Inv /\ LinesOK
    BY InvInit DEF Init, NoDraft, LinesOK
<1>2. Inv /\ LinesOK /\ [Next]_vars => Inv' /\ LinesOK'
    BY NextKeepsInv, NextKeepsLines
<1> QED
    BY <1>1, <1>2, PTL DEF Spec

LEMMA Invariance == Spec => []Inv
  BY LinesAlways, PTL

\* The type invariant of the wizard holds.
THEOREM TypeCorrect == Spec => []TypeOK
  BY Invariance, PTL DEF Inv

\* At the menu agents.yaml and docker-compose.yaml say the same of every agent
\* whose last write did not raise, whatever flows went before.
THEOREM ConfigurationAgrees == Spec => []FilesAgree
<1>1. Inv => FilesAgree
    BY DEF Inv, Settled, FilesAgree
<1> QED
    BY <1>1, Invariance, PTL

\* At the menu the secrets that an agent refers to are in .env as they were
\* entered, those of several lines with their first.
THEOREM SecretsAreThere == Spec => []SecretsDefined
<1>1. Inv => SecretsDefined
    BY DEF Inv, Settled, Secrets, SecretsDefined, Defined
<1> QED
    BY <1>1, Invariance, PTL

----------------------------------------------------------------------------
\* A flow is about one agent.

OthersStep ==
    faults' = faults =>
        \A a \in Agent \ {draft.agent} :
            /\ agents'[a] = agents[a] /\ services'[a] = services[a]
            /\ \A v \in Var : v.agent = a => env'[v] = env[v]

LEMMA OthersKeptStep ==
    ASSUME OthersKept(draft.agent)
    PROVE  OthersStep
  BY DEF OthersKept, OthersStep, KeptFor

LEMMA NextLeavesOthers == Inv /\ LinesOK /\ [Next]_vars => OthersStep
<1> SUFFICES ASSUME Inv, LinesOK, [Next]_vars PROVE OthersStep
    OBVIOUS
<1>1. CASE UNCHANGED files
    BY <1>1 DEF files, OthersStep
<1>2. CASE WriteAgent
    <2>1. /\ UNCHANGED <<services, env>>
          /\ \A a \in Agent \ {draft.agent} : agents'[a] = agents[a]
        BY <1>2 DEF WriteAgent, Inv, TypeOK
    <2> QED
        BY <2>1, FilesOfOthers, OthersKeptStep
<1>3. CASE DropAgent
    <2>1. /\ UNCHANGED <<services, env>>
          /\ \A a \in Agent \ {draft.agent} : agents'[a] = agents[a]
        BY <1>3 DEF DropAgent, Inv, TypeOK
    <2> QED
        BY <2>1, FilesOfOthers, OthersKeptStep
<1>4. CASE AddService \/ ChangeService \/ DropService
    <2>1. /\ UNCHANGED <<agents, env>>
          /\ \A a \in Agent \ {draft.agent} : services'[a] = services[a]
        BY <1>4 DEF AddService, ChangeService, DropService, Inv, TypeOK
    <2> QED
        BY <2>1, FilesOfOthers, OthersKeptStep
<1>5. CASE WriteToken
    <2>1. todo \in (Adds \ {Adding}) \cup Changes
        <3>1. Does("token") /\ todo \in Stages
            BY <1>5 DEF WriteToken, Inv
        <3>2. todo \in {Adding2, Changing3}
            BY <3>1, DoesFrom
        <3> QED
            BY <3>2, StepsDiffer DEF Adds, Changes
    <2>2. draft.agent \in Agent /\ draft.entry \in Entry
        BY <2>1, FlowsDiffer DEF Inv, AddingSoFar, ChangingSoFar
    <2>3. PICK v \in Var : v = TokenOf(draft.agent, draft.entry) /\ v.agent = draft.agent
        BY <2>2, VarsOf
    <2>4. /\ env' = IF draft.token THEN With(v, draft.lines) ELSE env
          /\ UNCHANGED <<agents, services>>
          /\ draft.token \in BOOLEAN /\ draft.lines \in BOOLEAN
        BY <1>5, <2>3 DEF WriteToken, Inv, TypeOK, Draft
    <2>5. draft.lines => v.kind \in MultiLine
        BY <2>3 DEF LinesOK, TokenOf
    <2> QED
        BY <2>2, <2>3, <2>4, <2>5, SecretWritten, OthersKeptStep
<1>6. CASE WriteKey
    <2>1. todo \in Adds \cup Changes
        BY <1>6, DoesFrom DEF WriteKey, Inv, Adds, Changes
    <2>2. draft.agent \in Agent
        BY <2>1, FlowsDiffer DEF Inv
    <2>3. PICK v \in Var : v = KeyOf(draft.agent) /\ v.agent = draft.agent
        <3>1. KeyOf(draft.agent) \in Var /\ KeyOf(draft.agent).agent = draft.agent
            BY <2>2 DEF KeyOf, Var
        <3> QED
            BY <3>1
    <2>4. /\ env' = IF draft.key THEN With(v, FALSE) ELSE env
          /\ UNCHANGED <<agents, services>> /\ draft.key \in BOOLEAN
        BY <1>6, <2>3 DEF WriteKey, Inv, TypeOK, Draft
    <2> QED
        BY <2>2, <2>3, <2>4, SecretWritten, OthersKeptStep
<1>7. CASE Comment
    <2>1. todo \in Removes
        BY <1>7, DoesFrom DEF Comment, Inv, Removes
    <2>2. draft.agent \in Agent
        BY <2>1, FlowsDiffer DEF Inv
    <2>3. OthersKept(draft.agent)
        BY <1>7, <2>2, InvEnv, CommentedEffect DEF Comment, OthersKept
    <2> QED
        BY <2>3, OthersKeptStep
<1>8. CASE Raise
    <2>1. faults' # faults
        <3>1. faults' = faults + 1 /\ faults \in 0..MaxFaults
            BY <1>8 DEF Raise, Inv, TypeOK
        <3> QED
            BY <3>1
    <2> QED
        BY <2>1 DEF OthersStep
<1>9. ASSUME NEW a \in Agent, AddAgent(a) \/ Reconfigure(a) \/ RemoveAgent(a)
      PROVE  UNCHANGED files
    BY <1>9 DEF AddAgent, Reconfigure, RemoveAgent, Chooses
<1>10. CASE ConfigureSearch \/ Answer \/ Cancel \/ WriteSearch \/ UNCHANGED vars
    BY <1>1, <1>10 DEF ConfigureSearch, Chooses, Answer, Cancel, WriteSearch, vars, files
<1> QED
    BY <1>1, <1>2, <1>3, <1>4, <1>5, <1>6, <1>7, <1>8, <1>9, <1>10 DEF Next

\* Unless a write raises, a flow changes its own agent's entry, service and
\* variables only, although names of variables are searched for by parts.
THEOREM OneAgentAtATime == Spec => OthersUntouched
<1>1. Inv /\ LinesOK /\ [Next]_vars => [OthersStep]_vars
    BY NextLeavesOthers
<1>2. Spec => [][OthersStep]_vars
    BY <1>1, Invariance, LinesAlways, PTL DEF Spec
<1> QED
    BY <1>2 DEF OthersUntouched, OthersStep
=============================================================================

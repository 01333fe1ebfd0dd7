----------------------------- MODULE Onboarding -----------------------------
(***************************************************************************)
(* The wizard that writes the configuration (onboard.py): an agent is an   *)
(* entry of agents.yaml, a service of docker-compose.yaml, and variables   *)
(* of .env that both refer to: the token of its channel and, if it has     *)
(* one, the key of its language model.                                     *)
(*                                                                         *)
(* A flow asks its questions and then writes one file after the other,     *)
(* each time reading the file, changing it and writing it whole.  A write  *)
(* may raise, which ends the wizard, and may leave the file empty: it is   *)
(* opened for writing, which empties it, before anything is written.       *)
(***************************************************************************)
EXTENDS Integers, Sequences

CONSTANTS
    Agent, Channel, Model, None,
    telegram,   \* the channel whose tokens removal knows
    MultiLine,  \* channels whose token is several answers on lines of their own
    Ends,       \* <<a, b>>: the id of b ends with that of a, as old_puck with puck
    Template,   \* variables that env.example has with placeholders
    MaxFlows,   \* bound of the model: flows
    MaxFaults   \* bound of the model: writes that raise

Key == "LLM_API_KEY"
Var == [agent : Agent, kind : Channel \cup {Key}]

ASSUME OnboardingAssumption ==
    /\ telegram \in Channel /\ Key \notin Channel /\ MultiLine \subseteq Channel
    /\ None \notin Agent \cup Channel \cup Model
    /\ "example" \notin Agent \cup {None}
    /\ Ends \subseteq Agent \X Agent /\ \A a \in Agent : <<a, a>> \notin Ends
    /\ Template \subseteq Var /\ \A v \in Template : v.kind # Key
    /\ MaxFlows \in Nat /\ MaxFaults \in Nat

VARIABLES
    agents,     \* agents[a]: the entry of a in agents.yaml
    services,   \* services[a]: the service of a in docker-compose.yaml
    env,        \* env[v]: the line of v in .env
    todo,       \* what the flow still does; empty at the menu
    draft,      \* what the user has answered
    damaged,    \* history: agents that a write which raised left half done
    flows, faults

vars == <<agents, services, env, todo, draft, damaged, flows, faults>>
files == <<agents, services, env>>

\* An entry, or a service: the variable of its token by its channel, whether it
\* refers to its own key, and the rest of its settings as the model.
Entry == [channel : Channel, key : BOOLEAN, model : Model]
NoEntry == [channel |-> None, key |-> FALSE, model |-> None]

\* A line of .env: whose answer it holds, or a placeholder, whether it is not
\* commented out, and whether it holds the whole answer.  The further lines of an
\* answer become lines of the file that no variable's name begins.
Line == [of : Agent \cup {None, "example"}, on : BOOLEAN, whole : BOOLEAN]
Absent == [of |-> None, on |-> FALSE, whole |-> FALSE]
Placeholder == [of |-> "example", on |-> TRUE, whole |-> TRUE]

Step == {"ask", "agents", "services", "token", "key",
         "drop agent", "drop service", "comment", "search"}

\* token, key: a new token, a new key was entered; lines: the token has several.
Draft == [agent : Agent \cup {None}, entry : Entry \cup {NoEntry},
          token : BOOLEAN, lines : BOOLEAN, key : BOOLEAN]
NoDraft == [agent |-> None, entry |-> NoEntry, token |-> FALSE, lines |-> FALSE,
            key |-> FALSE]

Adding == <<"ask", "agents", "services", "token", "key">>
Changing == <<"agents", "token", "key", "services">>
Removing == <<"drop agent", "drop service", "comment">>
Searching == <<"search">>

\* ensure_config_files: the templates have no agents.
Init ==
    /\ agents = [a \in Agent |-> NoEntry]
    /\ services = [a \in Agent |-> NoEntry]
    /\ env = [v \in Var |-> IF v \in Template THEN Placeholder ELSE Absent]
    /\ todo = <<>>
    /\ draft = NoDraft
    /\ damaged = {}
    /\ flows = 0
    /\ faults = 0

----------------------------------------------------------------------------
\* The menu.

Chooses(flow) ==
    /\ todo = <<>> /\ flows < MaxFlows
    /\ flows' = flows + 1
    /\ todo' = flow
    /\ UNCHANGED <<files, damaged, faults>>

\* _add_agent_flow up to the id; an agent that exists is removed, if the user
\* agrees, before any further question.
AddAgent(a) ==
    /\ Chooses(IF agents[a] = NoEntry THEN Adding ELSE Removing \o Adding)
    /\ draft' = [NoDraft EXCEPT !.agent = a]

\* _remove_agent_flow
RemoveAgent(a) ==
    /\ agents[a] # NoEntry
    /\ Chooses(Removing)
    /\ draft' = [NoDraft EXCEPT !.agent = a]

\* The questions of _reconfigure_agent_flow, which takes one line for a token of
\* any channel: an agent that has a key keeps it if the provider still needs one.
Reconfigure(a) ==
    /\ agents[a] # NoEntry
    /\ Chooses(Changing)
    /\ \E m \in Model, needs, key, token \in BOOLEAN :
           /\ key => needs
           /\ draft' = [agent |-> a, token |-> token, lines |-> FALSE, key |-> key,
                        entry |-> [agents[a] EXCEPT !.model = m,
                                       !.key = key \/ (@ /\ needs)]]

\* _configure_search_flow
ConfigureSearch == Chooses(Searching) /\ draft' = NoDraft

----------------------------------------------------------------------------
\* What a flow does, step by step.

Does(step) ==
    /\ todo # <<>> /\ Head(todo) = step
    /\ todo' = Tail(todo)
    /\ UNCHANGED <<flows, faults>>

\* The other questions of _add_agent_flow.
Answer ==
    /\ Does("ask")
    /\ \E e \in Entry :
           draft' = [draft EXCEPT !.entry = e, !.key = e.key, !.token = TRUE,
                                  !.lines = e.channel \in MultiLine]
    /\ UNCHANGED <<files, damaged>>

\* The user cancels, or the wizard raises: "Start blank" reads the limit of a
\* personality there is not, and without a list of models none is chosen.
Cancel ==
    /\ todo # <<>> /\ Head(todo) = "ask"
    /\ todo' = <<>>
    /\ UNCHANGED <<files, draft, damaged, flows, faults>>

\* add_agent_to_agents_yaml, or the entry that was changed.
WriteAgent ==
    /\ Does("agents")
    /\ agents' = [agents EXCEPT ![draft.agent] = draft.entry]
    /\ UNCHANGED <<services, env, draft, damaged>>

\* add_agent_to_docker_compose leaves a service that is there as it is.  The
\* service is not the last thing that Adding writes, as it is in Changing.
AddService ==
    LET a == draft.agent IN
    /\ Does("services") /\ todo' # <<>>
    /\ IF services[a] = NoEntry
       THEN /\ services' = [services EXCEPT ![a] = draft.entry]
            /\ damaged' = damaged \ {a}
       ELSE UNCHANGED <<services, damaged>>
    /\ UNCHANGED <<agents, env, draft>>

\* Faulty: the reference to the key stays although the provider wants none.
ChangedKeepsKey(old) ==
    IF old = NoEntry THEN old ELSE [draft.entry EXCEPT !.key = @ \/ old.key]

\* The service as _reconfigure_agent_flow changes it, if there is one: a key that
\* was not entered anew is referred to if both files did.
Changed(old) ==
    IF old = NoEntry THEN old
    ELSE [draft.entry EXCEPT !.key = draft.key \/ (@ /\ old.key)]

ChangeService ==
    /\ Does("services") /\ todo' = <<>>
    /\ services' = [services EXCEPT ![draft.agent] = Changed(@)]
    /\ UNCHANGED <<agents, env, draft, damaged>>

\* Variables whose name has that of v as its end, and that .env has.
Longer(v) == {w \in Var : <<v.agent, w.agent>> \in Ends /\ w.kind = v.kind /\ env[w] # Absent}

\* The name of v is found somewhere in .env.
Mentioned(v) == env[v] # Absent \/ Longer(v) # {}

\* NAME=value, for a value of one line or of several.
Assigned(v, lines) == [of |-> v.agent, on |-> TRUE, whole |-> ~lines]

\* Faulty: every line in which the name of v is found is replaced.
WithAnywhere(v, lines) ==
    [w \in Var |-> IF w = v \/ w \in Longer(v) THEN Assigned(v, lines) ELSE env[w]]

\* Faulty: a line that is commented out is not recognised.
WithUnlessCommented(v, lines) ==
    IF Mentioned(v) /\ ~env[v].on THEN env
    ELSE [env EXCEPT ![v] = Assigned(v, lines)]

\* .env with a value for v: if its name is found, lines that begin with it are
\* replaced, commented out or not; otherwise a line is inserted.
With(v, lines) ==
    IF Mentioned(v) /\ env[v] = Absent THEN env
    ELSE [env EXCEPT ![v] = Assigned(v, lines)]

TokenOf(a, e) == [agent |-> a, kind |-> e.channel]
KeyOf(a) == [agent |-> a, kind |-> Key]

\* add_token_to_env
WriteToken ==
    /\ Does("token")
    /\ env' = IF draft.token
              THEN With(TokenOf(draft.agent, draft.entry), draft.lines) ELSE env
    /\ UNCHANGED <<agents, services, draft, damaged>>

\* add_llm_api_key_to_env
WriteKey ==
    /\ Does("key")
    /\ env' = IF draft.key THEN With(KeyOf(draft.agent), FALSE) ELSE env
    /\ UNCHANGED <<agents, services, draft, damaged>>

DropAgent ==
    /\ Does("drop agent")
    /\ agents' = [agents EXCEPT ![draft.agent] = NoEntry]
    /\ UNCHANGED <<services, env, draft, damaged>>

DropService ==
    /\ Does("drop service")
    /\ services' = [services EXCEPT ![draft.agent] = NoEntry]
    /\ UNCHANGED <<agents, env, draft, damaged>>

\* Faulty: comments out all that the agent has.
CommentedAll(a) ==
    [v \in Var |-> IF v.agent = a THEN [env[v] EXCEPT !.on = FALSE] ELSE env[v]]

\* .env after comment_token_in_env, which knows the tokens of one channel only.
Commented(a) == [env EXCEPT ![[agent |-> a, kind |-> telegram]].on = FALSE]

Comment ==
    /\ Does("comment")
    /\ env' = Commented(draft.agent)
    /\ UNCHANGED <<agents, services, draft, damaged>>

\* _write_env_dict with all variables as they were read, and those of the search,
\* which stand for no agent; a line that is commented out is kept.
WriteSearch ==
    /\ Does("search")
    /\ UNCHANGED <<files, draft, damaged>>

\* The next step writes a file.
Writes ==
    /\ todo # <<>> /\ Head(todo) # "ask"
    /\ Head(todo) = "token" => draft.token
    /\ Head(todo) = "key" => draft.key

\* Its write raises: the file is as it was, or empty.  A file of which a part was
\* written stands with the empty one.
Raise ==
    /\ Writes /\ faults < MaxFaults
    /\ faults' = faults + 1
    /\ todo' = <<>>
    /\ \/ damaged' = damaged \cup ({draft.agent} \ {None}) /\ UNCHANGED files
       \/ /\ damaged' = Agent
          /\ CASE Head(todo) \in {"agents", "drop agent"} ->
                      agents' = [a \in Agent |-> NoEntry] /\ UNCHANGED <<services, env>>
               [] Head(todo) \in {"services", "drop service"} ->
                      services' = [a \in Agent |-> NoEntry] /\ UNCHANGED <<agents, env>>
               [] OTHER ->
                      env' = [v \in Var |-> Absent] /\ UNCHANGED <<agents, services>>
    /\ UNCHANGED <<draft, flows>>

Next ==
    \/ \E a \in Agent : AddAgent(a) \/ Reconfigure(a) \/ RemoveAgent(a)
    \/ ConfigureSearch
    \/ Answer \/ Cancel
    \/ WriteAgent \/ AddService \/ ChangeService \/ WriteToken \/ WriteKey
    \/ DropAgent \/ DropService \/ Comment \/ WriteSearch
    \/ Raise

Spec == Init /\ [][Next]_vars

----------------------------------------------------------------------------

TypeOK ==
    /\ agents \in [Agent -> Entry \cup {NoEntry}]
    /\ services \in [Agent -> Entry \cup {NoEntry}]
    /\ env \in [Var -> Line]
    /\ \A v \in Var : env[v] # Absent /\ ~env[v].on => v.kind = telegram
    /\ todo \in Seq(Step) /\ draft \in Draft /\ damaged \subseteq Agent
    /\ flows \in 0..MaxFlows /\ faults \in 0..MaxFaults

\* At the menu agents.yaml and docker-compose.yaml say the same of every agent,
\* through any sequence of adding, replacing, changing, removing and cancelling,
\* also of an agent that was added anew after a write of it had raised.
FilesAgree ==
    todo = <<>> => \A a \in Agent \ damaged : agents[a] = services[a]

\* At the menu every token and key that agents.yaml refers to is in .env, not
\* commented out, and what stands there was entered for this agent, all of it, or,
\* of a token of several lines, at least the first; unless its variable's name is
\* the end of another that .env has.
SecretsDefined ==
    LET Defined(v) ==
            \/ Longer(v) # {}
            \/ /\ env[v].of = v.agent /\ env[v].on
               /\ v.kind \notin MultiLine => env[v].whole
    IN  todo = <<>> =>
            \A a \in Agent \ damaged : agents[a] # NoEntry =>
                /\ Defined(TokenOf(a, agents[a]))
                /\ agents[a].key => Defined(KeyOf(a))

\* A flow changes entry, service and variables of its own agent only, although
\* it searches .env by parts of names; only a file left empty concerns others.
OthersUntouched ==
    [][faults' = faults =>
        \A a \in Agent \ {draft.agent} :
            /\ agents'[a] = agents[a] /\ services'[a] = services[a]
            /\ \A v \in Var : v.agent = a => env'[v] = env[v]]_vars
=============================================================================

------------------------------- MODULE Skills -------------------------------
(***************************************************************************)
(* The tools with which an agent builds, publishes and removes skills      *)
(* (agents/tools.py over skills/builder.py and skills/sandbox.py), the     *)
(* broadcasts by which agents hear of them, and the start of an agent,     *)
(* over the shared directory of SkillRegistry.                             *)
(*                                                                         *)
(* A tool awaits the sandbox and the broadcast; meanwhile its process may  *)
(* run an operation of the registry for somebody else.  draft[a] is the    *)
(* call of agent a that is in flight; a brain that calls several tools at  *)
(* once, or a scheduled prompt beside it, is left out.                     *)
(***************************************************************************)
EXTENDS SkillRegistry

CONSTANTS
    Valid,        \* codes that pass draft_skill: they parse and fit the schema
    Passing,      \* codes whose run in the sandbox succeeds if it ends in time
    MaxRetries,   \* max_retries of _check_and_increment_retries
    MaxCalls,     \* bound of the model: tool calls and jobs of all agents
    MaxCrashes    \* bound of the model: processes that end

ASSUME SkillsAssumption ==
    /\ Valid \subseteq Code /\ Passing \subseteq Code
    /\ MaxRetries \in Nat /\ MaxCalls \in Nat /\ MaxCrashes \in Nat

VARIABLES
    draft,      \* the tool call of an agent that awaits something
    retries,    \* _retry_counts, for the agent's one conversation
    notice,     \* a broadcast of a deployed skill waits for the agent
    calls,      \* tool calls and jobs so far
    crashes     \* processes ended so far

vars == <<registryVars, draft, retries, notice, calls, crashes>>

\* build_skill and review_skill_code count and end like test_skill_code.
Counted == {"test_skill_code", "publish_skill_code"}
Publishing == {"publish_skill_code", "build_and_publish_skill"}
Tool == Counted \cup Publishing \cup {"test_driven_skill"}

Draft == [pc : {"none", "testing", "registering", "announcing"},
          tool : Tool \cup {"none"}, name : Name \cup {Absent},
          code : Code \cup {Absent}]
NoDraft == [pc |-> "none", tool |-> "none", name |-> Absent, code |-> Absent]

Init ==
    /\ RegistryInit
    /\ draft = [a \in Agent |-> NoDraft]
    /\ retries = [a \in Agent |-> [t \in Counted |-> 0]]
    /\ notice = [a \in Agent |-> FALSE]
    /\ calls = 0
    /\ crashes = 0

----------------------------------------------------------------------------
\* Calls.

\* A tool may be called: the event loop of a is free.
Call(a) ==
    /\ IsIdle(a) /\ draft[a] = NoDraft
    /\ calls < MaxCalls
    /\ calls' = calls + 1

\* Faulty: allows one call more than max_retries says.
BlockedLate(a, t) == t \in Counted /\ retries[a][t] > MaxRetries + 1

Blocked(a, t) == t \in Counted /\ retries[a][t] > MaxRetries

\* draft_skill returns a draft without errors.
Drafted(c) == c \in Valid

\* The sandbox can report success for a code.
Succeeds(c) == c \in Passing

Count(a, t) ==
    retries' = IF t \in Counted THEN [retries EXCEPT ![a][t] = @ + 1] ELSE retries

\* Max retries reached, or draft_skill found an error, or the test cases are not
\* a list in JSON.
Decline(a, t, c) ==
    /\ Call(a)
    /\ \/ Blocked(a, t) /\ UNCHANGED retries
       \/ ~ Blocked(a, t) /\ (t \in Counted \/ ~ Drafted(c)) /\ Count(a, t)
    /\ UNCHANGED <<registryVars, draft, notice, crashes>>

\* A valid draft goes to the sandbox.
StartTest(a, t, n, c) ==
    /\ Call(a)
    /\ ~ Blocked(a, t) /\ Drafted(c)
    /\ Count(a, t)
    /\ draft' = [draft EXCEPT ![a] =
                     [pc |-> "testing", tool |-> t, name |-> n, code |-> c]]
    /\ UNCHANGED <<registryVars, notice, crashes>>

RemoveSkill(a, n) ==
    /\ Call(a)
    /\ BeginUnregister(a, n)
    /\ UNCHANGED <<draft, retries, notice, crashes>>

----------------------------------------------------------------------------
\* What a tool does after its awaits.

Dropped(a) ==
    /\ draft' = [draft EXCEPT ![a] = NoDraft]
    /\ UNCHANGED <<registryVars, retries, notice, calls, crashes>>

\* The run could not start, was killed at its timeout or failed.
TestFails(a) ==
    /\ draft[a].pc = "testing" /\ IsIdle(a)
    /\ Dropped(a)

\* Every run succeeded, and publish_skill_code may have been given none.
Passed(a) == Succeeds(draft[a].code) \/ draft[a].tool = "publish_skill_code"

\* The tool only tests, or the user did not approve.
Report(a) ==
    /\ draft[a].pc = "testing" /\ IsIdle(a)
    /\ draft[a].tool # "build_and_publish_skill" /\ Passed(a)
    /\ Dropped(a)

\* What publish_skill asks for before it registers.
Publishable(a) == draft[a].tool \in Publishing /\ Passed(a)

Publish(a) ==
    /\ draft[a].pc = "testing" /\ IsIdle(a)
    /\ Publishable(a)
    /\ BeginRegister(a, draft[a].name, draft[a].code)
    /\ draft' = [draft EXCEPT ![a].pc = "registering"]
    /\ UNCHANGED <<retries, notice, calls, crashes>>

\* publish_skill goes on to its broadcast only if the file could be loaded.
Registered(a) ==
    /\ EndRegister(a)
    /\ draft' = [draft EXCEPT ![a] = IF Loads(op[a].name)
                                     THEN [@ EXCEPT !.pc = "announcing"] ELSE NoDraft]
    /\ UNCHANGED <<retries, notice, calls, crashes>>

\* The broadcast reaches every agent, the publisher included, or fails.
Announce(a) ==
    /\ draft[a].pc = "announcing" /\ IsIdle(a)
    /\ \/ /\ notice' = [b \in Agent |-> TRUE]
          /\ deployed' = IF Loads(draft[a].name)
                         THEN [deployed EXCEPT ![draft[a].name] = disk[draft[a].name]]
                         ELSE deployed
       \/ UNCHANGED <<notice, deployed>>
    /\ draft' = [draft EXCEPT ![a] = NoDraft]
    /\ UNCHANGED <<disk, reg, tmp, op, skills, brain, failed, disturbed,
                   retries, calls, crashes>>

\* os.replace raised; the exception leaves the tool if it was registering.
Raises(a) ==
    /\ ReplaceRaises(a)
    /\ draft' = IF op[a].kind = "register"
                THEN [draft EXCEPT ![a] = NoDraft] ELSE draft
    /\ UNCHANGED <<retries, notice, calls, crashes>>

----------------------------------------------------------------------------
\* Reloads and restarts.

\* _on_nats_message: skill_deployed.  If it raises, the message is not handled
\* again (CouncilBus).
HandleNotice(a) ==
    /\ notice[a] /\ IsIdle(a)
    /\ notice' = [notice EXCEPT ![a] = FALSE]
    /\ BeginLoad(a, "reload")
    /\ UNCHANGED <<draft, retries, calls, crashes>>

\* The scheduled job skill_reload.
ReloadJob(a) ==
    /\ IsIdle(a)
    /\ calls < MaxCalls
    /\ calls' = calls + 1
    /\ BeginLoad(a, "reload")
    /\ UNCHANGED <<draft, retries, notice, crashes>>

\* The new process starts with a load_all and may be sent old broadcasts again.
Crash(a) ==
    /\ crashes < MaxCrashes
    /\ crashes' = crashes + 1
    /\ Reborn(a)
    /\ draft' = [draft EXCEPT ![a] = NoDraft]
    /\ retries' = [retries EXCEPT ![a] = [t \in Counted |-> 0]]
    /\ \E again \in BOOLEAN : notice' = [notice EXCEPT ![a] = again]
    /\ UNCHANGED calls

Ends(a) == FileStep(a) \/ EndLoad(a) \/ EndUnregister(a)

\* What an agent does without being asked.
Step(a) ==
    \/ Ends(a) /\ UNCHANGED <<draft, retries, notice, calls, crashes>>
    \/ TestFails(a) \/ Report(a) \/ Publish(a)
    \/ Registered(a) \/ Raises(a) \/ Announce(a)
    \/ HandleNotice(a)

Next ==
    \E a \in Agent :
        \/ Step(a)
        \/ \E t \in Tool, c \in Code :
               Decline(a, t, c) \/ \E n \in Name : StartTest(a, t, n, c)
        \/ \E n \in Name : RemoveSkill(a, n)
        \/ SwitchModel(a) /\ UNCHANGED <<draft, retries, notice, calls, crashes>>
        \/ ReloadJob(a)
        \/ Crash(a)

Spec == Init /\ [][Next]_vars

----------------------------------------------------------------------------

TypeOK ==
    /\ RegistryTypeOK
    /\ draft \in [Agent -> Draft]
    /\ retries \in [Agent -> [Counted -> 0..MaxRetries + 1]]
    /\ notice \in [Agent -> BOOLEAN]
    /\ calls \in 0..MaxCalls /\ crashes \in 0..MaxCrashes

\* No other file gives a skill the name that the deployed code of n declares.
Sole(n) == \A m \in Name \ {n} : Loads(m) => Declares[disk[m]] # Declares[deployed[n]]

\* Once an agent has handled the broadcast of a deployed skill, its brain has
\* this code of it, and so does a process started later, unless load_all raised:
\* whatever entries of registry.json were lost to other writers.
DeployedIsLoaded ==
    \A a \in Agent, n \in Name :
        deployed[n] # Absent /\ Sole(n) /\ IsIdle(a) /\ ~ notice[a] /\ ~ failed[a] =>
            brain[a][Declares[deployed[n]]] = deployed[n]
=============================================================================

--------------------------- MODULE SkillRegistry ---------------------------
(***************************************************************************)
(* The skill directory that all agents share (skills/registry.py): one     *)
(* file of code per skill and registry.json, which is rewritten through    *)
(* registry.json.tmp and os.replace, without any lock between processes.   *)
(*                                                                         *)
(* Inside one process an operation runs without an await, so op[a] is the  *)
(* only operation of agent a; operations of different agents interleave    *)
(* between the file accesses below.  An open file is an inode: what was    *)
(* opened as registry.json.tmp is registry.json after somebody else's      *)
(* os.replace, and nothing at all after the next one.                      *)
(*                                                                         *)
(* The module has the operations; Skills composes them with the tools that *)
(* start them.                                                             *)
(***************************************************************************)
EXTENDS Integers, Sequences, SequencesExt, FiniteSets

CONSTANTS
    Agent,
    Name,       \* names of skills, which are also the stems of their files
    Code,       \* what a file may hold
    Declares,   \* the name in the SKILL_META of a code, whatever its file
    Loadable,   \* codes that import, and have SKILL_META and an async run()
    Absent,     \* a file that does not exist, a skill that is not loaded
    Torn        \* a file that is empty, half written or a mixture

Entry == [name : Name, file : Name]

ASSUME SkillRegistryAssumption ==
    /\ Declares \in [Code -> Name]
    /\ Loadable \subseteq Code
    /\ Absent \notin Code /\ Torn \notin Code /\ Absent # Torn
    /\ Absent \notin Seq(Entry) /\ Torn \notin Seq(Entry)

VARIABLES
    disk,       \* disk[n]: the file n.py
    reg,        \* registry.json
    tmp,        \* registry.json.tmp
    op,         \* op[a]: the operation a is in
    skills,     \* SkillRegistry._skills
    brain,      \* the skills whose tools are registered with the brain
    failed,     \* history variable: a's last load_all raised
    disturbed,  \* history variable: another process changed a file during op[a]
    deployed    \* history variable: codes whose announcement is the last that
                \* happened to their file and to the name they declare

files == <<disk, reg, tmp>>
ghosts == <<failed, disturbed, deployed>>
registryVars == <<disk, reg, tmp, op, skills, brain, ghosts>>

Listing == Seq(Entry) \cup {Absent, Torn}
Loaded == [Name -> Code \cup {Absent}]
NoSkills == [n \in Name |-> Absent]

Kind == {"none", "start", "reload", "register", "unregister"}
Pc == {"idle", "writing", "reading", "scanning", "opening", "filling",
       "replacing", "ending"}

\* fd: where the file opened as registry.json.tmp is by now.
Operation == [kind : Kind, pc : Pc, name : Name \cup {Absent},
              code : Code \cup {Absent}, list : Seq(Entry),
              fd : {"closed", "tmp", "reg", "deleted"}]

Idle == [kind |-> "none", pc |-> "idle", name |-> Absent, code |-> Absent,
         list |-> <<>>, fd |-> "closed"]
Running(kind, pc, n, c) ==
    [Idle EXCEPT !.kind = kind, !.pc = pc, !.name = n, !.code = c]

At(a, kind, pc) == op[a].kind = kind /\ op[a].pc = pc
Loading(a) == op[a].kind \in {"start", "reload"}
IsIdle(a) == op[a].pc = "idle"

RegistryInit ==
    /\ disk = [n \in Name |-> Absent]
    /\ reg = Absent
    /\ tmp = Absent
    /\ op = [a \in Agent |-> Idle]
    /\ skills = [a \in Agent |-> NoSkills]
    /\ brain = [a \in Agent |-> NoSkills]
    /\ failed = [a \in Agent |-> FALSE]
    /\ disturbed = [a \in Agent |-> FALSE]
    /\ deployed = [n \in Name |-> Absent]

\* a changes a file: every other operation under way is disturbed.
Disturb(a) ==
    disturbed' = [b \in Agent |-> IF b = a THEN disturbed[b] /\ ~ IsIdle(a)
                                  ELSE disturbed[b] \/ ~ IsIdle(b)]

\* File n and the skills of the given names are no longer what was announced.
Touch(n, names) ==
    deployed' = [m \in Name |->
                    IF m = n \/ (deployed[m] # Absent /\ Declares[deployed[m]] \in names)
                    THEN Absent ELSE deployed[m]]

\* The names that file n may have given or will give to a skill.
Named(n, c) == {Declares[x] : x \in {c, disk[n]} \cap Code}

----------------------------------------------------------------------------
\* Reading files.

\* registry.json as the code reads it: anything unreadable is an empty list.
Entries == IF reg \in {Absent, Torn} THEN <<>> ELSE reg

\* Faulty: registry.json is trusted, files it does not list stay unknown.
UnlistedIgnored(list) == {}

\* Files of the directory that no entry names.
Unlisted(list) == {n \in Name : disk[n] # Absent} \ {list[i].file : i \in DOMAIN list}

Loads(n) == disk[n] \in Loadable

\* _load_skill_file for each entry; of two that declare one name the last wins.
LoadedFrom(list) ==
    [n \in Name |->
        LET I == {i \in DOMAIN list : /\ Loads(list[i].file)
                                      /\ Declares[disk[list[i].file]] = n}
        IN  IF I = {} THEN Absent
            ELSE disk[list[CHOOSE i \in I : \A j \in I : j <= i].file]]

----------------------------------------------------------------------------
\* The beginnings of the three operations.

\* load_all: the loaded skills are dropped before anything is read.
BeginLoad(a, kind) ==
    /\ op' = [op EXCEPT ![a] = Running(kind, "reading", Absent, Absent)]
    /\ skills' = [skills EXCEPT ![a] = NoSkills]
    /\ disturbed' = [disturbed EXCEPT ![a] = FALSE]
    /\ UNCHANGED <<disk, reg, tmp, brain, failed, deployed>>

\* register_skill: write_text opens the file, which empties it.
BeginRegister(a, n, c) ==
    /\ op' = [op EXCEPT ![a] = Running("register", "writing", n, c)]
    /\ disk' = [disk EXCEPT ![n] = Torn]
    /\ Touch(n, Named(n, c))
    /\ Disturb(a)
    /\ UNCHANGED <<reg, tmp, skills, brain, failed>>

\* unregister_skill: the file goes first.
BeginUnregister(a, n) ==
    /\ op' = [op EXCEPT ![a] = Running("unregister", "reading", n, Absent)]
    /\ disk' = [disk EXCEPT ![n] = Absent]
    /\ Touch(n, {n} \cup Named(n, Absent))
    /\ Disturb(a)
    /\ UNCHANGED <<reg, tmp, skills, brain, failed>>

----------------------------------------------------------------------------
\* Their steps.

\* The code arrives in the file that was opened: not at all if it has been
\* unlinked, and perhaps mixed with what another process wrote meanwhile.
WriteFile(a) ==
    /\ op[a].pc = "writing"
    /\ \E content \in CASE disk[op[a].name] = Absent -> {Absent}
                        [] disk[op[a].name] = Torn   -> {op[a].code}
                        [] OTHER                     -> {op[a].code, Torn} :
           disk' = [disk EXCEPT ![op[a].name] = content]
    /\ op' = [op EXCEPT ![a].pc = "reading"]
    /\ Touch(op[a].name, Named(op[a].name, op[a].code))
    /\ Disturb(a)
    /\ UNCHANGED <<reg, tmp, skills, brain, failed>>

\* The name is listed once, whatever file its entry has.
WithEntry(list, n) ==
    IF \E i \in DOMAIN list : list[i].name = n THEN list
    ELSE Append(list, [name |-> n, file |-> n])

\* Faulty: the entry of a removed skill stays.
WithoutEntryKept(list, n) == {list}

\* The list without the entries of name n, in the order they had.
WithoutEntry(list, n) ==
    LET keep == {i \in DOMAIN list : list[i].name # n}
    IN  {[i \in DOMAIN at |-> list[at[i]]] :
            at \in {f \in Bijection(1..Cardinality(keep), keep) :
                       \A i, j \in DOMAIN f : i < j => f[i] < f[j]}}

ReadForLoad(a) ==
    /\ Loading(a) /\ op[a].pc = "reading"
    /\ op' = [op EXCEPT ![a].list = Entries, ![a].pc = "scanning"]
    /\ UNCHANGED <<files, skills, brain, ghosts>>

ReadForRegister(a) ==
    /\ At(a, "register", "reading")
    /\ op' = [op EXCEPT ![a].list = WithEntry(Entries, op[a].name),
                        ![a].pc = "opening"]
    /\ UNCHANGED <<files, skills, brain, ghosts>>

\* An unreadable registry.json is left as it is.
ReadForUnregister(a) ==
    /\ At(a, "unregister", "reading")
    /\ \E rest \in WithoutEntry(Entries, op[a].name) :
           op' = [op EXCEPT ![a].list = rest,
                            ![a].pc = IF reg \in {Absent, Torn} THEN "ending"
                                      ELSE "opening"]
    /\ UNCHANGED <<files, skills, brain, ghosts>>

\* load_all lists the directory; what loads and is not listed gets an entry
\* under the name it declares, and registry.json is rewritten.
Scan(a) ==
    /\ op[a].pc = "scanning"
    /\ LET unlisted == Unlisted(op[a].list)
           added == SetToSeq({[name |-> Declares[disk[n]], file |-> n] :
                                  n \in {u \in unlisted : Loads(u)}})
       IN  op' = [op EXCEPT ![a].list = @ \o added,
                            ![a].pc = IF unlisted = {} THEN "ending"
                                      ELSE "opening"]
    /\ UNCHANGED <<files, skills, brain, ghosts>>

\* _write_registry_json: write_text of registry.json.tmp opens and empties it,
\* then writes it.
OpenTmp(a) ==
    /\ op[a].pc = "opening"
    /\ tmp' = Torn
    /\ op' = [op EXCEPT ![a].fd = "tmp", ![a].pc = "filling"]
    /\ Disturb(a)
    /\ UNCHANGED <<disk, reg, skills, brain, failed, deployed>>

\* What a file holds after list was written over old.
Written(old, list) == IF old = Torn THEN {list} ELSE {list, Torn}

FillTmp(a) ==
    /\ op[a].pc = "filling"
    /\ CASE op[a].fd = "tmp" -> tmp' \in Written(tmp, op[a].list) /\ UNCHANGED reg
         [] op[a].fd = "reg" -> reg' \in Written(reg, op[a].list) /\ UNCHANGED tmp
         [] OTHER -> UNCHANGED <<reg, tmp>>
    /\ op' = [op EXCEPT ![a].fd = "closed", ![a].pc = "replacing"]
    /\ Disturb(a)
    /\ UNCHANGED <<disk, skills, brain, failed, deployed>>

\* What is open as registry.json.tmp becomes registry.json, and what was open
\* as registry.json loses its name.
Renamed(fd) == CASE fd = "tmp" -> "reg" [] fd = "reg" -> "deleted" [] OTHER -> fd

Replace(a) ==
    /\ op[a].pc = "replacing"
    /\ tmp # Absent
    /\ reg' = tmp
    /\ tmp' = Absent
    /\ op' = [b \in Agent |->
                  IF b = a THEN [op[a] EXCEPT !.pc = "ending"]
                  ELSE [op[b] EXCEPT !.fd = Renamed(@)]]
    /\ Disturb(a)
    /\ UNCHANGED <<disk, skills, brain, failed, deployed>>

\* Another process has moved registry.json.tmp away: os.replace raises.
\* unregister_skill swallows it; register_skill does not, nor does load_all,
\* which leaves the agent without skills, or ends a process that is starting.
ReplaceRaises(a) ==
    /\ op[a].pc = "replacing"
    /\ tmp = Absent
    /\ op' = [op EXCEPT ![a] =
                  CASE @.kind = "unregister" -> [@ EXCEPT !.pc = "ending"]
                    [] @.kind = "start" -> Running("start", "reading", Absent, Absent)
                    [] OTHER -> Idle]
    /\ failed' = [failed EXCEPT ![a] = @ \/ op[a].kind = "reload"]
    /\ UNCHANGED <<files, skills, brain, disturbed, deployed>>

\* Every step of an operation but its end.
FileStep(a) ==
    \/ WriteFile(a) \/ Scan(a)
    \/ ReadForLoad(a) \/ ReadForRegister(a) \/ ReadForUnregister(a)
    \/ OpenTmp(a) \/ FillTmp(a) \/ Replace(a)

----------------------------------------------------------------------------
\* Their ends.

\* The files of the list are loaded, and the handler that asked for it (or the
\* start of the agent) rebuilds the brain's tools.
EndLoad(a) ==
    /\ Loading(a) /\ op[a].pc = "ending"
    /\ skills' = [skills EXCEPT ![a] = LoadedFrom(op[a].list)]
    /\ brain' = [brain EXCEPT ![a] = LoadedFrom(op[a].list)]
    /\ failed' = [failed EXCEPT ![a] = FALSE]
    /\ op' = [op EXCEPT ![a] = Idle]
    /\ UNCHANGED <<files, disturbed, deployed>>

\* register_skill loads what the file holds by now; the brain hears of it with
\* the broadcast like everybody else's.
EndRegister(a) ==
    /\ At(a, "register", "ending")
    /\ skills' = IF Loads(op[a].name)
                 THEN [skills EXCEPT ![a][Declares[disk[op[a].name]]] = disk[op[a].name]]
                 ELSE skills
    /\ op' = [op EXCEPT ![a] = Idle]
    /\ UNCHANGED <<files, brain, ghosts>>

\* unregister_skill forgets the skill; the brain keeps its tool.
EndUnregister(a) ==
    /\ At(a, "unregister", "ending")
    /\ skills' = [skills EXCEPT ![a][op[a].name] = Absent]
    /\ op' = [op EXCEPT ![a] = Idle]
    /\ UNCHANGED <<files, brain, ghosts>>

\* switch_model rebuilds the brain from what is loaded.
SwitchModel(a) ==
    /\ IsIdle(a)
    /\ brain' = [brain EXCEPT ![a] = skills[a]]
    /\ UNCHANGED <<files, op, skills, ghosts>>

\* The process ends wherever it is, and its successor starts with a load_all.
Reborn(a) ==
    /\ op' = [op EXCEPT ![a] = Running("start", "reading", Absent, Absent)]
    /\ skills' = [skills EXCEPT ![a] = NoSkills]
    /\ brain' = [brain EXCEPT ![a] = NoSkills]
    /\ failed' = [failed EXCEPT ![a] = FALSE]
    /\ disturbed' = [disturbed EXCEPT ![a] = FALSE]
    /\ UNCHANGED <<files, deployed>>

----------------------------------------------------------------------------
(***************************************************************************)
(* Properties of the registry, whatever composes its operations.           *)
(***************************************************************************)

RegistryTypeOK ==
    /\ disk \in [Name -> Code \cup {Absent, Torn}]
    /\ reg \in Listing /\ tmp \in Listing
    /\ op \in [Agent -> Operation]
    /\ skills \in [Agent -> Loaded] /\ brain \in [Agent -> Loaded]
    /\ failed \in [Agent -> BOOLEAN] /\ disturbed \in [Agent -> BOOLEAN]
    /\ deployed \in [Name -> Code \cup {Absent}]

\* load_all found every skill of the directory, and registry.json lists them.
LoadExact(a) ==
    /\ \A n \in Name : Loads(n) =>
           /\ \E m \in Name : /\ Loads(m) /\ Declares[disk[m]] = Declares[disk[n]]
                              /\ skills'[a][Declares[disk[n]]] = disk[m]
           /\ \E i \in DOMAIN Entries : Entries[i].file = n
    /\ \A k \in Name : skills'[a][k] # Absent =>
           \E m \in Name : disk[m] = skills'[a][k] /\ Declares[disk[m]] = k

\* register_skill wrote the code, listed it and loaded it if it loads.
RegisterExact(a) ==
    /\ disk[op[a].name] = op[a].code
    /\ \E i \in DOMAIN Entries : Entries[i].name = op[a].name
    /\ op[a].code \in Loadable => skills'[a][Declares[op[a].code]] = op[a].code

\* unregister_skill left no file, no entry and no skill of the name.
UnregisterExact(a) ==
    /\ disk[op[a].name] = Absent
    /\ \A i \in DOMAIN Entries : Entries[i].name # op[a].name
    /\ skills'[a][op[a].name] = Absent

\* An operation during which no other process changes a file does what it
\* says and raises nothing, whatever was lost, torn or left behind before by
\* processes that worked at the same time or ended in the middle.
AloneIsExact ==
    [][\A a \in Agent :
           ~ IsIdle(a) /\ op'[a].pc = "idle" /\ ~ disturbed[a] =>
               /\ ~ failed'[a] \/ failed[a]
               /\ Loading(a) => ~ failed'[a] /\ LoadExact(a)
               /\ op[a].kind = "register" => RegisterExact(a)
               /\ op[a].kind = "unregister" => UnregisterExact(a)]_registryVars
=============================================================================

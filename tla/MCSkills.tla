------------------------------ MODULE MCSkills ------------------------------
(* A small instance of Skills for TLC. *)
EXTENDS Skills, TLC

CONSTANTS
    weather, news,   \* names
    v1, v2, broken   \* codes

MCVersions == {v1, v2}
MCCode == {v1, v2, broken}
MCDeclares == [c \in MCCode |-> weather]

\* Agents are interchangeable, and so are two codes with the same constants.
MCSymmetry == Permutations(Agent) \cup Permutations(MCVersions)
=============================================================================

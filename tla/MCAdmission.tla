---------------------------- MODULE MCAdmission ----------------------------
(* A small instance of Admission for TLC. *)
EXTENDS Admission, TLC

CONSTANTS puck, moth, ann, bob

MCAgent == {puck, moth}
MCPerson == {ann, bob}

\* Both agents are in the channel.
MCNone == {}

\* bob is a stranger to both agents.
MCFriends == {puck, moth, ann}
MCPeople == {ann}

\* The messages that ChatterIsBounded is about; a channel with others keeps them.
MCQuiet ==
    \A i \in DOMAIN channel :
        channel[i].by \in Agent => channel[i].text \in {Plain, Command}

\* At most one request is made, and time passes only where there is none.
MCApart ==
    LET waiting == Cardinality({a \in Agent : inbox[a] # <<>>})
    IN  waiting + requests <= 1 /\ (now > 0 => waiting + requests = 0)

MCSymmetry == Permutations(MCAgent)
=============================================================================

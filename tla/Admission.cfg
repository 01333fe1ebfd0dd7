\* Two agents in the channel, a message nobody asked for and a request.
CONSTANTS
    puck = puck
    moth = moth
    ann = ann
    bob = bob
    Agent <- MCAgent
    Away <- MCNone
    Person <- MCPerson
    Nobody = Nobody
    Trusted <- MCFriends
    BotChatLimit = 1
    Calls = 1
    Window = 2
    MaxSpoken = 1
    MaxMessages = 8
    MaxRequests = 1
    MaxTime = 3
SPECIFICATION Spec
INVARIANTS TypeOK WindowLimit ChatterIsBounded
CONSTRAINTS MCQuiet MCApart
SYMMETRY MCSymmetry
CHECK_DEADLOCK FALSE

\* allowed_user_ids has the ids of people only.
CONSTANTS
    puck = puck
    moth = moth
    ann = ann
    bob = bob
    Agent <- MCAgent
    Away <- MCNone
    Person <- MCPerson
    Nobody = Nobody
    Trusted <- MCPeople
    BotChatLimit = 1
    Calls = 1
    Window = 1
    MaxSpoken = 1
    MaxMessages = 6
    MaxRequests = 0
    MaxTime = 0
SPECIFICATION Spec
INVARIANT ChatterIsBounded
CHECK_DEADLOCK FALSE

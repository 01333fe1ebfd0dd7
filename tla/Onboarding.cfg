\* Two agents, the name of one of which ends with that of the other.
CONSTANTS
    puck = puck
    old_puck = old_puck
    telegram = telegram
    discord = discord
    matrix = matrix
    MultiLine = {matrix}
    None = None
    Agent <- MCAgent
    Channel <- MCChannel
    Model = {small, large}
    Ends <- MCEnds
    Template <- MCTemplate
    MaxFlows = 4
    MaxFaults = 1
SPECIFICATION Spec
INVARIANTS TypeOK  SecretsDefined
PROPERTIES OthersUntouched
CHECK_DEADLOCK FALSE

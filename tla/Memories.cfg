CONSTANTS
    Agent <- MCAgent
    Task <- MCTask
    Owner <- MCOwner
    Text = {tide, moon}
    Dim = {d384, d768}
    None = None
    Limit = 2
    MaxPrivate = 1
    MaxRetries = 2
    Earlier <- MCEarlier
    MaxCalls = 2
    MaxStarts = 1
    puck = puck
    moth = moth
    p1 = p1
    p2 = p2
    m1 = m1
SPECIFICATION Spec
INVARIANTS TypeOK HourlyLimit FewCopies VectorsFit AnnouncedIsStored
PROPERTIES NewestKept
SYMMETRY MCSymmetry
CHECK_DEADLOCK FALSE

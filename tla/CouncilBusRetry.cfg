\* The handler of a message fails.
CONSTANTS
    Agent = {puck, moth}
    Sender = {puck}
    Everyone = everyone
    MaxDeliver = 3
    MaxAckPending = 2
    MaxSeen = 3
    MaxStream = 1
    MaxSent = 1
    MaxFailures = 0
SPECIFICATION Spec
INVARIANT FailedIsRetried
CHECK_DEADLOCK FALSE

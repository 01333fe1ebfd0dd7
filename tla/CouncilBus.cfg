\* A message and its answers on consumers that deliver one at a time, with one
\* failure that a reconnect or a restart may be. The bus may fall silent, so
\* deadlock is not checked.
CONSTANTS
    Agent = {puck, moth}
    Sender = {puck}
    Everyone = everyone
    MaxDeliver = 2
    MaxAckPending = 1
    MaxSeen = 1
    MaxStream = 3
    MaxSent = 1
    MaxFailures = 1
SPECIFICATION FairSpec
INVARIANTS TypeOK NothingSkipped OnlyRequestsAnswered
PROPERTIES HandledOnce EveryMessageBegun
CHECK_DEADLOCK FALSE

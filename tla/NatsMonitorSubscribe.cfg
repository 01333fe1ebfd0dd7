\* After an outage, a subscription fails.
CONSTANTS
    Attempts = 1
    MaxConnections = 2
    MaxMonitors = 2
    MaxFailures = 2
SPECIFICATION FairSpec
PROPERTIES Resubscribes
CHECK_DEADLOCK FALSE

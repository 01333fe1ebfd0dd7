\* Three failures: enough for an outage that two monitors notice.
CONSTANTS
    Attempts = 2
    MaxConnections = 4
    MaxMonitors = 3
    MaxFailures = 3
SPECIFICATION FairSpec
INVARIANTS TypeOK MonitorSurvives CleanShutdown
PROPERTIES OutageNoticed
CHECK_DEADLOCK FALSE

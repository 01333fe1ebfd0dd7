\* One job of the personality and two names that only users schedule.
CONSTANTS
    beat = beat
    hello = hello
    note = note
    heartbeat = heartbeat
    memory_review = memory_review
    send_message = send_message
    NoJob = NoJob
    Corrupt = Corrupt
    Name <- MCName
    Action <- MCAction
    AgentOwn <- MCAgentOwn
    Yaml <- MCYaml
SPECIFICATION Spec
INVARIANTS TypeOK ConfirmedJobsRun RemovedStaysRemoved MemoryMatchesFile

\* Two publications, removals or jobs at the same time, and a process that ends
\* in between; both codes declare one name, which is right for one file only.
CONSTANTS
    Agent = {puck, moth}
    Name = {weather, news}
    Code <- MCCode
    Declares <- MCDeclares
    Loadable <- MCVersions
    Valid <- MCVersions
    Passing <- MCVersions
    Absent = Absent
    Torn = Torn
    weather = weather
    news = news
    v1 = v1
    v2 = v2
    broken = broken
    MaxRetries = 0
    MaxCalls = 2
    MaxCrashes = 1
SPECIFICATION Spec
INVARIANTS TypeOK DeployedIsLoaded
PROPERTIES AloneIsExact
SYMMETRY MCSymmetry
CHECK_DEADLOCK FALSE

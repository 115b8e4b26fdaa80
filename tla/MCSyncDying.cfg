SPECIFICATION FairSpec
CONSTANTS
    AppThreads = {app}
    Loop = loop
    Waiters = {w1}
    Policies = {"Immediately", "LiveIndefinitely", "AfterChangesUploaded"}
    Cancel = FALSE
    MaxCommits = 1
    MaxSessions = 1
    MaxDeaths = 2
    MaxResyncs = 0
PROPERTIES DiesOnceUploaded DyingEnds WaitsEnd
CHECK_DEADLOCK FALSE

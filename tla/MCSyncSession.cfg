SPECIFICATION Spec
CONSTANTS
    AppThreads = {app}
    Loop = loop
    Waiters = {w1, w2}
    Policies = {"Immediately", "AfterChangesUploaded"}
    Cancel = TRUE
    MaxCommits = 1
    MaxSessions = 2
    MaxDeaths = 1
    MaxResyncs = 1
SYMMETRY Sym
INVARIANTS SessionIsThere WaitersAreKept WaitsAreAwaited DeathIsAwaited CommitsAreAnnounced
CHECK_DEADLOCK FALSE

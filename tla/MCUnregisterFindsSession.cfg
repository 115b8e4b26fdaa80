SPECIFICATION Spec
CONSTANTS
    AppThreads = {main, worker}
    Loop = loop
    Nobody = nobody
    Policies <- AllPolicies
    MaxSessions = 2
    MaxRefs = 1
INVARIANT UnregisterFindsSession
CHECK_DEADLOCK FALSE

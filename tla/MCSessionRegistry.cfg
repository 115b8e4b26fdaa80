SPECIFICATION FairSpec
CONSTANTS
    AppThreads = {main, worker}
    Loop = loop
    Nobody = nobody
    Policies <- AllPolicies
    MaxSessions = 2
    MaxRefs = 1
INVARIANTS ReferencedIsRegistered LoggedOutIsQuiet RegisteredIsKnown
PROPERTIES CallsEnd
CHECK_DEADLOCK FALSE

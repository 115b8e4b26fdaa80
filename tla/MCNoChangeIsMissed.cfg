SPECIFICATION Spec
CONSTANTS
    Notifier = {n1}
    Touching = {2, 3}
    MaxVersion = 3
INVARIANT NoChangeIsMissed
CHECK_DEADLOCK FALSE

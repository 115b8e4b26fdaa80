SPECIFICATION FairSpec
CONSTANTS
    Notifier = {n1}
    Touching = {2, 3}
    MaxVersion = 3
INVARIANTS Inv DueAgreesWithRead TellsExactly
PROPERTIES DiscardsOnlyWhenMoved SparesOnlyTheAsked ChangesAreTold
CHECK_DEADLOCK FALSE

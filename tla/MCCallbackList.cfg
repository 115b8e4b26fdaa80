\* Four callbacks are added; the Realm's thread, the worker and others meet.
CONSTANTS
    MaxTokens = 4
    Huge = 9
SPECIFICATION FairSpec
INVARIANTS ShortByTheUndone HaveIsExact
PROPERTIES KeepsItsPromise WokenAreCalled
CHECK_DEADLOCK FALSE

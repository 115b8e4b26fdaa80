SPECIFICATION Spec
CONSTANTS
    InitialSize = 3
    MaxSize = 4
    MaxSteps = 4
    ChunkSize = 2
    MaxIndex = 4
    MaxShifted = 3
    PathSize = 3
    Schemas <- MCSchemas
    TableOf <- MCTableOf
INVARIANTS DescribesTheChange ModificationsAreExact MovesAreMoves ResultsAreDescribed IndexSetsAreKept DeepChangesAreFound
CHECK_DEADLOCK FALSE

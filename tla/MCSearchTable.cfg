SPECIFICATION SearchSpec
CONSTANTS
    Pin = {pin1, pin2}
    Text = {empty, a, b}
    NoText = empty
    MaxPins = 2
    MaxResults = 2
    Window = 2
SYMMETRY Symmetry
INVARIANTS VisibleTableHasItsPins AnsweredTableShowsCandidates
PROPERTY AnsweredRowsLead

SPECIFICATION Spec
CONSTANTS
    Scenarios <- MCScenarios
    MaxCalls = 4
    FileSize = 3
    DirSize = 3
    MaxOpen = 2
    Chunk = 2
    AttrSets <- MCAttrSets
    SignBit = 8
    Refusals = {"FAILURE"}
    MaxKeys = 2
    ScpSize = 2
INVARIANTS
    RepliesAreDue
    HandlesInStep
    TransfersAreWhole
PROPERTIES
    CallsReturn
CHECK_DEADLOCK FALSE

SPECIFICATION Spec
CONSTANTS
    MaxStack = 4
    IsVararg = TRUE
    Kits <- MCKits
    MaxBlocks = 6
INVARIANTS
    RunsAsValidated
    SameControl
    SameEffects
CHECK_DEADLOCK FALSE

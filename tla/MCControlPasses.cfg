SPECIFICATION Spec
CONSTANTS
    Locals = {"x", "y", "z", "i"}
    Captured = {"y"}
    Inferred = {"x", "y", "z"}
    Conditional = {"z"}
    Answers = {"nil", "true"}
    MaxAnswers = 4
    MaxLog = 8
    MaxLifted = 2
    MinDenest = 2
    MaxDisjuncts = 4
    MaxGuardCost = 48
    HeavyCondition = 24
    MaxFolds = 32
    MaxChain = 48
    LoopFits = TRUE
    Sources <- BodySources
INVARIANTS
    StaysValid
PROPERTIES
    SameBehaviour
CHECK_DEADLOCK FALSE

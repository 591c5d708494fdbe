SPECIFICATION MCSpec
CONSTANTS
    N = 3
    StateCount = 3
    DispatcherStates = {1, 2, 3}
    DispatcherLocals = {localX}
    localX = localX
    localY = localY
    valueV = valueV
    valueW = valueW
    Nil = Nil
    Closure = Closure
    Functions <- GraphFunctions
    CfgLocals <- GraphLocals
    Values <- GraphValues
INVARIANTS
    AcceptedIsAcyclic
    NoLiveLocalMissed
    NothingHoistedInVain
    ExactlyTheCycles
    DispatcherBehaviour
    SsaBehaviour
PROPERTIES
    RefusedIsCyclic
CHECK_DEADLOCK FALSE

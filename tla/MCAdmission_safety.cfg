CONSTANTS
    Requests = {r1, r2, r3, r4}
    Jobs = 2
    QueueLimit = 1
SPECIFICATION Spec
SYMMETRY RequestSymmetry
INVARIANTS
    TypeOK
    PermitsConserved
    NoLostWakeup
    BodiesBounded
    HoldersMatchPhase

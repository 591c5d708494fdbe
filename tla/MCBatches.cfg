SPECIFICATION MCSpec
CONSTANTS
    Threads = {t1, t2}
    Batches <- AllBatches
    Hint <- ModuleHint
    Stride = 16
    Base = 2
    Word = 2
    MaxEntries = 3
    MaxName = 1
    MaxCode = 2
    Utf8 <- IsText
    Decompile <- DecompileOne
    Bodies <- AllBodies
    Bytecodes = {"a", "bad"}
    Names = {"x", "y"}
    Sizes = {1, 3}
    Length = 4
    Execute <- WorkerExecute
    MaxKeys = 2
    MaxKeyBytes = 4
    Instances = {s1, s2, s3, s4}
    ChunkSize = 3
    MaxAttempts = 3
    Broken = {s2}
INVARIANTS
    AsIfAlone
    IdsUnique
    FailsClosed
    ExactlyTheEncodings
    ResultsInOrder
    SameAsFresh
    OwnAnswer
PROPERTIES
    Answered
CHECK_DEADLOCK FALSE

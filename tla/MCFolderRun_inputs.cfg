CONSTANTS
    a = a  b = b  r1 = r1  r2 = r2
    Runs = {r1}
    Modes <- AllModes
    Scripts = {1, 2}
    Contents = {a, b, blank, junk, note, odd}
    Garbled = {junk}
    Empty = {blank}
    Unliftable = {odd}
    Messages = {note}
    Fallback = {2}
    Hints = {h, k}
    Fingerprint <- Colliding
    Preload = 1
    MaxEdits = 1
    MaxFaults = 1
    MaxKills = 0
    None = None
SPECIFICATION Spec
CHECK_DEADLOCK FALSE
INVARIANTS
    CorpusMatchesSources
    CompleteMeansAll
PROPERTIES
    ZeroMeansDone

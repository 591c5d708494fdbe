CONSTANTS
    a = a  b = b  r1 = r1  r2 = r2
    Runs = {r1, r2}
    Modes <- OneAtMost
    Scripts = {1, 2}
    Contents = {a, b}
    Garbled = {}
    Empty = {}
    Unliftable = {}
    Messages = {}
    Fallback = {}
    Hints = {h}
    Fingerprint <- Colliding
    Preload = 1
    MaxEdits = 1
    MaxFaults = 1
    MaxKills = 1
    None = None
SPECIFICATION FairSpec
CHECK_DEADLOCK FALSE
INVARIANTS
    ManifestVouches
    ProvenanceIsCurrent
PROPERTIES
    EveryRunEnds
    ExportNeverReplaces

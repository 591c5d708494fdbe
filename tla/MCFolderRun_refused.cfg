CONSTANTS
    a = a  b = b  r1 = r1  r2 = r2
    Runs = {r1, r2}
    Modes <- PlainAndAnalysis
    Scripts = {1, 2}
    Contents = {a}
    Garbled = {}
    Empty = {}
    Unliftable = {}
    Messages = {}
    Fallback = {}
    Hints = {h}
    Fingerprint <- Colliding
    Preload = 1
    MaxEdits = 0
    MaxFaults = 1
    MaxKills = 0
    None = None
SPECIFICATION Spec
CHECK_DEADLOCK FALSE
PROPERTIES
    RefusedLeavesManifest

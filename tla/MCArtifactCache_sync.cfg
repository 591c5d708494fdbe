CONSTANTS
    t1 = t1  t2 = t2  t3 = t3
    a = a  b = b  c = c
    s1 = s1
    Threads = {w1, w2}
    Tasks = {t1, t2, t3}
    Keys = {a, b, c}
    Stripes = {s1}
    KeyOf <- TwoSame
    StripeOf <- OneStripe
    Size <- Sizes
    Oversized = {}
    MaxBytes = 3
    CountLimit = 2
    SyncMayFail = TRUE
    MaxCrashes = 1
    None = None
SPECIFICATION Spec
INVARIANTS
    DiskWithinLimits

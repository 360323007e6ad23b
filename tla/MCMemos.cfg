SPECIFICATION Spec
CONSTANTS
    a1 = a1
    v1 = v1
    v2 = v2
    k1 = k1
    k2 = k2
    r1 = r1
    r2 = r2
    Accounts = {a1}
    Viewers = {v1, v2}
    Keys = {k1, k2}
    Writes <- StarOrAll
    Slots = {r1, r2}
    MaxEntries = 2
    MaxPerAccount = 2
    HasTtlFor = TRUE
    MaxReads = 3
    MaxVersion = 1
    MaxFaults = 1
SYMMETRY Symmetry
INVARIANTS WrittenIsSeen OwnAnswer CountsTrue
CHECK_DEADLOCK FALSE

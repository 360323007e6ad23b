SPECIFICATION Spec
CONSTANTS
    k1 = k1
    k2 = k2
    Keys = {k1, k2}
    AccountOf <- Owner
    Whole <- Lengths
    MaxTotal = 2
    MaxEntry = 2
    MaxReading = 2
    MaxReadingPerAccount = 1
    q1 = q1
    q2 = q2
    Requests = {q1, q2}
    MaxLapses = 2
INVARIANTS OneRead WholeOrBroken NoneLeftAsleep
SYMMETRY Symmetry
\* The requests, presses, lapses and faults of an instance run out.
CHECK_DEADLOCK FALSE

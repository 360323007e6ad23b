SPECIFICATION Spec
CONSTANTS
    r1 = r1
    r2 = r2
    Slots = {r1, r2}
    LoginKeys <- Unknown
    Limit <- Limits
    StepMaxAttempts = 1
    MaxSteps = 1
    RecoveryCount = 1
    Near = {1, 2}
    MaxMade = 4
    MaxLapses = 1
INVARIANTS OnceEach GuessesBounded FactorGiven FactorRemembered
SYMMETRY Symmetry
\* The requests, presses, lapses and faults of an instance run out.
CHECK_DEADLOCK FALSE

SPECIFICATION Spec
CONSTANTS
    Slots = {r1, r2}
    PageSize = 2
    OldPlays = 3
    MaxPlays = 4
    MaxAsked = 2
    MaxFaults = 2
INVARIANTS PlayedOnce ImportWhole
SYMMETRY Symmetry
\* The plays, requests and faults of an instance run out.
CHECK_DEADLOCK FALSE

SPECIFICATION Spec
CONSTANTS
    Members = {m}
    o = o
    a = a
    b = b
    Songs = {o, a, b}
    Own <- OneOwn
    MaxAdded = 3
    MaxAddedPerMember = 2
    MaxSeq = 2
    MaxPipe = 3
    Faults = {"drop", "fail", "reload", "crash"}
    MaxTurns = 1
PROPERTIES Converges Arrives
\* The additions, faults and moves of an instance run out.
CHECK_DEADLOCK FALSE

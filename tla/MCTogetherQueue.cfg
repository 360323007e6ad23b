SPECIFICATION Spec
CONSTANTS
    Members = {m}
    o = o
    a = a
    b = b
    Songs = {o, a, b}
    Own <- TwoOwn
    MaxAdded = 3
    MaxAddedPerMember = 2
    MaxSeq = 2
    MaxPipe = 3
    Faults = {"drop", "fail", "late", "reload"}
    MaxTurns = 2
VIEW Pages
SYMMETRY SongSymmetry
INVARIANTS NoneLost OnceEach OnlyTakenBack MarksTrue InOrder
PROPERTY Promised
\* The additions, faults and moves of an instance run out.
CHECK_DEADLOCK FALSE

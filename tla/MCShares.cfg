SPECIFICATION ShareSpec
CONSTANTS
    a1 = a1
    a2 = a2
    u1 = u1
    u2 = u2
    l1 = l1
    r1 = r1
    r2 = r2
    r3 = r3
    Sharers = {a1, a2}
    ByNameAlone = {a2}
    Users = {u1, u2}
    Links = {l1}
    Calls = {r1, r2, r3}
    MaxActiveShares = 1
    NotMade = NotMade
SYMMETRY Symmetry
INVARIANTS DeadLinksSilent OwnersLibrary
CHECK_DEADLOCK FALSE

SPECIFICATION Spec
CONSTANTS
    Tokens = {s1, s2, s3}
    Requests = {r1}
    Ops = {o1, o2}
    MaxSessions = 2
    None = None
    MaxPassword = 1
SYMMETRY SessionSymmetry
INVARIANTS EndedForgotten CacheCurrent StreamsCut BornUnderCredential NoPairing

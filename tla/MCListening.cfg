SPECIFICATION Spec
CONSTANTS
    Accounts = {ann, bob}
    Changing = {ann}
    Peers = {p1, p2}
    Apps = {app}
    Songs = {song}
    Names = {n1, n2}
    None = None
    MaxPeers = 2
    MaxApps = 1
    Ops = {o1, o2}
    MaxMade = 4
INVARIANTS KnownTrue ShownByChoice ListsCurrent
SYMMETRY Symmetry
\* The requests, presses, lapses and faults of an instance run out.
CHECK_DEADLOCK FALSE

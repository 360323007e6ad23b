SPECIFICATION Spec
CONSTANTS
    host = host
    other = other
    guest = guest
    alice = alice
    bob = bob
    Sessions = {host, other, guest}
    Accounts = {alice, bob}
    Account <- AccountOf
    Server <- ServersApart
    Requests = {r1, r2}
    Streams = {g1, g2}
    Parties = {p1, p2}
    MaxListeners = 1
    MaxStreams = 1
    MaxParties = 1
    MaxAdded = 2
    MaxAddedPerMember = 1
    Public = {public}
    Private = {}
    None = None
    MaxEnds = 1
SYMMETRY PartySymmetry
INVARIANTS NamesLeave EndsWhenSignedOut OnlyOwnStreamsShutOut RemovedStaysOut NamesAreTheirs

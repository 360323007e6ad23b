SPECIFICATION PlayerSpec
CONSTANTS
    s1 = s1
    s2 = s2
    s3 = s3
    Songs = {s1, s2, s3}
    NoSong = NoSong
    Restored <- Two
    Other <- Album
    RecoveryAttempts = 1
    SkipLimit = 1
    Last = 1
    Presses = {"album", "toggle", "pause", "next", "previous", "seek", "jump", "remove",
               "move", "add", "playNext", "repeat", "sleep", "clear", "addition"}
    MaxPresses = 2
    MaxFaults = 1
VIEW Roles
INVARIANTS HeardIsShown PauseHolds OneTrackHeard NoGroundLost NothingLeftWaiting
\* The requests, presses, lapses and faults of an instance run out.
CHECK_DEADLOCK FALSE

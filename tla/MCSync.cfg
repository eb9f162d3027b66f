SPECIFICATION DataSpec
CONSTANTS
    Stamps = {0, 600}
    Durations = {20, 40}
    Speeds = {2, 4, 8, 260}
    Step = 40
    MaxTime = 40
    MaxFrames = 2
    MaxCalls = 2
CHECK_DEADLOCK FALSE
 
INVARIANT PacingKept

SPECIFICATION Spec
CONSTANTS
    FileEnd = 4
    KeyFrames = {0, 2}
    Targets <- TargetsAndBad
    QueueSize = 2
    FrameSize = 2
    MaxSeeks = 2
    SeekFails = TRUE
INVARIANT SeekExact

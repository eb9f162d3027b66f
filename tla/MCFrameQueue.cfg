SPECIFICATION FairSpec
CONSTANTS
    w = w
    r1 = r1
    r2 = r2
    Writer = w
    Readers = {r1, r2}
    Sizes = {1, 2, 3}
    KeepLast = FALSE
    MaxFrames = 4
INVARIANT WriterOwnsSlot
INVARIANT NoLostWakeup
INVARIANT ClearRemovesOlder
PROPERTY ImplementsChannel
PROPERTY StopTerminates

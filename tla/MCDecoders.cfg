SPECIFICATION DecodersSpec
CONSTANTS
    Configs <- MCConfigs
    Streams <- MCStreams
    Capacity = 2
    MaxFrames = 2
    MaxContexts = 3
    MaxHeld = 2
INVARIANT BufferedBeforeDecode
PROPERTY WaitersReleased
INVARIANT LoopHasCodec
INVARIANT KeyFrameFirst
PROPERTY StopReturns
INVARIANT ContextOwned

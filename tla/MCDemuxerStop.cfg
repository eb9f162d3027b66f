SPECIFICATION FairSpec
CONSTANTS
    Capacity = 1
    FileEnd = 1
    Seeks = {0}
    Kinds = {"file"}
    LoopModes <- LoopNever
    LoopBound = 1
PROPERTY StopTerminates

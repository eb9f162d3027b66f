SPECIFICATION DemuxerRun
CONSTANTS
    p1 = p1
    c1 = c1
    c2 = c2
    data = data
    end = end
    none = none
    NoPacket = none
    Producers = {p1}
    Consumers = {c1, c2}
    Packets <- MCPackets
    ValidPackets <- MCValid
    SizeOf <- MCSizeOf
    DurationOf <- MCDurationOf
    Capacities = {1}
    MaxSerial = 3
    Capacity = 2
    FileEnd = 2
    Seeks = {1}
    Kinds = {"file", "live"}
    LoopModes <- LoopOnce
    LoopBound = 1
INVARIANT FileOrder
INVARIANT PausedFileStops
 

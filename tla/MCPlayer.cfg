SPECIFICATION PlayerSpec
CONSTANTS
    BufferCount = 3
    GapLimit = 2
    MaxFrames = 4
    DeviceKinds = {"d3d11", "dxva2"}
    Renderers = {"r1", "r2"}
CHECK_DEADLOCK FALSE
INVARIANT ShownIsWhole
INVARIANT InteropOpen
INVARIANT FilesKept
PROPERTY BuffersFlow

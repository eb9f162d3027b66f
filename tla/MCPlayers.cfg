SPECIFICATION PlayersSpec
CONSTANTS
    MaxTasks = 2
    MaxReconnects = 1
    MaxPictures = 3
    Players = {p1, p2}
    Urls = {u1, u2}
    MaxWorkers = 2
    Kinds = {"yuv", "nv12"}
    Sounds = {"s16"}
    MaxPosted = 2
SYMMETRY Symmetry
CHECK_DEADLOCK FALSE
INVARIANT PlayersServed
INVARIANT Released
INVARIANT StateTrue

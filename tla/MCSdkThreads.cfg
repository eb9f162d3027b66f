SPECIFICATION ThreadsSpec
CONSTANTS
    MaxAttempts = 2
    MaxErrors = 2
    Urls = {u1, u2}
    NoUrl = NoUrl
    Threads = {"main", "demux"}
    Main = "main"
    MaxEvents = 3
CHECK_DEADLOCK FALSE
INVARIANT OneThread
INVARIANT CancelSettles
 
INVARIANT ClosedStaysClosed
 
PROPERTY EventsInOrder

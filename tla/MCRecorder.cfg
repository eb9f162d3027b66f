SPECIFICATION FairSpec
CONSTANTS
    Callers = {app, reconnect}
    Recorders = {app}
    Inputs <- MCInputs
    Capacity = 2
    Num = 5
    Den = 1
    Extensions = {"mp4", "avi", "txt"}
    NoPts = NoPts
    NoCaller = NoCaller
    MaxRecordings = 2
INVARIANT OneFile
INVARIANT FilePlays
PROPERTY MutexReleased

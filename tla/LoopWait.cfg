CONSTANTS
    Others = {"t1", "t2"}
    Fds = {"fd1", "fd2"}
    NotifyFd = "fd2"
    Backends = {"condition-variable", "poll", "event", "message"}
    MaxSources = 2
    MaxPosts = 2
    MaxRequests = 2
    MaxRegistrations = 2
    MaxInput = 2
    MaxWatchers = 2
    MaxSignals = 3
SPECIFICATION Spec
INVARIANTS WakeIsNotLost RequestsAreKept
PROPERTIES CallsWhatWasPolled LoopIsReached
CHECK_DEADLOCK FALSE

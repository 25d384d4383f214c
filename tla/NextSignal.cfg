CONSTANTS
    Others = {"t1"}
    Fds = {"fd1", "fd2"}
    NotifyFd = "fd2"
    Backends = {"poll"}
    MaxSources = 2
    MaxPosts = 1
    MaxRequests = 0
    MaxRegistrations = 0
    MaxInput = 1
    MaxWatchers = 1
    MaxSignals = 2
SPECIFICATION Spec
INVARIANT NextSignalKills
CHECK_DEADLOCK FALSE

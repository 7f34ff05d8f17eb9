\* Two clients share one descriptor, two workers, peers hang up, exceptions escape.
CONSTANTS
    Conns = {c1, c2}
    Fds = {f1}
    Workers = {w1, w2}
    Acceptor = Acceptor
    None = None
    CloseFreesFd = TRUE
    MaxEvents = 4
    MaxHeader = 1
    PipeCapacity = 1
    ReadChunk = 1
    MaxUnread = 1
SPECIFICATION Spec
PROPERTIES HandOverCompletes ArrivalIsServed ShutdownCompletes
\* The server rests when it has stopped, or all its threads wait.
CHECK_DEADLOCK FALSE

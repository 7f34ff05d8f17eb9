\* One client sends two requests at once.
CONSTANTS
    Conns = {c1}
    Fds = {f1}
    Workers = {w1}
    Acceptor = Acceptor
    None = None
    CloseFreesFd = TRUE
    MaxEvents = 3
    MaxHeader = 2
    PipeCapacity = 1
    ReadChunk = 1
    MaxUnread = 2
SPECIFICATION Spec
PROPERTY EveryRequestIsTaken
\* The server rests when it has stopped, or all its threads wait.
CHECK_DEADLOCK FALSE

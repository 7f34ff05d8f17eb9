\* The server of withSsl: close() is SSLStream's.
CONSTANTS
    Conns = {c1, c2}
    Fds = {f1, f2}
    Workers = {w1}
    Acceptor = Acceptor
    None = None
    CloseFreesFd = FALSE
    MaxEvents = 4
    MaxHeader = 1
    PipeCapacity = 1
    ReadChunk = 1
    MaxUnread = 1
SPECIFICATION Safety
INVARIANT NoLeak
\* The server rests when it has stopped, or all its threads wait.
CHECK_DEADLOCK FALSE

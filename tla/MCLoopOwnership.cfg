\* Two clients and two workers; epoll_wait reports two of up to four events,
\* and a pipe is full after one byte.
CONSTANTS
    Conns = {c1, c2}
    Fds = {f1, f2}
    Workers = {w1, w2}
    Acceptor = Acceptor
    None = None
    CloseFreesFd = TRUE
    MaxEvents = 2
    MaxHeader = 1
    PipeCapacity = 1
    ReadChunk = 1
    MaxUnread = 1
SPECIFICATION Safety
INVARIANTS OneOwner NoLeak StreamIsExclusive NoneForgotten EventIsOfItsClient ShutdownServesAll
SYMMETRY Interchangeable
\* The server rests when it has stopped, or all its threads wait.
CHECK_DEADLOCK FALSE

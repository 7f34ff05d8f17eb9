\* Two clients watched at once that never hang up.
CONSTANTS
    Conns = {c1, c2}
    Fds = {f1, f2}
    Workers = {w1}
    Acceptor = Acceptor
    None = None
    CloseFreesFd = TRUE
    MaxEvents = 4
    MaxHeader = 1
    PipeCapacity = 1
    ReadChunk = 1
    MaxUnread = 1
SPECIFICATION PatientSpec
PROPERTIES ImplementsParts ArrivalIsServed
\* The server rests when it has stopped, or all its threads wait.
CHECK_DEADLOCK FALSE

\* Three workers, two distinct tasks and up to three of them queued: workers
\* are idle, busy and exited at the same time while sentinels are pushed.
CONSTANTS
    Workers = {w1, w2, w3}
    Tasks = {t1, t2}
    Null = Null
    MaxQueued = 3
SPECIFICATION Spec
INVARIANTS SentinelsLast NothingLeftBehind
PROPERTIES ImplementsPool StopReturns
\* The executor rests when it is stopped or the process has terminated.
CHECK_DEADLOCK FALSE

\* Two producers, as the return channel has with two workers.  The pipe holds
\* three bytes and four can be due, so bytes are dropped; a read takes two, so
\* bytes are left behind.
CONSTANTS
    Producers = {p1, p2}
    Items = {a, b}
    PipeCapacity = 3
    ReadChunk = 2
    MaxQueued = 2
SPECIFICATION Spec
INVARIANTS NoLostWakeup DrainedAtStop
PROPERTY ImplementsHandoff
\* After the shutdown signal the channel rests.
CHECK_DEADLOCK FALSE

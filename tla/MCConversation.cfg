\* Two clients: one waits for each response, one makes two requests at once.
SPECIFICATION Spec
CONSTANTS
    Kinds <- AllKinds
    MaxRequests = 3
    Windows = {1, 2}
    Transports = {"plain", "tls"}
    MaxHeader = 4
    ResponseSize = 2
    SendSpace = 4
INVARIANTS
    NoByteLost
    BodyOfItsRequest
    WireIsFramed
PROPERTIES
    ImplementsDialogue
    EveryRequestIsAnswered
\* The conversation may end.
CHECK_DEADLOCK FALSE

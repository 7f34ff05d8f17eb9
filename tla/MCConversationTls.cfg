\* One request after the other, over TLS.
SPECIFICATION Safety
CONSTANTS
    Kinds <- AllKinds
    MaxRequests = 2
    Windows = {1}
    Transports = {"tls"}
    MaxHeader = 6
    ResponseSize = 2
    SendSpace = 2
INVARIANT
    BodyIsNotCutShort
\* The conversation may end.
CHECK_DEADLOCK FALSE

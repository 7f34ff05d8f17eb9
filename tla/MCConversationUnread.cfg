\* One request after the other.
SPECIFICATION Safety
CONSTANTS
    Kinds <- AllKinds
    MaxRequests = 2
    Windows = {1}
    Transports = {"plain"}
    MaxHeader = 6
    ResponseSize = 2
    SendSpace = 2
INVARIANT
    HeaderHasNoBody
\* The conversation may end.
CHECK_DEADLOCK FALSE

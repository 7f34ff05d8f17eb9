\* The parts as in MCParts.cfg; the shortest counterexample is a response.
CONSTANTS
    Consumers = {c1, c2}
    Blocks = {b1, b2, b3}
    Pool = {b1}
    BlockSize = 2
    MaxItems = 5
    None = None
    Characters <- SmallCharacters
    MethodTexts <- SmallMethodTexts
    UriTexts <- SmallUriTexts
    VersionTexts <- SmallVersionTexts
    KeyTexts <- SmallKeyTexts
    ValueTexts <- SmallValueTexts
    MaxFields = 2
    Methods = {"GET", "POST"}
    Unsupported = {"PATCH"}
    GetMethod = "GET"
    AddedUris <- SmallAddedUris
    Resolvers = {"r1", "r2"}
    RequestedUris <- SmallRequestedUris
    MaxAdded = 2
    BodyBytes = {"a", "b"}
    Nul = "NUL"
    Behind <- SmallBehind
    MaxBody = 3
    Builders = {"b1", "b2"}
    Ports = {"http", "other"}
    PortOf <- SmallPortOf
    ThreadCounts <- SmallThreadCounts
    PeerTexts <- SmallPeerTexts
    Token <- SmallToken
    Injected <- SmallInjected
    ChunkSize = 3
    MaxLeftover = 2
    Givers = {"t1", "t2"}
    Takers = {"t2", "t3"}
    Nodes = {"n1", "n2"}
    Null = "null"
SPECIFICATION PartsSpec
INVARIANT NothingIsCutOff
CHECK_DEADLOCK FALSE

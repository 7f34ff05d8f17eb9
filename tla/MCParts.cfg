\* Task queue: blocks of two slots, one in the pool and two that are allocated and destroyed;
\* five items reach a third block, which is one that was given back or a new one, while a
\* slow consumer may still be in the first.
CONSTANTS
    Consumers = {c1, c2}
    Blocks = {b1, b2, b3}
    Pool = {b1}
    BlockSize = 2
    MaxItems = 5
    None = None
    Characters <- SmallCharacters
    MethodTexts <- SmallMethodTexts
    UriTexts <- SmallUriTexts
    VersionTexts <- SmallVersionTexts
    KeyTexts <- SmallKeyTexts
    ValueTexts <- SmallValueTexts
    MaxFields = 2
    Methods = {"GET", "POST"}
    Unsupported = {"PATCH"}
    GetMethod = "GET"
    AddedUris <- SmallAddedUris
    Resolvers = {"r1", "r2"}
    RequestedUris <- SmallRequestedUris
    MaxAdded = 2
    BodyBytes = {"a", "b"}
    Nul = "NUL"
    Behind <- SmallBehind
    MaxBody = 3
    Builders = {"b1", "b2"}
    Ports = {"http", "other"}
    PortOf <- SmallPortOf
    ThreadCounts <- SmallThreadCounts
    PeerTexts <- SmallPeerTexts
    Token <- SmallToken
    Injected <- SmallInjected
    ChunkSize = 3
    MaxLeftover = 2
    Givers = {"t1", "t2"}
    Takers = {"t2", "t3"}
    Nodes = {"n1", "n2"}
    Null = "null"
SPECIFICATION PartsSpec
INVARIANTS
    PartsTypeOK
    SemaphoreBalances TokenIsAnItem BlockIsKept
    ReadsWhatWasWritten
    FoundIsRight NothingMissed
    BodyArrives
    SocketOfOneServer NoPlainAfterSsl PlainRestarts
    ReturnsUpToToken
    NoBlockIsLost PopIsFresh
PROPERTIES
    ImplementsFifo
    ParsingEnds TurnsOnlyForOthers
\* Nothing is left to do when every item has been taken, every text parsed.
CHECK_DEADLOCK FALSE

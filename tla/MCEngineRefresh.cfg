CONSTANTS
    None = None
    NoLimit = NoLimit
    Prices <- MCPrices
    Side = "SELL"
    Quantity = 3
    Streams <- RefreshStreams
    StartTime = 0
    Deadline = 5
    OrderLatency = 0
    ResponseLatency = 1
    Model = "refresh_touched"
    LimitPrice = NoLimit
    MaxReceiveAge = None
    MaxStateAge = None
    MaxBuffer = 1
    Timeout = 2
    MaxRequests = 2
    ReadLatency = 0
    SnapshotLatency = 1
    Slices = 3
    CatchUp = FALSE
    MaxCost = None
    FeeBps = 0
    ReferencePrice = 2
    MaxDeliveries = 6
SPECIFICATION Spec
INVARIANTS
    LocalIsMarket
    KnownDepthFollows

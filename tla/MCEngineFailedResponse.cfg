CONSTANTS
    None = None
    NoLimit = NoLimit
    Prices <- MCPrices
    Side = "BUY"
    Quantity = 1
    Streams <- RecoveryStreams
    StartTime = 0
    Deadline = 5
    OrderLatency = 1
    ResponseLatency = 0
    Model = "persistent_debit"
    LimitPrice = NoLimit
    MaxReceiveAge = None
    MaxStateAge = None
    MaxBuffer = 1
    Timeout = 2
    MaxRequests = 3
    ReadLatency = 0
    SnapshotLatency = 1
    Slices = 1
    CatchUp = FALSE
    MaxCost = None
    FeeBps = 0
    ReferencePrice = 2
    MaxDeliveries = 5
SPECIFICATION Spec
PROPERTY
    FailedResponseWaits

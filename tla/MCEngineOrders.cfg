CONSTANTS
    None = None
    NoLimit = NoLimit
    Prices <- MCPrices
    Side = "BUY"
    Quantity = 6
    Streams <- OrderStreams
    StartTime = 0
    Deadline = 6
    OrderLatency = 3
    ResponseLatency = 2
    Model = "persistent_debit"
    LimitPrice = 2
    MaxReceiveAge = 2
    MaxStateAge = 3
    MaxBuffer = 1
    Timeout = 3
    MaxRequests = 0
    ReadLatency = None
    SnapshotLatency = 0
    Slices = 3
    CatchUp = TRUE
    MaxCost = 4000
    FeeBps = 100
    ReferencePrice = 2
    MaxDeliveries = 5
SPECIFICATION Spec
INVARIANTS
    TypeOK
    KnowsOnlyReports
    NeverAheadOfSchedule
    Reconciled
PROPERTIES
    LedgerContract

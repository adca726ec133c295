CONSTANTS
    None = None
    NoLimit = NoLimit
    Prices <- MCPrices
    Side = "BUY"
    Quantity = 6
    FeeBps = 100
    ReferencePrice = 2
    MaxCost = 7000
    LimitPrice = 3
    StartTime = 0
    Deadline = 6
    OrderLatency = 3
    Slices = 3
    CatchUp = TRUE
    Streams <- MCStreams
    MaxBookAge = 3
SPECIFICATION Spec
INVARIANTS
    AllSettled
    CatchUpCompletes
PROPERTIES
    GatedAsQuoted
    LedgerContract

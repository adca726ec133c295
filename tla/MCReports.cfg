CONSTANTS
    NoLimit = NoLimit
    Prices <- MCPrices
    Side = "SELL"
    Quantity = 4
    Stream <- MCStream
    Sizes <- MCSizes
    LimitPrice = NoLimit
    MaxChildren = 2
SPECIFICATION Spec
INVARIANTS
    BelievesReports
    KnownDepthFollows

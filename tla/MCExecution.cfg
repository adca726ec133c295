CONSTANTS
    None = None
    Prices <- MCPrices
    Side = "SELL"
    Quantity = 4
    NoLimit = None
    Changes <- MCChanges
    Sizes <- MCSizes
    Limits <- MCLimits
    MaxChildren = 3
SPECIFICATION HistorySpec
INVARIANTS
    NeverOversold
    DepthIsRawLessDebits
    NoLevelOverdrawn
PROPERTY
    BestPriceFirst

CONSTANTS
    NoLimit = NoLimit
    Prices <- MCPrices
    Side = "BUY"
    Quantity = 4
    FeeBps = 50
    ReferencePrice = 2
    Changes <- MCChanges
    Sizes <- MCSizes
    Limits <- MCLimits
    MaxChildren = 2
SPECIFICATION ChildSpec
INVARIANT
    ShortfallAddsUp
PROPERTY
    ExecutesAtomically

CONSTANTS
    Prices <- MCPrices
    Messages <- HonestMessages
    History <- MCHistory
    MaxBuffer = 2
    Timeout = 2
    MaxTime = 3
    None = None
SPECIFICATION Spec
INVARIANTS
    TypeOK
    PublishedChain
    TrueToSource
    BufferBounded
PROPERTIES
    OnlyNewsRefreshes

CONSTANTS
    Prices <- MCPrices
    Messages <- MCMessages
    History <- MCHistory
SPECIFICATION Spec
INVARIANTS
    TypeOK
    ValidCoversOffered
    TrueToSource
PROPERTY
    VersionsMoveForward

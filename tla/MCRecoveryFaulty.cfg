CONSTANTS
    Prices <- MCPrices
    Messages <- FaultyMessages
    History <- MCHistory
    MaxBuffer = 1
    Timeout = 2
    MaxTime = 3
    None = None
SPECIFICATION Spec
INVARIANTS
    ValidAtHighWater
    ClockRunsWhileInvalid
PROPERTIES
    NeverRollsBack
    SnapshotRescues
    EpisodeClockMoves
    KeepsContract

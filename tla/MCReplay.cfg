CONSTANTS
    None = None
    Prices <- MCPrices
    Messages <- MCMessages
    History <- NoHistory
    Recordings <- MCRecordings
SPECIFICATION ReplaySpec
INVARIANT
    AnswersAreCausal

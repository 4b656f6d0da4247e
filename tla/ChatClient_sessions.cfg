CONSTANTS
    MaxRetries = 2
    MaxPrompts = 3
    MaxSessions = 3
SPECIFICATION FairSpec
INVARIANTS PerfLedger Conversation ShownIsActive
PROPERTY PromptAnswered

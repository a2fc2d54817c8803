SPECIFICATION TurnSpec
CONSTANTS
    MaxItems = 5
    Budget = {0, 4, 6}
    Reserve = 1
    ToolsCost = 1
    Dialect = {"openai", "unindexed", "anthropic", "gemini", "ollama"}
    MaxPieces = 4
    MaxCalls = 2
INVARIANTS
    HistoryIsWhole
    AnswerIsProper
    StreamingIsNoDifferent
PROPERTIES
    FollowsGrammar
\* A turn ends with the answer.
CHECK_DEADLOCK FALSE

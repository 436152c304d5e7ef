SPECIFICATION FairSpec
CONSTANTS
    t1 = t1
    t2 = t2
    u1 = u1
    u2 = u2
    c1 = c1
    v1 = v1
    v2 = v2
    Turn = {t1, t2}
    User = {u1, u2}
    Conv = {c1}
    Poster <- Posters
    Video = {v1, v2}
    IdChar <- Letters
    ChunkId = {"x", "y", "z"}
    VideoOf <- Videos
    StartOf <- Starts
    ToolAnswers <- Answers
    Deltas <- Pieces
    MaxHoldback = 8
    MaxPerTurn = 1
    MaxSources = 1
    MaxTokens <- Tokens
    MaxCalls <- Calls
    MaxFailures = 1
    ProviderObeys = TRUE
    None = None
INVARIANTS
    MessagesHaveAHome
    StoredIsWhatWasSaid
    StoredSourcesWereShown
    SourcesTellWhatWasRead
PROPERTIES
    TurnEnds
CHECK_DEADLOCK FALSE

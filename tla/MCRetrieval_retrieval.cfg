SPECIFICATION SpecBounded
CONSTANTS
    User = {u1}
    Request = {r1, r2}
    MaxChanges = 2
    MaxOutages = 1
    K = 6
    MaxTopK = 3
    Overfetch = 2
    DefaultTopK = 3
    Video = {"v1", "v2"}
    Source <- OneLesson
    Talk <- FiveThenTwo
    PerVideo = 2
    Window = 1
    MaxMatches = 1
    MaxCalls = 2
    MaxTurns = 1
    MaxChars = 3
    TitleLen = 1
    WPM = 2
    MaxText = 7
    MaxSegments = 2
    Times = {0, 1, 2}
    Grain = 6
    MaxSub = 3
    Ranked = {1, 2, 3}
INVARIANTS
    LessonsForPayersOnly
    SpansTellTheVideo
    MergeIsFair
    ChunksTellTheTalk
PROPERTY FlagSettles
CHECK_DEADLOCK FALSE

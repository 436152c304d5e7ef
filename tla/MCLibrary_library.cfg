SPECIFICATION Spec
CONSTANTS
    c1 = c1
    c2 = c2
    d1 = d1
    Op = {o1, o2}
    Kinds = {"sync", "cron", "force", "add", "resync", "delete", "json", "url", "lessons"}
    RowId = {v1, v2, v3}
    Clip = {c1, c2}
    Wanted = {c1}
    Channel <- TwoVideos
    LessonFiles <- OneLesson
    Editions = {1, 2, 3}
    Blanks <- BlankThird
    Parts = 2
    Reader = {q1}
    None = None
    Faults = {"supadata", "fetch", "empty", "embed", "store", "db", "death"}
    MaxFailures = 2
SYMMETRY Symmetry
INVARIANTS
    NoHalfReplace
    RunsAddUp
    IngestedIsWhole
    HashMeansStored
    CatalogKnowsAnnounced
PROPERTIES
    StaysWhole
    SweepBringsEdition
CHECK_DEADLOCK FALSE

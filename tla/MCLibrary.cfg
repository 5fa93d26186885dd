SPECIFICATION Spec
CONSTANTS
    Owners = {"ann", "bob"}
    Slots = {r1, r2}
    r1 = r1
    r2 = r2
    MaxRequests = 4
    MinNote <- MCMinNote
    MaxNote = 3
    NotepadLimit = 2
    ContentLimit = 2
    EditLimit = 1
    Sources = {"git", "mirror"}
    Entries = {"e1", "e2"}
    Inlined = {"git"}
    MaxRow = 4
    MaxVersion = 1
    Ttl = 1
    FetchAttempts = 2
    FetchTicks = 1
    PageMax = 2
    Seeds <- MCSeeds
INVARIANTS
    ReferencesHold
    CatalogueIsRecent
    WalkMissesNothing
    CleanBackupRestores
    QuotaHolds
CHECK_DEADLOCK FALSE

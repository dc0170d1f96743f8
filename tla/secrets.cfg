SPECIFICATION SecretsSpec
CONSTANTS
    s1 = s1
    None = None
    Noise = Noise
    Secret = {s1}
    Reorders = TRUE
    MaxKeys = 2
    WordSize = 2
    PageWords = 4
    DefaultWords = 12
    Waste = 2
    Slots = 2
    SlotWords = 12
    PoolItems = 2
    PoolCount = 2
    Length = {1, 13, 24}
    Threads = 1
    MaxOp = 2
    MaxEvents = 3
    Text = {"", "x"}
    Blank = ""
    Paranoid = FALSE
    ClosesAlone = TRUE
    AsksAfterClose = FALSE
    AsksInCallback = TRUE
CHECK_DEADLOCK FALSE
INVARIANTS
    PasswordsAreTyped
    ReadsWhatWasSent
    CellsTile
PROPERTIES
    ImplementsHeap
    QuestionsEnd

SPECIFICATION FairSpec
CONSTANTS
    Turns = {t1}
    Callers = {}
    Streams = {s1}
    Kinds = {"chat", "codex"}
    Remote = FALSE
    Waits = FALSE
    Window = 1
    MaxSeq = 2
    MaxLives = 2
    MaxRestarts = 1
INVARIANTS
    TypeOK
    ChatIsPersisted
    ReadersMissNothing
PROPERTIES
    StoredIsFinal
    LogSpec
    ListedIsDrained
    StoredIsDelivered

SPECIFICATION Spec
CONSTANTS
    Turns = {t1}
    Callers = {c1}
    Streams = {}
    Kinds = {"fx", "pi"}
    Remote = TRUE
    Waits = TRUE
    Window = 1
    MaxSeq = 2
    MaxLives = 1
    MaxRestarts = 0
INVARIANTS
    CursorIsLastRow

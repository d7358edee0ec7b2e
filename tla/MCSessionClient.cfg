SPECIFICATION Spec
CONSTANTS
    Kinds = {"text", "block"}
    MaxSeq = 2
    MaxLives = 2
    Budgets <- SafetyBudgets
INVARIANTS NothingTwice NothingMissing PersistedIsShown HeldIsUncommitted
PROPERTIES NoStaleList
CHECK_DEADLOCK FALSE

SPECIFICATION Spec
CONSTANTS
    Kinds = {"text"}
    MaxSeq = 2
    MaxLives = 1
    Budgets <- PromptBudgets
PROPERTY RewindMeansRestart
CHECK_DEADLOCK FALSE

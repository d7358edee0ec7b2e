SPECIFICATION FairSpec
CONSTANTS
    Kinds = {"text"}
    MaxSeq = 2
    MaxLives = 1
    Budgets <- LivenessBudgets
PROPERTIES StoppedBecomesIdle ActiveCatchesUp
CHECK_DEADLOCK FALSE

SPECIFICATION Spec
CONSTANTS
    t1 = t1
    t2 = t2
    t3 = t3
    None = None
    Texts = {t1, t2, t3}
    Overlaps = {}
    Budgets <- SteerBudgets
INVARIANT SteersShownOnce
CHECK_DEADLOCK FALSE

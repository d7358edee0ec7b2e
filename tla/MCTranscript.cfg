SPECIFICATION Spec
CONSTANTS
    t1 = t1
    t2 = t2
    t3 = t3
    None = None
    Texts = {t1, t2, t3}
    Overlaps <- MCOverlaps
    Budgets <- MCBudgets
INVARIANTS ShownOnce DeliveredIsShown RepliesAnswer QueueConverges
CHECK_DEADLOCK FALSE

\* One payout whose job may stall once, as in BullMQ's defaults.
SPECIFICATION Spec
CONSTANTS
    p1 = p1
    p2 = p2
    k1 = k1
    k2 = k2
    Payout = {p1}
    Live = {p1}
    Poll = {k1}
    Runs = 2
    Batch = 1
INVARIANT
    ProcessedOnce
CHECK_DEADLOCK FALSE

\* Two payouts or two polls, a batch of one, and BullMQ's two starts of a job.
SPECIFICATION FewSpec
CONSTANTS
    p1 = p1
    p2 = p2
    k1 = k1
    k2 = k2
    Payout = {p1, p2}
    Live = {p1, p2}
    Poll = {k1, k2}
    Runs = 2
    Batch = 1
INVARIANT
    PaidPerStart
PROPERTIES
    KeepsContract
    DecidedForGood
CHECK_DEADLOCK FALSE

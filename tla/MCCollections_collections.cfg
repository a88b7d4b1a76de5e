\* An invoice with two attempts or an order beside it, one or two transfers.
SPECIFICATION FewSpec
CONSTANTS
    a1 = a1
    a2 = a2
    o1 = o1
    t1 = t1
    t2 = t2
    h1 = h1
    h2 = h2
    inv = inv
    None = None
    Order = {a1, a2, o1}
    Invoice = {inv}
    For <- MCFor
    Transfer = {t1, t2}
    Handler = {h1, h2}
    Deliveries = 2
    Tries = 2
INVARIANTS
    TypeOK
    CreditedOnce
    PaidIsCredited
    OneRecentAttempt
PROPERTIES
    AcceptedIsCredited
    CreditedIsReconciled
CHECK_DEADLOCK FALSE

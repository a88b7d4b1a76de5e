\* Two servers run the cron over two days, one of which it may miss.
SPECIFICATION SharedSpec
CONSTANTS
    c1 = c1
    c2 = c2
    c3 = c3
    v1 = v1
    v2 = v2
    main = main
    None = None
    Amount <- Kobo
    MaxGross = 4
    MaxFee = 6
    MaxParts = 3
    Payment = {c1, c2}
    Account = {}
    Cron = {v1, v2}
    Starts = 1
    LastDay = 2
INVARIANTS
    SharesAddUp
    SharesAreFair
PROPERTY
    DeferredIsTried
CHECK_DEADLOCK FALSE

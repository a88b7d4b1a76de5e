\* Every setting of the business, changed and changed again as it collects.
SPECIFICATION FewSpec
CONSTANTS
    c1 = c1
    c2 = c2
    c3 = c3
    v1 = v1
    v2 = v2
    main = main
    None = None
    Amount <- Kobo
    Payment = {c1, c2, c3}
    Account = {main}
    Cron = {v1}
    Starts = 1
    LastDay = 1
INVARIANTS
    TypeOK
    BooksAgree
PROPERTY
    QueuedIsFinal
CHECK_DEADLOCK FALSE

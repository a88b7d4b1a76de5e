\* One event.
SPECIFICATION FairSpec
CONSTANTS
    Event = {e1}
    Window = 1
    LastHour = 2
    Attempts = 3
PROPERTY
    FailedIsRetried
CHECK_DEADLOCK FALSE

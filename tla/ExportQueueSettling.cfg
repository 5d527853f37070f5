CONSTANTS
    a = a
    b = b
    c = c
    Jobs <- Both
    Outputs <- TwoOutputs
    OutputOf <- OutputOfApart
    PolicyOf <- PolicyOfBoth
    InFlightCapacity = 1
    HistoryCapacity = 1
SPECIFICATION SettlingSpec
PROPERTIES
    CancellationsEnd
    ShutdownEndsWorker
    PendingIsTaken
CHECK_DEADLOCK FALSE

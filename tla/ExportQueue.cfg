CONSTANTS
    a = a
    b = b
    c = c
    Jobs <- Both
    Outputs <- OneOutput
    OutputOf <- OutputOfBoth
    PolicyOf <- PolicyOfBoth
    InFlightCapacity = 2
    HistoryCapacity = 1
SPECIFICATION Spec
INVARIANTS
    QueueTypeOK
    WorkerHoldsItsAttempt
    VerdictsMatchDisk
    AcceptedCancellationHolds
    YieldedUsesNothing
    ReleasedReceiptIsTrue
    NoMissedWakeup
PROPERTIES
    ImplementsAttempts
CHECK_DEADLOCK FALSE

SPECIFICATION Spec
CONSTANTS
    Worker = {w1, w2}
    Request = {r1, r2, r3}
    QueueSize = 1
    None = None
    Deanonymizing = {r2}
PROPERTY
    StopReturns
CHECK_DEADLOCK FALSE

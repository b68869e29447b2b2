SPECIFICATION Spec
CONSTANTS
    Worker = {w1, w2}
    Request = {r1, r2, r3}
    QueueSize = 1
    None = None
    Deanonymizing = {r2}
INVARIANTS
    TypeOK
    AwaitedItemInOnePlace
    StopAbandonsOnlyQueuedWork
    AnsweredIsNotPending
PROPERTY
    EveryRequestAnswered
CHECK_DEADLOCK FALSE

SPECIFICATION Spec
CONSTANTS
    s1 = s1
    s2 = s2
    Requests = 6
    SystemOf <- MCSystemOf
    Unparsable = {3}
    Unwritable = {5}
    MaxConcurrent = 4
    BatchSize = 2
    None = None
INVARIANTS
    TypeOK
    RequestAccountedFor
    ConcurrencyBounded
    AnonymizeAnswersAll
PROPERTY
    StreamEnds
CHECK_DEADLOCK FALSE

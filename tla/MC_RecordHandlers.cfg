SPECIFICATION HandlerSpec
CONSTANTS
    s1 = s1
    k1 = k1
    k2 = k2
    v1 = v1
    v2 = v2
    email = email
    phone = phone
    h1 = h1
    h2 = h2
    System = {s1}
    Token <- MCToken
    Blob <- SealedBlob
    AnonymizeHandlers = {h1}
    DeanonymizeHandlers = {h2}
    MaxItems = 2
    Call <- MCCall
    MaxAttempts = 1
    Index = {1, 2}
    NotFound = NotFound
    EncKey = {k1, k2}
    Text = {v1, v2}
    TextLength <- MCTextLength
    Field = {email, phone}
    Nested = {phone}
    Prefix = {NoPrefix}
    NoPrefix = NoPrefix
    Null = Null
    Broken = Broken
    NotADict = NotADict
    NoConfig = NoConfig
    NoTask = NoTask
    AnonymizeCalls <- MCCall
    DeanonymizeCalls <- MCCall
    Policies <- MCPolicies
    Records <- MCRecords
    Lists <- MCLists
    Foreign = {}
    Unparsable = Unparsable
    Wide = {v2}
    Deep = {v2}
    NoRequest = NoRequest
    AnonymizeRequests <- MCAnonymizeRequests
INVARIANTS
    HandlerTypeOK
    ResultsBelongToTheirRecords
    ErrorsHaveReasons
    RestoredRecordsAreOriginal
PROPERTIES
    EveryRequestAnswered
    ImplementsTokenizer
CHECK_DEADLOCK FALSE

SPECIFICATION Spec
CONSTANTS
    s1 = s1
    s2 = s2
    k1 = k1
    k2 = k2
    v1 = v1
    v2 = v2
    email = email
    phone = phone
    pE = pE
    c1 = c1
    c2 = c2
    c3 = c3
    System = {s1, s2}
    Token <- MCToken
    Blob <- SealedBlob
    Call = {c1, c2, c3}
    MaxAttempts = 1
    Index = {1, 2}
    NotFound = NotFound
    EncKey = {k1, k2}
    Text = {v1, v2}
    TextLength <- MCTextLength
    Field = {email, phone}
    Nested = {phone}
    Prefix = {pE, NoPrefix}
    NoPrefix = NoPrefix
    Null = Null
    Broken = Broken
    NotADict = NotADict
    NoConfig = NoConfig
    NoTask = NoTask
    AnonymizeCalls = {c1, c2}
    DeanonymizeCalls = {c3}
    Policies <- MCPolicies
    Records <- MCRecords
    Lists <- MCLists
    Foreign <- MCForeign
INVARIANT
    ErrorRecordsUnmodified
CHECK_DEADLOCK FALSE

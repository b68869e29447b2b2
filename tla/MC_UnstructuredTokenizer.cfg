SPECIFICATION Spec
CONSTANTS
    s1 = s1
    s2 = s2
    k1 = k1
    k2 = k2
    w = w
    low = low
    u = u
    b = b
    n = n
    c1 = c1
    c2 = c2
    c3 = c3
    System = {s1, s2}
    Token <- MCToken
    Blob <- SealedBlob
    Call = {c1, c2, c3}
    MaxAttempts = 1
    Index = {1, 2, 3, 4}
    NotFound = NotFound
    EncKey = {k1, k2}
    Text <- MCText
    TextLength <- MCTextLength
    Blank = {b}
    SymbolLength <- MCSymbolLength
    PatternType = {"AFM_GR", "UUID"}
    MatchesOf <- MCMatchesOf
    NoModel = NoModel
    Unset = Unset
    Char = {w, low, u, b, n}
    WordChar = {w, low, n}
    Joiner = u
    NoConfig = NoConfig
    NoTask = NoTask
    AnonymizeCalls = {c1, c2}
    DeanonymizeCalls = {c3}
    Policies <- MCPolicies
    Texts <- MCTexts
    NerAnswers <- MCNerAnswers
    Foreign <- MCForeign
SYMMETRY Symmetry
INVARIANTS
    TypeOK
    ResolutionIsLongestFirst
    ReplacedInPlace
    TextValuesRecoverable
    RestoreInvertsAnonymize
    RestoredTextIsOfSystem
PROPERTIES
    AnsweredTokensAreFound
CHECK_DEADLOCK FALSE

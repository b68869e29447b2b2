SPECIFICATION Spec
CONSTANTS
    s1 = s1
    s2 = s2
    r1 = r1
    r2 = r2
    Thread = {t1, t2}
    System = {s1, s2}
    KeyRef = {r1, r2}
    EncKey = {k1, k2}
    Unset = Unset
    Policies <- MCPolicies
    Invalid = Invalid
    NoPolicy = NoPolicy
INVARIANT
    LastLoadInForce

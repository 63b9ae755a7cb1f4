SPECIFICATION Spec
CONSTANTS
    c1 = c1
    c2 = c2
    t1 = t1
    r1 = r1
    r2 = r2
    r3 = r3
    Requests = {q1, q2}
    Clients = {c1}
    Types = {t1}
    Keys = {k1}
    Rules = {r1, r2}
    RuleClient <- MCRuleClient1
    RuleType <- MCRuleType1
    UnknownType = UnknownType
    NoKey = NoKey
    None = None
    MaxInFlight = 2
    MaxFaults = 0
    MaxEdits = 0
SYMMETRY Symmetry
INVARIANTS OneJobPerKey
CHECK_DEADLOCK FALSE

SPECIFICATION Spec
CONSTANTS
    c1 = c1
    c2 = c2
    t1 = t1
    r1 = r1
    r2 = r2
    r3 = r3
    Requests = {q1, q2}
    Clients = {c1, c2}
    Types = {t1}
    Keys = {k1}
    Rules = {r1, r2, r3}
    RuleClient <- MCRuleClient
    RuleType <- MCRuleType
    UnknownType = UnknownType
    NoKey = NoKey
    None = None
    MaxInFlight = 2
    MaxFaults = 1
    MaxEdits = 3
SYMMETRY Symmetry
INVARIANTS TypeOK SameAnswer RepeatCreatesNothing AcceptedMeansQueued AnswerStaysWithClient
CHECK_DEADLOCK FALSE

SPECIFICATION Spec
CONSTANTS
    N = 1
    Deliveries <- MCDeliveries
    Workers = {w1}
    Recoverers = {r1}
    MaxAttempts = 1
    MaxStalled = 1
    BatchSize = 1
    MaxFaults = 0
    Unlocked = Unlocked
    Answers <- MCAnswers
PROPERTIES FailedIsFinal
CHECK_DEADLOCK FALSE

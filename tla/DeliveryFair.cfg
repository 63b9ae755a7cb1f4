SPECIFICATION FairSpec
CONSTANTS
    N = 1
    Deliveries <- MCDeliveries
    Workers = {w1}
    Recoverers = {r1}
    MaxAttempts = 2
    MaxStalled = 0
    BatchSize = 1
    MaxFaults = 2
    Unlocked = Unlocked
    Answers <- MCAnswers
PROPERTIES PendingIsSettled
CHECK_DEADLOCK FALSE

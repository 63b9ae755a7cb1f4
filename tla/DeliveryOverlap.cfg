SPECIFICATION Spec
CONSTANTS
    N = 1
    Deliveries <- MCDeliveries
    Workers = {w1, w2}
    Recoverers = {r1, r2}
    MaxAttempts = 2
    MaxStalled = 1
    BatchSize = 1
    MaxFaults = 2
    Unlocked = Unlocked
    Answers <- MCAnswers
SYMMETRY Symmetry
INVARIANTS TypeOK SentMeansAccepted OneCopyPerFault CompletedMeansSettled PendingIsInHand
PROPERTIES SentIsFinal FollowsLifecycle
CHECK_DEADLOCK FALSE

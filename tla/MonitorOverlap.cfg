SPECIFICATION FairSpec
CONSTANTS
    Ticks = {t1, t2}
    Logs = {l1}
    Threshold = 1
INVARIANTS TypeOK
PROPERTIES OneAlertPerSpike CountIsOfRecentFailures FieldSettles SpikeIsFlagged
CHECK_DEADLOCK FALSE

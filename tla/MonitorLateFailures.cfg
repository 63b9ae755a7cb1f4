SPECIFICATION Spec
CONSTANTS
    Ticks = {t1}
    Logs = {l1, l2}
    Threshold = 2
PROPERTIES SpikeIsCounted
CHECK_DEADLOCK FALSE

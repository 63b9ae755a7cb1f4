SPECIFICATION FairSpec
CONSTANTS
    Ticks = {t1, t2}
    Logs = {}
    Threshold = 1
PROPERTIES RedisOutageIsNoticed
CHECK_DEADLOCK FALSE

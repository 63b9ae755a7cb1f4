\* Three calls of tryAcquire in two seconds; the watchdog with two faults.
SPECIFICATION GuardsSpec
CONSTANTS
    Calls = {a1, a2, a3}
    Max = 1
    Second = 2
    EndOfTime = 4
    MaxLosses = 1
    MaxFaults = 2
INVARIANTS GuardsTypeOK AllowedPerBucket  ToldMatchesFile
PROPERTIES OutageIsTold LaterOutageIsTold
CHECK_DEADLOCK FALSE

\* The count of worker processes that run_managed.py and BLUE_GREEN.md state.
SPECIFICATION Spec
CONSTANTS
    Pair = {p1, p2}
    NoPair = NoPair
    Seed = 1
    Compiled = {1}
    MaxRevision = 3
    Burst = 3
    MaxFaults = 1
INVARIANT AtMostTwoWorkers
CHECK_DEADLOCK FALSE

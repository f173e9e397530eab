\* Every course of one visitor around a cutover; freshness is the shortest
\* duration, and retention is challenge and grant together, as in the code.
SPECIFICATION Spec
CONSTANTS
    Visitor = {v1}
    ChallengeTtl = 4
    GrantTtl = 4
    Retain = 8
    Quiet = 4
    FreshFor = 2
    HandlerSeconds = 2
    MaxGap = 2
    LatestCutover = 1
    MaxTime = 11
INVARIANTS UploadsFinish RemainderBounded
CHECK_DEADLOCK FALSE

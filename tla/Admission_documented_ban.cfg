\* Three failures less than a window apart, the first of them in an older window.
SPECIFICATION BanSpec
CONSTANTS
    IP = {a}
    NoIp = NoIp
    Request = {r1, r2}
    OpClass = {}
    Cap <- MCCap
    Period <- MCPeriod
    MaxInFlight = 2
    MaxPerIp = 2
    MaxTracked = 1
    FailureLimit = 3
    FailureWindow = 2
    BanSeconds = 2
    SweepInterval = 1
    IdleFloor = 2
    IdleSlack = 1
    HandlerSeconds = 0
    MaxSkew = 0
    MaxTime = 5
SYMMETRY Symmetry
INVARIANT DocumentedBan

\* One address; the instants cover two failure windows, a ban and a prune.
SPECIFICATION BanSpec
CONSTANTS
    IP = {a}
    NoIp = NoIp
    Request = {r1, r2}
    OpClass = {"upload"}
    Cap <- MCCap
    Period <- MCPeriod
    MaxInFlight = 2
    MaxPerIp = 2
    MaxTracked = 1
    FailureLimit = 2
    FailureWindow = 2
    BanSeconds = 2
    SweepInterval = 1
    IdleFloor = 2
    IdleSlack = 1
    HandlerSeconds = 0
    MaxSkew = 1
    MaxTime = 4
SYMMETRY Symmetry
INVARIANTS RepeatedFailuresBan
PROPERTIES BanServed

\* Two addresses compete for one table entry and two permits over five instants,
\* with every refill and prune on the way.
SPECIFICATION BudgetSpec
CONSTANTS
    IP = {a, b}
    NoIp = NoIp
    Request = {r1, r2, r3}
    OpClass = {"download"}
    Cap <- OneCap
    Period <- MCPeriod
    MaxInFlight = 2
    MaxPerIp = 1
    MaxTracked = 1
    FailureLimit = 1
    FailureWindow = 1
    BanSeconds = 1
    SweepInterval = 1
    IdleFloor = 2
    IdleSlack = 2
    HandlerSeconds = 0
    MaxSkew = 1
    MaxTime = 4
SYMMETRY Symmetry
INVARIANTS TypeOK LeaseAccounting PermitAccounting TableBound BudgetConserved

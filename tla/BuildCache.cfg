\* A prepared worker and two that take uploads, two faults.
SPECIFICATION FairSpec
CONSTANTS
    Worker = {w1, w2, w3}
    Prepared = {w1}
    NoWorker = NoWorker
    MaxFaults = 2
INVARIANTS OneBuilder JobKeepsOwners ServedIsVerified
PROPERTIES JobsEnd

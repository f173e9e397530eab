\* Restarting after a fault between package and sidecar.
SPECIFICATION FairSpec
CONSTANTS
    Worker = {w1}
    Prepared = {w1}
    NoWorker = NoWorker
    MaxFaults = 1
PROPERTIES RestartReuses
CHECK_DEADLOCK FALSE

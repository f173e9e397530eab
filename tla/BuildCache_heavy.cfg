\* The single heavy task, against a worker stopped while it prepares.
SPECIFICATION Spec
CONSTANTS
    Worker = {w1, w2}
    Prepared = {w1, w2}
    NoWorker = NoWorker
    MaxFaults = 1
INVARIANTS OneHeavyTask

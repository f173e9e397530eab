\* Two pairs, revisions up to five, four faults anywhere.
SPECIFICATION FairSpec
CONSTANTS
    Pair = {p1, p2}
    NoPair = NoPair
    Seed = 1
    Compiled = {1, 3}
    MaxRevision = 5
    Burst = 3
    MaxFaults = 4
INVARIANTS CounterCovers OldDrainsFirst DiskIsBootable RoutesMatch
PROPERTIES VersionNeverReused NoSelfInflictedOutage ServiceRecovers
CHECK_DEADLOCK FALSE

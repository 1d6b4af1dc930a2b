CONSTANTS
    Capacity = 2
    ServerMax = 2
    Invalid = {3}
    UplinkFaults = {"outage", "disk", "kill", "age"}
    MaxEvents = 3
SPECIFICATION UplinkFairSpec
INVARIANTS EventsAccounted RepeatsAreUnsettled DiskBounded OldestGivenUp
PROPERTIES ReplayedInOrder FilesLeave

\* One process, every fault of the disk and the machine, and somebody who edits the file.
CONSTANTS
    service = service
    Process = {service}
    Faults = {"power", "kill", "short", "sync", "tamper"}
    MaxAppends = 3
    MaxFaults = 3
SPECIFICATION FairSpec
INVARIANTS
    AckedKept
    ChainIntact
    TamperingShows
PROPERTIES
    TornIsRepaired
    ImplementsAppendOnly
CHECK_DEADLOCK FALSE

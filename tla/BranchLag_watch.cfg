\* A task that owns a file and depends on another, with every kind of change and fault once.
CONSTANTS
    t1 = t1  file = file  lib = lib
    Task = {t1}
    Path = {file, lib}
    ScopeInputs <- Scopes
    MaxCommits = 2
    MaxTips = 1
    MaxScopeEdits = 1
    MaxHandBacks = 1
    MaxFaults = 1
    MaxCrashes = 1
    NoEntry = NoEntry
    NoTask = NoTask
SPECIFICATION FairSpec
INVARIANTS
    CacheNeverLies
PROPERTIES
    
    SettlesToTruth

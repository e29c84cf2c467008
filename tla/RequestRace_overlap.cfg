\* Two requests on each of the engines.
CONSTANTS
    t1 = t1  t2 = t2  parent = parent  alice = alice  bob = bob  srcs = srcs  file = file
    Request = {r1, r2}
    Task = {t1, t2, parent}
    User = {alice, bob}
    Pattern = {srcs, file}
    Overlap <- Overlapping
    ScopeOf <- Scopes
    SubtasksOf <- Family
    Scenarios <- Everyday
    Nobody = Nobody
SPECIFICATION Spec
INVARIANTS
    WinnersApart
    SomebodyWins
    ChecksStillHold
    SiblingsCloseParent
PROPERTIES
    Answered
\* Every request answered is where it ends.
CHECK_DEADLOCK FALSE

\* A family whose child may come to wait for a third task, created later, or to be
\* its parent; one place in the claim bucket.
CONSTANTS
    t1 = t1  t2 = t2  t3 = t3
    alice = alice  bob = bob  ci = ci
    board = board  other = other
    kanban = kanban  second = second
    todo = todo  doing = doing  finished = finished
    todo2 = todo2  finished2 = finished2
    srcs = srcs  file = file
    NoUser = NoUser  NoBucket = NoBucket
    Task = {t1, t2, t3}
    User = {alice}
    Project <- OneProject
    Pattern = {file}
    Overlap <- Overlapping
    Notifiable = {}
    StaleAfter = 0
    AutoReleaseAfter = 0
    MaxIdle = 0
    RelationKind <- TaskRelations
    View <- OneView
    Bucket <- OneViewBuckets
    ProjectOf <- OneViewProjectOf
    ViewOf <- OneViewOf
    DefaultBucket <- OneDefault
    LeftmostBucket <- OneDefault
    DoneBucket <- OneDone
    ClaimBucket <- OneClaim
    Limit <- LimitDoing
    ReceiptBot <- NoReceipts
    Repeating = {}
    Ops = {}
    AutoComplete = TRUE
    Seed = {t1, t2}
    SeedProject = board
    SeedRelations <- SmallFamily
    RelationInputs <- RelateThird
    ScopeInputs = {{file}}
    ClaimTargets = {doing}
    MoveTargets = {}
SPECIFICATION Spec
INVARIANTS
    
    DoneHoldsNoLease
    DoneMatchesBucket
    Mirrored
    AcyclicPerKind
PROPERTIES
    LeasedOnlyUnblocked
    ParentsClose

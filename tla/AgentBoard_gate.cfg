\* The receipt gate and the move between projects: board is gated by CI, other is not;
\* a parent, and its child for operations.
CONSTANTS
    t1 = t1  t2 = t2  t3 = t3
    alice = alice  bob = bob  ci = ci
    board = board  other = other
    kanban = kanban  second = second
    todo = todo  doing = doing  finished = finished
    todo2 = todo2  finished2 = finished2
    srcs = srcs  file = file
    NoUser = NoUser  NoBucket = NoBucket
    Task = {t1, t2}
    User = {alice, ci}
    Project <- TwoProjects
    Pattern = {file}
    Overlap <- Overlapping
    Notifiable = {}
    StaleAfter = 0
    AutoReleaseAfter = 0
    MaxIdle = 0
    RelationKind <- TaskRelations
    View <- TwoViews
    Bucket <- TwoViewBuckets
    ProjectOf <- TransferProjectOf
    ViewOf <- TwoViewOf
    DefaultBucket <- TwoDefault
    LeftmostBucket <- TwoDefault
    DoneBucket <- TwoDone
    ClaimBucket <- TwoClaim
    Limit <- NoLimit
    ReceiptBot <- BoardGatedByCI
    Repeating = {}
    Ops = {t2}
    AutoComplete = TRUE
    Seed = {t1, t2}
    SeedProject = board
    SeedRelations <- SmallFamily
    RelationInputs <- NoRelations
    ScopeInputs = {{file}}
    ClaimTargets = {doing}
    MoveTargets = {board, other}
SPECIFICATION Spec
INVARIANTS
    LeasesFollowTask
PROPERTIES
    GateHolds

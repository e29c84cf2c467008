\* Two tasks whose scopes overlap, the second a repeating one that the first may come to
\* wait for, two people, one view, and the cron that tells one of
\* them and takes leases from the silent.
CONSTANTS
    t1 = t1  t2 = t2  t3 = t3
    alice = alice  bob = bob  ci = ci
    board = board  other = other
    kanban = kanban  second = second
    todo = todo  doing = doing  finished = finished
    todo2 = todo2  finished2 = finished2
    srcs = srcs  file = file
    NoUser = NoUser  NoBucket = NoBucket
    Task = {t1, t2}
    User = {alice, bob}
    Project <- OneProject
    Pattern = {file, srcs}
    Overlap <- Overlapping
    Notifiable = {alice}
    StaleAfter = 1
    AutoReleaseAfter = 1
    MaxIdle = 2
    RelationKind <- TaskRelations
    View <- OneView
    Bucket <- OneViewBuckets
    ProjectOf <- OneViewProjectOf
    ViewOf <- OneViewOf
    DefaultBucket <- OneDefault
    LeftmostBucket <- OneDefault
    DoneBucket <- OneDone
    ClaimBucket <- OneClaim
    Limit <- NoLimit
    ReceiptBot <- NoReceipts
    Repeating = {t2}
    Ops = {}
    AutoComplete = FALSE
    Seed = {t1, t2}
    SeedProject = board
    SeedRelations <- NoRelations
    RelationInputs <- RelateBlocker
    ScopeInputs <- ScopesApart
    ClaimTargets = {doing}
    MoveTargets = {}
SPECIFICATION FairSpec
INVARIANTS
    LeaseExclusion
    OneHolder
    LeasesMirrorScope
PROPERTIES
    CronSparesActive
    OverdueFreed
    ImplementsLeaseBook

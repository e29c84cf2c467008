\* Two processes and every request.
CONSTANTS
    serve = serve  shell = shell
    ann = ann  bot = bot
    t1 = t1  t2 = t2
    tree1 = tree1  tree2 = tree2
    db1 = db1  db2 = db2
    Worker = {ann, bot}
    Task = {t1, t2}
    Checkout = {tree1, tree2}
    Database = {db1, db2}
    Port = {1, 2}
    Caller = {serve, shell}
    Process = {serve, shell}
    ProcessOf <- Owner
    Config <- Listed
    CheckoutOf <- TwoTrees
    NoCaller = NoCaller
    NoAnswer = NoAnswer
    NoRequest = NoRequest
SPECIFICATION FairSpec
INVARIANTS
    NeverDoubleAssigned
    PromisesHold
PROPERTIES
    LockComesFree
    ImplementsPoolBook

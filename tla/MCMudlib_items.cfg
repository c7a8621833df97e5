\* Two accounts with one apple each, never used twice at once: two tiles and
\* a wall, one clone, one restart.
SPECIFICATION Spec
CONSTANTS
    wade = wade
    xx = xx
    nobody = nobody
    apple = apple
    water = water
    MaxConns = 2
    Websockets = {1}
    Accounts <- BothAccounts
    NoAccount = nobody
    FileOrder <- BothInOrder
    Fields = {"nickname"}
    Kinds = {apple, water}
    Resolvable = {apple}
    Width = 3
    Height = 1
    Walls <- EastWall
    BootFile <- TwoCarriers
    Commands = {"login", "quit", "go", "get", "drop", "clone", "reloadJSON", "preloadCache", "shutdown"}
    SingleLogin = TRUE
    MaxGround = 3
    MaxClones = 1
    MaxRestarts = 1
INVARIANTS
    TypeOK
    NothingToLose
PROPERTIES
    NoDuplication
CHECK_DEADLOCK FALSE

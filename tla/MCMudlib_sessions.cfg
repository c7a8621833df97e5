\* Three connections, two of them browsers, on two accounts; any account may
\* be used twice at once. One apple may be put down.
SPECIFICATION Spec
CONSTANTS
    wade = wade
    xx = xx
    nobody = nobody
    apple = apple
    water = water
    MaxConns = 3
    Websockets = {1, 3}
    Accounts <- BothAccounts
    NoAccount = nobody
    FileOrder <- BothInOrder
    Fields = {"nickname"}
    Kinds = {apple}
    Resolvable = {apple}
    Width = 1
    Height = 1
    Walls = {}
    BootFile <- AdminAndNewcomer
    Commands = {"login", "set", "finish", "quit", "drop", "priv"}
    SingleLogin = FALSE
    MaxGround = 1
    MaxClones = 0
    MaxRestarts = 0
INVARIANTS
    AliasLive
    CacheCoherent
CHECK_DEADLOCK FALSE

\* A second connection mistypes the password of an account that is in use.
SPECIFICATION Spec
CONSTANTS
    wade = wade
    xx = xx
    nobody = nobody
    apple = apple
    water = water
    MaxConns = 2
    Websockets = {1}
    Accounts <- BothAccounts
    NoAccount = nobody
    FileOrder <- BothInOrder
    Fields = {"nickname"}
    Kinds = {apple, water}
    Resolvable = {apple}
    Width = 3
    Height = 1
    Walls <- EastWall
    BootFile <- TwoCarriers
    Commands = {"login", "quit"}
    SingleLogin = TRUE
    MaxGround = 3
    MaxClones = 0
    MaxRestarts = 0
INVARIANT TalkDelivers
CHECK_DEADLOCK FALSE

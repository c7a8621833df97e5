\* Two browsers and the clock; replies of one message and of two.
SPECIFICATION FairSpec
CONSTANTS
    b1 = b1
    b2 = b2
    timer = timer
    none = none
    Browsers <- TheBrowsers
    Others <- TheOthers
    Nobody <- none
    Lengths = {1, 2}
INVARIANTS OnlyRepliesCollide SameOrder
PROPERTY MuReturns
CHECK_DEADLOCK FALSE

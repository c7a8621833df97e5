\* A telnet player is in the game when a browser connects.
SPECIFICATION FairSpec
CONSTANTS
    b1 = b1
    t1 = t1
    Timer = timer
    Nobody = nobody
    Conns = {b1, t1}
    Websockets = {b1}
    Present = {t1}
    Departures = TRUE
    MaxSends = 1
PROPERTIES
    EveryInputProcessed
CHECK_DEADLOCK FALSE

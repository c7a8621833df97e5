\* A browser, a telnet connection and the clock; everybody comes and goes, and
\* a script may send twice.
SPECIFICATION FairSpec
CONSTANTS
    b1 = b1
    t1 = t1
    Timer = timer
    Nobody = nobody
    Conns = {b1, t1}
    Websockets = {b1}
    Present = {}
    Departures = TRUE
    MaxSends = 2
INVARIANTS
    TypeOK
    SessionsHaveClients
    SendFinds
    RoomIsCurrent
PROPERTIES
    ImplementsRegistry
    OnlyCrossingStops
CHECK_DEADLOCK FALSE

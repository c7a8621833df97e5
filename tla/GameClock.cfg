\* The clock of a whole day, two reloads, a shutdown at any time.
SPECIFICATION FairClock
CONSTANTS
    NoHandle = none
    MaxTimers = 3
INVARIANTS
    ClockTypes
PROPERTIES
    PhaseOrder
    DayGoesOn
CHECK_DEADLOCK FALSE

----------------------------- MODULE GameClock -----------------------------
(***************************************************************************)
(* The clock of the game: the interval that cache.js starts, the timers    *)
(* that setInterval and clearInterval keep in Go, and the phase of the day *)
(* that is announced to everybody when it changes.                         *)
(*                                                                         *)
(* A tick is one script.  Module Server shows when a tick may have to wait *)
(* for the isolate; here it is available.                                  *)
(***************************************************************************)
EXTENDS Integers

CONSTANTS
    NoHandle,   \* timeIntervalId before the first setInterval
    MaxTimers   \* bound on the calls of setInterval

ASSUME ClockAssumption == MaxTimers \in Nat \ {0} /\ NoHandle \notin Int

VARIABLES
    timeInterval,    \* the heartbeat of the day
    currentTime,     \* the phase last announced
    timeIntervalId,  \* what the last setInterval returned
    timerID,         \* the id of the next timer
    timers,          \* the keys of the map of timers: Go type and number
    tickers,         \* the timers whose goroutine runs
    stopped,         \* those whose ticker was stopped by clearInterval
    shutdown         \* ShutdownChan is closed

clock == <<timeInterval, currentTime>>
timing == <<timeIntervalId, timerID, timers, tickers, stopped>>
clockVars == <<clock, timing, shutdown>>

magnification == 60
maxHB == 86400 \div magnification
Phases == {"midnight", "morning", "noon", "afternoon", "night"}

Hour(n) == ((n * magnification * 24) \div 86400) % 24

\* The first bound left out: no morning
MutPhase(hour) == CASE hour \in 4 .. 13 -> "noon"
                    [] hour \in 14 .. 17 -> "afternoon"
                    [] hour \in 18 .. 21 -> "night"
                    [] OTHER -> "midnight"
Phase(hour) == CASE hour \in 4 .. 8 -> "morning"
                 [] hour \in 9 .. 13 -> "noon"
                 [] hour \in 14 .. 17 -> "afternoon"
                 [] hour \in 18 .. 21 -> "night"
                 [] OTHER -> "midnight"

\* A day of one beat too many
MutBeat(n) == IF n + 1 > maxHB THEN 0 ELSE n + 1
Beat(n) == IF n + 1 >= maxHB THEN 0 ELSE n + 1

ClockInit == /\ timeInterval = 0
             /\ currentTime = "noon"
             /\ timeIntervalId = NoHandle
             /\ timerID = 0
             /\ timers = {} /\ tickers = {} /\ stopped = {}
             /\ shutdown = FALSE
-----------------------------------------------------------------------------
\* setInterval stores a timer under an int64, clearInterval looks for an int32.
StoreKey(id) == <<"int64", id>>
LoadKey(id) == <<"int32", id>>

\* The timer that updateTime clears: the handle 0 is false in JavaScript.
Cleared == {id \in {timeIntervalId} \ {NoHandle, 0} : LoadKey(id) \in timers}

\* The body of updateTime, which preloadCache ends with: at the start of the
\* process and at every reloadJSON.
UpdateTime == /\ stopped' = stopped \cup Cleared
              /\ timers' = (timers \ {LoadKey(id) : id \in Cleared}) \cup {StoreKey(timerID)}
              /\ tickers' = tickers \cup {timerID}
              /\ timeIntervalId' = timerID
              /\ timerID' = timerID + 1

\* A reload that also ran the declarations of cache.js again
MutPreloadCache == /\ ~shutdown /\ timerID < MaxTimers
                   /\ UpdateTime
                   /\ currentTime' = "noon"
                   /\ UNCHANGED <<timeInterval, shutdown>>
PreloadCache == /\ ~shutdown /\ timerID < MaxTimers
                /\ UpdateTime
                /\ UNCHANGED <<clock, shutdown>>

\* The interval's callback.
Callback(id) == /\ id \in tickers \ stopped
                /\ timeInterval' = Beat(timeInterval)
                /\ currentTime' = Phase(Hour(timeInterval'))
                /\ UNCHANGED <<timing, shutdown>>

\* The script shutdown closes the channel; main ends the process, and until
\* then each goroutine may see it, or tick.
Shutdown == /\ ~shutdown
            /\ shutdown' = TRUE
            /\ UNCHANGED <<clock, timing>>

TickerExit(id) == /\ shutdown /\ id \in tickers
                  /\ tickers' = tickers \ {id}
                  /\ timers' = timers \ {StoreKey(id)}
                  /\ UNCHANGED <<clock, timeIntervalId, timerID, stopped, shutdown>>

ClockNext == \/ PreloadCache \/ Shutdown
             \/ \E id \in tickers : Callback(id) \/ TickerExit(id)

ClockSpec == ClockInit /\ [][ClockNext]_clockVars

\* The process starts its clock, and a Go ticker that nobody stopped fires.
\* Reloads and shutdowns are the administrators', and are never owed.
FairClock == /\ ClockSpec
             /\ WF_clockVars(PreloadCache /\ timerID = 0)
             /\ WF_clockVars(\E id \in tickers : Callback(id))
-----------------------------------------------------------------------------
(* Properties.                                                               *)

\* The heartbeat stays within the day, and every timer has its type
\* (cache.js:23-26, interval.go:27-33).
ClockTypes == /\ timeInterval \in 0 .. maxHB - 1
              /\ currentTime \in Phases
              /\ timeIntervalId \in {NoHandle} \cup 0 .. MaxTimers - 1
              /\ timerID \in 0 .. MaxTimers
              /\ timers \subseteq {"int64"} \X (0 .. timerID - 1)
              /\ tickers \subseteq 0 .. timerID - 1 /\ stopped \subseteq 0 .. timerID - 1
              /\ shutdown \in BOOLEAN

Following(phase) == CASE phase = "midnight" -> "morning" [] phase = "morning" -> "noon"
                      [] phase = "noon" -> "afternoon" [] phase = "afternoon" -> "night"
                      [] phase = "night" -> "midnight"

\* However many clocks reloadJSON has left running, players hear the phases
\* of the day in their order and none twice; only the first announcement of
\* the process leaves the noon it starts with for midnight (cache.js:12-46).
PhaseOrder == [][currentTime' # currentTime =>
    \/ currentTime' = Following(currentTime)
    \/ timeInterval = 0 /\ currentTime = "noon" /\ currentTime' = "midnight"]_clockVars

\* A goroutine that ticks can be found by its id, so that it could be stopped
\* (interval.go:32-33, 47-50).
TimersTracked == \A id \in tickers : StoreKey(id) \in timers

\* Until the server is shut down the day goes on: no sequence of reloads
\* leaves the game without a clock (cache.js:18-22).
DayGoesOn == <>shutdown \/ \A phase \in Phases : []<>(currentTime = phase)
=============================================================================

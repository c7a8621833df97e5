------------------------------- MODULE Server -------------------------------
(***************************************************************************)
(* The goroutines of the server and the two locks between them: mu of the  *)
(* ClientManager, and the Locker of the V8 isolate, which every script     *)
(* and every conversion of a script's value takes.  There is one goroutine *)
(* per connection and the one of the clock's interval.                     *)
(*                                                                         *)
(* Of a command the module keeps what the locks see of it: how many        *)
(* messages it sends, whether it throws, ends the session, or brings the   *)
(* player into the area.  Module Mudlib has what the commands do.          *)
(***************************************************************************)
EXTENDS Integers, FiniteSets

CONSTANTS
    Conns,       \* the connections that may be made
    Websockets,  \* those made by a browser; the others are telnet
    Timer,       \* the goroutine of setInterval
    Nobody,      \* holder of a free lock, status of no target
    Present,     \* the connections made before the model begins
    Departures,  \* FALSE: no connection fails
    MaxSends     \* bound on the messages one script sends

ASSUME ServerAssumption ==
    /\ Websockets \subseteq Conns /\ Present \subseteq Conns
    /\ Timer \notin Conns /\ Nobody \notin Conns \cup {Timer}
    /\ Departures \in BOOLEAN /\ MaxSends \in Nat

Procs == Conns \cup {Timer}

VARIABLES
    pc,       \* where each goroutine is
    mu,       \* who holds ClientManager.mu
    v8,       \* who holds the isolate's Locker
    clients,  \* ClientManager.clients
    players,  \* the sessions in the dictionary players
    area,     \* players[id].area
    ghost,    \* the id in the Player that loading a file left in players
    seen,     \* what get_area.js returned to the handler
    room,     \* ClientInfo.Area
    left,     \* messages the running script has still to send
    target,   \* the player sendToPlayer was called for
    heard     \* parity of the messages written to a connection by others

locks == <<mu, v8>>
world == <<clients, players, area, ghost>>
local == <<seen, left, target>>
vars == <<pc, locks, world, local, room, heard>>

Areas == {"character creation", "entrance"}

TypeOK ==
    /\ pc \in [Procs -> {"start", "add", "read", "get", "cmd", "run", "send", "announce",
                         "reply", "area", "update", "remove", "unadd", "clean", "done"}]
    /\ mu \in Conns \cup {Nobody} /\ v8 \in Procs \cup {Nobody}
    /\ clients \subseteq Conns /\ players \subseteq Conns
    /\ ghost \in Conns \cup {Nobody}
    /\ area \in [Conns -> Areas] /\ seen \in [Conns -> Areas]
    /\ room \in [Conns -> Areas]
    /\ left \in [Procs -> 0 .. MaxSends]
    /\ target \in [Procs -> Conns \cup {Nobody}]
    /\ heard \in [Conns -> 0 .. 1]

Init == /\ pc = [p \in Procs |-> IF p \in Conns \ Present THEN "start" ELSE "read"]
        /\ mu = Nobody /\ v8 = Nobody
        /\ clients = Present /\ players = Present
        /\ ghost \in Present \cup {Nobody}
        /\ area = [c \in Conns |-> "character creation"]
        /\ seen = area /\ room = area
        /\ left = [p \in Procs |-> 0]
        /\ target = [p \in Procs |-> Nobody]
        /\ heard = [c \in Conns |-> 0]

Goto(p, there) == pc' = [pc EXCEPT ![p] = there]
From(p, here) == pc[p] = here
-----------------------------------------------------------------------------
(* ClientManager.Add: the script runs while mu is held.                      *)

AddLock(c) == /\ From(c, "start") /\ mu = Nobody
              /\ mu' = c
              /\ clients' = clients \cup {c}
              /\ room' = [room EXCEPT ![c] = "character creation"]
              /\ Goto(c, "add")
              /\ UNCHANGED <<v8, players, area, ghost, local, heard>>

AddRun(c) == /\ From(c, "add") /\ v8 = Nobody
             /\ players' = players \cup {c}
             /\ area' = [area EXCEPT ![c] = "character creation"]
             /\ mu' = Nobody
             /\ Goto(c, "read")
             /\ UNCHANGED <<v8, clients, ghost, local, room, heard>>
-----------------------------------------------------------------------------
(* One input: Get, processCommand, the reply, and for a browser the room.    *)

Message(c) == From(c, "read") /\ Goto(c, "get")
              /\ UNCHANGED <<locks, world, local, room, heard>>

Get(c) == /\ From(c, "get") /\ mu = Nobody
          /\ Goto(c, IF c \in clients THEN "cmd" ELSE "read")
          /\ UNCHANGED <<locks, world, local, room, heard>>

\* processCommand of a session that has quit throws at once; any other runs
\* until it has sent its messages.  Before the first of them it may load player
\* files: the last one it constructs is what players has under the key
\* "undefined", without an id (Nobody) or, after a login, with the caller's.
Begin(c) == /\ From(c, "cmd") /\ v8 = Nobody
            /\ \/ /\ c \notin players
                  /\ Goto(c, "read")
                  /\ UNCHANGED <<v8, left, ghost>>
               \/ /\ c \in players
                  /\ v8' = c
                  /\ \E n \in 0 .. MaxSends : left' = [left EXCEPT ![c] = n]
                  /\ ghost' \in {ghost, c, Nobody}
                  /\ Goto(c, "run")
            /\ UNCHANGED <<mu, clients, players, area, seen, target, room, heard>>

\* Whom a script may call sendToPlayer for: a session it found in players, or
\* the id of the object a load left there, which may be stale or undefined.
\* The clock tells sessions only (broadcastGlobal skips other keys).
Found(p) == players \cup IF p = Timer THEN {} ELSE {ghost}

\* A script that sent once more than it had players to tell
MutPick(p) == /\ From(p, "run")
              /\ \E t \in Found(p) : target' = [target EXCEPT ![p] = t]
              /\ left' = [left EXCEPT ![p] = @ - 1]
              /\ Goto(p, "send")
              /\ UNCHANGED <<locks, world, seen, room, heard>>
\* sendToPlayer
Pick(p) == /\ From(p, "run") /\ left[p] > 0
           /\ \E t \in Found(p) : target' = [target EXCEPT ![p] = t]
           /\ left' = [left EXCEPT ![p] = @ - 1]
           /\ Goto(p, "send")
           /\ UNCHANGED <<locks, world, seen, room, heard>>

\* SendToClient: mu is taken while the script holds the isolate.  A player
\* without a client is only logged.
Send(p) == LET t == target[p] IN
    /\ From(p, "send") /\ mu = Nobody
    /\ heard' = IF t \in clients THEN [heard EXCEPT ![t] = 1 - @] ELSE heard
    /\ target' = [target EXCEPT ![p] = Nobody]
    /\ Goto(p, "run")
    /\ UNCHANGED <<locks, world, seen, left, room>>

\* reloadJSON, reloadJs and shutdown tell every connection: Broadcast.
PickAll(c) == /\ From(c, "run") /\ left[c] > 0
              /\ left' = [left EXCEPT ![c] = @ - 1]
              /\ Goto(c, "announce")
              /\ UNCHANGED <<locks, world, seen, target, room, heard>>

\* A Broadcast that did not wait for mu
MutBroadcast(c) ==
    /\ From(c, "announce")
    /\ heard' = [t \in Conns |-> IF t \in clients THEN 1 - heard[t] ELSE heard[t]]
    /\ Goto(c, "run")
    /\ UNCHANGED <<locks, world, local, room>>
Broadcast(c) ==
    /\ From(c, "announce") /\ mu = Nobody
    /\ heard' = [t \in Conns |-> IF t \in clients THEN 1 - heard[t] ELSE heard[t]]
    /\ Goto(c, "run")
    /\ UNCHANGED <<locks, world, local, room>>

\* The script ends: with a value, or with an exception after which a browser's
\* handler reads on without looking at the area.
End(c) ==
    /\ From(c, "run") /\ left[c] = 0
    /\ v8' = Nobody
    /\ \/ Goto(c, "reply") /\ UNCHANGED <<players, area>>
       \/ Goto(c, "read") /\ UNCHANGED <<players, area>>
       \/ Goto(c, "reply") /\ players' = players \ {c} /\ UNCHANGED area
       \/ Goto(c, "reply") /\ area' = [area EXCEPT ![c] = "entrance"] /\ UNCHANGED players
    /\ UNCHANGED <<mu, clients, ghost, local, room, heard>>

\* val.String() and the handler's own write.
Reply(c) == /\ From(c, "reply") /\ v8 = Nobody
            /\ Goto(c, IF c \in Websockets THEN "area" ELSE "read")
            /\ UNCHANGED <<locks, world, local, room, heard>>

\* A get_area.js that kept the area of a session that has ended
MutReadArea(c) ==
    /\ From(c, "area") /\ v8 = Nobody
    /\ seen' = [seen EXCEPT ![c] = area[c]]
    /\ Goto(c, "update")
    /\ UNCHANGED <<locks, world, left, target, room, heard>>
\* get_area.js, a script of its own
ReadArea(c) ==
    /\ From(c, "area") /\ v8 = Nobody
    /\ seen' = [seen EXCEPT ![c] = IF c \in players THEN area[c] ELSE "character creation"]
    /\ Goto(c, "update")
    /\ UNCHANGED <<locks, world, left, target, room, heard>>

UpdateRoom(c) == /\ From(c, "update") /\ mu = Nobody
                 /\ room' = [room EXCEPT ![c] = seen[c]]
                 /\ Goto(c, "read")
                 /\ UNCHANGED <<locks, world, local, heard>>
-----------------------------------------------------------------------------
(* A failed read: a browser's handler removes its client and session, a      *)
(* telnet handler returns.                                                   *)

Fail(c) == /\ From(c, "read") /\ Departures
           /\ Goto(c, IF c \in Websockets THEN "remove" ELSE "done")
           /\ UNCHANGED <<locks, world, local, room, heard>>

\* A Remove that unlocked before it called the mudlib
MutRemoveLock(c) == /\ From(c, "remove") /\ mu = Nobody
                    /\ clients' = clients \ {c}
                    /\ Goto(c, "unadd")
                    /\ UNCHANGED <<mu, v8, players, area, ghost, local, room, heard>>
RemoveLock(c) == /\ From(c, "remove") /\ mu = Nobody
                 /\ mu' = c
                 /\ clients' = clients \ {c}
                 /\ Goto(c, "unadd")
                 /\ UNCHANGED <<v8, players, area, ghost, local, room, heard>>

\* A Remove that kept mu
MutRemoveRun(c) == /\ From(c, "unadd") /\ v8 = Nobody
                   /\ players' = players \ {c}
                   /\ Goto(c, "clean")
                   /\ UNCHANGED <<mu, v8, clients, area, ghost, local, room, heard>>
RemoveRun(c) == /\ From(c, "unadd") /\ v8 = Nobody
                /\ players' = players \ {c}
                /\ mu' = Nobody
                /\ Goto(c, "clean")
                /\ UNCHANGED <<v8, clients, area, ghost, local, room, heard>>

\* removePlayer of the handler's own playerID, which is nobody's.
Clean(c) == From(c, "clean") /\ v8 = Nobody /\ Goto(c, "done")
            /\ UNCHANGED <<locks, world, local, room, heard>>
-----------------------------------------------------------------------------
(* The clock's interval: a script that tells everybody when the phase of     *)
(* the day changes, and nobody when it does not.                             *)

Tick == /\ From(Timer, "read") /\ v8 = Nobody
        /\ v8' = Timer
        /\ \E n \in IF players = {} THEN {0} ELSE 0 .. MaxSends :
             left' = [left EXCEPT ![Timer] = n]
        /\ Goto(Timer, "run")
        /\ UNCHANGED <<mu, world, seen, target, room, heard>>

TickEnd == /\ From(Timer, "run") /\ left[Timer] = 0
           /\ v8' = Nobody
           /\ Goto(Timer, "read")
           /\ UNCHANGED <<mu, world, local, room, heard>>

Next == \/ \E c \in Conns :
             \/ AddLock(c) \/ AddRun(c)
             \/ Message(c) \/ Get(c) \/ Begin(c) \/ PickAll(c) \/ Broadcast(c) \/ End(c)
             \/ Reply(c) \/ ReadArea(c) \/ UpdateRoom(c)
             \/ Fail(c) \/ RemoveLock(c) \/ RemoveRun(c) \/ Clean(c)
        \/ \E p \in Procs : Pick(p) \/ Send(p)
        \/ Tick \/ TickEnd

\* A goroutine that may go on does: the Go scheduler is fair to runnable
\* goroutines, sync.Mutex hands itself to a waiter of a millisecond, and no
\* script holds the isolate for long.  Arrivals, inputs and failures of
\* connections are the world's, and are never owed.
HandlerStep(c) == \/ AddRun(c) \/ Get(c) \/ Begin(c) \/ Pick(c) \/ Send(c)
                  \/ PickAll(c) \/ Broadcast(c) \/ End(c) \/ Reply(c)
                  \/ ReadArea(c) \/ UpdateRoom(c)
                  \/ RemoveLock(c) \/ RemoveRun(c) \/ Clean(c)
TimerStep == Tick \/ Pick(Timer) \/ Send(Timer) \/ TickEnd

Spec == Init /\ [][Next]_vars
FairSpec == Spec /\ SF_vars(TimerStep) /\ \A c \in Conns : SF_vars(HandlerStep(c))
-----------------------------------------------------------------------------
(* Properties.                                                               *)

\* The two registries, which two different locks guard, agree whenever mu is
\* free: a session in players has its client (manager.go:55-109).
SessionsHaveClients == mu = Nobody => players \subseteq clients

\* A script that found a session in players reaches the session's connection,
\* however many others connect and disconnect before it gets mu: the isolate
\* it holds keeps a Remove from ending (manager.go:85-109, 139-151).  What
\* else it may send to is the id of the object that a load left in players.
SendFinds == \A p \in Procs : (From(p, "send") /\ mu = Nobody) =>
    \/ target[p] \in players \cap clients
    \/ p # Timer /\ target[p] = ghost

\* The room of a browser's client is its player's area between two inputs,
\* although the handler asks for the area in a script of its own, after the
\* command's (websocket.go:94-98).
RoomIsCurrent == \A c \in Websockets \cap clients : From(c, "read") =>
    room[c] = IF c \in players THEN area[c] ELSE "character creation"

\* What the two registries and the locks amount to: one registry with
\* instantaneous joins and leaves, and the shadow of one login.
Status == [c \in Conns |-> IF pc[c] \in {"start", "add"} THEN "new"
                          ELSE IF c \notin clients THEN "left"
                          ELSE IF c \in players THEN "joined" ELSE "quit"]

Abstract == INSTANCE Registry WITH status <- Status, shadow <- ghost
ImplementsRegistry == Abstract!Spec

\* mu is held by a handler that waits for the isolate, and the isolate by a
\* script that waits for mu: nobody of the two ever goes on.
Crossed == /\ mu # Nobody /\ v8 # Nobody
           /\ pc[v8] \in {"send", "announce"}

\* websocket.go:68, every input is handed to processCommand: what was read
\* is run, or answered with an exception.
EveryInputProcessed == \A c \in Conns : From(c, "get") ~> pc[c] \in {"run", "read"}

\* A browser that fails is forgotten by both registries.
LeaverForgotten == \A c \in Conns :
    From(c, "remove") ~> (c \notin clients /\ c \notin players)

\* Crossed locks are the one thing that stops the server: as long as they do
\* not happen, inputs are processed and leavers forgotten.
OnlyCrossingStops == []~Crossed => EveryInputProcessed /\ LeaverForgotten
=============================================================================

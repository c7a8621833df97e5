------------------------------ MODULE Writers ------------------------------
(***************************************************************************)
(* Who writes to the browsers' connections: ClientManager (package client) *)
(* under mu, for whichever goroutine calls it, and each handler (package   *)
(* handlers) on its own connection, without mu.                            *)
(*                                                                         *)
(* gorilla/websocket wants one writer at a time and looks for a second     *)
(* one: WriteMessage panics when it finds the connection being written.    *)
(* The isolate is left out: this is what mu does without it.  A write does *)
(* not block: clients read.                                                *)
(***************************************************************************)
EXTENDS Integers, Sequences, FiniteSets

CONSTANTS
    Browsers,  \* the WebSocket connections, and their handlers
    Others,    \* telnet handlers and the clock's goroutine
    Nobody,    \* holder of a free lock, target of no write
    Lengths    \* the messages a reply may have

ASSUME WritersAssumption ==
    /\ Browsers \cap Others = {}
    /\ Nobody \notin Browsers \cup Others
    /\ Lengths \subseteq 1 .. 4

Procs == Browsers \cup Others

VARIABLES
    up,         \* the process runs
    pc,         \* where each goroutine is
    mu,         \* who holds ClientManager.mu
    clients,    \* the browsers in ClientManager.clients
    todo,       \* the connections a loop over clients has still to write to
    all,        \* the goroutines whose loop is a Broadcast
    said,       \* the goroutines that have broadcast, each once
    lines,      \* messages of its reply that a handler has still to write
    to,         \* the connection a goroutine is writing to
    isWriting,  \* websocket.Conn's own flag
    got         \* whose broadcasts a connection has been sent

loop == <<todo, all, said>>
vars == <<up, pc, mu, clients, loop, lines, to, isWriting, got>>

TypeOK ==
    /\ up \in BOOLEAN
    /\ pc \in [Procs -> {"new", "idle", "send", "reply", "check", "write", "end",
                         "left", "failed", "lost"}]
    /\ mu \in Procs \cup {Nobody}
    /\ clients \subseteq Browsers
    /\ todo \in [Procs -> SUBSET Browsers]
    /\ all \subseteq said /\ said \subseteq Procs
    /\ lines \in [Browsers -> 0 .. 4]
    /\ to \in [Procs -> Browsers \cup {Nobody}]
    /\ isWriting \in [Browsers -> BOOLEAN]
    /\ got \in [Browsers -> Seq(Procs)]

Init == /\ up = TRUE
        /\ pc = [p \in Procs |-> IF p \in Browsers THEN "new" ELSE "idle"]
        /\ mu = Nobody /\ clients = {}
        /\ todo = [p \in Procs |-> {}]
        /\ all = {} /\ said = {}
        /\ lines = [c \in Browsers |-> 0]
        /\ to = [p \in Procs |-> Nobody]
        /\ isWriting = [c \in Browsers |-> FALSE]
        /\ got = [c \in Browsers |-> << >>]

At(p, here) == up /\ pc[p] = here
Goto(p, there) == pc' = [pc EXCEPT ![p] = there]
-----------------------------------------------------------------------------
(* Connections.                                                              *)

\* Add, and then the greeting, by which time others may write to it.
Join(c) == /\ At(c, "new") /\ mu = Nobody
           /\ clients' = clients \cup {c}
           /\ lines' = [lines EXCEPT ![c] = 1]
           /\ Goto(c, "reply")
           /\ UNCHANGED <<up, mu, loop, to, isWriting, got>>

\* A failed read: Remove.
Leave(c) == /\ At(c, "idle") /\ mu = Nobody
            /\ clients' = clients \ {c}
            /\ Goto(c, "left")
            /\ UNCHANGED <<up, mu, loop, lines, to, isWriting, got>>

\* A command's answer, or the four messages of an exception
Reply(c) == /\ At(c, "idle")
            /\ \E n \in Lengths : lines' = [lines EXCEPT ![c] = n]
            /\ Goto(c, "reply")
            /\ UNCHANGED <<up, mu, clients, loop, to, isWriting, got>>

\* A handler that wrote once more than its reply has messages
MutNextLine(c) == /\ At(c, "reply")
                  /\ lines' = [lines EXCEPT ![c] = @ - 1]
                  /\ to' = [to EXCEPT ![c] = c]
                  /\ Goto(c, IF lines[c] = 0 THEN "idle" ELSE "check")
                  /\ UNCHANGED <<up, mu, clients, loop, isWriting, got>>
NextLine(c) == /\ At(c, "reply")
               /\ IF lines[c] = 0 THEN Goto(c, "idle") /\ UNCHANGED <<lines, to>>
                  ELSE /\ lines' = [lines EXCEPT ![c] = @ - 1]
                       /\ to' = [to EXCEPT ![c] = c]
                       /\ Goto(c, "check")
               /\ UNCHANGED <<up, mu, clients, loop, isWriting, got>>
-----------------------------------------------------------------------------
(* ClientManager: the loops over clients, which hold mu to their end.        *)

Lock(p) == At(p, "idle") /\ mu = Nobody /\ mu' = p /\ Goto(p, "send")

SendToClient(p) == /\ Lock(p)
                   /\ \E t \in clients : todo' = [todo EXCEPT ![p] = {t}]
                   /\ UNCHANGED <<up, clients, all, said, lines, to, isWriting, got>>

\* A Broadcast that took mu to read clients, and not to write
MutBroadcast(p) == /\ At(p, "idle") /\ mu = Nobody /\ Goto(p, "send")
                   /\ p \notin said
                   /\ todo' = [todo EXCEPT ![p] = clients]
                   /\ all' = all \cup {p} /\ said' = said \cup {p}
                   /\ UNCHANGED <<up, mu, clients, lines, to, isWriting, got>>
Broadcast(p) == /\ Lock(p)
                /\ p \notin said
                /\ todo' = [todo EXCEPT ![p] = clients]
                /\ all' = all \cup {p} /\ said' = said \cup {p}
                /\ UNCHANGED <<up, clients, lines, to, isWriting, got>>

\* The next client of the loop, in the order of a Go map, which is any
NextClient(p) == /\ At(p, "send")
                 /\ \E c \in todo[p] :
                      /\ to' = [to EXCEPT ![p] = c]
                      /\ todo' = [todo EXCEPT ![p] = @ \ {c}]
                 /\ Goto(p, "check")
                 /\ UNCHANGED <<up, mu, clients, all, said, lines, isWriting, got>>

Unlock(p) == /\ At(p, "send") /\ todo[p] = {}
             /\ mu' = Nobody
             /\ all' = all \ {p}
             /\ Goto(p, "idle")
             /\ UNCHANGED <<up, clients, todo, said, lines, to, isWriting, got>>
-----------------------------------------------------------------------------
(* WriteMessage.                                                             *)

\* A manager whose Unlock was not deferred
MutPanic(p) == /\ IF p \in Browsers THEN Goto(p, IF mu = p THEN "failed" ELSE "lost") /\ UNCHANGED up
                  ELSE up' = FALSE /\ UNCHANGED pc
               /\ todo' = [todo EXCEPT ![p] = {}] /\ all' = all \ {p}
               /\ UNCHANGED <<mu, clients, said, lines, to, isWriting, got>>
\* The library makes a second writer panic.  The deferred Unlock frees mu.  In a
\* browser's handler gin recovers, the deferred Close ends the connection, and
\* Remove is not reached; in any other goroutine the process ends.
Panic(p) == /\ IF p \in Browsers
               THEN Goto(p, IF mu = p THEN "failed" ELSE "lost") /\ UNCHANGED up
               ELSE up' = FALSE /\ UNCHANGED pc
            /\ mu' = IF mu = p THEN Nobody ELSE mu
            /\ todo' = [todo EXCEPT ![p] = {}] /\ all' = all \ {p}
            /\ UNCHANGED <<clients, said, lines, to, isWriting, got>>

Check(p) == /\ At(p, "check")
            /\ \/ isWriting[to[p]] /\ Panic(p)
               \/ /\ ~isWriting[to[p]]
                  /\ Goto(p, "write")
                  /\ UNCHANGED <<up, mu, clients, loop, lines, to, isWriting, got>>

Write(p) == /\ At(p, "write")
            /\ isWriting' = [isWriting EXCEPT ![to[p]] = TRUE]
            /\ got' = IF p \in all THEN [got EXCEPT ![to[p]] = Append(@, p)] ELSE got
            /\ Goto(p, "end")
            /\ UNCHANGED <<up, mu, clients, loop, lines, to>>

EndWrite(p) == /\ At(p, "end")
               /\ \/ ~isWriting[to[p]] /\ Panic(p)
                  \/ /\ isWriting[to[p]]
                     /\ isWriting' = [isWriting EXCEPT ![to[p]] = FALSE]
                     /\ Goto(p, IF mu = p THEN "send" ELSE "reply")
                     /\ UNCHANGED <<up, mu, clients, loop, lines, to, got>>

Next == \/ \E c \in Browsers : Join(c) \/ Leave(c) \/ Reply(c) \/ NextLine(c)
        \/ \E p \in Procs : \/ SendToClient(p) \/ Broadcast(p) \/ NextClient(p) \/ Unlock(p)
                            \/ Check(p) \/ Write(p) \/ EndWrite(p)

\* Go runs a goroutine that can go on; new commands and connections are owed
\* by nobody.
Running(p) == NextClient(p) \/ Unlock(p) \/ Check(p) \/ Write(p) \/ EndWrite(p)

Spec == Init /\ [][Next]_vars
FairSpec == Spec /\ \A p \in Procs : WF_vars(Running(p))
-----------------------------------------------------------------------------
(* Properties.                                                               *)

Writing(p) == up /\ pc[p] \in {"check", "write", "end"}

\* Of two goroutines that write to one connection at the same time, one is the
\* connection's own handler with a reply: no two loops over clients ever meet
\* (manager.go:127-151, websocket.go:45, 79-91).
OnlyRepliesCollide == \A p, q \in Procs :
    (p # q /\ Writing(p) /\ Writing(q) /\ to[p] = to[q]) => to[p] \in {p, q} \ {mu}

\* Any two browsers get the broadcasts that both get in the same order, though
\* each loop goes through the clients in an order of its own and collisions
\* cut loops short (manager.go:127-137).
Before(c, p, q) == \E i, j \in 1 .. Len(got[c]) : i < j /\ got[c][i] = p /\ got[c][j] = q
SameOrder == \A c, d \in Browsers : \A p, q \in Procs : ~ (Before(c, p, q) /\ Before(d, q, p))

\* mu always comes back while the process runs, even from a loop that a
\* collision ends (manager.go:129, 141: the Unlock is deferred).
MuReturns == \A p \in Procs : mu = p ~> (mu # p \/ ~up)
=============================================================================

------------------------------ MODULE Registry ------------------------------
(***************************************************************************)
(* What a server of sessions promises, with no lock, no goroutine and one  *)
(* registry instead of two: a connection joins once, may quit its session, *)
(* leaves once, never comes back, and hears announcements from when it     *)
(* joined until it leaves.  What is sent to a session it hears only while  *)
(* it has one, but for the shadow: a login may leave a copy of the session *)
(* in the registry, which outlives a quit and is sent to as if it were a   *)
(* session.  There is one shadow at most, of the latest login.             *)
(***************************************************************************)
EXTENDS Integers

CONSTANTS Conns, Nobody

VARIABLES
    status,  \* of each connection
    shadow,  \* the connection whose login left a copy of it, or Nobody
    heard    \* the parity of the messages written to it

vars == <<status, shadow, heard>>

TypeOK == /\ status \in [Conns -> {"new", "joined", "quit", "left"}]
          /\ shadow \in Conns \cup {Nobody}
          /\ heard \in [Conns -> 0 .. 1]

Init == /\ status \in [Conns -> {"new", "joined"}]
        /\ shadow \in {c \in Conns : status[c] = "joined"} \cup {Nobody}
        /\ heard = [c \in Conns |-> 0]

Become(c, before, after) == /\ status[c] \in before
                            /\ status' = [status EXCEPT ![c] = after]
                            /\ UNCHANGED <<shadow, heard>>

Join(c) == Become(c, {"new"}, "joined")
Quit(c) == Become(c, {"joined"}, "quit")
Leave(c) == Become(c, {"joined", "quit"}, "left")

\* A login, which leaves its shadow, or another look into the files of the
\* accounts, which takes the shadow away.
Load(c) == /\ status[c] = "joined"
           /\ shadow' \in {c, Nobody}
           /\ UNCHANGED <<status, heard>>

\* A message to one session or to the shadow, and an announcement to every
\* connection.
Tell(c) == /\ status[c] = "joined" \/ (status[c] = "quit" /\ c = shadow)
           /\ heard' = [heard EXCEPT ![c] = 1 - @]
           /\ UNCHANGED <<status, shadow>>

Announce == /\ heard' = [c \in Conns |-> IF status[c] \in {"joined", "quit"}
                                        THEN 1 - heard[c] ELSE heard[c]]
            /\ UNCHANGED <<status, shadow>>

Next == \/ Announce
        \/ \E c \in Conns : Join(c) \/ Quit(c) \/ Leave(c) \/ Load(c) \/ Tell(c)

Spec == Init /\ [][Next]_vars
=============================================================================

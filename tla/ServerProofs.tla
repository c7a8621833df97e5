---------------------------- MODULE ServerProofs ----------------------------
(***************************************************************************)
(* Theorems about Server for every set of connections and every number of  *)
(* messages a script sends, and about GameClock, whose interval is one of  *)
(* Server's goroutines, for every number of reloads.                       *)
(***************************************************************************)
EXTENDS Server, GameClock, TLAPS

InScript == {"run", "send", "announce"}

\* Who holds a lock can be told from where the goroutines are.
LocksHeld ==
    /\ \A c \in Conns : mu = c <=> pc[c] \in {"add", "unadd"}
    /\ \A p \in Procs : v8 = p <=> pc[p] \in InScript
    /\ pc[Timer] \in {"read", "run", "send"}

\* How far a connection is in the two registries.
Registered ==
    /\ \A c \in Conns : pc[c] = "start" => c \notin clients \cup players
    /\ \A c \in Conns : pc[c] = "add" => c \in clients /\ c \notin players
    /\ \A c \in Conns : pc[c] = "unadd" => c \notin clients
    /\ \A c \in Websockets : pc[c] \in {"clean", "done"} => c \notin clients \cup players
    /\ \A c \in Conns \ Websockets : pc[c] \notin {"start", "add"} => c \in clients
    /\ \A c \in Conns : pc[c] \notin {"start", "add", "unadd", "clean", "done"} => c \in clients
    /\ \A c \in players : c \in clients \/ pc[c] = "unadd"
    /\ \A c \in Conns \ Websockets : pc[c] \notin {"remove", "unadd", "clean", "area", "update"}

\* A running script has a session, and has its target among the sessions or in
\* the object that a load left there.
Running ==
    /\ \A c \in Conns : pc[c] \in InScript => c \in players
    /\ \A p \in Procs : pc[p] = "send" =>
           target[p] \in players \/ (p # Timer /\ target[p] = ghost)

RoomNow(c) == IF c \in players THEN area[c] ELSE "character creation"
RoomOK(c) ==
    /\ pc[c] = "add" => room[c] = "character creation"
    /\ pc[c] \in {"read", "get", "cmd"} \cup InScript => room[c] = RoomNow(c)
    /\ pc[c] = "update" => seen[c] = RoomNow(c)
Rooms == \A c \in Websockets : RoomOK(c)

IInv == TypeOK /\ LocksHeld /\ Registered /\ Running /\ Rooms

LEMMA ServerInit == Init => IInv
<1> SUFFICES ASSUME Init PROVE IInv
  OBVIOUS
<1>1. TypeOK
  <2>1. pc \in [Procs -> {"start", "add", "read", "get", "cmd", "run", "send", "announce",
                         "reply", "area", "update", "remove", "unadd", "clean", "done"}]
    <3>1. pc = [p \in Procs |-> IF p \in Conns \ Present THEN "start" ELSE "read"]
      BY DEF Init
    <3> QED
      BY <3>1
  <2>2. left \in [Procs -> 0 .. MaxSends]
    <3>1. 0 \in 0 .. MaxSends
      BY ServerAssumption
    <3>2. left = [p \in Procs |-> 0]
      BY DEF Init
    <3> QED
      BY <3>1, <3>2
  <2>3. target \in [Procs -> Conns \cup {Nobody}]
    BY DEF Init
  <2>4. area \in [Conns -> Areas]
    <3>1. area = [c \in Conns |-> "character creation"]
      BY DEF Init
    <3> QED
      BY <3>1 DEF Areas
  <2>5. seen \in [Conns -> Areas] /\ room \in [Conns -> Areas]
    <3>1. seen = area /\ room = area
      BY DEF Init
    <3> QED
      BY <2>4, <3>1
  <2>6. heard \in [Conns -> 0 .. 1]
    <3>1. 0 \in 0 .. 1
      OBVIOUS
    <3>2. heard = [c \in Conns |-> 0]
      BY DEF Init
    <3> QED
      BY <3>1, <3>2
  <2>7. mu \in Conns \cup {Nobody} /\ v8 \in Procs \cup {Nobody}
    BY DEF Init
  <2>8. clients \subseteq Conns /\ players \subseteq Conns /\ ghost \in Conns \cup {Nobody}
    BY ServerAssumption DEF Init
  <2> QED
    BY <2>1, <2>2, <2>3, <2>4, <2>5, <2>6, <2>7, <2>8 DEF TypeOK
<1> USE ServerAssumption DEF Init, Procs
<1>2. LocksHeld
  BY DEF LocksHeld, InScript
<1>3. Registered /\ Running
  BY DEF Registered, Running, InScript
<1>4. Rooms
  BY DEF Rooms, RoomOK, RoomNow, InScript
<1> QED
  BY <1>1, <1>2, <1>3, <1>4 DEF IInv

\* Every step keeps the types.
LEMMA ServerTypes == TypeOK /\ [Next]_vars => TypeOK'
<1> SUFFICES ASSUME TypeOK, [Next]_vars PROVE TypeOK'
  OBVIOUS
<1> USE ServerAssumption DEF TypeOK, Procs, Goto, From, locks, world, local
<1>1. ASSUME NEW c \in Conns, AddLock(c) PROVE TypeOK'
  BY <1>1 DEF AddLock, Areas
<1>2. ASSUME NEW c \in Conns, AddRun(c) PROVE TypeOK'
  BY <1>2 DEF AddRun, Areas
<1>3. ASSUME NEW c \in Conns, Message(c) PROVE TypeOK'
  BY <1>3 DEF Message
<1>4. ASSUME NEW c \in Conns, Get(c) PROVE TypeOK'
  BY <1>4 DEF Get
<1>5. ASSUME NEW c \in Conns, Begin(c) PROVE TypeOK'
  BY <1>5 DEF Begin
<1>6. ASSUME NEW p \in Procs, Pick(p) PROVE TypeOK'
  BY <1>6 DEF Pick, Found
<1>7. ASSUME NEW p \in Procs, Send(p) PROVE TypeOK'
  BY <1>7 DEF Send
<1>8. ASSUME NEW c \in Conns, PickAll(c) PROVE TypeOK'
  BY <1>8 DEF PickAll
<1>9. ASSUME NEW c \in Conns, Broadcast(c) PROVE TypeOK'
  BY <1>9 DEF Broadcast
<1>10. ASSUME NEW c \in Conns, End(c) PROVE TypeOK'
  BY <1>10 DEF End, Areas
<1>11. ASSUME NEW c \in Conns, Reply(c) PROVE TypeOK'
  BY <1>11 DEF Reply
<1>12. ASSUME NEW c \in Conns, ReadArea(c) PROVE TypeOK'
  BY <1>12 DEF ReadArea, Areas
<1>13. ASSUME NEW c \in Conns, UpdateRoom(c) PROVE TypeOK'
  BY <1>13 DEF UpdateRoom
<1>14. ASSUME NEW c \in Conns, Fail(c) PROVE TypeOK'
  BY <1>14 DEF Fail
<1>15. ASSUME NEW c \in Conns, RemoveLock(c) PROVE TypeOK'
  BY <1>15 DEF RemoveLock
<1>16. ASSUME NEW c \in Conns, RemoveRun(c) PROVE TypeOK'
  BY <1>16 DEF RemoveRun
<1>17. ASSUME NEW c \in Conns, Clean(c) PROVE TypeOK'
  BY <1>17 DEF Clean
<1>18. CASE Tick
  BY <1>18 DEF Tick
<1>19. CASE TickEnd
  BY <1>19 DEF TickEnd
<1>20. CASE UNCHANGED vars
  BY <1>20 DEF vars
<1> QED
  BY <1>1, <1>2, <1>3, <1>4, <1>5, <1>6, <1>7, <1>8, <1>9, <1>10, <1>11, <1>12, <1>13,
     <1>14, <1>15, <1>16, <1>17, <1>18, <1>19, <1>20 DEF Next

\* Every step keeps the account of who holds which lock.
LEMMA ServerLocks == TypeOK /\ LocksHeld /\ [Next]_vars => LocksHeld'
<1> SUFFICES ASSUME TypeOK /\ LocksHeld, [Next]_vars PROVE LocksHeld'
  OBVIOUS
<1> USE ServerAssumption DEF TypeOK, LocksHeld, InScript, Procs, Goto, From, locks, world, local
<1>1. ASSUME NEW c \in Conns, AddLock(c) PROVE LocksHeld'
  BY <1>1 DEF AddLock
<1>2. ASSUME NEW c \in Conns, AddRun(c) PROVE LocksHeld'
  BY <1>2 DEF AddRun
<1>3. ASSUME NEW c \in Conns, Message(c) PROVE LocksHeld'
  BY <1>3 DEF Message
<1>4. ASSUME NEW c \in Conns, Get(c) PROVE LocksHeld'
  BY <1>4 DEF Get
<1>5. ASSUME NEW c \in Conns, Begin(c) PROVE LocksHeld'
  BY <1>5 DEF Begin
<1>6. ASSUME NEW c \in Conns, PickAll(c) PROVE LocksHeld'
  BY <1>6 DEF PickAll
<1>7. ASSUME NEW c \in Conns, Broadcast(c) PROVE LocksHeld'
  BY <1>7 DEF Broadcast
<1>8. ASSUME NEW c \in Conns, End(c) PROVE LocksHeld'
  BY <1>8 DEF End
<1>9. ASSUME NEW c \in Conns, Reply(c) PROVE LocksHeld'
  BY <1>9 DEF Reply
<1>10. ASSUME NEW c \in Conns, ReadArea(c) PROVE LocksHeld'
  BY <1>10 DEF ReadArea
<1>11. ASSUME NEW c \in Conns, UpdateRoom(c) PROVE LocksHeld'
  BY <1>11 DEF UpdateRoom
<1>12. ASSUME NEW c \in Conns, Fail(c) PROVE LocksHeld'
  BY <1>12 DEF Fail
<1>13. ASSUME NEW c \in Conns, RemoveLock(c) PROVE LocksHeld'
  BY <1>13 DEF RemoveLock
<1>14. ASSUME NEW c \in Conns, RemoveRun(c) PROVE LocksHeld'
  BY <1>14 DEF RemoveRun
<1>15. ASSUME NEW c \in Conns, Clean(c) PROVE LocksHeld'
  BY <1>15 DEF Clean
<1>16. ASSUME NEW p \in Procs, Pick(p) PROVE LocksHeld'
  BY <1>16 DEF Pick
<1>17. ASSUME NEW p \in Procs, Send(p) PROVE LocksHeld'
  BY <1>17 DEF Send
<1>18. CASE Tick
  BY <1>18 DEF Tick
<1>19. CASE TickEnd
  BY <1>19 DEF TickEnd
<1>20. CASE UNCHANGED vars
  BY <1>20 DEF vars
<1> QED
  BY <1>1, <1>2, <1>3, <1>4, <1>5, <1>6, <1>7, <1>8, <1>9, <1>10, <1>11, <1>12,
     <1>13, <1>14, <1>15, <1>16, <1>17, <1>18, <1>19, <1>20 DEF Next

\* Every step keeps the account of the registries.
LEMMA ServerRegistered == IInv /\ [Next]_vars => Registered'
<1> SUFFICES ASSUME IInv, [Next]_vars PROVE Registered'
  OBVIOUS
<1> USE ServerAssumption DEF IInv, TypeOK, LocksHeld, Registered, Running, InScript, Procs, Goto, From, locks, world, local
<1>1. ASSUME NEW c \in Conns, AddLock(c) PROVE Registered'
  BY <1>1 DEF AddLock
<1>2. ASSUME NEW c \in Conns, AddRun(c) PROVE Registered'
  <2>1. /\ pc[c] = "add" /\ pc' = [pc EXCEPT ![c] = "read"]
        /\ players' = players \cup {c} /\ clients' = clients
    BY <1>2 DEF AddRun
  <2>2. /\ c \in clients /\ pc'[c] = "read"
        /\ \A d \in Conns \ {c} : pc'[d] = pc[d] /\ pc[d] # "add"
    BY <2>1
  <2>3. \A d \in Conns : pc'[d] = "start" => d \notin clients \cup players'
    BY <2>1, <2>2
  <2>4. \A d \in Conns : pc'[d] = "add" => d \in clients /\ d \notin players'
    BY <2>1, <2>2
  <2>5. \A d \in Websockets : pc'[d] \in {"clean", "done"} => d \notin clients \cup players'
    BY <2>1, <2>2
  <2>6. \A d \in Conns : pc'[d] = "unadd" => d \notin clients
    BY <2>1, <2>2
  <2>7. \A d \in Conns \ Websockets : pc'[d] \notin {"start", "add"} => d \in clients
    BY <2>1, <2>2
  <2>8. \A d \in Conns : pc'[d] \notin {"start", "add", "unadd", "clean", "done"} => d \in clients
    BY <2>1, <2>2
  <2>9. \A d \in players' : d \in clients \/ pc'[d] = "unadd"
    BY <2>1, <2>2
  <2>10. \A d \in Conns \ Websockets : pc'[d] \notin {"remove", "unadd", "clean", "area", "update"}
    BY <2>1, <2>2
  <2> QED
    BY <2>1, <2>3, <2>4, <2>5, <2>6, <2>7, <2>8, <2>9, <2>10
<1>3. ASSUME NEW c \in Conns, Message(c) PROVE Registered'
  BY <1>3 DEF Message
<1>4. ASSUME NEW c \in Conns, Get(c) PROVE Registered'
  BY <1>4 DEF Get
<1>5. ASSUME NEW c \in Conns, Begin(c) PROVE Registered'
  BY <1>5 DEF Begin
<1>6. ASSUME NEW c \in Conns, PickAll(c) PROVE Registered'
  BY <1>6 DEF PickAll
<1>7. ASSUME NEW c \in Conns, Broadcast(c) PROVE Registered'
  BY <1>7 DEF Broadcast
<1>8. ASSUME NEW c \in Conns, End(c) PROVE Registered'
  BY <1>8 DEF End
<1>9. ASSUME NEW c \in Conns, Reply(c) PROVE Registered'
  BY <1>9 DEF Reply
<1>10. ASSUME NEW c \in Conns, ReadArea(c) PROVE Registered'
  BY <1>10 DEF ReadArea
<1>11. ASSUME NEW c \in Conns, UpdateRoom(c) PROVE Registered'
  BY <1>11 DEF UpdateRoom
<1>12. ASSUME NEW c \in Conns, Fail(c) PROVE Registered'
  BY <1>12 DEF Fail
<1>13. ASSUME NEW c \in Conns, RemoveLock(c) PROVE Registered'
  BY <1>13 DEF RemoveLock
<1>14. ASSUME NEW c \in Conns, RemoveRun(c) PROVE Registered'
  BY <1>14 DEF RemoveRun
<1>15. ASSUME NEW c \in Conns, Clean(c) PROVE Registered'
  BY <1>15 DEF Clean
<1>16. ASSUME NEW p \in Procs, Pick(p) PROVE Registered'
  BY <1>16 DEF Pick
<1>17. ASSUME NEW p \in Procs, Send(p) PROVE Registered'
  BY <1>17 DEF Send
<1>18. CASE Tick
  BY <1>18 DEF Tick
<1>19. CASE TickEnd
  BY <1>19 DEF TickEnd
<1>20. CASE UNCHANGED vars
  BY <1>20 DEF vars
<1> QED
  BY <1>1, <1>2, <1>3, <1>4, <1>5, <1>6, <1>7, <1>8, <1>9, <1>10, <1>11, <1>12,
     <1>13, <1>14, <1>15, <1>16, <1>17, <1>18, <1>19, <1>20 DEF Next

\* Every step keeps running scripts with a session, and their targets too.
LEMMA ServerRunning == IInv /\ [Next]_vars => Running'
<1> SUFFICES ASSUME IInv, [Next]_vars PROVE Running'
  OBVIOUS
<1> USE ServerAssumption DEF IInv, TypeOK, LocksHeld, Registered, Running, InScript, Procs, Goto, From, locks, world, local
<1>1. ASSUME NEW c \in Conns, AddLock(c) PROVE Running'
  BY <1>1 DEF AddLock
<1>2. ASSUME NEW c \in Conns, AddRun(c) PROVE Running'
  BY <1>2 DEF AddRun
<1>3. ASSUME NEW c \in Conns, Message(c) PROVE Running'
  BY <1>3 DEF Message
<1>4. ASSUME NEW c \in Conns, Get(c) PROVE Running'
  BY <1>4 DEF Get
<1>5. ASSUME NEW c \in Conns, Begin(c) PROVE Running'
  BY <1>5 DEF Begin
<1>6. ASSUME NEW c \in Conns, PickAll(c) PROVE Running'
  BY <1>6 DEF PickAll
<1>7. ASSUME NEW c \in Conns, Broadcast(c) PROVE Running'
  BY <1>7 DEF Broadcast
<1>8. ASSUME NEW c \in Conns, End(c) PROVE Running'
  BY <1>8 DEF End
<1>9. ASSUME NEW c \in Conns, Reply(c) PROVE Running'
  BY <1>9 DEF Reply
<1>10. ASSUME NEW c \in Conns, ReadArea(c) PROVE Running'
  BY <1>10 DEF ReadArea
<1>11. ASSUME NEW c \in Conns, UpdateRoom(c) PROVE Running'
  BY <1>11 DEF UpdateRoom
<1>12. ASSUME NEW c \in Conns, Fail(c) PROVE Running'
  BY <1>12 DEF Fail
<1>13. ASSUME NEW c \in Conns, RemoveLock(c) PROVE Running'
  BY <1>13 DEF RemoveLock
<1>14. ASSUME NEW c \in Conns, RemoveRun(c) PROVE Running'
  BY <1>14 DEF RemoveRun
<1>15. ASSUME NEW c \in Conns, Clean(c) PROVE Running'
  BY <1>15 DEF Clean
<1>16. ASSUME NEW p \in Procs, Pick(p) PROVE Running'
  BY <1>16 DEF Pick, Found
<1>17. ASSUME NEW p \in Procs, Send(p) PROVE Running'
  BY <1>17 DEF Send
<1>18. CASE Tick
  BY <1>18 DEF Tick
<1>19. CASE TickEnd
  BY <1>19 DEF TickEnd
<1>20. CASE UNCHANGED vars
  BY <1>20 DEF vars
<1> QED
  BY <1>1, <1>2, <1>3, <1>4, <1>5, <1>6, <1>7, <1>8, <1>9, <1>10, <1>11, <1>12,
     <1>13, <1>14, <1>15, <1>16, <1>17, <1>18, <1>19, <1>20 DEF Next

\* A step of one connection keeps the rooms of the others it leaves alone.
LEMMA OneRoom ==
    ASSUME Rooms, NEW c \in Conns, c \in Websockets => RoomOK(c)',
           \A d \in Conns \ {c} : /\ pc'[d] = pc[d] /\ room'[d] = room[d]
                                 /\ seen'[d] = seen[d] /\ RoomNow(d)' = RoomNow(d)
    PROVE  Rooms'
<1> SUFFICES ASSUME NEW d \in Websockets PROVE RoomOK(d)'
  BY DEF Rooms
<1>1. CASE d = c
  BY <1>1
<1>2. CASE d # c
  BY <1>2, ServerAssumption DEF Rooms, RoomOK
<1> QED
  BY <1>1, <1>2

\* Every step keeps the rooms.
LEMMA ServerRooms == IInv /\ [Next]_vars => Rooms'
<1> SUFFICES ASSUME IInv, [Next]_vars PROVE Rooms'
  OBVIOUS
<1>0. Rooms
  BY DEF IInv
<1> USE ServerAssumption DEF IInv, TypeOK, Procs, Goto, From, locks, world, local
<1>1. ASSUME NEW c \in Conns, AddLock(c) PROVE Rooms'
  <2>1. \A d \in Conns \ {c} : /\ pc'[d] = pc[d] /\ room'[d] = room[d]
                              /\ seen'[d] = seen[d] /\ RoomNow(d)' = RoomNow(d)
    BY <1>1 DEF AddLock, RoomNow
  <2>2. c \in Websockets => RoomOK(c)'
    BY <1>1 DEF AddLock, Rooms, RoomOK, RoomNow, InScript, Registered
  <2> QED
    BY <1>0, <2>1, <2>2, OneRoom
<1>2. ASSUME NEW c \in Conns, AddRun(c) PROVE Rooms'
  <2>1. \A d \in Conns \ {c} : /\ pc'[d] = pc[d] /\ room'[d] = room[d]
                              /\ seen'[d] = seen[d] /\ RoomNow(d)' = RoomNow(d)
    BY <1>2 DEF AddRun, RoomNow
  <2>2. c \in Websockets => RoomOK(c)'
    BY <1>2 DEF AddRun, Rooms, RoomOK, RoomNow, InScript, Registered
  <2> QED
    BY <1>0, <2>1, <2>2, OneRoom
<1>3. ASSUME NEW c \in Conns, Message(c) PROVE Rooms'
  <2>1. \A d \in Conns \ {c} : /\ pc'[d] = pc[d] /\ room'[d] = room[d]
                              /\ seen'[d] = seen[d] /\ RoomNow(d)' = RoomNow(d)
    BY <1>3 DEF Message, RoomNow
  <2>2. c \in Websockets => RoomOK(c)'
    BY <1>3 DEF Message, Rooms, RoomOK, RoomNow, InScript, Registered
  <2> QED
    BY <1>0, <2>1, <2>2, OneRoom
<1>4. ASSUME NEW c \in Conns, Get(c) PROVE Rooms'
  <2>1. \A d \in Conns \ {c} : /\ pc'[d] = pc[d] /\ room'[d] = room[d]
                              /\ seen'[d] = seen[d] /\ RoomNow(d)' = RoomNow(d)
    BY <1>4 DEF Get, RoomNow
  <2>2. c \in Websockets => RoomOK(c)'
    BY <1>4 DEF Get, Rooms, RoomOK, RoomNow, InScript, Registered
  <2> QED
    BY <1>0, <2>1, <2>2, OneRoom
<1>5. ASSUME NEW c \in Conns, Begin(c) PROVE Rooms'
  <2>1. \A d \in Conns \ {c} : /\ pc'[d] = pc[d] /\ room'[d] = room[d]
                              /\ seen'[d] = seen[d] /\ RoomNow(d)' = RoomNow(d)
    BY <1>5 DEF Begin, RoomNow
  <2>2. c \in Websockets => RoomOK(c)'
    BY <1>5 DEF Begin, Rooms, RoomOK, RoomNow, InScript, Registered
  <2> QED
    BY <1>0, <2>1, <2>2, OneRoom
<1>6. ASSUME NEW c \in Conns, PickAll(c) PROVE Rooms'
  <2>1. \A d \in Conns \ {c} : /\ pc'[d] = pc[d] /\ room'[d] = room[d]
                              /\ seen'[d] = seen[d] /\ RoomNow(d)' = RoomNow(d)
    BY <1>6 DEF PickAll, RoomNow
  <2>2. c \in Websockets => RoomOK(c)'
    BY <1>6 DEF PickAll, Rooms, RoomOK, RoomNow, InScript, Registered
  <2> QED
    BY <1>0, <2>1, <2>2, OneRoom
<1>7. ASSUME NEW c \in Conns, Broadcast(c) PROVE Rooms'
  <2>1. \A d \in Conns \ {c} : /\ pc'[d] = pc[d] /\ room'[d] = room[d]
                              /\ seen'[d] = seen[d] /\ RoomNow(d)' = RoomNow(d)
    BY <1>7 DEF Broadcast, RoomNow
  <2>2. c \in Websockets => RoomOK(c)'
    BY <1>7 DEF Broadcast, Rooms, RoomOK, RoomNow, InScript, Registered
  <2> QED
    BY <1>0, <2>1, <2>2, OneRoom
<1>8. ASSUME NEW c \in Conns, End(c) PROVE Rooms'
  <2>1. \A d \in Conns \ {c} : /\ pc'[d] = pc[d] /\ room'[d] = room[d]
                              /\ seen'[d] = seen[d] /\ RoomNow(d)' = RoomNow(d)
    BY <1>8 DEF End, RoomNow
  <2>2. c \in Websockets => RoomOK(c)'
    BY <1>8 DEF End, Rooms, RoomOK, RoomNow, InScript, Registered
  <2> QED
    BY <1>0, <2>1, <2>2, OneRoom
<1>9. ASSUME NEW c \in Conns, Reply(c) PROVE Rooms'
  <2>1. \A d \in Conns \ {c} : /\ pc'[d] = pc[d] /\ room'[d] = room[d]
                              /\ seen'[d] = seen[d] /\ RoomNow(d)' = RoomNow(d)
    BY <1>9 DEF Reply, RoomNow
  <2>2. c \in Websockets => RoomOK(c)'
    BY <1>9 DEF Reply, Rooms, RoomOK, RoomNow, InScript, Registered
  <2> QED
    BY <1>0, <2>1, <2>2, OneRoom
<1>10. ASSUME NEW c \in Conns, ReadArea(c) PROVE Rooms'
  <2>1. \A d \in Conns \ {c} : /\ pc'[d] = pc[d] /\ room'[d] = room[d]
                              /\ seen'[d] = seen[d] /\ RoomNow(d)' = RoomNow(d)
    BY <1>10 DEF ReadArea, RoomNow
  <2>2. c \in Websockets => RoomOK(c)'
    BY <1>10 DEF ReadArea, Rooms, RoomOK, RoomNow, InScript, Registered
  <2> QED
    BY <1>0, <2>1, <2>2, OneRoom
<1>11. ASSUME NEW c \in Conns, UpdateRoom(c) PROVE Rooms'
  <2>1. \A d \in Conns \ {c} : /\ pc'[d] = pc[d] /\ room'[d] = room[d]
                              /\ seen'[d] = seen[d] /\ RoomNow(d)' = RoomNow(d)
    BY <1>11 DEF UpdateRoom, RoomNow
  <2>2. c \in Websockets => RoomOK(c)'
    BY <1>11 DEF UpdateRoom, Rooms, RoomOK, RoomNow, InScript, Registered
  <2> QED
    BY <1>0, <2>1, <2>2, OneRoom
<1>12. ASSUME NEW c \in Conns, Fail(c) PROVE Rooms'
  <2>1. \A d \in Conns \ {c} : /\ pc'[d] = pc[d] /\ room'[d] = room[d]
                              /\ seen'[d] = seen[d] /\ RoomNow(d)' = RoomNow(d)
    BY <1>12 DEF Fail, RoomNow
  <2>2. c \in Websockets => RoomOK(c)'
    BY <1>12 DEF Fail, Rooms, RoomOK, RoomNow, InScript, Registered
  <2> QED
    BY <1>0, <2>1, <2>2, OneRoom
<1>13. ASSUME NEW c \in Conns, RemoveLock(c) PROVE Rooms'
  <2>1. \A d \in Conns \ {c} : /\ pc'[d] = pc[d] /\ room'[d] = room[d]
                              /\ seen'[d] = seen[d] /\ RoomNow(d)' = RoomNow(d)
    BY <1>13 DEF RemoveLock, RoomNow
  <2>2. c \in Websockets => RoomOK(c)'
    BY <1>13 DEF RemoveLock, Rooms, RoomOK, RoomNow, InScript, Registered
  <2> QED
    BY <1>0, <2>1, <2>2, OneRoom
<1>14. ASSUME NEW c \in Conns, RemoveRun(c) PROVE Rooms'
  <2>1. \A d \in Conns \ {c} : /\ pc'[d] = pc[d] /\ room'[d] = room[d]
                              /\ seen'[d] = seen[d] /\ RoomNow(d)' = RoomNow(d)
    BY <1>14 DEF RemoveRun, RoomNow
  <2>2. c \in Websockets => RoomOK(c)'
    BY <1>14 DEF RemoveRun, Rooms, RoomOK, RoomNow, InScript, Registered
  <2> QED
    BY <1>0, <2>1, <2>2, OneRoom
<1>15. ASSUME NEW c \in Conns, Clean(c) PROVE Rooms'
  <2>1. \A d \in Conns \ {c} : /\ pc'[d] = pc[d] /\ room'[d] = room[d]
                              /\ seen'[d] = seen[d] /\ RoomNow(d)' = RoomNow(d)
    BY <1>15 DEF Clean, RoomNow
  <2>2. c \in Websockets => RoomOK(c)'
    BY <1>15 DEF Clean, Rooms, RoomOK, RoomNow, InScript, Registered
  <2> QED
    BY <1>0, <2>1, <2>2, OneRoom
<1>16. ASSUME NEW p \in Procs, Pick(p) PROVE Rooms'
  <2>1. \A d \in Conns : /\ room'[d] = room[d] /\ seen'[d] = seen[d] /\ RoomNow(d)' = RoomNow(d)
    BY <1>16 DEF Pick, RoomNow
  <2>2. \A d \in Conns : pc'[d] = pc[d] \/ (pc[d] \in InScript /\ pc'[d] \in InScript)
    BY <1>16 DEF Pick, InScript
  <2> QED
    BY <1>0, <2>1, <2>2 DEF Rooms, RoomOK, InScript
<1>17. ASSUME NEW p \in Procs, Send(p) PROVE Rooms'
  <2>1. \A d \in Conns : /\ room'[d] = room[d] /\ seen'[d] = seen[d] /\ RoomNow(d)' = RoomNow(d)
    BY <1>17 DEF Send, RoomNow
  <2>2. \A d \in Conns : pc'[d] = pc[d] \/ (pc[d] \in InScript /\ pc'[d] \in InScript)
    BY <1>17 DEF Send, InScript
  <2> QED
    BY <1>0, <2>1, <2>2 DEF Rooms, RoomOK, InScript
<1>18. CASE Tick
  <2>1. \A d \in Conns : /\ pc'[d] = pc[d] /\ room'[d] = room[d]
                         /\ seen'[d] = seen[d] /\ RoomNow(d)' = RoomNow(d)
    BY <1>18 DEF Tick, RoomNow
  <2> QED
    BY <1>0, <2>1 DEF Rooms, RoomOK
<1>19. CASE TickEnd
  <2>1. \A d \in Conns : /\ pc'[d] = pc[d] /\ room'[d] = room[d]
                         /\ seen'[d] = seen[d] /\ RoomNow(d)' = RoomNow(d)
    BY <1>19 DEF TickEnd, RoomNow
  <2> QED
    BY <1>0, <2>1 DEF Rooms, RoomOK
<1>20. CASE UNCHANGED vars
  BY <1>0, <1>20 DEF vars, Rooms, RoomOK, RoomNow
<1> QED
  BY <1>1, <1>2, <1>3, <1>4, <1>5, <1>6, <1>7, <1>8, <1>9, <1>10, <1>11, <1>12,
     <1>13, <1>14, <1>15, <1>16, <1>17, <1>18, <1>19, <1>20 DEF Next

\* The inductive invariant.
LEMMA ServerNext == IInv /\ [Next]_vars => IInv'
  BY ServerTypes, ServerLocks, ServerRegistered, ServerRunning, ServerRooms DEF IInv

THEOREM ServerInv == Spec => []IInv
<1>1. Init => IInv
  BY ServerInit
<1>2. IInv /\ [Next]_vars => IInv'
  BY ServerNext
<1> QED
  BY <1>1, <1>2, PTL DEF Spec

\* Whoever holds mu and whoever runs a script is a process of the program, and
\* every step of a handler is one the code has (manager.go, v8go.go, main.go).
THEOREM ServerTyped == Spec => []TypeOK
<1>1. IInv => TypeOK
  BY DEF IInv
<1> QED
  BY ServerInv, <1>1, PTL

\* However handlers, scripts and the clock take turns, the two registries,
\* which two locks guard, agree whenever mu is free, and a script finds the
\* connection of the session it has found; all else it ever sends to is the id
\* in the object that a load left in players, and the clock not even that
\* (manager.go, Add, Remove and SendToClient; go.js, talk.js).
THEOREM RegistriesSafe == Spec => [](SessionsHaveClients /\ SendFinds)
<1>1. IInv => SessionsHaveClients /\ SendFinds
  <2> SUFFICES ASSUME IInv, mu = Nobody PROVE SessionsHaveClients /\ SendFinds
    BY DEF SessionsHaveClients, SendFinds
  <2>1. \A c \in players : c \in clients
    BY ServerAssumption DEF IInv, TypeOK, LocksHeld, Registered
  <2>2. \A p \in Procs : pc[p] = "send" =>
            target[p] \in players \/ (p # Timer /\ target[p] = ghost)
    BY DEF IInv, Running
  <2> QED
    BY <2>1, <2>2 DEF SessionsHaveClients, SendFinds, From
<1> QED
  BY <1>1, ServerInv, PTL

\* A browser's room is its player's area at every read, although the handler
\* reads the area in a second script (websocket.go, Handle).
THEOREM RoomFollowsArea == Spec => []RoomIsCurrent
<1>1. IInv => RoomIsCurrent
  BY DEF IInv, Rooms, RoomOK, RoomNow, RoomIsCurrent, From
<1> QED
  BY <1>1, ServerInv, PTL

\* Registry's operators on this module's state.
RegistryStep == [Abstract!Next]_<<Status, ghost, heard>>

Outside(c) == pc[c] \in {"start", "add"}

\* What a step does not do to a connection's place in the registries.
Unmoved(c) == /\ Outside(c)' <=> Outside(c)
              /\ c \in clients' <=> c \in clients
              /\ c \in clients => (c \in players' <=> c \in players)

LEMMA StatusIs == \A c \in Conns :
    Status[c] = IF pc[c] \in {"start", "add"} THEN "new"
                ELSE IF c \notin clients THEN "left"
                ELSE IF c \in players THEN "joined" ELSE "quit"
  BY DEF Status

LEMMA StatusNext == \A c \in Conns :
    Status'[c] = IF pc'[c] \in {"start", "add"} THEN "new"
                 ELSE IF c \notin clients' THEN "left"
                 ELSE IF c \in players' THEN "joined" ELSE "quit"
  BY DEF Status

LEMMA StatusKept == ASSUME NEW c \in Conns, Unmoved(c) PROVE Status'[c] = Status[c]
<1>1. CASE Outside(c)
  BY <1>1, StatusIs, StatusNext DEF Unmoved, Outside
<1>2. CASE ~Outside(c) /\ c \in clients
  BY <1>2, StatusIs, StatusNext DEF Unmoved, Outside
<1>3. CASE ~Outside(c) /\ c \notin clients
  BY <1>3, StatusIs, StatusNext DEF Unmoved, Outside
<1> QED
  BY <1>1, <1>2, <1>3

\* A step that moves nobody is a stutter for Registry, one that moves a single
\* connection changes its status alone.
LEMMA SameStatus == ASSUME \A c \in Conns : Unmoved(c) PROVE Status' = Status
<1>1. \A c \in Conns : Status'[c] = Status[c]
  BY StatusKept
<1>2. Status' = [c \in Conns |-> Status'[c]] /\ Status = [c \in Conns |-> Status[c]]
  BY DEF Status
<1> QED
  BY <1>1, <1>2

LEMMA OneStatus ==
    ASSUME NEW c \in Conns, NEW after, Status'[c] = after,
           \A d \in Conns \ {c} : Unmoved(d)
    PROVE  Status' = [Status EXCEPT ![c] = after]
<1>1. \A d \in Conns \ {c} : Status'[d] = Status[d]
  BY StatusKept
<1>2. Status' = [d \in Conns |-> Status'[d]] /\ Status = [d \in Conns |-> Status[d]]
  BY DEF Status
<1> QED
  BY <1>1, <1>2

LEMMA RefineInit == Init => Abstract!Init
<1> SUFFICES ASSUME Init PROVE Abstract!Init
  OBVIOUS
<1>1. \A c \in Conns : Status[c] \in {"new", "joined"}
  BY ServerAssumption DEF Init, Status, Procs
<1>2. Status \in [Conns -> {"new", "joined"}]
  BY <1>1 DEF Status
<1>3. ghost \in {c \in Conns : Status[c] = "joined"} \cup {Nobody}
  BY ServerAssumption DEF Init, Status, Procs
<1> QED
  BY <1>2, <1>3 DEF Abstract!Init, Init

LEMMA RefineNext == IInv /\ [Next]_vars => RegistryStep
<1> SUFFICES ASSUME IInv, [Next]_vars PROVE RegistryStep
  OBVIOUS
<1>0. (Status' = Status /\ ghost' = ghost /\ heard' = heard) => RegistryStep
  BY DEF RegistryStep
<1>t. TypeOK
  BY DEF IInv
<1>l. LocksHeld
  BY DEF IInv
<1>r. Registered /\ Running
  BY DEF IInv
<1>1. ASSUME NEW c \in Conns, AddLock(c) PROVE RegistryStep
  <2>1. /\ pc[c] = "start" /\ pc' = [pc EXCEPT ![c] = "add"]
        /\ clients' = clients \cup {c} /\ players' = players
        /\ ghost' = ghost /\ heard' = heard
    BY <1>1 DEF AddLock, From, Goto
  <2>2. c \notin players /\ pc'[c] = "add"
    BY <1>t, <1>r, <2>1, ServerAssumption DEF TypeOK, Registered, Procs
  <2>3. \A d \in Conns \ {c} : Unmoved(d)
    BY <1>t, <2>1, ServerAssumption DEF Unmoved, Outside, TypeOK, Procs
  <2>4. \A d \in Conns \ {c} : Status'[d] = Status[d]
    BY <2>3, StatusKept
  <2>5. Status'[c] = Status[c]
    BY <2>1, <2>2, StatusIs, StatusNext
  <2>6. Status' = [d \in Conns |-> Status'[d]] /\ Status = [d \in Conns |-> Status[d]]
    BY DEF Status
  <2> QED
    BY <1>0, <2>1, <2>4, <2>5, <2>6
<1>2. ASSUME NEW c \in Conns, Message(c) PROVE RegistryStep
  <2>1. /\ heard' = heard /\ ghost' = ghost
        /\ \A d \in Conns : Unmoved(d)
    BY <1>2, <1>t, <1>r, ServerAssumption DEF Message, Registered, Unmoved, Outside, TypeOK, Procs, Goto, From, locks, world, local
  <2> QED
    BY <1>0, <2>1, SameStatus
<1>3. ASSUME NEW c \in Conns, Get(c) PROVE RegistryStep
  <2>1. /\ heard' = heard /\ ghost' = ghost
        /\ \A d \in Conns : Unmoved(d)
    BY <1>3, <1>t, <1>r, ServerAssumption DEF Get, Registered, Unmoved, Outside, TypeOK, Procs, Goto, From, locks, world, local
  <2> QED
    BY <1>0, <2>1, SameStatus
<1>4. ASSUME NEW c \in Conns, Begin(c) PROVE RegistryStep
  <2>1. /\ heard' = heard
        /\ \A d \in Conns : Unmoved(d)
    BY <1>4, <1>t, <1>r, ServerAssumption DEF Begin, Registered, Unmoved, Outside, TypeOK, Procs, Goto, From, locks, world, local
  <2>2. Status' = Status
    BY <2>1, SameStatus
  <2>3. CASE ghost' = ghost
    BY <1>0, <2>1, <2>2, <2>3
  <2>4. CASE ghost' # ghost
    <3>1. c \in players /\ ghost' \in {c, Nobody} /\ pc[c] = "cmd"
      BY <1>4, <2>4 DEF Begin, From
    <3>2. Status[c] = "joined"
      BY <1>r, <3>1, StatusIs DEF Registered
    <3>3. Abstract!Load(c)
      BY <2>1, <2>2, <3>1, <3>2 DEF Abstract!Load
    <3> QED
      BY <3>3 DEF RegistryStep, Abstract!Next
  <2> QED
    BY <2>3, <2>4
<1>5. ASSUME NEW c \in Conns, PickAll(c) PROVE RegistryStep
  <2>1. /\ heard' = heard /\ ghost' = ghost
        /\ \A d \in Conns : Unmoved(d)
    BY <1>5, <1>t, <1>r, ServerAssumption DEF PickAll, Registered, Unmoved, Outside, TypeOK, Procs, Goto, From, locks, world, local
  <2> QED
    BY <1>0, <2>1, SameStatus
<1>6. ASSUME NEW c \in Conns, Reply(c) PROVE RegistryStep
  <2>1. /\ heard' = heard /\ ghost' = ghost
        /\ \A d \in Conns : Unmoved(d)
    BY <1>6, <1>t, <1>r, ServerAssumption DEF Reply, Registered, Unmoved, Outside, TypeOK, Procs, Goto, From, locks, world, local
  <2> QED
    BY <1>0, <2>1, SameStatus
<1>7. ASSUME NEW c \in Conns, ReadArea(c) PROVE RegistryStep
  <2>1. /\ heard' = heard /\ ghost' = ghost
        /\ \A d \in Conns : Unmoved(d)
    BY <1>7, <1>t, <1>r, ServerAssumption DEF ReadArea, Registered, Unmoved, Outside, TypeOK, Procs, Goto, From, locks, world, local
  <2> QED
    BY <1>0, <2>1, SameStatus
<1>8. ASSUME NEW c \in Conns, UpdateRoom(c) PROVE RegistryStep
  <2>1. /\ heard' = heard /\ ghost' = ghost
        /\ \A d \in Conns : Unmoved(d)
    BY <1>8, <1>t, <1>r, ServerAssumption DEF UpdateRoom, Registered, Unmoved, Outside, TypeOK, Procs, Goto, From, locks, world, local
  <2> QED
    BY <1>0, <2>1, SameStatus
<1>9. ASSUME NEW c \in Conns, Fail(c) PROVE RegistryStep
  <2>1. /\ heard' = heard /\ ghost' = ghost
        /\ \A d \in Conns : Unmoved(d)
    BY <1>9, <1>t, <1>r, ServerAssumption DEF Fail, Registered, Unmoved, Outside, TypeOK, Procs, Goto, From, locks, world, local
  <2> QED
    BY <1>0, <2>1, SameStatus
<1>10. ASSUME NEW c \in Conns, RemoveRun(c) PROVE RegistryStep
  <2>1. /\ heard' = heard /\ ghost' = ghost
        /\ \A d \in Conns : Unmoved(d)
    BY <1>10, <1>t, <1>r, ServerAssumption DEF RemoveRun, Registered, Unmoved, Outside, TypeOK, Procs, Goto, From, locks, world, local
  <2> QED
    BY <1>0, <2>1, SameStatus
<1>11. ASSUME NEW c \in Conns, Clean(c) PROVE RegistryStep
  <2>1. /\ heard' = heard /\ ghost' = ghost
        /\ \A d \in Conns : Unmoved(d)
    BY <1>11, <1>t, <1>r, ServerAssumption DEF Clean, Registered, Unmoved, Outside, TypeOK, Procs, Goto, From, locks, world, local
  <2> QED
    BY <1>0, <2>1, SameStatus
<1>12. ASSUME NEW c \in Conns, AddRun(c) PROVE RegistryStep
  <2>1. Status[c] = "new" /\ Status'[c] = "joined" /\ heard' = heard /\ ghost' = ghost
    BY <1>12, <1>t, <1>l, <1>r, StatusIs, StatusNext, ServerAssumption DEF AddRun, TypeOK, LocksHeld, Registered, Running, InScript, Procs, Goto, From, locks, world, local
  <2>2. \A d \in Conns \ {c} : Unmoved(d)
    BY <1>12, <1>t, ServerAssumption DEF AddRun, Unmoved, Outside, TypeOK, Procs, Goto, From, locks, world, local
  <2>3. Status' = [Status EXCEPT ![c] = "joined"]
    BY <2>1, <2>2, OneStatus
  <2>4. Abstract!Join(c)
    BY <2>1, <2>3 DEF Abstract!Join, Abstract!Become
  <2> QED
    BY <2>4 DEF RegistryStep, Abstract!Next
<1>13. ASSUME NEW c \in Conns, RemoveLock(c) PROVE RegistryStep
  <2>1. Status[c] \in {"joined", "quit"} /\ Status'[c] = "left" /\ heard' = heard /\ ghost' = ghost
    BY <1>13, <1>t, <1>l, <1>r, StatusIs, StatusNext, ServerAssumption DEF RemoveLock, TypeOK, LocksHeld, Registered, Running, InScript, Procs, Goto, From, locks, world, local
  <2>2. \A d \in Conns \ {c} : Unmoved(d)
    BY <1>13, <1>t, ServerAssumption DEF RemoveLock, Unmoved, Outside, TypeOK, Procs, Goto, From, locks, world, local
  <2>3. Status' = [Status EXCEPT ![c] = "left"]
    BY <2>1, <2>2, OneStatus
  <2>4. Abstract!Leave(c)
    BY <2>1, <2>3 DEF Abstract!Leave, Abstract!Become
  <2> QED
    BY <2>4 DEF RegistryStep, Abstract!Next
<1>14. ASSUME NEW c \in Conns, End(c) PROVE RegistryStep
  <2>1. /\ Status[c] = "joined" /\ heard' = heard /\ ghost' = ghost /\ clients' = clients
        /\ \A d \in Conns : Outside(d)' <=> Outside(d)
        /\ c \in clients /\ pc'[c] \in {"reply", "read"}
    BY <1>14, <1>t, <1>l, <1>r, StatusIs, StatusNext, ServerAssumption DEF End, Outside, TypeOK, LocksHeld, Registered, Running, InScript, Procs, Goto, From, locks, world, local
  <2>2. CASE players' = players
    <3>1. \A d \in Conns : Unmoved(d)
      BY <2>1, <2>2 DEF Unmoved
    <3> QED
      BY <1>0, <2>1, <3>1, SameStatus
  <2>3. CASE players' = players \ {c}
    <3>1. Status'[c] = "quit"
      BY <2>1, <2>3, StatusNext
    <3>2. \A d \in Conns \ {c} : Unmoved(d)
      BY <2>1, <2>3 DEF Unmoved
    <3>3. Status' = [Status EXCEPT ![c] = "quit"]
      BY <3>1, <3>2, OneStatus
    <3>4. Abstract!Quit(c)
      BY <2>1, <3>3 DEF Abstract!Quit, Abstract!Become
    <3> QED
      BY <3>4 DEF RegistryStep, Abstract!Next
  <2> QED
    BY <1>14, <2>2, <2>3 DEF End
<1>15. ASSUME NEW c \in Conns, Broadcast(c) PROVE RegistryStep
  <2>1. Status' = Status
    <3>1. \A d \in Conns : Unmoved(d)
      BY <1>15, <1>t, ServerAssumption DEF Broadcast, Unmoved, Outside, TypeOK, Procs, Goto, From, locks, world, local
    <3> QED
      BY <3>1, SameStatus
  <2>2. \A d \in Conns : Status[d] \in {"joined", "quit"} <=> d \in clients
    BY <1>15, <1>l, <1>r, <1>t, StatusIs, ServerAssumption DEF Broadcast, TypeOK, LocksHeld, Registered, From
  <2>3. heard' = [d \in Conns |-> IF Status[d] \in {"joined", "quit"} THEN 1 - heard[d] ELSE heard[d]]
    BY <1>15, <2>2 DEF Broadcast
  <2>4. Abstract!Announce
    BY <1>15, <2>1, <2>3 DEF Broadcast, world, Abstract!Announce
  <2> QED
    BY <2>4 DEF RegistryStep, Abstract!Next
<1>16. ASSUME NEW p \in Procs, Pick(p) PROVE RegistryStep
  <2>1. /\ heard' = heard /\ ghost' = ghost
        /\ \A d \in Conns : Unmoved(d)
    BY <1>16, <1>t, <1>r, ServerAssumption DEF Pick, Registered, Unmoved, Outside, TypeOK, Procs, Goto, From, locks, world, local
  <2> QED
    BY <1>0, <2>1, SameStatus
<1>17. ASSUME NEW p \in Procs, Send(p) PROVE RegistryStep
  <2>1. Status' = Status
    <3>1. \A d \in Conns : Unmoved(d)
      BY <1>17, <1>t, ServerAssumption DEF Send, Unmoved, Outside, TypeOK, Procs, Goto, From, locks, world, local
    <3> QED
      BY <3>1, SameStatus
  <2>2. CASE target[p] \in clients
    <3>1. target[p] \in Conns /\ (target[p] \in players \/ target[p] = ghost)
      BY <1>17, <2>2, <1>r, <1>t, ServerAssumption DEF Send, From, Running, TypeOK
    <3>2. Status[target[p]] = "joined" \/ (Status[target[p]] = "quit" /\ target[p] = ghost)
      <4>1. pc[target[p]] # "start"
        BY <1>r, <2>2, <3>1 DEF Registered
      <4>2. mu = Nobody
        BY <1>17 DEF Send
      <4>3. pc[target[p]] # "add"
        BY <1>l, <3>1, <4>2, ServerAssumption DEF LocksHeld
      <4> QED
        BY <2>2, <3>1, <4>1, <4>3, StatusIs
    <3>3. heard' = [heard EXCEPT ![target[p]] = 1 - @] /\ ghost' = ghost
      BY <1>17, <2>2 DEF Send, world
    <3>4. Abstract!Tell(target[p])
      BY <2>1, <3>2, <3>3 DEF Abstract!Tell
    <3> QED
      BY <3>1, <3>4 DEF RegistryStep, Abstract!Next
  <2>3. CASE target[p] \notin clients
    BY <1>0, <1>17, <2>1, <2>3 DEF Send, world
  <2> QED
    BY <2>2, <2>3
<1>18. CASE Tick
  <2>1. /\ heard' = heard /\ ghost' = ghost
        /\ \A d \in Conns : Unmoved(d)
    BY <1>18, <1>t, <1>r, ServerAssumption DEF Tick, Registered, Unmoved, Outside, TypeOK, Procs, Goto, From, locks, world, local
  <2> QED
    BY <1>0, <2>1, SameStatus
<1>19. CASE TickEnd
  <2>1. /\ heard' = heard /\ ghost' = ghost
        /\ \A d \in Conns : Unmoved(d)
    BY <1>19, <1>t, <1>r, ServerAssumption DEF TickEnd, Registered, Unmoved, Outside, TypeOK, Procs, Goto, From, locks, world, local
  <2> QED
    BY <1>0, <2>1, SameStatus
<1>20. CASE UNCHANGED vars
  BY <1>0, <1>20 DEF vars, world, Status
<1> QED
  BY <1>1, <1>2, <1>3, <1>4, <1>5, <1>6, <1>7, <1>8, <1>9, <1>10, <1>11, <1>12,
     <1>13, <1>14, <1>15, <1>16, <1>17, <1>18, <1>19, <1>20 DEF Next

\* The goroutines with their two locks and two registries are a server with
\* one registry that joins and leaves at once, announces to everybody in it
\* and to nobody else, and speaks to a session that has ended only when it is
\* the one whose login left its shadow.
THEOREM RefinesRegistry == Spec => ImplementsRegistry
<1>1. Init => Abstract!Init
  BY RefineInit
<1>2. IInv /\ [Next]_vars => [Abstract!Next]_(Abstract!vars)
  BY RefineNext DEF RegistryStep, Abstract!vars
<1> QED
  BY <1>1, <1>2, ServerInv, PTL DEF Spec, ImplementsRegistry, Abstract!Spec
-----------------------------------------------------------------------------
(* The clock.                                                                *)

\* The phase announced last is that of the heartbeat, but for the first noon.
Announced == \/ currentTime = Phase(Hour(timeInterval))
             \/ timeInterval = 0 /\ currentTime = "noon"

ClockIInv == ClockTypes /\ Announced /\ TimersTracked

\* The hour is the sixtieth of the heartbeat.
LEMMA HourIs == \A n \in 0 .. 1439 : Hour(n) = n \div 60 /\ n \div 60 \in 0 .. 23
<1> TAKE n \in 0 .. 1439
<1>1. n \div 60 \in 0 .. 23
  OBVIOUS
<1>2. (n * 60 * 24) \div 86400 = n \div 60
  OBVIOUS
<1>3. (n \div 60) % 24 = n \div 60
  BY <1>1
<1>4. Hour(n) = ((n * 60 * 24) \div 86400) % 24
  BY DEF Hour, magnification
<1> QED
  BY <1>1, <1>2, <1>3, <1>4

LEMMA MaxHB == maxHB = 1440
  BY DEF maxHB, magnification

\* One beat later it is the same phase of the day or the one that follows.
LEMMA BeatPhase ==
    ASSUME NEW n \in 0 .. maxHB - 1
    PROVE  /\ Beat(n) \in 0 .. maxHB - 1
           /\ \/ Phase(Hour(Beat(n))) = Phase(Hour(n))
              \/ Phase(Hour(Beat(n))) = Following(Phase(Hour(n)))
<1>1. n \in 0 .. 1439 /\ Beat(n) \in 0 .. 1439
  BY MaxHB DEF Beat
<1>2. /\ Hour(n) = n \div 60 /\ n \div 60 \in 0 .. 23
      /\ Hour(Beat(n)) = Beat(n) \div 60 /\ Beat(n) \div 60 \in 0 .. 23
  <2>1. Hour(n) = n \div 60 /\ n \div 60 \in 0 .. 23
    BY <1>1, HourIs
  <2>2. Hour(Beat(n)) = Beat(n) \div 60 /\ Beat(n) \div 60 \in 0 .. 23
    <3>1. PICK m \in 0 .. 1439 : m = Beat(n)
      BY <1>1
    <3>2. Hour(m) = m \div 60 /\ m \div 60 \in 0 .. 23
      BY HourIs
    <3>3. Hour(Beat(n)) = Hour(m) /\ Beat(n) \div 60 = m \div 60
      BY <3>1
    <3> QED
      BY <3>2, <3>3
  <2> QED
    BY <2>1, <2>2
<1>3. \/ Hour(Beat(n)) = Hour(n) \/ Hour(Beat(n)) = Hour(n) + 1
      \/ Hour(n) = 23 /\ Hour(Beat(n)) = 0
  BY <1>1, <1>2, MaxHB DEF Beat
<1>4. Phase(Hour(Beat(n))) = Phase(Hour(n)) \/ Phase(Hour(Beat(n))) = Following(Phase(Hour(n)))
  <2> DEFINE h == Hour(n)
             k == Hour(Beat(n))
  <2>1. h \in 0 .. 23 /\ k \in 0 .. 23 /\ (k = h \/ k = h + 1 \/ (h = 23 /\ k = 0))
    BY <1>2, <1>3
  <2> HIDE DEF h, k
  <2>2. Phase(k) = Phase(h) \/ Phase(k) = Following(Phase(h))
    BY <2>1 DEF Phase, Following
  <2> QED
    BY <2>2 DEF h, k
<1> QED
  BY <1>1, <1>4, MaxHB

LEMMA PhaseType == ASSUME NEW hour \in 0 .. 23 PROVE Phase(hour) \in Phases
  BY DEF Phase, Phases

\* The day begins at midnight.
LEMMA MidnightFirst == Phase(Hour(Beat(0))) = "midnight" /\ Phase(Hour(0)) = "midnight"
<1>1. Beat(0) = 1
  BY MaxHB DEF Beat
<1>2. Hour(0) = 0 /\ Hour(1) = 0
  BY DEF Hour, magnification
<1> QED
  BY <1>1, <1>2 DEF Phase

LEMMA InitClock == ClockInit => ClockIInv
<1> SUFFICES ASSUME ClockInit PROVE ClockIInv
  OBVIOUS
<1>1. timeInterval \in 0 .. maxHB - 1 /\ timerID \in 0 .. MaxTimers
  BY ClockAssumption, MaxHB DEF ClockInit
<1>2. ClockTypes
  BY <1>1 DEF ClockInit, ClockTypes, Phases
<1>3. Announced /\ TimersTracked
  BY DEF ClockInit, Announced, TimersTracked
<1> QED
  BY <1>2, <1>3 DEF ClockIInv

\* A tick announces the phase that follows, or none.
LEMMA CallbackOrder == ASSUME ClockIInv, NEW id, Callback(id)
                   PROVE  /\ timeInterval' \in 0 .. maxHB - 1 /\ currentTime' \in Phases
                          /\ Announced'
                          /\ currentTime' # currentTime =>
                               \/ currentTime' = Following(currentTime)
                               \/ /\ timeInterval = 0 /\ currentTime = "noon"
                                  /\ currentTime' = "midnight"
<1>1. /\ timeInterval \in 0 .. maxHB - 1
      /\ timeInterval' = Beat(timeInterval) /\ currentTime' = Phase(Hour(timeInterval'))
  BY DEF ClockIInv, ClockTypes, Callback
<1>2. /\ timeInterval' \in 0 .. maxHB - 1
      /\ \/ currentTime' = Phase(Hour(timeInterval))
         \/ currentTime' = Following(Phase(Hour(timeInterval)))
  BY <1>1, BeatPhase
<1>3. currentTime' \in Phases
  <2>1. timeInterval' \in 0 .. 1439
    BY <1>2, MaxHB
  <2>2. Hour(timeInterval') \in 0 .. 23
    BY <2>1, HourIs
  <2> QED
    BY <1>1, <2>2, PhaseType
<1>4. CASE currentTime = Phase(Hour(timeInterval))
  BY <1>1, <1>2, <1>3, <1>4 DEF Announced
<1>5. CASE timeInterval = 0 /\ currentTime = "noon"
  BY <1>1, <1>2, <1>3, <1>5, MidnightFirst DEF Announced
<1> QED
  BY <1>4, <1>5 DEF ClockIInv, Announced

\* clearInterval finds nothing under the key it looks for.
LEMMA NothingCleared == ClockIInv => Cleared = {}
  BY DEF ClockIInv, ClockTypes, Cleared, LoadKey

LEMMA StepClock == ClockIInv /\ [ClockNext]_clockVars => ClockIInv'
<1> SUFFICES ASSUME ClockIInv, [ClockNext]_clockVars PROVE ClockIInv'
  OBVIOUS
<1> USE ClockAssumption DEF ClockTypes, TimersTracked, StoreKey
<1>1. CASE PreloadCache
  <2>1. /\ stopped' = stopped /\ timers' = timers \cup {<<"int64", timerID>>}
        /\ tickers' = tickers \cup {timerID}
        /\ timeIntervalId' = timerID /\ timerID' = timerID + 1 /\ timerID < MaxTimers
        /\ UNCHANGED <<timeInterval, currentTime, shutdown>>
    BY <1>1, NothingCleared DEF PreloadCache, UpdateTime, clock
  <2>2. ClockTypes'
    BY <2>1 DEF ClockIInv
  <2>3. Announced'
    BY <2>1 DEF ClockIInv, Announced
  <2>4. TimersTracked'
    BY <2>1 DEF ClockIInv
  <2> QED
    BY <2>2, <2>3, <2>4 DEF ClockIInv
<1>2. CASE Shutdown
  BY <1>2 DEF ClockIInv, Shutdown, clock, timing, Announced
<1>3. ASSUME NEW id \in tickers, Callback(id) PROVE ClockIInv'
  <2>1. /\ timeInterval' \in 0 .. maxHB - 1 /\ currentTime' \in Phases /\ Announced'
    BY <1>3, CallbackOrder
  <2> QED
    BY <1>3, <2>1 DEF ClockIInv, Callback, timing
<1>4. ASSUME NEW id \in tickers, TickerExit(id) PROVE ClockIInv'
  <2>1. /\ timers' = timers \ {<<"int64", id>>} /\ tickers' = tickers \ {id}
        /\ UNCHANGED <<timeInterval, currentTime, timeIntervalId, timerID, stopped, shutdown>>
    BY <1>4 DEF TickerExit, clock
  <2>2. ClockTypes' /\ TimersTracked'
    BY <2>1 DEF ClockIInv
  <2>3. Announced'
    BY <2>1 DEF ClockIInv, Announced
  <2> QED
    BY <2>2, <2>3 DEF ClockIInv
<1>5. CASE UNCHANGED clockVars
  BY <1>5 DEF ClockIInv, clockVars, clock, timing, Announced
<1> QED
  BY <1>1, <1>2, <1>3, <1>4, <1>5 DEF ClockNext

THEOREM ClockInv == ClockSpec => []ClockIInv
<1>1. ClockInit => ClockIInv
  BY InitClock
<1>2. ClockIInv /\ [ClockNext]_clockVars => ClockIInv'
  BY StepClock
<1> QED
  BY <1>1, <1>2, PTL DEF ClockSpec

\* The heartbeat stays within the day, and every goroutine that ticks is in
\* the map of timers, whatever is reloaded (cache.js, interval.go).
THEOREM ClockSafe == ClockSpec => [](ClockTypes /\ TimersTracked)
<1>1. ClockIInv => ClockTypes /\ TimersTracked
  BY DEF ClockIInv
<1> QED
  BY <1>1, ClockInv, PTL

\* Players hear the phases of the day in their order, however many clocks run
\* at once (cache.js).
THEOREM PhasesInOrder == ClockSpec => PhaseOrder
<1>1. ClockIInv /\ [ClockNext]_clockVars => [currentTime' # currentTime =>
        \/ currentTime' = Following(currentTime)
        \/ timeInterval = 0 /\ currentTime = "noon" /\ currentTime' = "midnight"]_clockVars
  <2> SUFFICES ASSUME ClockIInv, ClockNext, currentTime' # currentTime
               PROVE  \/ currentTime' = Following(currentTime)
                      \/ timeInterval = 0 /\ currentTime = "noon" /\ currentTime' = "midnight"
    OBVIOUS
  <2>1. PICK id \in tickers : Callback(id)
    BY DEF ClockNext, PreloadCache, Shutdown, TickerExit, clock
  <2> QED
    BY <2>1, CallbackOrder
<1> QED
  BY <1>1, ClockInv, PTL DEF ClockSpec, PhaseOrder
=============================================================================

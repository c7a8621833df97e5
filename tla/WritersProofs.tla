--------------------------- MODULE WritersProofs ---------------------------
(***************************************************************************)
(* The writers of a connection, for any goroutines.                        *)
(*                                                                         *)
(* The argument: a goroutine in a loop over clients holds mu, and one that *)
(* writes without mu writes to its own connection (LoopsHold, RepliesOwn). *)
(* So one loop runs at a time, and while it does its broadcast is the last *)
(* that any connection has been sent (LastInLoop).                         *)
(***************************************************************************)
EXTENDS Writers, SequenceTheorems, TLAPS

W == {"check", "write", "end"}

LoopsHold == /\ \A p \in Procs : pc[p] = "send" => mu = p
             /\ \A p \in all : mu = p
RepliesOwn == \A p \in Procs :
    /\ pc[p] \in W => to[p] \in Browsers
    /\ pc[p] \in W /\ mu # p => to[p] = p
    /\ pc[p] \in {"new", "reply", "left"} => p \in Browsers
HolderLoops == \A p \in Procs : mu = p => pc[p] \in W \cup {"send"}
LockInv == TypeOK /\ (up => LoopsHold /\ RepliesOwn /\ HolderLoops)

Heard == \A c \in Browsers : \A i \in 1 .. Len(got[c]) : got[c][i] \in said
LastInLoop == \A p \in all : \A c \in Browsers : \A i \in 1 .. Len(got[c]) :
    got[c][i] = p => /\ i = Len(got[c])
                     /\ c \notin todo[p]
                     /\ ~ (pc[p] \in {"check", "write"} /\ to[p] = c)
Once == \A p \in all : pc[p] \in {"check", "write"} => to[p] \notin todo[p]
OrderInv == Heard /\ LastInLoop /\ Once /\ SameOrder

LEMMA InitLock == Init => LockInv
  <1> SUFFICES ASSUME Init PROVE LockInv  OBVIOUS
  <1> USE WritersAssumption DEF WritersAssumption, Init, Procs
  <1>1. got \in [Browsers -> Seq(Procs)]  BY EmptySeq
  <1>2. isWriting \in [Browsers -> BOOLEAN] /\ up \in BOOLEAN  BY Zenon
  <1>3. TypeOK
    <2> HIDE DEF Procs
    <2>1. pc \in [Procs -> {"new", "idle", "send", "reply", "check", "write", "end",
                            "left", "failed", "lost"}]
      OBVIOUS
    <2>2. lines \in [Browsers -> 0 .. 4]  OBVIOUS
    <2>3. todo \in [Procs -> SUBSET Browsers] /\ to \in [Procs -> Browsers \cup {Nobody}]
      OBVIOUS
    <2>4. mu \in Procs \cup {Nobody} /\ clients \subseteq Browsers
          /\ all \subseteq said /\ said \subseteq Procs
      OBVIOUS
    <2> HIDE DEF Init
    <2> QED  BY <1>1, <1>2, <2>1, <2>2, <2>3, <2>4 DEF TypeOK
  <1>4. LoopsHold /\ RepliesOwn /\ HolderLoops
    BY DEF LoopsHold, RepliesOwn, HolderLoops, W
  <1> QED  BY <1>3, <1>4 DEF LockInv

-----------------------------------------------------------------------------
(* Locks and connections.                                                    *)

LEMMA JoinLock == ASSUME LockInv, NEW c \in Browsers, Join(c) PROVE LockInv'
  <1> USE WritersAssumption DEF WritersAssumption, Procs, LockInv, Join, At, Goto
  <1>1. TypeOK'  BY DEF TypeOK, loop
  <1>2. LoopsHold' /\ RepliesOwn' /\ HolderLoops'
    BY DEF TypeOK, loop, LoopsHold, RepliesOwn, HolderLoops, W
  <1> QED  BY <1>1, <1>2

LEMMA LeaveLock == ASSUME LockInv, NEW c \in Browsers, Leave(c) PROVE LockInv'
  <1> USE WritersAssumption DEF WritersAssumption, Procs, LockInv, Leave, At, Goto
  <1>1. TypeOK'  BY DEF TypeOK, loop
  <1>2. LoopsHold' /\ RepliesOwn' /\ HolderLoops'
    BY DEF TypeOK, loop, LoopsHold, RepliesOwn, HolderLoops, W
  <1> QED  BY <1>1, <1>2

LEMMA ReplyLock == ASSUME LockInv, NEW c \in Browsers, Reply(c) PROVE LockInv'
  <1> USE WritersAssumption DEF WritersAssumption, Procs, LockInv, Reply, At, Goto
  <1>1. TypeOK'  BY DEF TypeOK, loop
  <1>2. LoopsHold' /\ RepliesOwn' /\ HolderLoops'
    BY DEF TypeOK, loop, LoopsHold, RepliesOwn, HolderLoops, W
  <1> QED  BY <1>1, <1>2

LEMMA NextLineLock == ASSUME LockInv, NEW c \in Browsers, NextLine(c) PROVE LockInv'
  <1> USE WritersAssumption DEF WritersAssumption, Procs, LockInv, NextLine, At, Goto
  <1>1. TypeOK'
    <2>1. CASE lines[c] = 0  BY <2>1 DEF TypeOK, loop
    <2>2. CASE lines[c] # 0
      <3>1. lines[c] - 1 \in 0 .. 4  BY <2>2 DEF TypeOK
      <3>2. lines' \in [Browsers -> 0 .. 4]
        <4>1. lines \in [Browsers -> 0 .. 4]  BY DEF TypeOK
        <4>2. lines' = [lines EXCEPT ![c] = lines[c] - 1]  BY <2>2
        <4> HIDE DEF LockInv, NextLine
        <4> QED  BY <3>1, <4>1, <4>2
      <3>3. to' \in [Procs -> Browsers \cup {Nobody}]
        <4>1. to \in [Procs -> Browsers \cup {Nobody}]  BY DEF TypeOK
        <4>2. to' = [to EXCEPT ![c] = c]  BY <2>2
        <4> HIDE DEF LockInv, NextLine
        <4> QED  BY <4>1, <4>2
      <3> QED  BY <2>2, <3>2, <3>3 DEF TypeOK, loop
    <2> QED  BY <2>1, <2>2
  <1>2. LoopsHold' /\ RepliesOwn' /\ HolderLoops'
    BY DEF TypeOK, loop, LoopsHold, RepliesOwn, HolderLoops, W
  <1> QED  BY <1>1, <1>2

LEMMA SendToClientLock == ASSUME LockInv, NEW p \in Procs, SendToClient(p) PROVE LockInv'
  <1> USE WritersAssumption DEF WritersAssumption, LockInv, SendToClient, Lock, At, Goto
  <1>1. TypeOK'  BY DEF TypeOK
  <1>2. LoopsHold' /\ RepliesOwn' /\ HolderLoops'
    BY DEF TypeOK, Procs, LoopsHold, RepliesOwn, HolderLoops, W
  <1> QED  BY <1>1, <1>2

LEMMA BroadcastLock == ASSUME LockInv, NEW p \in Procs, Broadcast(p) PROVE LockInv'
  <1> USE WritersAssumption DEF WritersAssumption, LockInv, Broadcast, Lock, At, Goto
  <1>1. TypeOK'  BY DEF TypeOK
  <1>2. LoopsHold' /\ RepliesOwn' /\ HolderLoops'
    BY DEF TypeOK, Procs, LoopsHold, RepliesOwn, HolderLoops, W
  <1> QED  BY <1>1, <1>2

LEMMA NextClientLock == ASSUME LockInv, NEW p \in Procs, NextClient(p) PROVE LockInv'
  <1> USE WritersAssumption DEF WritersAssumption, LockInv, NextClient, At, Goto
  <1>1. TypeOK'  BY DEF TypeOK
  <1>2. LoopsHold' /\ RepliesOwn' /\ HolderLoops'
    BY DEF TypeOK, LoopsHold, RepliesOwn, HolderLoops, W
  <1> QED  BY <1>1, <1>2

LEMMA UnlockLock == ASSUME LockInv, NEW p \in Procs, Unlock(p) PROVE LockInv'
  <1> USE WritersAssumption DEF WritersAssumption, LockInv, Unlock, At, Goto
  <1>1. TypeOK'  BY DEF TypeOK
  <1>2. LoopsHold' /\ RepliesOwn' /\ HolderLoops'
    BY DEF TypeOK, Procs, LoopsHold, RepliesOwn, HolderLoops, W
  <1> QED  BY <1>1, <1>2

LEMMA PanicLock ==
    ASSUME LockInv, NEW p \in Procs, up, pc[p] \in W, Panic(p)
    PROVE  LockInv'
  <1> USE WritersAssumption DEF WritersAssumption, LockInv, Panic, Goto
  <1>1. CASE p \in Browsers
    <2>1. TypeOK'  BY <1>1 DEF TypeOK
    <2>2. LoopsHold' /\ RepliesOwn' /\ HolderLoops'
      BY <1>1 DEF TypeOK, Procs, LoopsHold, RepliesOwn, HolderLoops, W
    <2> QED  BY <2>1, <2>2
  <1>2. CASE p \notin Browsers
    <2>1. TypeOK'  BY <1>2 DEF TypeOK
    <2> QED  BY <1>2, <2>1
  <1> QED  BY <1>1, <1>2

LEMMA CheckLock == ASSUME LockInv, NEW p \in Procs, Check(p) PROVE LockInv'
  <1>1. up /\ pc[p] \in W  BY DEF Check, At, W
  <1>2. CASE Panic(p)  BY <1>1, <1>2, PanicLock
  <1>3. CASE ~isWriting[to[p]] /\ Goto(p, "write")
             /\ UNCHANGED <<up, mu, clients, loop, lines, to, isWriting, got>>
    <2> USE DEF LockInv, Goto, loop
    <2>1. TypeOK'  BY <1>3 DEF TypeOK
    <2>2. LoopsHold' /\ RepliesOwn' /\ HolderLoops'
      BY <1>1, <1>3 DEF TypeOK, LoopsHold, RepliesOwn, HolderLoops, W
    <2> QED  BY <2>1, <2>2
  <1> QED  BY <1>2, <1>3 DEF Check

LEMMA WriteLock == ASSUME LockInv, NEW p \in Procs, Write(p) PROVE LockInv'
  <1> USE DEF LockInv, Write, At, Goto, loop
  <1>1. to[p] \in Browsers  BY DEF RepliesOwn, W
  <1>2. got' \in [Browsers -> Seq(Procs)]
    <2>1. Append(got[to[p]], p) \in Seq(Procs)  BY <1>1, AppendProperties DEF TypeOK
    <2> QED  BY <1>1, <2>1 DEF TypeOK
  <1>3. TypeOK'  BY <1>1, <1>2 DEF TypeOK
  <1>4. LoopsHold' /\ RepliesOwn' /\ HolderLoops'
    BY DEF TypeOK, LoopsHold, RepliesOwn, HolderLoops, W
  <1> QED  BY <1>3, <1>4

LEMMA EndWriteLock == ASSUME LockInv, NEW p \in Procs, EndWrite(p) PROVE LockInv'
  <1>1. up /\ pc[p] \in W  BY DEF EndWrite, At, W
  <1>2. CASE Panic(p)  BY <1>1, <1>2, PanicLock
  <1>3. CASE isWriting' = [isWriting EXCEPT ![to[p]] = FALSE]
             /\ Goto(p, IF mu = p THEN "send" ELSE "reply")
             /\ UNCHANGED <<up, mu, clients, loop, lines, to, got>>
    <2> USE WritersAssumption DEF WritersAssumption, LockInv, Goto, loop
    <2>1. TypeOK'  BY <1>3 DEF TypeOK
    <2>2. mu # p => p \in Browsers  BY <1>1 DEF RepliesOwn
    <2>3. LoopsHold' /\ RepliesOwn' /\ HolderLoops'
      BY <1>1, <1>3, <2>2 DEF TypeOK, LoopsHold, RepliesOwn, HolderLoops, W
    <2> QED  BY <2>1, <2>3
  <1> QED  BY <1>2, <1>3 DEF EndWrite

LEMMA StepLock == LockInv /\ [Next]_vars => LockInv'
  <1> SUFFICES ASSUME LockInv, [Next]_vars PROVE LockInv'  OBVIOUS
  <1>1. ASSUME NEW c \in Browsers, Join(c) \/ Leave(c) \/ Reply(c) \/ NextLine(c)
        PROVE LockInv'
    BY <1>1, JoinLock, LeaveLock, ReplyLock, NextLineLock
  <1>2. ASSUME NEW p \in Procs, SendToClient(p) \/ Broadcast(p) \/ NextClient(p) \/ Unlock(p)
        PROVE LockInv'
    BY <1>2, SendToClientLock, BroadcastLock, NextClientLock, UnlockLock
  <1>3. ASSUME NEW p \in Procs, Check(p) \/ Write(p) \/ EndWrite(p) PROVE LockInv'
    BY <1>3, CheckLock, WriteLock, EndWriteLock
  <1>4. CASE UNCHANGED vars
    BY <1>4 DEF vars, loop, LockInv, TypeOK, LoopsHold, RepliesOwn, HolderLoops
  <1> QED  BY <1>1, <1>2, <1>3, <1>4 DEF Next

\* Locks, loops and connections keep their types (manager.go:36-40).
THEOREM WriterTypes == Spec => []TypeOK
  <1>1. LockInv => TypeOK  BY DEF LockInv
  <1> QED  BY InitLock, StepLock, <1>1, PTL DEF Spec

\* Two writers of one connection are its handler with a reply and the holder of
\* mu: no two loops over clients meet (manager.go:127-151, websocket.go:45, 79-91).
THEOREM LoopsApart == Spec => []OnlyRepliesCollide
  <1>1. LockInv => OnlyRepliesCollide
    <2> SUFFICES ASSUME LockInv, NEW p \in Procs, NEW q \in Procs,
                        p # q, Writing(p), Writing(q), to[p] = to[q]
                 PROVE  to[p] \in {p, q} \ {mu}
      BY DEF OnlyRepliesCollide
    <2>1. up /\ pc[p] \in W /\ pc[q] \in W  BY DEF Writing, W
    <2>2. CASE mu = p  BY <2>1, <2>2 DEF LockInv, RepliesOwn
    <2>3. CASE mu # p  BY <2>1, <2>3 DEF LockInv, RepliesOwn
    <2> QED  BY <2>2, <2>3
  <1> QED  BY InitLock, StepLock, <1>1, PTL DEF Spec
-----------------------------------------------------------------------------
(* The order of broadcasts.                                                  *)

LEMMA InitOrder == Init => OrderInv
  <1> SUFFICES ASSUME Init PROVE OrderInv  OBVIOUS
  <1>1. \A c \in Browsers : Len(got[c]) = 0  BY EmptySeq DEF Init
  <1>2. Heard  BY <1>1 DEF Heard
  <1>3. LastInLoop  BY DEF Init, LastInLoop
  <1>4. SameOrder  BY <1>1 DEF SameOrder, Before
  <1>5. Once  BY DEF Init, Once
  <1> QED  BY <1>2, <1>3, <1>4, <1>5 DEF OrderInv

\* A step that sends nobody a broadcast
LEMMA StillOrder ==
    ASSUME OrderInv, got' = got, said \subseteq said', all' \subseteq all,
           \A p \in all' : /\ todo'[p] = todo[p]
                           /\ to'[p] = to[p]
                           /\ pc'[p] \in {"check", "write"} => pc[p] \in {"check", "write"}
    PROVE  OrderInv'
  <1>1. Heard'  BY DEF OrderInv, Heard
  <1>2. LastInLoop'
    <2> SUFFICES ASSUME NEW p \in all', NEW c \in Browsers, NEW i \in 1 .. Len(got[c]),
                        got[c][i] = p
                 PROVE  /\ i = Len(got[c])
                        /\ c \notin todo'[p]
                        /\ ~ (pc'[p] \in {"check", "write"} /\ to'[p] = c)
      BY DEF LastInLoop
    <2>1. p \in all  OBVIOUS
    <2>2. /\ i = Len(got[c]) /\ c \notin todo[p]
          /\ ~ (pc[p] \in {"check", "write"} /\ to[p] = c)
      BY <2>1 DEF OrderInv, LastInLoop
    <2>3. /\ todo'[p] = todo[p] /\ to'[p] = to[p]
          /\ pc'[p] \in {"check", "write"} => pc[p] \in {"check", "write"}
      OBVIOUS
    <2> QED  BY <2>2, <2>3
  <1>3. SameOrder'  BY DEF OrderInv, SameOrder, Before
  <1>4. Once'
    <2> SUFFICES ASSUME NEW p \in all', pc'[p] \in {"check", "write"}
                 PROVE  to'[p] \notin todo'[p]
      BY DEF Once
    <2>1. p \in all  OBVIOUS
    <2>2. todo'[p] = todo[p] /\ to'[p] = to[p] /\ pc[p] \in {"check", "write"}
      OBVIOUS
    <2> QED  BY <2>1, <2>2 DEF OrderInv, Once
  <1> QED  BY <1>1, <1>2, <1>3, <1>4 DEF OrderInv

LEMMA HandlerOrder ==
    ASSUME LockInv, OrderInv, NEW c \in Browsers,
           Join(c) \/ Leave(c) \/ Reply(c) \/ NextLine(c)
    PROVE  OrderInv'
  <1> USE WritersAssumption DEF WritersAssumption, Join, Leave, Reply, NextLine, At, Goto, loop
  <1>1. up /\ c \notin all
    BY DEF LockInv, TypeOK, Procs, LoopsHold, HolderLoops, W
  <1>2. \A p \in all' : to'[p] = to[p] /\ pc'[p] = pc[p]
    <2>1. all' = all /\ all \subseteq Procs  BY DEF LockInv, TypeOK
    <2>2. \A p \in Procs \ {c} : pc'[p] = pc[p]  BY DEF LockInv, TypeOK
    <2>3. \A p \in Procs \ {c} : to'[p] = to[p]
      <3>1. to' = to \/ to' = [to EXCEPT ![c] = c]  OBVIOUS
      <3> QED  BY <3>1 DEF LockInv, TypeOK
    <2> HIDE DEF Join, Leave, Reply, NextLine
    <2> QED  BY <1>1, <2>1, <2>2, <2>3
  <1>3. got' = got /\ said' = said /\ all' = all /\ todo' = todo  OBVIOUS
  <1> HIDE DEF Join, Leave, Reply, NextLine
  <1> QED  BY <1>2, <1>3, StillOrder

LEMMA SendToClientOrder ==
    ASSUME LockInv, OrderInv, NEW p \in Procs, SendToClient(p) PROVE OrderInv'
  <1> USE DEF SendToClient, Lock, At, Goto
  <1>1. p \notin all
    BY WritersAssumption DEF WritersAssumption, LockInv, TypeOK, Procs, LoopsHold, HolderLoops, W
  <1>2. \A q \in all' : todo'[q] = todo[q] /\ to'[q] = to[q] /\ pc'[q] = pc[q]
    BY <1>1 DEF LockInv, TypeOK
  <1>3. got' = got /\ said' = said /\ all' = all  OBVIOUS
  <1> HIDE DEF SendToClient
  <1> QED  BY <1>2, <1>3, StillOrder

\* A goroutine that has not broadcast is in nobody's record.
LEMMA BroadcastOrder ==
    ASSUME LockInv, OrderInv, NEW p \in Procs, Broadcast(p) PROVE OrderInv'
  <1> USE DEF Broadcast, Lock, At, Goto, OrderInv
  <1>1. \A c \in Browsers : \A i \in 1 .. Len(got[c]) : got[c][i] # p
    BY DEF Heard
  <1>2. Heard'  BY DEF Heard
  <1>3. LastInLoop'
    <2>1. \A q \in all : q # p => todo'[q] = todo[q] /\ to'[q] = to[q] /\ pc'[q] = pc[q]
      BY DEF LockInv, TypeOK
    <2>2. got' = got /\ all' = all \cup {p}  OBVIOUS
    <2> HIDE DEF Broadcast, Lock
    <2> QED  BY <1>1, <2>1, <2>2 DEF LastInLoop
  <1>4. SameOrder'  BY DEF SameOrder, Before
  <1>5. Once'
    <2>1. pc'[p] = "send" /\ all' = all \cup {p}  BY DEF LockInv, TypeOK
    <2>2. \A q \in all : q # p => todo'[q] = todo[q] /\ to'[q] = to[q] /\ pc'[q] = pc[q]
      BY DEF LockInv, TypeOK
    <2> HIDE DEF Broadcast, Lock
    <2> QED  BY <2>1, <2>2 DEF Once
  <1> QED  BY <1>2, <1>3, <1>4, <1>5

LEMMA NextClientOrder ==
    ASSUME LockInv, OrderInv, NEW p \in Procs, NextClient(p) PROVE OrderInv'
  <1> USE DEF NextClient, At, Goto, OrderInv
  <1>1. Heard' /\ SameOrder'  BY DEF Heard, SameOrder, Before
  <1>2. PICK c \in todo[p] : /\ to' = [to EXCEPT ![p] = c]
                             /\ todo' = [todo EXCEPT ![p] = @ \ {c}]
    OBVIOUS
  <1>3. /\ to'[p] = c /\ todo'[p] = todo[p] \ {c}
        /\ \A q \in Procs \ {p} : todo'[q] = todo[q] /\ to'[q] = to[q] /\ pc'[q] = pc[q]
    BY <1>2 DEF LockInv, TypeOK
  <1>4. got' = got /\ all' = all /\ all \subseteq Procs  BY DEF LockInv, TypeOK
  <1>5. LastInLoop'
    <2> HIDE DEF NextClient
    <2> QED  BY <1>2, <1>3, <1>4 DEF LastInLoop
  <1>6. Once'
    <2> HIDE DEF NextClient
    <2> QED  BY <1>3, <1>4 DEF Once
  <1> QED  BY <1>1, <1>5, <1>6

LEMMA UnlockOrder ==
    ASSUME LockInv, OrderInv, NEW p \in Procs, Unlock(p) PROVE OrderInv'
  <1> USE DEF Unlock, At, Goto
  <1>1. \A q \in all' : todo'[q] = todo[q] /\ to'[q] = to[q] /\ pc'[q] = pc[q]
    BY DEF LockInv, TypeOK
  <1>2. got' = got /\ said' = said /\ all' \subseteq all  OBVIOUS
  <1> HIDE DEF Unlock
  <1> QED  BY <1>1, <1>2, StillOrder

LEMMA PanicOrder ==
    ASSUME LockInv, OrderInv, NEW p \in Procs, Panic(p) PROVE OrderInv'
  <1> USE DEF Panic, Goto
  <1>1. \A q \in all' : todo'[q] = todo[q] /\ to'[q] = to[q] /\ pc'[q] = pc[q]
    BY DEF LockInv, TypeOK
  <1>2. got' = got /\ said' = said /\ all' \subseteq all  OBVIOUS
  <1> HIDE DEF Panic
  <1> QED  BY <1>1, <1>2, StillOrder

LEMMA CheckOrder ==
    ASSUME LockInv, OrderInv, NEW p \in Procs, Check(p) PROVE OrderInv'
  <1>1. CASE Panic(p)  BY <1>1, PanicOrder
  <1>2. CASE pc[p] = "check" /\ Goto(p, "write")
             /\ UNCHANGED <<up, mu, clients, loop, lines, to, isWriting, got>>
    <2>1. \A q \in all : pc'[q] \in {"check", "write"} => pc[q] \in {"check", "write"}
      BY <1>2 DEF LockInv, TypeOK, Goto
    <2> QED  BY <1>2, <2>1, StillOrder DEF loop
  <1> QED  BY <1>1, <1>2 DEF Check, At

LEMMA EndWriteOrder ==
    ASSUME LockInv, OrderInv, NEW p \in Procs, EndWrite(p) PROVE OrderInv'
  <1>1. CASE Panic(p)  BY <1>1, PanicOrder
  <1>2. CASE Goto(p, IF mu = p THEN "send" ELSE "reply")
             /\ UNCHANGED <<up, mu, clients, loop, lines, to, got>>
    <2>1. \A q \in all : pc'[q] \in {"check", "write"} => pc[q] \in {"check", "write"}
      BY <1>2 DEF LockInv, TypeOK, Goto
    <2> QED  BY <1>2, <2>1, StillOrder DEF loop
  <1> QED  BY <1>1, <1>2 DEF EndWrite

\* A broadcast is written behind all that the connection has been sent, and
\* nothing is behind it anywhere else.
LEMMA WriteOrder ==
    ASSUME LockInv, OrderInv, NEW p \in Procs, Write(p) PROVE OrderInv'
  <1> USE DEF Write, At, Goto, loop
  <1>0. all' = all /\ said' = said /\ todo' = todo /\ to' = to  OBVIOUS
  <1>1. \A q \in all : pc'[q] \in {"check", "write"} => pc[q] \in {"check", "write"}
    BY DEF LockInv, TypeOK
  <1>2. CASE p \notin all
    <2>1. got' = got  BY <1>2
    <2> HIDE DEF Write
    <2> QED  BY <1>0, <1>1, <2>1, StillOrder
  <1>3. CASE p \in all
    <2> DEFINE c == to[p]
    <2>1. c \in Browsers /\ up  BY DEF LockInv, RepliesOwn, W
    <2>2. /\ got[c] \in Seq(Procs) /\ Len(got[c]) \in Nat
          /\ got'[c] = Append(got[c], p)
          /\ \A d \in Browsers \ {c} : got'[d] = got[d]
      BY <1>3, <2>1, LenProperties DEF LockInv, TypeOK
    <2>3. /\ Len(got'[c]) = Len(got[c]) + 1
          /\ got'[c][Len(got[c]) + 1] = p
          /\ \A i \in 1 .. Len(got[c]) : got'[c][i] = got[c][i]
      BY <2>2, AppendProperties
    <2>4. /\ \A i \in 1 .. Len(got[c]) : got[c][i] # p
          /\ \A d \in Browsers : \A i \in 1 .. Len(got[d]) : got[d][i] = p => i = Len(got[d])
      BY <1>3, <2>1 DEF OrderInv, LastInLoop
    <2>5. \A q \in all : q = p
      BY <1>3, <2>1 DEF LockInv, LoopsHold
    <2>6. pc'[p] = "end"  BY DEF LockInv, TypeOK
    <2>7. c \notin todo[p]  BY <1>3 DEF OrderInv, Once
    <2>8. p \in said /\ all \subseteq Procs  BY <1>3 DEF LockInv, TypeOK
    <2> HIDE DEF Write, c
    <2>9. \A d \in Browsers : \A i \in 1 .. Len(got'[d]) :
             \/ i \in 1 .. Len(got[d]) /\ got'[d][i] = got[d][i]
             \/ d = c /\ i = Len(got[c]) + 1 /\ got'[d][i] = p
      <3> SUFFICES ASSUME NEW d \in Browsers, NEW i \in 1 .. Len(got'[d])
                   PROVE  \/ i \in 1 .. Len(got[d]) /\ got'[d][i] = got[d][i]
                          \/ d = c /\ i = Len(got[c]) + 1 /\ got'[d][i] = p
        OBVIOUS
      <3>1. CASE d = c  BY <2>2, <2>3, <3>1
      <3>2. CASE d # c  BY <2>2, <3>2
      <3> QED  BY <3>1, <3>2
    <2>10. Heard'
      <3> SUFFICES ASSUME NEW d \in Browsers, NEW i \in 1 .. Len(got'[d])
                   PROVE  got'[d][i] \in said
        BY <1>0 DEF Heard
      <3>1. CASE i \in 1 .. Len(got[d]) /\ got'[d][i] = got[d][i]
        BY <3>1 DEF OrderInv, Heard
      <3> QED  BY <2>8, <2>9, <3>1
    <2>11. \A d \in Browsers : \A i \in 1 .. Len(got'[d]) : got'[d][i] = p => i = Len(got'[d])
      <3> SUFFICES ASSUME NEW d \in Browsers, NEW i \in 1 .. Len(got'[d]), got'[d][i] = p
                   PROVE  i = Len(got'[d])
        OBVIOUS
      <3>1. CASE d = c
        <4>1. i \notin 1 .. Len(got[c])  BY <2>3, <2>4, <3>1
        <4> QED  BY <2>3, <2>9, <3>1, <4>1
      <3>2. CASE d # c  BY <2>2, <2>4, <3>2
      <3> QED  BY <3>1, <3>2
    <2>12. \A d \in Browsers : \A i \in 1 .. Len(got'[d]) : got'[d][i] = p => d \notin todo[p]
      <3> SUFFICES ASSUME NEW d \in Browsers, NEW i \in 1 .. Len(got'[d]), got'[d][i] = p
                   PROVE  d \notin todo[p]
        OBVIOUS
      <3>1. CASE d = c  BY <2>7, <3>1
      <3>2. CASE d # c
        <4>1. i \in 1 .. Len(got[d]) /\ got[d][i] = p  BY <2>2, <3>2
        <4> QED  BY <1>3, <4>1 DEF OrderInv, LastInLoop
      <3> QED  BY <3>1, <3>2
    <2>13. LastInLoop'
      <3> SUFFICES ASSUME NEW d \in Browsers, NEW i \in 1 .. Len(got'[d]), got'[d][i] = p
                   PROVE  i = Len(got'[d]) /\ d \notin todo[p]
        BY <1>0, <2>5, <2>6 DEF LastInLoop
      <3> QED  BY <2>11, <2>12
    <2>14. Once'  BY <1>0, <2>5, <2>6 DEF Once
    <2>15. SameOrder'
      <3> SUFFICES ASSUME NEW d \in Browsers, NEW e \in Browsers,
                          NEW q \in Procs, NEW r \in Procs,
                          Before(d, q, r)', Before(e, r, q)'
                   PROVE  FALSE
        BY DEF SameOrder
      <3>1. PICK i, j \in 1 .. Len(got'[d]) : i < j /\ got'[d][i] = q /\ got'[d][j] = r
        BY DEF Before
      <3>2. PICK k, l \in 1 .. Len(got'[e]) : k < l /\ got'[e][k] = r /\ got'[e][l] = q
        BY DEF Before
      <3>3. q # p /\ r # p
        <4>1. Len(got'[d]) \in Nat /\ Len(got'[e]) \in Nat
          BY <2>2, <2>3, LenProperties DEF LockInv, TypeOK
        <4> QED  BY <2>11, <3>1, <3>2, <4>1
      <3>4. Before(d, q, r)
        <4>1. /\ i \in 1 .. Len(got[d]) /\ got'[d][i] = got[d][i]
              /\ j \in 1 .. Len(got[d]) /\ got'[d][j] = got[d][j]
          BY <2>9, <3>1, <3>3
        <4> QED  BY <3>1, <4>1 DEF Before
      <3>5. Before(e, r, q)
        <4>1. /\ k \in 1 .. Len(got[e]) /\ got'[e][k] = got[e][k]
              /\ l \in 1 .. Len(got[e]) /\ got'[e][l] = got[e][l]
          BY <2>9, <3>2, <3>3
        <4> QED  BY <3>2, <4>1 DEF Before
      <3> QED  BY <3>4, <3>5 DEF OrderInv, SameOrder
    <2> QED  BY <2>10, <2>13, <2>14, <2>15 DEF OrderInv
  <1> QED  BY <1>2, <1>3

LEMMA StepOrder == LockInv /\ OrderInv /\ [Next]_vars => OrderInv'
  <1> SUFFICES ASSUME LockInv, OrderInv, [Next]_vars PROVE OrderInv'  OBVIOUS
  <1>1. ASSUME NEW c \in Browsers, Join(c) \/ Leave(c) \/ Reply(c) \/ NextLine(c)
        PROVE OrderInv'
    BY <1>1, HandlerOrder
  <1>2. ASSUME NEW p \in Procs, SendToClient(p) \/ Broadcast(p) \/ NextClient(p) \/ Unlock(p)
        PROVE OrderInv'
    BY <1>2, SendToClientOrder, BroadcastOrder, NextClientOrder, UnlockOrder
  <1>3. ASSUME NEW p \in Procs, Check(p) \/ Write(p) \/ EndWrite(p) PROVE OrderInv'
    BY <1>3, CheckOrder, WriteOrder, EndWriteOrder
  <1>4. CASE UNCHANGED vars  BY <1>4, StillOrder DEF vars, loop
  <1> QED  BY <1>1, <1>2, <1>3, <1>4 DEF Next

\* Two browsers that both get two broadcasts get them in the same order
\* (manager.go:127-137).
THEOREM BroadcastsOrdered == Spec => []SameOrder
  <1>1. OrderInv => SameOrder  BY DEF OrderInv
  <1> QED  BY InitLock, StepLock, InitOrder, StepOrder, <1>1, PTL DEF Spec
=============================================================================

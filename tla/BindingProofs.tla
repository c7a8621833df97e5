--------------------------- MODULE BindingProofs ---------------------------
(***************************************************************************)
(* For any threads, contexts, addresses and bounds: the tables of tracked  *)
(* values are exact, what Go holds is alive and in the context Go thinks,  *)
(* no callback but that of a closed context's reaction misses its context, *)
(* disposing leaves nothing, and the binding implements an arena allocator.*)
(***************************************************************************)
EXTENDS Binding, FiniteSetTheorems, TLAPS

\* The context a Go ctx stands for: none is the internal one.
Agree(c, g) == c = (IF g = NoCtx THEN Internal ELSE g)

MemoryType ==
    /\ cstate \in [Contexts -> {"none", "open", "freed"}]
    /\ registry \subseteq Ctxs
    /\ nextValId \in [Contexts -> Int]
    /\ vals \in [Contexts -> SUBSET (Int \X Values)]
    /\ mval \in [Values -> MValue \union {Unallocated}]
    /\ scripts \subseteq Scripts
    /\ goval \in [Values -> Ctxs \union {NoCtx, NoValue}]
    /\ thrown \subseteq Held

IdsBelowNext == \A c \in Contexts : \A p \in vals[c] : p[1] <= nextValId[c]
OnlyOpenTrack == \A c \in Contexts : ~IsOpen(c) => vals[c] = {}
RegistryIsOpen == registry = {c \in Ctxs : IsOpen(c)}

MemoryInv == /\ MemoryType /\ TrackedExactly /\ IdsBelowNext /\ OnlyOpenTrack
             /\ HeldIsLive /\ GoAgreesOnContext /\ RegistryIsOpen

\* The result of a frame goes where Go thinks.  Every frame runs in an open
\* context, but for a reaction of a closed one, which lies right on the frame
\* that works off the queue and has no result.
FrameOK(f) == f \in Frame /\ (f.yields => Agree(f.ctx, f.goctx))
Orphan(s, i) == /\ cstate[s[i].ctx] = "freed" /\ s[i].at = "js" /\ ~s[i].yields
                /\ i > 1 /\ s[i - 1].at = "tasks"
Grounded(s, i) == IsOpen(s[i].ctx) \/ Orphan(s, i)
StackInv == /\ stack \in [Threads -> Seq(Frame)]
            /\ \A t \in Threads : \A i \in DOMAIN stack[t] :
                   FrameOK(stack[t][i]) /\ Grounded(stack[t], i)

LifeInv == /\ iso \in {"live", "disposed"} /\ terminating \in BOOLEAN
           /\ crash \in {"none", "checked", "context"} /\ OnlyOrphansMiss
           /\ pending \subseteq {c \in Ctxs : cstate[c] # "none"}
           /\ iso = "live" => IsOpen(Internal)
           /\ iso = "disposed" => /\ scripts = {}
                                  /\ \A v \in Values : ~Live(v)
                                  /\ \A t \in Threads : stack[t] = <<>>

IInv == MemoryInv /\ StackInv /\ LifeInv

-----------------------------------------------------------------------------
(* What the shared steps do to the memory.                                 *)

LEMMA Numbered ==
    ASSUME IsFiniteSet(Values), NEW S \in SUBSET Values, NEW no \in Numberings(S)
    PROVE  /\ Cardinality(S) \in Nat
           /\ no \in [S -> 1 .. Cardinality(S)]
           /\ \A v, w \in S : no[v] = no[w] => v = w
<1>1. IsFiniteSet(S)
  BY FS_Subset
<1>2. Cardinality(S) \in Nat
  BY <1>1, FS_CardinalityType
<1> QED
  BY <1>2 DEF Numberings

\* Tracking new values with fresh ids keeps the tables exact.
LEMMA TrackKeeps ==
    ASSUME ConstantsOK, MemoryType, TrackedExactly, IdsBelowNext, OnlyOpenTrack,
           NEW c \in Contexts, IsOpen(c), NEW S \in SUBSET Unused,
           NEW no \in Numberings(S), Track(c, S, no), UNCHANGED cstate
    PROVE  /\ nextValId' \in [Contexts -> Int]
           /\ vals' \in [Contexts -> SUBSET (Int \X Values)]
           /\ mval' \in [Values -> MValue \union {Unallocated}]
           /\ TrackedExactly' /\ IdsBelowNext' /\ OnlyOpenTrack'
<1> DEFINE n == Cardinality(S)
           id(v) == nextValId[c] + no[v]
<1>1. S \subseteq Values
  BY DEF Unused
<1>2. /\ n \in Nat
      /\ no \in [S -> 1 .. n]
      /\ \A v, w \in S : no[v] = no[w] => v = w
  BY <1>1, Numbered DEF ConstantsOK
<1>3. nextValId[c] \in Int
  BY DEF MemoryType
<1>4. \A v \in S : id(v) \in Int /\ id(v) > nextValId[c] /\ id(v) <= nextValId[c] + n
  BY <1>2, <1>3
<1>5. \A p \in vals[c] : \A v \in S : p[1] # id(v)
  <2> SUFFICES ASSUME NEW p \in vals[c], NEW v \in S PROVE p[1] # id(v)
    OBVIOUS
  <2>1. p \in Int \X Values
    BY DEF MemoryType
  <2>2. p[1] \in Int /\ p[1] <= nextValId[c]
    BY <2>1 DEF IdsBelowNext
  <2> QED
    BY <2>2, <1>3, <1>4
<1>6. vals' = [vals EXCEPT ![c] = @ \union {<<id(v), v>> : v \in S}]
  <2>1. {p \in vals[c] : \A v \in S : p[1] # id(v)} = vals[c]
    BY <1>5
  <2> QED
    BY <2>1 DEF Track
<1>7. mval' = [v \in Values |-> IF v \in S THEN [id |-> id(v), ctx |-> c] ELSE mval[v]]
  BY DEF Track
<1>8. nextValId' = [nextValId EXCEPT ![c] = @ + n]
  BY DEF Track
<1>9. vals' = [d \in Contexts |-> IF d = c THEN vals[c] \union {<<id(v), v>> : v \in S}
                                          ELSE vals[d]]
  BY <1>6 DEF MemoryType
<1>10. nextValId' \in [Contexts -> Int]
  BY <1>2, <1>3, <1>8 DEF MemoryType
<1>11. vals' \in [Contexts -> SUBSET (Int \X Values)]
  BY <1>1, <1>4, <1>9 DEF MemoryType
<1>12. mval' \in [Values -> MValue \union {Unallocated}]
  BY <1>4, <1>7 DEF MemoryType, MValue
<1>13. ASSUME NEW v \in Values, Live(v)'
       PROVE  <<mval'[v].id, v>> \in vals'[mval'[v].ctx]
  <2>1. CASE v \in S
    BY <2>1, <1>7, <1>9
  <2>2. CASE v \notin S
    <3>1. mval'[v] = mval[v] /\ Live(v)
      BY <2>2, <1>7, <1>13 DEF Live
    <3>2. <<mval[v].id, v>> \in vals[mval[v].ctx]
      BY <3>1 DEF TrackedExactly
    <3>3. mval[v].ctx \in Contexts
      BY <3>1 DEF MemoryType, MValue, Unallocated, Live
    <3> QED
      BY <3>1, <3>2, <3>3, <1>9
  <2> QED
    BY <2>1, <2>2
<1>14. ASSUME NEW d \in Contexts, NEW p \in vals'[d]
       PROVE  mval'[p[2]] = [id |-> p[1], ctx |-> d]
  <2>1. CASE p \in vals[d]
    <3>1. p[2] \in Values /\ mval[p[2]] = [id |-> p[1], ctx |-> d]
      BY <2>1 DEF MemoryType, TrackedExactly
    <3>2. d # NoCtx
      BY DEF ConstantsOK
    <3>3. p[2] \notin S
      BY <3>1, <3>2 DEF Unused, Live
    <3> QED
      BY <3>1, <3>3, <1>7
  <2>2. CASE p \notin vals[d]
    <3>1. d = c /\ \E v \in S : p = <<id(v), v>>
      BY <2>2, <1>9
    <3> QED
      BY <3>1, <1>1, <1>7
  <2> QED
    BY <2>1, <2>2
<1>14a. ASSUME NEW d \in Contexts, NEW p \in vals'[d], NEW q \in vals'[d], p[1] = q[1]
       PROVE  p = q
  <2>1. CASE p \in vals[d] /\ q \in vals[d]
    BY <2>1, <1>14a DEF TrackedExactly
  <2>2. CASE p \in vals[d] /\ q \notin vals[d]
    <3>1. d = c /\ \E v \in S : q = <<id(v), v>>
      BY <2>2, <1>9
    <3> QED
      BY <3>1, <2>2, <1>5, <1>14a
  <2>3. CASE p \notin vals[d] /\ q \in vals[d]
    <3>1. d = c /\ \E v \in S : p = <<id(v), v>>
      BY <2>3, <1>9
    <3> QED
      BY <3>1, <2>3, <1>5, <1>14a
  <2>4. CASE p \notin vals[d] /\ q \notin vals[d]
    <3>1. PICK v \in S : p = <<id(v), v>>
      BY <2>4, <1>9
    <3>2. PICK w \in S : q = <<id(w), w>>
      BY <2>4, <1>9
    <3>3. no[v] = no[w]
      BY <3>1, <3>2, <1>2, <1>3, <1>14a
    <3> QED
      BY <3>1, <3>2, <3>3, <1>2
  <2> QED
    BY <2>1, <2>2, <2>3, <2>4
<1>15. TrackedExactly'
  BY <1>13, <1>14, <1>14a DEF TrackedExactly
<1>16. IdsBelowNext'
  <2> SUFFICES ASSUME NEW d \in Contexts, NEW p \in vals'[d]
               PROVE  p[1] <= nextValId'[d]
    BY DEF IdsBelowNext
  <2>0. nextValId[d] \in Int
    BY DEF MemoryType
  <2>1. CASE p \in vals[d]
    <3>1. p[1] \in Int /\ p[1] <= nextValId[d]
      BY <2>1 DEF MemoryType, IdsBelowNext
    <3>2. nextValId'[d] >= nextValId[d] /\ nextValId'[d] \in Int
      BY <2>0, <1>2, <1>3, <1>8, <1>10 DEF MemoryType
    <3> QED
      BY <2>0, <3>1, <3>2
  <2>2. CASE p \notin vals[d]
    <3>1. d = c /\ \E v \in S : p = <<id(v), v>>
      BY <2>2, <1>9
    <3>2. nextValId'[c] = nextValId[c] + n
      BY <1>8 DEF MemoryType
    <3> QED
      BY <3>1, <3>2, <1>4
  <2> QED
    BY <2>1, <2>2
<1>17. OnlyOpenTrack'
  BY <1>9 DEF OnlyOpenTrack, IsOpen
<1> QED
  BY <1>10, <1>11, <1>12, <1>15, <1>16, <1>17

LEMMA NewValuesKeeps ==
    ASSUME ConstantsOK, MemoryInv, NEW c \in Contexts, IsOpen(c),
           NEW g \in Ctxs \union {NoCtx}, Agree(c, g),
           NEW S, NewValues(c, g, S)
    PROVE  MemoryInv' /\ UNCHANGED <<cstate, scripts>>
<1> USE DEF MemoryInv
<1>1. S \subseteq Unused /\ S \subseteq Values
  BY DEF NewValues, Unused
<1>2. UNCHANGED <<cstate, registry, scripts, thrown>>
  BY DEF NewValues
<1>3. PICK no \in Numberings(S) : Track(c, S, no)
  BY DEF NewValues
<1>4. /\ nextValId' \in [Contexts -> Int]
      /\ vals' \in [Contexts -> SUBSET (Int \X Values)]
      /\ mval' \in [Values -> MValue \union {Unallocated}]
      /\ TrackedExactly' /\ IdsBelowNext' /\ OnlyOpenTrack'
  BY <1>1, <1>2, <1>3, TrackKeeps
<1>5. goval' = [v \in Values |-> IF v \in S THEN g ELSE goval[v]]
  BY DEF NewValues
<1>6. MemoryType'
  <2>1. g # NoValue
    BY DEF ConstantsOK, Contexts
  <2>2. \A v \in Held : v \in Held'
    BY <1>5, <2>1 DEF Held
  <2>3. thrown' \subseteq Held'
    BY <1>2, <2>2 DEF MemoryType
  <2> QED
    BY <1>2, <1>4, <1>5, <2>3 DEF MemoryType
<1>7. \A v \in Values : mval'[v].ctx = IF v \in S THEN c ELSE mval[v].ctx
  BY <1>3 DEF Track
<1>8. HeldIsLive' /\ GoAgreesOnContext'
  <2> SUFFICES ASSUME NEW v \in Values, goval'[v] # NoValue
               PROVE  /\ mval'[v].ctx # NoCtx /\ cstate'[mval'[v].ctx] = "open"
                      /\ IF v \in thrown' THEN goval'[v] = NoCtx
                         ELSE Agree(mval'[v].ctx, goval'[v])
    BY DEF HeldIsLive, GoAgreesOnContext, Held, Live, IsOpen, Agree
  <2>1. CASE v \in S
    <3>1. v \notin thrown'
      BY <2>1, <1>1, <1>2 DEF MemoryType, HeldIsLive, Unused
    <3> QED
      BY <2>1, <3>1, <1>2, <1>5, <1>7 DEF IsOpen, ConstantsOK
  <2>2. CASE v \notin S
    BY <2>2, <1>2, <1>5, <1>7
       DEF HeldIsLive, GoAgreesOnContext, Held, Live, IsOpen, Agree
  <2> QED
    BY <2>1, <2>2
<1>9. RegistryIsOpen'
  BY <1>2 DEF RegistryIsOpen, IsOpen
<1> QED
  BY <1>2, <1>4, <1>6, <1>8, <1>9

\* Freeing a context frees exactly the values that belong to it.
LEMMA FreeKeeps ==
    ASSUME ConstantsOK, MemoryInv, NEW c \in Contexts, ContextFree(c),
           UNCHANGED nextValId
    PROVE  /\ cstate' = [cstate EXCEPT ![c] = "freed"]
           /\ mval' = [v \in Values |-> IF mval[v].ctx = c THEN Unallocated ELSE mval[v]]
           /\ vals' = [vals EXCEPT ![c] = {}]
           /\ TrackedExactly' /\ IdsBelowNext' /\ OnlyOpenTrack'
<1> USE DEF MemoryInv
<1>1. cstate' = [cstate EXCEPT ![c] = "freed"] /\ vals' = [vals EXCEPT ![c] = {}]
  BY DEF ContextFree
<1>2. ASSUME NEW v \in Values PROVE (\E p \in vals[c] : p[2] = v) <=> mval[v].ctx = c
  <2>1. ASSUME NEW p \in vals[c], p[2] = v PROVE mval[v].ctx = c
    <3>1. mval[p[2]] = [id |-> p[1], ctx |-> c]
      BY DEF TrackedExactly
    <3> QED
      BY <3>1, <2>1
  <2>2. ASSUME mval[v].ctx = c PROVE \E p \in vals[c] : p[2] = v
    <3>1. <<mval[v].id, v>> \in vals[c]
      BY <2>2 DEF TrackedExactly, Live, ConstantsOK
    <3> QED
      BY <3>1
  <2> QED
    BY <2>1, <2>2
<1>3. mval' = [v \in Values |-> IF mval[v].ctx = c THEN Unallocated ELSE mval[v]]
  BY <1>2 DEF ContextFree
<1>4. vals' = [d \in Contexts |-> IF d = c THEN {} ELSE vals[d]]
  BY <1>1 DEF MemoryType
<1>5. TrackedExactly'
  <2>1. ASSUME NEW v \in Values, Live(v)'
        PROVE  <<mval'[v].id, v>> \in vals'[mval'[v].ctx]
    <3>1. mval[v].ctx # c /\ mval'[v] = mval[v] /\ Live(v)
      BY <2>1, <1>3 DEF Live, Unallocated
    <3>2. <<mval[v].id, v>> \in vals[mval[v].ctx] /\ mval[v].ctx \in Contexts
      BY <3>1 DEF TrackedExactly, MemoryType, MValue, Unallocated, Live
    <3> QED
      BY <3>1, <3>2, <1>4
  <2>2. ASSUME NEW d \in Contexts, NEW p \in vals'[d]
        PROVE  mval'[p[2]] = [id |-> p[1], ctx |-> d]
    <3>1. d # c /\ p \in vals[d] /\ p[2] \in Values
      BY <1>4 DEF MemoryType
    <3> QED
      BY <3>1, <1>3 DEF TrackedExactly
  <2>3. \A d \in Contexts : \A p, q \in vals'[d] : p[1] = q[1] => p = q
    BY <1>4 DEF TrackedExactly
  <2> QED
    BY <2>1, <2>2, <2>3 DEF TrackedExactly
<1>6. IdsBelowNext' /\ OnlyOpenTrack'
  BY <1>1, <1>4 DEF IdsBelowNext, OnlyOpenTrack, IsOpen, MemoryType
<1> QED
  BY <1>1, <1>3, <1>5, <1>6

-----------------------------------------------------------------------------
(* Frames.                                                                 *)

LEMMA Popped ==
    ASSUME NEW s \in Seq(Frame), s # <<>>
    PROVE  /\ Len(s) \in Nat /\ Len(s) \in DOMAIN s
           /\ SubSeq(s, 1, Len(s) - 1) \in Seq(Frame)
           /\ \A i \in DOMAIN SubSeq(s, 1, Len(s) - 1) :
                /\ i \in DOMAIN s /\ SubSeq(s, 1, Len(s) - 1)[i] = s[i]
                /\ i > 1 => SubSeq(s, 1, Len(s) - 1)[i - 1] = s[i - 1]
  OBVIOUS

LEMMA PopKeeps ==
    ASSUME StackInv, NEW t \in Threads, stack[t] # <<>>, Pop(t), UNCHANGED cstate
    PROVE  StackInv'
<1>1. stack[t] \in Seq(Frame)
  BY DEF StackInv
<1>2. stack' = [u \in Threads |-> IF u = t THEN SubSeq(stack[t], 1, Len(stack[t]) - 1)
                                           ELSE stack[u]]
  BY DEF Pop, StackInv
<1>3. stack' \in [Threads -> Seq(Frame)]
  BY <1>1, <1>2, Popped DEF StackInv
<1>4. ASSUME NEW u \in Threads, NEW i \in DOMAIN stack'[u]
      PROVE  FrameOK(stack[u][i])' /\ Grounded(stack[u], i)'
  <2>1. /\ i \in DOMAIN stack[u] /\ stack'[u][i] = stack[u][i]
        /\ i > 1 => stack'[u][i - 1] = stack[u][i - 1]
    <3>1. CASE u = t
      BY <3>1, <1>1, <1>2, Popped
    <3>2. CASE u # t
      BY <3>2, <1>2
    <3> QED
      BY <3>1, <3>2
  <2> QED
    BY <2>1 DEF StackInv, FrameOK, Grounded, Orphan, IsOpen, Agree
<1> QED
  BY <1>3, <1>4 DEF StackInv

LEMMA TopOK ==
    ASSUME StackInv, NEW t \in Threads, stack[t] # <<>>
    PROVE  FrameOK(Top(t)) /\ Grounded(stack[t], Len(stack[t]))
<1>1. stack[t] \in Seq(Frame)
  BY DEF StackInv
<1>2. Len(stack[t]) \in DOMAIN stack[t]
  BY <1>1, Popped
<1> QED
  BY <1>2 DEF StackInv, Top

LEMMA PushKeeps ==
    ASSUME StackInv, NEW t \in Threads, NEW f, FrameOK(f), UNCHANGED cstate,
           stack' = [stack EXCEPT ![t] = Append(@, f)],
           \/ IsOpen(f.ctx)
           \/ cstate[f.ctx] = "freed" /\ f.at = "js" /\ ~f.yields /\ InTasks(t)
    PROVE  StackInv'
<1>1. stack[t] \in Seq(Frame) /\ f \in Frame
  BY DEF StackInv, FrameOK
<1>2. stack' = [u \in Threads |-> IF u = t THEN Append(stack[t], f) ELSE stack[u]]
  BY DEF StackInv
<1>3. stack' \in [Threads -> Seq(Frame)]
  BY <1>1, <1>2 DEF StackInv
<1>4. ASSUME NEW u \in Threads, NEW i \in DOMAIN stack'[u]
      PROVE  FrameOK(stack[u][i])' /\ Grounded(stack[u], i)'
  <2>1. CASE u = t /\ i \notin DOMAIN stack[t]
    <3>1. i = Len(stack[t]) + 1 /\ stack'[u][i] = f
      BY <2>1, <1>1, <1>2
    <3>2. CASE IsOpen(f.ctx)
      BY <3>1, <3>2 DEF FrameOK, Grounded, IsOpen, Agree
    <3>3. CASE cstate[f.ctx] = "freed" /\ f.at = "js" /\ ~f.yields /\ InTasks(t)
      <4>1. stack[t] # <<>> /\ stack[t][Len(stack[t])].at = "tasks"
        BY <3>3 DEF InTasks, In, Top
      <4>2. i > 1 /\ stack'[u][i - 1] = stack[t][Len(stack[t])]
        BY <4>1, <3>1, <2>1, <1>1, <1>2
      <4> QED
        BY <3>1, <3>3, <4>1, <4>2 DEF FrameOK, Grounded, Orphan, Agree
    <3> QED
      BY <3>2, <3>3
  <2>2. CASE u = t /\ i \in DOMAIN stack[t]
    <3>1. stack'[u][i] = stack[t][i] /\ (i > 1 => stack'[u][i - 1] = stack[t][i - 1])
      BY <2>2, <1>1, <1>2
    <3> QED
      BY <3>1, <2>2 DEF StackInv, FrameOK, Grounded, Orphan, IsOpen, Agree
  <2>3. CASE u # t
    BY <2>3, <1>2 DEF StackInv, FrameOK, Grounded, Orphan, IsOpen, Agree
  <2> QED
    BY <2>1, <2>2, <2>3
<1> QED
  BY <1>3, <1>4 DEF StackInv

LEMMA StackStays ==
    ASSUME StackInv, UNCHANGED <<stack, cstate>> PROVE StackInv'
  BY DEF StackInv, FrameOK, Grounded, Orphan, IsOpen, Agree

\* Nobody misses a context as long as the process does not die of it.
LEMMA NoMiss == ASSUME crash' # "context" PROVE OnlyOrphansMiss'
  BY DEF OnlyOrphansMiss

LEMMA MemoryStays ==
    ASSUME MemoryInv, UNCHANGED memory PROVE MemoryInv'
  BY DEF memory, MemoryInv, MemoryType, TrackedExactly, IdsBelowNext, OnlyOpenTrack,
         HeldIsLive, GoAgreesOnContext, RegistryIsOpen, Live, Held, IsOpen

\* A thread with a frame means that the isolate was not disposed of.
LEMMA RunningIsLive ==
    ASSUME LifeInv, NEW t \in Threads, stack[t] # <<>> PROVE iso = "live"
  BY DEF LifeInv

-----------------------------------------------------------------------------
(* Every step keeps the invariant and is a step of the arena.              *)

Sound == IInv' /\ [Memory!Next]_(Memory!vars)

LEMMA SameMemory ==
    ASSUME UNCHANGED memory PROVE UNCHANGED Memory!vars
  BY DEF memory, Memory!vars, IsOpen

LEMMA Allocates ==
    ASSUME NEW c \in Contexts, IsOpen(c), NEW S \in SUBSET Unused,
           NEW no, Track(c, S, no), UNCHANGED cstate
    PROVE  Memory!Next
<1>1. S \in SUBSET Values
  BY DEF Unused
<1>2. Memory!Allocate(c, S)
  <2>1. \A v \in Values : mval'[v].ctx = IF v \in S THEN c ELSE mval[v].ctx
    BY DEF Track
  <2> QED
    BY <2>1, <1>1 DEF Memory!Allocate, Unused, Live, IsOpen
<1> QED
  BY <1>1, <1>2 DEF Memory!Next

LEMMA EnterSound ==
    ASSUME ConstantsOK, IInv, NEW t \in Threads, NEW f, FrameOK(f), IsOpen(f.ctx),
           Enter(t, f)
    PROVE  Sound
<1>1. UNCHANGED memory /\ UNCHANGED cstate
  BY DEF Enter, memory
<1>2. StackInv'
  BY <1>1, PushKeeps DEF Enter, IInv
<1>3. MemoryInv'
  BY <1>1, MemoryStays DEF IInv
<1>4. crash' = "none" /\ OnlyOrphansMiss'
  BY NoMiss DEF Enter, CanCall
<1>5. LifeInv'
  BY <1>1, <1>4 DEF LifeInv, IInv, Enter, CanCall, memory, IsOpen, Live
<1> QED
  BY <1>1, <1>2, <1>3, <1>5, SameMemory DEF Sound, IInv

LEMMA YieldSound ==
    ASSUME ConstantsOK, IInv, NEW t \in Threads, NEW c \in Contexts, IsOpen(c),
           NEW g \in Ctxs \union {NoCtx}, Agree(c, g), Yield(t, c, g)
    PROVE  Sound
<1>1. PICK v \in Unused : NewValues(c, g, {v})
  BY DEF Yield
<1>2. MemoryInv' /\ UNCHANGED <<cstate, scripts>>
  BY <1>1, NewValuesKeeps DEF IInv
<1>3. StackInv'
  BY <1>2, StackStays DEF Yield, IInv
<1>4. LifeInv'
  <2>1. crash' = "none" /\ OnlyOrphansMiss'
    BY NoMiss DEF Yield, CanCall
  <2> QED
    BY <1>2, <2>1 DEF LifeInv, IInv, Yield, CanCall, IsOpen
<1>5. Memory!Next
  BY <1>1, <1>2, Allocates DEF NewValues
<1> QED
  BY <1>2, <1>3, <1>4, <1>5 DEF Sound, IInv

LEMMA StutterSound ==
    ASSUME IInv, UNCHANGED vars PROVE Sound
<1>1. UNCHANGED memory /\ UNCHANGED <<iso, terminating, crash, stack, pending, cstate>>
  BY DEF vars, memory
<1>2. MemoryInv' /\ StackInv'
  BY <1>1, MemoryStays, StackStays DEF IInv
<1>3. LifeInv'
  BY <1>1 DEF LifeInv, IInv, memory, IsOpen, Live, OnlyOrphansMiss, InJs, In, Top
<1> QED
  BY <1>1, <1>2, <1>3, SameMemory DEF Sound, IInv

\* What a held value tells of the call it is the receiver of.
LEMMA Receiver ==
    ASSUME ConstantsOK, IInv, NEW r \in Held
    PROVE  /\ mval[r].ctx \in Contexts /\ IsOpen(mval[r].ctx)
           /\ goval[r] \in Ctxs \union {NoCtx}
           /\ r \notin thrown => Agree(mval[r].ctx, goval[r])
           /\ r \in thrown => goval[r] = NoCtx
  BY DEF IInv, MemoryInv, MemoryType, HeldIsLive, GoAgreesOnContext, Held, Live, Agree,
         MValue, Unallocated

LEMMA EnterContextSound ==
    ASSUME ConstantsOK, IInv, NEW t \in Threads, NEW c \in Ctxs, IsOpen(c),
           NEW y \in BOOLEAN, NEW k \in BOOLEAN, Enter(t, JsFrame(c, c, y, k))
    PROVE  Sound
<1>1. FrameOK(JsFrame(c, c, y, k)) /\ JsFrame(c, c, y, k).ctx = c
  BY DEF FrameOK, JsFrame, Frame, Agree, ConstantsOK, Contexts
<1> QED
  BY <1>1, EnterSound

LEMMA EnterValueSound ==
    ASSUME ConstantsOK, IInv, NEW t \in Threads, NEW r,
           NEW y \in BOOLEAN, NEW k \in BOOLEAN, EnterValue(t, r, y, k)
    PROVE  Sound
<1>1. r \in Held /\ (y => r \notin thrown) /\ Enter(t, JsFrame(mval[r].ctx, goval[r], y, k))
  BY DEF EnterValue
<1>2. /\ FrameOK(JsFrame(mval[r].ctx, goval[r], y, k))
      /\ JsFrame(mval[r].ctx, goval[r], y, k).ctx = mval[r].ctx
      /\ IsOpen(mval[r].ctx)
  BY <1>1, Receiver DEF FrameOK, JsFrame, Frame
<1> QED
  BY <1>1, <1>2, EnterSound

LEMMA YieldContextSound ==
    ASSUME ConstantsOK, IInv, NEW t \in Threads, NEW c \in Ctxs, YieldContext(t, c)
    PROVE  Sound
<1>1. Agree(c, c) /\ c \in Contexts
  BY DEF Agree, ConstantsOK, Contexts
<1> QED
  BY <1>1, YieldSound DEF YieldContext

LEMMA YieldValueSound ==
    ASSUME ConstantsOK, IInv, NEW t \in Threads, NEW r, YieldValue(t, r)
    PROVE  Sound
<1>1. r \in Held /\ r \notin thrown /\ Yield(t, mval[r].ctx, goval[r])
  BY DEF YieldValue
<1> QED
  BY <1>1, Receiver, YieldSound

LEMMA PrimitiveSound ==
    ASSUME ConstantsOK, IInv, NEW t \in Threads, Yield(t, Internal, NoCtx)
    PROVE  Sound
<1>1. Internal \in Contexts /\ Agree(Internal, NoCtx)
  BY DEF Agree, Contexts
<1>2. IsOpen(Internal)
  BY DEF Yield, CanCall, IInv, LifeInv
<1> QED
  BY <1>1, <1>2, YieldSound

-----------------------------------------------------------------------------
(* JavaScript and callbacks.                                               *)

\* What all ends of a call have in common.
LEMMA Ended ==
    ASSUME IInv, NEW t \in Threads, End(t)
    PROVE  /\ stack[t] # <<>> /\ Pop(t) /\ crash = "none" /\ iso = "live"
           /\ pending' \subseteq pending
<1>1. stack[t] # <<>>
  BY DEF End, MayEnd, InJs, InTasks, In
<1> QED
  BY <1>1, RunningIsLive DEF End, IInv

LEMMA ReturnSound ==
    ASSUME ConstantsOK, IInv, NEW t \in Threads, Return(t) PROVE Sound
<1>1. /\ stack[t] # <<>> /\ Pop(t) /\ iso = "live" /\ pending' \subseteq pending
      /\ crash' = "none" /\ UNCHANGED <<iso, terminating, crash>>
  BY Ended DEF Return
<1>2. FrameOK(Top(t)) /\ Grounded(stack[t], Len(stack[t]))
  BY <1>1, TopOK DEF IInv
<1>3. OnlyOrphansMiss'
  BY <1>1, NoMiss
<1>4. CASE Top(t).yields
  <2>1. PICK v \in Unused : NewValues(Top(t).ctx, Top(t).goctx, {v})
    BY <1>4 DEF Return
  <2>2. IsOpen(Top(t).ctx) /\ Agree(Top(t).ctx, Top(t).goctx) /\ Top(t) \in Frame
    BY <1>2, <1>4 DEF FrameOK, Grounded, Orphan, Top
  <2>3. MemoryInv' /\ UNCHANGED <<cstate, scripts>>
    BY <2>1, <2>2, NewValuesKeeps DEF Frame, IInv
  <2>4. StackInv'
    BY <1>1, <2>3, PopKeeps DEF IInv
  <2>5. Memory!Next
    BY <2>1, <2>2, <2>3, Allocates DEF NewValues, Frame
  <2>6. LifeInv'
    BY <1>1, <1>3, <2>3 DEF LifeInv, IInv, IsOpen
  <2> QED
    BY <2>3, <2>4, <2>5, <2>6 DEF Sound, IInv
<1>5. CASE ~Top(t).yields
  <2>1. UNCHANGED memory /\ UNCHANGED cstate
    BY <1>5 DEF Return, memory
  <2>2. MemoryInv' /\ StackInv'
    BY <1>1, <2>1, MemoryStays, PopKeeps DEF IInv
  <2>3. LifeInv'
    BY <1>1, <1>3, <2>1 DEF LifeInv, IInv, IsOpen
  <2> QED
    BY <2>1, <2>2, <2>3, SameMemory DEF Sound, IInv
<1> QED
  BY <1>4, <1>5

LEMMA UnwindSound ==
    ASSUME ConstantsOK, IInv, NEW t \in Threads, Throw(t) \/ CallbackReturn(t)
    PROVE  Sound
<1>1. /\ stack[t] # <<>> /\ Pop(t) /\ iso = "live" /\ pending' \subseteq pending
      /\ crash' \in {"none", "checked"} /\ terminating' \in BOOLEAN
  <2>1. CASE Throw(t)
    BY <2>1, Ended DEF Throw, IInv, LifeInv
  <2>2. CASE CallbackReturn(t)
    BY <2>2, RunningIsLive DEF CallbackReturn, InGo, In, IInv, LifeInv
  <2> QED
    BY <2>1, <2>2
<1>2. UNCHANGED <<iso, memory>> /\ UNCHANGED cstate
  BY DEF Throw, CallbackReturn, memory
<1>3. MemoryInv' /\ StackInv'
  BY <1>1, <1>2, MemoryStays, PopKeeps DEF IInv
<1>4. OnlyOrphansMiss'
  BY <1>1, NoMiss
<1>5. LifeInv'
  BY <1>1, <1>2, <1>4 DEF LifeInv, IInv, IsOpen
<1> QED
  BY <1>2, <1>3, <1>5, SameMemory DEF Sound, IInv

\* Whoever queues a reaction runs in a context that was opened once.
LEMMA AwaitSound ==
    ASSUME ConstantsOK, IInv, NEW t \in Threads, Await(t) PROVE Sound
<1>1. /\ stack[t] # <<>> /\ crash = "none" /\ Top(t).ctx \in Ctxs
      /\ pending' = pending \union {Top(t).ctx}
      /\ UNCHANGED <<iso, terminating, crash, stack, memory>> /\ UNCHANGED cstate
  BY DEF Await, InJs, In, memory
<1>2. cstate[Top(t).ctx] # "none"
  BY <1>1, TopOK DEF IInv, Grounded, Orphan, IsOpen, Top
<1>3. MemoryInv' /\ StackInv'
  BY <1>1, MemoryStays, StackStays DEF IInv
<1>4. OnlyOrphansMiss'
  BY <1>1, NoMiss
<1>5. LifeInv'
  BY <1>1, <1>2, <1>4 DEF LifeInv, IInv, memory, IsOpen, Live
<1> QED
  BY <1>1, <1>3, <1>5, SameMemory DEF Sound, IInv

LEMMA CallDepthZeroSound ==
    ASSUME ConstantsOK, IInv, NEW t \in Threads, CallDepthZero(t) PROVE Sound
<1>1. /\ crash = "none" /\ Len(stack[t]) = 1
      /\ stack' = [stack EXCEPT ![t][1].at = "tasks"]
      /\ UNCHANGED <<iso, terminating, crash, pending, memory>> /\ UNCHANGED cstate
  BY DEF CallDepthZero, memory
<1>2. /\ stack[t] \in Seq(Frame) /\ DOMAIN stack[t] = {1} /\ stack[t][1] \in Frame
      /\ stack \in [Threads -> Seq(Frame)]
  BY <1>1 DEF IInv, StackInv
<1>f. PICK f : f = [stack[t][1] EXCEPT !.at = "tasks"]
  OBVIOUS
<1>3. f \in Frame /\ f.ctx = stack[t][1].ctx /\ f.goctx = stack[t][1].goctx
      /\ f.yields = stack[t][1].yields
  BY <1>2, <1>f DEF Frame
<1>4. stack'[t] = [stack[t] EXCEPT ![1] = f]
  BY <1>1, <1>2, <1>f
<1>5. stack'[t] \in Seq(Frame) /\ DOMAIN stack'[t] = {1} /\ stack'[t][1] = f
  BY <1>2, <1>3, <1>4
<1>6. stack' = [u \in Threads |-> IF u = t THEN stack'[t] ELSE stack[u]]
  BY <1>1, <1>2
<1>7. stack' \in [Threads -> Seq(Frame)]
  BY <1>2, <1>5, <1>6
<1>8. IsOpen(f.ctx) /\ FrameOK(f)
  <2>1. FrameOK(stack[t][1]) /\ Grounded(stack[t], 1)
    BY <1>2 DEF IInv, StackInv
  <2>2. IsOpen(stack[t][1].ctx)
    BY <2>1 DEF Grounded, Orphan
  <2> QED
    BY <2>1, <2>2, <1>3 DEF FrameOK
<1>9. ASSUME NEW u \in Threads, NEW i \in DOMAIN stack'[u]
      PROVE  FrameOK(stack[u][i])' /\ Grounded(stack[u], i)'
  <2>1. CASE u = t
    <3>1. i = 1 /\ stack'[u][i] = f
      BY <2>1, <1>5
    <3>2. IsOpen(f.ctx)' /\ FrameOK(f)'
      BY <1>1, <1>8 DEF IsOpen, FrameOK, Agree
    <3> QED
      BY <3>1, <3>2 DEF FrameOK, Grounded
  <2>2. CASE u # t
    <3>1. stack'[u] = stack[u]
      BY <2>2, <1>6
    <3> QED
      BY <3>1, <1>1 DEF IInv, StackInv, FrameOK, Grounded, Orphan, IsOpen, Agree
  <2> QED
    BY <2>1, <2>2
<1>10. StackInv'
  BY <1>7, <1>9 DEF StackInv
<1>11. OnlyOrphansMiss' /\ iso = "live"
  <2>1. stack[t] # <<>>
    BY <1>2
  <2> QED
    BY <2>1, <1>1, NoMiss, RunningIsLive DEF IInv
<1>12. LifeInv'
  BY <1>1, <1>11 DEF LifeInv, IInv, IsOpen
<1>13. MemoryInv'
  BY <1>1, MemoryStays DEF IInv
<1> QED
  BY <1>1, <1>10, <1>12, <1>13, SameMemory DEF Sound, IInv

\* A reaction of a closed context lies right on the frame that works off the
\* queue.
LEMMA RunReactionSound ==
    ASSUME ConstantsOK, IInv, NEW t \in Threads, NEW c \in Ctxs, RunReaction(t, c)
    PROVE  Sound
<1> DEFINE f == JsFrame(c, NoCtx, FALSE, FALSE)
<1>1. /\ InTasks(t) /\ crash = "none" /\ c \in pending /\ pending' \subseteq pending
      /\ stack' = [stack EXCEPT ![t] = Append(@, f)]
      /\ UNCHANGED <<iso, terminating, crash, memory>> /\ UNCHANGED cstate
  BY DEF RunReaction, memory
<1>2. FrameOK(f) /\ f.ctx = c /\ f.at = "js" /\ ~f.yields
  BY DEF FrameOK, JsFrame, Frame, Contexts
<1> HIDE DEF f
<1>3. IsOpen(c) \/ cstate[c] = "freed"
  BY <1>1 DEF IInv, LifeInv, MemoryInv, MemoryType, Contexts, IsOpen
<1>4. StackInv'
  BY <1>1, <1>2, <1>3, PushKeeps DEF IInv
<1>5. MemoryInv'
  BY <1>1, MemoryStays DEF IInv
<1>6. OnlyOrphansMiss' /\ iso = "live"
  BY <1>1, NoMiss, RunningIsLive DEF IInv, InTasks, In
<1>7. LifeInv'
  BY <1>1, <1>6 DEF LifeInv, IInv, IsOpen
<1> QED
  BY <1>1, <1>4, <1>5, <1>7, SameMemory DEF Sound, IInv

\* The registry knows the context of every frame but an orphan's, so that every
\* other lookup succeeds.
LEMMA CallbackSound ==
    ASSUME ConstantsOK, IInv, NEW t \in Threads, NEW S, FunctionTemplateCallback(t, S)
    PROVE  Sound
<1> DEFINE c == Top(t).ctx
           f == [Top(t) EXCEPT !.at = "go"]
<1>1. /\ InJs(t) /\ stack[t] # <<>> /\ crash = "none" /\ c \in Ctxs
      /\ UNCHANGED <<iso, terminating, pending>>
  BY DEF FunctionTemplateCallback, InJs, In
<1>2. FrameOK(Top(t)) /\ Grounded(stack[t], Len(stack[t]))
  BY <1>1, TopOK DEF IInv
<1>3. iso = "live"
  BY <1>1, RunningIsLive DEF IInv
<1>4. CASE IsOpen(c)
  <2>1. c \in registry
    BY <1>1, <1>4 DEF IInv, MemoryInv, RegistryIsOpen
  <2>2. /\ NewValues(c, c, S) /\ UNCHANGED crash
        /\ stack' = [stack EXCEPT ![t] = Append(@, f)]
    BY <2>1 DEF FunctionTemplateCallback
  <2>3. c \in Contexts /\ Agree(c, c)
    BY <1>1 DEF Agree, ConstantsOK, Contexts
  <2>4. MemoryInv' /\ UNCHANGED <<cstate, scripts>>
    BY <1>1, <1>4, <2>2, <2>3, NewValuesKeeps DEF IInv
  <2>5. FrameOK(f) /\ f.ctx = c
    BY <1>2 DEF FrameOK, Frame
  <2>6. StackInv'
    <3> HIDE DEF f, c
    <3> QED
      BY <1>4, <2>2, <2>4, <2>5, PushKeeps DEF IInv
  <2>7. Memory!Next
    BY <1>4, <2>2, <2>3, <2>4, Allocates DEF NewValues
  <2>8. OnlyOrphansMiss'
    BY <1>1, <2>2, NoMiss
  <2>9. LifeInv'
    BY <1>1, <1>3, <2>2, <2>4, <2>8 DEF LifeInv, IInv, IsOpen
  <2> QED
    BY <2>4, <2>6, <2>7, <2>9 DEF Sound, IInv
<1>5. CASE ~IsOpen(c)
  <2>1. c \notin registry
    BY <1>5 DEF IInv, MemoryInv, RegistryIsOpen
  <2>2. crash' = "context" /\ UNCHANGED <<stack, memory>> /\ UNCHANGED cstate
    BY <2>1 DEF FunctionTemplateCallback, memory
  <2>3. Orphan(stack[t], Len(stack[t]))
    BY <1>2, <1>5 DEF Grounded, Top
  <2>4. OnlyOrphansMiss'
    BY <1>1, <2>2, <2>3 DEF OnlyOrphansMiss, Orphan, InJs, In, Top
  <2>5. MemoryInv' /\ StackInv'
    BY <2>2, MemoryStays, StackStays DEF IInv
  <2>6. LifeInv'
    BY <1>1, <1>3, <2>2, <2>4 DEF LifeInv, IInv, IsOpen
  <2> QED
    BY <2>2, <2>5, <2>6, SameMemory DEF Sound, IInv
<1> QED
  BY <1>4, <1>5

LEMMA ThrowExceptionSound ==
    ASSUME ConstantsOK, IInv, NEW t \in Threads, NEW r, IsolateThrowException(t, r)
    PROVE  Sound
<1>1. /\ stack[t] # <<>> /\ Pop(t) /\ r \in Held /\ crash = "none"
      /\ UNCHANGED <<iso, terminating, crash, pending, cstate, registry, scripts>>
  BY DEF IsolateThrowException, InGo, In
<1> DEFINE c == mval[r].ctx
<1>2. c \in Contexts /\ IsOpen(c)
  BY <1>1, Receiver
<1>3. PICK v \in Unused : /\ \E no \in Numberings({v}) : Track(c, {v}, no)
                          /\ goval' = [goval EXCEPT ![v] = NoCtx]
                          /\ thrown' = thrown \union {v}
  BY DEF IsolateThrowException
<1>4. PICK no \in Numberings({v}) : Track(c, {v}, no)
  BY <1>3
<1> HIDE DEF c
<1>5. /\ nextValId' \in [Contexts -> Int]
      /\ vals' \in [Contexts -> SUBSET (Int \X Values)]
      /\ mval' \in [Values -> MValue \union {Unallocated}]
      /\ TrackedExactly' /\ IdsBelowNext' /\ OnlyOpenTrack'
  <2>1. {v} \in SUBSET Unused /\ UNCHANGED cstate
    BY <1>1
  <2> QED
    BY <2>1, <1>2, <1>4, TrackKeeps DEF IInv, MemoryInv
<1>6. /\ v \in Values /\ v \notin Held
      /\ goval' = [w \in Values |-> IF w = v THEN NoCtx ELSE goval[w]]
  BY <1>3 DEF IInv, MemoryInv, MemoryType, HeldIsLive, Unused
<1>7. \A w \in Values : w \in Held' <=> w \in Held \/ w = v
  BY <1>6 DEF Held, ConstantsOK
<1>8. MemoryType' /\ RegistryIsOpen'
  <2>1. thrown' \subseteq Held'
    BY <1>3, <1>6, <1>7 DEF IInv, MemoryInv, MemoryType, Held
  <2>2. goval' \in [Values -> Ctxs \union {NoCtx, NoValue}]
    BY <1>6 DEF IInv, MemoryInv, MemoryType
  <2> QED
    BY <1>1, <1>5, <2>1, <2>2 DEF MemoryType, RegistryIsOpen, IsOpen, IInv, MemoryInv
<1>9. \A w \in Values : mval'[w].ctx = IF w = v THEN c ELSE mval[w].ctx
  BY <1>4 DEF Track
<1>10. HeldIsLive' /\ GoAgreesOnContext'
  <2> SUFFICES ASSUME NEW w \in Values, w \in Held'
               PROVE  /\ mval'[w].ctx # NoCtx /\ cstate'[mval'[w].ctx] = "open"
                      /\ IF w \in thrown' THEN goval'[w] = NoCtx
                         ELSE Agree(mval'[w].ctx, goval'[w])
    BY DEF HeldIsLive, GoAgreesOnContext, Live, IsOpen, Agree, Held
  <2>1. CASE w = v
    BY <2>1, <1>1, <1>2, <1>3, <1>6, <1>9 DEF IsOpen, ConstantsOK
  <2>2. CASE w # v
    BY <2>2, <1>1, <1>3, <1>6, <1>7, <1>9
       DEF IInv, MemoryInv, HeldIsLive, GoAgreesOnContext, Live, IsOpen, Agree
  <2> QED
    BY <2>1, <2>2
<1>11. StackInv'
  BY <1>1, PopKeeps DEF IInv
<1>12. Memory!Next
  BY <1>1, <1>2, <1>4, Allocates
<1>13. LifeInv'
  <2>1. OnlyOrphansMiss'
    BY <1>1, NoMiss
  <2> QED
    BY <1>1, <2>1, RunningIsLive DEF LifeInv, IInv, IsOpen
<1> QED
  BY <1>5, <1>8, <1>10, <1>11, <1>12, <1>13 DEF Sound, IInv, MemoryInv

LEMMA TerminateSound ==
    ASSUME ConstantsOK, IInv, IsolateTerminateExecution PROVE Sound
<1>1. UNCHANGED <<iso, crash, stack, pending, memory>> /\ UNCHANGED cstate
      /\ crash = "none" /\ terminating' = TRUE
  BY DEF IsolateTerminateExecution, memory
<1>2. MemoryInv' /\ StackInv'
  BY <1>1, MemoryStays, StackStays DEF IInv
<1>3. LifeInv'
  <2>1. OnlyOrphansMiss'
    BY <1>1, NoMiss
  <2> QED
    BY <1>1, <2>1 DEF LifeInv, IInv, memory, IsOpen, Live
<1> QED
  BY <1>1, <1>2, <1>3, SameMemory DEF Sound, IInv

-----------------------------------------------------------------------------
(* Contexts, scripts and what the caller frees.                            *)

LEMMA NewContextSound ==
    ASSUME ConstantsOK, IInv, NEW t \in Threads, NEW c \in Ctxs, NewContext(t, c)
    PROVE  Sound
<1>1. PICK start \in Starts : nextValId' = [nextValId EXCEPT ![c] = start]
  BY DEF NewContext
<1>2. /\ cstate[c] = "none" /\ cstate' = [cstate EXCEPT ![c] = "open"]
      /\ registry' = registry \union {c} /\ c \in Contexts /\ start \in Int
      /\ crash = "none"
      /\ UNCHANGED <<iso, terminating, crash, stack, pending, vals, mval, scripts, goval,
                     thrown>>
  BY DEF NewContext, CanCall, Contexts, ConstantsOK
<1>3. \A d \in Contexts : IsOpen(d)' <=> IsOpen(d) \/ d = c
  BY <1>2 DEF IsOpen, IInv, MemoryInv, MemoryType
<1>4. vals[c] = {}
  BY <1>2 DEF IInv, MemoryInv, OnlyOpenTrack, IsOpen
<1>5. MemoryType'
  <2>1. /\ cstate' \in [Contexts -> {"none", "open", "freed"}]
        /\ nextValId' \in [Contexts -> Int] /\ registry' \subseteq Ctxs
    BY <1>1, <1>2 DEF IInv, MemoryInv, MemoryType
  <2>2. thrown' \subseteq Held'
    BY <1>2 DEF IInv, MemoryInv, MemoryType, Held
  <2> QED
    BY <2>1, <2>2, <1>2 DEF IInv, MemoryInv, MemoryType
<1>6. TrackedExactly' /\ GoAgreesOnContext'
  BY <1>2 DEF IInv, MemoryInv, TrackedExactly, GoAgreesOnContext, Live, Held
<1>7. IdsBelowNext'
  BY <1>1, <1>2, <1>4 DEF IInv, MemoryInv, MemoryType, IdsBelowNext
<1>8. OnlyOpenTrack' /\ RegistryIsOpen'
  BY <1>2, <1>3 DEF IInv, MemoryInv, OnlyOpenTrack, RegistryIsOpen, Contexts
<1>9. HeldIsLive'
  <2> SUFFICES ASSUME NEW v \in Held PROVE Live(v) /\ IsOpen(mval[v].ctx)'
    BY <1>2 DEF HeldIsLive, Held, Live
  <2> QED
    BY <1>2, <1>3, Receiver DEF IInv, MemoryInv, HeldIsLive
<1>10. StackInv'
  <2> SUFFICES ASSUME NEW u \in Threads, NEW i \in DOMAIN stack[u]
               PROVE  Grounded(stack[u], i)'
    BY <1>2 DEF IInv, StackInv, FrameOK, Agree
  <2>1. stack[u][i].ctx \in Contexts /\ Grounded(stack[u], i)
    BY DEF IInv, StackInv, FrameOK, Frame
  <2>2. CASE IsOpen(stack[u][i].ctx)
    <3>1. cstate'[stack[u][i].ctx] = "open"
      BY <1>2, <2>1, <2>2 DEF IsOpen, IInv, MemoryInv, MemoryType
    <3> QED
      BY <1>2, <2>1, <3>1 DEF Grounded, IsOpen
  <2>3. CASE Orphan(stack[u], i)
    <3>1. cstate'[stack[u][i].ctx] = "freed"
      BY <2>1, <2>3, <1>2 DEF Orphan, IInv, MemoryInv, MemoryType
    <3> QED
      BY <2>3, <3>1, <1>2 DEF Grounded, Orphan
  <2> QED
    BY <2>1, <2>2, <2>3 DEF Grounded
<1>11. LifeInv'
  <2>1. OnlyOrphansMiss'
    BY <1>2, NoMiss
  <2>2. \A d \in Contexts : cstate'[d] = "none" => cstate[d] = "none"
    BY <1>2 DEF IInv, MemoryInv, MemoryType
  <2> QED
    BY <1>2, <1>3, <2>1, <2>2 DEF IInv, LifeInv, Contexts, Live
<1>12. Memory!Open(c)
  <2>1. {d \in Contexts : cstate'[d] = "none"} = {d \in Contexts : cstate[d] = "none"} \ {c}
    BY <1>2 DEF IInv, MemoryInv, MemoryType
  <2> QED
    BY <2>1, <1>2, <1>3 DEF Memory!Open
<1> QED
  BY <1>2, <1>5, <1>6, <1>7, <1>8, <1>9, <1>10, <1>11, <1>12
     DEF Sound, IInv, MemoryInv, Memory!Next

\* Freeing an open context is the arena's Close.
LEMMA FreeRefines ==
    ASSUME ConstantsOK, MemoryInv, NEW c \in Contexts, IsOpen(c), ContextFree(c),
           UNCHANGED nextValId
    PROVE  Memory!Next
<1>1. /\ cstate' = [cstate EXCEPT ![c] = "freed"]
      /\ mval' = [v \in Values |-> IF mval[v].ctx = c THEN Unallocated ELSE mval[v]]
  BY FreeKeeps
<1>2. \A d \in Contexts : cstate'[d] = IF d = c THEN "freed" ELSE cstate[d]
  BY <1>1 DEF MemoryInv, MemoryType
<1>3. {d \in Contexts : IsOpen(d)'} = {d \in Contexts : IsOpen(d)} \ {c}
  BY <1>2 DEF IsOpen
<1>4. {d \in Contexts : cstate'[d] = "none"} = {d \in Contexts : cstate[d] = "none"}
  BY <1>2 DEF IsOpen
<1>5. \A v \in Values : mval'[v].ctx = IF mval[v].ctx = c THEN NoCtx ELSE mval[v].ctx
  BY <1>1 DEF Unallocated
<1>6. Memory!Close(c)
  BY <1>3, <1>4, <1>5 DEF Memory!Close
<1> QED
  BY <1>6 DEF Memory!Next

LEMMA CloseSound ==
    ASSUME ConstantsOK, IInv, NEW t \in Threads, NEW c \in Ctxs, Close(t, c)
    PROVE  Sound
<1>1. /\ CanCall(t) /\ IsOpen(c) /\ c \in Contexts /\ c # Internal /\ ContextFree(c)
      /\ \A i \in DOMAIN stack[t] : stack[t][i].ctx # c
      /\ registry' = registry \ {c}
      /\ goval' = [v \in Values |-> IF goval[v] = c \/ (v \in thrown /\ mval[v].ctx = c)
                                    THEN NoValue ELSE goval[v]]
      /\ thrown' = {v \in thrown : mval[v].ctx # c} /\ crash = "none"
      /\ UNCHANGED <<iso, terminating, crash, stack, pending, nextValId, scripts>>
  BY DEF Close, CanCall, Contexts, ConstantsOK
<1>2. /\ cstate' = [cstate EXCEPT ![c] = "freed"]
      /\ mval' = [v \in Values |-> IF mval[v].ctx = c THEN Unallocated ELSE mval[v]]
      /\ vals' = [vals EXCEPT ![c] = {}]
      /\ TrackedExactly' /\ IdsBelowNext' /\ OnlyOpenTrack'
  BY <1>1, FreeKeeps DEF IInv
<1>3. \A d \in Contexts : IsOpen(d)' <=> IsOpen(d) /\ d # c
  BY <1>2 DEF IsOpen, IInv, MemoryInv, MemoryType
<1>4. MemoryType'
  <2>1. thrown' \subseteq Held'
    <3> SUFFICES ASSUME NEW v \in thrown, mval[v].ctx # c PROVE v \in Held'
      BY <1>1
    <3>1. v \in Held /\ goval[v] = NoCtx
      BY Receiver DEF IInv, MemoryInv, MemoryType
    <3> QED
      BY <3>1, <1>1 DEF Held, ConstantsOK
  <2> QED
    BY <1>1, <1>2, <2>1 DEF IInv, MemoryInv, MemoryType
<1>5. RegistryIsOpen'
  BY <1>1, <1>3 DEF IInv, MemoryInv, RegistryIsOpen, Contexts
<1>6. HeldIsLive' /\ GoAgreesOnContext'
  <2> SUFFICES ASSUME NEW v \in Held'
               PROVE  /\ v \in Held /\ mval'[v] = mval[v] /\ goval'[v] = goval[v]
                      /\ mval[v].ctx \in Contexts /\ mval[v].ctx # c
                      /\ v \in thrown' <=> v \in thrown
    BY <1>3 DEF IInv, MemoryInv, HeldIsLive, GoAgreesOnContext, Live
  <2>1. v \in Held /\ goval[v] # c /\ goval'[v] = goval[v] /\ v \in Values
    BY <1>1 DEF Held, ConstantsOK
  <2>2. mval[v].ctx \in Contexts /\ (v \notin thrown => Agree(mval[v].ctx, goval[v]))
    BY <2>1, Receiver
  <2>3. mval[v].ctx # c
    BY <2>1, <2>2, <1>1 DEF Agree, Held
  <2> QED
    BY <2>1, <2>2, <2>3, <1>1, <1>2
<1>7. StackInv'
  <2> SUFFICES ASSUME NEW u \in Threads, NEW i \in DOMAIN stack[u]
               PROVE  Grounded(stack[u], i)'
    BY <1>1 DEF IInv, StackInv, FrameOK, Agree
  <2>1. stack[u] \in Seq(Frame) /\ stack[u][i].ctx \in Contexts /\ Grounded(stack[u], i)
    BY DEF IInv, StackInv, FrameOK, Frame
  <2>2. stack[u] # <<>>
    BY <2>1
  <2>3. u = t
    BY <2>2, <1>1 DEF CanCall
  <2>4. cstate'[stack[u][i].ctx] = cstate[stack[u][i].ctx]
    BY <2>1, <2>3, <1>1, <1>2 DEF IInv, MemoryInv, MemoryType
  <2> QED
    BY <2>1, <2>4, <1>1 DEF Grounded, Orphan, IsOpen
<1>8. LifeInv'
  <2>1. OnlyOrphansMiss'
    BY <1>1, NoMiss
  <2>2. \A d \in Contexts : cstate'[d] = "none" => cstate[d] = "none"
    BY <1>2 DEF IInv, MemoryInv, MemoryType
  <2> QED
    BY <1>1, <1>3, <2>1, <2>2 DEF IInv, LifeInv, CanCall, Contexts
<1>9. Memory!Next
  BY <1>1, FreeRefines DEF IInv
<1> QED
  BY <1>2, <1>4, <1>5, <1>6, <1>7, <1>8, <1>9 DEF Sound, IInv, MemoryInv

LEMMA DisposeSound ==
    ASSUME ConstantsOK, IInv, NEW t \in Threads, IsolateDispose(t)
    PROVE  Sound
<1>1. /\ CanCall(t) /\ stack[t] = <<>> /\ ContextFree(Internal)
      /\ \A c \in Ctxs : ~IsOpen(c)
      /\ iso' = "disposed" /\ scripts' = {} /\ pending' = {} /\ thrown' = {}
      /\ crash = "none" /\ goval' = [v \in Values |-> NoValue]
      /\ UNCHANGED <<terminating, crash, stack, registry, nextValId>>
  BY DEF IsolateDispose, CanCall
<1>2. Internal \in Contexts /\ IsOpen(Internal)
  BY <1>1 DEF CanCall, IInv, LifeInv, Contexts
<1>3. /\ cstate' = [cstate EXCEPT ![Internal] = "freed"]
      /\ mval' = [v \in Values |-> IF mval[v].ctx = Internal THEN Unallocated ELSE mval[v]]
      /\ vals' = [vals EXCEPT ![Internal] = {}]
      /\ TrackedExactly' /\ IdsBelowNext' /\ OnlyOpenTrack'
  BY <1>1, <1>2, FreeKeeps DEF IInv
<1>4. \A d \in Contexts : ~IsOpen(d)'
  BY <1>1, <1>3 DEF IsOpen, IInv, MemoryInv, MemoryType, Contexts
<1>5. \A v \in Values : ~Live(v)'
  <2> SUFFICES ASSUME NEW v \in Values, Live(v)' PROVE FALSE
    OBVIOUS
  <2>1. mval'[v].ctx \in Contexts /\ <<mval'[v].id, v>> \in vals'[mval'[v].ctx]
    BY <1>3 DEF TrackedExactly, Live, IInv, MemoryInv, MemoryType, MValue, Unallocated
  <2> QED
    BY <2>1, <1>3, <1>4 DEF OnlyOpenTrack
<1>6. MemoryType'
  BY <1>1, <1>3 DEF IInv, MemoryInv, MemoryType
<1>7. RegistryIsOpen'
  BY <1>1, <1>4 DEF IInv, MemoryInv, RegistryIsOpen, Contexts
<1>8. HeldIsLive' /\ GoAgreesOnContext'
  BY <1>1 DEF HeldIsLive, GoAgreesOnContext, Held
<1>9. \A u \in Threads : stack'[u] = <<>>
  BY <1>1 DEF CanCall
<1>10. StackInv'
  BY <1>1, <1>9 DEF IInv, StackInv
<1>11. LifeInv'
  <2>1. OnlyOrphansMiss'
    BY <1>1, NoMiss
  <2> QED
    BY <1>1, <1>5, <1>9, <2>1 DEF IInv, LifeInv
<1>12. Memory!Next
  BY <1>1, <1>2, FreeRefines DEF IInv
<1> QED
  BY <1>3, <1>6, <1>7, <1>8, <1>10, <1>11, <1>12 DEF Sound, IInv, MemoryInv

LEMMA ReleaseSound ==
    ASSUME ConstantsOK, IInv, NEW t \in Threads, NEW v \in Values, ValueRelease(t, v)
    PROVE  Sound
<1> DEFINE c == mval[v].ctx
<1>1. /\ v \in Held /\ CanCall(t)
      /\ vals' = [vals EXCEPT ![c] = {p \in @ : p[1] # mval[v].id}]
      /\ mval' = [mval EXCEPT ![v] = Unallocated]
      /\ goval' = [goval EXCEPT ![v] = NoValue]
      /\ thrown' = thrown \ {v} /\ crash = "none"
      /\ UNCHANGED <<iso, terminating, crash, stack, pending, cstate, registry, nextValId,
                     scripts>>
  BY DEF ValueRelease, CanCall
<1>2. c \in Contexts /\ IsOpen(c)
  BY <1>1, Receiver
<1>3. vals' = [d \in Contexts |-> IF d = c THEN {p \in vals[c] : p[1] # mval[v].id}
                                           ELSE vals[d]]
  BY <1>1 DEF IInv, MemoryInv, MemoryType
<1>4. mval' = [w \in Values |-> IF w = v THEN Unallocated ELSE mval[w]]
  BY <1>1 DEF IInv, MemoryInv, MemoryType
<1>5. MemoryType'
  <2>1. vals' \in [Contexts -> SUBSET (Int \X Values)]
    BY <1>2, <1>3 DEF IInv, MemoryInv, MemoryType
  <2>2. goval' = [x \in Values |-> IF x = v THEN NoValue ELSE goval[x]]
    BY <1>1 DEF IInv, MemoryInv, MemoryType
  <2>3. thrown' \subseteq Held'
    BY <2>2, <1>1 DEF IInv, MemoryInv, MemoryType, Held
  <2> QED
    BY <2>1, <2>2, <2>3, <1>1, <1>4 DEF IInv, MemoryInv, MemoryType
<1>6. ASSUME NEW w \in Values, Live(w)'
      PROVE  <<mval'[w].id, w>> \in vals'[mval'[w].ctx]
  <2>1. w # v /\ mval'[w] = mval[w] /\ Live(w)
    BY <1>4, <1>6 DEF Live, Unallocated
  <2>2. <<mval[w].id, w>> \in vals[mval[w].ctx] /\ mval[w].ctx \in Contexts
    BY <2>1 DEF IInv, MemoryInv, TrackedExactly, MemoryType, MValue, Unallocated, Live
  <2>3. CASE mval[w].ctx # c
    BY <2>1, <2>2, <2>3, <1>3
  <2>4. CASE mval[w].ctx = c
    <3>1. <<mval[v].id, v>> \in vals[c]
      BY <1>1, <1>2 DEF IInv, MemoryInv, TrackedExactly, HeldIsLive, Held
    <3>2. mval[w].id # mval[v].id
      <4>1. SUFFICES ASSUME mval[w].id = mval[v].id PROVE FALSE
        OBVIOUS
      <4>2. <<mval[v].id, w>> \in vals[c]
        BY <2>2, <2>4, <4>1
      <4> QED
        BY <4>2, <3>1, <1>2, <2>1 DEF IInv, MemoryInv, TrackedExactly
    <3> QED
      BY <3>2, <2>1, <2>2, <2>4, <1>3
  <2> QED
    BY <2>3, <2>4
<1>7. ASSUME NEW d \in Contexts, NEW p \in vals'[d]
      PROVE  mval'[p[2]] = [id |-> p[1], ctx |-> d]
  <2>1. p \in vals[d] /\ p[2] \in Values /\ (d = c => p[1] # mval[v].id)
    BY <1>3 DEF IInv, MemoryInv, MemoryType
  <2>2. mval[p[2]] = [id |-> p[1], ctx |-> d]
    BY <2>1 DEF IInv, MemoryInv, TrackedExactly
  <2>3. p[2] # v
    BY <2>1, <2>2
  <2> QED
    BY <2>1, <2>2, <2>3, <1>4
<1>8. TrackedExactly'
  <2>1. \A d \in Contexts : \A p, q \in vals'[d] : p[1] = q[1] => p = q
    BY <1>3 DEF IInv, MemoryInv, TrackedExactly
  <2> QED
    BY <2>1, <1>6, <1>7 DEF TrackedExactly
<1>9. IdsBelowNext' /\ OnlyOpenTrack'
  BY <1>1, <1>2, <1>3 DEF IInv, MemoryInv, IdsBelowNext, OnlyOpenTrack, IsOpen
<1>10. HeldIsLive' /\ GoAgreesOnContext'
  <2> SUFFICES ASSUME NEW w \in Held'
               PROVE  /\ w \in Held /\ mval'[w] = mval[w] /\ goval'[w] = goval[w]
                      /\ w \in thrown' <=> w \in thrown
    BY <1>1 DEF IInv, MemoryInv, HeldIsLive, GoAgreesOnContext, Live, IsOpen
  <2>1. goval' = [x \in Values |-> IF x = v THEN NoValue ELSE goval[x]]
    BY <1>1 DEF IInv, MemoryInv, MemoryType
  <2> QED
    BY <2>1, <1>1, <1>4 DEF Held
<1>11. RegistryIsOpen' /\ StackInv'
  BY <1>1, StackStays DEF IInv, MemoryInv, RegistryIsOpen, IsOpen
<1>12. LifeInv'
  <2>1. OnlyOrphansMiss'
    BY <1>1, NoMiss
  <2> QED
    BY <1>1, <2>1 DEF IInv, LifeInv, CanCall, IsOpen
<1>13. Memory!Release(v)
  <2>1. \A w \in Values : mval'[w].ctx = IF w = v THEN NoCtx ELSE mval[w].ctx
    BY <1>4 DEF Unallocated
  <2> DEFINE own == [w \in Values |-> mval[w].ctx]
  <2>2. [w \in Values |-> mval'[w].ctx] = [own EXCEPT ![v] = NoCtx]
    BY <2>1
  <2>3. own[v] \in {d \in Contexts : IsOpen(d)}
    BY <1>2
  <2>4. {d \in Contexts : IsOpen(d)'} = {d \in Contexts : IsOpen(d)}
    BY <1>1 DEF IsOpen
  <2> QED
    BY <2>2, <2>3, <2>4, <1>1 DEF Memory!Release
<1> QED
  BY <1>5, <1>8, <1>9, <1>10, <1>11, <1>12, <1>13
     DEF Sound, IInv, MemoryInv, Memory!Next

LEMMA CompileSound ==
    ASSUME ConstantsOK, IInv, NEW t \in Threads, NEW s \in Scripts,
           IsolateCompileUnboundScript(t, s)
    PROVE  Sound
<1>1. /\ CanCall(t) /\ scripts' = scripts \union {s}
      /\ crash = "none"
      /\ UNCHANGED <<iso, terminating, crash, stack, pending, cstate, registry, nextValId,
                     vals, mval, goval, thrown>>
  BY DEF CanCall, IsolateCompileUnboundScript
<1>2. MemoryInv'
  BY <1>1 DEF IInv, MemoryInv, MemoryType, TrackedExactly, IdsBelowNext, OnlyOpenTrack,
              HeldIsLive, GoAgreesOnContext, RegistryIsOpen, Live, Held, IsOpen
<1>3. StackInv' /\ LifeInv'
  <2>1. OnlyOrphansMiss'
    BY <1>1, NoMiss
  <2> QED
    BY <1>1, <2>1, StackStays DEF IInv, LifeInv, CanCall, IsOpen
<1>4. UNCHANGED Memory!vars
  BY <1>1 DEF Memory!vars, IsOpen
<1> QED
  BY <1>2, <1>3, <1>4 DEF Sound, IInv

-----------------------------------------------------------------------------
(* The theorems.                                                           *)

LEMMA InitSound ==
    ASSUME ConstantsOK, Init PROVE IInv /\ Memory!Init
<1>1. PICK start \in Starts : NewIsolate(start)
  BY DEF Init
<1>2. start \in Int /\ Internal \in Contexts /\ NullV \in Values /\ UndefV \in Values
      /\ NullV # UndefV /\ NoCtx \notin Contexts /\ Internal \notin Ctxs
      /\ NoValue \notin Contexts \union {NoCtx}
  BY DEF ConstantsOK, Contexts
<1>3. \A c \in Contexts : IsOpen(c) <=> c = Internal
  BY <1>1 DEF NewIsolate, IsOpen
<1>4. /\ mval[NullV] = [id |-> start + 1, ctx |-> Internal]
      /\ mval[UndefV] = [id |-> start + 2, ctx |-> Internal]
      /\ \A v \in Values \ {NullV, UndefV} : mval[v] = Unallocated
  BY <1>1, <1>2 DEF NewIsolate
<1>5. \A c \in Contexts : vals[c] = IF c = Internal
          THEN {<<start + 1, NullV>>, <<start + 2, UndefV>>} ELSE {}
  BY <1>1 DEF NewIsolate, NewValueNull, NewValueUndefined
<1>6. MemoryType
  <2>1. \A v \in Values : mval[v] \in MValue \union {Unallocated}
    BY <1>2, <1>4 DEF MValue
  <2>2. mval \in [Values -> MValue \union {Unallocated}]
    BY <1>1, <2>1 DEF NewIsolate
  <2>3. \A c \in Contexts : vals[c] \in SUBSET (Int \X Values)
    BY <1>2, <1>5
  <2>4. vals \in [Contexts -> SUBSET (Int \X Values)]
    BY <1>1, <2>3 DEF NewIsolate
  <2> QED
    BY <1>1, <1>2, <2>2, <2>4 DEF MemoryType, NewIsolate, Held
<1>7. TrackedExactly
  BY <1>2, <1>4, <1>5 DEF TrackedExactly, Live, Unallocated
<1>8. IdsBelowNext /\ OnlyOpenTrack /\ RegistryIsOpen
  <2>1. nextValId[Internal] = start + 2
    BY <1>1, <1>2 DEF NewIsolate
  <2>2. IdsBelowNext
    <3> SUFFICES ASSUME NEW c \in Contexts, NEW p \in vals[c] PROVE p[1] <= nextValId[c]
      BY DEF IdsBelowNext
    <3>1. c = Internal /\ (p = <<start + 1, NullV>> \/ p = <<start + 2, UndefV>>)
      BY <1>5
    <3> QED
      BY <3>1, <2>1, <1>2
  <2>3. OnlyOpenTrack
    BY <1>3, <1>5 DEF OnlyOpenTrack
  <2>4. RegistryIsOpen
    BY <1>1, <1>2, <1>3 DEF RegistryIsOpen, NewIsolate, Contexts
  <2> QED
    BY <2>2, <2>3, <2>4
<1>9. HeldIsLive /\ GoAgreesOnContext
  BY <1>1, <1>2, <1>3, <1>4 DEF HeldIsLive, GoAgreesOnContext, NewIsolate, Held, Live
<1>10. StackInv /\ LifeInv
  <2>1. stack = [t \in Threads |-> <<>>] /\ iso = "live" /\ terminating = FALSE
        /\ crash = "none" /\ pending = {}
    BY <1>1 DEF NewIsolate
  <2>2. StackInv
    BY <2>1 DEF StackInv
  <2>3. LifeInv
    BY <2>1, <1>2, <1>3 DEF LifeInv, OnlyOrphansMiss
  <2> QED
    BY <2>2, <2>3
<1>11. Memory!Init
  <2>1. \A v \in Values : mval[v].ctx \in {c \in Contexts : IsOpen(c)} \union {NoCtx}
    BY <1>2, <1>3, <1>4 DEF Unallocated
  <2>2. {c \in Contexts : cstate[c] = "none"} = Contexts \ {c \in Contexts : IsOpen(c)}
    BY <1>1 DEF NewIsolate, IsOpen
  <2> QED
    BY <2>1, <2>2 DEF Memory!Init
<1> QED
  BY <1>6, <1>7, <1>8, <1>9, <1>10, <1>11 DEF IInv, MemoryInv

LEMMA ContextCallSound ==
    ASSUME ConstantsOK, IInv, NEW t \in Threads, NEW c \in Ctxs, ContextCall(t, c)
    PROVE  Sound
<1>1. CASE NewContext(t, c)
  BY <1>1, NewContextSound
<1>2. CASE Close(t, c)
  BY <1>2, CloseSound
<1>3. CASE RunScript(t, c) \/ \E s \in Scripts : UnboundScriptRun(t, c, s)
  BY <1>3, EnterContextSound DEF RunScript, UnboundScriptRun, EnterContext
<1>4. CASE \/ ContextGlobal(t, c) \/ JSONParse(t, c) \/ NewPromiseResolver(t, c)
           \/ ObjectTemplateNewInstance(t, c) \/ FunctionTemplateGetFunction(t, c)
  BY <1>4, YieldContextSound
     DEF ContextGlobal, JSONParse, NewPromiseResolver, ObjectTemplateNewInstance,
         FunctionTemplateGetFunction
<1> QED
  BY <1>1, <1>2, <1>3, <1>4 DEF ContextCall

LEMMA ValueCallSound ==
    ASSUME ConstantsOK, IInv, NEW t \in Threads, NEW r \in Values, ValueCall(t, r)
    PROVE  Sound
<1>1. CASE \/ ValueToNumber(t, r) \/ ValueToUint32(t, r) \/ ValueToArrayIndex(t, r)
           \/ ValueToDetailString(t, r) \/ ValueToString(t, r) \/ ValueToBigInt(t, r)
           \/ JSONStringify(t, r)
  BY <1>1, EnterValueSound
     DEF ValueToNumber, ValueToUint32, ValueToArrayIndex, ValueToDetailString,
         ValueToString, ValueToBigInt, JSONStringify
<1>2. CASE \/ ObjectGet(t, r) \/ ObjectGetIdx(t, r) \/ ObjectHas(t, r)
           \/ ObjectDelete(t, r) \/ PromiseThen(t, r) \/ PromiseThen2(t, r)
           \/ PromiseCatch(t, r)
  BY <1>2, EnterValueSound
     DEF ObjectGet, ObjectGetIdx, ObjectHas, ObjectDelete, PromiseThen, PromiseThen2,
         PromiseCatch
<1>3. CASE \E a \in Values : \/ ObjectSet(t, r, a) \/ PromiseResolverResolve(t, r, a)
                             \/ FunctionCall(t, r, a) \/ FunctionNewInstance(t, r, a)
  BY <1>3, EnterValueSound
     DEF ObjectSet, PromiseResolverResolve, FunctionCall, FunctionNewInstance
<1>4. CASE \/ ValueToObject(t, r) \/ ObjectGetInternalField(t, r)
           \/ PromiseResolverGetPromise(t, r) \/ PromiseResult(t, r)
           \/ FunctionSourceMapUrl(t, r)
  BY <1>4, YieldValueSound
     DEF ValueToObject, ObjectGetInternalField, PromiseResolverGetPromise,
         PromiseResult, FunctionSourceMapUrl
<1>5. CASE \/ ValueToBoolean(t, r) \/ ValueIs(t, r) \/ ObjectInternalFieldCount(t, r)
           \/ PromiseState(t, r)
           \/ \E a \in Values : ValueSameValue(t, r, a) \/ ObjectSetInternalField(t, r, a)
  BY <1>5, StutterSound
     DEF ValueToBoolean, ValueIs, ObjectInternalFieldCount, PromiseState, ValueSameValue,
         ObjectSetInternalField, Inspect
<1>6. CASE ValueRelease(t, r)
  BY <1>6, ReleaseSound
<1> QED
  BY <1>1, <1>2, <1>3, <1>4, <1>5, <1>6 DEF ValueCall

LEMMA NextSound ==
    ASSUME ConstantsOK, IInv, [Next]_vars PROVE Sound
<1>1. CASE UNCHANGED vars
  BY <1>1, StutterSound
<1>2. CASE IsolateTerminateExecution
  BY <1>2, TerminateSound
<1>3. ASSUME NEW t \in Threads, JavaScript(t) PROVE Sound
  BY <1>3, ReturnSound, UnwindSound, CallbackSound, ThrowExceptionSound, AwaitSound,
     CallDepthZeroSound, RunReactionSound DEF JavaScript
<1>4. ASSUME NEW t \in Threads, IsolateCall(t) PROVE Sound
  <2>1. CASE NewValueInteger(t) \/ NewValueString(t) \/ NewValueNumber(t)
             \/ NewValueBigIntFromWords(t)
    BY <2>1, PrimitiveSound
       DEF NewValueInteger, NewValueString, NewValueNumber, NewValueBigIntFromWords
  <2>2. CASE \E s \in Scripts : IsolateCompileUnboundScript(t, s)
    BY <2>2, CompileSound
  <2>3. CASE \E s \in Scripts : UnboundScriptCreateCodeCache(t, s)
    BY <2>3, StutterSound DEF UnboundScriptCreateCodeCache
  <2>4. CASE IsolateDispose(t)
    BY <2>4, DisposeSound
  <2>5. CASE IsolatePerformMicrotaskCheckpoint(t)
    <3>1. Enter(t, TasksFrame)
      BY <2>5 DEF IsolatePerformMicrotaskCheckpoint
    <3>2. FrameOK(TasksFrame) /\ TasksFrame.ctx = Internal
      BY DEF FrameOK, TasksFrame, JsFrame, Frame, Contexts
    <3>3. IsOpen(Internal)
      BY <3>1 DEF Enter, CanCall, IInv, LifeInv
    <3> QED
      BY <3>1, <3>2, <3>3, EnterSound
  <2> QED
    BY <1>4, <2>1, <2>2, <2>3, <2>4, <2>5 DEF IsolateCall
<1> QED
  BY <1>1, <1>2, <1>3, <1>4, ContextCallSound, ValueCallSound DEF Next

LEMMA Invariance == Spec => []IInv
<1>1. Init => IInv
  BY ConstantsOK, InitSound
<1>2. IInv /\ [Next]_vars => IInv'
  BY ConstantsOK, NextSound DEF Sound
<1> QED
  BY <1>1, <1>2, PTL DEF Spec

\* Types, for every value of the constants.
THEOREM TypesHold == Spec => []TypeOK
<1>1. IInv => TypeOK
  BY DEF IInv, MemoryInv, MemoryType, StackInv, LifeInv, TypeOK, Held
<1> QED
  BY <1>1, Invariance, PTL

\* The tables of tracked values are exact: no id is given twice in a context,
\* whatever its counter started from, and nothing is lost or left behind.
THEOREM TablesExact == Spec => []TrackedExactly
<1>1. IInv => TrackedExactly
  BY DEF IInv, MemoryInv
<1> QED
  BY <1>1, Invariance, PTL

\* What Go holds is an allocated value of an open context.
THEOREM NoDanglingValues == Spec => []HeldIsLive
<1>1. IInv => HeldIsLive
  BY DEF IInv, MemoryInv
<1> QED
  BY <1>1, Invariance, PTL

\* The Go side and the C++ side agree on which context frees a value, but for
\* the results of ThrowException, which Go gives no context (isolate.go:158-160).
THEOREM ContextsAgree == Spec => []GoAgreesOnContext
<1>1. IInv => GoAgreesOnContext
  BY DEF IInv, MemoryInv
<1> QED
  BY <1>1, Invariance, PTL

\* However calls, callbacks and the microtask queue nest, and whichever contexts
\* are closed in between, a callback misses its Go Context only when it is made
\* by a reaction whose context was closed while it waited (v8go.cc:491,
\* context.go, goContext).
THEOREM OthersFind == Spec => []OnlyOrphansMiss
<1>1. IInv => OnlyOrphansMiss
  BY DEF IInv, LifeInv
<1> QED
  BY <1>1, Invariance, PTL

\* Disposing the isolate leaves nothing allocated.
THEOREM DisposeFreesAll == Spec => []DisposedClean
<1>1. IInv => DisposedClean
  BY DEF IInv, LifeInv, DisposedClean
<1> QED
  BY <1>1, Invariance, PTL

\* The binding implements the arena allocator.
THEOREM BindingImplementsArena == Spec => ImplementsArena
<1>1. Init => Memory!Init
  BY ConstantsOK, InitSound
<1>2. IInv /\ [Next]_vars => [Memory!Next]_(Memory!vars)
  BY ConstantsOK, NextSound DEF Sound
<1> QED
  BY <1>1, <1>2, Invariance, PTL DEF Spec, ImplementsArena, Memory!Spec
=============================================================================

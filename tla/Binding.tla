------------------------------ MODULE Binding ------------------------------
(***************************************************************************)
(* The V8 binding (src/utils/v8go): the C++ functions of v8go.cc that Go   *)
(* calls through cgo, as the Go packages of the same directory call them.  *)
(*                                                                         *)
(* A call enters the isolate under V8's Locker, may run JavaScript, which  *)
(* may call a Go function back, which may call the binding again; it ends  *)
(* by handing Go an m_value that the context tracks, an error, or an end   *)
(* of the process.  Each function of v8go.cc is one definition here, made  *)
(* of the few steps they share: Enter (JavaScript runs and may call back), *)
(* Yield (a new m_value, no JavaScript) and Inspect (nothing changes).     *)
(* The reactions of promises wait in a queue that all contexts share; they *)
(* run when the outermost call ends, or when Go asks for it.               *)
(*                                                                         *)
(* Left out: the contents of values, the texts of errors, heap statistics, *)
(* templates (module Templates), the profiler and backing stores.          *)
(***************************************************************************)
EXTENDS Integers, Sequences, FiniteSets

CONSTANTS
    Threads,        \* the OS threads that call the binding
    Ctxs,           \* the contexts Go creates
    Internal,       \* the context NewIsolate creates for itself
    Values,         \* addresses of m_values
    NullV, UndefV,  \* the two values Isolate keeps for null and undefined
    Scripts,        \* addresses of m_unboundScripts
    NoCtx,          \* no context
    NoValue,        \* no Go Value
    Starts,         \* what the memory of a new m_ctx may hold as nextValId
    Frees,          \* what the caller uses of "release", "close", "dispose"
    MaxId,          \* of each context: bound on its nextValId
    MaxDepth,       \* bound on nested calls and callbacks of a thread
    MaxArgs         \* bound on the arguments of a callback

Contexts == Ctxs \union {Internal}

ASSUME ConstantsOK ==
    /\ Internal \notin Ctxs
    /\ NoCtx \notin Contexts /\ NoValue \notin Contexts \union {NoCtx}
    /\ IsFiniteSet(Values) /\ {NullV, UndefV} \subseteq Values /\ NullV # UndefV
    /\ Starts \subseteq Int
    /\ Frees \subseteq {"release", "close", "dispose"}
    /\ MaxId \in [Contexts -> Int] /\ MaxDepth \in Nat /\ MaxArgs \in Nat

VARIABLES
    iso,            \* "live" or "disposed"
    terminating,    \* TerminateExecution was called and its exception is active
    crash,          \* how the process died: "none", "checked" or "context"
    stack,          \* of each thread: its calls and callbacks, innermost last
    pending,        \* the contexts with reactions in the isolate's microtask queue
    cstate,         \* of each context: "none", "open" or "freed"
    registry,       \* ctxRegistry: the contexts Go finds by number
    nextValId,      \* m_ctx.nextValId
    vals,           \* m_ctx.vals, as pairs of an id and a value
    mval,           \* the m_value at each address
    scripts,        \* m_ctx.unboundScripts of the internal context
    goval,          \* the Go Value of each m_value: its ctx, while Go may use it
    thrown          \* those of them that ThrowException returned: undefined

memory == <<cstate, registry, nextValId, vals, mval, scripts, goval, thrown>>
vars == <<iso, terminating, crash, stack, pending, memory>>

\* m_value, and memory that holds none.
MValue == [id : Int, ctx : Contexts]
Unallocated == [id |-> 0, ctx |-> NoCtx]
Live(v) == mval[v].ctx # NoCtx
Unused == {v \in Values : ~Live(v)}
Held == {v \in Values : goval[v] # NoValue}

\* A frame is a C++ call that runs JavaScript, one that works off the microtask
\* queue (its JavaScript is over), or a Go callback.  `yields`: the call tracks
\* its result.  `checked`: it ends the process when V8 answers with nothing
\* (ToChecked and Check) instead of returning an error.
Frame == [at : {"js", "go", "tasks"}, ctx : Contexts, goctx : Ctxs \union {NoCtx},
          yields : BOOLEAN, checked : BOOLEAN]
JsFrame(c, g, yields, checked) ==
    [at |-> "js", ctx |-> c, goctx |-> IF yields THEN g ELSE NoCtx,
     yields |-> yields, checked |-> checked]
TasksFrame == [JsFrame(Internal, NoCtx, FALSE, FALSE) EXCEPT !.at = "tasks"]
Top(t) == stack[t][Len(stack[t])]
In(t, here) == stack[t] # <<>> /\ Top(t).at = here
InJs(t) == In(t, "js")
InGo(t) == In(t, "go")
InTasks(t) == In(t, "tasks")
Pop(t) == stack' = [stack EXCEPT ![t] = SubSeq(@, 1, Len(@) - 1)]

TypeOK ==
    /\ iso \in {"live", "disposed"} /\ terminating \in BOOLEAN
    /\ crash \in {"none", "checked", "context"}
    /\ stack \in [Threads -> Seq(Frame)]
    /\ pending \subseteq Ctxs
    /\ cstate \in [Contexts -> {"none", "open", "freed"}]
    /\ registry \subseteq Ctxs
    /\ nextValId \in [Contexts -> Int]
    /\ vals \in [Contexts -> SUBSET (Int \X Values)]
    /\ mval \in [Values -> MValue \union {Unallocated}]
    /\ scripts \subseteq Scripts
    /\ goval \in [Values -> Ctxs \union {NoCtx, NoValue}]
    /\ thrown \subseteq Values

\* The two values a new isolate tracks, by their ids.
NewValueNull(start) == <<start + 1, NullV>>
NewValueUndefined(start) == <<start + 2, UndefV>>

\* NewIsolate: the internal context is a new m_ctx, whose nextValId nobody
\* sets, and Go at once asks for the values of null and undefined.
NewIsolate(start) ==
    /\ iso = "live" /\ terminating = FALSE /\ crash = "none"
    /\ stack = [t \in Threads |-> <<>>] /\ pending = {}
    /\ cstate = [c \in Contexts |-> IF c = Internal THEN "open" ELSE "none"]
    /\ registry = {}
    /\ nextValId = [c \in Contexts |-> IF c = Internal THEN start + 2 ELSE start]
    /\ vals = [c \in Contexts |-> IF c = Internal
                    THEN {NewValueNull(start), NewValueUndefined(start)} ELSE {}]
    /\ mval = [v \in Values |->
                CASE v = NullV -> [id |-> start + 1, ctx |-> Internal]
                  [] v = UndefV -> [id |-> start + 2, ctx |-> Internal]
                  [] OTHER -> Unallocated]
    /\ scripts = {} /\ thrown = {}
    /\ goval = [v \in Values |-> IF v \in {NullV, UndefV} THEN NoCtx ELSE NoValue]

Init == \E start \in Starts : NewIsolate(start)

-----------------------------------------------------------------------------
(* The steps the functions share.                                          *)

\* The Locker: a thread enters when no other is inside, and again from a
\* callback of its own.
CanCall(t) == /\ iso = "live" /\ crash = "none"
              /\ \A u \in Threads \ {t} : stack[u] = <<>>
              /\ stack[t] = <<>> \/ InGo(t)

\* A counter that is read and not advanced.
MutTrack(c, S, no) ==
    /\ nextValId[c] + Cardinality(S) <= MaxId[c]
    /\ UNCHANGED nextValId
    /\ mval' = [v \in Values |->
                IF v \in S THEN [id |-> nextValId[c] + no[v], ctx |-> c] ELSE mval[v]]
    /\ vals' = [vals EXCEPT ![c] =
                {p \in @ : \A v \in S : p[1] # nextValId[c] + no[v]}
                    \union {<<nextValId[c] + no[v], v>> : v \in S}]

\* tracked_value for the m_values S, in the order `no` numbers them: the id
\* is the context's next one, and vals[id] = val replaces what id had.
Track(c, S, no) ==
    /\ nextValId[c] + Cardinality(S) <= MaxId[c]
    /\ nextValId' = [nextValId EXCEPT ![c] = @ + Cardinality(S)]
    /\ mval' = [v \in Values |->
                IF v \in S THEN [id |-> nextValId[c] + no[v], ctx |-> c] ELSE mval[v]]
    /\ vals' = [vals EXCEPT ![c] =
                {p \in @ : \A v \in S : p[1] # nextValId[c] + no[v]}
                    \union {<<nextValId[c] + no[v], v>> : v \in S}]

Numberings(S) == {no \in [S -> 1 .. Cardinality(S)] :
                    \A v, w \in S : no[v] = no[w] => v = w}

\* New m_values tracked by c, as Go Values of the context g.
NewValues(c, g, S) ==
    /\ S \subseteq Unused
    /\ \E no \in Numberings(S) : Track(c, S, no)
    /\ goval' = [v \in Values |-> IF v \in S THEN g ELSE goval[v]]
    /\ UNCHANGED <<cstate, registry, scripts, thrown>>

\* A call that runs JavaScript.
Enter(t, frame) ==
    /\ CanCall(t) /\ Len(stack[t]) < MaxDepth
    /\ stack' = [stack EXCEPT ![t] = Append(@, frame)]
    /\ UNCHANGED <<iso, terminating, crash, pending, memory>>

\* A call that runs none, and returns a new value or, changing nothing, an error.
Yield(t, c, g) ==
    /\ CanCall(t)
    /\ \E v \in Unused : NewValues(c, g, {v})
    /\ UNCHANGED <<iso, terminating, crash, stack, pending>>

\* A call that only reads, or writes what is not modelled.
Inspect(t, r) == CanCall(t) /\ r \in Held /\ UNCHANGED vars

\* The same in the context of a Go Context, and in that of the receiver r:
\* its m_value's own (LOCAL_VALUE), the result getting the Go ctx of r.  Of
\* undefined, which is what ThrowException returns, nothing can be had.
IsOpen(c) == cstate[c] = "open"
EnterContext(t, c, checked) == IsOpen(c) /\ Enter(t, JsFrame(c, c, TRUE, checked))
YieldContext(t, c) == IsOpen(c) /\ Yield(t, c, c)
EnterValue(t, r, yields, checked) ==
    /\ r \in Held /\ (yields => r \notin thrown)
    /\ Enter(t, JsFrame(mval[r].ctx, goval[r], yields, checked))
\* The result tracked by the internal context, whatever the receiver's.
MutYieldValue(t, r) == r \in Held \ thrown /\ Yield(t, Internal, goval[r])
YieldValue(t, r) == r \in Held \ thrown /\ Yield(t, mval[r].ctx, goval[r])

\* Objects stay in their context; the internal one only holds primitives.
MayMix(r, a) == {r, a} \subseteq Held /\ mval[a].ctx \in {mval[r].ctx, Internal}

-----------------------------------------------------------------------------
(* How JavaScript ends, and Go callbacks.                                  *)

\* A call may end when its JavaScript has: the outermost one only after the
\* reactions it left, unless it is terminated.  Of the reactions that a call
\* works off, those that RunReaction did not pick called nothing of Go.
MayEnd(t) == \/ InJs(t) /\ (Len(stack[t]) > 1 \/ pending = {} \/ terminating)
             \/ InTasks(t)
End(t) == /\ MayEnd(t) /\ crash = "none" /\ Pop(t)
          /\ pending' = IF InTasks(t) THEN {} ELSE pending

\* The result is tracked in the context the call began in.
Return(t) ==
    /\ End(t)
    /\ IF Top(t).yields
       THEN \E v \in Unused : NewValues(Top(t).ctx, Top(t).goctx, {v})
       ELSE UNCHANGED memory
    /\ UNCHANGED <<iso, terminating, crash>>

\* JavaScript throws, or is terminated: ExceptionError, or the end of the
\* process where the function insists on a result.  V8 drops the termination
\* once no JavaScript is left on the stack.
Throw(t) ==
    /\ End(t)
    /\ IF Top(t).checked THEN crash' = "checked" ELSE UNCHANGED crash
    /\ terminating' = (terminating /\ Len(stack[t]) > 1)
    /\ UNCHANGED <<iso, memory>>

\* Running JavaScript queues a reaction: a promise it settled, or awaits.
Await(t) ==
    /\ InJs(t) /\ crash = "none" /\ Top(t).ctx \in Ctxs \ pending
    /\ pending' = pending \union {Top(t).ctx}
    /\ UNCHANGED <<iso, terminating, crash, stack, memory>>

\* The call depth is back at 0: the queue is worked off before the call ends.
CallDepthZero(t) ==
    /\ InJs(t) /\ crash = "none" /\ ~terminating
    /\ Len(stack[t]) = 1 /\ pending # {}
    /\ stack' = [stack EXCEPT ![t][1].at = "tasks"]
    /\ UNCHANGED <<iso, terminating, crash, pending, memory>>

\* A reaction runs in the context it belongs to, closed or not.
RunReaction(t, c) ==
    /\ InTasks(t) /\ crash = "none" /\ ~terminating
    /\ c \in pending /\ Len(stack[t]) < MaxDepth
    /\ pending' = pending \ {c}
    /\ stack' = [stack EXCEPT ![t] = Append(@, JsFrame(c, NoCtx, FALSE, FALSE))]
    /\ UNCHANGED <<iso, terminating, crash, memory>>

\* The context's number leads to the Go Context, or to a nil one whose ptr
\* goContext then reads; `this` and the arguments are tracked by it.
FunctionTemplateCallback(t, S) ==
    /\ InJs(t) /\ crash = "none" /\ ~terminating
    /\ Top(t).ctx \in Ctxs /\ Len(stack[t]) < MaxDepth
    /\ S # {} /\ Cardinality(S) <= MaxArgs + 1
    /\ IF Top(t).ctx \in registry
       THEN /\ NewValues(Top(t).ctx, Top(t).ctx, S)
            /\ stack' = [stack EXCEPT ![t] = Append(@, [Top(t) EXCEPT !.at = "go"])]
            /\ UNCHANGED crash
       ELSE crash' = "context" /\ UNCHANGED <<stack, memory>>
    /\ UNCHANGED <<iso, terminating, pending>>

\* The callback returns one of its values, or nil.
CallbackReturn(t) == /\ InGo(t) /\ crash = "none" /\ Pop(t)
                     /\ UNCHANGED <<iso, terminating, crash, pending, memory>>

\* The callback ends with ThrowException(r): nothing else may be called after
\* it.  The result is tracked beside r, but its Go Value gets no context.
IsolateThrowException(t, r) ==
    /\ InGo(t) /\ crash = "none" /\ r \in Held /\ Pop(t)
    /\ \E v \in Unused : /\ \E no \in Numberings({v}) : Track(mval[r].ctx, {v}, no)
                          /\ goval' = [goval EXCEPT ![v] = NoCtx]
                          /\ thrown' = thrown \union {v}
    /\ UNCHANGED <<iso, terminating, crash, pending, cstate, registry, scripts>>

\* Any thread, at any time: no Locker.
IsolateTerminateExecution ==
    /\ iso = "live" /\ crash = "none" /\ ~terminating
    /\ terminating' = TRUE
    /\ UNCHANGED <<iso, crash, stack, pending, memory>>

-----------------------------------------------------------------------------
(* Contexts and scripts.                                                   *)

\* A context that Go does not register.
MutNewContext(t, c) ==
    /\ CanCall(t) /\ cstate[c] = "none"
    /\ cstate' = [cstate EXCEPT ![c] = "open"]
    /\ \E start \in Starts : nextValId' = [nextValId EXCEPT ![c] = start]
    /\ UNCHANGED <<iso, terminating, crash, stack, pending, registry, vals, mval, scripts,
                   goval, thrown>>

NewContext(t, c) ==
    /\ CanCall(t) /\ cstate[c] = "none"
    /\ cstate' = [cstate EXCEPT ![c] = "open"]
    /\ registry' = registry \union {c}
    /\ \E start \in Starts : nextValId' = [nextValId EXCEPT ![c] = start]
    /\ UNCHANGED <<iso, terminating, crash, stack, pending, vals, mval, scripts, goval,
                   thrown>>

\* ContextFree deletes the values the context tracks; it takes no Locker.
ContextFree(c) ==
    /\ mval' = [v \in Values |-> IF \E p \in vals[c] : p[2] = v
                                 THEN Unallocated ELSE mval[v]]
    /\ vals' = [vals EXCEPT ![c] = {}]
    /\ cstate' = [cstate EXCEPT ![c] = "freed"]

\* Context.Close.  The code checks none of the caller's part: no other thread is
\* in the isolate (isolate.go:47), no call or callback of its own runs in c, and
\* the Values of c are dropped, those of ThrowException too.
Close(t, c) ==
    /\ "close" \in Frees /\ CanCall(t) /\ IsOpen(c)
    /\ \A i \in DOMAIN stack[t] : stack[t][i].ctx # c
    /\ registry' = registry \ {c}
    /\ ContextFree(c)
    /\ goval' = [v \in Values |-> IF goval[v] = c \/ (v \in thrown /\ mval[v].ctx = c)
                                  THEN NoValue ELSE goval[v]]
    /\ thrown' = {v \in thrown : mval[v].ctx # c}
    /\ UNCHANGED <<iso, terminating, crash, stack, pending, nextValId, scripts>>

\* Isolate.Dispose frees the internal context only, its scripts with it; the
\* caller has closed the others and uses nothing of the isolate any more.
IsolateDispose(t) ==
    /\ "dispose" \in Frees /\ CanCall(t) /\ stack[t] = <<>>
    /\ \A c \in Ctxs : ~IsOpen(c)
    /\ iso' = "disposed"
    /\ ContextFree(Internal)
    /\ scripts' = {} /\ pending' = {} /\ thrown' = {}
    /\ goval' = [v \in Values |-> NoValue]
    /\ UNCHANGED <<terminating, crash, stack, registry, nextValId>>

\* Released values that keep their id, or take those of the same id in other
\* contexts with them.
MutValueRelease(t, v) ==
    /\ "release" \in Frees /\ CanCall(t)
    /\ v \in Held \ {NullV, UndefV}
    /\ vals' = [vals EXCEPT ![mval[v].ctx] = {p \in @ : p[1] # mval[v].id}]
    /\ mval' = [mval EXCEPT ![v].ctx = NoCtx]
    /\ goval' = [goval EXCEPT ![v] = NoValue]
    /\ thrown' = thrown \ {v}
    /\ UNCHANGED <<iso, terminating, crash, stack, pending, cstate, registry, nextValId,
                   scripts>>
MutReleaseById(t, v) ==
    /\ "release" \in Frees /\ CanCall(t)
    /\ v \in Held \ {NullV, UndefV}
    /\ vals' = [c \in Contexts |-> {p \in vals[c] : p[1] # mval[v].id}]
    /\ mval' = [w \in Values |-> IF mval[w].id = mval[v].id THEN Unallocated ELSE mval[w]]
    /\ goval' = [goval EXCEPT ![v] = NoValue]
    /\ thrown' = thrown \ {v}
    /\ UNCHANGED <<iso, terminating, crash, stack, pending, cstate, registry, nextValId,
                   scripts>>

\* Value.Release, of a value a call gave the caller.  No Locker is taken: that no
\* other thread is in the isolate is the caller's part (isolate.go:47).
ValueRelease(t, v) ==
    /\ "release" \in Frees /\ CanCall(t)
    /\ v \in Held \ {NullV, UndefV}
    /\ vals' = [vals EXCEPT ![mval[v].ctx] = {p \in @ : p[1] # mval[v].id}]
    /\ mval' = [mval EXCEPT ![v] = Unallocated]
    /\ goval' = [goval EXCEPT ![v] = NoValue]
    /\ thrown' = thrown \ {v}
    /\ UNCHANGED <<iso, terminating, crash, stack, pending, cstate, registry, nextValId,
                   scripts>>

IsolateCompileUnboundScript(t, s) ==
    /\ CanCall(t) /\ s \notin scripts
    /\ scripts' = scripts \union {s}
    /\ UNCHANGED <<iso, terminating, crash, stack, pending, cstate, registry, nextValId,
                   vals, mval, goval, thrown>>

RunScript(t, c) == EnterContext(t, c, FALSE)
UnboundScriptRun(t, c, s) == s \in scripts /\ EnterContext(t, c, FALSE)
ContextGlobal(t, c) == YieldContext(t, c)
JSONParse(t, c) == YieldContext(t, c)
NewPromiseResolver(t, c) == YieldContext(t, c)
ObjectTemplateNewInstance(t, c) == YieldContext(t, c)
FunctionTemplateGetFunction(t, c) == YieldContext(t, c)
UnboundScriptCreateCodeCache(t, s) == s \in scripts /\ CanCall(t) /\ UNCHANGED vars

\* toJSON may run and throw: the result is then no string, and no error.
JSONStringify(t, r) == EnterValue(t, r, FALSE, FALSE)

\* Go asks for the reactions; nothing happens while they run already.
IsolatePerformMicrotaskCheckpoint(t) ==
    /\ \A i \in DOMAIN stack[t] : stack[t][i].at # "tasks"
    /\ Enter(t, TasksFrame)

-----------------------------------------------------------------------------
(* Values.                                                                 *)

\* Primitives are tracked by the internal context, and their Go Values have no
\* context at all.
NewValueInteger(t) == Yield(t, Internal, NoCtx)
NewValueString(t) == Yield(t, Internal, NoCtx)
\* A primitive tracked by a context that may close before it.
MutNewValueNumber(t) == \E c \in Ctxs : IsOpen(c) /\ Yield(t, c, NoCtx)
NewValueNumber(t) == Yield(t, Internal, NoCtx)
NewValueBigIntFromWords(t) == Yield(t, Internal, NoCtx)

\* What V8 answers about a value without running JavaScript.
ValueToBoolean(t, r) == Inspect(t, r)
ValueSameValue(t, r, a) == a \in Held /\ Inspect(t, r)
ValueIs(t, r) == Inspect(t, r)
ObjectInternalFieldCount(t, r) == Inspect(t, r)
ObjectSetInternalField(t, r, a) == MayMix(r, a) /\ Inspect(t, r)
PromiseState(t, r) == Inspect(t, r)

\* valueOf and toString may run; a number is insisted on.
ValueToNumber(t, r) == EnterValue(t, r, FALSE, TRUE)
ValueToUint32(t, r) == EnterValue(t, r, FALSE, TRUE)
ValueToArrayIndex(t, r) == EnterValue(t, r, FALSE, FALSE)
ValueToDetailString(t, r) == EnterValue(t, r, FALSE, FALSE)
ValueToString(t, r) == EnterValue(t, r, FALSE, FALSE)
ValueToBigInt(t, r) == EnterValue(t, r, FALSE, FALSE)
ValueToObject(t, r) == YieldValue(t, r)

\* Getters, setters and the traps of proxies may run; only Get has an error.
ObjectSet(t, r, a) == MayMix(r, a) /\ EnterValue(t, r, FALSE, TRUE)
ObjectGet(t, r) == EnterValue(t, r, TRUE, FALSE)
ObjectGetIdx(t, r) == EnterValue(t, r, TRUE, FALSE)
ObjectGetInternalField(t, r) == YieldValue(t, r)
ObjectHas(t, r) == EnterValue(t, r, FALSE, TRUE)
ObjectDelete(t, r) == EnterValue(t, r, FALSE, TRUE)

PromiseResolverGetPromise(t, r) == YieldValue(t, r)
PromiseResolverResolve(t, r, a) == MayMix(r, a) /\ EnterValue(t, r, FALSE, TRUE)
PromiseThen(t, r) == EnterValue(t, r, TRUE, FALSE)
PromiseThen2(t, r) == EnterValue(t, r, TRUE, FALSE)
PromiseCatch(t, r) == EnterValue(t, r, TRUE, FALSE)
PromiseResult(t, r) == YieldValue(t, r)

FunctionCall(t, r, a) == MayMix(r, a) /\ EnterValue(t, r, TRUE, FALSE)
FunctionNewInstance(t, r, a) == MayMix(r, a) /\ EnterValue(t, r, TRUE, FALSE)
FunctionSourceMapUrl(t, r) == YieldValue(t, r)

-----------------------------------------------------------------------------
ContextCall(t, c) ==
    \/ NewContext(t, c) \/ Close(t, c)
    \/ RunScript(t, c) \/ \E s \in Scripts : UnboundScriptRun(t, c, s)
    \/ ContextGlobal(t, c) \/ JSONParse(t, c) \/ NewPromiseResolver(t, c)
    \/ ObjectTemplateNewInstance(t, c) \/ FunctionTemplateGetFunction(t, c)

ValueCall(t, r) ==
    \/ ValueToNumber(t, r) \/ ValueToUint32(t, r) \/ ValueToArrayIndex(t, r)
    \/ ValueToDetailString(t, r) \/ ValueToString(t, r) \/ ValueToBigInt(t, r)
    \/ ValueToBoolean(t, r) \/ ValueIs(t, r) \/ ObjectInternalFieldCount(t, r)
    \/ PromiseState(t, r) \/ ValueToObject(t, r)
    \/ JSONStringify(t, r) \/ ValueRelease(t, r)
    \/ ObjectGet(t, r) \/ ObjectGetIdx(t, r) \/ ObjectGetInternalField(t, r)
    \/ ObjectHas(t, r) \/ ObjectDelete(t, r)
    \/ PromiseResolverGetPromise(t, r) \/ PromiseResult(t, r)
    \/ PromiseThen(t, r) \/ PromiseThen2(t, r) \/ PromiseCatch(t, r)
    \/ FunctionSourceMapUrl(t, r)
    \/ \E a \in Values : \/ ObjectSet(t, r, a) \/ PromiseResolverResolve(t, r, a)
                         \/ FunctionCall(t, r, a) \/ FunctionNewInstance(t, r, a)
                         \/ ValueSameValue(t, r, a) \/ ObjectSetInternalField(t, r, a)

IsolateCall(t) ==
    \/ NewValueInteger(t) \/ NewValueString(t)
    \/ NewValueNumber(t) \/ NewValueBigIntFromWords(t)
    \/ \E s \in Scripts : \/ IsolateCompileUnboundScript(t, s)
                           \/ UnboundScriptCreateCodeCache(t, s)
    \/ IsolatePerformMicrotaskCheckpoint(t) \/ IsolateDispose(t)

JavaScript(t) ==
    \/ Return(t) \/ Throw(t) \/ CallbackReturn(t)
    \/ Await(t) \/ CallDepthZero(t) \/ \E c \in Ctxs : RunReaction(t, c)
    \/ \E S \in SUBSET Unused : FunctionTemplateCallback(t, S)
    \/ \E r \in Values : IsolateThrowException(t, r)

Next == \/ \E t \in Threads :
            \/ JavaScript(t) \/ IsolateCall(t)
            \/ \E c \in Ctxs : ContextCall(t, c)
            \/ \E r \in Values : ValueCall(t, r)
        \/ IsolateTerminateExecution

Spec == Init /\ [][Next]_vars

-----------------------------------------------------------------------------
\* Every m_value is in the table of its own context, once, under its own id, and
\* the tables hold nothing else: the test `id == 0` and the uninitialised
\* counter of a new context never make two values share an entry.
TrackedExactly ==
    /\ \A v \in Values : Live(v) => <<mval[v].id, v>> \in vals[mval[v].ctx]
    /\ \A c \in Contexts : \A p \in vals[c] : mval[p[2]] = [id |-> p[1], ctx |-> c]
    /\ \A c \in Contexts : \A p, q \in vals[c] : p[1] = q[1] => p = q

\* A Value that Go may still use is an allocated m_value of a context that is
\* still there, whatever was released or closed since, by whichever thread.
HeldIsLive == \A v \in Held : Live(v) /\ IsOpen(mval[v].ctx)

\* The context in a Go Value is the one that will free its m_value, and a Value
\* without one lives as long as the isolate: all but the undefined values that
\* ThrowException returned, which have no context and die with the thrown one's
\* (isolate.go:158-160, v8go.cc:267-278).
GoAgreesOnContext ==
    \A v \in Held : IF v \in thrown THEN goval[v] = NoCtx
                    ELSE mval[v].ctx = (IF goval[v] = NoCtx THEN Internal ELSE goval[v])

\* v8go.cc:487-490, a callback "can be called from any Context", and its number
\* is used "to match the Context on the Go side".  That is so but for one: the
\* callback that finds none is made by a reaction whose context was closed while
\* it waited, directly on the queue; every other JavaScript that calls Go has
\* its context in the registry, at any depth.
OnlyOrphansMiss == crash = "context" =>
    \E t \in Threads : LET n == Len(stack[t]) IN
        InJs(t) /\ n > 1 /\ stack[t][n - 1].at = "tasks" /\ cstate[Top(t).ctx] = "freed"

\* Disposing the isolate leaves no m_value and no script behind.
DisposedClean == iso = "disposed" => scripts = {} /\ \A v \in Values : ~Live(v)

\* The binding is an arena allocator.
Memory == INSTANCE Arena WITH
            Arenas <- Contexts, Unowned <- NoCtx,
            owner <- [v \in Values |-> mval[v].ctx],
            unopened <- {c \in Contexts : cstate[c] = "none"},
            open <- {c \in Contexts : IsOpen(c)}
ImplementsArena == Memory!Spec
=============================================================================

------------------------------ MODULE Templates ------------------------------
(***************************************************************************)
(* Templates of the V8 binding and their memory.  A Go template points to a *)
(* C++ wrapper, an m_template, which holds the V8 template.  The garbage    *)
(* collector finds a Go template that nothing refers to, and its finalizer  *)
(* frees the wrapper, from a goroutine of its own, without V8's Locker.     *)
(*                                                                          *)
(* A call copies the wrapper's address, waits for the Locker (JavaScript of *)
(* another thread may hold it for long) and only then reads the wrapper.    *)
(* What keeps the Go template reachable meanwhile is runtime.KeepAlive after *)
(* the call, or nothing: the collector takes a variable as dead after its   *)
(* last use, the receiver of a running method included.                     *)
(***************************************************************************)
EXTENDS Naturals

CONSTANTS
    Threads,            \* the threads that call the binding
    ObjTmpls, FunTmpls, \* the object and function templates they create
    Addrs,              \* addresses of m_templates, used again when freed
    Nil,                \* no address, no template, no call
    Careful             \* callers hold a template for as long as they call it

Tmpls == ObjTmpls \union FunTmpls

ASSUME ConstantsOK ==
    /\ ObjTmpls \intersect FunTmpls = {}
    /\ Nil \notin Tmpls \union Addrs
    /\ Careful \in BOOLEAN

VARIABLES
    iso,        \* "live" or "disposed"
    go,         \* of each Go template: "none", "held" by the program,
                \* "dropped", "queued" for its finalizer, "done"
    ptr,        \* template.ptr: an address
    wrapper,    \* the V8 template in the m_template at each address
    content,    \* of each V8 template: itself, what was Set in it, and so on
    built,      \* the V8 templates that objects or functions were made of
    cbs,        \* Isolate.cbs: the function templates with a Go callback
    call        \* the call each thread is in

vars == <<iso, go, ptr, wrapper, content, built, cbs, call>>

Ops == {"setValue", "setTemplate", "newInstance", "getFunction", "newContext",
        "setFieldCount", "fieldCount"}
\* The calls with no runtime.KeepAlive behind them.
Unkept == {"setFieldCount", "fieldCount"}

\* A call on the template `on`, with the template `with` as argument, and the
\* addresses it copied.
Call == [op : Ops, on : Tmpls, with : Tmpls \union {Nil},
         at : Addrs, withAt : Addrs \union {Nil}]
Calling(t) == call[t] # Nil
Uses(t, x) == Calling(t) /\ x \in {call[t].on, call[t].with}

TypeOK ==
    /\ iso \in {"live", "disposed"}
    /\ go \in [Tmpls -> {"none", "held", "dropped", "queued", "done"}]
    /\ ptr \in [Tmpls -> Addrs \union {Nil}]
    /\ wrapper \in [Addrs -> Tmpls \union {Nil}]
    /\ content \in [Tmpls -> SUBSET Tmpls]
    /\ built \subseteq Tmpls /\ cbs \subseteq FunTmpls
    /\ call \in [Threads -> Call \union {Nil}]

Init ==
    /\ iso = "live"
    /\ go = [x \in Tmpls |-> "none"]
    /\ ptr = [x \in Tmpls |-> Nil]
    /\ wrapper = [a \in Addrs |-> Nil]
    /\ content = [x \in Tmpls |-> {x}]
    /\ built = {} /\ cbs = {}
    /\ call = [t \in Threads |-> Nil]

-----------------------------------------------------------------------------
(* Creating, and calling.                                                   *)

\* A new m_template, a new V8 template in it, and a Go template with a finalizer.
New(t, x) ==
    /\ iso = "live" /\ ~Calling(t) /\ go[x] = "none"
    /\ \E a \in Addrs : /\ wrapper[a] = Nil
                        /\ wrapper' = [wrapper EXCEPT ![a] = x]
                        /\ ptr' = [ptr EXCEPT ![x] = a]
    /\ go' = [go EXCEPT ![x] = "held"]
    /\ UNCHANGED <<iso, content, built, call>>

NewObjectTemplate(t, x) == x \in ObjTmpls /\ New(t, x) /\ UNCHANGED cbs
NewFunctionTemplate(t, x) == x \in FunTmpls /\ New(t, x) /\ cbs' = cbs \union {x}

\* A Go template that is used again after its finalizer has run.
MutBegin(t, op, x, y) ==
    /\ iso = "live" /\ ~Calling(t)
    /\ go[x] # "none" /\ (y # Nil => go[y] # "none")
    /\ call' = [call EXCEPT ![t] =
                [op |-> op, on |-> x, with |-> y,
                 at |-> ptr[x], withAt |-> IF y = Nil THEN Nil ELSE ptr[y]]]
    /\ UNCHANGED <<iso, go, ptr, wrapper, content, built, cbs>>

\* The arguments of the C call are evaluated: from here on the wrappers are
\* known by their addresses.
Begin(t, op, x, y) ==
    /\ iso = "live" /\ ~Calling(t)
    /\ go[x] = "held" /\ (y # Nil => go[y] = "held")
    /\ call' = [call EXCEPT ![t] =
                [op |-> op, on |-> x, with |-> y,
                 at |-> ptr[x], withAt |-> IF y = Nil THEN Nil ELSE ptr[y]]]
    /\ UNCHANGED <<iso, go, ptr, wrapper, content, built, cbs>>

\* The caller makes no cycle of templates.
TemplateSetTemplate(t, x, y) == x \notin content[y] /\ Begin(t, "setTemplate", x, y)
TemplateSetValue(t, x) == Begin(t, "setValue", x, Nil)
ObjectTemplateNewInstance(t, x) == x \in ObjTmpls /\ Begin(t, "newInstance", x, Nil)
ObjectTemplateSetInternalFieldCount(t, x) ==
    x \in ObjTmpls /\ Begin(t, "setFieldCount", x, Nil)
ObjectTemplateInternalFieldCount(t, x) ==
    x \in ObjTmpls /\ Begin(t, "fieldCount", x, Nil)
FunctionTemplateGetFunction(t, x) == x \in FunTmpls /\ Begin(t, "getFunction", x, Nil)
NewContext(t, x) == x \in ObjTmpls /\ Begin(t, "newContext", x, Nil)

\* The C function once it has the Locker: it works on what the addresses lead
\* to now.  An object, function or context has all that its template contains.
Run(t) ==
    /\ Calling(t)
    /\ LET x == wrapper[call[t].at]
           y == IF call[t].withAt = Nil THEN Nil ELSE wrapper[call[t].withAt]
       IN  /\ content' = IF call[t].op = "setTemplate" /\ y # Nil
                         THEN [z \in Tmpls |-> IF x \in content[z]
                                THEN content[z] \union content[y] ELSE content[z]]
                         ELSE content
           /\ built' = IF call[t].op \in {"newInstance", "getFunction", "newContext"}
                          /\ x # Nil
                       THEN built \union content[x] ELSE built
    /\ call' = [call EXCEPT ![t] = Nil]
    /\ UNCHANGED <<iso, go, ptr, wrapper, cbs>>

-----------------------------------------------------------------------------
(* Garbage.                                                                 *)

\* runtime.KeepAlive of the receiver without that of the argument.
MutKeeps(t, x) == Calling(t) /\ x = call[t].on
                    /\ call[t].op \notin Unkept

\* runtime.KeepAlive behind a call names the receiver and the argument.
Keeps(t, x) == Uses(t, x) /\ call[t].op \notin Unkept

\* The program uses x for the last time, which may be in a call that runs.
Drop(x) ==
    /\ go[x] = "held"
    /\ Careful => \A t \in Threads : Uses(t, x) => call[t].op \notin Unkept
    /\ go' = [go EXCEPT ![x] = "dropped"]
    /\ UNCHANGED <<iso, ptr, wrapper, content, built, cbs, call>>

\* The collector finds x.
Collect(x) ==
    /\ go[x] = "dropped" /\ \A t \in Threads : ~Keeps(t, x)
    /\ go' = [go EXCEPT ![x] = "queued"]
    /\ UNCHANGED <<iso, ptr, wrapper, content, built, cbs, call>>

\* A finalizer that leaves the wrapper to an isolate that is gone.
MutFinalizeLive(x) ==
    /\ go[x] = "queued" /\ iso = "live"
    /\ go' = [go EXCEPT ![x] = "done"]
    /\ wrapper' = [wrapper EXCEPT ![ptr[x]] = Nil]
    /\ ptr' = [ptr EXCEPT ![x] = Nil]
    /\ UNCHANGED <<iso, content, built, cbs, call>>

\* TemplateFreeWrapper, from the finalizer.  The V8 template stays, for the
\* isolate to clean up.
Finalize(x) ==
    /\ go[x] = "queued"
    /\ go' = [go EXCEPT ![x] = "done"]
    /\ wrapper' = [wrapper EXCEPT ![ptr[x]] = Nil]
    /\ ptr' = [ptr EXCEPT ![x] = Nil]
    /\ UNCHANGED <<iso, content, built, cbs, call>>

\* Isolate.Dispose, by a caller that has no other call running.
IsolateDispose ==
    /\ iso = "live" /\ \A t \in Threads : ~Calling(t)
    /\ iso' = "disposed" /\ built' = {}
    /\ UNCHANGED <<go, ptr, wrapper, content, cbs, call>>

-----------------------------------------------------------------------------
TemplateCall(t, x) ==
    \/ NewObjectTemplate(t, x) \/ NewFunctionTemplate(t, x)
    \/ TemplateSetValue(t, x) \/ \E y \in Tmpls : TemplateSetTemplate(t, x, y)
    \/ ObjectTemplateNewInstance(t, x) \/ FunctionTemplateGetFunction(t, x)
    \/ ObjectTemplateSetInternalFieldCount(t, x)
    \/ ObjectTemplateInternalFieldCount(t, x)
    \/ NewContext(t, x)

Garbage(x) == Drop(x) \/ Collect(x) \/ Finalize(x)

Next == \/ \E t \in Threads : Run(t) \/ \E x \in Tmpls : TemplateCall(t, x)
        \/ \E x \in Tmpls : Garbage(x)
        \/ IsolateDispose

Spec == Init /\ [][Next]_vars

\* Whoever holds the Locker gives it up; the Go runtime collects at least every
\* two minutes and runs finalizers.  Nothing makes a program call or drop.
FairSpec == /\ Spec
            /\ \A t \in Threads : WF_vars(Run(t))
            /\ \A x \in Tmpls : WF_vars(Collect(x)) /\ WF_vars(Finalize(x))

-----------------------------------------------------------------------------
\* "Fix crash by keeping alive the template while its C++ pointer is still being
\* used": the addresses a call has copied lead to the templates it was called
\* with, until it reads them, however many wrappers were freed and reused since.
RightTemplate ==
    \A t \in Threads : Calling(t) =>
        /\ wrapper[call[t].at] = call[t].on
        /\ call[t].with # Nil => wrapper[call[t].withAt] = call[t].with

\* JavaScript can call every function made from a template that is long
\* collected: its Go callback is still registered.
CallbackFound == built \intersect FunTmpls \subseteq cbs

\* A template nobody uses any more loses its wrapper, whether the isolate is
\* still there or not.
WrappersFreed == \A x \in Tmpls : go[x] = "dropped" ~> go[x] = "done"
=============================================================================

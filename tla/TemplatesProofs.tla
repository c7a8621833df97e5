--------------------------- MODULE TemplatesProofs ---------------------------
(***************************************************************************)
(* That calls read the wrappers they were called with, and functions find   *)
(* their callbacks, for any number of threads, templates and addresses.     *)
(*                                                                          *)
(* The argument: a Go template that is not finalized owns a wrapper, two    *)
(* never the same one.  A call has copied the addresses of templates that   *)
(* are not yet queued for their finalizers: KeepAlive sees to it where the  *)
(* code has it, and the caller must where it has not (Careful).             *)
(***************************************************************************)
EXTENDS Templates, TLAPS

Alive(x) == go[x] \in {"held", "dropped"}

\* Every Go template with a wrapper owns it.
Owned == \A x \in Tmpls : go[x] \in {"held", "dropped", "queued"} =>
            ptr[x] \in Addrs /\ wrapper[ptr[x]] = x

\* What a thread calls is not up for finalization, and has not moved.
CallsAlive == \A t \in Threads : Calling(t) =>
    /\ Alive(call[t].on) /\ call[t].at = ptr[call[t].on]
    /\ call[t].with # Nil =>
            Alive(call[t].with) /\ call[t].withAt = ptr[call[t].with]
    /\ call[t].with = Nil <=> call[t].withAt = Nil
    /\ call[t].op \in Unkept => call[t].with = Nil /\ go[call[t].on] = "held"

\* Callbacks stay registered, for the templates and for all they contain.
Registered ==
    /\ \A x \in Tmpls : go[x] = "none" => content[x] = {x}
    /\ \A x \in Tmpls : go[x] # "none" => content[x] \intersect FunTmpls \subseteq cbs
    /\ CallbackFound

TmplInv == TypeOK /\ Owned /\ CallsAlive /\ Registered

LEMMA InitInv == Init => TmplInv
  <1> SUFFICES ASSUME Init PROVE TmplInv  OBVIOUS
  <1> USE ConstantsOK DEF ConstantsOK, Init
  <1>1. TypeOK  BY DEF TypeOK, Tmpls
  <1>2. Owned /\ CallsAlive  BY DEF Owned, CallsAlive, Calling
  <1>3. Registered  BY DEF Registered, CallbackFound
  <1> QED  BY <1>1, <1>2, <1>3 DEF TmplInv

\* A new Go template with a wrapper of its own.
LEMMA NewInv ==
    ASSUME TmplInv, NEW t \in Threads, NEW x \in Tmpls, New(t, x),
           \/ x \in FunTmpls /\ cbs' = cbs \union {x}
           \/ x \in ObjTmpls /\ UNCHANGED cbs
    PROVE  TmplInv'
  <1> USE ConstantsOK DEF ConstantsOK, TmplInv, New
  <1>1. TypeOK'  BY DEF TypeOK, Tmpls
  <1>2. Owned'
    <2>1. PICK a \in Addrs : /\ wrapper[a] = Nil
                             /\ wrapper' = [wrapper EXCEPT ![a] = x]
                             /\ ptr' = [ptr EXCEPT ![x] = a]
      OBVIOUS
    <2> SUFFICES ASSUME NEW y \in Tmpls, go'[y] \in {"held", "dropped", "queued"}
                 PROVE  ptr'[y] \in Addrs /\ wrapper'[ptr'[y]] = y
      BY DEF Owned
    <2>2. CASE y = x  BY <2>1, <2>2 DEF TypeOK
    <2>3. CASE y # x
      <3>1. go[y] \in {"held", "dropped", "queued"}  BY <2>3 DEF TypeOK
      <3>2. ptr[y] \in Addrs /\ wrapper[ptr[y]] = y  BY <3>1 DEF Owned
      <3>3. ptr[y] # a  BY <3>2, <2>1
      <3> QED  BY <2>1, <2>3, <3>2, <3>3 DEF TypeOK
    <2> QED  BY <2>2, <2>3
  <1>3. CallsAlive'
    <2>1. \A y \in Tmpls : Alive(y) => Alive(y)' /\ ptr'[y] = ptr[y] /\ go'[y] = go[y]
      BY DEF Alive, TypeOK
    <2>2. \A u \in Threads : Calling(u) => call[u] \in Call  BY DEF TypeOK, Calling
    <2> QED  BY <2>1, <2>2 DEF CallsAlive, Calling, Call, Alive
  <1>4. Registered'
    <2>1. content[x] = {x}  BY DEF Registered
    <2>2. content' = content /\ built' = built /\ cbs \subseteq cbs'  OBVIOUS
    <2>3. {x} \intersect FunTmpls \subseteq cbs'  BY DEF Tmpls
    <2>4. \A y \in Tmpls : y # x => go'[y] = go[y]  BY DEF TypeOK
    <2>5. go'[x] = "held"  BY DEF TypeOK
    <2> QED  BY <2>1, <2>2, <2>3, <2>4, <2>5 DEF Registered, CallbackFound
  <1> QED  BY <1>1, <1>2, <1>3, <1>4

\* The addresses are copied while both templates are held.
LEMMA BeginInv ==
    ASSUME TmplInv, NEW t \in Threads, NEW op \in Ops, NEW x \in Tmpls,
           NEW y \in Tmpls \union {Nil}, op \in Unkept => y = Nil,
           Begin(t, op, x, y)
    PROVE  TmplInv'
  <1> USE ConstantsOK DEF ConstantsOK, TmplInv, Begin
  <1>1. ptr[x] \in Addrs /\ (y # Nil => ptr[y] \in Addrs)  BY DEF Owned
  <1>2. [op |-> op, on |-> x, with |-> y, at |-> ptr[x],
         withAt |-> IF y = Nil THEN Nil ELSE ptr[y]] \in Call
    BY <1>1 DEF Call
  <1>3. TypeOK'  BY <1>2 DEF TypeOK
  <1>4. Owned'  BY DEF Owned
  <1>5. CallsAlive'
    <2> SUFFICES ASSUME NEW u \in Threads, Calling(u)'
                 PROVE  CallsAlive!(u)!2'
      BY DEF CallsAlive
    <2> QED  BY <1>1 DEF CallsAlive, Calling, TypeOK, Alive
  <1>6. Registered'  BY DEF Registered, CallbackFound
  <1> QED  BY <1>3, <1>4, <1>5, <1>6

\* A call reads the templates it was called with.
LEMMA RunInv ==
    ASSUME TmplInv, NEW t \in Threads, Run(t)
    PROVE  TmplInv'
  <1> DEFINE x == call[t].on
             y == call[t].with
  <1> USE ConstantsOK DEF ConstantsOK, TmplInv
  <1>1. call[t] \in Call  BY DEF Run, Calling, TypeOK
  <1>2. x \in Tmpls /\ y \in Tmpls \union {Nil}  BY <1>1 DEF Call
  <1>3. Alive(x) /\ wrapper[call[t].at] = x
    BY <1>2 DEF Run, CallsAlive, Owned, Alive
  <1>4. y # Nil => Alive(y) /\ call[t].withAt # Nil /\ wrapper[call[t].withAt] = y
    BY <1>2 DEF Run, CallsAlive, Owned, Alive
  <1>5. y = Nil => call[t].withAt = Nil  BY DEF Run, CallsAlive
  <1>6. content' = IF call[t].op = "setTemplate" /\ y # Nil
                   THEN [z \in Tmpls |-> IF x \in content[z]
                            THEN content[z] \union content[y] ELSE content[z]]
                   ELSE content
    BY <1>3, <1>4, <1>5 DEF Run
  <1>7. built' = built \/ built' = built \union content[x]
    BY <1>3 DEF Run
  <1>8. UNCHANGED <<iso, go, ptr, wrapper, cbs>> /\ call' = [call EXCEPT ![t] = Nil]
    BY DEF Run
  <1> HIDE DEF x, y
  <1>9. content' \in [Tmpls -> SUBSET Tmpls]  BY <1>2, <1>6 DEF TypeOK
  <1>10. TypeOK'  BY <1>2, <1>7, <1>8, <1>9 DEF TypeOK
  <1>11. Owned'  BY <1>8 DEF Owned
  <1>12. CallsAlive'  BY <1>8 DEF CallsAlive, Calling, TypeOK, Alive
  <1>13. Registered'
    <2>1. go[x] # "none" /\ (y # Nil => go[y] # "none")  BY <1>3, <1>4 DEF Alive
    <2>2. built' \intersect FunTmpls \subseteq cbs
      BY <1>2, <1>7, <2>1 DEF Registered, CallbackFound
    <2>3. ASSUME NEW z \in Tmpls, go[z] = "none" PROVE content'[z] = {z}
      <3>1. content[z] = {z} /\ x \notin content[z]  BY <2>1, <2>3 DEF Registered
      <3> QED  BY <3>1, <1>6, <2>3
    <2>4. ASSUME NEW z \in Tmpls, go[z] # "none"
          PROVE  content'[z] \intersect FunTmpls \subseteq cbs
      BY <1>2, <1>6, <2>1, <2>4 DEF Registered
    <2> QED  BY <1>8, <2>2, <2>3, <2>4 DEF Registered, CallbackFound
  <1> QED  BY <1>10, <1>11, <1>12, <1>13

\* What the program drops or the collector finds is not what a call needs.
LEMMA GarbageInv ==
    ASSUME TmplInv, Careful, NEW x \in Tmpls, Garbage(x)
    PROVE  TmplInv'
  <1> USE ConstantsOK DEF ConstantsOK, TmplInv
  <1>0. \A t \in Threads : Calling(t) => call[t] \in Call  BY DEF TypeOK, Calling
  <1>1. CASE Drop(x)
    <2> USE <1>1 DEF Drop
    <2>1. TypeOK' /\ Owned'  BY DEF TypeOK, Owned
    <2>2. CallsAlive'
      <3> SUFFICES ASSUME NEW u \in Threads, Calling(u)'
                   PROVE  CallsAlive!(u)!2'
        BY DEF CallsAlive
      <3>1. Calling(u) /\ call'[u] = call[u] /\ call[u] \in Call  BY <1>0 DEF Calling
      <3>2. call[u].op \in Unkept => call[u].on # x  BY <3>1 DEF Uses
      <3>3. \A y \in Tmpls : Alive(y) => Alive(y)'  BY DEF Alive, TypeOK
      <3>4. \A y \in Tmpls : y # x => go'[y] = go[y]  BY DEF TypeOK
      <3> QED  BY <3>1, <3>2, <3>3, <3>4 DEF CallsAlive, Call
    <2>3. Registered'  BY DEF Registered, CallbackFound, TypeOK
    <2> QED  BY <2>1, <2>2, <2>3
  <1>2. CASE Collect(x)
    <2> USE <1>2 DEF Collect
    <2>1. TypeOK' /\ Owned'  BY DEF TypeOK, Owned
    <2>2. CallsAlive'
      <3> SUFFICES ASSUME NEW u \in Threads, Calling(u)'
                   PROVE  CallsAlive!(u)!2'
        BY DEF CallsAlive
      <3>1. Calling(u) /\ call'[u] = call[u] /\ call[u] \in Call  BY <1>0 DEF Calling
      <3>2. call[u].on # x /\ call[u].with # x
        BY <3>1 DEF Keeps, Uses, CallsAlive
      <3>3. \A y \in Tmpls : y # x => go'[y] = go[y]  BY DEF TypeOK
      <3> QED  BY <3>1, <3>2, <3>3 DEF CallsAlive, Call, Alive
    <2>3. Registered'  BY DEF Registered, CallbackFound, TypeOK
    <2> QED  BY <2>1, <2>2, <2>3
  <1>3. CASE Finalize(x)
    <2> USE <1>3 DEF Finalize
    <2>0. ptr[x] \in Addrs /\ wrapper[ptr[x]] = x  BY DEF Owned
    <2>1. TypeOK'  BY DEF TypeOK
    <2>2. Owned'
      <3> SUFFICES ASSUME NEW y \in Tmpls, go'[y] \in {"held", "dropped", "queued"}
                   PROVE  ptr'[y] \in Addrs /\ wrapper'[ptr'[y]] = y
        BY DEF Owned
      <3>1. y # x /\ go[y] \in {"held", "dropped", "queued"}  BY DEF TypeOK
      <3>2. ptr[y] \in Addrs /\ wrapper[ptr[y]] = y  BY <3>1 DEF Owned
      <3>3. ptr[y] # ptr[x]  BY <3>1, <3>2, <2>0
      <3> QED  BY <3>1, <3>2, <3>3 DEF TypeOK
    <2>3. CallsAlive'
      <3> SUFFICES ASSUME NEW u \in Threads, Calling(u)'
                   PROVE  CallsAlive!(u)!2'
        BY DEF CallsAlive
      <3>1. Calling(u) /\ call'[u] = call[u] /\ call[u] \in Call  BY <1>0 DEF Calling
      <3>2. call[u].on # x /\ call[u].with # x
        BY <3>1 DEF CallsAlive, Alive
      <3>3. \A y \in Tmpls : y # x => go'[y] = go[y] /\ ptr'[y] = ptr[y]  BY DEF TypeOK
      <3> QED  BY <3>1, <3>2, <3>3 DEF CallsAlive, Call, Alive
    <2>4. Registered'  BY DEF Registered, CallbackFound, TypeOK
    <2> QED  BY <2>1, <2>2, <2>3, <2>4
  <1> QED  BY <1>1, <1>2, <1>3 DEF Garbage

LEMMA DisposeInv == ASSUME TmplInv, IsolateDispose PROVE TmplInv'
  <1> USE ConstantsOK DEF ConstantsOK, TmplInv, IsolateDispose
  <1>1. TypeOK' /\ Owned'  BY DEF TypeOK, Owned
  <1>2. CallsAlive'  BY DEF CallsAlive, Calling, Alive
  <1>3. Registered'  BY DEF Registered, CallbackFound
  <1> QED  BY <1>1, <1>2, <1>3

LEMMA StepInv == ASSUME TmplInv, Careful, [Next]_vars PROVE TmplInv'
  <1>1. ASSUME NEW t \in Threads, NEW x \in Tmpls, TemplateCall(t, x) PROVE TmplInv'
    <2>1. CASE NewObjectTemplate(t, x)  BY <2>1, NewInv DEF NewObjectTemplate
    <2>2. CASE NewFunctionTemplate(t, x)  BY <2>2, NewInv DEF NewFunctionTemplate
    <2>3. CASE \E y \in Tmpls : TemplateSetTemplate(t, x, y)
      <3>1. PICK y \in Tmpls : Begin(t, "setTemplate", x, y)
        BY <2>3 DEF TemplateSetTemplate
      <3> QED  BY <3>1, BeginInv DEF Ops, Unkept
    <2>4. CASE \E op \in Ops : Begin(t, op, x, Nil)
      <3>1. PICK op \in Ops : Begin(t, op, x, Nil)  BY <2>4
      <3> QED  BY <3>1, BeginInv
    <2> QED
      BY <1>1, <2>1, <2>2, <2>3, <2>4
      DEF TemplateCall, TemplateSetValue, ObjectTemplateNewInstance, NewContext,
          FunctionTemplateGetFunction, ObjectTemplateSetInternalFieldCount,
          ObjectTemplateInternalFieldCount, Ops
  <1>2. ASSUME NEW t \in Threads, Run(t) PROVE TmplInv'  BY <1>2, RunInv
  <1>3. ASSUME NEW x \in Tmpls, Garbage(x) PROVE TmplInv'  BY <1>3, GarbageInv
  <1>4. CASE IsolateDispose  BY <1>4, DisposeInv
  <1>5. CASE UNCHANGED vars
    BY <1>5 DEF vars, TmplInv, TypeOK, Owned, CallsAlive, Calling, Alive, Registered,
                CallbackFound
  <1> QED  BY <1>1, <1>2, <1>3, <1>4, <1>5 DEF Next

LEMMA InvRight == ASSUME TmplInv PROVE RightTemplate
  <1> SUFFICES ASSUME NEW t \in Threads, Calling(t)
               PROVE  RightTemplate!(t)!2
    BY DEF RightTemplate
  <1>1. call[t] \in Call  BY DEF TmplInv, TypeOK, Calling
  <1> QED  BY <1>1 DEF TmplInv, CallsAlive, Owned, Alive, Call

-----------------------------------------------------------------------------
\* The invariant of the binding's templates.
THEOREM TmplInvariant == Careful /\ Spec => []TmplInv
  <1> SUFFICES ASSUME Careful PROVE Spec => []TmplInv  OBVIOUS
  <1> QED  BY InitInv, StepInv, PTL DEF Spec

\* Template variables keep their types: no address is nil in a call.
THEOREM TemplateTypes == Careful /\ Spec => []TypeOK
  <1>1. TmplInv => TypeOK  BY DEF TmplInv
  <1> QED  BY <1>1, TmplInvariant, PTL

\* If callers hold what they call SetInternalFieldCount and InternalFieldCount
\* on, every call reads the wrappers it was called with.
THEOREM CallsReadTheirTemplates == Careful /\ Spec => []RightTemplate
  <1> QED  BY InvRight, TmplInvariant, PTL

\* JavaScript functions outlive their Go templates and find their callbacks.
THEOREM CallbacksRegistered == Careful /\ Spec => []CallbackFound
  <1>1. TmplInv => CallbackFound  BY DEF TmplInv, Registered
  <1> QED  BY <1>1, TmplInvariant, PTL
=============================================================================

\* Two threads, two contexts, two addresses besides null and undefined; the
\* caller releases, closes and disposes.
SPECIFICATION Spec
CONSTANTS
    t1 = t1
    t2 = t2
    c1 = c1
    c2 = c2
    v1 = v1
    v2 = v2
    NullV = nullV
    UndefV = undefV
    Internal = internal
    NoCtx = noctx
    NoValue = novalue
    Threads = {t1, t2}
    Ctxs = {c1, c2}
    Values = {nullV, undefV, v1, v2}
    Scripts = {s1}
    Starts <- GarbageStarts
    Frees = {"release", "close", "dispose"}
    MaxId <- FewIds
    MaxDepth = 3
    MaxArgs = 1
INVARIANTS
    TypeOK
    TrackedExactly
    HeldIsLive
    GoAgreesOnContext
    
PROPERTIES
    ImplementsArena
CHECK_DEADLOCK FALSE
SYMMETRY Alike

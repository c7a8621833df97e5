\* Three threads, two templates and two addresses: two calls share a template,
\* and an address is used again under a call.
SPECIFICATION FairSpec
CONSTANTS
    Threads = {t1, t2, t3}
    ObjTmpls = {o1}
    FunTmpls = {f1}
    Addrs = {a1, a2}
    Nil = Nil
    Careful = TRUE
INVARIANTS
    TypeOK
    RightTemplate
PROPERTY WrappersFreed
CHECK_DEADLOCK FALSE

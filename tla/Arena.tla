------------------------------- MODULE Arena -------------------------------
(***************************************************************************)
(* What the V8 binding promises to its Go callers about memory, without    *)
(* handles, tables, identifiers or call frames: a value belongs to one     *)
(* arena from its allocation on, is freed once, by itself or with every    *)
(* other value of its arena, and an arena never opens a second time.       *)
(***************************************************************************)
CONSTANTS
    Arenas, Values,
    Unowned     \* the owner of a value that is not allocated

VARIABLES
    owner,      \* the arena of each value
    unopened,   \* the arenas not yet opened
    open        \* the arenas that values may be allocated in

vars == <<owner, unopened, open>>

TypeOK == /\ owner \in [Values -> Arenas \union {Unowned}]
          /\ unopened \subseteq Arenas
          /\ open \subseteq Arenas

Init == /\ open \subseteq Arenas
        /\ unopened = Arenas \ open
        /\ owner \in [Values -> open \union {Unowned}]

Open(a) == /\ a \in unopened
           /\ unopened' = unopened \ {a}
           /\ open' = open \union {a}
           /\ UNCHANGED owner

Allocate(a, S) == /\ a \in open
                  /\ \A v \in S : owner[v] = Unowned
                  /\ owner' = [v \in Values |-> IF v \in S THEN a ELSE owner[v]]
                  /\ UNCHANGED <<unopened, open>>

Release(v) == /\ owner[v] \in open
              /\ owner' = [owner EXCEPT ![v] = Unowned]
              /\ UNCHANGED <<unopened, open>>

Close(a) == /\ a \in open
            /\ open' = open \ {a}
            /\ owner' = [v \in Values |-> IF owner[v] = a THEN Unowned ELSE owner[v]]
            /\ UNCHANGED unopened

Next == \/ \E a \in Arenas : Open(a) \/ Close(a)
        \/ \E a \in Arenas, S \in SUBSET Values : Allocate(a, S)
        \/ \E v \in Values : Release(v)

Spec == Init /\ [][Next]_vars
=============================================================================

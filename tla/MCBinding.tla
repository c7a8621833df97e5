----------------------------- MODULE MCBinding -----------------------------
(***************************************************************************)
(* Small isolates for TLC: two threads, two contexts and a few addresses   *)
(* besides those of null and undefined.                                    *)
(***************************************************************************)
EXTENDS Binding, TLC

CONSTANTS t1, t2, c1, c2, v1, v2

\* A counter that starts at -1 gives out 0, the mark of an untracked m_value.
GarbageStarts == {-1, 0}

\* Enough for one primitive more, and two values of each context.
FewIds == [c \in Contexts |-> IF c = Internal THEN 2 ELSE 1]

\* Threads run the same code, and so do contexts; addresses are alike.
Alike == Permutations({t1, t2}) \union Permutations({c1, c2})
            \union Permutations({v1, v2})
=============================================================================

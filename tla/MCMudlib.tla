------------------------------ MODULE MCMudlib ------------------------------
(***************************************************************************)
(* Small worlds for TLC: the values of Mudlib's constants.                 *)
(***************************************************************************)
EXTENDS Mudlib

CONSTANTS wade, xx, nobody, apple, water

\* The files as save() wrote them at the end of an earlier run.
AtEntrance(isAdmin, tile) ==
    [admin |-> isAdmin, area |-> "entrance", pos |-> tile, filled |-> Fields]
InCreation ==
    [admin |-> FALSE, area |-> "creation", pos |-> Start, filled |-> {}]

BothAccounts == {wade, xx}
BothInOrder == <<wade, xx>>
OneInOrder == <<wade>>

\* wade is an administrator with an apple, xx has not finished creation.
AdminAndNewcomer ==
    wade :> [data |-> AtEntrance(TRUE, Start), bag |-> <<apple>>] @@
    xx :> [data |-> InCreation, bag |-> <<>>]

\* wade is an administrator, and one account more carries two apples.
TwoCarriers ==
    wade :> [data |-> AtEntrance(TRUE, Start), bag |-> <<apple>>] @@
    xx :> [data |-> AtEntrance(FALSE, Start), bag |-> <<apple, water>>]

OneCarrier == wade :> [data |-> AtEntrance(TRUE, Start), bag |-> <<apple>>]

\* Two tiles and, beside them, a wall.
EastWall == {<<2, 0>>}
=============================================================================

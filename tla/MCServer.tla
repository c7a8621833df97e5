------------------------------ MODULE MCServer ------------------------------
(***************************************************************************)
(* Small servers for TLC: a browser b1, a telnet connection t1, and the    *)
(* clock's interval.                                                       *)
(***************************************************************************)
EXTENDS Server

CONSTANTS b1, t1
=============================================================================

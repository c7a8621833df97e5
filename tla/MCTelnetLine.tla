---------------------------- MODULE MCTelnetLine ----------------------------
(* The bytes of the runs: LF, CR, ESC, the blank, A, B, [, DEL, WILL and IAC; *)
(* A, B and [ are also letters, and WILL also an option.                     *)
EXTENDS TelnetLine

AllBytes == {10, 13, 27, 32, 65, 66, 91, 127, 251, 255}
=============================================================================

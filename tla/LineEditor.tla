----------------------------- MODULE LineEditor -----------------------------
(***************************************************************************)
(* What the telnet handler promises a player: a line to type on, and the   *)
(* lines entered before, through which the arrow keys walk as through a    *)
(* list that ends with an empty line.  Keys, not bytes.                    *)
(***************************************************************************)
EXTENDS Integers, Sequences

CONSTANTS Chars,    \* what can be typed
          Trim(_)   \* a line without the blanks around it

VARIABLES line,     \* the line being typed
          history,  \* the lines entered, the oldest first
          place     \* the entry the arrow keys are at

vars == <<line, history, place>>

Entries == Append(history, << >>)

Init == line = << >> /\ history = << >> /\ place = 1

Type == \E c \in Chars : line' = Append(line, c) /\ UNCHANGED <<history, place>>

Erase == /\ line # << >>
         /\ line' = SubSeq(line, 1, Len(line) - 1)
         /\ UNCHANGED <<history, place>>

Older == /\ history # << >>
         /\ place' = IF place > 1 THEN place - 1 ELSE place
         /\ line' = Entries[place']
         /\ UNCHANGED history

Newer == /\ place' = IF place < Len(Entries) THEN place + 1 ELSE place
         /\ line' = Entries[place']
         /\ UNCHANGED history

\* A line of blanks is entered but not remembered, and the arrow keys stay
\* where they were.
Enter == /\ line' = << >>
         /\ \/ Trim(line) = << >> /\ UNCHANGED <<history, place>>
            \/ /\ Trim(line) # << >>
               /\ history' = Append(history, Trim(line))
               /\ place' = Len(Entries) + 1

Next == Type \/ Erase \/ Older \/ Newer \/ Enter

Spec == Init /\ [][Next]_vars
=============================================================================

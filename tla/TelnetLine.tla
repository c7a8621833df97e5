----------------------------- MODULE TelnetLine -----------------------------
(***************************************************************************)
(* The input loop of handleTelnet (utils/handlers/telnet.go): bytes become *)
(* a line, a history of lines, and what the handler writes back, which is  *)
(* all that the player sees of them, since IAC WILL ECHO turns the echo of *)
(* his own terminal off.                                                   *)
(*                                                                         *)
(* Every write of the handler leaves the cursor at the end of its row, so  *)
(* the row alone is the display.  What other goroutines write into the row *)
(* is left out.                                                            *)
(***************************************************************************)
EXTENDS Integers, Sequences, FiniteSetsExt

CONSTANTS
    Bytes,       \* the bytes a client sends
    MaxLine,     \* bound on the length of a line
    MaxHistory   \* bound on the lines remembered

ASSUME BytesAssumption ==
    /\ Bytes \subseteq 0 .. 255
    /\ MaxLine \in Nat /\ MaxHistory \in Nat

VARIABLES
    mode,      \* which ReadByte the handler is in
    line,      \* inputBuffer
    history,   \* history
    index,     \* historyIndex
    row,       \* the terminal's row, from the last prompt up to the cursor
    recalled   \* the row has been drawn by a cursor key since the last Enter

edit == <<line, history, index>>
vars == <<mode, edit, row, recalled>>

Printable == 32 .. 126
Blank == 32
Prompt == <<62, 32>>

TypeOK ==
    /\ mode \in {"text", "iac", "option", "esc", "csi", "closed"}
    /\ line \in Seq(Printable)
    /\ history \in Seq(Seq(Printable) \ {<< >>})
    /\ index \in 0 .. Len(history)
    /\ row \in Seq(Printable)
    /\ recalled \in BOOLEAN

Init == /\ mode = "text"
        /\ line = << >> /\ history = << >> /\ index = 0
        /\ row = Prompt /\ recalled = FALSE

\* strings.TrimSpace; of the printable bytes the blank alone is space
Solid(s) == {i \in 1 .. Len(s) : s[i] # Blank}
Trim(s) == IF Solid(s) = {} THEN << >> ELSE SubSeq(s, Min(Solid(s)), Max(Solid(s)))

ButLast(s) == SubSeq(s, 1, Len(s) - 1)

\* ReadByte returns b to the handler, which was in the mode here.
Reads(here, b) == mode = here /\ b \in Bytes
-----------------------------------------------------------------------------
(* Text.                                                                     *)

\* A blank that was not echoed
MutChar(b) == /\ Reads("text", b) /\ b \in Printable /\ Len(line) < MaxLine
              /\ line' = Append(line, b)
              /\ row' = IF b = Blank THEN row ELSE Append(row, b)
              /\ UNCHANGED <<mode, history, index, recalled>>
Char(b) == /\ Reads("text", b) /\ b \in Printable /\ Len(line) < MaxLine
           /\ line' = Append(line, b)
           /\ row' = Append(row, b)
           /\ UNCHANGED <<mode, history, index, recalled>>

\* DEL: a step back and the rest of the row cleared
Delete == /\ Reads("text", 127)
          /\ \/ line = << >> /\ UNCHANGED <<line, row>>
             \/ /\ line # << >>
                /\ line' = ButLast(line)
                /\ row' = ButLast(row)
          /\ UNCHANGED <<mode, history, index, recalled>>

\* Whether the script returned or threw, its text is followed by a line feed
\* and the next prompt.
NewRow == row' = Prompt

\* A blank line that moved the history index, too
MutEnter == /\ Reads("text", 13)
            /\ IF Trim(line) # << >>
               THEN /\ Len(history) < MaxHistory
                    /\ history' = Append(history, Trim(line))
                    /\ index' = Len(history')
               ELSE history' = history /\ index' = Len(history)
            /\ line' = << >>
            /\ NewRow /\ recalled' = FALSE
            /\ UNCHANGED mode
Enter == /\ Reads("text", 13)
         /\ IF Trim(line) # << >>
            THEN /\ Len(history) < MaxHistory
                 /\ history' = Append(history, Trim(line))
                 /\ index' = Len(history')
            ELSE UNCHANGED <<history, index>>
         /\ line' = << >>
         /\ NewRow /\ recalled' = FALSE
         /\ UNCHANGED mode

\* Any other byte, the LF or NUL after a CR among them, runs a cleanup script
\* that names nobody, and is dropped.
Drop(b) == /\ Reads("text", b)
           /\ b \notin Printable \cup {13, 27, 127, 255}
           /\ UNCHANGED vars
-----------------------------------------------------------------------------
(* Sequences: telnet negotiation and the cursor keys.                        *)

Turn(there) == mode' = there /\ UNCHANGED <<edit, row, recalled>>

Iac == Reads("text", 255) /\ Turn("iac")

\* WILL, WONT, DO and DONT have an option byte
IacNext(b) == Reads("iac", b) /\ Turn(IF b \in 251 .. 254 THEN "option" ELSE "text")

Option(b) == Reads("option", b) /\ Turn("text")

Esc == Reads("text", 27) /\ Turn("esc")

EscNext(b) == Reads("esc", b) /\ Turn(IF b = 91 THEN "csi" ELSE "text")

\* The row is drawn anew, with a blank behind the line.
Redraw == /\ mode' = "text"
          /\ row' = Prompt \o line' \o <<Blank>>
          /\ recalled' = TRUE

Up == /\ Reads("csi", 65)
      /\ index' = IF index > 0 THEN index - 1 ELSE index
      /\ line' = IF index' < Len(history) THEN history[index' + 1] ELSE line
      /\ Redraw /\ UNCHANGED history

\* Down that could step past the last line
MutDown == /\ Reads("csi", 66)
           /\ index' = index + 1
           /\ line' = IF index < Len(history) - 1 THEN history[index' + 1] ELSE << >>
           /\ Redraw /\ UNCHANGED history
Down == /\ Reads("csi", 66)
        /\ IF index < Len(history) - 1
           THEN index' = index + 1 /\ line' = history[index' + 1]
           ELSE index' = Len(history) /\ line' = << >>
        /\ Redraw /\ UNCHANGED history

OtherKey(b) == Reads("csi", b) /\ b \notin {65, 66} /\ UNCHANGED edit /\ Redraw

\* A failed read ends the handler, from a sequence by way of its next byte.
Hangup == mode # "closed" /\ Turn("closed")

Next == \/ \E b \in Bytes : \/ Char(b) \/ Drop(b) \/ IacNext(b) \/ Option(b)
                            \/ EscNext(b) \/ OtherKey(b)
        \/ Delete \/ Enter \/ Iac \/ Esc \/ Up \/ Down \/ Hangup

Spec == Init /\ [][Next]_vars
-----------------------------------------------------------------------------
(* Properties.                                                               *)

\* The bytes, with negotiation and sequences split in any way between reads,
\* amount to the keys of a line editor: the branches of the two arrows, with
\* their three tests of historyIndex (telnet.go:115-134), walk through one list
\* that ends with an empty line, and a blank line moves nothing.
Editor == INSTANCE LineEditor WITH Chars <- Printable, place <- index + 1
ImplementsEditor == Editor!Spec

\* As long as no cursor key has been used on it, the line that Enter would run
\* is the line the player reads behind the prompt, after whatever typing,
\* erasing, failed commands and negotiation (telnet.go:98-109, 140-142).
EchoUntilRecalled == ~recalled => row = Prompt \o line
=============================================================================

-------------------------- MODULE TelnetLineProofs --------------------------
(***************************************************************************)
(* The line editor of the telnet handler, for any bytes and any bounds.    *)
(*                                                                         *)
(* The argument: typing (TypeOK, of which the range of historyIndex is the *)
(* part that the other two need) and the echo are inductive together; a    *)
(* step on bytes is then a key of LineEditor or a stutter, the index being *)
(* one less than the place in the list of entries.                         *)
(***************************************************************************)
EXTENDS TelnetLine, SequenceTheorems, WellFoundedInduction, TLAPS

EditInv == TypeOK /\ EchoUntilRecalled

\* A set of positions has a least and a greatest element: Min and Max, which are
\* chosen, are positions.
LEMMA LeastPosition ==
    ASSUME NEW n \in Nat, NEW S \in SUBSET (1 .. n), S # {}
    PROVE  \E x \in S : \A y \in S : x <= y
  <1>1. IsWellFoundedOn(OpToRel(<, Nat), Nat)  BY NatLessThanWellFounded
  <1>2. S \subseteq Nat  OBVIOUS
  <1>3. PICK x \in S : \A y \in S : <<y, x>> \notin OpToRel(<, Nat)
    BY <1>1, <1>2, WFMin
  <1>4. \A y \in S : ~ (y < x)
    BY <1>2, <1>3, Zenon DEF OpToRel
  <1> QED  BY <1>2, <1>4

LEMMA GreatestPosition ==
    ASSUME NEW n \in Nat, NEW S \in SUBSET (1 .. n), S # {}
    PROVE  \E x \in S : \A y \in S : x >= y
  <1> DEFINE T == {i \in 1 .. n : n + 1 - i \in S}
  <1>1. \A s \in S : n + 1 - s \in T
    <2> SUFFICES ASSUME NEW s \in S PROVE n + 1 - s \in T  OBVIOUS
    <2>1. s \in 1 .. n /\ n + 1 - (n + 1 - s) = s  OBVIOUS
    <2> QED  BY <2>1
  <1>2. PICK t \in T : \A y \in T : t <= y
    BY <1>1, LeastPosition
  <1>3. \A s \in S : s \in 1 .. n /\ t <= n + 1 - s
    BY <1>1, <1>2
  <1> WITNESS n + 1 - t \in S
  <1> QED  BY <1>3

LEMMA TrimType == ASSUME NEW s \in Seq(Printable) PROVE Trim(s) \in Seq(Printable)
  <1>1. CASE Solid(s) = {}  BY <1>1 DEF Trim
  <1>2. CASE Solid(s) # {}
    <2>1. Solid(s) \in SUBSET (1 .. Len(s)) /\ Len(s) \in Nat  BY DEF Solid
    <2>2. Min(Solid(s)) \in 1 .. Len(s)  BY <1>2, <2>1, LeastPosition DEF Min
    <2>3. Max(Solid(s)) \in 1 .. Len(s)  BY <1>2, <2>1, GreatestPosition DEF Max
    <2> HIDE DEF Solid
    <2> QED  BY <1>2, <2>2, <2>3, SubSeqProperties DEF Trim
  <1> QED  BY <1>1, <1>2

\* What typing and erasing do behind the prompt.
LEMMA AppendBehind ==
    ASSUME NEW S, NEW p \in Seq(S), NEW s \in Seq(S), NEW e \in S
    PROVE  Append(p \o s, e) = p \o Append(s, e)
  <1>1. p \o s \in Seq(S) /\ <<e>> \in Seq(S)  BY ConcatProperties
  <1>2. Append(p \o s, e) = (p \o s) \o <<e>>  BY <1>1, AppendIsConcat
  <1>3. Append(s, e) = s \o <<e>>  BY AppendIsConcat
  <1>4. (p \o s) \o <<e>> = p \o (s \o <<e>>)  BY <1>1, ConcatAssociative
  <1> QED  BY <1>2, <1>3, <1>4

LEMMA ButLastAppend ==
    ASSUME NEW S, NEW s \in Seq(S), NEW e \in S
    PROVE  ButLast(Append(s, e)) = s
  <1> DEFINE u == Append(s, e)
  <1>1. /\ u \in Seq(S) /\ Len(u) = Len(s) + 1 /\ Len(s) \in Nat
        /\ \A i \in 1 .. Len(s) : u[i] = s[i]
    BY AppendProperties, LenProperties
  <1>2. \A i \in 1 .. Len(s) : u[i] \in S  BY <1>1, ElementOfSeq
  <1> HIDE DEF u
  <1>3. /\ SubSeq(u, 1, Len(s)) \in Seq(S)
        /\ Len(SubSeq(u, 1, Len(s))) = Len(s)
        /\ \A i \in 1 .. Len(s) : SubSeq(u, 1, Len(s))[i] = u[i]
    BY <1>1, <1>2, SubSeqProperties
  <1>4. SubSeq(u, 1, Len(s)) = s  BY <1>1, <1>3, SeqEqual
  <1> QED  BY <1>1, <1>4 DEF ButLast, u

LEMMA ButLastBehind ==
    ASSUME NEW S, NEW p \in Seq(S), NEW s \in Seq(S), s # << >>
    PROVE  /\ ButLast(s) \in Seq(S)
           /\ ButLast(p \o s) = p \o ButLast(s)
  <1>1. PICK t \in Seq(S), e \in S : s = Append(t, e)  BY SequenceEmptyOrAppend
  <1>2. ButLast(s) = t  BY <1>1, ButLastAppend
  <1>3. p \o s = Append(p \o t, e)  BY <1>1, AppendBehind
  <1>4. p \o t \in Seq(S)  BY ConcatProperties
  <1>5. ButLast(p \o s) = p \o t  BY <1>3, <1>4, ButLastAppend
  <1> QED  BY <1>2, <1>5

LEMMA PromptType == Prompt \in Seq(Printable) /\ Prompt \o << >> = Prompt
  <1>1. Prompt \in Seq(Printable)  BY DEF Prompt, Printable
  <1> QED  BY <1>1, ConcatEmptySeq

LEMMA EchoBehind ==
    ASSUME NEW s \in Seq(Printable), NEW e \in Printable
    PROVE  Append(Prompt \o s, e) = Prompt \o Append(s, e)
  <1>1. Prompt \in Seq(Printable)  BY PromptType
  <1>2. Prompt \o s \in Seq(Printable) /\ <<e>> \in Seq(Printable)
    BY <1>1, ConcatProperties
  <1>3. Append(Prompt \o s, e) = (Prompt \o s) \o <<e>>  BY <1>2, AppendIsConcat
  <1>4. Append(s, e) = s \o <<e>>  BY AppendIsConcat
  <1>5. (Prompt \o s) \o <<e>> = Prompt \o (s \o <<e>>)  BY <1>1, <1>2, ConcatAssociative
  <1> QED  BY <1>3, <1>4, <1>5

Lines == Seq(Printable) \ {<< >>}

\* The history as a list: its lines can be read, and a line can be added.
LEMMA HistoryLines ==
    ASSUME TypeOK
    PROVE  /\ history \in Seq(Lines)
           /\ Len(history) \in Nat
           /\ \A i \in 1 .. Len(history) : history[i] \in Seq(Printable)
           /\ \A l \in Lines : /\ Append(history, l) \in Seq(Lines)
                               /\ Len(Append(history, l)) = Len(history) + 1
  <1>1. history \in Seq(Lines)  BY DEF TypeOK, Lines
  <1>2. \A i \in 1 .. Len(history) : history[i] \in Lines  BY <1>1, ElementOfSeq
  <1>3. \A l \in Lines : /\ Append(history, l) \in Seq(Lines)
                         /\ Len(Append(history, l)) = Len(history) + 1
    BY <1>1, AppendProperties
  <1> QED  BY <1>1, <1>2, <1>3, LenProperties DEF Lines

LEMMA InitEdit == Init => EditInv
  <1> SUFFICES ASSUME Init PROVE EditInv  OBVIOUS
  <1> USE DEF Init
  <1>1. line \in Seq(Printable) /\ history \in Seq(Lines) /\ Len(history) = 0
    BY EmptySeq
  <1>2. index \in 0 .. Len(history)  BY <1>1
  <1>3. TypeOK  BY <1>1, <1>2, PromptType DEF TypeOK, Lines
  <1> QED  BY <1>3, PromptType DEF EditInv, EchoUntilRecalled

LEMMA CharEdit == ASSUME EditInv, NEW b \in Bytes, Char(b) PROVE EditInv'
  <1> USE DEF EditInv, TypeOK, Char, Reads
  <1>1. TypeOK'  OBVIOUS
  <1>2. EchoUntilRecalled'
    <2>1. line \in Seq(Printable) /\ b \in Printable  OBVIOUS
    <2>2. Append(Prompt \o line, b) = Prompt \o Append(line, b)
      <3> HIDE DEF EditInv, TypeOK, Char, Reads
      <3> QED  BY <2>1, EchoBehind
    <2> QED  BY <2>2 DEF EchoUntilRecalled
  <1> QED  BY <1>1, <1>2

LEMMA DeleteEdit == ASSUME EditInv, Delete PROVE EditInv'
  <1> USE DEF EditInv, TypeOK, Delete, Reads
  <1>1. CASE line = << >>  BY <1>1 DEF EchoUntilRecalled
  <1>2. CASE line # << >>
    <2>1. /\ ButLast(line) \in Seq(Printable)
          /\ ButLast(Prompt \o line) = Prompt \o ButLast(line)
      BY <1>2, PromptType, ButLastBehind
    <2>2. ButLast(row) \in Seq(Printable)
      <3>1. CASE row = << >>
        <4>1. ButLast(row) = << >>  BY <3>1, SubSeqEmpty DEF ButLast
        <4> QED  BY <4>1
      <3>2. CASE row # << >>  BY <3>2, PromptType, ButLastBehind
      <3> QED  BY <3>1, <3>2
    <2>3. line' = ButLast(line) /\ row' = ButLast(row)  BY <1>2
    <2> QED  BY <2>1, <2>2, <2>3 DEF EchoUntilRecalled
  <1> QED  BY <1>1, <1>2

LEMMA EnterEdit == ASSUME EditInv, Enter PROVE EditInv'
  <1>1. TypeOK /\ line \in Seq(Printable) /\ index \in 0 .. Len(history)
    BY DEF EditInv, TypeOK
  <1>2. history' \in Seq(Lines) /\ index' \in 0 .. Len(history')
    <2>1. CASE Trim(line) = << >>  BY <1>1, <2>1, HistoryLines DEF Enter
    <2>2. CASE Trim(line) # << >>
      <3>1. Trim(line) \in Lines  BY <1>1, <2>2, TrimType DEF Lines
      <3>2. /\ history' = Append(history, Trim(line))
            /\ index' = Len(history')
        BY <2>2 DEF Enter
      <3> QED  BY <1>1, <3>1, <3>2, HistoryLines
    <2> QED  BY <2>1, <2>2
  <1>3. mode' = mode /\ line' = << >> /\ row' = Prompt /\ recalled' = FALSE
    BY DEF Enter, NewRow
  <1>4. TypeOK'  BY <1>2, <1>3, PromptType, EmptySeq DEF EditInv, TypeOK, Lines
  <1> QED  BY <1>3, <1>4, PromptType DEF EditInv, EchoUntilRecalled

LEMMA RedrawRow == ASSUME line' \in Seq(Printable), Redraw PROVE row' \in Seq(Printable)
  <1>1. Prompt \in Seq(Printable) /\ <<Blank>> \in Seq(Printable)
    BY DEF Prompt, Printable, Blank
  <1> QED  BY <1>1 DEF Redraw

LEMMA UpEdit == ASSUME EditInv, Up PROVE EditInv'
  <1> USE DEF EditInv, TypeOK, Up, Reads
  <1>1. index' \in 0 .. Len(history) /\ line' \in Seq(Printable)
    BY HistoryLines, EmptySeq
  <1> QED  BY <1>1, RedrawRow DEF Redraw, EchoUntilRecalled

LEMMA DownEdit == ASSUME EditInv, Down PROVE EditInv'
  <1>1. TypeOK /\ index \in 0 .. Len(history)  BY DEF EditInv, TypeOK
  <1>2. index' \in 0 .. Len(history) /\ line' \in Seq(Printable)
    <2>1. CASE index < Len(history) - 1
      <3>1. index' = index + 1 /\ line' = history[index' + 1]  BY <2>1 DEF Down
      <3>2. index' + 1 \in 1 .. Len(history)  BY <1>1, <2>1, <3>1, HistoryLines
      <3> QED  BY <1>1, <3>1, <3>2, HistoryLines
    <2>2. CASE ~ (index < Len(history) - 1)
      <3>1. index' = Len(history) /\ line' = << >>  BY <2>2 DEF Down
      <3> QED  BY <1>1, <3>1, HistoryLines, EmptySeq
    <2> QED  BY <2>1, <2>2
  <1> QED
    BY <1>2, RedrawRow DEF Down, Redraw, EditInv, TypeOK, EchoUntilRecalled

LEMMA OtherKeyEdit == ASSUME EditInv, NEW b \in Bytes, OtherKey(b) PROVE EditInv'
  <1> USE DEF EditInv, TypeOK, OtherKey, Reads, edit
  <1> QED  BY RedrawRow DEF Redraw, EchoUntilRecalled

LEMMA StillEdit ==
    ASSUME EditInv, UNCHANGED <<edit, row, recalled>>,
           mode' \in {"text", "iac", "option", "esc", "csi", "closed"}
    PROVE  EditInv'
  BY DEF EditInv, TypeOK, EchoUntilRecalled, edit

LEMMA StepEdit == EditInv /\ [Next]_vars => EditInv'
  <1> SUFFICES ASSUME EditInv, [Next]_vars PROVE EditInv'  OBVIOUS
  <1>1. ASSUME NEW b \in Bytes, Char(b) PROVE EditInv'  BY <1>1, CharEdit
  <1>2. CASE Delete  BY <1>2, DeleteEdit
  <1>3. CASE Enter  BY <1>3, EnterEdit
  <1>4. CASE Up  BY <1>4, UpEdit
  <1>5. CASE Down  BY <1>5, DownEdit
  <1>6. ASSUME NEW b \in Bytes, OtherKey(b) PROVE EditInv'  BY <1>6, OtherKeyEdit
  <1>7. ASSUME NEW b \in Bytes, Drop(b) \/ IacNext(b) \/ Option(b) \/ EscNext(b) PROVE EditInv'
    BY <1>7, StillEdit DEF Drop, IacNext, Option, EscNext, Turn, vars, EditInv, TypeOK
  <1>8. CASE Iac \/ Esc \/ Hangup  BY <1>8, StillEdit DEF Iac, Esc, Hangup, Turn
  <1>9. CASE UNCHANGED vars  BY <1>9, StillEdit DEF vars, EditInv, TypeOK
  <1> QED  BY <1>1, <1>2, <1>3, <1>4, <1>5, <1>6, <1>7, <1>8, <1>9 DEF Next

\* The line holds printable characters, no remembered line is empty, and
\* historyIndex, which three branches move by a test of their own, never leaves
\* the history (telnet.go:79-85, 115-134).
THEOREM IndexInRange == Spec => []TypeOK
  <1>1. EditInv => TypeOK  BY DEF EditInv
  <1> QED  BY InitEdit, StepEdit, <1>1, PTL DEF Spec

\* What is typed, erased and entered is what the player sees until a cursor key
\* is used (telnet.go:98-109, 140-142).
THEOREM EchoSafe == Spec => []EchoUntilRecalled
  <1>1. EditInv => EchoUntilRecalled  BY DEF EditInv
  <1> QED  BY InitEdit, StepEdit, <1>1, PTL DEF Spec
-----------------------------------------------------------------------------
LEMMA PositionOf ==
    \A n \in Nat : \A i \in 0 .. n - 1 : i + 1 \in 1 .. n
  OBVIOUS

LEMMA EditStep == EditInv /\ [Next]_vars => [Editor!Next]_(Editor!vars)
  <1> SUFFICES ASSUME EditInv, [Next]_vars PROVE [Editor!Next]_(Editor!vars)  OBVIOUS
  <1> USE DEF EditInv, TypeOK
  <1>0. /\ Len(history) \in Nat
        /\ Editor!Entries \in Seq(Seq(Printable))
        /\ Len(Editor!Entries) = Len(history) + 1
        /\ \A i \in 1 .. Len(history) : Editor!Entries[i] = history[i]
        /\ Editor!Entries[Len(history) + 1] = << >>
    <2>1. << >> \in Seq(Printable)  BY EmptySeq
    <2>2. history \in Seq(Seq(Printable))  BY HistoryLines, SeqMonotonic DEF Lines
    <2> QED  BY <2>1, <2>2, AppendProperties, LenProperties DEF Editor!Entries
  <1>1. ASSUME NEW b \in Bytes, Char(b) PROVE Editor!Type
    BY <1>1 DEF Char, Editor!Type
  <1>2. CASE Delete
    <2>1. CASE line = << >>  BY <1>2, <2>1 DEF Delete, Editor!vars
    <2>2. CASE line # << >>  BY <1>2, <2>2 DEF Delete, ButLast, Editor!Next, Editor!Erase
    <2> QED  BY <2>1, <2>2
  <1>3. CASE Enter
    <2>1. CASE Trim(line) = << >>  BY <1>3, <2>1 DEF Enter, Editor!Next, Editor!Enter
    <2>2. CASE Trim(line) # << >>
      <3>1. Trim(line) \in Seq(Printable)  BY TrimType
      <3>2. Len(history') = Len(history) + 1  BY <1>3, <2>2, <3>1 DEF Enter
      <3> QED  BY <1>0, <1>3, <2>2, <3>2 DEF Enter, Editor!Next, Editor!Enter
    <2> QED  BY <2>1, <2>2
  <1>4. CASE Up
    <2>1. CASE history = << >>
      <3>1. UNCHANGED <<line, history, index>>  BY <1>4, <2>1 DEF Up
      <3> QED  BY <3>1 DEF Editor!vars
    <2>2. CASE history # << >>
      <3>1. index' \in 0 .. Len(history) - 1
            /\ index' + 1 = IF index + 1 > 1 THEN (index + 1) - 1 ELSE index + 1
        BY <1>4, <2>2 DEF Up
      <3>2. line' = history[index' + 1]  BY <1>4, <3>1 DEF Up
      <3>3. index' + 1 \in 1 .. Len(history)
        BY <1>0, <3>1, PositionOf
      <3>4. line' = Editor!Entries[index' + 1]
        <4> HIDE DEF EditInv, TypeOK
        <4> QED  BY <1>0, <3>2, <3>3
      <3> QED  BY <1>4, <2>2, <3>1, <3>4 DEF Up, Editor!Next, Editor!Older
    <2> QED  BY <2>1, <2>2
  <1>5. CASE Down
    <2>0. index \in 0 .. Len(history)  OBVIOUS
    <2>1. /\ index' + 1 = IF index + 1 < Len(Editor!Entries) THEN (index + 1) + 1 ELSE index + 1
          /\ line' = Editor!Entries[index' + 1]
      <3> HIDE DEF EditInv, TypeOK
      <3>1. CASE index < Len(history) - 1
        <4>1. index' = index + 1 /\ line' = history[index' + 1]  BY <1>5, <3>1 DEF Down
        <4>2. index' + 1 \in 1 .. Len(history)  BY <1>0, <2>0, <3>1, <4>1
        <4> QED  BY <1>0, <2>0, <3>1, <4>1, <4>2
      <3>2. CASE ~ (index < Len(history) - 1)
        <4>1. index' = Len(history) /\ line' = << >>  BY <1>5, <3>2 DEF Down
        <4> QED  BY <1>0, <2>0, <3>2, <4>1
      <3> QED  BY <3>1, <3>2
    <2> QED  BY <1>5, <2>1 DEF Down, Editor!Next, Editor!Newer
  <1>6. ASSUME NEW b \in Bytes, OtherKey(b) PROVE UNCHANGED Editor!vars
    BY <1>6 DEF OtherKey, edit, Editor!vars
  <1>7. ASSUME NEW b \in Bytes, Drop(b) \/ IacNext(b) \/ Option(b) \/ EscNext(b)
        PROVE UNCHANGED Editor!vars
    BY <1>7 DEF Drop, IacNext, Option, EscNext, Turn, vars, edit, Editor!vars
  <1>8. CASE Iac \/ Esc \/ Hangup  BY <1>8 DEF Iac, Esc, Hangup, Turn, edit, Editor!vars
  <1>9. CASE UNCHANGED vars  BY <1>9 DEF vars, edit, Editor!vars
  <1> QED  BY <1>1, <1>2, <1>3, <1>4, <1>5, <1>6, <1>7, <1>8, <1>9 DEF Next, Editor!Next

\* The bytes amount to the keys of the line editor (telnet.go:60-147).
THEOREM RefinesEditor == Spec => ImplementsEditor
  <1>1. Init => Editor!Init  BY DEF Init, Editor!Init
  <1> QED  BY InitEdit, StepEdit, EditStep, <1>1, PTL DEF Spec, ImplementsEditor, Editor!Spec
=============================================================================

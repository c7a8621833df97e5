----------------------------- MODULE LpcGrammar -----------------------------
(***************************************************************************)
(* What LpcParser is to recognise, without a reader, a rune of lookahead or *)
(* a parser's state: the tokens of a text, the place of each, and the       *)
(* programs.  The text is a sequence of runes, one for each class that the  *)
(* lexer tells apart.                                                       *)
(***************************************************************************)
EXTENDS Integers, Sequences, FiniteSetsExt

CONSTANTS
    Inherit, Return,  \* these two keywords, as sequences of runes
    Types             \* the other keywords

Keywords == Types \cup {Inherit, Return}

Letters == {"a", "h", "r", "t"}
Digits == {"1"}
Newline == "\n"
Quote == "\""
Backslash == "\\"
Space == {" ", Newline}
Signs == {"(", ")", "{", "}", ";", ".", "#", "/"}
Runes == Letters \cup Digits \cup Space \cup Signs \cup {Quote, Backslash}

\* Keywords are words, and apart from each other.
ASSUME GrammarAssumption == /\ Keywords \subseteq Seq(Letters)
                            /\ Inherit # Return /\ {Inherit, Return} \cap Types = {}

WordType(w) == IF w \in Keywords THEN "keyword" ELSE "identifier"
-----------------------------------------------------------------------------
(* Tokens.                                                                   *)

\* The end of the longest run of runes of a class from place i on
RunEnd(s, i, class) == Min({j \in i .. Len(s) + 1 : j = Len(s) + 1 \/ s[j] \notin class}) - 1

\* The quote that ends the string opened at i: the first one with an even number
\* of backslashes before it; 0 when there is none
Escaped(s, i, j) == LET run == {k \in i + 1 .. j - 1 : \A m \in k .. j - 1 : s[m] = Backslash}
                    IN  Cardinality(run) % 2 = 1
Closing(s, i) == LET ends == {j \in i + 1 .. Len(s) : s[j] = Quote /\ ~Escaped(s, i, j)}
                 IN  IF ends = {} THEN 0 ELSE Min(ends)

\* By the comments, a # opens a directive where it starts a line, and directives
\* stand in column 1 (lpcparser.go:145, 161, 190).  Against them, the lexer takes
\* a # that is glued to the token before it as well: its flag for the start of a
\* line is set whenever NextToken is called.
StartsLine(s, i) == i = 1 \/ s[i - 1] = Newline
Glued(s, i) == i > 1 /\ s[i - 1] \notin Space
OpensDirective(s, i) == s[i] = "#" /\ (StartsLine(s, i) \/ Glued(s, i))
OpensComment(s, i) == s[i] = "/" /\ i < Len(s) /\ s[i + 1] = "/"

\* The token that begins at i, and its last place; a string that is not closed
\* has none.
TokenAt(s, i) ==
    LET Tok(type, from, to, end) == [type |-> type, value |-> SubSeq(s, from, to), at |-> i, end |-> end]
        eol == RunEnd(s, i, Runes \ {Newline})
    IN  CASE OpensDirective(s, i) -> Tok("directive", i + 1, eol, eol)
          [] OpensComment(s, i) -> Tok("comment", i, eol, eol)
          [] s[i] \in Digits -> LET e == RunEnd(s, i, Digits \cup {"."}) IN Tok("number", i, e, e)
          [] s[i] \in Letters ->
                LET e == RunEnd(s, i, Letters \cup Digits)
                IN  Tok(WordType(SubSeq(s, i, e)), i, e, e)
          [] s[i] = Quote -> Tok("string", i + 1, Closing(s, i) - 1, Closing(s, i))
          [] OTHER -> Tok("operator", i, i, i)

\* The first place from i on that is no space
Beyond(s, i) == RunEnd(s, i, Space) + 1

\* A token begins at i: the text is not over, and no string is left open.
Opens(s, i) == i <= Len(s) /\ ~ (s[i] = Quote /\ Closing(s, i) = 0)

\* Where the text goes on behind the first n of the tokens that begin at ps, and
\* the next place where there may be one
After(s, ps, n) == IF n = 0 THEN 1 ELSE TokenAt(s, ps[n]).end + 1
Here(s, ps, n) == Beyond(s, After(s, ps, n))

\* Where the tokens begin, the first n of them or all there are
TokenPlaces(s) ==
    LET places[n \in 0 .. Len(s)] ==
          IF n = 0 THEN << >>
          ELSE LET ps == places[n - 1]
               IN  IF Len(ps) = n - 1 /\ Opens(s, Here(s, ps, n - 1))
                   THEN Append(ps, Here(s, ps, n - 1)) ELSE ps
    IN  places[Len(s)]

\* The tokens of s, up to a string that is not closed
TokensOf(s) == LET ps == TokenPlaces(s) IN [i \in 1 .. Len(ps) |-> TokenAt(s, ps[i])]

\* Every string is closed: the tokens reach to the last rune that is no space.
Closed(s) == LET ts == TokensOf(s)
                 end == IF ts = << >> THEN 0 ELSE ts[Len(ts)].end
             IN  \A i \in end + 1 .. Len(s) : s[i] \in Space

\* The line of place i
LineOf(s, i) == 1 + Cardinality({j \in 1 .. i - 1 : s[j] = Newline})
-----------------------------------------------------------------------------
(* Programs.                                                                 *)

Is(t, type, v) == t.type = type /\ t.value = v

\* Whether the tokens from place i on have the shape of a program, or of the rest
\* of a body and a program.  Of the signs, only the one that ends a body matters
\* here.
Parts == {"program", "body"}
Parses(ts) ==
    LET Has(i, type) == i <= Len(ts) /\ ts[i].type = type
        Op(i) == Has(i, "operator")
        from[i \in 1 .. Len(ts) + 1] ==
          {part \in Parts :
            \/ part = "program" /\ i = Len(ts) + 1
            \/ part = "program" /\ Has(i, "directive") /\ "program" \in from[i + 1]
            \/ /\ part = "program"
               /\ Has(i, "keyword") /\ ts[i].value = Inherit
               /\ Has(i + 1, "string") /\ Op(i + 2) /\ "program" \in from[i + 3]
            \/ /\ part = "program"
               /\ Has(i, "keyword") /\ ts[i].value # Inherit
               /\ Has(i + 1, "identifier") /\ Op(i + 2) /\ Op(i + 3) /\ Op(i + 4)
               /\ "body" \in from[i + 5]
            \/ part = "body" /\ Op(i) /\ ts[i].value = <<"}">> /\ "program" \in from[i + 1]
            \/ /\ part = "body"
               /\ Has(i, "keyword") /\ ts[i].value = Return
               /\ Has(i + 1, "number") \/ Has(i + 1, "string")
               /\ Op(i + 2) /\ "body" \in from[i + 3]}
    IN  from
Shape(ts) == "program" \in Parses(ts)[1]

\* A program has the shape, and its signs: a semicolon behind the path of an
\* inherit and behind a value, and ( ) { behind the name of a function.
Program(ts) ==
    LET Sign(i, v) == i <= Len(ts) /\ Is(ts[i], "operator", <<v>>)
    IN  /\ Shape(ts)
        /\ \A i \in DOMAIN ts :
             /\ ts[i].type \in {"string", "number"} => Sign(i + 1, ";")
             /\ ts[i].type = "identifier" =>
                    Sign(i + 1, "(") /\ Sign(i + 2, ")") /\ Sign(i + 3, "{")
=============================================================================

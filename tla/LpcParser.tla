----------------------------- MODULE LpcParser -----------------------------
(***************************************************************************)
(* Lexer and Parser of utils/lpcparser: the lexer reads a text rune by rune *)
(* with one rune of lookahead, the parser asks it for one token at a time.  *)
(* Values are kept as the text has them (directives are not trimmed).       *)
(***************************************************************************)
EXTENDS LpcGrammar, SequencesExt

CONSTANTS
    Texts,   \* the texts to parse
    None     \* no rune: nothing peeked, or the end of the text

ASSUME ParserAssumption == Texts \subseteq Seq(Runes) /\ None \notin Runes

VARIABLES
    text,
    at,             \* how many runes the reader has given
    peeked,         \* peekedRune, None without hasPeek
    line,           \* the lexer's position; columns are left out
    mode,           \* the loop of NextToken that runs; "idle" when it has returned
    atLineStart, start,   \* of NextToken: the start is a line
    value,          \* the runes of the token so far
    tokens,         \* all tokens returned; the last is currentToken
    state,          \* what the parser expects of currentToken
    node,           \* the values of the node being built
    ast             \* the program's children

reader == <<at, peeked, line>>
lexer == <<reader, mode, atLineStart, start, value, tokens>>
parser == <<state, node, ast>>
vars == <<text, lexer, parser>>

Done == {"accepted", "rejected"}
TokenTypes == {"eof", "identifier", "keyword", "number", "string", "operator",
               "comment", "directive"}

TypeOK ==
    /\ text \in Texts
    /\ at \in 0 .. Len(text) /\ peeked \in Runes \cup {None}
    /\ line \in 1 .. Len(text) + 1
    /\ mode \in {"idle", "skip", "first", "word", "number", "string", "escape",
                 "comment", "directive", "params"}
    /\ atLineStart \in BOOLEAN
    /\ start \in 0 .. Len(text) + 1
    /\ value \in Seq(Runes)
    /\ \A i \in 1 .. Len(tokens) : tokens[i].type \in TokenTypes
    /\ state \in {"program", "path", "pathEnd", "name", "open", "close", "brace", "body",
                  "value", "valueEnd"} \cup Done
    /\ node \in Seq(Seq(Runes)) /\ ast \in Seq(Seq(Seq(Runes)))

Init == /\ text \in Texts
        /\ at = 0 /\ peeked = None /\ line = 1
        /\ mode = "skip" /\ atLineStart = TRUE
        /\ start = 0 /\ value = << >> /\ tokens = << >>
        /\ state = "program" /\ node = << >> /\ ast = << >>
-----------------------------------------------------------------------------
(* Lexer: the next rune.                                                     *)

Coming == IF peeked # None THEN peeked
          ELSE IF at < Len(text) THEN text[at + 1] ELSE None

\* A rune that was peeked at is not counted any more.
NextRune == /\ peeked' = None
            /\ IF peeked = None /\ Coming # None
               THEN /\ at' = at + 1
                    /\ line' = IF Coming = Newline THEN line + 1 ELSE line
               ELSE UNCHANGED <<at, line>>

\* A lookahead that is forgotten
MutPeekRune == /\ peeked' = None
               /\ at' = IF peeked = None /\ Coming # None THEN at + 1 ELSE at
               /\ UNCHANGED line
PeekRune == /\ peeked' = Coming
            /\ at' = IF peeked = None /\ Coming # None THEN at + 1 ELSE at
            /\ UNCHANGED line

\* peekRune and then nextRune; a reader that is asked twice
MutTake == /\ peeked' = None
           /\ at' = at + 1
           /\ UNCHANGED line
Take == /\ peeked' = None
        /\ at' = IF peeked = None THEN at + 1 ELSE at
        /\ UNCHANGED line

ReturnToken(type, v, place) ==
    /\ tokens' = Append(tokens, [type |-> type, value |-> v, line |-> place])
    /\ mode' = "idle"
    /\ UNCHANGED <<atLineStart, start, value>>

Into(there, v) == mode' = there /\ value' = v /\ UNCHANGED <<atLineStart, start, tokens>>
-----------------------------------------------------------------------------
(* Lexer: NextToken.                                                         *)

Skip == /\ mode = "skip" /\ NextRune
        /\ IF Coming = None THEN ReturnToken("eof", << >>, line)
           ELSE /\ start' = IF atLineStart THEN line' ELSE start
                /\ IF Coming \in Space
                   THEN atLineStart' = (Coming = Newline) /\ UNCHANGED <<mode, value>>
                   ELSE mode' = "first" /\ value' = <<Coming>> /\ UNCHANGED atLineStart
                /\ UNCHANGED tokens
        /\ UNCHANGED parser

First(class) == mode = "first" /\ value[1] \in class /\ UNCHANGED parser

DirectiveFirst == First({"#"}) /\ atLineStart /\ Into("directive", << >>) /\ UNCHANGED reader
SlashFirst == /\ First({"/"})
              /\ IF Coming = "/" THEN Take /\ Into("comment", <<"/", "/">>)
                 ELSE PeekRune /\ ReturnToken("operator", value, start)
NumberFirst == First(Digits) /\ Into("number", value) /\ UNCHANGED reader
StringFirst == First({Quote}) /\ Into("string", << >>) /\ UNCHANGED reader
WordFirst == First(Letters) /\ Into("word", value) /\ UNCHANGED reader
SignFirst == /\ First(Signs \cup {Backslash}) /\ value[1] # "/"
             /\ value[1] = "#" => ~atLineStart
             /\ ReturnToken("operator", value, start) /\ UNCHANGED reader

More(v) == Into(mode, v) /\ UNCHANGED parser

Word == /\ mode = "word"
        /\ IF Coming \in Letters \cup Digits THEN Take /\ More(Append(value, Coming))
           ELSE PeekRune /\ ReturnToken(WordType(value), value, start) /\ UNCHANGED parser

Number == /\ mode = "number"
          /\ IF Coming \in Digits \cup {"."} THEN Take /\ More(Append(value, Coming))
             ELSE PeekRune /\ ReturnToken("number", value, start) /\ UNCHANGED parser

Directive == /\ mode = "directive"
             /\ IF Coming \notin Space \cup {None} THEN Take /\ More(Append(value, Coming))
                ELSE PeekRune /\ Into("params", value) /\ UNCHANGED parser

Params == /\ mode = "params"
          /\ IF Coming \notin {Newline, None} THEN Take /\ More(Append(value, Coming))
             ELSE /\ IF Coming = Newline THEN Take ELSE UNCHANGED reader
                  /\ ReturnToken("directive", value, start)
                  /\ UNCHANGED parser

Comment == /\ mode = "comment" /\ NextRune
           /\ IF Coming \notin {Newline, None} THEN More(Append(value, Coming))
              ELSE ReturnToken("comment", value, start) /\ UNCHANGED parser

Error == state' = "rejected" /\ UNCHANGED <<node, ast, mode, value, atLineStart, start, tokens>>

\* A string that waits for its quote at the end of the text
MutString == /\ mode = "string" /\ NextRune
             /\ CASE Coming = None -> UNCHANGED <<mode, value, atLineStart, start, tokens, parser>>
                  [] Coming = Quote -> ReturnToken("string", value, start) /\ UNCHANGED parser
                  [] Coming = Backslash -> Into("escape", Append(value, Coming)) /\ UNCHANGED parser
                  [] OTHER -> More(Append(value, Coming))
String == /\ mode = "string" /\ NextRune
          /\ CASE Coming = None -> Error
               [] Coming = Quote -> ReturnToken("string", value, start) /\ UNCHANGED parser
               [] Coming = Backslash -> Into("escape", Append(value, Coming)) /\ UNCHANGED parser
               [] OTHER -> More(Append(value, Coming))

Escape == /\ mode = "escape" /\ NextRune
          /\ IF Coming = None THEN Error
             ELSE Into("string", Append(value, Coming)) /\ UNCHANGED parser

NextToken == /\ state \notin Done
             /\ \/ Skip \/ DirectiveFirst \/ SlashFirst \/ NumberFirst \/ StringFirst
                \/ WordFirst \/ SignFirst \/ Word \/ Number \/ Directive \/ Params
                \/ Comment \/ String \/ Escape
             /\ UNCHANGED text
-----------------------------------------------------------------------------
(* Parser.                                                                   *)

currentToken == tokens[Len(tokens)]
Now(type) == currentToken.type = type
Reads(here) == state = here /\ mode = "idle"

Advance == /\ mode' = "skip" /\ atLineStart' = TRUE
           /\ UNCHANGED <<text, reader, start, value, tokens>>
Reject == state' = "rejected" /\ UNCHANGED <<text, lexer, node, ast>>
Accept == state' = "accepted" /\ UNCHANGED <<text, lexer, node, ast>>

\* The top of Parse's loop.  No operator is a newline or empty.
Parse ==
    /\ Reads("program")
    /\ CASE Now("eof") -> Accept
         [] Now("directive") ->
               ast' = Append(ast, <<currentToken.value>>) /\ Advance /\ UNCHANGED <<state, node>>
         [] Now("keyword") /\ currentToken.value = Inherit ->
               state' = "path" /\ node' = << >> /\ Advance /\ UNCHANGED ast
         [] Now("keyword") /\ currentToken.value # Inherit ->
               state' = "name" /\ node' = <<currentToken.value>> /\ Advance /\ UNCHANGED ast
         [] OTHER -> Reject

\* expect: the types it lets pass, what the parser expects next, and whether the
\* token becomes a child of the node
Row(types, next, kept) == [types |-> types, next |-> next, kept |-> kept]
Expected ==
    [path |-> Row({"string"}, "pathEnd", TRUE),
     name |-> Row({"identifier"}, "open", TRUE),
     open |-> Row({"operator"}, "close", FALSE),
     close |-> Row({"operator"}, "brace", FALSE),
     brace |-> Row({"operator"}, "body", FALSE),
     value |-> Row({"number", "string"}, "valueEnd", TRUE),
     valueEnd |-> Row({"operator"}, "body", FALSE)]

\* A child that is checked and not kept
MutExpect == \E here \in DOMAIN Expected :
    /\ Reads(here)
    /\ IF currentToken.type \in Expected[here].types
       THEN /\ state' = Expected[here].next
            /\ node' = IF Expected[here].kept /\ here # "value" THEN Append(node, currentToken.value) ELSE node
            /\ Advance /\ UNCHANGED ast
       ELSE Reject
Expect == \E here \in DOMAIN Expected :
    /\ Reads(here)
    /\ IF currentToken.type \in Expected[here].types
       THEN /\ state' = Expected[here].next
            /\ node' = IF Expected[here].kept THEN Append(node, currentToken.value) ELSE node
            /\ Advance /\ UNCHANGED ast
       ELSE Reject

\* The node goes to the program.
EndNode == IF Now("operator")
           THEN state' = "program" /\ ast' = Append(ast, node) /\ Advance /\ UNCHANGED node
           ELSE Reject

ParseInheritEnd == Reads("pathEnd") /\ EndNode

\* A body that the end of the text ends, too
MutParseBody ==
    /\ Reads("body")
    /\ CASE Now("eof") -> Accept
         [] currentToken.value = <<"}">> -> EndNode
         [] Now("keyword") /\ currentToken.value = Return ->
               state' = "value" /\ Advance /\ UNCHANGED <<node, ast>>
         [] OTHER -> Reject
\* The body's loop ends at the end of the text, or at any token that reads "}".
ParseBody ==
    /\ Reads("body")
    /\ CASE Now("eof") \/ currentToken.value = <<"}">> -> EndNode
         [] Now("keyword") /\ currentToken.value = Return ->
               state' = "value" /\ Advance /\ UNCHANGED <<node, ast>>
         [] OTHER -> Reject

Next == NextToken \/ Parse \/ Expect \/ ParseInheritEnd \/ ParseBody

Spec == Init /\ [][Next]_vars
\* Parse runs in one goroutine that waits for nobody.
FairSpec == Spec /\ WF_vars(Next)
-----------------------------------------------------------------------------
(* Properties.                                                               *)

\* One rune of lookahead loses nothing and doubles nothing: the tokens that
\* NextToken has returned are those of the text, in order, the end of the text
\* comes behind all of them, and none is said to be on a line behind its own,
\* though newlines that were peeked at are not counted (lpcparser.go:79-294).
\* The directives are those that start lines, as the comments have it, and those
\* that are glued to another token, against lpcparser.go:190 (OpensDirective).
LexerRight ==
    LET expected == TokensOf(text)
    IN  \A i \in 1 .. Len(tokens) :
          IF tokens[i].type = "eof" THEN i = Len(expected) + 1 /\ Closed(text)
          ELSE /\ i <= Len(expected)
               /\ tokens[i].type = expected[i].type
               /\ tokens[i].value = expected[i].value
               /\ tokens[i].line <= LineOf(text, expected[i].at)

\* Parse takes every program as its comments describe it, and what it takes is one
\* but for the signs: against lpcparser.go:425, 459-470 and 525 any operator passes
\* for any other, and that is all that passes for what it is not, though the loops
\* stop at tokens of their own (lpcparser.go:407-582).
ParserRight == /\ state = "accepted" => Closed(text) /\ Shape(TokensOf(text))
               /\ state = "rejected" => ~(Closed(text) /\ Program(TokensOf(text)))

\* The program that is returned has everything that was written, in its order,
\* but for the operators, the word inherit and the word return of a statement;
\* a function may have return for its type (lpcparser.go:407-582).
StatementReturn(ts, i) == Is(ts[i], "keyword", Return) /\ ts[i + 1].type # "identifier"
Kept(ts, i) == ~ (\/ ts[i].type = "operator"
                  \/ Is(ts[i], "keyword", Inherit)
                  \/ StatementReturn(ts, i))
AstComplete == state = "accepted" =>
    LET ts == TokensOf(text)
    IN  FlattenSeq(ast) = FlattenSeq([i \in DOMAIN ts |-> IF Kept(ts, i) THEN <<ts[i].value>> ELSE << >>])

\* Parse returns, whatever the text, cut off in a string, a directive or a body.
Stops == <>(state \in Done)
=============================================================================

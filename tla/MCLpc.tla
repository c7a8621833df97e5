------------------------------- MODULE MCLpc -------------------------------
(***************************************************************************)
(* Texts for LpcParser: all short ones, and long ones that are a mistake    *)
(* away from a program.  A keyword is one letter.                           *)
(***************************************************************************)
EXTENDS LpcParser

H == <<"h">>
R == <<"r">>
TypeWords == {<<"t">>}

Str == <<Quote, "a", Backslash, Quote, Quote>>

\* inherit "a\""; t a() { return 1.1; return "}"; } and a directive
Good == <<H, Str, <<";">>, <<"t">>, <<"a">>, <<"(">>, <<")">>, <<"{">>,
          R, <<"1", ".", "1">>, <<";">>, R, <<Quote, "}", Quote>>, <<";">>, <<"}">>,
          <<Newline, "#", "a", " ", "a", Newline>>>>

Lexemes == Range(Good) \cup {<<"a", "1">>, <<"#">>, <<"/", "/", "a">>, <<"/">>, <<Quote>>}

Dropped == {RemoveAt(Good, i) : i \in DOMAIN Good}
Replaced == {[Good EXCEPT ![i] = l] : i \in DOMAIN Good, l \in Lexemes}
Cut == {SubSeq(Good, 1, i) : i \in DOMAIN Good}

Between == {<< >>, <<" ">>, <<Newline>>}
Joined(ls, sep) == FlattenSeq([i \in DOMAIN ls |-> ls[i] \o sep])

Long == {Joined(ls, sep) : ls \in Dropped \cup Replaced \cup Cut, sep \in Between}
Short == UNION {[1 .. n -> Runes] : n \in 0 .. 3}

AllTexts == Short \cup Long
=============================================================================

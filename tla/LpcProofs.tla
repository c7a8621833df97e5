------------------------------ MODULE LpcProofs ------------------------------
(***************************************************************************)
(* Theorems about LpcParser for every set of texts: what the lexer returns  *)
(* are the tokens of LpcGrammar, what the parser accepts are its programs,  *)
(* and the tree has everything that was written.                            *)
(***************************************************************************)
EXTENDS LpcParser, SequenceTheorems, FiniteSetTheorems, NaturalsInduction,
        WellFoundedInduction, TLAPS
-----------------------------------------------------------------------------
(* Induction, over a set of numbers.                                         *)

\* A set of numbers that is not empty has a least one.
LEMMA LeastOfNats ==
  ASSUME NEW I \in SUBSET Nat, I # {}
  PROVE  \E n \in I : \A m \in I : n <= m
<1> DEFINE R == {ss \in Nat \X Nat : ss[1] < ss[2]}
<1>1. IsWellFoundedOn(R, Nat)
  BY NatLessThanWellFounded DEF OpToRel
<1>2. PICK n \in I : \A m \in I : ~ (<<m, n>> \in R)
  BY <1>1, WFMin
<1>3. \A m \in I : n \in Nat /\ m \in Nat /\ ~ (m < n)
  BY <1>2
<1> QED
  BY <1>3

LEMMA MinIs ==
  ASSUME NEW I \in SUBSET Nat, I # {}
  PROVE  Min(I) \in I /\ \A i \in I : Min(I) <= i
BY LeastOfNats DEF Min

\* What holds at 0, and at a number up to n when it holds just below it, holds
\* from 0 to n.
LEMMA Induction ==
  ASSUME NEW n \in Nat, NEW good \in SUBSET Nat, 0 \in good,
         \A i \in 1 .. n : i - 1 \in good => i \in good
  PROVE  0 .. n \subseteq good
<1> DEFINE bad == (0 .. n) \ good
<1> SUFFICES ASSUME bad # {} PROVE FALSE
  OBVIOUS
<1>1. PICK m \in bad : \A k \in bad : m <= k
  <2>1. bad \in SUBSET Nat
    OBVIOUS
  <2> HIDE DEF bad
  <2> QED
    BY <2>1, LeastOfNats
<1>2. m \in 1 .. n /\ m - 1 \in 0 .. n /\ ~ (m <= m - 1)
  BY <1>1
<1>3. m - 1 \in good
  BY <1>1, <1>2
<1> QED
  BY <1>1, <1>2, <1>3

\* The equation of a function that is defined from 0 to n by recursion, and
\* that a function with values in S satisfies it.
Recursion(f, n, base, step) == f[0] = base /\ \A i \in 1 .. n : f[i] = step[i][f[i - 1]]
Recursive(n, S, base, step) == \E f \in [0 .. n -> S] : Recursion(f, n, base, step)

LEMMA RecursionExists ==
  ASSUME NEW n \in Nat, NEW S, NEW base \in S, NEW step \in [1 .. n -> [S -> S]]
  PROVE  Recursive(n, S, base, step)
<1> DEFINE good == {m \in Nat : m <= n => \E f \in [0 .. m -> S] : Recursion(f, m, base, step)}
<1>1. 0 \in good
  <2>1. Recursion([i \in 0 .. 0 |-> base], 0, base, step)
        /\ [i \in 0 .. 0 |-> base] \in [0 .. 0 -> S]
    BY DEF Recursion
  <2> QED
    BY <2>1
<1>2. ASSUME NEW m \in 1 .. n, m - 1 \in good PROVE m \in good
  <2>1. PICK f \in [0 .. m - 1 -> S] : Recursion(f, m - 1, base, step)
    BY <1>2
  <2> DEFINE g == [i \in 0 .. m |-> IF i = m THEN step[m][f[m - 1]] ELSE f[i]]
  <2>2. g \in [0 .. m -> S]
    OBVIOUS
  <2>3. (\A i \in 0 .. m - 1 : g[i] = f[i]) /\ g[m] = step[m][f[m - 1]]
    OBVIOUS
  <2> HIDE DEF g
  <2>4. g[0] = base
    BY <2>1, <2>3 DEF Recursion
  <2>5. ASSUME NEW i \in 1 .. m PROVE g[i] = step[i][g[i - 1]]
    <3>1. CASE i = m
      BY <2>3, <3>1
    <3>2. CASE i # m
      <4>1. i \in 1 .. m - 1 /\ i - 1 \in 0 .. m - 1 /\ i \in 0 .. m - 1
        BY <3>2
      <4> QED
        BY <2>1, <2>3, <4>1 DEF Recursion
    <3> QED
      BY <3>1, <3>2
  <2> QED
    BY <2>2, <2>4, <2>5 DEF Recursion
<1>3. n \in good
  <2>1. good \in SUBSET Nat
    OBVIOUS
  <2> HIDE DEF good
  <2>2. 0 .. n \subseteq good
    BY <1>1, <1>2, <2>1, Induction
  <2> QED
    BY <2>2
<1> QED
  BY <1>3 DEF Recursive
-----------------------------------------------------------------------------
(* Runs of a class, and the line of a place.                                 *)

LEMMA RunEndIs ==
  ASSUME NEW s \in Seq(Runes), NEW i \in 1 .. Len(s) + 1, NEW class
  PROVE  /\ RunEnd(s, i, class) \in i - 1 .. Len(s)
         /\ \A j \in i .. RunEnd(s, i, class) : s[j] \in class
         /\ RunEnd(s, i, class) < Len(s) => s[RunEnd(s, i, class) + 1] \notin class
<1> DEFINE I == {j \in i .. Len(s) + 1 : j = Len(s) + 1 \/ s[j] \notin class}
<1>1. Len(s) \in Nat /\ Len(s) + 1 \in I /\ I \in SUBSET Nat
  OBVIOUS
<1>2. Min(I) \in I /\ \A j \in I : Min(I) <= j
  <2> HIDE DEF I
  <2> QED
    BY <1>1, MinIs
<1>3. RunEnd(s, i, class) = Min(I) - 1
  BY DEF RunEnd
<1>4. Min(I) \in i .. Len(s) + 1 /\ (Min(I) = Len(s) + 1 \/ s[Min(I)] \notin class)
  BY <1>2
<1>5. \A j \in i .. Len(s) : s[j] \notin class => Min(I) <= j
  BY <1>1, <1>2
<1> HIDE DEF I
<1> QED
  BY <1>1, <1>3, <1>4, <1>5

\* There is one end of the run from i on.
LEMMA RunEndAt ==
  ASSUME NEW s \in Seq(Runes), NEW i \in 1 .. Len(s) + 1, NEW class, NEW e \in i - 1 .. Len(s),
         \A j \in i .. e : s[j] \in class,
         e < Len(s) => s[e + 1] \notin class
  PROVE  RunEnd(s, i, class) = e
<1> DEFINE r == RunEnd(s, i, class)
<1>1. /\ r \in i - 1 .. Len(s)
      /\ \A j \in i .. r : s[j] \in class
      /\ r < Len(s) => s[r + 1] \notin class
  BY RunEndIs
<1> HIDE DEF r
<1>2. ~ (r < e)
  BY <1>1
<1>3. ~ (e < r)
  BY <1>1
<1> QED
  BY <1>1, <1>2, <1>3 DEF r

Newlines(s, i) == {j \in 1 .. i - 1 : s[j] = Newline}

LEMMA LineBounds ==
  ASSUME NEW s, NEW i \in Nat \ {0}
  PROVE  IsFiniteSet(Newlines(s, i)) /\ LineOf(s, i) \in 1 .. i
<1>1. IsFiniteSet(1 .. i - 1) /\ Cardinality(1 .. i - 1) = i - 1
  BY FS_Interval
<1>2. Newlines(s, i) \subseteq 1 .. i - 1
  BY DEF Newlines
<1>3. IsFiniteSet(Newlines(s, i)) /\ Cardinality(Newlines(s, i)) <= i - 1
  BY <1>1, <1>2, FS_Subset
<1>4. Cardinality(Newlines(s, i)) \in Nat
  BY <1>3, FS_CardinalityType
<1>5. LineOf(s, i) = 1 + Cardinality(Newlines(s, i))
  BY DEF LineOf, Newlines
<1> QED
  BY <1>3, <1>4, <1>5

LEMMA LineGrows ==
  ASSUME NEW s, NEW i \in Nat \ {0}, NEW k \in Nat, i <= k
  PROVE  LineOf(s, i) <= LineOf(s, k)
<1>1. k \in Nat \ {0} /\ Newlines(s, i) \subseteq Newlines(s, k)
  BY DEF Newlines
<1>2. Cardinality(Newlines(s, i)) <= Cardinality(Newlines(s, k))
  BY <1>1, LineBounds, FS_Subset
<1>3. /\ LineOf(s, i) = 1 + Cardinality(Newlines(s, i))
      /\ LineOf(s, k) = 1 + Cardinality(Newlines(s, k))
  BY DEF LineOf, Newlines
<1>4. /\ Cardinality(Newlines(s, i)) \in Nat
      /\ Cardinality(Newlines(s, k)) \in Nat
  BY <1>1, LineBounds, FS_CardinalityType
<1> QED
  BY <1>2, <1>3, <1>4

LEMMA LineAfter ==
  ASSUME NEW s, NEW i \in Nat \ {0}
  PROVE  LineOf(s, i + 1) = IF s[i] = Newline THEN LineOf(s, i) + 1 ELSE LineOf(s, i)
<1>1. Newlines(s, i + 1) = IF s[i] = Newline THEN Newlines(s, i) \cup {i} ELSE Newlines(s, i)
  BY DEF Newlines
<1>2. i \notin Newlines(s, i) /\ IsFiniteSet(Newlines(s, i))
  BY LineBounds DEF Newlines
<1>3. Cardinality(Newlines(s, i) \cup {i}) = Cardinality(Newlines(s, i)) + 1
  BY <1>2, FS_AddElement
<1>4. Cardinality(Newlines(s, i)) \in Nat
  BY <1>2, FS_CardinalityType
<1>5. /\ LineOf(s, i) = 1 + Cardinality(Newlines(s, i))
      /\ LineOf(s, i + 1) = 1 + Cardinality(Newlines(s, i + 1))
  BY DEF LineOf, Newlines
<1> QED
  BY <1>1, <1>3, <1>4, <1>5
-----------------------------------------------------------------------------
(* The token at a place.                                                     *)

Ends(s, i) == {j \in i + 1 .. Len(s) : s[j] = Quote /\ ~ Escaped(s, i, j)}

LEMMA ClosingIs ==
  ASSUME NEW s \in Seq(Runes), NEW i \in 1 .. Len(s)
  PROVE  /\ Ends(s, i) = {} => Closing(s, i) = 0
         /\ Ends(s, i) # {} => /\ Closing(s, i) \in Ends(s, i)
                               /\ \A j \in Ends(s, i) : Closing(s, i) <= j
<1>1. Ends(s, i) \in SUBSET Nat
  BY DEF Ends
<1>2. Closing(s, i) = IF Ends(s, i) = {} THEN 0 ELSE Min(Ends(s, i))
  BY DEF Closing, Ends
<1> QED
  BY <1>1, <1>2, MinIs

TokenTypesOf == TokenTypes \ {"eof"}
Token(s) == [type : TokenTypesOf, value : Seq(Runes), at : 1 .. Len(s), end : 1 .. Len(s)]
Places(s) == {i \in 1 .. Len(s) : Opens(s, i)}

LEMMA SubSeqType ==
  ASSUME NEW s \in Seq(Runes), NEW m \in 1 .. Len(s) + 1, NEW n \in m - 1 .. Len(s)
  PROVE  /\ SubSeq(s, m, n) \in Seq(Runes) /\ Len(SubSeq(s, m, n)) = n - m + 1
         /\ \A k \in 1 .. n - m + 1 : SubSeq(s, m, n)[k] = s[m + k - 1]
<1>1. m \in Int /\ n \in Int /\ \A k \in m .. n : s[k] \in Runes
  OBVIOUS
<1>2. /\ SubSeq(s, m, n) \in Seq(Runes)
      /\ Len(SubSeq(s, m, n)) = IF m <= n THEN n - m + 1 ELSE 0
      /\ \A k \in 1 .. n - m + 1 : SubSeq(s, m, n)[k] = s[m + k - 1]
  BY <1>1, SubSeqProperties
<1> QED
  BY <1>2

\* TokenAt's cases exclude each other.
LEMMA TokenCases ==
  ASSUME NEW s, NEW i
  PROVE  LET eol == RunEnd(s, i, Runes \ {Newline})
             num == RunEnd(s, i, Digits \cup {"."})
             wrd == RunEnd(s, i, Letters \cup Digits)
             quo == Closing(s, i)
             Tok(type, v, e) == [type |-> type, value |-> v, at |-> i, end |-> e]
         IN  /\ OpensDirective(s, i) => TokenAt(s, i) = Tok("directive", SubSeq(s, i + 1, eol), eol)
             /\ OpensComment(s, i) => TokenAt(s, i) = Tok("comment", SubSeq(s, i, eol), eol)
             /\ s[i] \in Digits => TokenAt(s, i) = Tok("number", SubSeq(s, i, num), num)
             /\ s[i] \in Letters => TokenAt(s, i) = Tok(WordType(SubSeq(s, i, wrd)), SubSeq(s, i, wrd), wrd)
             /\ s[i] = Quote => TokenAt(s, i) = Tok("string", SubSeq(s, i + 1, quo - 1), quo)
             /\ ~ OpensDirective(s, i) /\ ~ OpensComment(s, i)
                   /\ s[i] \notin Digits \cup Letters \cup {Quote}
                => TokenAt(s, i) = Tok("operator", SubSeq(s, i, i), i)
<1>1. /\ Letters \cap Digits = {} /\ Quote \notin Letters \cup Digits
      /\ OpensDirective(s, i) \/ OpensComment(s, i) => s[i] \notin Letters \cup Digits \cup {Quote}
      /\ ~ (OpensDirective(s, i) /\ OpensComment(s, i))
  BY DEF Letters, Digits, Quote, OpensDirective, OpensComment
<1> QED
  BY <1>1 DEF TokenAt

LEMMA TokenType ==
  ASSUME NEW s \in Seq(Runes), NEW i \in Places(s)
  PROVE  TokenAt(s, i) \in Token(s) /\ TokenAt(s, i).at = i /\ TokenAt(s, i).end >= i
<1> DEFINE eol == RunEnd(s, i, Runes \ {Newline})
           num == RunEnd(s, i, Digits \cup {"."})
           wrd == RunEnd(s, i, Letters \cup Digits)
           quo == Closing(s, i)
<1>1. i \in 1 .. Len(s) /\ s[i] \in Runes /\ Opens(s, i)
  BY DEF Places
<1>2. /\ eol \in i - 1 .. Len(s) /\ num \in i - 1 .. Len(s) /\ wrd \in i - 1 .. Len(s)
      /\ eol < Len(s) => s[eol + 1] \notin Runes \ {Newline}
      /\ num < Len(s) => s[num + 1] \notin Digits \cup {"."}
      /\ wrd < Len(s) => s[wrd + 1] \notin Letters \cup Digits
  BY <1>1, RunEndIs
<1>3. s[i] # Newline => eol >= i
  BY <1>1, <1>2
<1>4. (s[i] \in Digits => num >= i) /\ (s[i] \in Letters => wrd >= i)
  BY <1>1, <1>2
<1>5. s[i] = Quote => quo \in i + 1 .. Len(s)
  BY <1>1, ClosingIs DEF Opens, Ends
<1>6. OpensDirective(s, i) \/ OpensComment(s, i) => s[i] # Newline
  BY DEF OpensDirective, OpensComment, Newline
<1> HIDE DEF eol, num, wrd, quo
<1>7. /\ s[i] # Newline => SubSeq(s, i, eol) \in Seq(Runes) /\ SubSeq(s, i + 1, eol) \in Seq(Runes)
      /\ s[i] \in Digits => SubSeq(s, i, num) \in Seq(Runes)
      /\ s[i] \in Letters => SubSeq(s, i, wrd) \in Seq(Runes)
      /\ s[i] = Quote => SubSeq(s, i + 1, quo - 1) \in Seq(Runes)
      /\ SubSeq(s, i, i) \in Seq(Runes)
  BY <1>1, <1>2, <1>3, <1>4, <1>5, SubSeqType
<1>8. \A w : WordType(w) \in TokenTypesOf
  BY DEF WordType, TokenTypesOf, TokenTypes
<1> DEFINE Fine(type, v, e) == type \in TokenTypesOf /\ v \in Seq(Runes) /\ e \in i .. Len(s)
           Tok(type, v, e) == [type |-> type, value |-> v, at |-> i, end |-> e]
<1>9. ASSUME NEW type, NEW v, NEW e, Fine(type, v, e), TokenAt(s, i) = Tok(type, v, e)
      PROVE  TokenAt(s, i) \in Token(s) /\ TokenAt(s, i).at = i /\ TokenAt(s, i).end >= i
  BY <1>1, <1>9 DEF Token
<1>10. CASE OpensDirective(s, i)
  <2>1. Fine("directive", SubSeq(s, i + 1, eol), eol)
    BY <1>2, <1>3, <1>6, <1>7, <1>10 DEF TokenTypesOf, TokenTypes
  <2>2. TokenAt(s, i) = Tok("directive", SubSeq(s, i + 1, eol), eol)
    BY <1>10, TokenCases DEF eol
  <2> HIDE DEF Fine, Tok
  <2> QED
    BY <1>9, <2>1, <2>2
<1>11. CASE OpensComment(s, i)
  <2>1. Fine("comment", SubSeq(s, i, eol), eol)
    BY <1>2, <1>3, <1>6, <1>7, <1>11 DEF TokenTypesOf, TokenTypes
  <2>2. TokenAt(s, i) = Tok("comment", SubSeq(s, i, eol), eol)
    BY <1>11, TokenCases DEF eol
  <2> HIDE DEF Fine, Tok
  <2> QED
    BY <1>9, <2>1, <2>2
<1>12. CASE s[i] \in Digits
  <2>1. Fine("number", SubSeq(s, i, num), num)
    BY <1>2, <1>4, <1>7, <1>12 DEF TokenTypesOf, TokenTypes
  <2>2. TokenAt(s, i) = Tok("number", SubSeq(s, i, num), num)
    BY <1>12, TokenCases DEF num
  <2> HIDE DEF Fine, Tok
  <2> QED
    BY <1>9, <2>1, <2>2
<1>13. CASE s[i] \in Letters
  <2>1. Fine(WordType(SubSeq(s, i, wrd)), SubSeq(s, i, wrd), wrd)
    BY <1>2, <1>4, <1>7, <1>8, <1>13
  <2>2. TokenAt(s, i) = Tok(WordType(SubSeq(s, i, wrd)), SubSeq(s, i, wrd), wrd)
    BY <1>13, TokenCases DEF wrd
  <2> HIDE DEF Fine, Tok
  <2> QED
    BY <1>9, <2>1, <2>2
<1>14. CASE s[i] = Quote
  <2>1. Fine("string", SubSeq(s, i + 1, quo - 1), quo)
    BY <1>5, <1>7, <1>14 DEF TokenTypesOf, TokenTypes
  <2>2. TokenAt(s, i) = Tok("string", SubSeq(s, i + 1, quo - 1), quo)
    BY <1>14, TokenCases DEF quo
  <2> HIDE DEF Fine, Tok
  <2> QED
    BY <1>9, <2>1, <2>2
<1>15. CASE /\ ~ OpensDirective(s, i) /\ ~ OpensComment(s, i)
            /\ s[i] \notin Digits \cup Letters \cup {Quote}
  <2>1. Fine("operator", SubSeq(s, i, i), i)
    BY <1>1, <1>7 DEF TokenTypesOf, TokenTypes
  <2>2. TokenAt(s, i) = Tok("operator", SubSeq(s, i, i), i)
    BY <1>15, TokenCases
  <2> HIDE DEF Fine, Tok
  <2> QED
    BY <1>9, <2>1, <2>2
<1> QED
  BY <1>10, <1>11, <1>12, <1>13, <1>14, <1>15

-----------------------------------------------------------------------------
(* The places of the tokens.                                                 *)

LEMMA AfterType ==
  ASSUME NEW s \in Seq(Runes), NEW ps \in Seq(Places(s)), NEW n \in 0 .. Len(ps)
  PROVE  /\ After(s, ps, n) \in 1 .. Len(s) + 1
         /\ Here(s, ps, n) \in After(s, ps, n) .. Len(s) + 1
         /\ n # 0 => After(s, ps, n) > ps[n]
<1>1. /\ After(s, ps, n) \in 1 .. Len(s) + 1
      /\ n # 0 => After(s, ps, n) > ps[n]
  <2>1. CASE n = 0
    BY <2>1 DEF After
  <2>2. CASE n # 0
    <3>1. n \in 1 .. Len(ps)
      BY <2>2
    <3>2. ps[n] \in Places(s)
      BY <3>1
    <3>3. TokenAt(s, ps[n]).end \in 1 .. Len(s) /\ TokenAt(s, ps[n]).end >= ps[n]
      BY <3>2, TokenType DEF Token
    <3>4. ps[n] \in Nat
      BY <3>2 DEF Places
    <3> QED
      BY <2>2, <3>3, <3>4 DEF After
  <2> QED
    BY <2>1, <2>2
<1>2. RunEnd(s, After(s, ps, n), Space) \in After(s, ps, n) - 1 .. Len(s)
  BY <1>1, RunEndIs
<1> QED
  BY <1>1, <1>2 DEF Here, Beyond

\* The tokens at ps are the first tokens of s, one behind the other.
Chain(s, ps) == /\ ps \in Seq(Places(s))
                /\ \A n \in 1 .. Len(ps) : ps[n] = Here(s, ps, n - 1) /\ ps[n] >= n

PlacesUpTo(s, places) ==
    places = [n \in 0 .. Len(s) |->
                IF n = 0 THEN << >>
                ELSE IF Len(places[n - 1]) = n - 1 /\ Opens(s, Here(s, places[n - 1], n - 1))
                     THEN Append(places[n - 1], Here(s, places[n - 1], n - 1))
                     ELSE places[n - 1]]

LEMMA PlacesExist ==
  ASSUME NEW s \in Seq(Runes)
  PROVE  \E places \in [0 .. Len(s) -> Seq(Places(s))] : PlacesUpTo(s, places)
<1> DEFINE n == Len(s)
           S == Seq(Places(s))
           Goes(ps, i) == Len(ps) = i - 1 /\ Opens(s, Here(s, ps, i - 1))
           Longer(ps, i) == IF Goes(ps, i) THEN Append(ps, Here(s, ps, i - 1)) ELSE ps
           step == [i \in 1 .. n |-> [ps \in S |-> Longer(ps, i)]]
<1>1. n \in Nat /\ <<>> \in S
  OBVIOUS
<1>2. \A i \in 1 .. n : \A ps \in S : Longer(ps, i) \in S
  <2> TAKE i \in 1 .. n
  <2> TAKE ps \in S
  <2>1. CASE Goes(ps, i)
    <3>1. i - 1 \in 0 .. Len(ps)
      BY <2>1
    <3>2. Here(s, ps, i - 1) \in 1 .. Len(s) + 1
      BY <3>1, AfterType
    <3>3. Here(s, ps, i - 1) \in Places(s)
      BY <2>1, <3>2 DEF Places, Opens
    <3> HIDE DEF Goes
    <3> QED
      BY <2>1, <3>3
  <2>2. CASE ~ Goes(ps, i)
    <3> HIDE DEF Goes
    <3> QED
      BY <2>2
  <2> HIDE DEF Goes
  <2> QED
    BY <2>1, <2>2
<1>3. \A i \in 1 .. n : \A ps \in S : step[i][ps] = Longer(ps, i)
  <2> HIDE DEF Longer, S, n
  <2> QED
    OBVIOUS
<1>4. step \in [1 .. n -> [S -> S]]
  <2> HIDE DEF n, S, Longer
  <2> QED
    BY <1>2
<1> HIDE DEF n, S, step, Longer
<1>5. PICK f \in [0 .. n -> S] : Recursion(f, n, <<>>, step)
  BY <1>1, <1>4, RecursionExists DEF Recursive
<1>6. \A i \in 0 .. n : f[i] = IF i = 0 THEN <<>> ELSE Longer(f[i - 1], i)
  <2> TAKE i \in 0 .. n
  <2>1. CASE i = 0
    BY <1>5, <2>1 DEF Recursion
  <2>2. CASE i # 0
    <3>1. i \in 1 .. n /\ i - 1 \in 0 .. n
      BY <1>1, <2>2
    <3>2. f[i] = step[i][f[i - 1]] /\ f[i - 1] \in S
      BY <1>5, <3>1 DEF Recursion
    <3> QED
      BY <1>3, <2>2, <3>1, <3>2
  <2> QED
    BY <2>1, <2>2
<1>7. f = [i \in 0 .. n |-> IF i = 0 THEN <<>> ELSE Longer(f[i - 1], i)]
  BY <1>5, <1>6
<1> QED
  BY <1>5, <1>7 DEF PlacesUpTo, n, S, Longer

\* The places of the tokens of s: one behind the other, as far as there are any.
LEMMA PlacesRight ==
  ASSUME NEW s \in Seq(Runes)
  PROVE  LET ps == TokenPlaces(s)
         IN  Chain(s, ps) /\ ~ Opens(s, Here(s, ps, Len(ps)))
<1>1. \E f : PlacesUpTo(s, f)
  BY PlacesExist
<1>2. PICK pl : PlacesUpTo(s, pl) /\ TokenPlaces(s) = pl[Len(s)]
  BY <1>1 DEF TokenPlaces, PlacesUpTo
<1>3. \A n \in 0 .. Len(s) :
         pl[n] = IF n = 0 THEN << >>
                 ELSE IF Len(pl[n - 1]) = n - 1 /\ Opens(s, Here(s, pl[n - 1], n - 1))
                      THEN Append(pl[n - 1], Here(s, pl[n - 1], n - 1))
                      ELSE pl[n - 1]
  BY <1>2 DEF PlacesUpTo
<1>4. /\ pl[0] = << >>
      /\ \A n \in 1 .. Len(s) :
           pl[n] = IF Len(pl[n - 1]) = n - 1 /\ Opens(s, Here(s, pl[n - 1], n - 1))
                   THEN Append(pl[n - 1], Here(s, pl[n - 1], n - 1))
                   ELSE pl[n - 1]
  BY <1>3
<1> DEFINE Stuck(ps) == ~ Opens(s, Here(s, ps, Len(ps)))
           good == {n \in Nat : n <= Len(s) =>
                      Chain(s, pl[n]) /\ (Len(pl[n]) = n \/ Stuck(pl[n]))}
<1>5. 0 \in good
  <2>1. << >> \in Seq(Places(s)) /\ Len(<< >>) = 0
    OBVIOUS
  <2>2. Chain(s, pl[0]) /\ Len(pl[0]) = 0
    BY <1>4, <2>1 DEF Chain
  <2> QED
    BY <2>2
<1>6. ASSUME NEW n \in 1 .. Len(s), n - 1 \in good PROVE n \in good
  <2> DEFINE ps == pl[n - 1]
  <2>1. Chain(s, ps) /\ (Len(ps) = n - 1 \/ Stuck(ps))
    BY <1>6
  <2>2. ps \in Seq(Places(s))
    BY <2>1 DEF Chain
  <2>3. CASE Len(ps) = n - 1 /\ ~ Stuck(ps)
    <3> DEFINE h == Here(s, ps, n - 1)
    <3>1. pl[n] = Append(ps, h)
      BY <1>4, <2>3
    <3>2. h \in Places(s) /\ h >= n
      <4>1. /\ h \in After(s, ps, n - 1) .. Len(s) + 1
            /\ After(s, ps, n - 1) \in 1 .. Len(s) + 1
            /\ n - 1 # 0 => After(s, ps, n - 1) > ps[n - 1]
        BY <2>2, <2>3, AfterType
      <4>2. Opens(s, h)
        BY <2>3
      <4>3. n - 1 # 0 => ps[n - 1] \in Nat /\ ps[n - 1] >= n - 1
        BY <2>1, <2>3, <2>2 DEF Chain, Places
      <4> HIDE DEF h, ps
      <4> QED
        BY <4>1, <4>2, <4>3 DEF Places, Opens
    <3> HIDE DEF h, ps
    <3>3. pl[n] \in Seq(Places(s)) /\ Len(pl[n]) = n /\ pl[n][n] = h
          /\ \A k \in 1 .. n - 1 : pl[n][k] = ps[k]
      BY <2>2, <2>3, <3>1, <3>2
    <3>4. \A k \in 0 .. n - 1 : Here(s, pl[n], k) = Here(s, ps, k)
      BY <3>3 DEF Here, After
    <3>5. ASSUME NEW k \in 1 .. n PROVE pl[n][k] = Here(s, pl[n], k - 1) /\ pl[n][k] >= k
      <4>1. CASE k = n
        BY <3>2, <3>3, <3>4, <4>1 DEF h
      <4>2. CASE k # n
        <5>1. k \in 1 .. n - 1 /\ k - 1 \in 0 .. n - 1
          BY <4>2
        <5> QED
          BY <2>1, <2>3, <3>3, <3>4, <5>1 DEF Chain
      <4> QED
        BY <4>1, <4>2
    <3> QED
      BY <3>3, <3>5 DEF Chain
  <2>4. CASE ~ (Len(ps) = n - 1 /\ ~ Stuck(ps))
    <3>1. ~ (Len(ps) = n - 1 /\ Opens(s, Here(s, ps, n - 1)))
      BY <2>4
    <3>2. pl[n] = ps
      BY <1>4, <3>1
    <3> QED
      BY <2>1, <2>4, <3>2
  <2> QED
    BY <2>3, <2>4
<1>7. Len(s) \in good
  <2>1. good \in SUBSET Nat /\ Len(s) \in Nat
    OBVIOUS
  <2> HIDE DEF good
  <2>2. 0 .. Len(s) \subseteq good
    BY <1>5, <1>6, <2>1, Induction
  <2> QED
    BY <2>1, <2>2
<1> DEFINE ps == TokenPlaces(s)
<1>8. Chain(s, ps) /\ (Len(ps) = Len(s) \/ Stuck(ps))
  BY <1>2, <1>7
<1> HIDE DEF ps
<1>9. CASE Len(ps) = Len(s) /\ Len(s) # 0
  <2>1. ps \in Seq(Places(s)) /\ ps[Len(ps)] >= Len(ps) /\ Len(ps) \in 0 .. Len(ps)
    BY <1>8, <1>9 DEF Chain
  <2>2. Here(s, ps, Len(ps)) \in After(s, ps, Len(ps)) .. Len(s) + 1
        /\ After(s, ps, Len(ps)) \in 1 .. Len(s) + 1 /\ After(s, ps, Len(ps)) > ps[Len(ps)]
    BY <1>9, <2>1, AfterType
  <2>3. ps[Len(ps)] \in Nat
    BY <1>9, <2>1 DEF Places
  <2>4. Here(s, ps, Len(ps)) > Len(s)
    BY <1>9, <2>1, <2>2, <2>3
  <2> QED
    BY <1>8, <2>2, <2>4 DEF Opens, ps
<1>10. CASE Len(ps) = Len(s) /\ Len(s) = 0
  <2>1. ps \in Seq(Places(s)) /\ Len(ps) \in 0 .. Len(ps)
    BY <1>8 DEF Chain
  <2>2. Here(s, ps, Len(ps)) \in After(s, ps, Len(ps)) .. Len(s) + 1
        /\ After(s, ps, Len(ps)) \in 1 .. Len(s) + 1
    BY <2>1, AfterType
  <2> QED
    BY <1>8, <1>10, <2>2 DEF Opens, ps
<1> QED
  BY <1>8, <1>9, <1>10 DEF ps
-----------------------------------------------------------------------------
(* The reader.                                                               *)

\* How many runes have been read and not given back: a rune that was peeked at
\* is still to come.
Pos == IF peeked = None THEN at ELSE at - 1

ReaderOK == /\ text \in Texts
            /\ at \in 0 .. Len(text)
            /\ peeked # None => at >= 1 /\ peeked = text[at]
            /\ line \in 1 .. LineOf(text, Pos + 1)

LEMMA Reader ==
  ASSUME ReaderOK
  PROVE  /\ text \in Seq(Runes) /\ Len(text) \in Nat /\ Pos \in 0 .. Len(text)
         /\ Coming = IF Pos < Len(text) THEN text[Pos + 1] ELSE None
         /\ Coming = None <=> Pos = Len(text)
         /\ Coming # None => Pos + 1 \in 1 .. Len(text) /\ Coming = text[Pos + 1] /\ Coming \in Runes
         /\ peeked \in Runes \cup {None}
         /\ line \in 1 .. Len(text) + 1
<1>1. text \in Seq(Runes) /\ None \notin Runes
  BY ParserAssumption DEF ReaderOK
<1>2. Len(text) \in Nat /\ \A i \in 1 .. Len(text) : text[i] \in Runes
  BY <1>1
<1>3. Pos \in 0 .. Len(text)
  BY <1>2 DEF ReaderOK, Pos
<1>4. Coming = IF Pos < Len(text) THEN text[Pos + 1] ELSE None
  BY <1>2 DEF ReaderOK, Pos, Coming
<1>5. peeked \in Runes \cup {None}
  BY <1>2 DEF ReaderOK
<1>6. LineOf(text, Pos + 1) \in 1 .. Pos + 1
  BY <1>3, LineBounds
<1>7. line \in 1 .. Len(text) + 1
  BY <1>2, <1>3, <1>6 DEF ReaderOK
<1> QED
  BY <1>1, <1>2, <1>3, <1>4, <1>5, <1>7

LEMMA NextRuneReads ==
  ASSUME ReaderOK, UNCHANGED text, NextRune
  PROVE  /\ ReaderOK' /\ Pos' = IF Coming = None THEN Pos ELSE Pos + 1
         /\ Coming # None /\ Coming # Newline => line' <= LineOf(text, Pos + 1)
         /\ line' \in 1 .. Len(text) + 1 /\ line' <= LineOf(text, Pos' + 1)
<1> USE Reader
<1>1. Pos' = IF Coming = None THEN Pos ELSE Pos + 1
  BY DEF NextRune, Pos, ReaderOK, Coming
<1>2. at' \in 0 .. Len(text) /\ peeked' = None
  BY DEF NextRune, ReaderOK, Coming
<1>3. /\ Pos + 1 \in Nat \ {0}
      /\ LineOf(text, Pos + 1) \in Nat /\ LineOf(text, Pos + 2) \in Nat
      /\ Coming # None => LineOf(text, Pos + 2) = IF Coming = Newline THEN LineOf(text, Pos + 1) + 1
                                                  ELSE LineOf(text, Pos + 1)
  <2>1. Pos + 1 \in Nat \ {0} /\ Pos + 2 \in Nat \ {0} /\ (Pos + 1) + 1 = Pos + 2
    OBVIOUS
  <2>2. LineOf(text, Pos + 1) \in Nat /\ LineOf(text, Pos + 2) \in Nat
    BY <2>1, LineBounds
  <2>3. LineOf(text, (Pos + 1) + 1) = IF text[Pos + 1] = Newline THEN LineOf(text, Pos + 1) + 1
                                      ELSE LineOf(text, Pos + 1)
    BY <2>1, LineAfter
  <2> QED
    BY <2>1, <2>2, <2>3
<1>4. line' \in 1 .. LineOf(text, Pos' + 1)
      /\ (Coming # None /\ Coming # Newline => line' <= LineOf(text, Pos + 1))
  <2>1. CASE peeked = None /\ Coming # None
    BY <1>1, <1>3, <2>1 DEF NextRune, ReaderOK
  <2>2. CASE ~ (peeked = None /\ Coming # None)
    <3>1. line' = line /\ line \in 1 .. LineOf(text, Pos + 1)
      BY <2>2 DEF NextRune, ReaderOK
    <3>2. Coming # None => LineOf(text, Pos + 1) <= LineOf(text, Pos + 2)
      BY <1>3
    <3> QED
      BY <1>1, <1>3, <3>1, <3>2
  <2> QED
    BY <2>1, <2>2
<1>5. LineOf(text, Pos' + 1) \in 1 .. Pos' + 1
  BY <1>1, LineBounds
<1>6. line' \in 1 .. Len(text) + 1
  BY <1>1, <1>4, <1>5
<1> QED
  BY <1>1, <1>2, <1>4, <1>5, <1>6 DEF ReaderOK

LEMMA TakeReads ==
  ASSUME ReaderOK, UNCHANGED text, Take, Coming # None
  PROVE  ReaderOK' /\ Pos' = Pos + 1
<1> USE Reader
<1>1. Pos' = Pos + 1 /\ at' \in 0 .. Len(text) /\ peeked' = None /\ line' = line
  BY DEF Take, Pos, ReaderOK, Coming
<1>2. LineOf(text, Pos + 1) <= LineOf(text, Pos + 2) /\ LineOf(text, Pos + 1) \in Nat
      /\ LineOf(text, Pos + 2) \in Nat
  <2>1. Pos + 1 \in Nat \ {0} /\ Pos + 2 \in Nat \ {0} /\ Pos + 1 <= Pos + 2
    OBVIOUS
  <2> QED
    BY <2>1, LineBounds, LineGrows
<1> QED
  BY <1>1, <1>2 DEF ReaderOK

LEMMA PeekReads ==
  ASSUME ReaderOK, UNCHANGED text, PeekRune
  PROVE  ReaderOK' /\ Pos' = Pos
<1> USE Reader
<1>1. Pos' = Pos
  BY DEF PeekRune, Pos, ReaderOK, Coming
<1>2. at' \in 0 .. Len(text) /\ (peeked' # None => at' >= 1 /\ peeked' = text[at'])
  BY DEF PeekRune, ReaderOK, Coming, Pos
<1> QED
  BY <1>1, <1>2 DEF ReaderOK, PeekRune

LEMMA Unread == ASSUME ReaderOK, UNCHANGED <<text, reader>> PROVE ReaderOK' /\ Pos' = Pos
BY DEF ReaderOK, Pos, reader
-----------------------------------------------------------------------------
(* The lexer's state.                                                        *)

Returned == [type : TokenTypes, value : Seq(Runes), line : Nat]
Modes == {"idle", "skip", "first", "word", "number", "string", "escape",
          "comment", "directive", "params"}

LexType == /\ mode \in Modes
           /\ atLineStart \in BOOLEAN
           /\ start \in 0 .. Len(text) + 1
           /\ value \in Seq(Runes)
           /\ tokens \in Seq(Returned)

Found == TokenPlaces(text)
Matches(s, t, i) == /\ t.type = TokenAt(s, i).type /\ t.value = TokenAt(s, i).value
                    /\ t.line <= LineOf(s, i)

\* What was returned are the tokens of the text, and its end behind them.
TokensRight ==
    \A i \in 1 .. Len(tokens) :
      IF tokens[i].type = "eof"
      THEN i = Len(tokens) /\ mode = "idle" /\ i = Len(Found) + 1 /\ Closed(text)
      ELSE i <= Len(Found) /\ Matches(text, tokens[i], Found[i])

\* The place behind the last token, and the one where the next may begin
Behind == After(text, Found, Len(tokens))
Begins == Here(text, Found, Len(tokens))

\* Between two tokens: all spaces so far
Spaces == Behind <= Pos + 1 /\ \A j \in Behind .. Pos : text[j] \in Space
AtLineStart(s, i) == i = 1 \/ s[i - 1] # " "

\* The lexer's flag lets through a # that starts a line, and one that is glued.
LEMMA OpensByFlag ==
  ASSUME NEW s, NEW i \in Nat \ {0}
  PROVE  OpensDirective(s, i) <=> s[i] = "#" /\ AtLineStart(s, i)
<1>1. Newline # " " /\ (i = 1 \/ i > 1)
  BY DEF Newline
<1>2. StartsLine(s, i) \/ Glued(s, i) <=> AtLineStart(s, i)
  BY <1>1 DEF StartsLine, Glued, AtLineStart, Space
<1> QED
  BY <1>2 DEF OpensDirective

Ended == tokens # << >> /\ tokens[Len(tokens)].type = "eof"
Idle == /\ tokens # << >>
        /\ ~ Ended => /\ Spaces
                      /\ Pos < Len(text) => AtLineStart(text, Pos + 1)
                      /\ start <= LineOf(text, Pos + 1)
Skipping == /\ Spaces
            /\ Pos < Len(text) => (atLineStart <=> AtLineStart(text, Pos + 1))
            /\ start <= LineOf(text, Pos + 1)

\* In a token: its first rune, and all it has of it since
All(class) == \A j \in Begins .. Pos : text[j] \in class
Scanned == /\ Begins <= Pos /\ start <= LineOf(text, Begins)
           /\ mode = "first" => /\ Begins = Pos /\ value = <<text[Begins]>>
                                /\ text[Begins] \notin Space
                                /\ atLineStart <=> AtLineStart(text, Begins)
           /\ mode = "word" => /\ text[Begins] \in Letters /\ All(Letters \cup Digits)
                               /\ value = SubSeq(text, Begins, Pos)
           /\ mode = "number" => /\ text[Begins] \in Digits /\ All(Digits \cup {"."})
                                 /\ value = SubSeq(text, Begins, Pos)
           /\ mode = "comment" => /\ OpensComment(text, Begins) /\ All(Runes \ {Newline})
                                  /\ value = SubSeq(text, Begins, Pos)
           /\ mode \in {"directive", "params"} =>
                 /\ OpensDirective(text, Begins) /\ All(Runes \ {Newline})
                 /\ value = SubSeq(text, Begins + 1, Pos)
           /\ mode \in {"string", "escape"} =>
                 /\ text[Begins] = Quote /\ \A j \in Ends(text, Begins) : j > Pos
                 /\ value = SubSeq(text, Begins + 1, Pos)
                 /\ mode = "escape" <=> Escaped(text, Begins, Pos + 1)

LexOK == /\ mode = "idle" => Idle
         /\ mode = "skip" => Skipping
         /\ mode \notin {"idle", "skip"} => Scanned

LexInv == /\ ReaderOK /\ LexType /\ TokensRight
          /\ state \notin Done => LexOK

\* The lexer is not at the end of the text.
Going == LexInv /\ state \notin Done /\ ~ Ended

LEMMA FoundRight ==
  ASSUME ReaderOK
  PROVE  /\ Found \in Seq(Places(text)) /\ Len(Found) \in Nat
         /\ \A n \in 1 .. Len(Found) : Found[n] = Here(text, Found, n - 1) /\ Found[n] \in Places(text)
         /\ ~ Opens(text, Here(text, Found, Len(Found)))
<1>1. text \in Seq(Runes)
  BY Reader
<1>2. Chain(text, Found) /\ ~ Opens(text, Here(text, Found, Len(Found)))
  BY <1>1, PlacesRight DEF Found
<1> QED
  BY <1>2 DEF Chain

\* Where the next token begins, and whether there is one
LEMMA BeginsIs ==
  ASSUME ReaderOK, LexType, TokensRight, ~ Ended
  PROVE  /\ Len(tokens) \in 0 .. Len(Found)
         /\ Behind \in 1 .. Len(text) + 1 /\ Begins \in Behind .. Len(text) + 1
         /\ \A j \in Behind .. Begins - 1 : text[j] \in Space
         /\ Begins <= Len(text) => text[Begins] \notin Space
         /\ Opens(text, Begins) <=> Len(tokens) < Len(Found)
         /\ Len(tokens) < Len(Found) => Found[Len(tokens) + 1] = Begins
         /\ \A i \in 1 .. Len(tokens) : tokens[i].type # "eof"
<1>1. text \in Seq(Runes) /\ Len(text) \in Nat
  BY Reader
<1>2. /\ Found \in Seq(Places(text)) /\ Len(Found) \in Nat
      /\ \A n \in 1 .. Len(Found) : Found[n] = Here(text, Found, n - 1) /\ Found[n] \in Places(text)
      /\ ~ Opens(text, Here(text, Found, Len(Found)))
  BY FoundRight
<1>3. Len(tokens) \in Nat /\ (tokens = << >> <=> Len(tokens) = 0)
  BY DEF LexType
<1>4. \A i \in 1 .. Len(tokens) : tokens[i].type # "eof"
  BY <1>3 DEF TokensRight, Ended
<1>5. Len(tokens) \in 0 .. Len(Found)
  BY <1>2, <1>3, <1>4 DEF TokensRight
<1>6. Behind \in 1 .. Len(text) + 1
  BY <1>1, <1>2, <1>5, AfterType DEF Behind
<1>7. /\ RunEnd(text, Behind, Space) \in Behind - 1 .. Len(text)
      /\ \A j \in Behind .. RunEnd(text, Behind, Space) : text[j] \in Space
      /\ RunEnd(text, Behind, Space) < Len(text) => text[RunEnd(text, Behind, Space) + 1] \notin Space
  BY <1>1, <1>6, RunEndIs
<1>8. Begins = RunEnd(text, Behind, Space) + 1
  BY DEF Begins, Behind, Here, Beyond
<1>9. /\ Len(tokens) < Len(Found) => Found[Len(tokens) + 1] = Begins
      /\ Opens(text, Begins) <=> Len(tokens) < Len(Found)
  <2>1. CASE Len(tokens) < Len(Found)
    <3>1. Len(tokens) + 1 \in 1 .. Len(Found) /\ (Len(tokens) + 1) - 1 = Len(tokens)
      BY <1>3, <1>2, <2>1
    <3>2. Found[Len(tokens) + 1] = Begins /\ Begins \in Places(text)
      BY <1>2, <3>1 DEF Begins
    <3> QED
      BY <2>1, <3>2 DEF Places
  <2>2. CASE Len(tokens) = Len(Found)
    BY <1>2, <2>2 DEF Begins
  <2> QED
    BY <1>5, <1>2, <2>1, <2>2
<1> QED
  BY <1>1, <1>4, <1>5, <1>6, <1>7, <1>8, <1>9

\* The place of a token under way is fixed by the spaces in front of it.
LEMMA BeginsAt ==
  ASSUME ReaderOK, LexType, TokensRight, ~ Ended, Spaces
  PROVE  /\ Begins > Pos
         /\ Coming # None /\ Coming \notin Space => Begins = Pos + 1
         /\ Coming = None => Begins = Len(text) + 1
<1>1. /\ Behind \in 1 .. Len(text) + 1 /\ Begins \in Behind .. Len(text) + 1
      /\ \A j \in Behind .. Begins - 1 : text[j] \in Space
      /\ Begins <= Len(text) => text[Begins] \notin Space
  BY BeginsIs
<1>2. /\ Len(text) \in Nat /\ Pos \in 0 .. Len(text)
      /\ Coming = None <=> Pos = Len(text)
      /\ Coming # None => Pos + 1 \in 1 .. Len(text) /\ Coming = text[Pos + 1]
  BY Reader
<1>3. Begins > Pos
  BY <1>1, <1>2 DEF Spaces
<1> QED
  BY <1>1, <1>2, <1>3 DEF Spaces

-----------------------------------------------------------------------------
(* A token is returned, or goes on.                                          *)

LEMMA SubSeqOne ==
  ASSUME NEW s \in Seq(Runes), NEW m \in 1 .. Len(s)
  PROVE  SubSeq(s, m, m) = <<s[m]>> /\ SubSeq(s, m + 1, m) = << >>
<1>1. s[m] \in Runes /\ <<s[m]>> \in Seq(Runes) /\ Len(<<s[m]>>) = 1 /\ <<s[m]>>[1] = s[m]
  OBVIOUS
<1>2. SubSeq(s, m, m) \in Seq(Runes) /\ Len(SubSeq(s, m, m)) = 1 /\ SubSeq(s, m, m)[1] = s[m]
  BY SubSeqType
<1>3. SubSeq(s, m, m) = <<s[m]>>
  <2> DEFINE a == SubSeq(s, m, m)
             b == <<s[m]>>
  <2>1. /\ a \in Seq(Runes) /\ b \in Seq(Runes) /\ Len(a) = Len(b)
        /\ \A i \in 1 .. Len(a) : a[i] = b[i]
    BY <1>1, <1>2
  <2> HIDE DEF a, b
  <2> QED
    BY <2>1, SeqEqual DEF a, b
<1>4. SubSeq(s, m + 1, m) = << >>
  BY SubSeqEmpty
<1> QED
  BY <1>3, <1>4

LEMMA SubSeqMore ==
  ASSUME NEW s \in Seq(Runes), NEW m \in 1 .. Len(s), NEW n \in m - 1 .. Len(s) - 1
  PROVE  Append(SubSeq(s, m, n), s[n + 1]) = SubSeq(s, m, n + 1)
<1> DEFINE a == SubSeq(s, m, n)
           b == SubSeq(s, m, n + 1)
<1>1. /\ a \in Seq(Runes) /\ Len(a) = n - m + 1
      /\ \A k \in 1 .. n - m + 1 : a[k] = s[m + k - 1]
  BY SubSeqType
<1>2. /\ b \in Seq(Runes) /\ Len(b) = n - m + 2
      /\ \A k \in 1 .. n - m + 2 : b[k] = s[m + k - 1]
  <2>1. n + 1 \in m - 1 .. Len(s) /\ (n + 1) - m + 1 = n - m + 2
    OBVIOUS
  <2> QED
    BY <2>1, SubSeqType
<1>3. s[n + 1] \in Runes /\ Len(s) \in Nat
  OBVIOUS
<1> HIDE DEF a, b
<1>4. /\ Append(a, s[n + 1]) \in Seq(Runes) /\ Len(Append(a, s[n + 1])) = n - m + 2
      /\ \A k \in 1 .. n - m + 1 : Append(a, s[n + 1])[k] = a[k]
      /\ Append(a, s[n + 1])[n - m + 2] = s[n + 1]
  <2> PICK e \in Runes : e = s[n + 1]
    BY <1>3
  <2>1. /\ Append(a, e) \in Seq(Runes) /\ Len(Append(a, e)) = Len(a) + 1
        /\ \A k \in 1 .. Len(a) : Append(a, e)[k] = a[k]
        /\ Append(a, e)[Len(a) + 1] = e
    BY <1>1, AppendProperties
  <2>2. Len(a) + 1 = n - m + 2
    BY <1>1
  <2> QED
    BY <1>1, <2>1, <2>2
<1>5. \A k \in 1 .. n - m + 2 : Append(a, s[n + 1])[k] = b[k]
  <2> TAKE k \in 1 .. n - m + 2
  <2>1. CASE k = n - m + 2
    BY <1>2, <1>4, <2>1
  <2>2. CASE k # n - m + 2
    <3>1. k \in 1 .. n - m + 1
      BY <2>2
    <3> QED
      BY <1>1, <1>2, <1>4, <3>1
  <2> QED
    BY <2>1, <2>2
<1>6. Append(a, s[n + 1]) = b
  BY <1>2, <1>4, <1>5, SeqEqual
<1> QED
  BY <1>6 DEF a, b

LEMMA Underway ==
  ASSUME Going, mode \notin {"idle", "skip"}
  PROVE  /\ ReaderOK /\ LexType /\ TokensRight /\ Scanned
         /\ text \in Seq(Runes) /\ Len(text) \in Nat /\ Pos \in 0 .. Len(text)
         /\ Begins \in 1 .. Len(text) /\ Begins <= Pos /\ text[Begins] \notin Space
         /\ text[Begins] \in Runes
         /\ Len(tokens) \in Nat
         /\ Opens(text, Begins) <=> ~ (text[Begins] = Quote /\ Closing(text, Begins) = 0)
<1>1. ReaderOK /\ LexType /\ TokensRight /\ Scanned /\ ~ Ended
  BY DEF Going, LexInv, LexOK
<1>2. text \in Seq(Runes) /\ Len(text) \in Nat /\ Pos \in 0 .. Len(text)
  BY <1>1, Reader
<1>3. /\ Behind \in 1 .. Len(text) + 1 /\ Begins \in Behind .. Len(text) + 1
      /\ Begins <= Len(text) => text[Begins] \notin Space
      /\ Len(tokens) \in Nat
  BY <1>1, BeginsIs DEF LexType
<1>4. Begins \in 1 .. Len(text) /\ Begins <= Pos
  BY <1>1, <1>2, <1>3 DEF Scanned
<1> QED
  BY <1>1, <1>2, <1>3, <1>4 DEF Opens

LEMMA ReturnsToken ==
  ASSUME Going, mode \notin {"idle", "skip"}, UNCHANGED <<text, state>>, ReaderOK',
         NEW type, NEW v, ReturnToken(type, v, start), Opens(text, Begins),
         type = TokenAt(text, Begins).type, v = TokenAt(text, Begins).value,
         NEW p \in Nat, Pos' = p, NEW e \in Nat, TokenAt(text, Begins).end = e,
         e <= p, p <= Len(text), \A j \in e + 1 .. p : text[j] \in Space,
         p < Len(text) => AtLineStart(text, p + 1)
  PROVE  LexInv'
<1> DEFINE n == Len(tokens)
           t == [type |-> type, value |-> v, line |-> start]
           tok == TokenAt(text, Begins)
<1>1. /\ ReaderOK /\ LexType /\ TokensRight /\ Scanned /\ ~ Ended
      /\ Begins \in 1 .. Len(text) /\ text \in Seq(Runes) /\ Len(text) \in Nat
      /\ start <= LineOf(text, Begins)
  BY Underway DEF Going, Scanned
<1>2. n < Len(Found) /\ Found[n + 1] = Begins /\ \A i \in 1 .. n : tokens[i].type # "eof"
  BY <1>1, BeginsIs
<1>3. tok \in Token(text) /\ tok.end >= Begins
  BY <1>1, TokenType DEF Places
<1>4. type \in TokenTypesOf /\ v \in Seq(Runes) /\ tok.end \in 1 .. Len(text)
  BY <1>3 DEF Token
<1>5. /\ mode' = "idle" /\ tokens' = Append(tokens, t)
      /\ UNCHANGED <<atLineStart, start, value>>
  BY DEF ReturnToken
<1>6. t \in Returned /\ t.type # "eof"
  BY <1>1, <1>4 DEF LexType, Returned, TokenTypesOf
<1>7. n \in Nat /\ tokens \in Seq(Returned)
  BY <1>1 DEF LexType
<1>8. /\ tokens' \in Seq(Returned) /\ Len(tokens') = n + 1 /\ tokens'[n + 1] = t
      /\ \A i \in 1 .. n : tokens'[i] = tokens[i]
  BY <1>5, <1>6, <1>7
<1>9. Found' = Found
  BY DEF Found
<1>10. LexType'
  BY <1>1, <1>5, <1>8 DEF LexType, Modes
<1> HIDE DEF t, n
<1>11. TokensRight'
  <2> SUFFICES ASSUME NEW i \in 1 .. Len(tokens')
               PROVE  tokens'[i].type # "eof" /\ i <= Len(Found) /\ Matches(text, tokens'[i], Found[i])
    BY <1>9 DEF TokensRight
  <2>1. CASE i = n + 1
    <3>1. tokens'[i].type # "eof" /\ i <= Len(Found)
      BY <1>2, <1>6, <1>7, <1>8, <2>1 DEF t
    <3>2. Matches(text, t, Begins)
      BY <1>1 DEF Matches, t
    <3> QED
      BY <1>2, <1>8, <2>1, <3>1, <3>2
  <2>2. CASE i # n + 1
    <3>1. i \in 1 .. n
      BY <1>7, <1>8, <2>2
    <3>2. i <= Len(Found) /\ Matches(text, tokens[i], Found[i])
      BY <1>1, <1>2, <3>1 DEF TokensRight, n
    <3> QED
      BY <1>2, <1>8, <3>1, <3>2
  <2> QED
    BY <2>1, <2>2
<1>12. Behind' = e + 1
  BY <1>2, <1>7, <1>8, <1>9 DEF Behind, After
<1>13. Spaces'
  BY <1>4, <1>12 DEF Spaces
<1>14. start' <= LineOf(text, p + 1)
  <2>1. p + 1 \in Nat \ {0} /\ Begins \in Nat \ {0} /\ Begins <= p + 1
    BY <1>1, <1>3
  <2>2. LineOf(text, Begins) <= LineOf(text, p + 1)
        /\ LineOf(text, Begins) \in Nat /\ LineOf(text, p + 1) \in Nat
    BY <2>1, LineGrows, LineBounds
  <2> QED
    BY <1>1, <1>5, <2>2 DEF LexType
<1>15. Idle'
  <2>1. tokens' # << >>
    BY <1>7, <1>8
  <2> QED
    BY <1>13, <1>14, <2>1 DEF Idle, AtLineStart
<1> QED
  BY <1>5, <1>10, <1>11, <1>15 DEF LexInv, LexOK

LEMMA GoesOn ==
  ASSUME Going, mode \notin {"idle", "skip"}, ReaderOK',
         UNCHANGED <<text, state, tokens, start, atLineStart>>,
         mode' \in Modes \ {"idle", "skip"}, value' \in Seq(Runes), Scanned'
  PROVE  LexInv'
<1>1. ReaderOK /\ LexType /\ TokensRight /\ ~ Ended
  BY DEF Going, LexInv
<1>2. \A i \in 1 .. Len(tokens) : tokens[i].type # "eof"
  BY <1>1, BeginsIs
<1>3. Found' = Found
  BY DEF Found
<1>4. TokensRight'
  BY <1>1, <1>2, <1>3 DEF TokensRight, Matches
<1>5. LexType'
  BY <1>1 DEF LexType
<1> QED
  BY <1>4, <1>5 DEF LexInv, LexOK

LEMMA SameInterval == ASSUME NEW m \in Nat, NEW n \in Nat, 1 .. m = 1 .. n PROVE m = n
<1> SUFFICES ASSUME m # n PROVE FALSE
  OBVIOUS
<1>1. CASE m < n
  <2>1. n \in 1 .. n /\ n \notin 1 .. m
    BY <1>1
  <2> QED
    BY <2>1
<1>2. CASE n < m
  <2>1. m \in 1 .. m /\ m \notin 1 .. n
    BY <1>2
  <2> QED
    BY <2>1
<1> QED
  BY <1>1, <1>2

LEMMA TokensFound ==
  ASSUME ReaderOK
  PROVE  /\ Len(Found) \in Nat /\ Len(TokensOf(text)) = Len(Found)
         /\ DOMAIN TokensOf(text) = 1 .. Len(Found)
         /\ \A i \in 1 .. Len(Found) : TokensOf(text)[i] = TokenAt(text, Found[i])
<1> DEFINE ts == TokensOf(text)
<1>1. ts = [i \in 1 .. Len(Found) |-> TokenAt(text, Found[i])]
  BY DEF TokensOf, Found
<1>2. Len(Found) \in Nat
  BY FoundRight
<1>3. ts \in Seq({TokenAt(text, Found[i]) : i \in 1 .. Len(Found)}) /\ DOMAIN ts = 1 .. Len(Found)
  BY <1>1, <1>2
<1>4. Len(ts) = Len(Found)
  <2> HIDE DEF ts
  <2>1. Len(ts) \in Nat /\ DOMAIN ts = 1 .. Len(ts)
    BY <1>3, LenProperties
  <2> QED
    BY <1>2, <1>3, <2>1, SameInterval
<1> QED
  BY <1>1, <1>2, <1>3, <1>4

\* The strings that are not closed: all that is left behind the tokens
LEMMA ClosedIs ==
  ASSUME ReaderOK
  PROVE  Closed(text) <=> \A j \in After(text, Found, Len(Found)) .. Len(text) : text[j] \in Space
<1> DEFINE ts == TokensOf(text)
           end == IF ts = << >> THEN 0 ELSE ts[Len(ts)].end
<1>1. /\ Len(Found) \in Nat /\ Len(ts) = Len(Found)
      /\ \A i \in 1 .. Len(Found) : ts[i] = TokenAt(text, Found[i])
      /\ Len(Found) = 0 => ts = << >>
  <2>1. ts \in Seq({TokenAt(text, Found[i]) : i \in 1 .. Len(Found)})
    <3>1. Len(Found) \in Nat
      BY TokensFound
    <3> QED
      BY <3>1 DEF TokensOf, Found
  <2> HIDE DEF ts
  <2>2. Len(ts) = 0 => ts = << >>
    BY <2>1
  <2> QED
    BY <2>2, TokensFound DEF ts
<1>4. end + 1 = After(text, Found, Len(Found))
  <2> HIDE DEF ts
  <2>1. CASE Len(Found) = 0
    BY <1>1, <2>1 DEF After
  <2>2. CASE Len(Found) # 0
    <3>1. Len(Found) \in 1 .. Len(Found)
      BY <1>1, <2>2
    <3>2. ts # << >> /\ ts[Len(ts)] = TokenAt(text, Found[Len(Found)])
      BY <1>1, <2>2, <3>1
    <3> QED
      BY <2>2, <3>2 DEF After
  <2> QED
    BY <2>1, <2>2
<1>5. Closed(text) <=> \A j \in end + 1 .. Len(text) : text[j] \in Space
  BY DEF Closed
<1> HIDE DEF end
<1> QED
  BY <1>4, <1>5

\* There is no eof among the tokens while NextToken runs.
LEMMA NotEnded ==
  ASSUME LexInv, state \notin Done, mode # "idle"
  PROVE  Going
<1>1. tokens \in Seq(Returned) /\ TokensRight
  BY DEF LexInv, LexType
<1>2. ASSUME tokens # << >> PROVE tokens[Len(tokens)].type # "eof"
  <2>1. Len(tokens) \in 1 .. Len(tokens)
    BY <1>1, <1>2
  <2> QED
    BY <1>1, <2>1 DEF TokensRight
<1> QED
  BY <1>2 DEF Going, Ended

LEMMA EscapedNext ==
  ASSUME NEW s, NEW i \in Nat, NEW j \in Nat, j > i
  PROVE  /\ ~ Escaped(s, i, i + 1)
         /\ Escaped(s, i, j + 1) <=> s[j] = Backslash /\ ~ Escaped(s, i, j)
<1> DEFINE Run(k) == {n \in i + 1 .. k - 1 : \A m \in n .. k - 1 : s[m] = Backslash}
<1>1. \A k \in Nat : Escaped(s, i, k) <=> Cardinality(Run(k)) % 2 = 1
  BY DEF Escaped
<1>2. Run(i + 1) = {}
  OBVIOUS
<1>3. Cardinality({}) = 0
  BY FS_EmptySet
<1>4. IsFiniteSet(Run(j)) /\ j \notin Run(j)
  <2>1. Run(j) \subseteq i + 1 .. j - 1
    OBVIOUS
  <2>2. IsFiniteSet(i + 1 .. j - 1)
    BY FS_Interval
  <2>3. j \notin Run(j)
    OBVIOUS
  <2> HIDE DEF Run
  <2> QED
    BY <2>1, <2>2, <2>3, FS_Subset
<1>5. s[j] # Backslash => Run(j + 1) = {}
  OBVIOUS
<1>6. s[j] = Backslash => Run(j + 1) = Run(j) \cup {j}
  OBVIOUS
<1> HIDE DEF Run
<1>7. Cardinality(Run(j)) \in Nat /\ Cardinality(Run(j) \cup {j}) = Cardinality(Run(j)) + 1
  BY <1>4, FS_AddElement, FS_CardinalityType
<1>8. (Cardinality(Run(j)) + 1) % 2 = 1 <=> ~ (Cardinality(Run(j)) % 2 = 1)
  BY <1>7
<1>9. i + 1 \in Nat /\ j + 1 \in Nat
  OBVIOUS
<1>10. /\ Escaped(s, i, i + 1) <=> Cardinality(Run(i + 1)) % 2 = 1
       /\ Escaped(s, i, j) <=> Cardinality(Run(j)) % 2 = 1
       /\ Escaped(s, i, j + 1) <=> Cardinality(Run(j + 1)) % 2 = 1
  BY <1>1, <1>9
<1>11. 0 % 2 # 1
  OBVIOUS
<1>12. ~ Escaped(s, i, i + 1)
  BY <1>2, <1>3, <1>10, <1>11
<1>13. CASE s[j] = Backslash
  BY <1>6, <1>7, <1>8, <1>10, <1>12, <1>13
<1>14. CASE s[j] # Backslash
  BY <1>3, <1>5, <1>10, <1>11, <1>12, <1>14
<1> QED
  BY <1>13, <1>14
-----------------------------------------------------------------------------
(* The lexer's actions.                                                      *)

LEMMA AppendTwo == ASSUME NEW x PROVE Append(<<x>>, x) = <<x, x>>
<1> DEFINE a == <<x>>
           b == <<x, x>>
<1>1. a \in Seq({x}) /\ b \in Seq({x}) /\ Len(a) = 1 /\ Len(b) = 2
      /\ a[1] = x /\ b[1] = x /\ b[2] = x /\ x \in {x}
  OBVIOUS
<1> HIDE DEF a, b
<1>2. /\ Append(a, x) \in Seq({x}) /\ Len(Append(a, x)) = 2
      /\ Append(a, x)[1] = x /\ Append(a, x)[2] = x
  BY <1>1, AppendProperties
<1>3. \A i \in 1 .. 2 : Append(a, x)[i] = b[i]
  BY <1>1, <1>2
<1>4. Append(a, x) = b
  BY <1>1, <1>2, <1>3, SeqEqual
<1> QED
  BY <1>4 DEF a, b

LEMMA NoneLeft == ASSUME NEW m \in Nat, NEW n \in 0 .. m, ~ (n < m) PROVE n = m
OBVIOUS

LEMMA SkipStep ==
  ASSUME LexInv, state \notin Done, Skip, UNCHANGED text
  PROVE  LexInv'
<1>1. Going /\ mode = "skip"
  BY NotEnded DEF Skip
<1>2. ReaderOK /\ LexType /\ TokensRight /\ ~ Ended /\ Skipping /\ Spaces
  BY <1>1 DEF Going, LexInv, LexOK, Skipping
<1>3. NextRune /\ UNCHANGED parser
  BY DEF Skip
<1>4. state' = state /\ Found' = Found
  BY <1>3 DEF parser, Found
<1>5. /\ ReaderOK' /\ Pos' = IF Coming = None THEN Pos ELSE Pos + 1
      /\ Coming # None /\ Coming # Newline => line' <= LineOf(text, Pos + 1)
      /\ line' \in 1 .. Len(text) + 1 /\ line' <= LineOf(text, Pos' + 1)
  BY <1>2, <1>3, NextRuneReads
<1>6. /\ text \in Seq(Runes) /\ Len(text) \in Nat /\ Pos \in 0 .. Len(text)
      /\ Coming = None <=> Pos = Len(text)
      /\ Coming # None => Pos + 1 \in 1 .. Len(text) /\ Coming = text[Pos + 1] /\ Coming \in Runes
      /\ line \in 1 .. Len(text) + 1
  BY <1>2, Reader
<1>7. tokens \in Seq(Returned) /\ Len(tokens) \in Nat /\ start \in 0 .. Len(text) + 1
  BY <1>2 DEF LexType
<1>8. \A i \in 1 .. Len(tokens) : tokens[i].type # "eof"
  BY <1>2, BeginsIs
<1>9. CASE Coming = None
  <2> DEFINE t == [type |-> "eof", value |-> << >>, line |-> line]
             n == Len(tokens)
  <2>1. mode' = "idle" /\ tokens' = Append(tokens, t) /\ UNCHANGED <<atLineStart, start, value>>
    BY <1>9 DEF Skip, ReturnToken
  <2>2. t \in Returned
    BY <1>6 DEF Returned, TokenTypes
  <2>3. /\ tokens' \in Seq(Returned) /\ Len(tokens') = n + 1 /\ tokens'[n + 1] = t
        /\ \A i \in 1 .. n : tokens'[i] = tokens[i]
    <3> HIDE DEF t
    <3> QED
      BY <1>7, <2>1, <2>2
  <2>4. t.type = "eof"
    OBVIOUS
  <2> HIDE DEF t, n
  <2>5. LexType'
    BY <1>2, <2>1, <2>3 DEF LexType, Modes
  <2>6. Len(Found) = n /\ Closed(text)
    <3>1. Begins = Len(text) + 1
      BY <1>2, <1>9, BeginsAt
    <3>2. ~ Opens(text, Begins)
      BY <1>6, <3>1 DEF Opens
    <3>3. n \in 0 .. Len(Found) /\ ~ (n < Len(Found))
      BY <1>2, <3>2, BeginsIs DEF n
    <3>4. Len(Found) \in Nat /\ n \in Nat
      BY <1>2, <1>7, FoundRight DEF n
    <3> HIDE DEF n
    <3>5. n = Len(Found)
      BY <3>3, <3>4, NoneLeft
    <3>6. \A j \in Behind .. Len(text) : text[j] \in Space
      BY <1>2, <1>6, <1>9 DEF Spaces
    <3> QED
      BY <1>2, <3>5, <3>6, ClosedIs DEF Behind, n
  <2>7. TokensRight'
    <3> SUFFICES ASSUME NEW i \in 1 .. Len(tokens')
                 PROVE  IF tokens'[i].type = "eof"
                        THEN i = Len(tokens') /\ i = Len(Found) + 1
                        ELSE i <= Len(Found) /\ Matches(text, tokens'[i], Found[i])
      BY <1>4, <2>1, <2>6 DEF TokensRight
    <3>1. CASE i = n + 1
      BY <2>3, <2>4, <2>6, <3>1
    <3>2. CASE i # n + 1
      <4>1. i \in 1 .. n /\ tokens'[i] = tokens[i]
        BY <1>7, <2>3, <3>2 DEF n
      <4> QED
        BY <1>2, <1>8, <4>1 DEF TokensRight, n
    <3> QED
      BY <3>1, <3>2
  <2>8. Idle'
    <3>1. tokens' # << >> /\ tokens'[Len(tokens')].type = "eof"
      BY <1>7, <2>3, <2>4 DEF n
    <3> QED
      BY <3>1 DEF Idle, Ended
  <2> QED
    BY <1>5, <2>1, <2>5, <2>7, <2>8 DEF LexInv, LexOK
<1>10. CASE Coming # None
  <2>1. /\ start' = IF atLineStart THEN line' ELSE start
        /\ UNCHANGED tokens
        /\ IF Coming \in Space
           THEN atLineStart' = (Coming = Newline) /\ UNCHANGED <<mode, value>>
           ELSE mode' = "first" /\ value' = <<Coming>> /\ UNCHANGED atLineStart
    BY <1>10 DEF Skip
  <2>2. TokensRight'
    BY <1>2, <1>4, <1>8, <2>1 DEF TokensRight, Matches
  <2>3. LexType'
    <3>1. Coming \in Runes
      BY <1>6, <1>10
    <3>2. <<Coming>> \in Seq(Runes)
      BY <3>1
    <3>3. start' \in 0 .. Len(text) + 1
      BY <1>5, <1>6, <1>7, <2>1
    <3> QED
      BY <1>1, <1>2, <2>1, <3>2, <3>3 DEF LexType, Modes
  <2>4. /\ LineOf(text, Pos + 1) <= LineOf(text, Pos + 2)
        /\ LineOf(text, Pos + 1) \in Nat /\ LineOf(text, Pos + 2) \in Nat
    <3>1. Pos + 1 \in Nat \ {0} /\ Pos + 2 \in Nat \ {0} /\ Pos + 1 <= Pos + 2
      BY <1>6
    <3> QED
      BY <3>1, LineGrows, LineBounds
  <2>5. start <= LineOf(text, Pos + 1) /\ (atLineStart <=> AtLineStart(text, Pos + 1))
    <3>1. Pos < Len(text)
      BY <1>6, <1>10
    <3> QED
      BY <1>2, <3>1 DEF Skipping
  <2>6. Pos' = Pos + 1
    BY <1>5, <1>10
  <2>7. CASE Coming \in Space
    <3>1. Behind' = Behind /\ Spaces'
      <4>1. Behind' = Behind
        BY <1>4, <2>1 DEF Behind
      <4>2. Behind \in 1 .. Len(text) + 1
        BY <1>2, BeginsIs
      <4> QED
        BY <1>2, <1>6, <1>10, <2>6, <2>7, <4>1, <4>2 DEF Spaces
    <3>2. atLineStart' <=> AtLineStart(text, Pos + 2)
      <4>1. text[Pos + 1] = Coming /\ (Pos + 2) - 1 = Pos + 1 /\ Pos + 2 # 1
        BY <1>6, <1>10
      <4> QED
        BY <2>1, <2>7, <4>1 DEF AtLineStart, Space, Newline
    <3>3. start' <= LineOf(text, Pos + 2)
      BY <1>5, <1>6, <1>7, <2>1, <2>4, <2>5, <2>6
    <3>4. Pos' + 1 = Pos + 2
      BY <1>6, <2>6
    <3>5. Skipping'
      BY <3>1, <3>2, <3>3, <3>4 DEF Skipping, AtLineStart
    <3> QED
      BY <1>1, <1>5, <2>1, <2>2, <2>3, <2>7, <3>5 DEF LexInv, LexOK
  <2>8. CASE Coming \notin Space
    <3>1. Begins = Pos + 1 /\ Begins' = Begins
      BY <1>2, <1>4, <1>10, <2>1, <2>8, BeginsAt DEF Begins
    <3>2. start' <= LineOf(text, Begins)
      <4>1. Coming # Newline
        BY <2>8 DEF Space
      <4> QED
        BY <1>5, <1>6, <1>7, <1>10, <2>1, <2>4, <2>5, <3>1, <4>1
    <3>3. atLineStart' <=> AtLineStart(text, Begins)
      BY <2>1, <2>5, <2>8, <3>1
    <3>4. mode' = "first" /\ value' = <<text[Begins]>> /\ text[Begins] \notin Space
      BY <1>6, <1>10, <2>1, <2>8, <3>1
    <3>5. Scanned'
      <4>1. Begins' <= Pos' /\ Begins' = Pos'
        BY <1>6, <2>6, <3>1
      <4>2. text' = text
        OBVIOUS
      <4> QED
        BY <3>1, <3>2, <3>3, <3>4, <4>1, <4>2 DEF Scanned
    <3> QED
      BY <1>5, <2>2, <2>3, <3>4, <3>5 DEF LexInv, LexOK
  <2> QED
    BY <2>7, <2>8
<1> QED
  BY <1>9, <1>10

\* What the actions on a token's first rune begin with
LEMMA FirstRune ==
  ASSUME LexInv, state \notin Done, mode = "first"
  PROVE  /\ Going /\ Begins = Pos /\ value = <<text[Begins]>> /\ value[1] = text[Begins]
         /\ atLineStart <=> AtLineStart(text, Begins)
         /\ text[Begins] \in Runes \ Space /\ Begins \in 1 .. Len(text) /\ start <= LineOf(text, Begins)
         /\ ReaderOK /\ text \in Seq(Runes) /\ Len(text) \in Nat
         /\ value \in Seq(Runes) /\ value = SubSeq(text, Begins, Begins)
         /\ << >> = SubSeq(text, Begins + 1, Begins)
<1>1. Going
  BY NotEnded
<1>2. /\ ReaderOK /\ LexType /\ Scanned /\ text \in Seq(Runes) /\ Len(text) \in Nat
      /\ Begins \in 1 .. Len(text) /\ text[Begins] \in Runes
  BY <1>1, Underway
<1>3. /\ Begins = Pos /\ value = <<text[Begins]>> /\ text[Begins] \notin Space
      /\ atLineStart <=> AtLineStart(text, Begins)
      /\ start <= LineOf(text, Begins)
  BY <1>2 DEF Scanned
<1>4. value[1] = text[Begins]
  BY <1>3
<1>5. <<text[Begins]>> = SubSeq(text, Begins, Begins) /\ << >> = SubSeq(text, Begins + 1, Begins)
  BY <1>2, SubSeqOne
<1> QED
  BY <1>1, <1>2, <1>3, <1>4, <1>5 DEF LexType

\* A token's first rune decides its loop; nothing is read.
LEMMA FirstGoes ==
  ASSUME LexInv, state \notin Done, mode = "first", UNCHANGED <<text, parser, reader>>,
         NEW there, NEW v \in Seq(Runes), Into(there, v),
         there \in {"directive", "number", "string", "word"},
         there = "directive" => OpensDirective(text, Begins) /\ v = << >>,
         there = "number" => text[Begins] \in Digits /\ v = value,
         there = "word" => text[Begins] \in Letters /\ v = value,
         there = "string" => text[Begins] = Quote /\ v = << >>
  PROVE  LexInv'
<1>1. /\ Going /\ Begins = Pos /\ Begins \in 1 .. Len(text) /\ start <= LineOf(text, Begins)
      /\ text[Begins] \in Runes \ Space /\ ReaderOK
      /\ value = SubSeq(text, Begins, Begins) /\ << >> = SubSeq(text, Begins + 1, Begins)
  BY FirstRune
<1>2. ReaderOK' /\ Pos' = Pos
  BY <1>1, Unread
<1>3. mode' = there /\ value' = v /\ UNCHANGED <<atLineStart, start, tokens, state>>
  BY DEF Into, parser
<1>4. Begins' = Begins
  BY <1>3 DEF Begins, Found
<1>5. \A class : text[Begins] \in class => \A j \in Begins' .. Pos' : text[j] \in class
  BY <1>1, <1>2, <1>4
<1>6. text[Begins] # Newline
  BY <1>1 DEF Space
<1>7. \A j \in Ends(text, Begins) : j > Pos
  BY <1>1 DEF Ends
<1>8. ~ Escaped(text, Begins, Pos + 1)
  BY <1>1, EscapedNext
<1>9. Scanned'
  <2>1. Begins' <= Pos' /\ start' <= LineOf(text', Begins')
    BY <1>1, <1>2, <1>3, <1>4
  <2>2. CASE there = "directive"
    BY <1>1, <1>2, <1>3, <1>4, <1>5, <1>6, <2>1, <2>2 DEF Scanned, All
  <2>3. CASE there = "number"
    BY <1>1, <1>2, <1>3, <1>4, <1>5, <2>1, <2>3 DEF Scanned, All
  <2>4. CASE there = "word"
    BY <1>1, <1>2, <1>3, <1>4, <1>5, <2>1, <2>4 DEF Scanned, All
  <2>5. CASE there = "string"
    <3>1. text'[Begins'] = Quote /\ \A j \in Ends(text', Begins') : j > Pos'
      BY <1>2, <1>4, <1>7, <2>5
    <3>2. ~ Escaped(text', Begins', Pos' + 1)
      BY <1>2, <1>4, <1>8
    <3>3. value' = SubSeq(text', Begins' + 1, Pos')
      BY <1>1, <1>2, <1>3, <1>4, <2>5
    <3> QED
      BY <1>3, <2>1, <2>5, <3>1, <3>2, <3>3 DEF Scanned
  <2> QED
    BY <2>2, <2>3, <2>4, <2>5
<1> QED
  BY <1>1, <1>2, <1>3, <1>9, GoesOn DEF Modes

\* An operator is a rune, and its token ends with it.
LEMMA FirstReturns ==
  ASSUME LexInv, state \notin Done, mode = "first", UNCHANGED <<text, parser>>, ReaderOK',
         Pos' = Pos, ReturnToken("operator", value, start),
         ~ OpensDirective(text, Begins), ~ OpensComment(text, Begins),
         text[Begins] \notin Letters \cup Digits \cup {Quote}
  PROVE  LexInv'
<1>1. /\ Going /\ Begins = Pos /\ Begins \in 1 .. Len(text)
      /\ text[Begins] \in Runes \ Space /\ Len(text) \in Nat
      /\ value = SubSeq(text, Begins, Begins)
  BY FirstRune
<1>2. TokenAt(text, Begins) = [type |-> "operator", value |-> SubSeq(text, Begins, Begins),
                               at |-> Begins, end |-> Begins]
  BY TokenCases
<1>3. Opens(text, Begins)
  BY <1>1 DEF Opens
<1>4. AtLineStart(text, Pos + 1)
  <2>1. (Pos + 1) - 1 = Begins
    BY <1>1
  <2> QED
    BY <1>1, <2>1 DEF AtLineStart, Space
<1>5. "operator" = TokenAt(text, Begins).type /\ value = TokenAt(text, Begins).value
      /\ TokenAt(text, Begins).end = Begins
  BY <1>1, <1>2
<1>6. /\ Pos \in Nat /\ Begins \in Nat /\ Begins <= Pos /\ Pos <= Len(text)
      /\ \A j \in Begins + 1 .. Pos : text[j] \in Space
  BY <1>1
<1>7. UNCHANGED <<text, state>> /\ mode \notin {"idle", "skip"}
  BY DEF parser
<1> QED
  BY <1>1, <1>3, <1>4, <1>5, <1>6, <1>7, ReturnsToken

LEMMA FirstStep ==
  ASSUME LexInv, state \notin Done, UNCHANGED text,
         DirectiveFirst \/ SlashFirst \/ NumberFirst \/ StringFirst \/ WordFirst \/ SignFirst
  PROVE  LexInv'
<1>1. mode = "first" /\ UNCHANGED parser
  BY DEF DirectiveFirst, SlashFirst, NumberFirst, StringFirst, WordFirst, SignFirst, First
<1>2. /\ Going /\ Begins = Pos /\ value[1] = text[Begins] /\ value \in Seq(Runes)
      /\ atLineStart <=> AtLineStart(text, Begins)
      /\ text[Begins] \in Runes \ Space /\ Begins \in 1 .. Len(text)
      /\ ReaderOK /\ text \in Seq(Runes) /\ Len(text) \in Nat
      /\ start <= LineOf(text, Begins) /\ value = <<text[Begins]>>
  BY <1>1, FirstRune
<1>3. CASE DirectiveFirst
  <2>1. value[1] = "#" /\ atLineStart /\ Into("directive", << >>) /\ UNCHANGED reader
    BY <1>3 DEF DirectiveFirst, First
  <2>2. OpensDirective(text, Begins)
    BY <1>2, <2>1, OpensByFlag
  <2>3. << >> \in Seq(Runes)
    OBVIOUS
  <2> QED
    BY <1>1, <2>1, <2>2, <2>3, FirstGoes
<1>4. CASE NumberFirst
  <2>1. text[Begins] \in Digits /\ Into("number", value) /\ UNCHANGED reader
    BY <1>2, <1>4 DEF NumberFirst, First
  <2> QED
    BY <1>1, <1>2, <2>1, FirstGoes
<1>5. CASE StringFirst
  <2>1. text[Begins] = Quote /\ Into("string", << >>) /\ UNCHANGED reader
    BY <1>2, <1>5 DEF StringFirst, First
  <2>2. << >> \in Seq(Runes)
    OBVIOUS
  <2> QED
    BY <1>1, <2>1, <2>2, FirstGoes
<1>6. CASE WordFirst
  <2>1. text[Begins] \in Letters /\ Into("word", value) /\ UNCHANGED reader
    BY <1>2, <1>6 DEF WordFirst, First
  <2> QED
    BY <1>1, <1>2, <2>1, FirstGoes
<1>7. CASE SignFirst
  <2>1. /\ text[Begins] \in Signs \cup {Backslash} /\ text[Begins] # "/"
        /\ text[Begins] = "#" => ~ atLineStart
        /\ ReturnToken("operator", value, start) /\ UNCHANGED reader
    BY <1>2, <1>7 DEF SignFirst, First
  <2>2. text[Begins] \notin Letters \cup Digits \cup {Quote}
    BY <2>1 DEF Signs, Backslash, Letters, Digits, Quote
  <2>3. ~ OpensDirective(text, Begins) /\ ~ OpensComment(text, Begins)
    BY <1>2, <2>1, OpensByFlag DEF OpensComment
  <2>4. ReaderOK' /\ Pos' = Pos
    BY <1>2, <2>1, Unread
  <2> QED
    BY <1>1, <2>1, <2>2, <2>3, <2>4, FirstReturns
<1>8. CASE SlashFirst /\ Coming = "/"
  <2>1. /\ text[Begins] = "/" /\ Take
        /\ mode' = "comment" /\ value' = <<"/", "/">> /\ UNCHANGED <<atLineStart, start, tokens, state>>
    BY <1>1, <1>2, <1>8 DEF SlashFirst, First, Into, parser
  <2>2. /\ Coming # None /\ Pos + 1 \in 1 .. Len(text) /\ text[Pos + 1] = "/"
    <3>1. "/" \in Runes
      BY DEF Runes, Signs
    <3> QED
      BY <1>2, <1>8, <3>1, ParserAssumption, Reader
  <2>3. ReaderOK' /\ Pos' = Pos + 1
    BY <1>2, <2>1, <2>2, TakeReads
  <2>4. Begins' = Begins
    BY <2>1 DEF Begins, Found
  <2>5. OpensComment(text, Begins)
    BY <1>2, <2>1, <2>2 DEF OpensComment
  <2>6. value' = SubSeq(text, Begins, Pos + 1)
    <3>1. SubSeq(text, Begins, Begins) = <<"/">>
      BY <1>2, <2>1, SubSeqOne
    <3>2. Append(SubSeq(text, Begins, Begins), text[Begins + 1]) = SubSeq(text, Begins, Begins + 1)
      <4>1. Begins \in Begins - 1 .. Len(text) - 1
        BY <1>2, <2>2
      <4> QED
        BY <1>2, <4>1, SubSeqMore
    <3>3. Append(<<"/">>, "/") = <<"/", "/">>
      BY AppendTwo
    <3> QED
      BY <1>2, <2>1, <2>2, <3>1, <3>2, <3>3
  <2>7. \A j \in Begins .. Pos + 1 : text[j] \in Runes \ {Newline}
    <3>1. "/" \in Runes \ {Newline}
      BY DEF Runes, Signs, Newline
    <3>2. \A j \in Begins .. Pos + 1 : j = Begins \/ j = Pos + 1
      BY <1>2
    <3> QED
      BY <2>1, <2>2, <3>1, <3>2
  <2>8. Scanned'
    <3>1. Begins' <= Pos' /\ start' <= LineOf(text', Begins')
      BY <1>2, <2>1, <2>3, <2>4
    <3> QED
      BY <2>1, <2>3, <2>4, <2>5, <2>6, <2>7, <3>1 DEF Scanned, All
  <2>9. value' \in Seq(Runes)
    <3>1. "/" \in Runes
      BY DEF Runes, Signs
    <3> QED
      BY <2>1, <3>1
  <2> QED
    BY <1>1, <1>2, <2>1, <2>3, <2>8, <2>9, GoesOn DEF Modes
<1>9. CASE SlashFirst /\ Coming # "/"
  <2>1. text[Begins] = "/" /\ PeekRune /\ ReturnToken("operator", value, start)
    BY <1>2, <1>9 DEF SlashFirst, First
  <2>2. ReaderOK' /\ Pos' = Pos
    BY <1>2, <2>1, PeekReads
  <2>3. ~ OpensDirective(text, Begins) /\ ~ OpensComment(text, Begins)
    BY <1>2, <1>9, <2>1, Reader DEF OpensDirective, OpensComment
  <2>4. text[Begins] \notin Letters \cup Digits \cup {Quote}
    BY <2>1 DEF Letters, Digits, Quote
  <2> QED
    BY <1>1, <2>1, <2>2, <2>3, <2>4, FirstReturns
<1> QED
  BY <1>3, <1>4, <1>5, <1>6, <1>7, <1>8, <1>9

\* Another rune of the token
LEMMA Grows ==
  ASSUME LexInv, state \notin Done, Coming # None, ReaderOK', Pos' = Pos + 1,
         UNCHANGED <<text, state, tokens, start, atLineStart>>, value' = Append(value, Coming),
         \/ mode = "word" /\ mode' = mode /\ Coming \in Letters \cup Digits
         \/ mode = "number" /\ mode' = mode /\ Coming \in Digits \cup {"."}
         \/ mode \in {"comment", "directive", "params"} /\ mode' = mode /\ Coming # Newline
         \/ /\ mode = "string" /\ mode' \in {"string", "escape"} /\ Coming # Quote
            /\ mode' = "escape" <=> Coming = Backslash
         \/ mode = "escape" /\ mode' = "string"
  PROVE  LexInv'
<1>1. /\ Going /\ mode \notin {"idle", "skip", "first"}
      /\ mode' \in Modes \ {"idle", "skip", "first"}
  BY NotEnded DEF Modes
<1>2. /\ ReaderOK /\ LexType /\ Scanned /\ text \in Seq(Runes) /\ Len(text) \in Nat
      /\ Pos \in 0 .. Len(text) /\ Begins \in 1 .. Len(text) /\ Begins <= Pos
  BY <1>1, Underway
<1>3. Pos + 1 \in 1 .. Len(text) /\ Coming = text[Pos + 1] /\ Coming \in Runes
  BY <1>2, Reader
<1>4. Begins' = Begins
  BY DEF Begins, Found
<1>5. ASSUME NEW class, All(class), Coming \in class
      PROVE  \A j \in Begins' .. Pos' : text'[j] \in class
  <2> TAKE j \in Begins' .. Pos'
  <2>1. j = Pos + 1 \/ j \in Begins .. Pos
    BY <1>2, <1>4
  <2> QED
    BY <1>3, <1>5, <2>1 DEF All
<1>6. /\ Append(SubSeq(text, Begins, Pos), Coming) = SubSeq(text, Begins, Pos + 1)
      /\ Append(SubSeq(text, Begins + 1, Pos), Coming) = SubSeq(text, Begins + 1, Pos + 1)
  <2>1. /\ Pos \in Begins - 1 .. Len(text) - 1 /\ Begins + 1 \in 1 .. Len(text)
        /\ Pos \in (Begins + 1) - 1 .. Len(text) - 1
    BY <1>2, <1>3
  <2>2. Append(SubSeq(text, Begins, Pos), text[Pos + 1]) = SubSeq(text, Begins, Pos + 1)
    BY <1>2, <2>1, SubSeqMore
  <2>3. Append(SubSeq(text, Begins + 1, Pos), text[Pos + 1]) = SubSeq(text, Begins + 1, Pos + 1)
    BY <1>2, <2>1, SubSeqMore
  <2> QED
    BY <1>3, <2>2, <2>3
<1>7. Begins' <= Pos' /\ start' <= LineOf(text', Begins')
  BY <1>2, <1>4 DEF Scanned
<1>8. value' \in Seq(Runes)
  BY <1>2, <1>3, AppendProperties DEF LexType
<1>9. Scanned'
  <2>1. CASE mode = "word" /\ mode' = mode /\ Coming \in Letters \cup Digits
    <3>1. text[Begins] \in Letters /\ All(Letters \cup Digits) /\ value = SubSeq(text, Begins, Pos)
      BY <1>2, <2>1 DEF Scanned
    <3>2. \A j \in Begins' .. Pos' : text'[j] \in Letters \cup Digits
      BY <1>5, <2>1, <3>1
    <3> QED
      BY <1>4, <1>6, <1>7, <2>1, <3>1, <3>2 DEF Scanned, All
  <2>2. CASE mode = "number" /\ mode' = mode /\ Coming \in Digits \cup {"."}
    <3>1. text[Begins] \in Digits /\ All(Digits \cup {"."}) /\ value = SubSeq(text, Begins, Pos)
      BY <1>2, <2>2 DEF Scanned
    <3>2. \A j \in Begins' .. Pos' : text'[j] \in Digits \cup {"."}
      BY <1>5, <2>2, <3>1
    <3> QED
      BY <1>4, <1>6, <1>7, <2>2, <3>1, <3>2 DEF Scanned, All
  <2>3. CASE mode \in {"comment", "directive", "params"} /\ mode' = mode /\ Coming # Newline
    <3>1. /\ All(Runes \ {Newline})
          /\ mode = "comment" => OpensComment(text, Begins) /\ value = SubSeq(text, Begins, Pos)
          /\ mode # "comment" => OpensDirective(text, Begins) /\ value = SubSeq(text, Begins + 1, Pos)
      BY <1>2, <2>3 DEF Scanned
    <3>2. \A j \in Begins' .. Pos' : text'[j] \in Runes \ {Newline}
      BY <1>3, <1>5, <2>3, <3>1
    <3> QED
      BY <1>4, <1>6, <1>7, <2>3, <3>1, <3>2 DEF Scanned, All
  <2>4. CASE mode \in {"string", "escape"}
    <3>1. /\ text[Begins] = Quote /\ \A j \in Ends(text, Begins) : j > Pos
          /\ value = SubSeq(text, Begins + 1, Pos)
          /\ mode = "escape" <=> Escaped(text, Begins, Pos + 1)
      BY <1>2, <2>4 DEF Scanned
    <3>2. Escaped(text, Begins, Pos' + 1) <=> text[Pos + 1] = Backslash /\ ~ Escaped(text, Begins, Pos + 1)
      <4>1. Begins \in Nat /\ Pos + 1 \in Nat /\ Pos + 1 > Begins
        BY <1>2
      <4> QED
        BY <4>1, EscapedNext
    <3>3. mode' = "escape" <=> Escaped(text, Begins, Pos' + 1)
      BY <1>3, <2>4, <3>1, <3>2
    <3>4. Pos + 1 \notin Ends(text, Begins)
      BY <1>3, <2>4, <3>1 DEF Ends
    <3>5. \A j \in Ends(text, Begins) : j > Pos + 1
      <4> TAKE j \in Ends(text, Begins)
      <4>1. j \in Begins + 1 .. Len(text) /\ j > Pos /\ j # Pos + 1
        BY <3>1, <3>4 DEF Ends
      <4> QED
        BY <1>2, <4>1
    <3> QED
      BY <1>4, <1>6, <1>7, <2>4, <3>1, <3>3, <3>5 DEF Scanned
  <2> QED
    BY <2>1, <2>2, <2>3, <2>4
<1> QED
  BY <1>1, <1>8, <1>9, GoesOn

\* The token that a loop has read: what it returns, and its end
LEMMA LoopReturns ==
  ASSUME LexInv, state \notin Done, mode \notin {"idle", "skip", "first"},
         UNCHANGED <<text, state>>, ReaderOK', NEW type, ReturnToken(type, value, start),
         NEW p \in Nat, Pos' = p, p = Pos \/ (p = Pos + 1 /\ Coming # None),
         \/ mode = "word" /\ type = WordType(value) /\ p = Pos /\ Coming \notin Letters \cup Digits
         \/ mode = "number" /\ type = "number" /\ p = Pos /\ Coming \notin Digits \cup {"."}
         \/ /\ \/ mode = "comment" /\ type = "comment"
               \/ mode \in {"directive", "params"} /\ type = "directive"
            /\ Coming \in {Newline, None} /\ p = IF Coming = None THEN Pos ELSE Pos + 1
         \/ mode = "string" /\ type = "string" /\ p = Pos + 1 /\ Coming = Quote
  PROVE  LexInv'
<1>1. Going /\ mode \notin {"idle", "skip"}
  BY NotEnded
<1>2. /\ ReaderOK /\ Scanned /\ text \in Seq(Runes) /\ Len(text) \in Nat
      /\ Pos \in 0 .. Len(text) /\ Begins \in 1 .. Len(text) /\ Begins <= Pos
      /\ text[Begins] \notin Space
      /\ Opens(text, Begins) <=> ~ (text[Begins] = Quote /\ Closing(text, Begins) = 0)
  BY <1>1, Underway
<1>3. /\ Coming = None <=> Pos = Len(text)
      /\ Coming # None => Pos + 1 \in 1 .. Len(text) /\ Coming = text[Pos + 1] /\ Coming \in Runes
      /\ Pos < Len(text) => Coming = text[Pos + 1]
  BY <1>2, Reader
<1> DEFINE tok == TokenAt(text, Begins)
<1>4. ASSUME NEW e \in Nat, Opens(text, Begins), tok.type = type, tok.value = value, tok.end = e, e <= p,
             \A j \in e + 1 .. p : text[j] \in Space, text[p] # " "
      PROVE  LexInv'
  <2>1. AtLineStart(text, p + 1)
    <3>1. (p + 1) - 1 = p
      OBVIOUS
    <3> QED
      BY <1>4, <3>1 DEF AtLineStart
  <2>2. p <= Len(text)
    BY <1>2, <1>3
  <2> QED
    BY <1>1, <1>4, <2>1, <2>2, ReturnsToken
<1>5. ASSUME NEW class, All(class), Coming \notin class
      PROVE  RunEnd(text, Begins, class) = Pos
  <2>1. Pos \in Begins - 1 .. Len(text) /\ Begins \in 1 .. Len(text) + 1
    BY <1>2
  <2>2. \A j \in Begins .. Pos : text[j] \in class
    BY <1>5 DEF All
  <2>3. Pos < Len(text) => text[Pos + 1] \notin class
    BY <1>3, <1>5
  <2> QED
    BY <1>2, <2>1, <2>2, <2>3, RunEndAt
<1>6. \A class : All(class) => text[Pos] \in class
  BY <1>2 DEF All
<1>7. Pos \in Nat /\ Pos + 1 \in Nat /\ \A j \in Pos + 1 .. Pos : text[j] \in Space
  BY <1>2
<1>8. CASE mode = "word" /\ type = WordType(value) /\ p = Pos /\ Coming \notin Letters \cup Digits
  <2>1. text[Begins] \in Letters /\ All(Letters \cup Digits) /\ value = SubSeq(text, Begins, Pos)
    BY <1>2, <1>8 DEF Scanned
  <2>2. RunEnd(text, Begins, Letters \cup Digits) = Pos
    BY <1>5, <1>8, <2>1
  <2>3. tok = [type |-> type, value |-> value, at |-> Begins, end |-> Pos]
    BY <1>8, <2>1, <2>2, TokenCases
  <2>4. Opens(text, Begins)
    BY <1>2, <2>1 DEF Letters, Quote
  <2>5. text[p] # " "
    BY <1>6, <1>8, <2>1 DEF Letters, Digits
  <2>6. tok.type = type /\ tok.value = value /\ tok.end = Pos
    BY <2>3
  <2> HIDE DEF tok
  <2>7. Pos <= p /\ \A j \in Pos + 1 .. p : text[j] \in Space
    BY <1>7, <1>8
  <2> QED
    BY <1>4, <1>7, <2>4, <2>5, <2>6, <2>7
<1>9. CASE mode = "number" /\ type = "number" /\ p = Pos /\ Coming \notin Digits \cup {"."}
  <2>1. text[Begins] \in Digits /\ All(Digits \cup {"."}) /\ value = SubSeq(text, Begins, Pos)
    BY <1>2, <1>9 DEF Scanned
  <2>2. RunEnd(text, Begins, Digits \cup {"."}) = Pos
    BY <1>5, <1>9, <2>1
  <2>3. tok = [type |-> type, value |-> value, at |-> Begins, end |-> Pos]
    BY <1>9, <2>1, <2>2, TokenCases
  <2>4. Opens(text, Begins)
    BY <1>2, <2>1 DEF Digits, Quote
  <2>5. text[p] # " "
    BY <1>6, <1>9, <2>1 DEF Digits
  <2>6. tok.type = type /\ tok.value = value /\ tok.end = Pos
    BY <2>3
  <2> HIDE DEF tok
  <2>7. Pos <= p /\ \A j \in Pos + 1 .. p : text[j] \in Space
    BY <1>7, <1>9
  <2> QED
    BY <1>4, <1>7, <2>4, <2>5, <2>6, <2>7
<1>10. CASE /\ \/ mode = "comment" /\ type = "comment"
               \/ mode \in {"directive", "params"} /\ type = "directive"
            /\ Coming \in {Newline, None} /\ p = IF Coming = None THEN Pos ELSE Pos + 1
  <2>1. All(Runes \ {Newline})
    BY <1>2, <1>10 DEF Scanned
  <2>2. Coming \notin Runes \ {Newline}
    BY <1>10, ParserAssumption
  <2>3. RunEnd(text, Begins, Runes \ {Newline}) = Pos
    BY <1>5, <2>1, <2>2
  <2>4. /\ type = "comment" => OpensComment(text, Begins) /\ value = SubSeq(text, Begins, Pos)
        /\ type = "directive" => OpensDirective(text, Begins) /\ value = SubSeq(text, Begins + 1, Pos)
        /\ type \in {"comment", "directive"}
    BY <1>2, <1>10 DEF Scanned
  <2>5. tok = [type |-> type, value |-> value, at |-> Begins, end |-> Pos]
    BY <2>3, <2>4, TokenCases
  <2>6. Opens(text, Begins)
    BY <1>2, <2>4 DEF OpensComment, OpensDirective, Quote
  <2>7. tok.type = type /\ tok.value = value /\ tok.end = Pos
    BY <2>5
  <2> HIDE DEF tok
  <2>8. CASE Coming = None
    <3>1. p = Len(text) /\ p = Pos
      BY <1>3, <1>10, <2>8
    <3>2. Pos' = p /\ p <= Len(text) /\ ~ (p < Len(text))
      BY <1>2, <3>1
    <3>3. UNCHANGED <<text, state>> /\ \A j \in Pos + 1 .. p : text[j] \in Space
      BY <1>7, <3>1
    <3>4. p < Len(text) => AtLineStart(text, p + 1)
      BY <3>2
    <3>5. Pos <= p /\ tok.end = Pos
      BY <1>2, <2>7, <3>1
    <3> QED
      BY <1>1, <1>7, <2>6, <2>7, <3>2, <3>3, <3>4, <3>5, ReturnsToken DEF tok
  <2>9. CASE Coming = Newline
    <3>1. p = Pos + 1 /\ text[p] = Newline
      BY <1>3, <1>10, <2>9, ParserAssumption DEF Runes, Space
    <3>2. \A j \in Pos + 1 .. p : text[j] \in Space
      <4>1. \A j \in Pos + 1 .. p : j = p
        BY <1>7, <3>1
      <4> QED
        BY <3>1, <4>1 DEF Space
    <3>3. text[p] # " " /\ Pos <= p
      BY <1>7, <3>1 DEF Newline
    <3> QED
      BY <1>4, <1>7, <2>6, <2>7, <3>2, <3>3
  <2> QED
    BY <1>10, <2>8, <2>9
<1>11. CASE mode = "string" /\ type = "string" /\ p = Pos + 1 /\ Coming = Quote
  <2>1. /\ text[Begins] = Quote /\ \A j \in Ends(text, Begins) : j > Pos
        /\ value = SubSeq(text, Begins + 1, Pos)
        /\ ~ Escaped(text, Begins, Pos + 1)
    BY <1>2, <1>11 DEF Scanned
  <2>2. Coming # None
    BY <1>11, ParserAssumption DEF Runes
  <2>3. Pos + 1 \in Ends(text, Begins)
    BY <1>2, <1>3, <1>11, <2>1, <2>2 DEF Ends
  <2>4. /\ Closing(text, Begins) \in Ends(text, Begins)
        /\ \A j \in Ends(text, Begins) : Closing(text, Begins) <= j
    BY <1>2, <2>3, ClosingIs
  <2>5. Closing(text, Begins) = Pos + 1
    <3>1. Closing(text, Begins) \in Begins + 1 .. Len(text)
      BY <2>4 DEF Ends
    <3>2. Closing(text, Begins) > Pos /\ Closing(text, Begins) <= Pos + 1
      BY <2>1, <2>3, <2>4
    <3> QED
      BY <1>2, <3>1, <3>2
  <2>6. tok = [type |-> "string", value |-> SubSeq(text, Begins + 1, Closing(text, Begins) - 1),
               at |-> Begins, end |-> Closing(text, Begins)]
    BY <2>1, TokenCases
  <2>7. (Pos + 1) - 1 = Pos /\ Pos + 1 # 0
    BY <1>2
  <2>8. tok.type = type /\ tok.value = value /\ tok.end = Pos + 1
    <3> HIDE DEF tok
    <3>1. PICK v : v = SubSeq(text, Begins + 1, Closing(text, Begins) - 1)
      OBVIOUS
    <3>2. PICK c : c = Closing(text, Begins)
      OBVIOUS
    <3>3. tok = [type |-> "string", value |-> v, at |-> Begins, end |-> c]
      BY <2>6, <3>1, <3>2
    <3>4. tok.type = "string" /\ tok.value = v /\ tok.end = c
      BY <3>3
    <3>5. v = value
      BY <2>1, <2>5, <2>7, <3>1
    <3> QED
      BY <1>11, <2>5, <3>2, <3>4, <3>5
  <2> HIDE DEF tok
  <2>9. Opens(text, Begins)
    BY <1>2, <2>5, <2>7
  <2>10. text[p] # " "
    BY <1>3, <1>11, <2>2 DEF Quote
  <2>11. Pos + 1 <= p /\ \A j \in (Pos + 1) + 1 .. p : text[j] \in Space
    BY <1>2, <1>11
  <2> QED
    BY <1>4, <1>7, <2>8, <2>9, <2>10, <2>11
<1> QED
  BY <1>8, <1>9, <1>10, <1>11

LEMMA WordOrNumberStep ==
  ASSUME LexInv, state \notin Done, Word \/ Number, UNCHANGED text
  PROVE  LexInv'
<1>1. ReaderOK
  BY DEF LexInv
<1>2. Pos \in Nat
  BY <1>1, Reader
<1> DEFINE class == IF mode = "word" THEN Letters \cup Digits ELSE Digits \cup {"."}
<1>3. mode \in {"word", "number"} /\ UNCHANGED state
  BY DEF Word, Number, More, parser
<1>4. CASE Coming \in class
  <2>1. Take /\ mode' = mode /\ value' = Append(value, Coming) /\ UNCHANGED <<atLineStart, start, tokens>>
    BY <1>3, <1>4 DEF Word, Number, More, Into
  <2>2. Coming # None
    BY <1>4, ParserAssumption DEF Runes, Signs
  <2>3. ReaderOK' /\ Pos' = Pos + 1
    BY <1>1, <2>1, <2>2, TakeReads
  <2> QED
    BY <1>3, <1>4, <2>1, <2>2, <2>3, Grows
<1>5. CASE Coming \notin class
  <2> DEFINE type == IF mode = "word" THEN WordType(value) ELSE "number"
  <2>1. PeekRune /\ ReturnToken(type, value, start)
    BY <1>3, <1>5 DEF Word, Number
  <2>2. ReaderOK' /\ Pos' = Pos
    BY <1>1, <2>1, PeekReads
  <2>3. /\ mode = "word" => type = WordType(value) /\ Coming \notin Letters \cup Digits
        /\ mode = "number" => type = "number" /\ Coming \notin Digits \cup {"."}
    BY <1>5
  <2> HIDE DEF type
  <2>4. UNCHANGED <<text, state>> /\ mode \notin {"idle", "skip", "first"}
    BY <1>3
  <2> QED
    BY <1>2, <1>3, <2>1, <2>2, <2>3, <2>4, LoopReturns
<1> QED
  BY <1>4, <1>5

LEMMA DirectiveStep ==
  ASSUME LexInv, state \notin Done, Directive, UNCHANGED text
  PROVE  LexInv'
<1>1. ReaderOK /\ mode = "directive" /\ UNCHANGED state
  BY DEF LexInv, Directive, More, parser
<1>2. CASE Coming \notin Space \cup {None}
  <2>1. Take /\ mode' = mode /\ value' = Append(value, Coming) /\ UNCHANGED <<atLineStart, start, tokens>>
    BY <1>2 DEF Directive, More, Into
  <2>2. Coming # None /\ Coming # Newline
    BY <1>2 DEF Space
  <2>3. ReaderOK' /\ Pos' = Pos + 1
    BY <1>1, <2>1, <2>2, TakeReads
  <2> QED
    BY <1>1, <2>1, <2>2, <2>3, Grows
<1>3. CASE Coming \in Space \cup {None}
  <2>1. PeekRune /\ mode' = "params" /\ UNCHANGED <<value, atLineStart, start, tokens>>
    BY <1>3 DEF Directive, Into
  <2>2. ReaderOK' /\ Pos' = Pos
    BY <1>1, <2>1, PeekReads
  <2>3. Going /\ mode \notin {"idle", "skip"}
    BY <1>1, NotEnded
  <2>4. Scanned /\ LexType
    BY <2>3, Underway
  <2>5. Begins' = Begins
    BY <2>1 DEF Begins, Found
  <2>6. Scanned'
    BY <1>1, <2>1, <2>2, <2>4, <2>5 DEF Scanned, All
  <2>7. mode' \in Modes \ {"idle", "skip"} /\ value' \in Seq(Runes)
    BY <2>1, <2>4 DEF Modes, LexType
  <2> QED
    BY <1>1, <2>1, <2>2, <2>3, <2>6, <2>7, GoesOn
<1> QED
  BY <1>2, <1>3

LEMMA LineStep ==
  ASSUME LexInv, state \notin Done, Params \/ Comment, UNCHANGED text
  PROVE  LexInv'
<1>1. ReaderOK /\ mode \in {"params", "comment"} /\ UNCHANGED state
  BY DEF LexInv, Params, Comment, More, parser
<1>2. Pos \in Nat /\ Pos + 1 \in Nat
  BY <1>1, Reader
<1>3. Newline # None
  BY ParserAssumption DEF Runes, Space
<1>4. CASE Coming \notin {Newline, None}
  <2>1. /\ mode = "params" => Take
        /\ mode = "comment" => NextRune
        /\ mode' = mode /\ value' = Append(value, Coming) /\ UNCHANGED <<atLineStart, start, tokens>>
    BY <1>4 DEF Params, Comment, More, Into
  <2>2. ReaderOK' /\ Pos' = Pos + 1
    BY <1>1, <1>4, <2>1, TakeReads, NextRuneReads
  <2> QED
    BY <1>1, <1>4, <2>1, <2>2, Grows
<1>5. CASE Coming \in {Newline, None}
  <2> DEFINE type == IF mode = "params" THEN "directive" ELSE "comment"
             p == IF Coming = None THEN Pos ELSE Pos + 1
  <2>1. /\ mode = "params" => IF Coming = Newline THEN Take ELSE UNCHANGED reader
        /\ mode = "comment" => NextRune
        /\ ReturnToken(type, value, start)
    BY <1>5 DEF Params, Comment
  <2>2. ReaderOK' /\ Pos' = p
    <3>1. CASE mode = "comment"
      BY <1>1, <2>1, <3>1, NextRuneReads
    <3>2. CASE mode = "params" /\ Coming = Newline
      BY <1>1, <1>3, <2>1, <3>2, TakeReads
    <3>3. CASE mode = "params" /\ Coming = None
      BY <1>1, <1>3, <2>1, <3>3, Unread
    <3> QED
      BY <1>1, <1>5, <3>1, <3>2, <3>3
  <2>3. \/ mode = "comment" /\ type = "comment"
        \/ mode \in {"directive", "params"} /\ type = "directive"
    BY <1>1
  <2>4. p \in Nat /\ (p = Pos \/ (p = Pos + 1 /\ Coming # None)) /\ p = IF Coming = None THEN Pos ELSE Pos + 1
    BY <1>2
  <2>5. UNCHANGED <<text, state>> /\ mode \notin {"idle", "skip", "first"}
    BY <1>1
  <2> HIDE DEF type, p
  <2> QED
    BY <1>5, <2>1, <2>2, <2>3, <2>4, <2>5, LoopReturns
<1> QED
  BY <1>4, <1>5

\* A string that the end of the text leaves open
LEMMA ErrorStep ==
  ASSUME LexInv, state \notin Done, mode \in {"string", "escape"}, NextRune, Coming = None, Error,
         UNCHANGED text
  PROVE  LexInv' /\ ~ Closed(text)
<1>1. Going /\ mode \notin {"idle", "skip"}
  BY NotEnded
<1>2. /\ ReaderOK /\ LexType /\ TokensRight /\ Scanned /\ ~ Ended
      /\ Len(text) \in Nat /\ Begins \in 1 .. Len(text) /\ text[Begins] \notin Space
      /\ text \in Seq(Runes)
      /\ Opens(text, Begins) <=> ~ (text[Begins] = Quote /\ Closing(text, Begins) = 0)
  BY <1>1, Underway DEF Going
<1>3. /\ text[Begins] = Quote /\ \A j \in Ends(text, Begins) : j > Pos
  BY <1>2 DEF Scanned
<1>4. Pos = Len(text)
  BY <1>2, Reader
<1>5. Ends(text, Begins) = {}
  <2> SUFFICES ASSUME NEW j \in Ends(text, Begins) PROVE FALSE
    OBVIOUS
  <2>1. j \in Begins + 1 .. Len(text) /\ j > Len(text)
    BY <1>3, <1>4 DEF Ends
  <2> QED
    BY <1>2, <2>1
<1>6. ~ Opens(text, Begins)
  BY <1>2, <1>3, <1>5, ClosingIs
<1>7. Len(tokens) = Len(Found)
  <2>1. Len(tokens) \in 0 .. Len(Found) /\ ~ (Len(tokens) < Len(Found))
    BY <1>2, <1>6, BeginsIs
  <2>2. Len(Found) \in Nat
    BY <1>2, FoundRight
  <2> QED
    BY <2>1, <2>2, NoneLeft
<1>8. Begins \in Behind .. Len(text)
  BY <1>2, BeginsIs
<1>9. ~ Closed(text)
  BY <1>2, <1>7, <1>8, ClosedIs DEF Behind
<1>10. ReaderOK' /\ state' \in Done /\ UNCHANGED <<mode, value, atLineStart, start, tokens>>
  BY <1>2, NextRuneReads DEF Error, Done
<1>11. LexType'
  BY <1>2, <1>10 DEF LexType
<1>12. TokensRight'
  BY <1>2, <1>10 DEF TokensRight, Matches, Found
<1> QED
  BY <1>9, <1>10, <1>11, <1>12 DEF LexInv

LEMMA StringStep ==
  ASSUME LexInv, state \notin Done, String \/ Escape, UNCHANGED text
  PROVE  LexInv'
<1>1. ReaderOK /\ mode \in {"string", "escape"} /\ NextRune
  BY DEF LexInv, String, Escape
<1>2. Pos \in Nat /\ Pos + 1 \in Nat
  BY <1>1, Reader
<1>3. Quote # None /\ Backslash # None /\ Quote # Backslash
  BY ParserAssumption DEF Runes, Quote, Backslash
<1>4. ReaderOK' /\ (Coming # None => Pos' = Pos + 1)
  BY <1>1, NextRuneReads
<1>5. CASE Coming = None
  <2>1. Error
    BY <1>3, <1>5 DEF String, Escape
  <2> QED
    BY <1>1, <1>5, <2>1, ErrorStep
<1>6. CASE mode = "string" /\ Coming = Quote
  <2>1. ReturnToken("string", value, start) /\ UNCHANGED <<text, state>>
    BY <1>3, <1>6 DEF String, Escape, parser
  <2>2. mode \notin {"idle", "skip", "first"} /\ Pos' = Pos + 1 /\ Coming # None
    BY <1>3, <1>4, <1>6
  <2> QED
    BY <1>2, <1>4, <1>6, <2>1, <2>2, LoopReturns
<1>7. CASE mode = "string" /\ Coming \notin {None, Quote}
  <2>1. /\ mode' = IF Coming = Backslash THEN "escape" ELSE "string"
        /\ value' = Append(value, Coming) /\ UNCHANGED <<text, state, tokens, start, atLineStart>>
    <3>1. CASE Coming = Backslash
      BY <1>3, <1>7, <3>1 DEF String, Escape, Into, parser
    <3>2. CASE Coming # Backslash
      BY <1>3, <1>7, <3>2 DEF String, Escape, More, Into, parser
    <3> QED
      BY <3>1, <3>2
  <2> QED
    BY <1>4, <1>7, <2>1, Grows
<1>8. CASE mode = "escape" /\ Coming # None
  <2>1. /\ mode' = "string" /\ value' = Append(value, Coming)
        /\ UNCHANGED <<text, state, tokens, start, atLineStart>>
    BY <1>8 DEF String, Escape, Into, parser
  <2> QED
    BY <1>4, <1>8, <2>1, Grows
<1> QED
  BY <1>1, <1>5, <1>6, <1>7, <1>8
-----------------------------------------------------------------------------
(* The invariant.                                                            *)

States == {"program", "path", "pathEnd", "name", "open", "close", "brace", "body",
           "value", "valueEnd"} \cup Done
Value == Seq(Runes)
ParserType == state \in States /\ node \in Seq(Value) /\ ast \in Seq(Seq(Value))

IInv == LexInv /\ ParserType

LEMMA InitIInv == Init => IInv
<1> SUFFICES ASSUME Init PROVE IInv
  OBVIOUS
<1>1. /\ text \in Texts /\ at = 0 /\ peeked = None /\ line = 1 /\ mode = "skip" /\ atLineStart = TRUE
      /\ start = 0 /\ value = << >> /\ tokens = << >> /\ state = "program" /\ node = << >> /\ ast = << >>
  BY DEF Init
<1>2. text \in Seq(Runes) /\ Len(text) \in Nat /\ Pos = 0 /\ Len(tokens) = 0
  BY <1>1, ParserAssumption DEF Pos
<1>3. LineOf(text, 1) \in 1 .. 1
  BY LineBounds
<1>4. ReaderOK
  BY <1>1, <1>2, <1>3 DEF ReaderOK
<1>5. LexType /\ TokensRight
  BY <1>1, <1>2 DEF LexType, TokensRight, Modes
<1>6. Behind = 1
  BY <1>2 DEF Behind, After
<1>7. Skipping
  BY <1>1, <1>2, <1>3, <1>6 DEF Skipping, Spaces, AtLineStart
<1> QED
  BY <1>1, <1>4, <1>5, <1>7 DEF IInv, LexInv, LexOK, ParserType, States

LEMMA NextTokenStep ==
  ASSUME LexInv, NextToken
  PROVE  LexInv'
<1> state \notin Done /\ UNCHANGED text
  BY DEF NextToken
<1>1. CASE Skip
  BY <1>1, SkipStep
<1>2. CASE DirectiveFirst \/ SlashFirst \/ NumberFirst \/ StringFirst \/ WordFirst \/ SignFirst
  BY <1>2, FirstStep
<1>3. CASE Word \/ Number
  BY <1>3, WordOrNumberStep
<1>4. CASE Directive
  BY <1>4, DirectiveStep
<1>5. CASE Params \/ Comment
  BY <1>5, LineStep
<1>6. CASE String \/ Escape
  BY <1>6, StringStep
<1> QED
  BY <1>1, <1>2, <1>3, <1>4, <1>5, <1>6 DEF NextToken

\* What NextToken does to the parser: nothing, or it rejects.
LEMMA NextTokenParser ==
  ASSUME NextToken
  PROVE  UNCHANGED <<node, ast>> /\ state' \in {state, "rejected"}
<1>1. ASSUME String PROVE UNCHANGED <<node, ast>> /\ state' \in {state, "rejected"}
  <2> Quote # None /\ Backslash # None /\ Quote # Backslash
    BY ParserAssumption DEF Runes, Quote, Backslash
  <2>1. CASE Coming = None
    BY <1>1, <2>1 DEF String, Error
  <2>2. CASE Coming = Quote /\ Coming # None
    BY <1>1, <2>2 DEF String, parser
  <2>3. CASE Coming = Backslash /\ Coming \notin {None, Quote}
    BY <1>1, <2>3 DEF String, parser
  <2>4. CASE Coming \notin {None, Quote, Backslash}
    BY <1>1, <2>4 DEF String, More, parser
  <2> QED
    BY <2>1, <2>2, <2>3, <2>4
<1>2. CASE Escape
  BY <1>2 DEF Escape, Error, parser
<1>3. CASE UNCHANGED parser
  BY <1>3 DEF parser
<1>4. NextToken => String \/ Escape \/ UNCHANGED parser
  BY DEF NextToken, Skip, DirectiveFirst, SlashFirst, NumberFirst, StringFirst, WordFirst, SignFirst,
         First, Word, Number, Directive, Params, Comment, More
<1> QED
  BY <1>1, <1>2, <1>3, <1>4

\* The token that the parser looks at
LEMMA Current ==
  ASSUME LexInv, state \notin Done, mode = "idle"
  PROVE  /\ tokens \in Seq(Returned) /\ Len(tokens) \in Nat \ {0}
         /\ currentToken \in Returned /\ currentToken.value \in Value
         /\ currentToken.type \in TokenTypes
         /\ Ended <=> Now("eof")
<1>1. tokens # << >> /\ tokens \in Seq(Returned)
  BY DEF LexInv, LexOK, LexType, Idle
<1>2. Len(tokens) \in Nat \ {0} /\ Len(tokens) \in 1 .. Len(tokens)
  BY <1>1
<1>3. currentToken \in Returned
  BY <1>1, <1>2 DEF currentToken
<1> QED
  BY <1>1, <1>2, <1>3 DEF Ended, Now, currentToken, Returned, Value

LEMMA AdvanceStep ==
  ASSUME LexInv, state \notin Done, mode = "idle", ~ Now("eof"), Advance
  PROVE  LexInv'
<1> ~ Ended
  BY Current
<1>1. ReaderOK /\ LexType /\ TokensRight /\ Idle
  BY DEF LexInv, LexOK
<1>2. /\ mode' = "skip" /\ atLineStart' = TRUE
      /\ UNCHANGED <<text, reader, start, value, tokens>>
  BY DEF Advance
<1>3. ReaderOK' /\ Pos' = Pos
  BY <1>1, <1>2, Unread
<1>4. \A i \in 1 .. Len(tokens) : tokens[i].type # "eof"
  BY <1>1, BeginsIs
<1>5. TokensRight'
  BY <1>1, <1>2, <1>4 DEF TokensRight, Matches, Found
<1>6. LexType'
  BY <1>1, <1>2 DEF LexType, Modes
<1>7. Behind' = Behind
  BY <1>2 DEF Behind, Found
<1>8. Spaces' /\ (Pos < Len(text) => AtLineStart(text, Pos + 1)) /\ start <= LineOf(text, Pos + 1)
  BY <1>1, <1>2, <1>3, <1>7 DEF Idle, Spaces
<1>9. Skipping'
  BY <1>2, <1>3, <1>8 DEF Skipping
<1> QED
  BY <1>2, <1>3, <1>5, <1>6, <1>9 DEF LexInv, LexOK

LEMMA StopStep ==
  ASSUME LexInv, UNCHANGED <<text, lexer>>, state' \in Done
  PROVE  LexInv'
<1>1. ReaderOK'
  BY Unread DEF lexer, LexInv
<1>2. UNCHANGED <<text, mode, atLineStart, start, value, tokens>>
  BY DEF lexer
<1>3. LexType' /\ TokensRight'
  BY <1>2 DEF LexInv, LexType, TokensRight, Matches, Found
<1> QED
  BY <1>1, <1>3 DEF LexInv

LEMMA NoBraceKeyword == <<"}">> \notin Keywords
<1> DEFINE b == <<"}">>
<1>1. Len(b) = 1 /\ b[1] = "}" /\ "}" \notin Letters
  BY DEF Letters
<1>2. \A s \in Seq(Letters) : Len(s) = 1 => s[1] \in Letters
  OBVIOUS
<1> HIDE DEF b
<1>3. b \notin Seq(Letters)
  BY <1>1, <1>2
<1> QED
  BY <1>3, GrammarAssumption DEF b

\* What a step of the parser does to the state: it advances past a token that is
\* not the end, or it stops.
Goes(here) == ~ Now("eof") /\ Advance /\ state' = here

LEMMA ParseSteps ==
  ASSUME Parse
  PROVE  /\ mode = "idle" /\ state = "program"
         /\ \/ Now("eof") /\ Accept
            \/ /\ Now("directive") /\ Goes("program")
               /\ ast' = Append(ast, <<currentToken.value>>) /\ UNCHANGED node
            \/ /\ Now("keyword") /\ currentToken.value = Inherit /\ Goes("path")
               /\ node' = << >> /\ UNCHANGED ast
            \/ /\ Now("keyword") /\ currentToken.value # Inherit /\ Goes("name")
               /\ node' = <<currentToken.value>> /\ UNCHANGED ast
            \/ ~ (Now("eof") \/ Now("directive") \/ Now("keyword")) /\ Reject
<1> USE DEF Parse, Reads, Goes
<1>1. CASE Now("eof")
  BY <1>1 DEF Now
<1>2. CASE Now("directive")
  BY <1>2 DEF Now
<1>3. CASE Now("keyword") /\ currentToken.value = Inherit
  BY <1>3 DEF Now
<1>4. CASE Now("keyword") /\ currentToken.value # Inherit
  BY <1>4 DEF Now
<1>5. CASE ~ (Now("eof") \/ Now("directive") \/ Now("keyword"))
  BY <1>5
<1> QED
  BY <1>1, <1>2, <1>3, <1>4, <1>5

Expects(here, types, next, kept) ==
  /\ state = here
  /\ IF currentToken.type \in types
     THEN Goes(next) /\ node' = IF kept THEN Append(node, currentToken.value) ELSE node
     ELSE Reject

LEMMA ExpectSteps ==
  ASSUME Expect
  PROVE  /\ mode = "idle" /\ UNCHANGED ast
         /\ \/ Expects("path", {"string"}, "pathEnd", TRUE)
            \/ Expects("name", {"identifier"}, "open", TRUE)
            \/ Expects("open", {"operator"}, "close", FALSE)
            \/ Expects("close", {"operator"}, "brace", FALSE)
            \/ Expects("brace", {"operator"}, "body", FALSE)
            \/ Expects("value", {"number", "string"}, "valueEnd", TRUE)
            \/ Expects("valueEnd", {"operator"}, "body", FALSE)
<1>1. PICK here \in DOMAIN Expected :
        /\ Reads(here)
        /\ IF currentToken.type \in Expected[here].types
           THEN /\ state' = Expected[here].next
                /\ node' = IF Expected[here].kept THEN Append(node, currentToken.value) ELSE node
                /\ Advance /\ UNCHANGED ast
           ELSE Reject
  BY DEF Expect
<1>2. mode = "idle" /\ UNCHANGED ast /\ state = here
  BY <1>1 DEF Reads, Reject
<1>3. ASSUME "eof" \notin Expected[here].types
      PROVE  Expects(here, Expected[here].types, Expected[here].next, Expected[here].kept)
  BY <1>1, <1>2, <1>3 DEF Expects, Goes, Now
<1>4. here \in {"path", "name", "open", "close", "brace", "value", "valueEnd"}
  BY DEF Expected
<1>5. CASE here = "path"
  <2>1. Expected["path"] = Row({"string"}, "pathEnd", TRUE)
    BY DEF Expected
  <2>2. /\ Expected[here].types = {"string"} /\ Expected[here].next = "pathEnd"
        /\ Expected[here].kept = TRUE
    BY <1>5, <2>1 DEF Row
  <2> QED
    BY <1>2, <1>3, <1>5, <2>2
<1>6. CASE here = "name"
  <2>1. Expected["name"] = Row({"identifier"}, "open", TRUE)
    BY DEF Expected
  <2>2. /\ Expected[here].types = {"identifier"} /\ Expected[here].next = "open"
        /\ Expected[here].kept = TRUE
    BY <1>6, <2>1 DEF Row
  <2> QED
    BY <1>2, <1>3, <1>6, <2>2
<1>7. CASE here = "open"
  <2>1. Expected["open"] = Row({"operator"}, "close", FALSE)
    BY DEF Expected
  <2>2. /\ Expected[here].types = {"operator"} /\ Expected[here].next = "close"
        /\ Expected[here].kept = FALSE
    BY <1>7, <2>1 DEF Row
  <2> QED
    BY <1>2, <1>3, <1>7, <2>2
<1>8. CASE here = "close"
  <2>1. Expected["close"] = Row({"operator"}, "brace", FALSE)
    BY DEF Expected
  <2>2. /\ Expected[here].types = {"operator"} /\ Expected[here].next = "brace"
        /\ Expected[here].kept = FALSE
    BY <1>8, <2>1 DEF Row
  <2> QED
    BY <1>2, <1>3, <1>8, <2>2
<1>9. CASE here = "brace"
  <2>1. Expected["brace"] = Row({"operator"}, "body", FALSE)
    BY DEF Expected
  <2>2. /\ Expected[here].types = {"operator"} /\ Expected[here].next = "body"
        /\ Expected[here].kept = FALSE
    BY <1>9, <2>1 DEF Row
  <2> QED
    BY <1>2, <1>3, <1>9, <2>2
<1>10. CASE here = "value"
  <2>1. Expected["value"] = Row({"number", "string"}, "valueEnd", TRUE)
    BY DEF Expected
  <2>2. /\ Expected[here].types = {"number", "string"} /\ Expected[here].next = "valueEnd"
        /\ Expected[here].kept = TRUE
    BY <1>10, <2>1 DEF Row
  <2> QED
    BY <1>2, <1>3, <1>10, <2>2
<1>11. CASE here = "valueEnd"
  <2>1. Expected["valueEnd"] = Row({"operator"}, "body", FALSE)
    BY DEF Expected
  <2>2. /\ Expected[here].types = {"operator"} /\ Expected[here].next = "body"
        /\ Expected[here].kept = FALSE
    BY <1>11, <2>1 DEF Row
  <2> QED
    BY <1>2, <1>3, <1>11, <2>2
<1> QED
  BY <1>4, <1>5, <1>6, <1>7, <1>8, <1>9, <1>10, <1>11

LEMMA EndNodeSteps ==
  ASSUME EndNode
  PROVE  \/ Now("operator") /\ Goes("program") /\ ast' = Append(ast, node) /\ UNCHANGED node
         \/ ~ Now("operator") /\ Reject
BY DEF EndNode, Goes, Now

LEMMA ParseBodySteps ==
  ASSUME ParseBody
  PROVE  /\ mode = "idle" /\ state = "body"
         /\ \/ (Now("eof") \/ currentToken.value = <<"}">>) /\ EndNode
            \/ /\ Now("keyword") /\ currentToken.value = Return /\ currentToken.value # <<"}">>
               /\ Goes("value") /\ UNCHANGED <<node, ast>>
            \/ /\ ~ (Now("eof") \/ currentToken.value = <<"}">>)
               /\ ~ (Now("keyword") /\ currentToken.value = Return) /\ Reject
<1> USE DEF ParseBody, Reads, Goes
<1>1. Return # <<"}">>
  BY NoBraceKeyword DEF Keywords
<1>2. CASE Now("eof") \/ currentToken.value = <<"}">>
  <2>1. ~ (Now("keyword") /\ currentToken.value = Return)
    BY <1>1, <1>2 DEF Now
  <2> HIDE DEF Now, EndNode
  <2> QED
    BY <1>2, <2>1
<1>3. CASE /\ ~ (Now("eof") \/ currentToken.value = <<"}">>)
           /\ Now("keyword") /\ currentToken.value = Return
  <2> HIDE DEF Now
  <2> QED
    BY <1>3
<1>4. CASE /\ ~ (Now("eof") \/ currentToken.value = <<"}">>)
           /\ ~ (Now("keyword") /\ currentToken.value = Return)
  <2> HIDE DEF Now
  <2> QED
    BY <1>4
<1> QED
  BY <1>2, <1>3, <1>4

LEMMA StepIInv ==
  ASSUME IInv, [Next]_vars
  PROVE  IInv'
<1> LexInv /\ ParserType
  BY DEF IInv
<1>1. CASE NextToken
  <2>1. LexInv'
    BY <1>1, NextTokenStep
  <2>2. UNCHANGED <<node, ast>> /\ state' \in {state, "rejected"}
    BY <1>1, NextTokenParser
  <2> QED
    BY <2>1, <2>2 DEF IInv, ParserType, States, Done
<1>2. ASSUME mode = "idle", state \notin Done, NEW here \in States, Goes(here),
             node' \in Seq(Value), ast' \in Seq(Seq(Value))
      PROVE  IInv'
  <2>1. LexInv'
    BY <1>2, AdvanceStep DEF Goes
  <2> QED
    BY <1>2, <2>1 DEF IInv, ParserType, Goes
<1>3. ASSUME Accept \/ Reject
      PROVE  IInv'
  <2>1. UNCHANGED <<text, lexer, node, ast>> /\ state' \in Done
    BY <1>3 DEF Accept, Reject, Done
  <2>2. LexInv'
    BY <2>1, StopStep
  <2> QED
    BY <2>1, <2>2 DEF IInv, ParserType, States
<1>4. ASSUME state \notin Done, mode = "idle"
      PROVE  /\ currentToken.value \in Value /\ <<currentToken.value>> \in Seq(Value)
             /\ Append(ast, <<currentToken.value>>) \in Seq(Seq(Value))
             /\ Append(node, currentToken.value) \in Seq(Value)
             /\ Append(ast, node) \in Seq(Seq(Value))
             /\ node \in Seq(Value) /\ ast \in Seq(Seq(Value)) /\ << >> \in Seq(Value)
  <2>1. currentToken.value \in Value
    BY <1>4, Current
  <2>2. node \in Seq(Value) /\ ast \in Seq(Seq(Value))
    BY DEF ParserType
  <2>3. <<currentToken.value>> \in Seq(Value) /\ << >> \in Seq(Value)
    BY <2>1
  <2> QED
    BY <2>1, <2>2, <2>3, AppendProperties
<1>5. {"program", "path", "name", "pathEnd", "open", "close", "brace", "body", "value", "valueEnd"}
        \subseteq States \ Done
  BY DEF States, Done
<1>6. CASE Parse
  <2>1. mode = "idle" /\ state \notin Done
    BY <1>5, <1>6, ParseSteps
  <2>2. \/ Accept \/ Reject
        \/ Goes("program") /\ ast' = Append(ast, <<currentToken.value>>) /\ node' = node
        \/ Goes("path") /\ node' = << >> /\ ast' = ast
        \/ Goes("name") /\ node' = <<currentToken.value>> /\ ast' = ast
    BY <1>6, ParseSteps
  <2> QED
    BY <1>2, <1>3, <1>4, <1>5, <2>1, <2>2
<1>7. CASE Expect
  <2>1. mode = "idle" /\ ast' = ast
    BY <1>7, ExpectSteps
  <2>2. \E here \in States \ Done, next \in States : \E types, kept : Expects(here, types, next, kept)
    BY <1>5, <1>7, ExpectSteps
  <2>3. PICK here \in States \ Done, next \in States : \E types, kept : Expects(here, types, next, kept)
    BY <2>2
  <2>4. PICK types, kept : Expects(here, types, next, kept)
    BY <2>3
  <2>5. state \notin Done
    BY <2>4 DEF Expects
  <2>6. CASE Reject
    BY <1>3, <2>6
  <2>7. CASE ~ Reject
    <3>1. Goes(next) /\ (node' = node \/ node' = Append(node, currentToken.value))
      BY <2>4, <2>7 DEF Expects
    <3> QED
      BY <1>2, <1>4, <2>1, <2>5, <3>1
  <2> QED
    BY <2>6, <2>7
<1>8. ASSUME EndNode, mode = "idle", state \notin Done
      PROVE  IInv'
  <2>1. Reject \/ (Goes("program") /\ ast' = Append(ast, node) /\ node' = node)
    BY <1>8, EndNodeSteps
  <2> QED
    BY <1>2, <1>3, <1>4, <1>5, <1>8, <2>1
<1>9. CASE ParseInheritEnd
  BY <1>5, <1>8, <1>9 DEF ParseInheritEnd, Reads
<1>10. CASE ParseBody
  <2>1. mode = "idle" /\ state \notin Done
    BY <1>5, <1>10, ParseBodySteps
  <2>2. EndNode \/ Reject \/ (Goes("value") /\ node' = node /\ ast' = ast)
    BY <1>10, ParseBodySteps
  <2> QED
    BY <1>2, <1>3, <1>4, <1>5, <1>8, <2>1, <2>2
<1>11. CASE UNCHANGED vars
  <2>1. UNCHANGED <<text, reader, mode, atLineStart, start, value, tokens, state, node, ast>>
    BY <1>11 DEF vars, lexer, parser
  <2>2. ReaderOK' /\ Pos' = Pos
    BY <2>1, Unread DEF LexInv
  <2>3. LexType' /\ TokensRight' /\ ParserType'
    BY <2>1 DEF LexInv, LexType, TokensRight, Matches, Found, ParserType
  <2>4. LexOK => LexOK'
    <3>1. Behind' = Behind /\ Begins' = Begins /\ Ended' = Ended
      BY <2>1 DEF Behind, Begins, Found, Ended
    <3>2. Spaces => Spaces'
      BY <2>1, <2>2, <3>1 DEF Spaces
    <3>3. Idle => Idle'
      BY <2>1, <2>2, <3>1, <3>2 DEF Idle
    <3>4. Skipping => Skipping'
      BY <2>1, <2>2, <3>2 DEF Skipping
    <3>5. Scanned => Scanned'
      BY <2>1, <2>2, <3>1 DEF Scanned, All
    <3> QED
      BY <2>1, <3>3, <3>4, <3>5 DEF LexOK
  <2> QED
    BY <2>1, <2>2, <2>3, <2>4 DEF IInv, LexInv
<1> QED
  BY <1>1, <1>6, <1>7, <1>9, <1>10, <1>11 DEF Next

LEMMA Invariant == Spec => []IInv
BY InitIInv, StepIInv, PTL DEF Spec

LEMMA IInvTypes == IInv => TypeOK
<1> SUFFICES ASSUME IInv PROVE TypeOK
  OBVIOUS
<1>1. ReaderOK /\ LexType /\ ParserType
  BY DEF IInv, LexInv
<1>2. peeked \in Runes \cup {None} /\ line \in 1 .. Len(text) + 1
  BY <1>1, Reader
<1>3. text \in Texts /\ at \in 0 .. Len(text)
  BY <1>1 DEF ReaderOK
<1>4. ASSUME NEW i \in 1 .. Len(tokens) PROVE tokens[i].type \in TokenTypes
  <2>1. tokens[i] \in Returned
    BY <1>1 DEF LexType
  <2> QED
    BY <2>1 DEF Returned
<1> QED
  BY <1>1, <1>2, <1>3, <1>4 DEF TypeOK, LexType, Modes, ParserType, States, Value

LEMMA IInvLexer == IInv => LexerRight
<1> SUFFICES ASSUME IInv PROVE LexerRight
  OBVIOUS
<1>1. ReaderOK /\ LexType /\ TokensRight
  BY DEF IInv, LexInv
<1> DEFINE expected == TokensOf(text)
<1>3. Len(Found) \in Nat /\ \A i \in 1 .. Len(Found) : Found[i] \in Places(text)
  BY <1>1, FoundRight
<1>4. Len(expected) = Len(Found)
  BY <1>1, TokensFound
<1>5. \A i \in 1 .. Len(Found) : expected[i] = TokenAt(text, Found[i]) /\ TokenAt(text, Found[i]).at = Found[i]
  BY <1>1, <1>3, Reader, TokenType, TokensFound
<1>6. ASSUME NEW i \in 1 .. Len(tokens)
      PROVE  IF tokens[i].type = "eof" THEN i = Len(expected) + 1 /\ Closed(text)
             ELSE /\ i <= Len(expected)
                  /\ tokens[i].type = expected[i].type
                  /\ tokens[i].value = expected[i].value
                  /\ tokens[i].line <= LineOf(text, expected[i].at)
  <2> HIDE DEF expected
  <2>1. CASE tokens[i].type = "eof"
    BY <1>1, <1>4, <2>1 DEF TokensRight
  <2>2. CASE tokens[i].type # "eof"
    <3>1. i <= Len(Found) /\ Matches(text, tokens[i], Found[i])
      BY <1>1, <2>2 DEF TokensRight
    <3>2. i \in 1 .. Len(Found)
      BY <1>1, <1>3, <3>1 DEF LexType
    <3> QED
      BY <1>4, <1>5, <2>2, <3>1, <3>2 DEF Matches
  <2> QED
    BY <2>1, <2>2
<1> QED
  BY <1>6 DEF LexerRight

\* The variables keep their types: what is peeked at is a rune of the text, the
\* loops of NextToken build values of runes, the parser a tree of such values
\* (lpcparser.go:60-294, 395-582).
THEOREM ParserTyped == Spec => []TypeOK
BY Invariant, IInvTypes, PTL

\* For every set of texts: what NextToken returns are the tokens of the text, in
\* order, and eof only behind the last of them (lpcparser.go:79-294).
THEOREM LexerIsRight == Spec => []LexerRight
BY Invariant, IInvLexer, PTL
-----------------------------------------------------------------------------
(* The programs of the grammar.                                              *)

Has(ts, i, type) == i <= Len(ts) /\ ts[i].type = type
Op(ts, i) == Has(ts, i, "operator")

\* What of a program or of a body begins at i, given what begins behind it
Begun(ts, from, i) ==
    {part \in Parts :
      \/ part = "program" /\ i = Len(ts) + 1
      \/ part = "program" /\ Has(ts, i, "directive") /\ "program" \in from[i + 1]
      \/ /\ part = "program"
         /\ Has(ts, i, "keyword") /\ ts[i].value = Inherit
         /\ Has(ts, i + 1, "string") /\ Op(ts, i + 2) /\ "program" \in from[i + 3]
      \/ /\ part = "program"
         /\ Has(ts, i, "keyword") /\ ts[i].value # Inherit
         /\ Has(ts, i + 1, "identifier") /\ Op(ts, i + 2) /\ Op(ts, i + 3) /\ Op(ts, i + 4)
         /\ "body" \in from[i + 5]
      \/ part = "body" /\ Op(ts, i) /\ ts[i].value = <<"}">> /\ "program" \in from[i + 1]
      \/ /\ part = "body"
         /\ Has(ts, i, "keyword") /\ ts[i].value = Return
         /\ Has(ts, i + 1, "number") \/ Has(ts, i + 1, "string")
         /\ Op(ts, i + 2) /\ "body" \in from[i + 3]}

LEMMA BegunLooksAhead ==
  ASSUME NEW ts, Len(ts) \in Nat, NEW i \in 1 .. Len(ts) + 1, NEW f, NEW g,
         \A j \in i + 1 .. Len(ts) + 1 : f[j] = g[j]
  PROVE  Begun(ts, f, i) = Begun(ts, g, i)
<1>1. /\ i + 1 <= Len(ts) + 1 => f[i + 1] = g[i + 1]
      /\ i + 3 <= Len(ts) + 1 => f[i + 3] = g[i + 3]
      /\ i + 5 <= Len(ts) + 1 => f[i + 5] = g[i + 5]
  OBVIOUS
<1>2. ASSUME NEW type
      PROVE  /\ Has(ts, i, type) => f[i + 1] = g[i + 1]
             /\ Has(ts, i + 2, type) => f[i + 3] = g[i + 3]
             /\ Has(ts, i + 4, type) => f[i + 5] = g[i + 5]
  BY <1>1 DEF Has
<1> QED
  BY <1>2 DEF Begun, Op

LEMMA ParsesExist ==
  ASSUME NEW ts, Len(ts) \in Nat
  PROVE  \E from : from = [i \in 1 .. Len(ts) + 1 |-> Begun(ts, from, i)]
<1> DEFINE n == Len(ts) + 1
           Right(f, m) == /\ f = [i \in 1 .. n |-> f[i]]
                          /\ \A i \in m .. n : f[i] = Begun(ts, f, i)
           good == {k \in Nat : k <= n => \E f : Right(f, n + 1 - k)}
<1>1. 0 \in good
  <2>1. Right([i \in 1 .. n |-> {}], n + 1 - 0)
    OBVIOUS
  <2> HIDE DEF Right
  <2> QED
    BY <2>1
<1>2. ASSUME NEW k \in 1 .. n, k - 1 \in good PROVE k \in good
  <2> DEFINE m == n + 1 - k
  <2>1. m \in 1 .. n /\ n + 1 - (k - 1) = m + 1 /\ k - 1 <= n
    OBVIOUS
  <2>2. PICK f : Right(f, m + 1)
    <3> HIDE DEF Right
    <3> QED
      BY <1>2, <2>1
  <2> DEFINE g == [i \in 1 .. n |-> IF i = m THEN Begun(ts, f, m) ELSE f[i]]
  <2>3. /\ g = [i \in 1 .. n |-> g[i]] /\ g[m] = Begun(ts, f, m)
        /\ \A i \in 1 .. n : i # m => g[i] = f[i]
    BY <2>1
  <2> HIDE DEF g
  <2>4. ASSUME NEW i \in m .. n PROVE g[i] = Begun(ts, g, i)
    <3>1. i \in 1 .. Len(ts) + 1 /\ \A j \in i + 1 .. Len(ts) + 1 : f[j] = g[j]
      BY <2>1, <2>3
    <3>2. Begun(ts, f, i) = Begun(ts, g, i)
      BY <3>1, BegunLooksAhead
    <3>3. CASE i = m
      BY <2>3, <3>2, <3>3
    <3>4. CASE i # m
      <4>1. i \in m + 1 .. n /\ i \in 1 .. n
        BY <2>1, <3>4
      <4> QED
        BY <2>2, <2>3, <3>2, <3>4, <4>1
    <3> QED
      BY <3>3, <3>4
  <2>5. Right(g, m)
    BY <2>3, <2>4
  <2> HIDE DEF Right
  <2> QED
    BY <2>5
<1>3. n \in good
  <2>1. good \in SUBSET Nat /\ n \in Nat
    OBVIOUS
  <2> HIDE DEF good, n
  <2>2. 0 .. n \subseteq good
    BY <1>1, <1>2, <2>1, Induction
  <2> QED
    BY <2>1, <2>2
<1>4. PICK f : Right(f, 1)
  <2>1. n + 1 - n = 1
    OBVIOUS
  <2> HIDE DEF Right
  <2> QED
    BY <1>3, <2>1
<1>5. f = [i \in 1 .. n |-> Begun(ts, f, i)]
  BY <1>4
<1> QED
  BY <1>5

LEMMA ParsesIs ==
  ASSUME NEW ts, Len(ts) \in Nat, NEW i \in 1 .. Len(ts) + 1
  PROVE  Parses(ts)[i] = Begun(ts, Parses(ts), i)
<1>1. \E from : from = [k \in 1 .. Len(ts) + 1 |-> Begun(ts, from, k)]
  BY ParsesExist
<1>2. Parses(ts) = CHOOSE from : from = [k \in 1 .. Len(ts) + 1 |-> Begun(ts, from, k)]
  BY DEF Parses, Begun, Has, Op
<1>3. Parses(ts) = [k \in 1 .. Len(ts) + 1 |-> Begun(ts, Parses(ts), k)]
  BY <1>1, <1>2
<1> QED
  BY <1>3

\* A program goes on, or a body does.
ProgramAt(ts, i) == "program" \in Parses(ts)[i]
BodyAt(ts, i) == "body" \in Parses(ts)[i]

LEMMA ProgramBegun ==
  ASSUME NEW ts, NEW from, NEW i
  PROVE  "program" \in Begun(ts, from, i) <=>
           \/ i = Len(ts) + 1
           \/ Has(ts, i, "directive") /\ "program" \in from[i + 1]
           \/ /\ Has(ts, i, "keyword") /\ ts[i].value = Inherit
              /\ Has(ts, i + 1, "string") /\ Op(ts, i + 2) /\ "program" \in from[i + 3]
           \/ /\ Has(ts, i, "keyword") /\ ts[i].value # Inherit
              /\ Has(ts, i + 1, "identifier") /\ Op(ts, i + 2) /\ Op(ts, i + 3) /\ Op(ts, i + 4)
              /\ "body" \in from[i + 5]
<1> "program" \in Parts /\ "program" # "body"
  BY DEF Parts
<1> QED
  BY Zenon DEF Begun

LEMMA BodyBegun ==
  ASSUME NEW ts, NEW from, NEW i
  PROVE  "body" \in Begun(ts, from, i) <=>
           \/ Op(ts, i) /\ ts[i].value = <<"}">> /\ "program" \in from[i + 1]
           \/ /\ Has(ts, i, "keyword") /\ ts[i].value = Return
              /\ Has(ts, i + 1, "number") \/ Has(ts, i + 1, "string")
              /\ Op(ts, i + 2) /\ "body" \in from[i + 3]
<1> "body" \in Parts /\ "program" # "body"
  BY DEF Parts
<1> QED
  BY Zenon DEF Begun

LEMMA ProgramIs ==
  ASSUME NEW ts, Len(ts) \in Nat, NEW i \in 1 .. Len(ts) + 1
  PROVE  ProgramAt(ts, i) <=>
           \/ i = Len(ts) + 1
           \/ Has(ts, i, "directive") /\ ProgramAt(ts, i + 1)
           \/ /\ Has(ts, i, "keyword") /\ ts[i].value = Inherit
              /\ Has(ts, i + 1, "string") /\ Op(ts, i + 2) /\ ProgramAt(ts, i + 3)
           \/ /\ Has(ts, i, "keyword") /\ ts[i].value # Inherit
              /\ Has(ts, i + 1, "identifier") /\ Op(ts, i + 2) /\ Op(ts, i + 3) /\ Op(ts, i + 4)
              /\ BodyAt(ts, i + 5)
<1>1. ProgramAt(ts, i) <=> "program" \in Begun(ts, Parses(ts), i)
  BY ParsesIs DEF ProgramAt
<1> QED
  BY <1>1, ProgramBegun, Zenon DEF ProgramAt, BodyAt

LEMMA BodyIs ==
  ASSUME NEW ts, Len(ts) \in Nat, NEW i \in 1 .. Len(ts) + 1
  PROVE  BodyAt(ts, i) <=>
           \/ Op(ts, i) /\ ts[i].value = <<"}">> /\ ProgramAt(ts, i + 1)
           \/ /\ Has(ts, i, "keyword") /\ ts[i].value = Return
              /\ Has(ts, i + 1, "number") \/ Has(ts, i + 1, "string")
              /\ Op(ts, i + 2) /\ BodyAt(ts, i + 3)
<1>1. BodyAt(ts, i) <=> "body" \in Begun(ts, Parses(ts), i)
  BY ParsesIs DEF BodyAt
<1> QED
  BY <1>1, BodyBegun, Zenon DEF ProgramAt, BodyAt
-----------------------------------------------------------------------------
(* The parser.                                                               *)

\* What the tokens from i on have to be when the parser is in a state
Accepts(ts, here, i) ==
    \/ here = "program" /\ ProgramAt(ts, i)
    \/ here = "path" /\ Has(ts, i, "string") /\ Op(ts, i + 1) /\ ProgramAt(ts, i + 2)
    \/ here = "pathEnd" /\ Op(ts, i) /\ ProgramAt(ts, i + 1)
    \/ /\ here = "name" /\ Has(ts, i, "identifier")
       /\ Op(ts, i + 1) /\ Op(ts, i + 2) /\ Op(ts, i + 3) /\ BodyAt(ts, i + 4)
    \/ here = "open" /\ Op(ts, i) /\ Op(ts, i + 1) /\ Op(ts, i + 2) /\ BodyAt(ts, i + 3)
    \/ here = "close" /\ Op(ts, i) /\ Op(ts, i + 1) /\ BodyAt(ts, i + 2)
    \/ here = "brace" /\ Op(ts, i) /\ BodyAt(ts, i + 1)
    \/ here = "body" /\ BodyAt(ts, i)
    \/ here = "value" /\ (Has(ts, i, "number") \/ Has(ts, i, "string")) /\ Op(ts, i + 1) /\ BodyAt(ts, i + 2)
    \/ here = "valueEnd" /\ Op(ts, i) /\ BodyAt(ts, i + 1)

\* A token has one type, and none is behind the last.
LEMMA HasOne ==
  ASSUME NEW ts, Len(ts) \in Nat, NEW i \in 1 .. Len(ts) + 1
  PROVE  /\ \A a, b : Has(ts, i, a) /\ Has(ts, i, b) => a = b
         /\ i = Len(ts) + 1 => \A a : ~ Has(ts, i, a)
BY DEF Has

LEMMA Sums == ASSUME NEW i \in Nat
  PROVE /\ (i + 1) + 1 = i + 2 /\ (i + 1) + 2 = i + 3 /\ (i + 1) + 3 = i + 4
        /\ (i + 1) + 4 = i + 5
OBVIOUS

\* What a token does for the states in which a part of its kind begins
LEMMA ProgramToken ==
  ASSUME NEW ts, Len(ts) \in Nat, NEW i \in 1 .. Len(ts) + 1
  PROVE  /\ i = Len(ts) + 1 => Accepts(ts, "program", i)
         /\ Has(ts, i, "directive") => (Accepts(ts, "program", i) <=> Accepts(ts, "program", i + 1))
         /\ Has(ts, i, "keyword") /\ ts[i].value = Inherit
               => (Accepts(ts, "program", i) <=> Accepts(ts, "path", i + 1))
         /\ Has(ts, i, "keyword") /\ ts[i].value # Inherit
               => (Accepts(ts, "program", i) <=> Accepts(ts, "name", i + 1))
         /\ i # Len(ts) + 1 /\ ~ Has(ts, i, "directive") /\ ~ Has(ts, i, "keyword")
               => ~ Accepts(ts, "program", i)
<1>1. Accepts(ts, "program", i) <=> ProgramAt(ts, i)
  BY DEF Accepts
<1>2. /\ Accepts(ts, "program", i + 1) <=> ProgramAt(ts, i + 1)
      /\ Accepts(ts, "path", i + 1) <=> Has(ts, i + 1, "string") /\ Op(ts, i + 2) /\ ProgramAt(ts, i + 3)
      /\ Accepts(ts, "name", i + 1) <=>
            /\ Has(ts, i + 1, "identifier") /\ Op(ts, i + 2) /\ Op(ts, i + 3) /\ Op(ts, i + 4)
            /\ BodyAt(ts, i + 5)
  BY Sums DEF Accepts
<1>3. /\ \A a, b : Has(ts, i, a) /\ Has(ts, i, b) => a = b
      /\ i = Len(ts) + 1 => \A a : ~ Has(ts, i, a)
  BY HasOne
<1>4. ProgramAt(ts, i) <=>
           \/ i = Len(ts) + 1
           \/ Has(ts, i, "directive") /\ ProgramAt(ts, i + 1)
           \/ /\ Has(ts, i, "keyword") /\ ts[i].value = Inherit
              /\ Has(ts, i + 1, "string") /\ Op(ts, i + 2) /\ ProgramAt(ts, i + 3)
           \/ /\ Has(ts, i, "keyword") /\ ts[i].value # Inherit
              /\ Has(ts, i + 1, "identifier") /\ Op(ts, i + 2) /\ Op(ts, i + 3) /\ Op(ts, i + 4)
              /\ BodyAt(ts, i + 5)
  BY ProgramIs
<1>5. "directive" # "keyword"
  OBVIOUS
<1> QED
  BY <1>1, <1>2, <1>3, <1>4, <1>5

LEMMA BodyToken ==
  ASSUME NEW ts, Len(ts) \in Nat, NEW i \in 1 .. Len(ts) + 1
  PROVE  /\ Op(ts, i) /\ ts[i].value = <<"}">> => (Accepts(ts, "body", i) <=> Accepts(ts, "program", i + 1))
         /\ Has(ts, i, "keyword") /\ ts[i].value = Return
               => (Accepts(ts, "body", i) <=> Accepts(ts, "value", i + 1))
         /\ ~ (Op(ts, i) /\ ts[i].value = <<"}">>) /\ ~ (Has(ts, i, "keyword") /\ ts[i].value = Return)
               => ~ Accepts(ts, "body", i)
<1>1. /\ Accepts(ts, "body", i) <=> BodyAt(ts, i)
      /\ Accepts(ts, "program", i + 1) <=> ProgramAt(ts, i + 1)
  BY DEF Accepts
<1>2. Accepts(ts, "value", i + 1) <=> /\ Has(ts, i + 1, "number") \/ Has(ts, i + 1, "string")
                                      /\ Op(ts, i + 2) /\ BodyAt(ts, i + 3)
  BY Sums DEF Accepts
<1>3. \A a, b : Has(ts, i, a) /\ Has(ts, i, b) => a = b
  BY HasOne
<1>4. BodyAt(ts, i) <=>
           \/ Op(ts, i) /\ ts[i].value = <<"}">> /\ ProgramAt(ts, i + 1)
           \/ /\ Has(ts, i, "keyword") /\ ts[i].value = Return
              /\ Has(ts, i + 1, "number") \/ Has(ts, i + 1, "string")
              /\ Op(ts, i + 2) /\ BodyAt(ts, i + 3)
  BY BodyIs
<1>5. ~ (Op(ts, i) /\ Has(ts, i, "keyword"))
  BY <1>3 DEF Op
<1> QED
  BY <1>1, <1>2, <1>4, <1>5

LEMMA ExpectedToken ==
  ASSUME NEW ts, Len(ts) \in Nat, NEW i \in 1 .. Len(ts) + 1
  PROVE  /\ Accepts(ts, "path", i) <=> Has(ts, i, "string") /\ Accepts(ts, "pathEnd", i + 1)
         /\ Accepts(ts, "pathEnd", i) <=> Op(ts, i) /\ Accepts(ts, "program", i + 1)
         /\ Accepts(ts, "name", i) <=> Has(ts, i, "identifier") /\ Accepts(ts, "open", i + 1)
         /\ Accepts(ts, "open", i) <=> Op(ts, i) /\ Accepts(ts, "close", i + 1)
         /\ Accepts(ts, "close", i) <=> Op(ts, i) /\ Accepts(ts, "brace", i + 1)
         /\ Accepts(ts, "brace", i) <=> Op(ts, i) /\ Accepts(ts, "body", i + 1)
         /\ Accepts(ts, "value", i) <=> (Has(ts, i, "number") \/ Has(ts, i, "string"))
                                           /\ Accepts(ts, "valueEnd", i + 1)
         /\ Accepts(ts, "valueEnd", i) <=> Op(ts, i) /\ Accepts(ts, "body", i + 1)
BY Sums DEF Accepts

\* The token that the parser looks at is one of the text's, or the end is there.
LEMMA Looks ==
  ASSUME LexInv, state \notin Done, mode = "idle"
  PROVE  LET ts == TokensOf(text)
             i == Len(tokens)
         IN  /\ Len(ts) \in Nat /\ i \in 1 .. Len(ts) + 1
             /\ Now("eof") <=> i = Len(ts) + 1
             /\ Now("eof") => Closed(text)
             /\ \A type \in TokenTypes \ {"eof"} : Now(type) <=> Has(ts, i, type)
             /\ i # Len(ts) + 1 => currentToken.value = ts[i].value /\ currentToken.type = ts[i].type
<1> DEFINE ts == TokensOf(text)
           i == Len(tokens)
<1>1. ReaderOK /\ LexType /\ TokensRight
  BY DEF LexInv
<1>2. /\ tokens \in Seq(Returned) /\ i \in Nat \ {0}
  BY Current
<1>3. Len(Found) \in Nat /\ Len(ts) = Len(Found)
      /\ \A k \in 1 .. Len(Found) : ts[k] = TokenAt(text, Found[k])
  BY <1>1, TokensFound
<1>4. i \in 1 .. Len(tokens)
  BY <1>2
<1>5. CASE Now("eof")
  <2>1. i = Len(ts) + 1 /\ Closed(text)
    BY <1>1, <1>3, <1>4, <1>5 DEF TokensRight, Now, currentToken
  <2>2. \A type : ~ Has(ts, i, type)
    BY <1>3, <2>1 DEF Has
  <2> QED
    BY <1>2, <1>3, <1>5, <2>1, <2>2 DEF Now
<1>6. CASE ~ Now("eof")
  <2>1. i <= Len(Found) /\ Matches(text, tokens[i], Found[i])
    BY <1>1, <1>4, <1>6 DEF TokensRight, Now, currentToken
  <2>2. i \in 1 .. Len(Found)
    BY <1>2, <1>3, <2>1
  <2>3. tokens[i].type = ts[i].type /\ tokens[i].value = ts[i].value
    BY <1>3, <2>1, <2>2 DEF Matches
  <2>4. i <= Len(ts) /\ i \in 1 .. Len(ts) + 1 /\ i # Len(ts) + 1
    BY <1>3, <2>2
  <2> HIDE DEF ts
  <2>5. \A type : Now(type) <=> Has(ts, i, type)
    BY <2>3, <2>4 DEF Has, Now, currentToken
  <2> QED
    BY <1>3, <1>6, <2>3, <2>4, <2>5 DEF currentToken, ts
<1> QED
  BY <1>5, <1>6

\* A step of the parser keeps what is accepted.
Keeps(ts, i) == \/ Goes(state') /\ state' \notin Done /\ (Accepts(ts, state, i) <=> Accepts(ts, state', i + 1))
                \/ Reject /\ ~ Accepts(ts, state, i)
                \/ Accept /\ Accepts(ts, state, i) /\ Closed(text)

LEMMA ExpectKeeps ==
  ASSUME LexInv, state \notin Done, mode = "idle",
         NEW here, NEW types \in SUBSET (TokenTypes \ {"eof"}), NEW next, NEW kept, next \notin Done,
         Expects(here, types, next, kept),
         NEW i, i = Len(tokens), NEW ts, ts = TokensOf(text),
         Accepts(ts, here, i) <=> (\E type \in types : Has(ts, i, type)) /\ Accepts(ts, next, i + 1)
  PROVE  Keeps(ts, i)
<1>1. \A type \in TokenTypes \ {"eof"} : Now(type) <=> Has(ts, i, type)
  BY Looks
<1>2. currentToken.type \in types <=> \E type \in types : Has(ts, i, type)
  BY <1>1 DEF Now
<1>3. state = here
  BY DEF Expects
<1>4. CASE currentToken.type \in types
  <2>1. Goes(next) /\ state' = next
    BY <1>4 DEF Expects, Goes
  <2> QED
    BY <1>2, <1>3, <1>4, <2>1 DEF Keeps, Done
<1>5. CASE currentToken.type \notin types
  <2>1. Reject
    BY <1>5 DEF Expects
  <2> QED
    BY <1>2, <1>3, <1>5, <2>1 DEF Keeps, Done
<1> QED
  BY <1>4, <1>5

LEMMA ParserKeeps ==
  ASSUME LexInv, state \notin Done, mode = "idle", Parse \/ Expect \/ ParseInheritEnd \/ ParseBody,
         NEW i, i = Len(tokens), NEW ts, ts = TokensOf(text)
  PROVE  Keeps(ts, i)
<1>1. /\ Len(ts) \in Nat /\ i \in 1 .. Len(ts) + 1
      /\ Now("eof") <=> i = Len(ts) + 1
      /\ Now("eof") => Closed(text)
      /\ \A type \in TokenTypes \ {"eof"} : Now(type) <=> Has(ts, i, type)
      /\ i # Len(ts) + 1 => currentToken.value = ts[i].value
  BY Looks
<1>2. /\ Now("directive") <=> Has(ts, i, "directive")
      /\ Now("keyword") <=> Has(ts, i, "keyword")
      /\ Now("operator") <=> Op(ts, i)
  BY <1>1 DEF TokenTypes, Op
<1>3. \A type : Has(ts, i, type) => i # Len(ts) + 1
  BY <1>1 DEF Has
<1>4. CASE Parse
  <2>1. state = "program"
    BY <1>4, ParseSteps
  <2>2. CASE Now("eof") /\ Accept
    BY <1>1, <2>1, <2>2, ProgramToken DEF Keeps, Done
  <2>3. CASE Now("directive") /\ Goes("program")
    <3>1. Has(ts, i, "directive") /\ state' = "program"
      BY <1>2, <2>3 DEF Goes
    <3> QED
      BY <1>1, <2>1, <2>3, <3>1, ProgramToken DEF Keeps, Done
  <2>4. CASE Now("keyword") /\ currentToken.value = Inherit /\ Goes("path")
    <3>1. Has(ts, i, "keyword") /\ ts[i].value = Inherit /\ state' = "path"
      BY <1>1, <1>2, <1>3, <2>4 DEF Goes
    <3> QED
      BY <1>1, <2>1, <2>4, <3>1, ProgramToken DEF Keeps, Done
  <2>5. CASE Now("keyword") /\ currentToken.value # Inherit /\ Goes("name")
    <3>1. Has(ts, i, "keyword") /\ ts[i].value # Inherit /\ state' = "name"
      BY <1>1, <1>2, <1>3, <2>5 DEF Goes
    <3> QED
      BY <1>1, <2>1, <2>5, <3>1, ProgramToken DEF Keeps, Done
  <2>6. CASE ~ (Now("eof") \/ Now("directive") \/ Now("keyword")) /\ Reject
    BY <1>1, <1>2, <2>1, <2>6, ProgramToken DEF Keeps, Done
  <2> QED
    BY <1>4, <2>2, <2>3, <2>4, <2>5, <2>6, ParseSteps
<1>5. CASE Expect
  <2> DEFINE Ex(here, types, next) ==
        Accepts(ts, here, i) <=> (\E type \in types : Has(ts, i, type)) /\ Accepts(ts, next, i + 1)
  <2>1. /\ Ex("path", {"string"}, "pathEnd") /\ Ex("name", {"identifier"}, "open")
        /\ Ex("open", {"operator"}, "close") /\ Ex("close", {"operator"}, "brace")
        /\ Ex("brace", {"operator"}, "body") /\ Ex("value", {"number", "string"}, "valueEnd")
        /\ Ex("valueEnd", {"operator"}, "body")
    BY <1>1, ExpectedToken DEF Op
  <2>2. ASSUME NEW here, NEW types \in SUBSET (TokenTypes \ {"eof"}), NEW next, NEW kept, next \notin Done,
               Ex(here, types, next), Expects(here, types, next, kept)
        PROVE  Keeps(ts, i)
    BY <2>2, ExpectKeeps
  <2>3. {{"string"}, {"identifier"}, {"operator"}, {"number", "string"}} \subseteq SUBSET (TokenTypes \ {"eof"})
    BY DEF TokenTypes
  <2>4. {"pathEnd", "open", "close", "brace", "body", "valueEnd"} \cap Done = {}
    BY DEF Done
  <2> HIDE DEF Ex
  <2> QED
    BY <1>5, <2>1, <2>2, <2>3, <2>4, ExpectSteps
<1>6. CASE ParseInheritEnd
  <2>1. state = "pathEnd" /\ EndNode
    BY <1>6 DEF ParseInheritEnd, Reads
  <2>2. Accepts(ts, "pathEnd", i) <=> Op(ts, i) /\ Accepts(ts, "program", i + 1)
    BY <1>1, ExpectedToken
  <2>3. CASE Now("operator") /\ Goes("program")
    BY <1>2, <2>1, <2>2, <2>3 DEF Keeps, Done, Goes
  <2>4. CASE ~ Now("operator") /\ Reject
    BY <1>2, <2>1, <2>2, <2>4 DEF Keeps, Done
  <2> QED
    BY <2>1, <2>3, <2>4, EndNodeSteps
<1>7. CASE ParseBody
  <2>1. state = "body"
    BY <1>7, ParseBodySteps
  <2>2. CASE (Now("eof") \/ currentToken.value = <<"}">>) /\ EndNode
    <3>1. CASE Now("operator") /\ Goes("program")
      <4>1. Op(ts, i) /\ ts[i].value = <<"}">> /\ state' = "program"
        BY <1>1, <1>2, <1>3, <2>2, <3>1 DEF Goes, Op
      <4> QED
        BY <1>1, <2>1, <3>1, <4>1, BodyToken DEF Keeps, Done
    <3>2. CASE ~ Now("operator") /\ Reject
      <4>1. ~ (Has(ts, i, "keyword") /\ ts[i].value = Return)
        <5>1. CASE Now("eof")
          BY <1>1, <1>3, <5>1
        <5>2. CASE ~ Now("eof") /\ currentToken.value = <<"}">>
          <6>1. ts[i].value = <<"}">> /\ Return # <<"}">>
            BY <1>1, <5>2, NoBraceKeyword DEF Keywords
          <6> QED
            BY <6>1
        <5> QED
          BY <2>2, <5>1, <5>2
      <4>2. ~ Op(ts, i)
        BY <1>2, <3>2
      <4> QED
        BY <1>1, <2>1, <3>2, <4>1, <4>2, BodyToken DEF Keeps, Done
    <3> QED
      BY <2>2, <3>1, <3>2, EndNodeSteps
  <2>3. CASE /\ Now("keyword") /\ currentToken.value = Return /\ Goes("value")
    <3>1. Has(ts, i, "keyword") /\ ts[i].value = Return /\ state' = "value"
      BY <1>1, <1>2, <1>3, <2>3 DEF Goes
    <3> QED
      BY <1>1, <2>1, <2>3, <3>1, BodyToken DEF Keeps, Done
  <2>4. CASE /\ ~ (Now("eof") \/ currentToken.value = <<"}">>)
             /\ ~ (Now("keyword") /\ currentToken.value = Return) /\ Reject
    <3>1. ts[i].value # <<"}">> /\ ~ (Has(ts, i, "keyword") /\ ts[i].value = Return)
      BY <1>1, <1>2, <1>3, <2>4
    <3> QED
      BY <1>1, <2>1, <2>4, <3>1, BodyToken DEF Keeps, Done
  <2> QED
    BY <1>7, <2>2, <2>3, <2>4, ParseBodySteps
<1> QED
  BY <1>4, <1>5, <1>6, <1>7

\* What an action of NextToken does to the tokens: it goes on, it returns one, or
\* a string is not closed.
GoesOnReading == mode' # "idle" /\ UNCHANGED <<tokens, parser>>
Returns == mode' = "idle" /\ (\E t : tokens' = Append(tokens, t)) /\ UNCHANGED parser
Fails == mode \in {"string", "escape"} /\ NextRune /\ Coming = None /\ Error

LEMMA ReturnTokenReturns ==
  ASSUME NEW type, NEW v, NEW place, ReturnToken(type, v, place), UNCHANGED parser
  PROVE  Returns
BY DEF ReturnToken, Returns

LEMMA Turns ==
  ASSUME NextToken
  PROVE  mode # "idle" /\ (GoesOnReading \/ Returns \/ Fails)
<1> USE ReturnTokenReturns
<1>1. CASE Skip
  BY <1>1 DEF Skip, GoesOnReading
<1>2. CASE DirectiveFirst
  BY <1>2 DEF DirectiveFirst, First, Into, GoesOnReading
<1>3. CASE SlashFirst
  BY <1>3 DEF SlashFirst, First, Into, GoesOnReading
<1>4. CASE NumberFirst
  BY <1>4 DEF NumberFirst, First, Into, GoesOnReading
<1>5. CASE StringFirst
  BY <1>5 DEF StringFirst, First, Into, GoesOnReading
<1>6. CASE WordFirst
  BY <1>6 DEF WordFirst, First, Into, GoesOnReading
<1>7. CASE SignFirst
  BY <1>7 DEF SignFirst, First
<1>8. CASE Word
  BY <1>8 DEF Word, More, Into, GoesOnReading
<1>9. CASE Number
  BY <1>9 DEF Number, More, Into, GoesOnReading
<1>10. CASE Directive
  BY <1>10 DEF Directive, More, Into, GoesOnReading
<1>11. CASE Params
  BY <1>11 DEF Params, More, Into, GoesOnReading
<1>12. CASE Comment
  BY <1>12 DEF Comment, More, Into, GoesOnReading
<1>13. CASE String
  <2> Quote # None /\ Backslash # None /\ Quote # Backslash
    BY ParserAssumption DEF Runes, Quote, Backslash
  <2>1. CASE Coming = None
    BY <1>13, <2>1 DEF String, Fails
  <2>2. CASE Coming = Quote
    BY <1>13, <2>2 DEF String
  <2>3. CASE Coming = Backslash
    BY <1>13, <2>3 DEF String, Into, GoesOnReading
  <2>4. CASE Coming \notin {None, Quote, Backslash}
    BY <1>13, <2>4 DEF String, More, Into, GoesOnReading
  <2> QED
    BY <2>1, <2>2, <2>3, <2>4
<1>14. CASE Escape
  BY <1>14 DEF Escape, Into, GoesOnReading, Fails
<1> QED
  BY <1>1, <1>2, <1>3, <1>4, <1>5, <1>6, <1>7, <1>8, <1>9, <1>10, <1>11, <1>12, <1>13, <1>14 DEF NextToken

LEMMA LenOfAppend == ASSUME NEW S, NEW s \in Seq(S), NEW t PROVE Len(Append(s, t)) = Len(s) + 1
<1>1. s \in Seq(S \cup {t})
  OBVIOUS
<1> QED
  BY <1>1, AppendProperties

\* How many tokens the parser is done with
Consumed == IF mode = "idle" THEN Len(tokens) - 1 ELSE Len(tokens)

\* NextToken does nothing to the parser, or rejects a string that is not closed.
LEMMA NextTokenConsumes ==
  ASSUME LexInv, NextToken
  PROVE  /\ UNCHANGED text /\ state \notin Done
         /\ \/ Consumed' = Consumed /\ UNCHANGED parser
            \/ state' = "rejected" /\ ~ Closed(text)
<1>1. tokens \in Seq(Returned) /\ Len(tokens) \in Nat
  BY DEF LexInv, LexType
<1>2. mode # "idle" /\ state \notin Done /\ UNCHANGED text
  BY Turns DEF NextToken
<1>3. CASE GoesOnReading
  BY <1>2, <1>3 DEF GoesOnReading, Consumed
<1>4. CASE Returns
  <2>1. Len(tokens') = Len(tokens) + 1 /\ mode' = "idle" /\ UNCHANGED parser
    BY <1>1, <1>4, LenOfAppend DEF Returns
  <2> QED
    BY <1>1, <1>2, <2>1 DEF Consumed
<1>5. CASE Fails
  <2>1. ~ Closed(text) /\ state' = "rejected"
    BY <1>2, <1>5, ErrorStep DEF Fails, Error
  <2> QED
    BY <1>2, <2>1
<1> QED
  BY <1>2, <1>3, <1>4, <1>5, Turns

LEMMA ParserActs ==
  ASSUME Parse \/ Expect \/ ParseInheritEnd \/ ParseBody
  PROVE  mode = "idle" /\ state \notin Done
<1>1. CASE Parse
  BY <1>1, ParseSteps DEF Done
<1>2. CASE Expect
  BY <1>2, ExpectSteps DEF Done, Expects
<1>3. CASE ParseInheritEnd
  BY <1>3 DEF ParseInheritEnd, Reads, Done
<1>4. CASE ParseBody
  BY <1>4, ParseBodySteps DEF Done
<1> QED
  BY <1>1, <1>2, <1>3, <1>4

\* With the signs left aside, Parse takes what has the shape of a program and
\* nothing else.
ParserShape == /\ state = "accepted" => Closed(text) /\ Shape(TokensOf(text))
               /\ state = "rejected" => ~(Closed(text) /\ Shape(TokensOf(text)))
Parsed == /\ state \notin Done => (Shape(TokensOf(text)) <=> Accepts(TokensOf(text), state, Consumed + 1))
          /\ ParserShape

LEMMA InitParsed == ASSUME Init PROVE Parsed
<1>1. state = "program" /\ state \notin Done /\ Consumed + 1 = 1
  BY DEF Init, Done, Consumed
<1>2. Shape(TokensOf(text)) <=> Accepts(TokensOf(text), "program", 1)
  BY DEF Shape, Accepts, ProgramAt
<1> QED
  BY <1>1, <1>2 DEF Parsed, ParserShape, Done

LEMMA StepParsed ==
  ASSUME IInv, Parsed, [Next]_vars
  PROVE  Parsed'
<1> DEFINE ts == TokensOf(text)
<1>1. LexInv /\ tokens \in Seq(Returned) /\ Len(tokens) \in Nat
  BY DEF IInv, LexInv, LexType
<1>2. CASE NextToken
  <2>1. /\ UNCHANGED text /\ state \notin Done
        /\ \/ Consumed' = Consumed /\ UNCHANGED parser
           \/ state' = "rejected" /\ ~ Closed(text)
    BY <1>1, <1>2, NextTokenConsumes
  <2>2. CASE Consumed' = Consumed /\ UNCHANGED parser
    BY <2>1, <2>2 DEF Parsed, ParserShape, parser
  <2>3. CASE state' = "rejected" /\ ~ Closed(text)
    BY <2>1, <2>3 DEF Parsed, ParserShape, Done
  <2> QED
    BY <2>1, <2>2, <2>3
<1>3. CASE Parse \/ Expect \/ ParseInheritEnd \/ ParseBody
  <2>1. mode = "idle" /\ state \notin Done
    BY <1>3, ParserActs
  <2>2. Keeps(ts, Len(tokens))
    BY <1>1, <1>3, <2>1, ParserKeeps
  <2>3. Shape(ts) <=> Accepts(ts, state, Len(tokens))
    <3>1. Consumed + 1 = Len(tokens)
      BY <1>1, <2>1 DEF Consumed
    <3> QED
      BY <2>1, <3>1 DEF Parsed
  <2>4. CASE Goes(state') /\ state' \notin Done /\ (Accepts(ts, state, Len(tokens)) <=> Accepts(ts, state', Len(tokens) + 1))
    <3>1. text' = text /\ Consumed' = Len(tokens)
      BY <2>4 DEF Goes, Advance, Consumed
    <3> QED
      BY <2>3, <2>4, <3>1 DEF Parsed, ParserShape, Done
  <2>5. CASE Reject /\ ~ Accepts(ts, state, Len(tokens))
    BY <2>3, <2>5 DEF Reject, Parsed, ParserShape, Done
  <2>6. CASE Accept /\ Accepts(ts, state, Len(tokens)) /\ Closed(text)
    BY <2>3, <2>6 DEF Accept, Parsed, ParserShape, Done
  <2> QED
    BY <2>2, <2>4, <2>5, <2>6 DEF Keeps
<1>4. CASE UNCHANGED vars
  <2>1. UNCHANGED <<text, mode, tokens, state>>
    BY <1>4 DEF vars, lexer, parser
  <2> QED
    BY <2>1 DEF Parsed, ParserShape, Consumed
<1> QED
  BY <1>2, <1>3, <1>4 DEF Next

\* For every set of texts: Parse takes every program of the grammar with its
\* strings closed, and nothing that is not one but for the signs
\* (lpcparser.go:407-582).
THEOREM ParserIsRight == Spec => []ParserRight
<1>1. Spec => []Parsed
  BY Invariant, InitParsed, StepParsed, PTL DEF Spec
<1>2. Parsed => ParserRight
  BY DEF Parsed, ParserShape, ParserRight, Program
<1> QED
  BY <1>1, <1>2, PTL
-----------------------------------------------------------------------------
(* The tree.                                                                 *)

Flattens(ss, f) == f = [i \in 1 .. Len(ss) |-> IF i = 1 THEN ss[i] ELSE f[i - 1] \o ss[i]]

LEMMA FlattenExists ==
  ASSUME NEW S, NEW ss \in Seq(Seq(S)), Len(ss) # 0
  PROVE  \E f \in [1 .. Len(ss) -> Seq(S)] : Flattens(ss, f)
<1> DEFINE n == Len(ss)
           Q == Seq(S)
           Longer(x, i) == IF i = 1 THEN ss[i] ELSE x \o ss[i]
           step == [i \in 1 .. n |-> [x \in Q |-> Longer(x, i)]]
<1>1. n \in Nat /\ << >> \in Q /\ \A i \in 1 .. n : ss[i] \in Q
  OBVIOUS
<1>2. \A i \in 1 .. n : \A x \in Q : Longer(x, i) \in Q
  BY <1>1, ConcatProperties
<1>3. \A i \in 1 .. n : \A x \in Q : step[i][x] = Longer(x, i)
  <2> HIDE DEF Longer, Q, n
  <2> QED
    OBVIOUS
<1>4. step \in [1 .. n -> [Q -> Q]]
  <2> HIDE DEF n, Q, Longer
  <2> QED
    BY <1>2
<1> HIDE DEF n, Q, step
<1>5. PICK f \in [0 .. n -> Q] : Recursion(f, n, << >>, step)
  BY <1>1, <1>4, RecursionExists DEF Recursive
<1> DEFINE g == [i \in 1 .. n |-> f[i]]
<1>6. g \in [1 .. n -> Q]
  BY <1>1, <1>5
<1>7. \A i \in 1 .. n : g[i] = IF i = 1 THEN ss[i] ELSE g[i - 1] \o ss[i]
  <2> TAKE i \in 1 .. n
  <2>1. f[i] = Longer(f[i - 1], i)
    <3>1. i - 1 \in 0 .. n
      BY <1>1
    <3>2. f[i] = step[i][f[i - 1]] /\ f[i - 1] \in Q
      BY <1>5, <3>1 DEF Recursion
    <3> HIDE DEF Longer
    <3> QED
      BY <1>3, <3>2
  <2>2. CASE i = 1
    BY <2>1, <2>2
  <2>3. CASE i # 1
    <3>1. i - 1 \in 1 .. n
      BY <1>1, <2>3
    <3>2. g[i - 1] = f[i - 1]
      BY <3>1
    <3> QED
      BY <2>1, <2>3, <3>2
  <2> QED
    BY <2>2, <2>3
<1>8. g = [i \in 1 .. n |-> IF i = 1 THEN ss[i] ELSE g[i - 1] \o ss[i]]
  <2>1. g = [i \in 1 .. n |-> g[i]]
    OBVIOUS
  <2> HIDE DEF g
  <2> QED
    BY <1>7, <2>1
<1> HIDE DEF g
<1> QED
  BY <1>6, <1>8 DEF Flattens, n, Q

LEMMA FlattenIs ==
  ASSUME NEW S, NEW ss \in Seq(Seq(S)), Len(ss) # 0
  PROVE  \E f \in [1 .. Len(ss) -> Seq(S)] :
            /\ FlattenSeq(ss) = f[Len(ss)]
            /\ f[1] = ss[1] /\ \A i \in 2 .. Len(ss) : f[i] = f[i - 1] \o ss[i]
<1>1. \E f : Flattens(ss, f)
  BY FlattenExists
<1>2. FlattenSeq(ss) = (CHOOSE f : Flattens(ss, f))[Len(ss)]
  BY DEF FlattenSeq, Flattens
<1>3. PICK f : Flattens(ss, f) /\ FlattenSeq(ss) = f[Len(ss)]
  BY <1>1, <1>2
<1>4. \A i \in 1 .. Len(ss) : f[i] = IF i = 1 THEN ss[i] ELSE f[i - 1] \o ss[i]
  BY <1>3 DEF Flattens
<1>5. Len(ss) \in Nat /\ \A i \in 1 .. Len(ss) : ss[i] \in Seq(S)
  OBVIOUS
<1>6. f[1] = ss[1] /\ \A i \in 2 .. Len(ss) : f[i] = f[i - 1] \o ss[i]
  <2>1. 1 \in 1 .. Len(ss)
    BY <1>5
  <2>2. f[1] = ss[1]
    BY <1>4, <2>1
  <2>3. ASSUME NEW i \in 2 .. Len(ss) PROVE f[i] = f[i - 1] \o ss[i]
    <3>1. i \in 1 .. Len(ss) /\ i # 1
      OBVIOUS
    <3> QED
      BY <1>4, <3>1
  <2> QED
    BY <2>2, <2>3
<1> DEFINE good == {i \in Nat : i \in 1 .. Len(ss) => f[i] \in Seq(S)}
<1>7. \A i \in 1 .. Len(ss) : f[i] \in Seq(S)
  <2>1. 0 \in good
    OBVIOUS
  <2>2. ASSUME NEW i \in 1 .. Len(ss), i - 1 \in good PROVE i \in good
    <3>1. CASE i = 1
      BY <1>5, <1>6, <3>1
    <3>2. CASE i # 1
      <4>1. i \in 2 .. Len(ss) /\ i - 1 \in 1 .. Len(ss)
        BY <1>5, <3>2
      <4>2. f[i] = f[i - 1] \o ss[i] /\ f[i - 1] \in Seq(S) /\ ss[i] \in Seq(S)
        BY <1>5, <1>6, <2>2, <4>1
      <4>3. f[i] \in Seq(S)
        BY <4>2, ConcatProperties
      <4> QED
        BY <4>3
    <3> QED
      BY <3>1, <3>2
  <2>3. good \in SUBSET Nat
    OBVIOUS
  <2> HIDE DEF good
  <2>4. 0 .. Len(ss) \subseteq good
    BY <1>5, <2>1, <2>2, <2>3, Induction
  <2> TAKE i \in 1 .. Len(ss)
  <2>5. i \in 0 .. Len(ss)
    BY <1>5
  <2>6. i \in good
    BY <2>4, <2>5
  <2> QED
    BY <2>6 DEF good
<1>8. f \in [1 .. Len(ss) -> Seq(S)]
  BY <1>3, <1>7 DEF Flattens
<1> QED
  BY <1>3, <1>6, <1>8

LEMMA FlattenAppend ==
  ASSUME NEW S, NEW ss \in Seq(Seq(S)), NEW s \in Seq(S)
  PROVE  /\ FlattenSeq(ss) \in Seq(S)
         /\ FlattenSeq(Append(ss, s)) = FlattenSeq(ss) \o s
         /\ ss = << >> => FlattenSeq(ss) = << >>
<1> DEFINE n == Len(ss)
           t == Append(ss, s)
<1>1. n \in Nat /\ t \in Seq(Seq(S)) /\ Len(t) = n + 1 /\ t[n + 1] = s
      /\ \A i \in 1 .. n : t[i] = ss[i]
  BY AppendProperties
<1> HIDE DEF n, t
<1>2. PICK g \in [1 .. Len(t) -> Seq(S)] :
            /\ FlattenSeq(t) = g[Len(t)]
            /\ g[1] = t[1] /\ \A i \in 2 .. Len(t) : g[i] = g[i - 1] \o t[i]
  <2>1. Len(t) # 0
    BY <1>1
  <2>2. \A q \in Seq(Seq(S)) : Len(q) # 0 =>
          \E f \in [1 .. Len(q) -> Seq(S)] :
            /\ FlattenSeq(q) = f[Len(q)]
            /\ f[1] = q[1] /\ \A i \in 2 .. Len(q) : f[i] = f[i - 1] \o q[i]
    BY FlattenIs
  <2> QED
    BY <1>1, <2>1, <2>2
<1>3. CASE n = 0
  <2>1. ss = << >> /\ FlattenSeq(ss) = << >>
    <3>1. ss = << >>
      BY <1>3 DEF n
    <3> QED
      BY <1>3, <3>1 DEF FlattenSeq, n
  <2>2. FlattenSeq(t) = s
    BY <1>1, <1>2, <1>3
  <2>3. << >> \o s = s
    BY ConcatEmptySeq
  <2>4. << >> \in Seq(S)
    OBVIOUS
  <2>5. FlattenSeq(ss) \in Seq(S) /\ FlattenSeq(t) = FlattenSeq(ss) \o s
    BY <2>1, <2>2, <2>3, <2>4
  <2> QED
    BY <2>1, <2>5 DEF t
<1>4. CASE n # 0
  <2>1. PICK f \in [1 .. n -> Seq(S)] :
            /\ FlattenSeq(ss) = f[n]
            /\ f[1] = ss[1] /\ \A i \in 2 .. n : f[i] = f[i - 1] \o ss[i]
    BY <1>4, FlattenIs DEF n
  <2> DEFINE good == {i \in Nat : i \in 1 .. n => f[i] = g[i]}
  <2>2. n \in good
    <3>1. 0 \in good
      OBVIOUS
    <3>2. ASSUME NEW i \in 1 .. n, i - 1 \in good PROVE i \in good
      <4>1. CASE i = 1
        BY <1>1, <1>2, <2>1, <4>1
      <4>2. CASE i # 1
        <5>1. i \in 2 .. n /\ i - 1 \in 1 .. n /\ i \in 2 .. Len(t)
          BY <1>1, <4>2
        <5>2. f[i] = f[i - 1] \o ss[i]
          BY <2>1, <5>1
        <5>3. g[i] = g[i - 1] \o t[i]
          BY <1>2, <5>1
        <5>4. t[i] = ss[i]
          BY <1>1
        <5>5. f[i - 1] = g[i - 1]
          BY <3>2, <5>1
        <5>6. f[i] = g[i]
          BY <5>2, <5>3, <5>4, <5>5
        <5> QED
          BY <1>1, <5>6
      <4> QED
        BY <4>1, <4>2
    <3>3. good \in SUBSET Nat
      OBVIOUS
    <3> HIDE DEF good
    <3>4. 0 .. n \subseteq good
      BY <1>1, <3>1, <3>2, <3>3, Induction
    <3> QED
      BY <1>1, <3>4
  <2>3. f[n] = g[n] /\ f[n] \in Seq(S)
    BY <1>1, <1>4, <2>1, <2>2
  <2>4. g[n + 1] = g[n] \o t[n + 1]
    <3>1. n + 1 \in 2 .. Len(t) /\ (n + 1) - 1 = n
      BY <1>1, <1>4
    <3> QED
      BY <1>2, <3>1
  <2>5. ss # << >>
    BY <1>4 DEF n
  <2> QED
    BY <1>1, <1>2, <2>1, <2>3, <2>4, <2>5 DEF t
<1> QED
  BY <1>3, <1>4

\* What the tree has of a token, and of the first n tokens, in the end
Leaf(ts, i) == IF Kept(ts, i) THEN <<ts[i].value>> ELSE << >>
Leaves(ts, n) == FlattenSeq([i \in 1 .. n |-> Leaf(ts, i)])

LEMMA LeavesType ==
  ASSUME NEW ts, NEW n \in Nat, \A i \in 1 .. n : ts[i].value \in Value
  PROVE  [i \in 1 .. n |-> Leaf(ts, i)] \in Seq(Seq(Value)) /\ Leaves(ts, n) \in Seq(Value)
<1> DEFINE ss == [i \in 1 .. n |-> Leaf(ts, i)]
<1>1. \A i \in 1 .. n : Leaf(ts, i) \in Seq(Value)
  <2> TAKE i \in 1 .. n
  <2>1. ts[i].value \in Value
    OBVIOUS
  <2> HIDE DEF Value
  <2> DEFINE v == ts[i].value
  <2>2. <<v>> \in Seq(Value) /\ << >> \in Seq(Value)
    BY <2>1
  <2> QED
    BY <2>2 DEF Leaf
<1>2. ss \in Seq(Seq(Value))
  <2> HIDE DEF Value, Leaf
  <2> QED
    BY <1>1
<1> HIDE DEF ss
<1>3. << >> \in Seq(Value)
  OBVIOUS
<1>4. FlattenSeq(ss) \in Seq(Value)
  BY <1>2, <1>3, FlattenAppend
<1> QED
  BY <1>2, <1>4 DEF Leaves, ss

LEMMA LeavesNext ==
  ASSUME NEW ts, NEW n \in Nat, \A i \in 1 .. n + 1 : ts[i].value \in Value
  PROVE  Leaves(ts, n + 1) = Leaves(ts, n) \o Leaf(ts, n + 1)
<1> DEFINE ss == [i \in 1 .. n |-> Leaf(ts, i)]
           tt == [i \in 1 .. n + 1 |-> Leaf(ts, i)]
<1>1. ss \in Seq(Seq(Value)) /\ tt \in Seq(Seq(Value))
  <2>1. n + 1 \in Nat /\ \A i \in 1 .. n : ts[i].value \in Value
    OBVIOUS
  <2> HIDE DEF Value
  <2> QED
    BY <2>1, LeavesType
<1>2. Leaf(ts, n + 1) \in Seq(Value)
  <2>1. n + 1 \in 1 .. n + 1 /\ tt[n + 1] = Leaf(ts, n + 1)
    OBVIOUS
  <2>2. Len(tt) = n + 1
    OBVIOUS
  <2> HIDE DEF tt, Value, Leaf
  <2> QED
    BY <1>1, <2>1, <2>2, ElementOfSeq
<1>3. tt = Append(ss, Leaf(ts, n + 1))
  <2>1. Len(ss) = n /\ Len(tt) = n + 1
    OBVIOUS
  <2>2. (\A i \in 1 .. n : ss[i] = Leaf(ts, i)) /\ (\A i \in 1 .. n + 1 : tt[i] = Leaf(ts, i))
    OBVIOUS
  <2> HIDE DEF ss, tt, Leaf, Value
  <2>3. /\ Append(ss, Leaf(ts, n + 1)) \in Seq(Seq(Value))
        /\ Len(Append(ss, Leaf(ts, n + 1))) = n + 1
        /\ Append(ss, Leaf(ts, n + 1))[n + 1] = Leaf(ts, n + 1)
        /\ \A i \in 1 .. n : Append(ss, Leaf(ts, n + 1))[i] = ss[i]
    BY <1>1, <1>2, <2>1, AppendProperties
  <2>4. ASSUME NEW i \in 1 .. n + 1 PROVE tt[i] = Append(ss, Leaf(ts, n + 1))[i]
    BY <2>2, <2>3
  <2> QED
    BY <1>1, <2>1, <2>3, <2>4, SeqEqual
<1> HIDE DEF ss, tt
<1>4. FlattenSeq(tt) = FlattenSeq(ss) \o Leaf(ts, n + 1)
  BY <1>1, <1>2, <1>3, FlattenAppend
<1> QED
  BY <1>4 DEF Leaves, ss, tt

LEMMA NoLeaves == ASSUME NEW ts PROVE Leaves(ts, 0) = << >>
<1>1. [i \in 1 .. 0 |-> Leaf(ts, i)] = << >>
  OBVIOUS
<1>2. Len([i \in 1 .. 0 |-> Leaf(ts, i)]) = 0
  BY <1>1
<1> QED
  BY <1>1, <1>2 DEF Leaves, FlattenSeq

LEMMA LeafIs ==
  ASSUME NEW ts, NEW i
  PROVE  /\ ts[i].type \notin {"operator", "keyword"} => Leaf(ts, i) = <<ts[i].value>>
         /\ ts[i].type = "operator" => Leaf(ts, i) = << >>
         /\ ts[i].type = "keyword" /\ ts[i].value = Inherit => Leaf(ts, i) = << >>
         /\ ts[i].type = "keyword" /\ ts[i].value # Inherit /\ ts[i + 1].type = "identifier"
               => Leaf(ts, i) = <<ts[i].value>>
         /\ ts[i].type = "keyword" /\ ts[i].value = Return /\ ts[i + 1].type # "identifier"
               => Leaf(ts, i) = << >>
BY DEF Leaf, Kept, StatementReturn, Is

LEMMA ConcatAppend ==
  ASSUME NEW S, NEW s \in Seq(S), NEW t \in Seq(S), NEW x \in S
  PROVE  s \o Append(t, x) = (s \o t) \o <<x>>
<1>1. Append(t, x) = t \o <<x>> /\ <<x>> \in Seq(S)
  BY AppendIsConcat
<1> QED
  BY <1>1, ConcatAssociative

\* The token that a step of the parser takes
LEMMA Consumes ==
  ASSUME LexInv, state \notin Done, mode = "idle", ~ Now("eof"),
         NEW ts, ts = TokensOf(text), NEW i, i = Len(tokens)
  PROVE  /\ i \in Nat \ {0} /\ i \in 1 .. Len(ts) /\ Len(ts) \in Nat
         /\ currentToken.type = ts[i].type /\ currentToken.value = ts[i].value /\ ts[i].value \in Value
         /\ \A n \in 1 .. i : /\ Leaves(ts, n - 1) \in Seq(Value)
                              /\ Leaves(ts, n) = Leaves(ts, n - 1) \o Leaf(ts, n)
<1>1. /\ Len(ts) \in Nat /\ i \in 1 .. Len(ts) /\ i \in Nat \ {0}
      /\ currentToken.value = ts[i].value /\ currentToken.type = ts[i].type
  <2>1. /\ Len(ts) \in Nat /\ i \in 1 .. Len(ts) + 1
        /\ Now("eof") <=> i = Len(ts) + 1
        /\ i # Len(ts) + 1 => currentToken.value = ts[i].value /\ currentToken.type = ts[i].type
    BY Looks
  <2> QED
    BY <2>1
<1>2. \A k \in 1 .. Len(ts) : ts[k].value \in Value
  <2>1. ReaderOK
    BY DEF LexInv
  <2>2. /\ Len(ts) = Len(Found)
        /\ \A k \in 1 .. Len(Found) : ts[k] = TokenAt(text, Found[k])
    BY <2>1, TokensFound
  <2>3. text \in Seq(Runes)
    BY <2>1, Reader
  <2>4. \A k \in 1 .. Len(Found) : Found[k] \in Places(text)
    BY <2>1, FoundRight
  <2>5. \A k \in 1 .. Len(Found) : TokenAt(text, Found[k]) \in Token(text)
    BY <2>3, <2>4, TokenType
  <2> QED
    BY <2>2, <2>5 DEF Token, Value
<1>3. ASSUME NEW n \in 1 .. i
      PROVE  Leaves(ts, n - 1) \in Seq(Value) /\ Leaves(ts, n) = Leaves(ts, n - 1) \o Leaf(ts, n)
  <2>1. n - 1 \in Nat /\ (n - 1) + 1 = n /\ \A k \in 1 .. n : k \in 1 .. Len(ts)
    BY <1>1
  <2> PICK m \in Nat : m = n - 1 /\ m + 1 = n
    BY <2>1
  <2>2. \A k \in 1 .. m + 1 : ts[k].value \in Value
    BY <1>2, <2>1
  <2>3. \A k \in 1 .. m : ts[k].value \in Value
    BY <2>2
  <2> HIDE DEF Value
  <2>4. Leaves(ts, m) \in Seq(Value)
    BY <2>3, LeavesType
  <2>5. Leaves(ts, m + 1) = Leaves(ts, m) \o Leaf(ts, m + 1)
    BY <2>2, LeavesNext
  <2> QED
    BY <2>4, <2>5
<1> QED
  BY <1>1, <1>2, <1>3

\* What the parser has kept: of the first n tokens, in a state.  A keyword at the
\* head of a function, or a return, waits for the token behind it.
Keeping(here, ts, n, nodes, out) ==
  /\ here = "program" => out = Leaves(ts, n)
  /\ here = "name" => /\ n # 0 /\ ts[n].type = "keyword" /\ ts[n].value # Inherit
                      /\ nodes = <<ts[n].value>> /\ out = Leaves(ts, n - 1)
  /\ here = "value" => /\ n # 0 /\ ts[n].type = "keyword" /\ ts[n].value = Return
                       /\ out \o nodes = Leaves(ts, n - 1)
  /\ here \notin {"program", "name", "value"} => out \o nodes = Leaves(ts, n)

Written == /\ state \notin Done => Keeping(state, TokensOf(text), Consumed, node, FlattenSeq(ast))
           /\ AstComplete

LEMMA InitWritten == ASSUME Init PROVE Written
<1>1. state = "program" /\ state \notin Done /\ Consumed = 0 /\ ast = << >>
  BY DEF Init, Done, Consumed
<1>2. FlattenSeq(ast) = << >>
  BY <1>1 DEF FlattenSeq
<1>3. Leaves(TokensOf(text), 0) = << >>
  BY NoLeaves
<1> QED
  BY <1>1, <1>2, <1>3 DEF Written, Keeping, AstComplete, Done

\* A token that is expected is kept or not, as the tree has it in the end.
LEMMA ExpectWrites ==
  ASSUME IInv, state \notin Done, mode = "idle",
         NEW here \in {"path", "name", "open", "close", "brace", "value", "valueEnd"},
         NEW types, NEW next, NEW kept \in BOOLEAN,
         Expects(here, types, next, kept), currentToken.type \in types,
         <<here, types, next, kept>> \in
            {<<"path", {"string"}, "pathEnd", TRUE>>, <<"name", {"identifier"}, "open", TRUE>>,
             <<"open", {"operator"}, "close", FALSE>>, <<"close", {"operator"}, "brace", FALSE>>,
             <<"brace", {"operator"}, "body", FALSE>>, <<"value", {"number", "string"}, "valueEnd", TRUE>>,
             <<"valueEnd", {"operator"}, "body", FALSE>>},
         NEW ts, ts = TokensOf(text), NEW i, i = Len(tokens),
         Keeping(state, ts, i - 1, node, FlattenSeq(ast))
  PROVE  Keeping(next, ts, i, node', FlattenSeq(ast))
<1> DEFINE out == FlattenSeq(ast)
<1>1. state = here /\ Goes(next) /\ node' = IF kept THEN Append(node, currentToken.value) ELSE node
  BY DEF Expects
<1>2. LexInv /\ ~ Now("eof")
  BY <1>1 DEF IInv, Goes
<1>3. PICK v \in Value : v = currentToken.value /\ v = ts[i].value
  BY <1>2, Consumes
<1>4. /\ i \in Nat \ {0} /\ ts[i].type \in types
      /\ \A n \in 1 .. i : /\ Leaves(ts, n - 1) \in Seq(Value)
                           /\ Leaves(ts, n) = Leaves(ts, n - 1) \o Leaf(ts, n)
  BY <1>2, Consumes
<1>5. out \in Seq(Value) /\ node \in Seq(Value)
  <2>1. ast \in Seq(Seq(Value)) /\ node \in Seq(Value) /\ << >> \in Seq(Value)
    BY DEF IInv, ParserType
  <2> QED
    BY <2>1, FlattenAppend
<1>6. \A s \in Seq(Value) : s \o << >> = s
  BY ConcatEmptySeq
<1>7. out \o Append(node, v) = (out \o node) \o <<v>> /\ out \o node \in Seq(Value)
  BY <1>5, ConcatAppend, ConcatProperties
<1>8. i \in 1 .. i /\ Leaves(ts, i) = Leaves(ts, i - 1) \o Leaf(ts, i)
  BY <1>4
<1> HIDE DEF out, Value
<1>9. CASE here \notin {"name", "value"}
  <2>1. out \o node = Leaves(ts, i - 1)
    BY <1>1, <1>9 DEF Keeping, out
  <2>2. next \notin {"program", "name", "value"}
    BY <1>9
  <2>3. CASE kept = TRUE
    <3>1. ts[i].type = "string"
      BY <1>4, <1>9, <2>3
    <3>2. Leaf(ts, i) = <<v>>
      BY <1>3, <3>1, LeafIs
    <3>3. node' = Append(node, v)
      BY <1>1, <1>3, <2>3
    <3> QED
      BY <1>7, <1>8, <2>1, <2>2, <3>2, <3>3 DEF Keeping, out
  <2>4. CASE kept = FALSE
    <3>1. ts[i].type = "operator"
      BY <1>4, <1>9, <2>4
    <3>2. Leaf(ts, i) = << >>
      BY <3>1, LeafIs
    <3>3. node' = node
      BY <1>1, <2>4
    <3> QED
      BY <1>6, <1>7, <1>8, <2>1, <2>2, <3>2, <3>3 DEF Keeping, out
  <2> QED
    BY <2>3, <2>4
<1>10. CASE here = "name"
  <2>1. /\ i - 1 # 0 /\ ts[i - 1].type = "keyword" /\ ts[i - 1].value # Inherit
        /\ node = <<ts[i - 1].value>> /\ out = Leaves(ts, (i - 1) - 1)
    BY <1>1, <1>10 DEF Keeping, out
  <2>2. next = "open" /\ kept = TRUE /\ ts[i].type = "identifier"
    BY <1>4, <1>10
  <2>3. Leaves(ts, i - 1) = out \o node
    <3>1. i - 1 \in 1 .. i /\ (i - 1) + 1 = i
      BY <1>4, <2>1
    <3> PICK m : m = i - 1 /\ m + 1 = i
      BY <3>1
    <3>2. Leaf(ts, m) = <<ts[m].value>>
      BY <2>1, <2>2, LeafIs
    <3> QED
      BY <1>4, <2>1, <3>1, <3>2
  <2>4. Leaf(ts, i) = <<v>>
    BY <1>3, <2>2, LeafIs
  <2>5. node' = Append(node, v)
    BY <1>1, <1>3, <2>2
  <2> QED
    BY <1>7, <1>8, <2>2, <2>3, <2>4, <2>5 DEF Keeping, out
<1>11. CASE here = "value"
  <2>1. /\ i - 1 # 0 /\ ts[i - 1].type = "keyword" /\ ts[i - 1].value = Return
        /\ out \o node = Leaves(ts, (i - 1) - 1)
    BY <1>1, <1>11 DEF Keeping, out
  <2>2. next = "valueEnd" /\ kept = TRUE /\ ts[i].type \in {"number", "string"}
    BY <1>4, <1>11
  <2>3. Leaves(ts, i - 1) = out \o node
    <3>1. i - 1 \in 1 .. i /\ (i - 1) + 1 = i
      BY <1>4, <2>1
    <3> PICK m : m = i - 1 /\ m + 1 = i
      BY <3>1
    <3>2. Leaf(ts, m) = << >>
      BY <2>1, <2>2, LeafIs
    <3> QED
      BY <1>4, <1>6, <1>7, <2>1, <3>1, <3>2
  <2>4. Leaf(ts, i) = <<v>>
    BY <1>3, <2>2, LeafIs
  <2>5. node' = Append(node, v)
    BY <1>1, <1>3, <2>2
  <2> QED
    BY <1>7, <1>8, <2>2, <2>3, <2>4, <2>5 DEF Keeping, out
<1> QED
  BY <1>9, <1>10, <1>11

\* A node that ends goes to the tree.
LEMMA EndNodeWrites ==
  ASSUME IInv, state \notin Done, mode = "idle", state \in {"pathEnd", "body"},
         Now("operator"), Goes("program"), ast' = Append(ast, node),
         NEW ts, ts = TokensOf(text), NEW i, i = Len(tokens),
         Keeping(state, ts, i - 1, node, FlattenSeq(ast))
  PROVE  FlattenSeq(ast') = Leaves(ts, i)
<1>1. LexInv /\ ~ Now("eof")
  BY DEF IInv, Goes
<1>2. /\ i \in 1 .. i /\ ts[i].type = "operator"
      /\ Leaves(ts, i - 1) \in Seq(Value)
      /\ Leaves(ts, i) = Leaves(ts, i - 1) \o Leaf(ts, i)
  <2>1. i \in Nat \ {0} /\ currentToken.type = ts[i].type
        /\ \A n \in 1 .. i : /\ Leaves(ts, n - 1) \in Seq(Value)
                             /\ Leaves(ts, n) = Leaves(ts, n - 1) \o Leaf(ts, n)
    BY <1>1, Consumes
  <2>2. i \in 1 .. i
    BY <2>1
  <2>3. ts[i].type = "operator"
    BY <2>1 DEF Now
  <2> QED
    BY <2>1, <2>2, <2>3
<1>3. Leaf(ts, i) = << >>
  BY <1>2, LeafIs
<1>4. FlattenSeq(ast) \o node = Leaves(ts, i - 1)
  BY DEF Keeping
<1>5. ast \in Seq(Seq(Value)) /\ node \in Seq(Value)
  BY DEF IInv, ParserType
<1>6. FlattenSeq(ast') = FlattenSeq(ast) \o node
  BY <1>5, FlattenAppend
<1>7. \A s \in Seq(Value) : s \o << >> = s
  BY ConcatEmptySeq
<1> QED
  BY <1>2, <1>3, <1>4, <1>6, <1>7

\* A step of the parser keeps what was written: of all the tokens, when it accepts.
Writes(ts, i) == \/ Goes(state') /\ state' \notin Done /\ Keeping(state', ts, i, node', FlattenSeq(ast'))
                 \/ Reject
                 \/ Accept /\ state = "program" /\ i = Len(ts) + 1

LEMMA ParserWrites ==
  ASSUME IInv, state \notin Done, mode = "idle", Parse \/ Expect \/ ParseInheritEnd \/ ParseBody,
         NEW ts, ts = TokensOf(text), NEW i, i = Len(tokens),
         Keeping(state, ts, i - 1, node, FlattenSeq(ast))
  PROVE  Writes(ts, i)
<1> DEFINE out == FlattenSeq(ast)
<1>1. LexInv /\ ast \in Seq(Seq(Value)) /\ node \in Seq(Value)
  BY DEF IInv, ParserType
<1>2. Now("eof") => i = Len(ts) + 1
  BY <1>1, Looks
<1>3. ASSUME ~ Now("eof")
      PROVE  /\ i \in Nat \ {0} /\ i - 1 \in Nat /\ i \in 1 .. i
             /\ \A type : Now(type) => ts[i].type = type
             /\ currentToken.value = ts[i].value /\ ts[i].value \in Value
             /\ Leaves(ts, i - 1) \in Seq(Value)
             /\ Leaves(ts, i) = Leaves(ts, i - 1) \o Leaf(ts, i)
  <2>1. /\ i \in Nat \ {0} /\ currentToken.type = ts[i].type /\ currentToken.value = ts[i].value
        /\ ts[i].value \in Value
        /\ \A n \in 1 .. i : /\ Leaves(ts, n - 1) \in Seq(Value)
                             /\ Leaves(ts, n) = Leaves(ts, n - 1) \o Leaf(ts, n)
    BY <1>1, <1>3, Consumes
  <2>2. i \in 1 .. i /\ i - 1 \in Nat
    BY <2>1
  <2>3. \A type : Now(type) => ts[i].type = type
    BY <2>1 DEF Now
  <2> QED
    BY <2>1, <2>2, <2>3
<1>4. \A s \in Seq(Value) : s \o << >> = s
  BY ConcatEmptySeq
<1> HIDE DEF Value
<1>5. CASE Parse
  <2>1. state = "program" /\ out = Leaves(ts, i - 1)
    BY <1>5, ParseSteps DEF Keeping
  <2>2. CASE Now("eof") /\ Accept
    BY <1>2, <2>1, <2>2 DEF Writes
  <2>3. CASE /\ Now("directive") /\ Goes("program")
             /\ ast' = Append(ast, <<currentToken.value>>) /\ UNCHANGED node
    <3>1. ~ Now("eof") /\ state' = "program"
      BY <2>3 DEF Goes
    <3>2. ts[i].type = "directive" /\ Leaf(ts, i) = <<ts[i].value>>
      BY <1>3, <2>3, <3>1, LeafIs
    <3>3. PICK v \in Value : v = currentToken.value /\ v = ts[i].value
      BY <1>3, <3>1
    <3>4. <<v>> \in Seq(Value)
      OBVIOUS
    <3>5. FlattenSeq(ast') = out \o <<v>>
      BY <1>1, <2>3, <3>3, <3>4, FlattenAppend
    <3>6. FlattenSeq(ast') = Leaves(ts, i)
      BY <1>3, <2>1, <3>1, <3>2, <3>3, <3>5
    <3> QED
      BY <2>3, <3>1, <3>6 DEF Writes, Keeping, Done
  <2>4. CASE /\ Now("keyword") /\ currentToken.value = Inherit /\ Goes("path")
             /\ node' = << >> /\ UNCHANGED ast
    <3>1. ~ Now("eof") /\ state' = "path"
      BY <2>4 DEF Goes
    <3>2. ts[i].type = "keyword" /\ ts[i].value = Inherit
      BY <1>3, <2>4, <3>1
    <3>3. Leaf(ts, i) = << >>
      BY <3>2, LeafIs
    <3>4. out \o node' = Leaves(ts, i) /\ FlattenSeq(ast') = out
      BY <1>3, <2>1, <2>4, <3>1, <3>3
    <3> QED
      BY <2>4, <3>1, <3>4 DEF Writes, Keeping, Done
  <2>5. CASE /\ Now("keyword") /\ currentToken.value # Inherit /\ Goes("name")
             /\ node' = <<currentToken.value>> /\ UNCHANGED ast
    <3>1. ~ Now("eof") /\ state' = "name"
      BY <2>5 DEF Goes
    <3>2. i # 0 /\ ts[i].type = "keyword" /\ ts[i].value # Inherit /\ node' = <<ts[i].value>>
      BY <1>3, <2>5, <3>1
    <3>3. FlattenSeq(ast') = Leaves(ts, i - 1)
      BY <2>1, <2>5
    <3> QED
      BY <2>5, <3>1, <3>2, <3>3 DEF Writes, Keeping, Done
  <2>6. CASE ~ (Now("eof") \/ Now("directive") \/ Now("keyword")) /\ Reject
    BY <2>6 DEF Writes
  <2> QED
    BY <1>5, <2>2, <2>3, <2>4, <2>5, <2>6, ParseSteps
<1>6. CASE Expect
  <2> DEFINE rows == {<<"path", {"string"}, "pathEnd", TRUE>>, <<"name", {"identifier"}, "open", TRUE>>,
             <<"open", {"operator"}, "close", FALSE>>, <<"close", {"operator"}, "brace", FALSE>>,
             <<"brace", {"operator"}, "body", FALSE>>, <<"value", {"number", "string"}, "valueEnd", TRUE>>,
             <<"valueEnd", {"operator"}, "body", FALSE>>}
  <2>1. UNCHANGED ast
    BY <1>6, ExpectSteps
  <2>2. ASSUME NEW here \in {"path", "name", "open", "close", "brace", "value", "valueEnd"},
               NEW types, NEW next, next \notin Done, NEW kept \in BOOLEAN,
               <<here, types, next, kept>> \in rows, Expects(here, types, next, kept)
        PROVE  Writes(ts, i)
    <3>1. CASE currentToken.type \in types
      <4>1. Goes(next) /\ state' = next
        BY <2>2, <3>1 DEF Expects, Goes
      <4>2. Keeping(next, ts, i, node', out)
        BY <2>2, <3>1, ExpectWrites
      <4> QED
        BY <2>1, <2>2, <4>1, <4>2 DEF Writes
    <3>2. CASE currentToken.type \notin types
      BY <2>2, <3>2 DEF Expects, Writes
    <3> QED
      BY <3>1, <3>2
  <2>3. /\ <<"path", {"string"}, "pathEnd", TRUE>> \in rows /\ <<"name", {"identifier"}, "open", TRUE>> \in rows
        /\ <<"open", {"operator"}, "close", FALSE>> \in rows /\ <<"close", {"operator"}, "brace", FALSE>> \in rows
        /\ <<"brace", {"operator"}, "body", FALSE>> \in rows
        /\ <<"value", {"number", "string"}, "valueEnd", TRUE>> \in rows
        /\ <<"valueEnd", {"operator"}, "body", FALSE>> \in rows
    OBVIOUS
  <2>4. {"pathEnd", "open", "close", "brace", "body", "valueEnd"} \cap Done = {}
    BY DEF Done
  <2> HIDE DEF rows
  <2> QED
    BY <1>6, <2>2, <2>3, <2>4, ExpectSteps
<1>7. ASSUME EndNode, state \in {"pathEnd", "body"} PROVE Writes(ts, i)
  <2>1. CASE Now("operator") /\ Goes("program") /\ ast' = Append(ast, node) /\ UNCHANGED node
    <3>1. FlattenSeq(ast') = Leaves(ts, i)
      BY <1>7, <2>1, EndNodeWrites
    <3>2. state' = "program"
      BY <2>1 DEF Goes
    <3> QED
      BY <2>1, <3>1, <3>2 DEF Writes, Keeping, Done
  <2>2. CASE ~ Now("operator") /\ Reject
    BY <2>2 DEF Writes
  <2> QED
    BY <1>7, <2>1, <2>2, EndNodeSteps
<1>8. CASE ParseInheritEnd
  BY <1>7, <1>8 DEF ParseInheritEnd, Reads
<1>9. CASE ParseBody
  <2>1. state = "body" /\ out \o node = Leaves(ts, i - 1)
    BY <1>9, ParseBodySteps DEF Keeping
  <2>2. CASE EndNode
    BY <1>7, <2>1, <2>2
  <2>3. CASE /\ Now("keyword") /\ currentToken.value = Return
             /\ Goes("value") /\ UNCHANGED <<node, ast>>
    <3>1. ~ Now("eof") /\ state' = "value"
      BY <2>3 DEF Goes
    <3>2. i # 0 /\ ts[i].type = "keyword" /\ ts[i].value = Return
      BY <1>3, <2>3, <3>1
    <3>3. FlattenSeq(ast') \o node' = Leaves(ts, i - 1)
      BY <2>1, <2>3
    <3> QED
      BY <2>3, <3>1, <3>2, <3>3 DEF Writes, Keeping, Done
  <2>4. CASE Reject
    BY <2>4 DEF Writes
  <2> QED
    BY <1>9, <2>2, <2>3, <2>4, ParseBodySteps
<1> QED
  BY <1>5, <1>6, <1>8, <1>9

LEMMA StepWritten ==
  ASSUME IInv, Written, [Next]_vars
  PROVE  Written'
<1> DEFINE ts == TokensOf(text)
           out == FlattenSeq(ast)
<1>1. LexInv /\ tokens \in Seq(Returned) /\ Len(tokens) \in Nat /\ ReaderOK
  BY DEF IInv, LexInv, LexType
<1>2. CASE NextToken
  <2>1. UNCHANGED text /\ state \notin Done
        /\ ((Consumed' = Consumed /\ UNCHANGED parser) \/ state' = "rejected")
    BY <1>1, <1>2, NextTokenConsumes
  <2>2. CASE Consumed' = Consumed /\ UNCHANGED parser
    BY <2>1, <2>2 DEF Written, AstComplete, parser, Done
  <2>3. CASE state' = "rejected"
    BY <2>3 DEF Written, AstComplete, Done
  <2> QED
    BY <2>1, <2>2, <2>3
<1>3. CASE Parse \/ Expect \/ ParseInheritEnd \/ ParseBody
  <2>1. mode = "idle" /\ state \notin Done
    BY <1>3, ParserActs
  <2>2. Consumed = Len(tokens) - 1
    BY <2>1 DEF Consumed
  <2>3. Keeping(state, ts, Len(tokens) - 1, node, out)
    BY <2>1, <2>2 DEF Written
  <2>4. Writes(ts, Len(tokens))
    BY <1>3, <2>1, <2>3, ParserWrites
  <2>5. CASE Goes(state') /\ state' \notin Done /\ Keeping(state', ts, Len(tokens), node', FlattenSeq(ast'))
    <3>1. text' = text /\ Consumed' = Len(tokens)
      BY <2>5 DEF Goes, Advance, Consumed
    <3> QED
      BY <2>5, <3>1 DEF Written, AstComplete, Done
  <2>6. CASE Reject
    BY <2>6 DEF Reject, Written, AstComplete, Done
  <2>7. CASE Accept /\ state = "program" /\ Len(tokens) = Len(ts) + 1
    <3>1. Len(ts) \in Nat /\ DOMAIN ts = 1 .. Len(ts)
      BY <1>1, TokensFound
    <3>2. out = Leaves(ts, Len(ts))
      BY <2>3, <2>7, <3>1 DEF Keeping
    <3>3. out = FlattenSeq([i \in DOMAIN ts |-> IF Kept(ts, i) THEN <<ts[i].value>> ELSE << >>])
      BY <3>1, <3>2 DEF Leaves, Leaf
    <3>4. text' = text /\ ast' = ast /\ state' = "accepted"
      BY <2>7 DEF Accept
    <3> QED
      BY <3>3, <3>4 DEF Written, AstComplete, Done
  <2> QED
    BY <2>4, <2>5, <2>6, <2>7 DEF Writes
<1>4. CASE UNCHANGED vars
  <2>1. UNCHANGED <<text, mode, tokens, state, node, ast>>
    BY <1>4 DEF vars, lexer, parser
  <2> QED
    BY <2>1 DEF Written, AstComplete, Consumed
<1> QED
  BY <1>2, <1>3, <1>4 DEF Next

\* For every set of texts: the tree that Parse returns has everything that was
\* written, in its order, but for the operators, the word inherit and the word
\* return of a statement (lpcparser.go:407-582).
THEOREM TreeIsComplete == Spec => []AstComplete
<1>1. Spec => []Written
  BY Invariant, InitWritten, StepWritten, PTL DEF Spec
<1>2. Written => AstComplete
  BY DEF Written
<1> QED
  BY <1>1, <1>2, PTL
=============================================================================

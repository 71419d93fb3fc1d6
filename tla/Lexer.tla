------------------------------- MODULE Lexer -------------------------------
(***************************************************************************)
(* lexer/lexer.cpp: tokenize, from a text, a sequence of characters, to    *)
(* tokens [sym, str, row, col] and the rows the error messages quote, one  *)
(* action per branch of its loop.  Not in the code, for the properties     *)
(* only: the field at of a token, where it begins in the text, and         *)
(* comments, the stretches [at, end) the loop took for comments.           *)
(***************************************************************************)
EXTENDS Naturals, FiniteSets, SequencesExt

CONSTANT Texts      \* the texts to tokenize

ASSUME TextsAreSequences == \A t \in Texts : t \in Seq(ToSet(t))

VARIABLES text, i, row, col, tokens, rows, row_begin, comments

place   == <<i, row, col, row_begin>>
lexing  == <<place, tokens, rows, comments>>
lexvars == <<text, lexing>>

Digit == {"0", "1", "2", "3", "4", "5", "6", "7", "8", "9"}
Hex   == Digit \cup {"a", "b", "c", "d", "e", "f"}
Alpha == {"a", "b", "c", "d", "e", "f", "g", "h", "i", "j", "k", "l", "m", "n", "o", "p", "q",
          "r", "s", "t", "u", "v", "w", "x", "y", "z", "T", "X"}
Letter == Alpha \cup {"_"}
Word   == Letter \cup Digit
blank  == " "

keywords ==
  <<"i", "f">> :> "KW_IF" @@ <<"e", "l", "s", "e">> :> "KW_ELSE" @@
  <<"w", "h", "i", "l", "e">> :> "KW_WHILE" @@ <<"f", "o", "r">> :> "KW_FOR" @@
  <<"r", "e", "t", "u", "r", "n">> :> "KW_RETURN" @@
  <<"f", "u", "n", "c", "t", "i", "o", "n">> :> "KW_FUNCTION" @@
  <<"b", "r", "e", "a", "k">> :> "KW_BREAK" @@
  <<"c", "o", "n", "t", "i", "n", "u", "e">> :> "KW_CONTINUE" @@
  <<"c", "l", "a", "s", "s">> :> "KW_CLASS" @@
  <<"s", "t", "r", "u", "c", "t">> :> "KW_STRUCT" @@ <<"i", "n", "t">> :> "KW_INT" @@
  <<"v", "o", "i", "d">> :> "KW_VOID" @@ <<"f", "l", "o", "a", "t">> :> "KW_FLOAT" @@
  <<"c", "h", "a", "r">> :> "KW_CHAR" @@ <<"c", "o", "n", "s", "t">> :> "KW_CONST"

\* A map written as its set of pairs.
MapOf(table) == [key \in {e[1] : e \in table} |-> (CHOOSE e \in table : e[1] = key)[2]]

separators == MapOf(
  { <<"(", "LPR">>, <<")", "RPR">>, <<"[", "LBK">>, <<"]", "RBK">>,
    <<"{", "LBC">>, <<"}", "RBC">>, <<",", "COMMA">>, <<";", "SEMICOLON">> })

Singles ==
  { <<"+", "PLUS">>, <<"-", "MINUS">>, <<"*", "STAR">>, <<"/", "SLASH">>, <<"%", "PERCENT">>,
    <<"<", "LT">>, <<">", "GT">>, <<"!", "NOT">>, <<"&", "BIT_AND">>, <<"|", "BIT_OR">>,
    <<"^", "BIT_XOR">>, <<"=", "ASSIGN">>, <<".", "DOT">> }
Doubles ==
  { <<"+", "+", "PLUS_PLUS">>, <<"-", "-", "MINUS_MINUS">>, <<"+", "=", "PLUS_EQ">>,
    <<"-", "=", "MINUS_EQ">>, <<"*", "=", "STAR_EQ">>, <<"/", "=", "SLASH_EQ">>,
    <<"%", "=", "PERCENT_EQ">>, <<"=", "=", "EQ">>, <<"!", "=", "NEQ">>, <<"<", "=", "LTE">>,
    <<">", "=", "GTE">>, <<"&", "&", "AND">>, <<"|", "|", "OR">>, <<"<", "<", "SHL">>,
    <<">", ">", "SHR">>, <<"-", ">", "POINTER_ACC">> }
operators == MapOf({<< <<e[1]>>, e[2] >> : e \in Singles} \cup
                   {<< <<e[1], e[2]>>, e[3] >> : e \in Doubles})

----------------------------------------------------------------------------
\* code[i], the terminating zero behind the text; code.substr(i, n)
CharAt(at)    == IF at <= Len(text) THEN text[at] ELSE "zero"
Substr(at, n) == SubSeq(text, at, IF at + n - 1 < Len(text) THEN at + n - 1 ELSE Len(text))
Two(at)       == Substr(at, 2)

(* The first index from at on whose character is not in S.                 *)
Past(at, S) == CHOOSE j \in at .. Len(text) + 1 :
  (\A m \in at .. j - 1 : text[m] \in S) /\ CharAt(j) \notin S

read_id_keyword(at) == Past(at, Word)
read_num(at) == IF text[at] = "0" /\ CharAt(at + 1) \in {"x", "X"}
                THEN Past(at + 2, Hex) ELSE Past(at, Digit)

\* Slip: an operator is one character.
ReadOneCharacter(at) == IF Substr(at, 1) \notin DOMAIN operators THEN at ELSE at + 1
\* Slip: the second character is looked up only where there is one.
ReadWithinText(at) ==
  IF Substr(at, 1) \notin DOMAIN operators THEN at
  ELSE IF at < Len(text) /\ Two(at) \in DOMAIN operators THEN at + 2 ELSE at + 1

(* At the last character substr(i, 2) is that character alone, and the     *)
(* answer is two characters further all the same.                          *)
read_operator(at) ==
  IF Substr(at, 1) \notin DOMAIN operators THEN at
  ELSE IF Two(at) \in DOMAIN operators THEN at + 2 ELSE at + 1

WordSymbol(str) == IF str \in DOMAIN keywords THEN keywords[str] ELSE "ID"

(* The first closing of a block comment, or the end of the text.           *)
ClosesAt(p) == Two(p) = <<"*", "/">>
FirstClosing(from) ==
  CHOOSE j \in from .. Len(text) + 1 :
    /\ \A m \in from .. j - 1 : ~ ClosesAt(m)
    /\ j = Len(text) + 1 \/ ClosesAt(j)
\* Slips: the star of the opening closes; a comment that is not closed is not
\* passed.
ClosingFromStar(at) == FirstClosing(at + 1) + 2
ClosingOrStay(at) == IF FirstClosing(at + 2) > Len(text) THEN at ELSE FirstClosing(at + 2) + 2

(* A block comment ends behind its closing, or two characters behind the   *)
(* text; a line comment in front of the line break or behind the text.     *)
BlockEnd(at) == FirstClosing(at + 2) + 2
LineEnd(at) ==
  CHOOSE j \in at .. Len(text) + 1 :
    /\ \A m \in at .. j - 1 : text[m] # "\n"
    /\ j = Len(text) + 1 \/ text[j] = "\n"

----------------------------------------------------------------------------
Begin == /\ i = 1 /\ row = 1 /\ col = 1 /\ row_begin = 1
         /\ tokens = <<>> /\ rows = <<>> /\ comments = <<>>
Init  == text \in Texts /\ Begin

(* The loop runs while i is not the end of the text.  Behind the end       *)
(* substr throws, and nothing catches.                                     *)
Running == i <= Len(text)
Done    == i = Len(text) + 1
Thrown  == i > Len(text) + 1

cur        == text[i]
OpensBlock(p) == Two(p) = <<"/", "*">>
OpensLine(p)  == Two(p) = <<"/", "/">>
Skip(end)     == comments' = Append(comments, [at |-> i, end |-> end])

\* Slips: a token moves the column by one; substr gets the end for the length.
EmitOneColumn(sym, end) ==
  /\ tokens' = Append(tokens, [sym |-> sym, str |-> Substr(i, end - i),
                               row |-> row, col |-> col, at |-> i])
  /\ col' = col + 1 /\ i' = end
  /\ UNCHANGED <<text, row, rows, row_begin, comments>>
EmitUpTo(sym, end) ==
  /\ tokens' = Append(tokens, [sym |-> sym, str |-> Substr(i, end),
                               row |-> row, col |-> col, at |-> i])
  /\ col' = col + (end - i) /\ i' = end
  /\ UNCHANGED <<text, row, rows, row_begin, comments>>
Emit(sym, end) ==
  /\ tokens' = Append(tokens, [sym |-> sym, str |-> Substr(i, end - i),
                               row |-> row, col |-> col, at |-> i])
  /\ col' = col + (end - i) /\ i' = end
  /\ UNCHANGED <<text, row, rows, row_begin, comments>>

BlockComment ==
  /\ Running /\ OpensBlock(i)
  /\ i' = BlockEnd(i) /\ Skip(i')
  /\ UNCHANGED <<text, row, col, tokens, rows, row_begin>>

Space ==
  /\ Running /\ cur = blank
  /\ i' = i + 1 /\ col' = col + 1
  /\ UNCHANGED <<text, row, tokens, rows, row_begin, comments>>

NewLine ==
  /\ Running /\ cur = "\n"
  /\ rows' = Append(rows, SubSeq(text, row_begin, i))
  /\ i' = i + 1 /\ row_begin' = i + 1 /\ row' = row + 1 /\ col' = 1
  /\ UNCHANGED <<text, tokens, comments>>

IdOrKeyword ==
  /\ Running /\ cur \in Letter
  /\ Emit(WordSymbol(SubSeq(text, i, read_id_keyword(i) - 1)), read_id_keyword(i))

Number ==
  /\ Running /\ cur \in Digit
  /\ Emit("NUM", read_num(i))

Separator ==
  /\ Running /\ cur \in DOMAIN separators
  /\ Emit(separators[cur], i + 1)

LineComment ==
  /\ Running /\ OpensLine(i)
  /\ i' = LineEnd(i) /\ col' = col + (i' - i) /\ Skip(i')
  /\ UNCHANGED <<text, row, tokens, rows, row_begin>>

Operator ==
  /\ Running /\ ~ OpensBlock(i) /\ ~ OpensLine(i) /\ read_operator(i) > i
  /\ Emit(operators[Substr(i, read_operator(i) - i)], read_operator(i))

Unknown ==
  /\ Running /\ cur \notin Word \cup DOMAIN separators \cup {blank, "\n"} /\ read_operator(i) = i
  /\ i' = i + 1
  /\ UNCHANGED <<text, row, col, tokens, rows, row_begin, comments>>

Turn == \/ BlockComment \/ Space \/ NewLine \/ IdOrKeyword \/ Number \/ Separator
        \/ LineComment \/ Operator \/ Unknown

Spec == Init /\ [][Turn]_lexvars

----------------------------------------------------------------------------
(* Properties.                                                             *)

Scanned      == {p \in DOMAIN text : p < i}
End(t)       == t.at + Len(t.str)
InToken(p)   == \E t \in ToSet(tokens) : t.at <= p /\ p < End(t)
InComment(p) == \E c \in ToSet(comments) : c.at <= p /\ p < c.end
InBlock(p)   == \E c \in ToSet(comments) : OpensBlock(c.at) /\ c.at <= p /\ p < c.end
Meaningful   == Word \cup DOMAIN separators \cup {s[1] : s \in DOMAIN operators}

(* Types.                                                                  *)
Symbols == Range(keywords) \cup Range(separators) \cup Range(operators) \cup {"ID", "NUM"}
TokenType   == [sym : Symbols, str : Seq(ToSet(text)), row : Nat \ {0}, col : Nat \ {0},
                at : DOMAIN text]
CommentType == [at : DOMAIN text, end : Nat]
LexTypeOK ==
  /\ text \in Seq(ToSet(text))
  /\ i \in 1 .. Len(text) + 3 /\ row_begin \in 1 .. i
  /\ row \in Nat \ {0} /\ col \in Nat \ {0}
  /\ tokens \in Seq(TokenType) /\ rows \in Seq(Seq(ToSet(text)))
  /\ comments \in Seq(CommentType)

(* The tokens are the text without its comments: every character of a      *)
(* word, a number, a separator or an operator is in a token or in a        *)
(* comment and never in both; the tokens are pieces of the text and follow *)
(* one another in it (the branches of tokenize and what they leave in i).  *)
TokensAreTheText ==
  /\ \A p \in Scanned : text[p] \in Meaningful => InToken(p) # InComment(p)
  /\ \A n \in DOMAIN tokens :
       /\ tokens[n].str # <<>>
       /\ tokens[n].str = SubSeq(text, tokens[n].at, End(tokens[n]) - 1)
       /\ n > 1 => End(tokens[n - 1]) <= tokens[n].at

(* Every mark that opens a comment is in a comment, its own or an earlier  *)
(* one; a block comment ends behind the first closing that does not share  *)
(* the star of its opening, a line comment in front of the line break.     *)
IsComment(c) ==
  \/ /\ OpensBlock(c.at)
     /\ \A q \in c.at + 2 .. c.end - 3 : ~ ClosesAt(q)
     /\ c.at + 2 <= c.end - 2
     /\ ClosesAt(c.end - 2) \/ c.end = Len(text) + 3
  \/ /\ OpensLine(c.at)
     /\ \A q \in c.at .. c.end - 1 : text[q] # "\n"
     /\ c.end = Len(text) + 1 \/ text[c.end] = "\n"
CommentsAreComments ==
  /\ \A p \in Scanned : OpensBlock(p) \/ OpensLine(p) => InComment(p)
  /\ \A c \in ToSet(comments) : IsComment(c)

(* A token never stops where it could go on (read_id_keyword, read_num and *)
(* the two substr of read_operator).                                       *)
Hexadecimal(str) == Len(str) > 1 /\ str[2] \in {"x", "X"}
Whole(t) ==
  /\ t.str[1] \in Letter => CharAt(End(t)) \notin Word /\ ToSet(t.str) \subseteq Word
  /\ t.str[1] \in Digit =>
       CharAt(End(t)) \notin IF Hexadecimal(t.str) THEN Hex ELSE Digit
  /\ t.str \in DOMAIN operators /\ End(t) <= Len(text) =>
       t.str \o <<text[End(t)]>> \notin DOMAIN operators
TokensAreWhole == \A t \in ToSet(tokens) : Whole(t)

(* tokenize throws at the end of exactly the texts that end in a one       *)
(* character operator or in a block comment that is not closed (substr     *)
(* behind the end of the text).                                            *)
EndsInOperator == \E t \in ToSet(tokens) : t.at = Len(text) /\ t.str \in DOMAIN operators
EndsInComment  == \E c \in ToSet(comments) :
                    OpensBlock(c.at) /\ \A q \in c.at + 2 .. Len(text) : ~ ClosesAt(q)
ThrowsAtOpenEnds == ~ Running => (Thrown <=> EndsInOperator \/ EndsInComment)

(* A token is in the row where it stands, not counting line breaks in      *)
(* block comments, and its row is kept once it has ended; it is in the     *)
(* column where it stands, and the kept row has it there, when no block    *)
(* comment and no unknown character is before it on its line (row, col and *)
(* row_begin in every branch of tokenize).                                 *)
Breaks(from, to) == {q \in Scanned : from <= q /\ q < to /\ text[q] = "\n" /\ ~ InBlock(q)}
LineStart(p) == CHOOSE q \in 1 .. p : /\ q = 1 \/ text[q - 1] = "\n"
                                      /\ \A m \in q .. p - 1 : text[m] # "\n"
Straight(p)  == \A q \in LineStart(p) .. p - 1 : text[q] \in Meaningful \cup {blank} /\ ~ InBlock(q)
PositionsAreTrue ==
  \A t \in ToSet(tokens) :
    LET ended == Breaks(t.at, i) # {}
    IN /\ t.row = 1 + Cardinality(Breaks(1, t.at))
       /\ ended <=> t.row <= Len(rows)
       /\ Straight(t.at) => /\ t.col = 1 + t.at - LineStart(t.at)
                            /\ ended => rows[t.row][t.col] = text[t.at]

(* Every turn of the loop goes on in the text, and not more than two       *)
(* characters behind its end: tokenize ends.                               *)
TurnsAdvance == [][i < i' /\ i' <= Len(text) + 3]_lexvars
=============================================================================

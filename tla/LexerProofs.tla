---------------------------- MODULE LexerProofs ----------------------------
(***************************************************************************)
(* Proofs about Lexer, for every set of texts.                             *)
(*                                                                         *)
(* The inductive invariant adds to the properties what the loop has read:  *)
(* tokens and comments lie before i, apart from one another; row_begin is  *)
(* behind the last line break that counts, and each token remembers the    *)
(* line it stands on until the row is kept.                                *)
(***************************************************************************)
EXTENDS Lexer, BasicLemmas

(* Tokens and comments end where the loop has arrived, and do not overlap.  *)
Ahead == /\ \A t \in ToSet(tokens) : End(t) <= i /\ End(t) <= Len(text) + 1
         /\ \A c \in ToSet(comments) : c.end <= i
         /\ \A t \in ToSet(tokens), c \in ToSet(comments) : End(t) <= c.at \/ c.end <= t.at

(* The loop is on the line that begins at row_begin.                        *)
Even(from, to) == \A q \in from .. to - 1 :
                    q \in DOMAIN text => text[q] \in Meaningful \cup {blank} /\ ~ InBlock(q)
Line == /\ row = 1 + Cardinality(Breaks(1, i))
        /\ row = 1 + Len(rows)
        /\ row_begin = 1 \/ row_begin - 1 \in Breaks(1, i)
        /\ Breaks(row_begin, i) = {}
        /\ Even(row_begin, i) => col = 1 + i - row_begin

(* b is where the line of token t begins.                                   *)
LineOf(t, b) ==
  /\ b = 1 \/ b - 1 \in Breaks(1, t.at)
  /\ Breaks(b, t.at) = {}
  /\ Even(b, t.at) => t.col = 1 + t.at - b
  /\ t.row = 1 + Cardinality(Breaks(1, t.at))
  /\ IF Breaks(t.at, i) = {} THEN t.row = row /\ b = row_begin
     ELSE /\ t.row < row
          /\ \E e \in t.at .. Len(text) : rows[t.row] = SubSeq(text, b, e)
Lines == \A t \in ToSet(tokens) : \E b \in 1 .. t.at : LineOf(t, b)

LexInv ==
  /\ LexTypeOK
  /\ TokensAreTheText
  /\ CommentsAreComments
  /\ TokensAreWhole
  /\ ThrowsAtOpenEnds
  /\ Ahead
  /\ Line
  /\ Lines

----------------------------------------------------------------------------
(* The tables.                                                             *)

(* What a map is defined for.                                              *)
LEMMA MapDomain ==
  ASSUME NEW table
  PROVE  DOMAIN MapOf(table) = {e[1] : e \in table}
BY DEF MapOf

(* An operator is one or two characters; the first alone is an operator.   *)
LEMMA OperatorShape ==
  /\ \A e \in Singles : <<e[1]>> \in DOMAIN operators
  /\ \A s \in DOMAIN operators :
       \/ \E e \in Singles : s = <<e[1]>>
       \/ \E e \in Doubles : s = <<e[1], e[2]>> /\ \E f \in Singles : f[1] = e[1]
<1>1. DOMAIN operators = {<<e[1]>> : e \in Singles} \cup {<<e[1], e[2]>> : e \in Doubles}
  <2> DEFINE one == {<< <<e[1]>>, e[2] >> : e \in Singles}
             two == {<< <<e[1], e[2]>>, e[3] >> : e \in Doubles}
  <2>1. operators = MapOf(one \cup two)
    BY DEF operators
  <2>2. DOMAIN operators = {d[1] : d \in one \cup two}
    BY <2>1, MapDomain
  <2>3. \A d \in one : d[1] \in {<<e[1]>> : e \in Singles}
    OBVIOUS
  <2>4. \A d \in two : d[1] \in {<<e[1], e[2]>> : e \in Doubles}
    OBVIOUS
  <2>5. ASSUME NEW e \in Singles PROVE <<e[1]>> \in DOMAIN operators
    <3>1. << <<e[1]>>, e[2] >> \in one \cup two
      OBVIOUS
    <3> HIDE DEF one, two
    <3> QED BY <2>2, <3>1
  <2>6. ASSUME NEW e \in Doubles PROVE <<e[1], e[2]>> \in DOMAIN operators
    <3>1. << <<e[1], e[2]>>, e[3] >> \in one \cup two
      OBVIOUS
    <3> HIDE DEF one, two
    <3> QED BY <2>2, <3>1
  <2> HIDE DEF one, two
  <2>7. \A s \in DOMAIN operators : \E d \in one \cup two : s = d[1]
    BY <2>2
  <2>8. \A s \in DOMAIN operators :
          s \in {<<e[1]>> : e \in Singles} \/ s \in {<<e[1], e[2]>> : e \in Doubles}
    BY <2>3, <2>4, <2>7
  <2> QED BY <2>5, <2>6, <2>8
<1>2. \A e \in Doubles : \E f \in Singles : f[1] = e[1]
  BY DEF Doubles, Singles
<1> QED BY <1>1, <1>2

(* No operator begins like a word, a number, a blank or a separator, and   *)
(* no character of one is a line break; a slash is only ever the first.    *)
LEMMA OperatorCharacters ==
  /\ \A e \in Singles : e[1] \notin Word \cup {blank, "\n"}
  /\ \A e \in Doubles : e[1] \notin Word \cup {blank, "\n"} /\ e[2] \notin {"/", "\n"}
  /\ \A e \in Doubles : \E f \in Singles : f[1] = e[2]
<1> DEFINE First == {"+", "-", "*", "/", "%", "<", ">", "!", "&", "|", "^", "=", "."}
<1>1. \A e \in Singles \cup Doubles : e[1] \in First
  <2>1. \A e \in Singles : e[1] \in First
    BY DEF Singles
  <2>2. \A e \in Doubles : e[1] \in First
    BY DEF Doubles
  <2> QED BY <2>1, <2>2
<1>2. \A x \in First : x \notin Word \cup {blank, "\n"}
  <2>1. \A x \in First : x \notin Digit \cup {"_", blank, "\n"}
    BY DEF Digit, blank
  <2>2. \A x \in First : x \notin Alpha
    BY DEF Alpha
  <2> QED BY <2>1, <2>2 DEF Word, Letter
<1>3. \A e \in Doubles : e[2] \notin {"/", "\n"} /\ \E f \in Singles : f[1] = e[2]
  BY DEF Singles, Doubles
<1> QED BY <1>1, <1>2, <1>3

----------------------------------------------------------------------------
(* The text.                                                               *)

IsText == text \in Seq(ToSet(text))

(* A text is a sequence of its characters.                                 *)
LEMMA TextFacts ==
  ASSUME IsText
  PROVE  Len(text) \in Nat /\ DOMAIN text = 1 .. Len(text)
         /\ \A p \in 1 .. Len(text) : text[p] \in ToSet(text)
BY LenProperties DEF IsText, ToSet

(* The piece of the text from p on with n characters, or up to its end.    *)
Size(p, n) == IF p + n - 1 < Len(text) THEN n ELSE Len(text) - p + 1
LEMMA SubstrFacts ==
  ASSUME IsText, NEW p \in 1 .. Len(text), NEW n \in Nat \ {0}
  PROVE  /\ Size(p, n) \in Nat \ {0} /\ p + Size(p, n) - 1 <= Len(text)
         /\ Substr(p, n) \in Seq(ToSet(text)) /\ Len(Substr(p, n)) = Size(p, n)
         /\ DOMAIN Substr(p, n) = 1 .. Size(p, n)
         /\ Substr(p, n) = SubSeq(text, p, p + Size(p, n) - 1)
         /\ \A k \in 1 .. Size(p, n) : Substr(p, n)[k] = text[p + k - 1]
<1> DEFINE last == IF p + n - 1 < Len(text) THEN p + n - 1 ELSE Len(text)
           size == Size(p, n)
<1>1. Len(text) \in Nat
  BY TextFacts
<1>2. last \in p .. Len(text) /\ size \in Nat \ {0} /\ last = p + size - 1 /\ last - p + 1 = size
  BY <1>1 DEF Size
<1>3. Substr(p, n) = SubSeq(text, p, last)
  BY DEF Substr
<1> HIDE DEF last, size
<1>4. /\ SubSeq(text, p, last) \in Seq(ToSet(text)) /\ Len(SubSeq(text, p, last)) = last - p + 1
      /\ \A k \in 1 .. last - p + 1 : SubSeq(text, p, last)[k] = text[p + k - 1]
  <2>1. p \in 1 .. Len(text) + 1 /\ last \in 0 .. Len(text) /\ p <= last + 1
    BY <1>1, <1>2
  <2>2. text \in Seq(ToSet(text))
    BY DEF IsText
  <2> QED BY <2>1, <2>2, Segment
<1>5. DOMAIN SubSeq(text, p, last) = 1 .. Len(SubSeq(text, p, last))
  BY <1>4, LenProperties
<1>6. p + size - 1 <= Len(text)
  BY <1>1, <1>2
<1>7. /\ size \in Nat \ {0} /\ p + size - 1 <= Len(text)
      /\ Substr(p, n) \in Seq(ToSet(text)) /\ Len(Substr(p, n)) = size
      /\ DOMAIN Substr(p, n) = 1 .. size
      /\ Substr(p, n) = SubSeq(text, p, p + size - 1)
      /\ \A k \in 1 .. size : Substr(p, n)[k] = text[p + k - 1]
  BY <1>2, <1>3, <1>4, <1>5, <1>6
<1> QED BY <1>7 DEF size

(* substr(p, 2).                                                           *)
LEMMA TwoCharacters ==
  ASSUME IsText, NEW p \in 1 .. Len(text)
  PROVE  Two(p) = IF p < Len(text) THEN <<text[p], text[p + 1]>> ELSE <<text[p]>>
<1>1. Len(text) \in Nat
  BY TextFacts
<1>2. CASE p < Len(text)
  <2>1. /\ Len(Two(p)) = 2 /\ DOMAIN Two(p) = 1 .. 2 /\ Two(p) \in Seq(ToSet(text))
        /\ Two(p)[1] = text[p] /\ Two(p)[2] = text[p + 1]
    <3>1. Size(p, 2) = 2
      BY <1>1, <1>2 DEF Size
    <3>2. /\ Substr(p, 2) \in Seq(ToSet(text)) /\ Len(Substr(p, 2)) = 2
          /\ DOMAIN Substr(p, 2) = 1 .. 2
          /\ \A k \in 1 .. 2 : Substr(p, 2)[k] = text[p + k - 1]
      <4>1. 2 \in Nat \ {0}
        OBVIOUS
      <4> QED BY <3>1, <4>1, SubstrFacts
    <3>3. 1 \in 1 .. 2 /\ p + 1 - 1 = p /\ 2 \in 1 .. 2 /\ p + 2 - 1 = p + 1
      OBVIOUS
    <3> QED BY <3>2, <3>3 DEF Two
  <2>2. <<text[p], text[p + 1]>> \in Seq({text[p], text[p + 1]}) /\ Len(<<text[p], text[p + 1]>>) = 2
    OBVIOUS
  <2>3. \A k \in 1 .. 2 : Two(p)[k] = <<text[p], text[p + 1]>>[k]
    <3>1. \A k \in 1 .. 2 : k = 1 \/ k = 2
      OBVIOUS
    <3> QED BY <2>1, <3>1
  <2>4. Two(p) = <<text[p], text[p + 1]>>
    BY <2>1, <2>2, <2>3, SeqEqual
  <2> QED BY <1>2, <2>4
<1>3. CASE p = Len(text)
  <2>1. /\ Len(Two(p)) = 1 /\ DOMAIN Two(p) = 1 .. 1 /\ Two(p) \in Seq(ToSet(text))
        /\ Two(p)[1] = text[p]
    <3>1. Size(p, 2) = 1
      BY <1>1, <1>3 DEF Size
    <3>2. /\ Substr(p, 2) \in Seq(ToSet(text)) /\ Len(Substr(p, 2)) = 1
          /\ DOMAIN Substr(p, 2) = 1 .. 1
          /\ \A k \in 1 .. 1 : Substr(p, 2)[k] = text[p + k - 1]
      <4>1. 2 \in Nat \ {0}
        OBVIOUS
      <4> QED BY <3>1, <4>1, SubstrFacts
    <3>3. 1 \in 1 .. 1 /\ p + 1 - 1 = p
      OBVIOUS
    <3> QED BY <3>2, <3>3 DEF Two
  <2>2. <<text[p]>> \in Seq({text[p]}) /\ Len(<<text[p]>>) = 1
    OBVIOUS
  <2>3. \A k \in 1 .. 1 : Two(p)[k] = <<text[p]>>[k]
    BY <2>1
  <2>4. Two(p) = <<text[p]>>
    BY <2>1, <2>2, <2>3, SeqEqual
  <2> QED BY <1>1, <1>3, <2>4
<1> QED BY <1>1, <1>2, <1>3

(* The marks of comments, in terms of the characters.                      *)
LEMMA MarksAt ==
  ASSUME IsText, NEW p \in 1 .. Len(text)
  PROVE  /\ OpensBlock(p) <=> p < Len(text) /\ text[p] = "/" /\ text[p + 1] = "*"
         /\ OpensLine(p)  <=> p < Len(text) /\ text[p] = "/" /\ text[p + 1] = "/"
         /\ ClosesAt(p)   <=> p < Len(text) /\ text[p] = "*" /\ text[p + 1] = "/"
<1>1. CASE p < Len(text)
  BY <1>1, TwoCharacters DEF OpensBlock, OpensLine, ClosesAt
<1>2. CASE ~ (p < Len(text))
  <2>1. Two(p) = <<text[p]>>
    BY <1>2, TwoCharacters
  <2>2. \A a, b, c : <<a>> # <<b, c>>
    OBVIOUS
  <2> QED BY <1>2, <2>1, <2>2 DEF OpensBlock, OpensLine, ClosesAt
<1> QED BY <1>1, <1>2

(* The first number of a range that is in stop.                            *)
LEMMA FirstStop ==
  ASSUME NEW lo \in Nat, NEW hi \in Nat, lo <= hi, NEW stop, hi \in stop
  PROVE  \E j \in lo .. hi : j \in stop /\ \A m \in lo .. j - 1 : m \notin stop
<1> DEFINE T == {j \in lo .. hi : j \in stop}
<1>1. T \subseteq Nat /\ T # {}
  OBVIOUS
<1>2. PICK j \in T : \A k \in T : j <= k
  BY <1>1, LeastNat
<1>3. \A m \in lo .. j - 1 : m \in lo .. hi /\ ~ (j <= m)
  BY <1>2
<1> QED BY <1>2, <1>3

(* Past reads characters of S up to one that is not, or to the end.        *)
LEMMA PastReads ==
  ASSUME IsText, NEW at \in 1 .. Len(text) + 1, NEW S, "zero" \notin S
  PROVE  /\ Past(at, S) \in at .. Len(text) + 1
         /\ \A m \in at .. Past(at, S) - 1 : text[m] \in S
         /\ CharAt(Past(at, S)) \notin S
<1> DEFINE Stops(j) == (\A m \in at .. j - 1 : text[m] \in S) /\ CharAt(j) \notin S
           stop == {j \in 1 .. Len(text) + 1 : CharAt(j) \notin S}
<1>1. Len(text) \in Nat
  BY TextFacts
<1>2. Len(text) + 1 \in stop
  BY <1>1 DEF CharAt
<1>3. PICK j \in at .. Len(text) + 1 : j \in stop /\ \A m \in at .. j - 1 : m \notin stop
  <2> HIDE DEF stop
  <2>1. at \in Nat /\ Len(text) + 1 \in Nat /\ at <= Len(text) + 1
    BY <1>1
  <2> QED BY <1>2, <2>1, FirstStop
<1>4. \A m \in at .. j - 1 : m \in 1 .. Len(text) + 1 /\ m <= Len(text)
  BY <1>1, <1>3
<1>5. \A m \in at .. j - 1 : text[m] \in S
  BY <1>3, <1>4 DEF CharAt
<1>6. \E k \in at .. Len(text) + 1 : Stops(k)
  BY <1>3, <1>5
<1>7. Past(at, S) = CHOOSE k \in at .. Len(text) + 1 : Stops(k)
  BY DEF Past
<1> HIDE DEF Stops
<1>8. Past(at, S) \in at .. Len(text) + 1 /\ Stops(Past(at, S))
  BY <1>6, <1>7
<1> QED BY <1>8 DEF Stops

(* A block comment ends behind its closing.                                *)
LEMMA BlockEndReads ==
  ASSUME IsText, NEW at \in 1 .. Len(text), at < Len(text)
  PROVE  /\ BlockEnd(at) \in at + 4 .. Len(text) + 3
         /\ \A m \in at + 2 .. BlockEnd(at) - 3 : ~ ClosesAt(m)
         /\ BlockEnd(at) = Len(text) + 3 \/ ClosesAt(BlockEnd(at) - 2)
<1> DEFINE Stops(j) == /\ \A m \in at + 2 .. j - 1 : ~ ClosesAt(m)
                       /\ j = Len(text) + 1 \/ ClosesAt(j)
           stop == {j \in at + 2 .. Len(text) + 1 : j = Len(text) + 1 \/ ClosesAt(j)}
           found == CHOOSE k \in at + 2 .. Len(text) + 1 : Stops(k)
<1>1. Len(text) \in Nat /\ at + 2 \in Nat /\ Len(text) + 1 \in Nat /\ at + 2 <= Len(text) + 1
  BY TextFacts
<1>2. Len(text) + 1 \in stop
  BY <1>1
<1>3. PICK j \in at + 2 .. Len(text) + 1 : j \in stop /\ \A m \in at + 2 .. j - 1 : m \notin stop
  <2> HIDE DEF stop
  <2> QED BY <1>1, <1>2, FirstStop
<1>4. \A m \in at + 2 .. j - 1 : m \in at + 2 .. Len(text) + 1
  BY <1>1, <1>3
<1>5. \E k \in at + 2 .. Len(text) + 1 : Stops(k)
  BY <1>3, <1>4
<1>6. BlockEnd(at) = found + 2
  BY DEF BlockEnd, FirstClosing
<1> HIDE DEF Stops
<1>7. found \in at + 2 .. Len(text) + 1 /\ Stops(found)
  BY <1>5
<1> HIDE DEF found
<1>8. BlockEnd(at) - 2 = found /\ BlockEnd(at) - 3 = found - 1
  BY <1>1, <1>6, <1>7
<1>9. BlockEnd(at) \in at + 4 .. Len(text) + 3 /\ (found = Len(text) + 1 => BlockEnd(at) = Len(text) + 3)
  BY <1>1, <1>6, <1>7
<1> QED BY <1>7, <1>8, <1>9 DEF Stops

(* A line comment ends in front of the line break.                         *)
LEMMA LineEndReads ==
  ASSUME IsText, NEW at \in 1 .. Len(text)
  PROVE  /\ LineEnd(at) \in at .. Len(text) + 1
         /\ \A m \in at .. LineEnd(at) - 1 : text[m] # "\n"
         /\ LineEnd(at) = Len(text) + 1 \/ text[LineEnd(at)] = "\n"
<1> DEFINE Stops(j) == /\ \A m \in at .. j - 1 : text[m] # "\n"
                       /\ j = Len(text) + 1 \/ text[j] = "\n"
           stop == {j \in at .. Len(text) + 1 : j = Len(text) + 1 \/ text[j] = "\n"}
<1>1. Len(text) \in Nat /\ at \in Nat /\ Len(text) + 1 \in Nat /\ at <= Len(text) + 1
  BY TextFacts
<1>2. Len(text) + 1 \in stop
  BY <1>1
<1>3. PICK j \in at .. Len(text) + 1 : j \in stop /\ \A m \in at .. j - 1 : m \notin stop
  <2> HIDE DEF stop
  <2> QED BY <1>1, <1>2, FirstStop
<1>4. \A m \in at .. j - 1 : m \in at .. Len(text) + 1
  BY <1>1, <1>3
<1>5. \E k \in at .. Len(text) + 1 : Stops(k)
  BY <1>3, <1>4
<1>6. LineEnd(at) = CHOOSE k \in at .. Len(text) + 1 : Stops(k)
  BY DEF LineEnd
<1> HIDE DEF Stops
<1>7. LineEnd(at) \in at .. Len(text) + 1 /\ Stops(LineEnd(at))
  BY <1>5, <1>6
<1> QED BY <1>7 DEF Stops

----------------------------------------------------------------------------
(* What a branch takes for a token.                                        *)

(* The separators are no characters of anything else.                      *)
LEMMA SeparatorCharacters ==
  \A x \in DOMAIN separators :
    /\ x \notin Word \cup {blank, "\n", "/"}
    /\ \A e \in Singles : x # e[1]
<1> DEFINE table == { <<"(", "LPR">>, <<")", "RPR">>, <<"[", "LBK">>, <<"]", "RBK">>,
                      <<"{", "LBC">>, <<"}", "RBC">>, <<",", "COMMA">>, <<";", "SEMICOLON">> }
           signs == {"(", ")", "[", "]", "{", "}", ",", ";"}
<1>1. DOMAIN separators = {e[1] : e \in table}
  BY MapDomain, Zenon DEF separators
<1>2. \A e \in table : e[1] \in signs
  <2>1. \A a, b : <<a, b>>[1] = a
    OBVIOUS
  <2> QED BY <2>1, Zenon
<1>3. \A x \in signs : x \notin Digit
  BY Zenon DEF Digit
<1>4. \A x \in signs : x \notin Alpha
  BY Zenon DEF Alpha
<1>5. \A x \in signs : x \notin {"_", blank, "\n", "/"}
  BY Zenon DEF blank
<1>6. \A x \in signs : \A e \in Singles : x # e[1]
  <2> DEFINE First == {"+", "-", "*", "/", "%", "<", ">", "!", "&", "|", "^", "=", "."}
  <2>1. \A e \in Singles : e[1] \in First
    BY DEF Singles
  <2>2. \A x \in signs : x \notin First
    BY Zenon
  <2> QED BY <2>1, <2>2, Zenon
<1> HIDE DEF table, signs
<1>7. \A x \in DOMAIN separators : x \in signs
  BY <1>1, <1>2, Zenon
<1> QED BY <1>3, <1>4, <1>5, <1>6, <1>7, Zenon DEF Word, Letter

(* Letters, digits and the marks of comments and lines differ.             *)
LEMMA CharacterKinds ==
  /\ \A x \in Word : x \notin {"zero", "/", "\n", "*", blank}
  /\ \A x \in Letter : x \notin Digit
  /\ blank \notin {"/", "\n"}
<1> DEFINE others == {"zero", "/", "\n", "*", " "}
<1>1. \A x \in Alpha : x \notin Digit \cup others
  BY Zenon DEF Alpha, Digit
<1>2. \A x \in Digit : x \notin others
  BY Zenon DEF Digit
<1>3. "_" \notin Digit \cup others
  BY Zenon DEF Digit
<1>4. blank \notin {"/", "\n"}
  BY Zenon DEF blank
<1> QED BY <1>1, <1>2, <1>3, <1>4, Zenon DEF Word, Letter, blank

(* Joining single characters.                                              *)
LEMMA Joined ==
  ASSUME NEW a, NEW b, NEW c
  PROVE  <<a>> \o <<b>> = <<a, b>> /\ <<a, b>> \o <<c>> = <<a, b, c>>
<1> DEFINE S == {a, b, c}
<1>1. <<a>> \in Seq(S) /\ <<b>> \in Seq(S) /\ <<c>> \in Seq(S) /\ <<a, b>> \in Seq(S)
      /\ <<a, b, c>> \in Seq(S)
  OBVIOUS
<1>2. Len(<<a>>) = 1 /\ Len(<<b>>) = 1 /\ Len(<<c>>) = 1 /\ Len(<<a, b>>) = 2 /\ Len(<<a, b, c>>) = 3
  OBVIOUS
<1>3. /\ <<a>>[1] = a /\ <<b>>[1] = b /\ <<c>>[1] = c /\ <<a, b>>[1] = a /\ <<a, b>>[2] = b
      /\ <<a, b, c>>[1] = a /\ <<a, b, c>>[2] = b /\ <<a, b, c>>[3] = c
  OBVIOUS
<1> HIDE DEF S
<1>4. <<a>> \o <<b>> = <<a, b>>
  <2> DEFINE s == <<a>> \o <<b>>
  <2>1. s \in Seq(S) /\ Len(s) = 1 + 1 /\ \A k \in 1 .. 1 + 1 : s[k] = IF k <= 1 THEN <<a>>[k] ELSE <<b>>[k - 1]
    BY <1>1, <1>2, ConcatProperties
  <2> HIDE DEF s
  <2>2. s[1] = a /\ s[2] = b
    BY <1>3, <2>1
  <2>3. \A k \in 1 .. 2 : k = 1 \/ k = 2
    OBVIOUS
  <2>4. Len(s) = 2 /\ \A k \in 1 .. 2 : s[k] = <<a, b>>[k]
    BY <1>3, <2>1, <2>2, <2>3
  <2>5. s = <<a, b>>
    BY <1>1, <1>2, <2>1, <2>4, SeqEqual
  <2> QED BY <2>5 DEF s
<1>5. <<a, b>> \o <<c>> = <<a, b, c>>
  <2> DEFINE s == <<a, b>> \o <<c>>
  <2>1. s \in Seq(S) /\ Len(s) = 2 + 1 /\ \A k \in 1 .. 2 + 1 : s[k] = IF k <= 2 THEN <<a, b>>[k] ELSE <<c>>[k - 2]
    BY <1>1, <1>2, ConcatProperties
  <2> HIDE DEF s
  <2>2. s[1] = a /\ s[2] = b /\ s[3] = c
    BY <1>3, <2>1
  <2>3. \A k \in 1 .. 3 : k = 1 \/ k = 2 \/ k = 3
    OBVIOUS
  <2>4. Len(s) = 3 /\ \A k \in 1 .. 3 : s[k] = <<a, b, c>>[k]
    BY <1>3, <2>1, <2>2, <2>3
  <2>5. s = <<a, b, c>>
    BY <1>1, <1>2, <2>1, <2>4, SeqEqual
  <2> QED BY <2>5 DEF s
<1> QED BY <1>4, <1>5

(* A character that is an operator is the character of a single one.       *)
LEMMA SingleOperator ==
  ASSUME NEW x
  PROVE  <<x>> \in DOMAIN operators <=> \E e \in Singles : x = e[1]
<1>1. ASSUME <<x>> \in DOMAIN operators PROVE \E e \in Singles : x = e[1]
  <2>1. \A e : <<x>> # <<e[1], e[2]>>
    OBVIOUS
  <2>2. PICK e \in Singles : <<x>> = <<e[1]>>
    BY <1>1, <2>1, OperatorShape
  <2> QED BY <2>2
<1> QED BY <1>1, OperatorShape

(* A word, a number and a separator is no operator.                        *)
LEMMA NoOperator ==
  ASSUME NEW s \in DOMAIN operators
  PROVE  s[1] \notin Word \cup DOMAIN separators \cup {blank, "\n"}
<1>1. CASE \E e \in Singles : s = <<e[1]>>
  BY <1>1, OperatorCharacters, SeparatorCharacters
<1>2. CASE \E e \in Doubles : s = <<e[1], e[2]>> /\ \E f \in Singles : f[1] = e[1]
  BY <1>2, OperatorCharacters, SeparatorCharacters
<1> QED BY <1>1, <1>2, OperatorShape

(* The token at i up to end.                                               *)
Token(t, end) == t.at = i /\ t.str = Substr(i, end - i)

(* It ends in front of end, or at the end of the text.                     *)
LEMMA TokenFacts ==
  ASSUME IsText, i \in 1 .. Len(text), NEW end \in i + 1 .. Len(text) + 2,
         end = Len(text) + 2 => i = Len(text), NEW t, Token(t, end)
  PROVE  /\ End(t) = IF end = Len(text) + 2 THEN Len(text) + 1 ELSE end
         /\ End(t) \in i + 1 .. Len(text) + 1
         /\ t.str \in Seq(ToSet(text)) /\ t.str # <<>>
         /\ Len(t.str) = End(t) - i /\ DOMAIN t.str = 1 .. End(t) - i
         /\ t.str = SubSeq(text, t.at, End(t) - 1)
         /\ \A k \in 1 .. End(t) - i : t.str[k] = text[i + k - 1]
         /\ t.str[1] = text[i]
<1>1. Len(text) \in Nat /\ i \in Nat /\ end \in Nat
  <2>1. Len(text) \in Nat
    BY TextFacts
  <2>2. i \in Nat
    BY <2>1
  <2> QED BY <2>1, <2>2
<1> DEFINE size == IF end = Len(text) + 2 THEN 1 ELSE end - i
<1>2. size = Size(i, end - i)
  BY <1>1 DEF Size
<1>3. size \in Nat \ {0} /\ end - i \in Nat \ {0}
  BY <1>1
<1>4. i + size = IF end = Len(text) + 2 THEN Len(text) + 1 ELSE end
  BY <1>1
<1> HIDE DEF size
<1>5. /\ t.str \in Seq(ToSet(text)) /\ Len(t.str) = size /\ DOMAIN t.str = 1 .. size
      /\ t.str = SubSeq(text, i, i + size - 1)
      /\ \A k \in 1 .. size : t.str[k] = text[i + k - 1]
  <2>1. ASSUME NEW n \in Nat \ {0}, size = Size(i, n)
        PROVE  /\ Substr(i, n) \in Seq(ToSet(text)) /\ Len(Substr(i, n)) = size
               /\ DOMAIN Substr(i, n) = 1 .. size
               /\ Substr(i, n) = SubSeq(text, i, i + size - 1)
               /\ \A k \in 1 .. size : Substr(i, n)[k] = text[i + k - 1]
    BY <2>1, SubstrFacts
  <2>2. PICK n \in Nat \ {0} : n = end - i
    BY <1>3
  <2>3. size = Size(i, n)
    BY <1>2, <2>2
  <2>4. t.str = Substr(i, n)
    BY <2>2 DEF Token
  <2> QED BY <2>1, <2>3, <2>4
<1>6. End(t) = i + size /\ End(t) - i = size /\ t.at = i
  <2>1. t.at = i
    BY DEF Token
  <2>2. End(t) = i + size
    BY <1>5, <2>1 DEF End
  <2> QED BY <1>1, <1>3, <2>1, <2>2
<1>7. t.str # <<>>
  BY <1>3, <1>5, EmptySeq
<1>8. t.str[1] = text[i]
  <2>1. 1 \in 1 .. size /\ i + 1 - 1 = i
    BY <1>1, <1>3
  <2> QED BY <1>5, <2>1
<1>9. i + size \in i + 1 .. Len(text) + 1
  BY <1>1, <1>3, <1>4
<1>10. End(t) = (IF end = Len(text) + 2 THEN Len(text) + 1 ELSE end) /\ End(t) \in i + 1 .. Len(text) + 1
  BY <1>4, <1>6, <1>9
<1>11. /\ Len(t.str) = End(t) - i /\ DOMAIN t.str = 1 .. End(t) - i
       /\ t.str = SubSeq(text, t.at, End(t) - 1)
       /\ \A k \in 1 .. End(t) - i : t.str[k] = text[i + k - 1]
  <2>1. \A k \in 1 .. End(t) - i : t.str[k] = text[i + k - 1]
    BY <1>5, <1>6
  <2>2. t.str = SubSeq(text, t.at, End(t) - 1)
    BY <1>5, <1>6
  <2> QED BY <1>5, <1>6, <2>1, <2>2
<1> QED BY <1>5, <1>7, <1>8, <1>10, <1>11

(* What Emit needs to know of the token up to end.                         *)
Lexeme(end) ==
  /\ end \in i + 1 .. Len(text) + 2
  /\ end = Len(text) + 2 => i = Len(text) /\ <<text[i]>> \in DOMAIN operators
  /\ i = Len(text) /\ <<text[i]>> \in DOMAIN operators => end = Len(text) + 2
  /\ \A q \in i .. end - 1 : q <= Len(text) =>
       text[q] # "\n" /\ ~ OpensBlock(q) /\ ~ OpensLine(q)
  /\ \A t : Token(t, end) => Whole(t)

(* read_id_keyword reads a word.                                           *)
LEMMA WordIsLexeme ==
  ASSUME IsText, i \in 1 .. Len(text), text[i] \in Letter
  PROVE  Lexeme(read_id_keyword(i))
<1> DEFINE end == read_id_keyword(i)
<1>1. Len(text) \in Nat /\ i \in Nat
  BY TextFacts
<1>2. "zero" \notin Word /\ "/" \notin Word /\ "\n" \notin Word
  BY CharacterKinds
<1>3. /\ end \in i .. Len(text) + 1 /\ CharAt(end) \notin Word
      /\ \A m \in i .. end - 1 : text[m] \in Word
  <2>1. i \in 1 .. Len(text) + 1
    BY <1>1
  <2> QED BY <1>2, <2>1, PastReads DEF read_id_keyword
<1>4. end # i
  BY <1>1, <1>3 DEF CharAt, Word
<1> HIDE DEF end
<1>5. end \in i + 1 .. Len(text) + 2 /\ end # Len(text) + 2 /\ end <= Len(text) + 1
  BY <1>1, <1>3, <1>4
<1>6. text[i] \in Word /\ <<text[i]>> \notin DOMAIN operators
  <2>1. text[i] \in Word
    BY DEF Word
  <2> QED BY <2>1, OperatorCharacters, SingleOperator
<1>7. ASSUME NEW q \in i .. end - 1, q <= Len(text)
      PROVE  text[q] # "\n" /\ ~ OpensBlock(q) /\ ~ OpensLine(q)
  <2>1. q \in 1 .. Len(text)
    BY <1>1, <1>5, <1>7
  <2> QED BY <1>2, <1>3, <2>1, MarksAt
<1>8. ASSUME NEW t, Token(t, end) PROVE Whole(t)
  <2>1. /\ End(t) = end /\ DOMAIN t.str = 1 .. end - i /\ t.str[1] = text[i]
        /\ \A k \in 1 .. end - i : t.str[k] = text[i + k - 1]
    BY <1>5, <1>8, TokenFacts
  <2>2. \A k \in 1 .. end - i : i + k - 1 \in i .. end - 1
    BY <1>1, <1>5
  <2>3. ToSet(t.str) \subseteq Word
    BY <1>3, <2>1, <2>2 DEF ToSet
  <2>4. text[i] \notin Digit
    BY CharacterKinds
  <2>5. t.str \notin DOMAIN operators
    BY <1>6, <2>1, NoOperator
  <2> QED BY <1>3, <2>1, <2>3, <2>4, <2>5 DEF Whole
<1> QED BY <1>5, <1>6, <1>7, <1>8 DEF Lexeme, end

(* read_num reads a number.                                                *)
LEMMA NumberIsLexeme ==
  ASSUME IsText, i \in 1 .. Len(text), text[i] \in Digit
  PROVE  Lexeme(read_num(i))
<1> DEFINE end == read_num(i)
           hex == text[i] = "0" /\ CharAt(i + 1) \in {"x", "X"}
<1>1. Len(text) \in Nat /\ i \in Nat
  BY TextFacts
<1>2. /\ "zero" \notin Hex \cup Digit \cup {"x", "X"}
      /\ \A x \in Hex \cup Digit \cup {"x", "X"} : x \notin {"/", "\n"}
      /\ \A x \in Digit : x \notin {"x", "X"}
  BY DEF Hex, Digit
<1>3. /\ end \in i + 1 .. Len(text) + 1
      /\ \A m \in i .. end - 1 : text[m] \in Hex \cup Digit \cup {"x", "X"}
      /\ hex => CharAt(end) \notin Hex /\ i + 1 \in i .. end - 1 /\ text[i + 1] \in {"x", "X"}
      /\ ~ hex => CharAt(end) \notin Digit /\ \A m \in i .. end - 1 : text[m] \in Digit
  <2>1. CASE hex
    <3>1. i + 1 <= Len(text) /\ text[i + 1] \in {"x", "X"}
      BY <1>1, <1>2, <2>1 DEF CharAt
    <3>2. end = Past(i + 2, Hex)
      BY <2>1 DEF read_num
    <3>3. i + 2 \in 1 .. Len(text) + 1
      BY <1>1, <3>1
    <3> HIDE DEF end
    <3>4. /\ end \in i + 2 .. Len(text) + 1 /\ CharAt(end) \notin Hex
          /\ \A m \in i + 2 .. end - 1 : text[m] \in Hex
      BY <1>2, <3>2, <3>3, PastReads
    <3>5. \A m \in i .. end - 1 : m = i \/ m = i + 1 \/ m \in i + 2 .. end - 1
      BY <1>1, <3>4
    <3>6. end \in i + 1 .. Len(text) + 1 /\ i + 1 \in i .. end - 1
      BY <1>1, <3>4
    <3>7. \A m \in i .. end - 1 : text[m] \in Hex \cup Digit \cup {"x", "X"}
      BY <3>1, <3>4, <3>5
    <3> QED BY <2>1, <3>1, <3>4, <3>6, <3>7
  <2>2. CASE ~ hex
    <3>1. end = Past(i, Digit)
      BY <2>2 DEF read_num
    <3>2. i \in 1 .. Len(text) + 1
      BY <1>1
    <3> HIDE DEF end
    <3>3. /\ end \in i .. Len(text) + 1 /\ CharAt(end) \notin Digit
          /\ \A m \in i .. end - 1 : text[m] \in Digit
      BY <1>2, <3>1, <3>2, PastReads
    <3>4. end # i
      BY <1>1, <3>3 DEF CharAt
    <3>5. end \in i + 1 .. Len(text) + 1
      BY <1>1, <3>3, <3>4
    <3> QED BY <2>2, <3>3, <3>5
  <2> QED BY <2>1, <2>2
<1> HIDE DEF end, hex
<1>4. end \in i + 1 .. Len(text) + 2 /\ end # Len(text) + 2 /\ end <= Len(text) + 1
  BY <1>1, <1>3
<1>5. text[i] \in Word /\ <<text[i]>> \notin DOMAIN operators
  <2>1. text[i] \in Word
    BY DEF Word
  <2> QED BY <2>1, OperatorCharacters, SingleOperator
<1>6. ASSUME NEW q \in i .. end - 1, q <= Len(text)
      PROVE  text[q] # "\n" /\ ~ OpensBlock(q) /\ ~ OpensLine(q)
  <2>1. q \in 1 .. Len(text)
    BY <1>1, <1>4, <1>6
  <2> QED BY <1>2, <1>3, <2>1, MarksAt
<1>7. ASSUME NEW t, Token(t, end) PROVE Whole(t)
  <2>1. /\ End(t) = end /\ DOMAIN t.str = 1 .. end - i /\ t.str[1] = text[i] /\ Len(t.str) = end - i
        /\ \A k \in 1 .. end - i : t.str[k] = text[i + k - 1]
    BY <1>4, <1>7, TokenFacts
  <2>2. Hexadecimal(t.str) <=> hex
    <3>1. ASSUME end - i > 1 PROVE t.str[2] = text[i + 1] /\ i + 1 \in i .. end - 1
      <4>1. 2 \in 1 .. end - i /\ i + 2 - 1 = i + 1 /\ i + 1 \in i .. end - 1
        BY <1>1, <1>4, <3>1
      <4> QED BY <2>1, <4>1
    <3>2. i + 1 \in i .. end - 1 => end - i > 1
      BY <1>1, <1>4
    <3> QED BY <1>2, <1>3, <2>1, <3>1, <3>2 DEF Hexadecimal
  <2>3. text[i] \notin Letter
    BY CharacterKinds
  <2>4. t.str \notin DOMAIN operators
    BY <1>5, <2>1, NoOperator
  <2> QED BY <1>3, <2>1, <2>2, <2>3, <2>4 DEF Whole
<1> QED BY <1>4, <1>5, <1>6, <1>7 DEF Lexeme, end

(* A separator is one character.                                           *)
LEMMA SeparatorIsLexeme ==
  ASSUME IsText, i \in 1 .. Len(text), text[i] \in DOMAIN separators
  PROVE  Lexeme(i + 1)
<1>1. Len(text) \in Nat /\ i \in Nat
  BY TextFacts
<1>2. i + 1 \in i + 1 .. Len(text) + 2 /\ i + 1 # Len(text) + 2
  BY <1>1
<1>3. <<text[i]>> \notin DOMAIN operators
  BY SeparatorCharacters, SingleOperator
<1>4. ASSUME NEW q \in i .. i + 1 - 1, q <= Len(text)
      PROVE  text[q] # "\n" /\ ~ OpensBlock(q) /\ ~ OpensLine(q)
  <2>1. q = i
    BY <1>1
  <2> QED BY <2>1, MarksAt, SeparatorCharacters
<1>5. ASSUME NEW t, Token(t, i + 1) PROVE Whole(t)
  <2>1. t.str[1] = text[i]
    BY <1>2, <1>5, TokenFacts
  <2>2. t.str \notin DOMAIN operators
    BY <2>1, NoOperator
  <2> QED BY <2>1, <2>2, SeparatorCharacters DEF Whole, Word
<1> QED BY <1>2, <1>3, <1>4, <1>5 DEF Lexeme

(* read_operator reads the longest operator, and too far at the end.       *)
LEMMA OperatorIsLexeme ==
  ASSUME IsText, i \in 1 .. Len(text), ~ OpensBlock(i), ~ OpensLine(i), read_operator(i) > i
  PROVE  Lexeme(read_operator(i)) /\ Substr(i, read_operator(i) - i) \in DOMAIN operators
<1> DEFINE end == read_operator(i)
<1>1. Len(text) \in Nat /\ i \in Nat /\ ~ (i > i)
  BY TextFacts
<1>2. Substr(i, 1) = <<text[i]>>
  <2>1. Size(i, 1) = 1
    BY <1>1 DEF Size
  <2>2. /\ Substr(i, 1) \in Seq(ToSet(text)) /\ Len(Substr(i, 1)) = 1
        /\ \A k \in 1 .. 1 : Substr(i, 1)[k] = text[i + k - 1]
    <3>1. 1 \in Nat \ {0}
      OBVIOUS
    <3> QED BY <2>1, <3>1, SubstrFacts
  <2>3. i + 1 - 1 = i /\ 1 \in 1 .. 1 /\ \A k \in 1 .. 1 : k = 1
    BY <1>1
  <2>4. \A k \in 1 .. 1 : Substr(i, 1)[k] = <<text[i]>>[k]
    BY <2>2, <2>3
  <2>5. <<text[i]>> \in Seq({text[i]}) /\ Len(<<text[i]>>) = 1
    OBVIOUS
  <2> QED BY <2>2, <2>4, <2>5, SeqEqual
<1>3. <<text[i]>> \in DOMAIN operators /\ end = IF Two(i) \in DOMAIN operators THEN i + 2 ELSE i + 1
  BY <1>1, <1>2 DEF read_operator
<1>4. text[i] \notin Word \cup DOMAIN separators \cup {blank, "\n"}
  <2>1. <<text[i]>>[1] = text[i]
    OBVIOUS
  <2> QED BY <1>3, <2>1, NoOperator
<1> HIDE DEF end
<1>5. CASE i = Len(text)
  <2>1. Two(i) = <<text[i]>>
    BY <1>1, <1>5, TwoCharacters
  <2>2. end = i + 2
    BY <1>3, <2>1
  <2>3. end \in i + 1 .. Len(text) + 2 /\ end = Len(text) + 2
    BY <1>1, <1>5, <2>2
  <2>4. ASSUME NEW q \in i .. end - 1, q <= Len(text)
        PROVE  text[q] # "\n" /\ ~ OpensBlock(q) /\ ~ OpensLine(q)
    <3>1. q = i
      BY <1>1, <1>5, <2>4
    <3> QED BY <1>4, <3>1
  <2>5. ASSUME NEW t, Token(t, end) PROVE Whole(t)
    <3>1. End(t) = Len(text) + 1 /\ t.str[1] = text[i]
      BY <1>5, <2>3, <2>5, TokenFacts
    <3>2. ~ (End(t) <= Len(text))
      BY <1>1, <3>1
    <3> QED BY <1>4, <3>1, <3>2 DEF Whole, Word
  <2>6. Substr(i, end - i) \in DOMAIN operators
    <3>1. end - i = 2
      BY <1>1, <2>2
    <3> QED BY <1>3, <2>1, <3>1 DEF Two
  <2> QED BY <1>3, <1>5, <2>3, <2>4, <2>5, <2>6 DEF Lexeme, end
<1>6. CASE i < Len(text)
  <2>1. Two(i) = <<text[i], text[i + 1]>>
    BY <1>6, TwoCharacters
  <2>2. end \in i + 1 .. Len(text) + 2 /\ end # Len(text) + 2 /\ i # Len(text)
    BY <1>1, <1>3, <1>6
  <2>3. end = i + 2 => text[i + 1] \notin {"/", "\n"}
    <3>1. ASSUME end = i + 2 PROVE text[i + 1] \notin {"/", "\n"}
      <4>1. Two(i) \in DOMAIN operators
        BY <1>1, <1>3, <3>1
      <4>2. \A e \in Singles : Two(i) # <<e[1]>>
        BY <2>1
      <4>3. PICK e \in Doubles : Two(i) = <<e[1], e[2]>>
        BY <4>1, <4>2, OperatorShape
      <4>4. text[i + 1] = e[2]
        BY <2>1, <4>3
      <4> QED BY <4>4, OperatorCharacters
    <3> QED BY <3>1
  <2>4. ASSUME NEW q \in i .. end - 1, q <= Len(text)
        PROVE  text[q] # "\n" /\ ~ OpensBlock(q) /\ ~ OpensLine(q)
    <3>1. CASE q = i
      BY <1>4, <3>1
    <3>2. CASE q # i
      <4>1. q = i + 1 /\ end = i + 2 /\ q \in 1 .. Len(text)
        BY <1>1, <1>3, <2>4, <3>2
      <4> QED BY <2>3, <4>1, MarksAt
    <3> QED BY <3>1, <3>2
  <2>5. Substr(i, end - i) = IF Two(i) \in DOMAIN operators THEN Two(i) ELSE <<text[i]>>
    <3>1. end - i = IF Two(i) \in DOMAIN operators THEN 2 ELSE 1
      BY <1>1, <1>3
    <3> QED BY <1>2, <3>1 DEF Two
  <2>6. ASSUME NEW t, Token(t, end) PROVE Whole(t)
    <3>1. End(t) = end /\ t.str[1] = text[i]
      BY <2>2, <2>6, TokenFacts
    <3>2. ASSUME t.str \in DOMAIN operators, end <= Len(text)
          PROVE  t.str \o <<text[end]>> \notin DOMAIN operators
      <4>1. CASE Two(i) \in DOMAIN operators
        <5>1. t.str = <<text[i], text[i + 1]>>
          BY <2>1, <2>5, <2>6, <4>1 DEF Token
        <5>2. t.str \o <<text[end]>> = <<text[i], text[i + 1], text[end]>>
          BY <5>1, Joined
        <5>3. \A a, b, c, d, e : <<a, b, c>> # <<d>> /\ <<a, b, c>> # <<d, e>>
          OBVIOUS
        <5> QED BY <5>2, <5>3, OperatorShape
      <4>2. CASE Two(i) \notin DOMAIN operators
        <5>1. t.str = <<text[i]>> /\ end = i + 1
          BY <1>3, <2>5, <2>6, <4>2 DEF Token
        <5>2. t.str \o <<text[end]>> = <<text[i], text[i + 1]>>
          BY <5>1, Joined
        <5> QED BY <2>1, <4>2, <5>2
      <4> QED BY <4>1, <4>2
    <3> QED BY <1>4, <3>1, <3>2 DEF Whole, Word
  <2> QED BY <1>3, <2>2, <2>4, <2>5, <2>6 DEF Lexeme, end
<1> QED BY <1>1, <1>5, <1>6

----------------------------------------------------------------------------
(* The line and the tokens on it, in a turn that ends no line.             *)

(* The members of the lists.                                               *)
LEMMA Members ==
  ASSUME LexTypeOK
  PROVE  /\ IsText /\ Len(text) \in Nat /\ DOMAIN text = 1 .. Len(text) /\ i \in Nat
         /\ \A t \in ToSet(tokens) : t \in TokenType
         /\ \A c \in ToSet(comments) : c \in CommentType
         /\ DOMAIN tokens = 1 .. Len(tokens) /\ Len(tokens) \in Nat
         /\ Len(rows) \in Nat
<1>1. IsText
  BY DEF LexTypeOK, IsText
<1>2. Len(text) \in Nat /\ DOMAIN text = 1 .. Len(text)
  BY <1>1, TextFacts
<1>3. i \in Nat
  BY <1>2 DEF LexTypeOK
<1>4. tokens \in Seq(TokenType) /\ comments \in Seq(CommentType) /\ rows \in Seq(Seq(ToSet(text)))
  BY DEF LexTypeOK
<1>5. /\ DOMAIN tokens = 1 .. Len(tokens) /\ Len(tokens) \in Nat /\ DOMAIN comments = 1 .. Len(comments)
      /\ Len(rows) \in Nat
  BY <1>4, LenProperties
<1>6. \A n \in DOMAIN tokens : tokens[n] \in TokenType
  BY <1>4, <1>5, LenProperties
<1>7. \A n \in DOMAIN comments : comments[n] \in CommentType
  BY <1>4, <1>5, LenProperties
<1>8. \A t \in ToSet(tokens) : t \in TokenType
  BY <1>6 DEF ToSet
<1>9. \A c \in ToSet(comments) : c \in CommentType
  BY <1>7 DEF ToSet
<1> QED BY <1>1, <1>2, <1>3, <1>5, <1>8, <1>9

(* The characters from i on that a turn passes are no line breaks, but for *)
(* those in a block comment, and what lies before keeps its place.         *)
Quiet(j) ==
  /\ i' = j /\ text' = text /\ row' = row /\ rows' = rows /\ row_begin' = row_begin
  /\ i <= j
  /\ \A p \in 1 .. i - 1 : InBlock(p)' <=> InBlock(p)
  /\ \A p \in i .. j - 1 : p <= Len(text) => text[p] # "\n" \/ InBlock(p)'

(* No line is ended, here or before.                                       *)
LEMMA QuietBreaks ==
  ASSUME LexTypeOK, NEW j \in Nat, Quiet(j)
  PROVE  /\ \A a \in Nat, b \in Nat : b <= i => Breaks(a, b)' = Breaks(a, b)
         /\ \A a \in Nat : Breaks(a, i)' = Breaks(a, i)
<1>1. Len(text) \in Nat /\ DOMAIN text = 1 .. Len(text) /\ i \in Nat
  BY Members
<1>2. i' = j /\ text' = text /\ DOMAIN text' = 1 .. Len(text) /\ i <= j
  BY <1>1 DEF Quiet
<1>3. ASSUME NEW a \in Nat, NEW b \in Nat, b <= i PROVE Breaks(a, b)' = Breaks(a, b)
  <2>1. \A q \in 1 .. Len(text) : q < b => q < i /\ q < j /\ (InBlock(q)' <=> InBlock(q))
    BY <1>1, <1>2, <1>3 DEF Quiet
  <2>2. ASSUME NEW q PROVE q \in Breaks(a, b)' <=> q \in Breaks(a, b)
    BY <1>1, <1>2, <2>1 DEF Breaks, Scanned
  <2> QED BY <2>2
<1>4. ASSUME NEW a \in Nat PROVE Breaks(a, i)' = Breaks(a, i)
  <2>1. ASSUME NEW q \in 1 .. Len(text), q < j, text[q] = "\n", ~ InBlock(q)'
        PROVE  q < i /\ ~ InBlock(q)
    <3>1. q \in i .. j - 1 => text[q] # "\n" \/ InBlock(q)'
      BY <1>1, <2>1 DEF Quiet
    <3>2. q \notin i .. j - 1
      BY <2>1, <3>1
    <3>3. q < i /\ q \in 1 .. i - 1
      BY <1>1, <2>1, <3>2
    <3> QED BY <2>1, <3>3 DEF Quiet
  <2>2. ASSUME NEW q \in 1 .. Len(text), q < i, ~ InBlock(q) PROVE q < j /\ ~ InBlock(q)'
    <3>1. q \in 1 .. i - 1 /\ q < j
      BY <1>1, <1>2, <2>2
    <3> QED BY <2>2, <3>1 DEF Quiet
  <2>3. ASSUME NEW q PROVE q \in Breaks(a, i)' <=> q \in Breaks(a, i)
    BY <1>1, <1>2, <2>1, <2>2 DEF Breaks, Scanned
  <2> QED BY <2>3
<1> QED BY <1>3, <1>4

(* The loop stays on its line, and so do the tokens.                       *)
LEMMA QuietLine ==
  ASSUME LexTypeOK, Ahead, Line, Lines, NEW j \in Nat, Quiet(j),
         Even(row_begin, i)' /\ Even(row_begin, i) /\ col = 1 + i - row_begin =>
           col' = 1 + j - row_begin
  PROVE  Line' /\ \A t \in ToSet(tokens) : (\E b \in 1 .. t.at : LineOf(t, b))'
<1>1. /\ Len(text) \in Nat /\ DOMAIN text = 1 .. Len(text) /\ i \in Nat /\ IsText
      /\ \A t \in ToSet(tokens) : t \in TokenType
  BY Members
<1>2. /\ text' = text /\ row' = row /\ rows' = rows /\ row_begin' = row_begin /\ i' = j /\ i <= j
      /\ DOMAIN text' = 1 .. Len(text) /\ Len(text') = Len(text)
  BY <1>1 DEF Quiet
<1>3. /\ \A a \in Nat, b \in Nat : b <= i => Breaks(a, b)' = Breaks(a, b)
      /\ \A a \in Nat : Breaks(a, i)' = Breaks(a, i)
  BY QuietBreaks
<1>4. Meaningful' = Meaningful
  BY DEF Meaningful
<1>5. \A p \in 1 .. i - 1 : InBlock(p)' <=> InBlock(p)
  BY DEF Quiet
<1>6. row_begin \in Nat /\ row_begin >= 1 /\ row_begin <= i
  BY <1>1 DEF LexTypeOK
<1>7. Line'
  <2>1. Breaks(1, i)' = Breaks(1, i)
    BY <1>3
  <2>2. row' = 1 + Cardinality(Breaks(1, i)') /\ row' = 1 + Len(rows')
    BY <1>2, <2>1 DEF Line
  <2>3. row_begin' = 1 \/ row_begin' - 1 \in Breaks(1, i)'
    BY <1>2, <2>1 DEF Line
  <2>4. ASSUME NEW b \in Nat, b = row_begin PROVE Breaks(b, i)' = {}
    BY <1>3, <2>4 DEF Line
  <2>5. Breaks(row_begin, i)' = {}
    <3>1. PICK b \in Nat : b = row_begin
      BY <1>6
    <3>2. Breaks(b, i)' = {}
      BY <2>4, <3>1
    <3>3. b = row_begin'
      BY <1>2, <3>1
    <3> QED BY <3>2, <3>3
  <2>6. Even(row_begin, i)' => Even(row_begin, i)
    <3>1. ASSUME NEW q \in row_begin .. i - 1 PROVE q \in row_begin' .. i' - 1 /\ q \in 1 .. i - 1
      <4>1. i <= j
        BY <1>2
      <4>2. q \in row_begin .. j - 1 /\ q \in 1 .. i - 1
        BY <1>1, <1>6, <4>1
      <4> QED BY <1>2, <4>2
    <3>2. \A q \in row_begin .. i - 1 : InBlock(q)' <=> InBlock(q)
      BY <1>5, <3>1
    <3> QED BY <1>1, <1>2, <1>4, <3>1, <3>2 DEF Even
  <2>7. Even(row_begin, i)' => col' = 1 + j - row_begin
    BY <1>2, <2>6 DEF Line
  <2>8. /\ (row = 1 + Cardinality(Breaks(1, i)))' /\ (row = 1 + Len(rows))'
        /\ (row_begin = 1 \/ row_begin - 1 \in Breaks(1, i))'
    BY <2>2, <2>3
  <2>9. (Breaks(row_begin, i) = {})'
    BY <2>5
  <2>10. (Even(row_begin, i) => col = 1 + i - row_begin)'
    BY <1>2, <2>7, Zenon
  <2> QED BY <2>8, <2>9, <2>10, Zenon DEF Line
<1>8. ASSUME NEW t \in ToSet(tokens) PROVE (\E b \in 1 .. t.at : LineOf(t, b))'
  <2>1. PICK b \in 1 .. t.at : LineOf(t, b)
    BY DEF Lines
  <2>2. t.at \in Nat /\ End(t) \in Nat /\ t.at <= End(t) /\ End(t) <= i /\ Len(t.str) \in Nat
    <3>1. t \in TokenType
      BY <1>1
    <3>2. t.at \in 1 .. Len(text) /\ Len(t.str) \in Nat
      BY <1>1, <3>1, LenProperties DEF TokenType
    <3> QED BY <1>1, <3>2 DEF Ahead, End
  <2>3. t.at <= i /\ b \in Nat /\ b >= 1 /\ 1 \in Nat
    BY <1>1, <2>2
  <2>4. /\ Breaks(1, t.at)' = Breaks(1, t.at) /\ Breaks(b, t.at)' = Breaks(b, t.at)
        /\ Breaks(t.at, i)' = Breaks(t.at, i)
    BY <1>3, <2>2, <2>3
  <2>5. Even(b, t.at)' => Even(b, t.at)
    <3>1. \A q \in b .. t.at - 1 : q \in 1 .. i - 1
      BY <1>1, <2>2, <2>3
    <3>2. \A q \in b .. t.at - 1 : InBlock(q)' <=> InBlock(q)
      BY <1>5, <3>1
    <3> QED BY <1>1, <1>2, <1>4, <3>2 DEF Even
  <2>6. LineOf(t, b)'
    BY <1>2, <2>1, <2>4, <2>5 DEF LineOf
  <2> QED BY <2>6
<1> QED BY <1>7, <1>8

----------------------------------------------------------------------------
(* A turn that adds a token.                                               *)

(* The text stays, and with it what is said of the text only.              *)
LEMMA SameText ==
  ASSUME text' = text
  PROVE  /\ \A p : /\ OpensBlock(p)' <=> OpensBlock(p)
                   /\ OpensLine(p)' <=> OpensLine(p)
                   /\ ClosesAt(p)' <=> ClosesAt(p)
         /\ \A t : Whole(t)' <=> Whole(t)
         /\ \A c : IsComment(c)' <=> IsComment(c)
         /\ Meaningful' = Meaningful
<1>1. \A p : /\ OpensBlock(p)' <=> OpensBlock(p)
             /\ OpensLine(p)' <=> OpensLine(p)
             /\ ClosesAt(p)' <=> ClosesAt(p)
  BY DEF OpensBlock, OpensLine, ClosesAt, Two, Substr
<1>2. \A t : Whole(t)' <=> Whole(t)
  BY DEF Whole, CharAt
<1>3. \A c : IsComment(c)' <=> IsComment(c)
  BY <1>1 DEF IsComment
<1> QED BY <1>1, <1>2, <1>3 DEF Meaningful

(* While the loop runs, no token is at the end of the text and every       *)
(* comment is closed.                                                      *)
LEMMA NothingAtTheEnd ==
  ASSUME LexTypeOK, TokensAreTheText, CommentsAreComments, Ahead, Running
  PROVE  /\ i \in 1 .. Len(text)
         /\ \A t \in ToSet(tokens) : /\ t.at \in Nat /\ t.at >= 1 /\ t.at < i /\ t.at < Len(text)
                                     /\ Len(t.str) \in Nat \ {0} /\ End(t) \in Nat /\ End(t) <= i
         /\ \A c \in ToSet(comments) : /\ c.at \in Nat /\ c.at >= 1 /\ c.end \in Nat /\ c.end <= i
                                       /\ OpensBlock(c.at) => c.end - 2 \in c.at + 2 .. Len(text)
                                                              /\ ClosesAt(c.end - 2)
<1>1. /\ IsText /\ Len(text) \in Nat /\ DOMAIN text = 1 .. Len(text) /\ i \in Nat
      /\ \A t \in ToSet(tokens) : t \in TokenType
      /\ \A c \in ToSet(comments) : c \in CommentType
  BY Members
<1>2. i \in 1 .. Len(text)
  BY <1>1 DEF LexTypeOK, Running
<1>3. ASSUME NEW t \in ToSet(tokens)
      PROVE  /\ t.at \in Nat /\ t.at >= 1 /\ t.at < i /\ t.at < Len(text)
             /\ Len(t.str) \in Nat \ {0} /\ End(t) \in Nat /\ End(t) <= i
  <2>1. t.at \in 1 .. Len(text) /\ t.str \in Seq(ToSet(text))
    BY <1>1 DEF TokenType
  <2>2. t.str # <<>>
    BY DEF TokensAreTheText, ToSet
  <2>3. Len(t.str) \in Nat \ {0}
    BY <2>1, <2>2, LenProperties, EmptySeq
  <2>4. End(t) <= i
    BY DEF Ahead
  <2>5. End(t) = t.at + Len(t.str)
    BY DEF End
  <2> HIDE DEF End
  <2> QED BY <1>1, <1>2, <2>1, <2>3, <2>4, <2>5
<1>4. ASSUME NEW c \in ToSet(comments)
      PROVE  /\ c.at \in Nat /\ c.at >= 1 /\ c.end \in Nat /\ c.end <= i
             /\ OpensBlock(c.at) => c.end - 2 \in c.at + 2 .. Len(text) /\ ClosesAt(c.end - 2)
  <2>1. c.at \in 1 .. Len(text) /\ c.end \in Nat /\ c.end <= i
    BY <1>1 DEF CommentType, Ahead
  <2>2. ASSUME OpensBlock(c.at)
        PROVE  c.end - 2 \in c.at + 2 .. Len(text) /\ ClosesAt(c.end - 2)
    <3>1. ~ OpensLine(c.at)
      BY <1>1, <2>1, <2>2, MarksAt
    <3>2. c.at + 2 <= c.end - 2 /\ (ClosesAt(c.end - 2) \/ c.end = Len(text) + 3)
      BY <3>1 DEF CommentsAreComments, IsComment
    <3>3. c.end # Len(text) + 3 /\ c.end - 2 <= Len(text)
      BY <1>1, <1>2, <2>1
    <3> QED BY <1>1, <2>1, <3>2, <3>3
  <2> QED BY <1>1, <2>1, <2>2
<1> QED BY <1>2, <1>3, <1>4

(* The token the loop appends.                                             *)
NewToken(t, sym, end) ==
  /\ t = [sym |-> sym, str |-> Substr(i, end - i), row |-> row, col |-> col, at |-> i]
  /\ tokens' = Append(tokens, t)

(* Emit keeps everything.                                                  *)
LEMMA EmitStep ==
  ASSUME LexInv, Running, NEW sym \in Symbols, NEW end, Lexeme(end), Emit(sym, end)
  PROVE  LexInv'
<1> USE DEF LexInv
<1>1. /\ IsText /\ Len(text) \in Nat /\ DOMAIN text = 1 .. Len(text) /\ i \in Nat
      /\ DOMAIN tokens = 1 .. Len(tokens) /\ Len(tokens) \in Nat /\ row_begin \in 1 .. i
      /\ row \in Nat \ {0} /\ col \in Nat \ {0} /\ tokens \in Seq(TokenType)
  BY Members DEF LexTypeOK
<1>2. /\ i \in 1 .. Len(text)
      /\ \A t \in ToSet(tokens) : /\ t.at \in Nat /\ t.at >= 1 /\ t.at < i /\ t.at < Len(text)
                                  /\ Len(t.str) \in Nat \ {0} /\ End(t) \in Nat /\ End(t) <= i
      /\ \A c \in ToSet(comments) : /\ c.at \in Nat /\ c.at >= 1 /\ c.end \in Nat /\ c.end <= i
                                    /\ OpensBlock(c.at) => c.end - 2 \in c.at + 2 .. Len(text)
                                                           /\ ClosesAt(c.end - 2)
  BY NothingAtTheEnd
<1>3. /\ end \in i + 1 .. Len(text) + 2 /\ (end = Len(text) + 2 => i = Len(text))
      /\ end = Len(text) + 2 <=> i = Len(text) /\ <<text[i]>> \in DOMAIN operators
      /\ \A q \in i .. end - 1 : q <= Len(text) =>
           text[q] # "\n" /\ ~ OpensBlock(q) /\ ~ OpensLine(q)
      /\ \A t : Token(t, end) => Whole(t)
  BY DEF Lexeme
<1>4. end \in Nat /\ i < end
  <2>1. Len(text) \in Nat /\ i \in Nat /\ end \in i + 1 .. Len(text) + 2
    BY <1>1, <1>3
  <2> QED BY <2>1
<1>5. /\ text' = text /\ row' = row /\ rows' = rows /\ row_begin' = row_begin /\ comments' = comments
      /\ i' = end /\ col' = col + (end - i)
  BY DEF Emit
<1>6. PICK new : NewToken(new, sym, end)
  BY DEF Emit, NewToken
<1>7. /\ new.at = i /\ new.row = row /\ new.col = col /\ new.sym = sym
      /\ new.str = Substr(i, end - i) /\ tokens' = Append(tokens, new)
      /\ new = [sym |-> new.sym, str |-> new.str, row |-> new.row, col |-> new.col, at |-> new.at]
  BY <1>6 DEF NewToken
<1>8. Token(new, end)
  BY <1>7 DEF Token
<1>9. /\ End(new) = IF end = Len(text) + 2 THEN Len(text) + 1 ELSE end
      /\ End(new) \in i + 1 .. Len(text) + 1
      /\ new.str \in Seq(ToSet(text)) /\ new.str # <<>>
      /\ Len(new.str) = End(new) - i /\ DOMAIN new.str = 1 .. End(new) - i
      /\ new.str = SubSeq(text, new.at, End(new) - 1) /\ new.str[1] = text[i]
  BY <1>1, <1>2, <1>3, <1>8, TokenFacts
<1>10. End(new) \in Nat /\ End(new) <= Len(text) + 1 /\ i < End(new) /\ End(new) <= end
  BY <1>1, <1>3, <1>4, <1>9
<1>11. new \in TokenType
  <2>1. new.at \in DOMAIN text /\ new.row \in Nat \ {0} /\ new.col \in Nat \ {0} /\ new.sym \in Symbols
    BY <1>1, <1>2, <1>7
  <2> QED BY <1>7, <1>9, <2>1 DEF TokenType
<1> HIDE DEF LexInv, End
<1>12. /\ tokens' \in Seq(TokenType) /\ Len(tokens') = Len(tokens) + 1
       /\ \A n \in 1 .. Len(tokens) : tokens'[n] = tokens[n]
       /\ tokens'[Len(tokens) + 1] = new
  BY <1>1, <1>7, <1>11, AppendProperties
<1>13. ToSet(tokens') = ToSet(tokens) \cup {new}
  BY <1>1, <1>7, <1>11, AppendNodes
<1>14. LexTypeOK'
  <2>1. TokenType' = TokenType /\ CommentType' = CommentType
    BY <1>5 DEF TokenType, CommentType
  <2>2. end \in 1 .. Len(text) + 3 /\ row_begin \in 1 .. end /\ col + (end - i) \in Nat \ {0}
    <3>1. end \in 1 .. Len(text) + 3
      <4>1. Len(text) \in Nat /\ i \in Nat /\ end \in i + 1 .. Len(text) + 2
        BY <1>1, <1>3
      <4> QED BY <4>1
    <3>2. row_begin \in 1 .. end
      BY <1>1, <1>4
    <3>3. col + (end - i) \in Nat \ {0}
      <4>1. col \in Nat /\ col > 0 /\ i \in Nat
        BY <1>1
      <4> QED BY <1>4, <4>1
    <3> QED BY <3>1, <3>2, <3>3
  <2>3. i' \in 1 .. Len(text') + 3 /\ row_begin' \in 1 .. i' /\ col' \in Nat \ {0}
    BY <1>5, <2>2
  <2> QED BY <1>5, <1>12, <2>1, <2>3 DEF LexTypeOK, LexInv
<1>15. /\ \A p : InBlock(p)' <=> InBlock(p)
       /\ \A p : InComment(p)' <=> InComment(p)
       /\ \A p : InToken(p)' <=> InToken(p) \/ (i <= p /\ p < End(new))
  <2>1. \A p : OpensBlock(p)' <=> OpensBlock(p)
    BY <1>5, SameText
  <2>2. \A p : InBlock(p)' <=> InBlock(p)
    BY <1>5, <2>1 DEF InBlock
  <2>3. \A p : InComment(p)' <=> InComment(p)
    BY <1>5 DEF InComment
  <2>4. \A p : InToken(p)' <=> InToken(p) \/ (i <= p /\ p < End(new))
    BY <1>7, <1>13 DEF InToken
  <2> QED BY <2>2, <2>3, <2>4
<1>16. /\ \A p \in Nat : i <= p => ~ InComment(p) /\ ~ InToken(p)
       /\ \A p \in Nat : p < i => (InToken(p)' <=> InToken(p))
  <2>1. ASSUME NEW p \in Nat, i <= p PROVE ~ InComment(p) /\ ~ InToken(p)
    <3>1. \A c \in ToSet(comments) : ~ (p < c.end)
      BY <1>1, <1>2, <2>1
    <3>2. \A t \in ToSet(tokens) : ~ (p < End(t))
      BY <1>1, <1>2, <2>1
    <3> QED BY <3>1, <3>2 DEF InComment, InToken
  <2>2. ASSUME NEW p \in Nat, p < i PROVE InToken(p)' <=> InToken(p)
    <3>1. ~ (i <= p)
      BY <1>1, <2>2
    <3> QED BY <1>15, <3>1
  <2> QED BY <2>1, <2>2
<1>17. Scanned' = Scanned \cup {p \in i .. end - 1 : p <= Len(text)}
  <2>1. Scanned' = {p \in 1 .. Len(text) : p < end}
    BY <1>1, <1>5 DEF Scanned
  <2>2. Scanned = {p \in 1 .. Len(text) : p < i}
    BY <1>1 DEF Scanned
  <2>3. ASSUME NEW p PROVE p \in Scanned' <=> p \in Scanned \cup {q \in i .. end - 1 : q <= Len(text)}
    <3>1. p \in 1 .. Len(text) /\ p < end <=>
            (p \in 1 .. Len(text) /\ p < i) \/ (p \in i .. end - 1 /\ p <= Len(text))
      BY <1>1, <1>2, <1>4
    <3> QED BY <2>1, <2>2, <3>1
  <2> QED BY <2>3
<1>18. \A p \in Scanned : p \in Nat /\ p < i
  BY <1>1 DEF Scanned
<1>19. TokensAreTheText'
  <2>1. ASSUME NEW p \in Scanned', text'[p] \in Meaningful' PROVE (InToken(p) # InComment(p))'
    <3>1. text[p] \in Meaningful
      BY <1>5, <2>1, SameText
    <3>2. CASE p \in Scanned
      <4>1. InToken(p) # InComment(p)
        BY <3>1, <3>2 DEF TokensAreTheText, LexInv
      <4>2. InToken(p)' <=> InToken(p)
        BY <1>16, <1>18, <3>2
      <4>3. InComment(p)' <=> InComment(p)
        BY <1>15
      <4> QED BY <4>1, <4>2, <4>3 DEF InToken, InComment
    <3>3. CASE p \in i .. end - 1 /\ p <= Len(text)
      <4>1. p \in Nat /\ i <= p /\ p < End(new)
        <5>1. p \in Nat /\ i <= p /\ p < end /\ p < Len(text) + 1
          BY <1>1, <1>4, <3>3
        <5>2. End(new) = Len(text) + 1 \/ End(new) = end
          BY <1>9
        <5> QED BY <5>1, <5>2
      <4>2. InToken(p)' = TRUE
        BY <1>15, <4>1 DEF InToken
      <4>3. InComment(p)' = FALSE
        BY <1>15, <1>16, <4>1 DEF InComment
      <4> QED BY <4>2, <4>3
    <3> QED BY <1>17, <2>1, <3>2, <3>3
  <2>2. ASSUME NEW n \in DOMAIN tokens'
        PROVE  /\ tokens'[n].str # <<>>
               /\ tokens'[n].str = SubSeq(text', tokens'[n].at, End(tokens'[n]) - 1)
               /\ n > 1 => End(tokens'[n - 1]) <= tokens'[n].at
    <3>1. n \in 1 .. Len(tokens) + 1
      BY <1>12, <2>2, LenProperties
    <3>2. CASE n \in 1 .. Len(tokens)
      <4>1. tokens'[n] = tokens[n] /\ (n > 1 => tokens'[n - 1] = tokens[n - 1])
        <5>1. n > 1 => n - 1 \in 1 .. Len(tokens)
          BY <1>1, <3>2
        <5> QED BY <1>12, <3>2, <5>1
      <4> QED BY <1>1, <1>5, <3>2, <4>1 DEF TokensAreTheText, LexInv
    <3>3. CASE n = Len(tokens) + 1
      <4>1. tokens'[n] = new
        BY <1>12, <3>3
      <4>2. n > 1 => tokens'[n - 1] = tokens[n - 1] /\ tokens[n - 1] \in ToSet(tokens)
        <5>1. n > 1 => n - 1 \in 1 .. Len(tokens)
          BY <1>1, <3>3
        <5> QED BY <1>1, <1>12, <5>1 DEF ToSet
      <4>3. n > 1 => End(tokens'[n - 1]) <= new.at
        BY <1>2, <1>7, <4>2
      <4> QED BY <1>5, <1>9, <4>1, <4>3
    <3> QED BY <1>1, <3>1, <3>2, <3>3
  <2>3. \A p \in Scanned' : text'[p] \in Meaningful' => (InToken(p) # InComment(p))'
    BY <2>1
  <2>4. \A n \in DOMAIN tokens' :
          /\ tokens'[n].str # <<>>
          /\ tokens'[n].str = SubSeq(text', tokens'[n].at, End(tokens'[n]) - 1)
          /\ n > 1 => End(tokens'[n - 1]) <= tokens'[n].at
    BY <2>2
  <2> QED BY <2>3, <2>4 DEF TokensAreTheText
<1>20. CommentsAreComments'
  <2>1. ASSUME NEW p \in Scanned', OpensBlock(p)' \/ OpensLine(p)' PROVE InComment(p)'
    <3>1. OpensBlock(p) \/ OpensLine(p)
      BY <1>5, <2>1, SameText
    <3>2. p \in Scanned
      BY <1>3, <1>17, <2>1, <3>1
    <3> QED BY <1>15, <3>1, <3>2 DEF CommentsAreComments, LexInv
  <2>2. \A c \in ToSet(comments') : IsComment(c)'
    BY <1>5, SameText DEF CommentsAreComments, LexInv
  <2> QED BY <2>1, <2>2 DEF CommentsAreComments
<1>21. TokensAreWhole'
  <2>1. Whole(new)
    BY <1>3, <1>8
  <2>2. \A t \in ToSet(tokens) \cup {new} : Whole(t)
    BY <2>1 DEF TokensAreWhole, LexInv
  <2>3. \A t \in ToSet(tokens') : Whole(t)'
    BY <1>5, <1>13, <2>2, SameText
  <2> QED BY <2>3 DEF TokensAreWhole
<1>22. ThrowsAtOpenEnds'
  <2>1. ASSUME ~ (end <= Len(text))
        PROVE  end > Len(text) + 1 <=> i = Len(text) /\ new.str \in DOMAIN operators
    <3>1. ASSUME i = Len(text) PROVE new.str = <<text[i]>>
      <4>1. End(new) - i = 1
        BY <1>1, <1>9, <1>10, <3>1
      <4>2. PICK one : one = <<text[i]>>
        OBVIOUS
      <4>3. one \in Seq({text[i]}) /\ Len(one) = 1 /\ one[1] = text[i]
        BY <4>2
      <4>4. new.str \in Seq(ToSet(text)) /\ Len(new.str) = 1 /\ new.str[1] = text[i]
        BY <1>9, <4>1
      <4>5. \A k \in 1 .. 1 : new.str[k] = one[k]
        <5>1. \A k \in 1 .. 1 : k = 1
          OBVIOUS
        <5> QED BY <4>3, <4>4, <5>1
      <4>6. new.str = one
        <5> HIDE <4>2
        <5> QED BY <4>3, <4>4, <4>5, SeqEqual
      <4> QED BY <4>2, <4>6
    <3>2. end > Len(text) + 1 <=> end = Len(text) + 2
      <4>1. Len(text) \in Nat /\ end \in Nat /\ end <= Len(text) + 2
        <5>1. Len(text) \in Nat /\ i \in Nat /\ end \in i + 1 .. Len(text) + 2
          BY <1>1, <1>3
        <5> QED BY <5>1
      <4> QED BY <4>1
    <3> QED BY <1>3, <3>1, <3>2
  <2>2. EndsInOperator' <=> i = Len(text) /\ new.str \in DOMAIN operators
    <3>1. \A t \in ToSet(tokens) : t.at # Len(text)
      BY <1>1, <1>2
    <3> QED BY <1>5, <1>7, <1>13, <3>1 DEF EndsInOperator
  <2>3. ~ EndsInComment'
    <3>1. \A c \in ToSet(comments) : OpensBlock(c.at) =>
            \E q \in c.at + 2 .. Len(text) : ClosesAt(q)
      BY <1>2
    <3>2. \A p : (OpensBlock(p)' <=> OpensBlock(p)) /\ (ClosesAt(p)' <=> ClosesAt(p))
      BY <1>5, SameText
    <3> QED BY <1>5, <3>1, <3>2 DEF EndsInComment
  <2> QED BY <1>5, <2>1, <2>2, <2>3 DEF ThrowsAtOpenEnds, Running, Thrown
<1>23. Ahead'
  <2>1. \A t \in ToSet(tokens') : End(t) <= end /\ End(t) <= Len(text) + 1
    <3>1. ASSUME NEW t \in ToSet(tokens) PROVE End(t) <= end /\ End(t) <= Len(text) + 1
      BY <1>1, <1>2, <1>4
    <3> QED BY <1>10, <1>13, <3>1
  <2>2. \A c \in ToSet(comments) : c.end <= end /\ c.end <= new.at
    BY <1>1, <1>2, <1>4, <1>7
  <2>3. \A t \in ToSet(tokens'), c \in ToSet(comments) : End(t) <= c.at \/ c.end <= t.at
    <3>1. \A t \in ToSet(tokens), c \in ToSet(comments) : End(t) <= c.at \/ c.end <= t.at
      BY DEF Ahead, LexInv
    <3> QED BY <1>13, <2>2, <3>1
  <2> QED BY <1>5, <2>1, <2>2, <2>3 DEF Ahead
<1>24. Quiet(end)
  <2>1. i <= end
    BY <1>1, <1>4
  <2> QED BY <1>3, <1>5, <1>15, <2>1 DEF Quiet
<1>25. Line' /\ \A t \in ToSet(tokens) : (\E b \in 1 .. t.at : LineOf(t, b))'
  <2>1. col = 1 + i - row_begin => col' = 1 + end - row_begin
    <3>1. col = 1 + i - row_begin => col + (end - i) = 1 + end - row_begin
      BY <1>1, <1>4
    <3> QED BY <1>5, <3>1
  <2> QED BY <1>4, <1>24, <2>1, QuietLine DEF LexInv
<1>26. ASSUME NEW b \in 1 .. i, b = row_begin, NEW j \in Nat, j = i PROVE LineOf(new, b)'
  <2>1. /\ Breaks(1, j)' = Breaks(1, i) /\ Breaks(b, j)' = Breaks(b, i) /\ Breaks(j, i)' = {}
    <3>1. /\ \A a \in Nat, c \in Nat : c <= i => Breaks(a, c)' = Breaks(a, c)
          /\ \A a \in Nat : Breaks(a, i)' = Breaks(a, i)
      BY <1>4, <1>24, QuietBreaks DEF LexInv
    <3>2. Breaks(j, i) = {}
      BY <1>1, <1>26 DEF Breaks, Scanned
    <3>3. j <= i /\ b \in Nat
      BY <1>1, <1>26
    <3> QED BY <1>26, <3>1, <3>2, <3>3
  <2>2. Even(b, j)' => Even(row_begin, i)
    <3>1. \A q \in b .. j - 1 : InBlock(q)' <=> InBlock(q)
      BY <1>15
    <3>2. Meaningful' = Meaningful
      BY <1>5, SameText
    <3> QED BY <1>5, <1>26, <3>1, <3>2 DEF Even
  <2>3. new.at = j /\ new.col = col /\ new.row = row
    BY <1>7, <1>26
  <2>4. /\ row = 1 + Cardinality(Breaks(1, i)) /\ Breaks(row_begin, i) = {}
        /\ row_begin = 1 \/ row_begin - 1 \in Breaks(1, i)
        /\ Even(row_begin, i) => col = 1 + i - row_begin
    BY DEF Line, LexInv
  <2>5. /\ b = 1 \/ b - 1 \in Breaks(1, j)'
        /\ Breaks(b, j)' = {}
        /\ Even(b, j)' => col = 1 + j - b
        /\ row = 1 + Cardinality(Breaks(1, j)')
    BY <1>26, <2>1, <2>2, <2>4
  <2> QED BY <1>5, <1>26, <2>1, <2>3, <2>5 DEF LineOf
<1>27. Lines'
  <2>1. PICK b \in 1 .. i : b = row_begin
    BY <1>1
  <2>2. PICK j \in Nat : j = i
    BY <1>1
  <2>3. LineOf(new, b)' /\ b \in 1 .. new.at
    BY <1>7, <1>26, <2>1, <2>2
  <2> QED BY <1>13, <1>25, <2>3 DEF Lines
<1> QED BY <1>14, <1>19, <1>20, <1>21, <1>22, <1>23, <1>25, <1>27 DEF LexInv

----------------------------------------------------------------------------
(* A turn that passes a comment.                                           *)

(* Skip keeps everything.                                                  *)
LEMMA SkipStep ==
  ASSUME LexInv, Running, NEW j \in Nat, i < j, j <= Len(text) + 3,
         OpensBlock(i) \/ OpensLine(i), OpensLine(i) => j <= Len(text) + 1,
         NEW c, c = [at |-> i, end |-> j], IsComment(c), comments' = Append(comments, c), i' = j,
         NEW k \in Nat \ {0}, col' = k, OpensLine(i) => k = col + (j - i),
         UNCHANGED <<text, row, tokens, rows, row_begin>>
  PROVE  LexInv'
<1> USE DEF LexInv
<1>1. /\ IsText /\ Len(text) \in Nat /\ DOMAIN text = 1 .. Len(text) /\ i \in Nat
      /\ row_begin \in 1 .. i /\ row \in Nat \ {0} /\ col \in Nat \ {0}
      /\ comments \in Seq(CommentType)
  BY Members DEF LexTypeOK
<1>2. /\ i \in 1 .. Len(text)
      /\ \A t \in ToSet(tokens) : /\ t.at \in Nat /\ t.at >= 1 /\ t.at < i /\ t.at < Len(text)
                                  /\ Len(t.str) \in Nat \ {0} /\ End(t) \in Nat /\ End(t) <= i
      /\ \A d \in ToSet(comments) : /\ d.at \in Nat /\ d.at >= 1 /\ d.end \in Nat /\ d.end <= i
                                    /\ OpensBlock(d.at) => d.end - 2 \in d.at + 2 .. Len(text)
                                                           /\ ClosesAt(d.end - 2)
  BY NothingAtTheEnd
<1>3. c.at = i /\ c.end = j
  OBVIOUS
<1>4. c \in CommentType
  BY <1>1, <1>2 DEF CommentType
<1>5. comments' \in Seq(CommentType)
  BY <1>1, <1>4, AppendProperties
<1>6. ToSet(comments') = ToSet(comments) \cup {c}
  BY <1>1, <1>4, AppendNodes
<1>7. i < Len(text) /\ text[i] = "/" /\ ~ (OpensBlock(i) /\ OpensLine(i))
  BY <1>1, <1>2, MarksAt
<1> HIDE DEF LexInv, End
<1>8. LexTypeOK'
  <2>1. TokenType' = TokenType /\ CommentType' = CommentType
    BY DEF TokenType, CommentType
  <2>2. j \in 1 .. Len(text) + 3 /\ row_begin \in 1 .. j
    BY <1>1
  <2>3. i' \in 1 .. Len(text') + 3 /\ row_begin' \in 1 .. i' /\ col' \in Nat \ {0}
    BY <2>2
  <2> QED BY <1>5, <2>1, <2>3 DEF LexTypeOK, LexInv
<1>9. /\ \A p : InComment(p)' <=> InComment(p) \/ (i <= p /\ p < j)
      /\ \A p : InBlock(p)' <=> InBlock(p) \/ (OpensBlock(i) /\ i <= p /\ p < j)
      /\ \A p : InToken(p)' <=> InToken(p)
  <2>1. \A p : OpensBlock(p)' <=> OpensBlock(p)
    BY SameText
  <2>2. \A p : InComment(p)' <=> InComment(p) \/ (i <= p /\ p < j)
    BY <1>3, <1>6 DEF InComment
  <2>3. \A p : InBlock(p)' <=> InBlock(p) \/ (OpensBlock(i) /\ i <= p /\ p < j)
    BY <1>3, <1>6, <2>1 DEF InBlock
  <2>4. \A p : InToken(p)' <=> InToken(p)
    BY DEF InToken, End
  <2> QED BY <2>2, <2>3, <2>4
<1>10. \A p \in Nat : i <= p => ~ InToken(p)
  <2>1. ASSUME NEW p \in Nat, i <= p PROVE ~ InToken(p)
    <3>1. \A t \in ToSet(tokens) : ~ (p < End(t))
      BY <1>1, <1>2, <2>1
    <3> QED BY <3>1 DEF InToken
  <2> QED BY <2>1
<1>11. Scanned' = Scanned \cup {p \in i .. j - 1 : p <= Len(text)}
  <2>1. Scanned' = {p \in 1 .. Len(text) : p < j}
    BY <1>1 DEF Scanned
  <2>2. Scanned = {p \in 1 .. Len(text) : p < i}
    BY <1>1 DEF Scanned
  <2>3. ASSUME NEW p PROVE p \in Scanned' <=> p \in Scanned \cup {q \in i .. j - 1 : q <= Len(text)}
    <3>1. p \in 1 .. Len(text) /\ p < j <=>
            (p \in 1 .. Len(text) /\ p < i) \/ (p \in i .. j - 1 /\ p <= Len(text))
      BY <1>1, <1>2
    <3> QED BY <2>1, <2>2, <3>1
  <2> QED BY <2>3
<1>12. /\ \A p \in Scanned : p \in Nat /\ p < i /\ ~ (i <= p)
       /\ \A p \in i .. j - 1 : p \in Nat /\ i <= p /\ p < j
  BY <1>1 DEF Scanned
<1>13. TokensAreTheText'
  <2>1. ASSUME NEW p \in Scanned', text'[p] \in Meaningful' PROVE (InToken(p) # InComment(p))'
    <3>1. text[p] \in Meaningful
      BY <2>1, SameText
    <3>2. CASE p \in Scanned
      <4>1. InToken(p) # InComment(p)
        BY <3>1, <3>2 DEF TokensAreTheText, LexInv
      <4>2. InComment(p)' <=> InComment(p)
        BY <1>9, <1>12, <3>2
      <4>3. InToken(p)' <=> InToken(p)
        BY <1>9
      <4> QED BY <4>1, <4>2, <4>3 DEF InToken, InComment
    <3>3. CASE p \in i .. j - 1
      <4>1. p \in Nat /\ i <= p /\ p < j
        BY <1>12, <3>3
      <4>2. InToken(p)' = FALSE
        BY <1>9, <1>10, <4>1 DEF InToken
      <4>3. InComment(p)' = TRUE
        BY <1>9, <4>1 DEF InComment
      <4> QED BY <4>2, <4>3
    <3> QED BY <1>11, <2>1, <3>2, <3>3
  <2>2. \A p \in Scanned' : text'[p] \in Meaningful' => (InToken(p) # InComment(p))'
    BY <2>1
  <2>3. \A n \in DOMAIN tokens' :
          /\ tokens'[n].str # <<>>
          /\ tokens'[n].str = SubSeq(text', tokens'[n].at, End(tokens'[n]) - 1)
          /\ n > 1 => End(tokens'[n - 1]) <= tokens'[n].at
    BY DEF TokensAreTheText, LexInv
  <2> QED BY <2>2, <2>3 DEF TokensAreTheText, End
<1>14. CommentsAreComments'
  <2>1. ASSUME NEW p \in Scanned', OpensBlock(p)' \/ OpensLine(p)' PROVE InComment(p)'
    <3>1. OpensBlock(p) \/ OpensLine(p)
      BY <2>1, SameText
    <3>2. p \in Scanned => InComment(p)
      BY <3>1 DEF CommentsAreComments, LexInv
    <3> QED BY <1>9, <1>11, <1>12, <2>1, <3>2
  <2>2. \A d \in ToSet(comments') : IsComment(d)'
    BY <1>6, SameText DEF CommentsAreComments, LexInv
  <2> QED BY <2>1, <2>2 DEF CommentsAreComments
<1>15. TokensAreWhole'
  BY SameText DEF TokensAreWhole, LexInv
<1>16. ThrowsAtOpenEnds'
  <2>1. EndsInOperator' = FALSE
    <3>1. \A t \in ToSet(tokens) : t.at # Len(text)
      BY <1>1, <1>2
    <3> QED BY <3>1 DEF EndsInOperator
  <2>2. EndsInComment' <=> OpensBlock(i) /\ \A q \in i + 2 .. Len(text) : ~ ClosesAt(q)
    <3>1. \A d \in ToSet(comments) : OpensBlock(d.at) =>
            \E q \in d.at + 2 .. Len(text) : ClosesAt(q)
      BY <1>2
    <3>2. \A p : (OpensBlock(p)' <=> OpensBlock(p)) /\ (ClosesAt(p)' <=> ClosesAt(p))
      BY SameText
    <3>3. EndsInComment' <=> \E d \in ToSet(comments) \cup {c} :
            OpensBlock(d.at) /\ \A q \in d.at + 2 .. Len(text) : ~ ClosesAt(q)
      BY <1>6, <3>2 DEF EndsInComment
    <3> QED BY <1>3, <3>1, <3>3
  <2>3. j > Len(text) + 1 <=> OpensBlock(i) /\ \A q \in i + 2 .. Len(text) : ~ ClosesAt(q)
    <3>1. CASE OpensLine(i)
      <4>1. ~ (j > Len(text) + 1)
        BY <1>1, <3>1
      <4> QED BY <1>7, <3>1, <4>1
    <3>2. CASE OpensBlock(i)
      <4>1. /\ \A q \in i + 2 .. j - 3 : ~ ClosesAt(q)
            /\ i + 2 <= j - 2 /\ (ClosesAt(j - 2) \/ j = Len(text) + 3)
        BY <1>3, <1>7, <3>2 DEF IsComment
      <4>2. CASE j = Len(text) + 3
        <5>1. j - 3 = Len(text) /\ j > Len(text) + 1
          BY <1>1, <4>2
        <5> QED BY <3>2, <4>1, <5>1
      <4>3. CASE j # Len(text) + 3
        <5>1. ClosesAt(j - 2) /\ j - 2 \in i + 2 .. Len(text)
          BY <1>1, <4>1, <4>3
        <5>2. j - 2 < Len(text)
          <6>1. PICK q \in 1 .. Len(text) : q = j - 2
            BY <1>1, <5>1
          <6> QED BY <1>1, <5>1, <6>1, MarksAt
        <5>3. ~ (j > Len(text) + 1)
          BY <1>1, <5>2
        <5> QED BY <5>1, <5>3
      <4> QED BY <4>2, <4>3
    <3> QED BY <3>1, <3>2
  <2>4. Thrown' <=> j > Len(text) + 1
    BY DEF Thrown
  <2> QED BY <2>1, <2>2, <2>3, <2>4 DEF ThrowsAtOpenEnds
<1>17. Ahead'
  <2>1. \A t \in ToSet(tokens) : End(t) <= j /\ End(t) <= Len(text) + 1 /\ End(t) <= c.at
    BY <1>1, <1>2, <1>3
  <2>2. \A d \in ToSet(comments') : d.end <= j
    <3>1. \A d \in ToSet(comments) : d.end <= j
      BY <1>1, <1>2
    <3>2. j <= j
      OBVIOUS
    <3> QED BY <1>3, <1>6, <3>1, <3>2
  <2>3. \A t \in ToSet(tokens), d \in ToSet(comments') : End(t) <= d.at \/ d.end <= t.at
    <3>1. \A t \in ToSet(tokens), d \in ToSet(comments) : End(t) <= d.at \/ d.end <= t.at
      BY DEF Ahead, LexInv
    <3> QED BY <1>6, <2>1, <3>1
  <2> QED BY <2>1, <2>2, <2>3 DEF Ahead, End
<1>18. Quiet(j)
  <2>1. i <= j
    BY <1>1
  <2>2. \A p \in 1 .. i - 1 : InBlock(p)' <=> InBlock(p)
    <3>1. \A p \in 1 .. i - 1 : ~ (i <= p)
      BY <1>1
    <3> QED BY <1>9, <3>1
  <2>3. \A p \in i .. j - 1 : text[p] # "\n" \/ InBlock(p)'
    <3>1. CASE OpensLine(i)
      <4>1. ~ OpensBlock(i)
        BY <1>7, <3>1
      <4> QED BY <1>3, <4>1 DEF IsComment
    <3>2. CASE OpensBlock(i)
      BY <1>9, <1>12, <3>2
    <3> QED BY <3>1, <3>2
  <2> QED BY <2>1, <2>2, <2>3 DEF Quiet
<1>19. Even(row_begin, i)' /\ Even(row_begin, i) /\ col = 1 + i - row_begin =>
         col' = 1 + j - row_begin
  <2>1. CASE OpensLine(i)
    <3>1. col = 1 + i - row_begin => col + (j - i) = 1 + j - row_begin
      BY <1>1
    <3> QED BY <2>1, <3>1
  <2>2. CASE OpensBlock(i)
    <3>1. ASSUME NEW n \in Nat, n = i PROVE ~ Even(row_begin, i)'
      <4>1. InBlock(n)'
        <5>1. i <= n /\ n < j
          BY <1>1, <3>1
        <5> QED BY <1>9, <2>2, <5>1
      <4>2. n \in row_begin' .. i' - 1 /\ n \in DOMAIN text'
        <5>1. n \in row_begin .. j - 1 /\ n \in DOMAIN text
          BY <1>1, <1>2, <3>1
        <5> QED BY <5>1
      <4> QED BY <4>1, <4>2 DEF Even
    <3>2. ~ Even(row_begin, i)'
      BY <1>1, <3>1
    <3> QED BY <3>2
  <2> QED BY <2>1, <2>2
<1>20. Line' /\ \A t \in ToSet(tokens) : (\E b \in 1 .. t.at : LineOf(t, b))'
  BY <1>18, <1>19, QuietLine DEF LexInv
<1>21. Lines'
  BY <1>20 DEF Lines
<1> QED BY <1>8, <1>13, <1>14, <1>15, <1>16, <1>17, <1>20, <1>21 DEF LexInv

----------------------------------------------------------------------------
(* A turn that passes one character.                                       *)

(* The text from p on with one character.                                  *)
LEMMA OneCharacter ==
  ASSUME IsText, NEW p \in 1 .. Len(text)
  PROVE  Substr(p, 1) = <<text[p]>>
<1>1. Len(text) \in Nat
  BY TextFacts
<1>2. Size(p, 1) = 1
  BY <1>1 DEF Size
<1>3. /\ Substr(p, 1) \in Seq(ToSet(text)) /\ Len(Substr(p, 1)) = 1
      /\ \A m \in 1 .. 1 : Substr(p, 1)[m] = text[p + m - 1]
  <2>1. 1 \in Nat \ {0}
    OBVIOUS
  <2> QED BY <1>2, <2>1, SubstrFacts
<1>4. p + 1 - 1 = p /\ 1 \in 1 .. 1 /\ \A m \in 1 .. 1 : m = 1
  BY <1>1
<1>5. \A m \in 1 .. 1 : Substr(p, 1)[m] = <<text[p]>>[m]
  BY <1>3, <1>4
<1>6. <<text[p]>> \in Seq({text[p]}) /\ Len(<<text[p]>>) = 1
  OBVIOUS
<1> QED BY <1>3, <1>5, <1>6, SeqEqual

(* Blanks, line breaks and what is neither a word nor a separator nor the  *)
(* beginning of an operator mean nothing; a slash does.                    *)
LEMMA MeaninglessCharacters ==
  /\ blank \notin Meaningful /\ "\n" \notin Meaningful /\ "/" \in Meaningful
  /\ \A x : x \notin Word \cup DOMAIN separators /\ <<x>> \notin DOMAIN operators => x \notin Meaningful
<1>1. blank \notin Meaningful
  BY CharacterKinds, SeparatorCharacters, NoOperator DEF Meaningful
<1>2. "\n" \notin Meaningful
  BY CharacterKinds, SeparatorCharacters, NoOperator DEF Meaningful
<1>3. "/" \in Meaningful
  <2>1. <<"/", "SLASH">> \in Singles
    BY DEF Singles
  <2>2. << <<"/", "SLASH">>[1] >> \in DOMAIN operators
    BY <2>1, OperatorShape
  <2>3. <<"/">> \in DOMAIN operators /\ <<"/">>[1] = "/"
    BY <2>2
  <2> QED BY <2>3 DEF Meaningful
<1>4. ASSUME NEW x, x \notin Word \cup DOMAIN separators, <<x>> \notin DOMAIN operators
      PROVE  x \notin Meaningful
  <2>1. ASSUME NEW s \in DOMAIN operators PROVE x # s[1]
    <3>1. CASE \E e \in Singles : s = <<e[1]>>
      BY <1>4, <3>1, OperatorShape
    <3>2. CASE \E e \in Doubles : s = <<e[1], e[2]>> /\ \E f \in Singles : f[1] = e[1]
      <4>1. PICK e \in Doubles, f \in Singles : s = <<e[1], e[2]>> /\ f[1] = e[1]
        BY <3>2
      <4>2. <<f[1]>> \in DOMAIN operators /\ s[1] = f[1]
        BY <4>1, OperatorShape
      <4> QED BY <1>4, <4>2
    <3> QED BY <3>1, <3>2, OperatorShape
  <2> QED BY <1>4, <2>1 DEF Meaningful
<1> QED BY <1>1, <1>2, <1>3, <1>4

(* A character that means nothing is in no token and opens no comment.     *)
LEMMA PassStep ==
  ASSUME LexInv, Running, text[i] \notin Meaningful, NEW j \in Nat, j = i + 1, i' = j,
         UNCHANGED <<text, tokens, comments>>
  PROVE  /\ TokensAreTheText' /\ CommentsAreComments' /\ TokensAreWhole' /\ ThrowsAtOpenEnds' /\ Ahead'
         /\ \A p : InBlock(p)' <=> InBlock(p)
         /\ Scanned' = Scanned \cup {i}
<1> USE DEF LexInv
<1>1. /\ IsText /\ Len(text) \in Nat /\ DOMAIN text = 1 .. Len(text) /\ i \in Nat
  BY Members
<1>2. /\ i \in 1 .. Len(text)
      /\ \A t \in ToSet(tokens) : /\ t.at \in Nat /\ t.at >= 1 /\ t.at < i /\ t.at < Len(text)
                                  /\ Len(t.str) \in Nat \ {0} /\ End(t) \in Nat /\ End(t) <= i
      /\ \A d \in ToSet(comments) : /\ d.at \in Nat /\ d.at >= 1 /\ d.end \in Nat /\ d.end <= i
                                    /\ OpensBlock(d.at) => d.end - 2 \in d.at + 2 .. Len(text)
                                                           /\ ClosesAt(d.end - 2)
  BY NothingAtTheEnd
<1>3. ~ OpensBlock(i) /\ ~ OpensLine(i)
  BY <1>1, <1>2, MarksAt, MeaninglessCharacters
<1> HIDE DEF LexInv, End
<1>4. \A p : /\ InComment(p)' <=> InComment(p)
             /\ InBlock(p)' <=> InBlock(p)
             /\ InToken(p)' <=> InToken(p)
  <2>1. \A p : InBlock(p)' <=> InBlock(p)
    BY SameText DEF InBlock
  <2> QED BY <2>1 DEF InComment, InToken, End
<1>5. Scanned' = Scanned \cup {i}
  <2>1. Scanned' = {p \in 1 .. Len(text) : p < j}
    BY <1>1 DEF Scanned
  <2>2. Scanned = {p \in 1 .. Len(text) : p < i}
    BY <1>1 DEF Scanned
  <2>3. ASSUME NEW p PROVE p \in Scanned' <=> p \in Scanned \cup {i}
    <3>1. p \in 1 .. Len(text) /\ p < j <=> (p \in 1 .. Len(text) /\ p < i) \/ p = i
      BY <1>1, <1>2
    <3> QED BY <2>1, <2>2, <3>1
  <2> QED BY <2>3
<1>6. TokensAreTheText'
  <2>1. ASSUME NEW p \in Scanned', text'[p] \in Meaningful' PROVE (InToken(p) # InComment(p))'
    <3>1. text[p] \in Meaningful /\ p \in Scanned
      BY <1>5, <2>1, SameText
    <3>2. InToken(p) # InComment(p)
      BY <3>1 DEF TokensAreTheText, LexInv
    <3> QED BY <1>4, <3>2 DEF InToken, InComment
  <2>2. \A n \in DOMAIN tokens' :
          /\ tokens'[n].str # <<>>
          /\ tokens'[n].str = SubSeq(text', tokens'[n].at, End(tokens'[n]) - 1)
          /\ n > 1 => End(tokens'[n - 1]) <= tokens'[n].at
    BY DEF TokensAreTheText, LexInv
  <2>3. \A p \in Scanned' : text'[p] \in Meaningful' => (InToken(p) # InComment(p))'
    BY <2>1
  <2> QED BY <2>2, <2>3 DEF TokensAreTheText, End
<1>7. CommentsAreComments'
  <2>1. ASSUME NEW p \in Scanned', OpensBlock(p)' \/ OpensLine(p)' PROVE InComment(p)'
    <3>1. OpensBlock(p) \/ OpensLine(p)
      BY <2>1, SameText
    <3>2. p \in Scanned
      BY <1>3, <1>5, <2>1, <3>1
    <3>3. InComment(p)
      BY <3>1, <3>2 DEF CommentsAreComments, LexInv
    <3> QED BY <1>4, <3>3
  <2>2. \A d \in ToSet(comments') : IsComment(d)'
    BY SameText DEF CommentsAreComments, LexInv
  <2> QED BY <2>1, <2>2 DEF CommentsAreComments
<1>8. TokensAreWhole'
  BY SameText DEF TokensAreWhole, LexInv
<1>9. ThrowsAtOpenEnds'
  <2>1. EndsInOperator' = FALSE
    <3>1. \A t \in ToSet(tokens) : t.at # Len(text)
      BY <1>1, <1>2
    <3> QED BY <3>1 DEF EndsInOperator
  <2>2. EndsInComment' = FALSE
    <3>1. \A d \in ToSet(comments) : OpensBlock(d.at) =>
            \E q \in d.at + 2 .. Len(text) : ClosesAt(q)
      BY <1>2
    <3>2. \A p : (OpensBlock(p)' <=> OpensBlock(p)) /\ (ClosesAt(p)' <=> ClosesAt(p))
      BY SameText
    <3> QED BY <3>1, <3>2 DEF EndsInComment
  <2>3. ~ (j > Len(text) + 1)
    BY <1>1, <1>2
  <2>4. Thrown' <=> j > Len(text) + 1
    BY DEF Thrown
  <2> QED BY <2>1, <2>2, <2>3, <2>4 DEF ThrowsAtOpenEnds
<1>10. Ahead'
  <2>1. \A t \in ToSet(tokens) : End(t) <= j /\ End(t) <= Len(text) + 1
    BY <1>1, <1>2
  <2>2. \A d \in ToSet(comments) : d.end <= j
    BY <1>1, <1>2
  <2>3. \A t \in ToSet(tokens), d \in ToSet(comments) : End(t) <= d.at \/ d.end <= t.at
    BY DEF Ahead, LexInv
  <2> QED BY <2>1, <2>2, <2>3 DEF Ahead, End
<1> QED BY <1>4, <1>5, <1>6, <1>7, <1>8, <1>9, <1>10

(* A character that is passed on its line.                                 *)
LEMMA StayStep ==
  ASSUME LexInv, Running, text[i] \notin Meaningful, text[i] # "\n", NEW j \in Nat, j = i + 1, i' = j,
         NEW k \in Nat \ {0}, col' = k, text[i] = blank => k = col + 1,
         UNCHANGED <<text, row, tokens, rows, row_begin, comments>>
  PROVE  LexInv'
<1> USE DEF LexInv
<1>1. /\ IsText /\ Len(text) \in Nat /\ DOMAIN text = 1 .. Len(text) /\ i \in Nat
      /\ row_begin \in 1 .. i /\ row \in Nat \ {0} /\ col \in Nat \ {0}
  BY Members DEF LexTypeOK
<1>2. i \in 1 .. Len(text)
  BY NothingAtTheEnd
<1> HIDE DEF LexInv
<1>3. /\ TokensAreTheText' /\ CommentsAreComments' /\ TokensAreWhole' /\ ThrowsAtOpenEnds' /\ Ahead'
      /\ \A p : InBlock(p)' <=> InBlock(p)
  BY PassStep
<1>4. LexTypeOK'
  <2>1. TokenType' = TokenType /\ CommentType' = CommentType
    BY DEF TokenType, CommentType
  <2>2. j \in 1 .. Len(text) + 3 /\ row_begin \in 1 .. j
    BY <1>1, <1>2
  <2>3. i' \in 1 .. Len(text') + 3 /\ row_begin' \in 1 .. i' /\ col' \in Nat \ {0}
    BY <2>2
  <2> QED BY <2>1, <2>3 DEF LexTypeOK, LexInv
<1>5. Quiet(j)
  <2>1. i <= j /\ \A p \in i .. j - 1 : p = i
    BY <1>1
  <2> QED BY <1>3, <2>1 DEF Quiet
<1>6. Even(row_begin, i)' /\ Even(row_begin, i) /\ col = 1 + i - row_begin =>
        col' = 1 + j - row_begin
  <2>1. CASE text[i] = blank
    <3>1. col = 1 + i - row_begin => col + 1 = 1 + j - row_begin
      BY <1>1
    <3> QED BY <2>1, <3>1
  <2>2. CASE text[i] # blank
    <3>1. ASSUME NEW n \in Nat, n = i PROVE ~ Even(row_begin, i)'
      <4>1. text'[n] \notin (Meaningful \cup {blank})'
        BY <2>2, <3>1, SameText
      <4>2. n \in row_begin' .. i' - 1 /\ n \in DOMAIN text'
        <5>1. n \in row_begin .. j - 1 /\ n \in DOMAIN text
          BY <1>1, <1>2, <3>1
        <5> QED BY <5>1
      <4> QED BY <4>1, <4>2 DEF Even
    <3>2. ~ Even(row_begin, i)'
      BY <1>1, <3>1
    <3> QED BY <3>2
  <2> QED BY <2>1, <2>2
<1>7. Line' /\ \A t \in ToSet(tokens) : (\E b \in 1 .. t.at : LineOf(t, b))'
  BY <1>5, <1>6, QuietLine DEF LexInv
<1>8. Lines'
  BY <1>7 DEF Lines
<1> QED BY <1>3, <1>4, <1>7, <1>8 DEF LexInv

----------------------------------------------------------------------------
(* A turn that ends a line.                                                *)

(* NewLine keeps everything.                                               *)
LEMMA NewLineStep ==
  ASSUME LexInv, Running, text[i] = "\n", NEW j \in Nat, j = i + 1, i' = j,
         rows' = Append(rows, SubSeq(text, row_begin, i)), row_begin' = j, row' = row + 1, col' = 1,
         UNCHANGED <<text, tokens, comments>>
  PROVE  LexInv'
<1> USE DEF LexInv
<1>1. /\ IsText /\ Len(text) \in Nat /\ DOMAIN text = 1 .. Len(text) /\ i \in Nat
      /\ row_begin \in 1 .. i /\ row \in Nat \ {0} /\ col \in Nat \ {0} /\ Len(rows) \in Nat
      /\ rows \in Seq(Seq(ToSet(text))) /\ DOMAIN rows = 1 .. Len(rows)
  <2>1. rows \in Seq(Seq(ToSet(text)))
    BY DEF LexTypeOK
  <2>2. DOMAIN rows = 1 .. Len(rows)
    BY <2>1, LenProperties
  <2> QED BY <2>1, <2>2, Members DEF LexTypeOK
<1>2. /\ i \in 1 .. Len(text)
      /\ \A t \in ToSet(tokens) : /\ t.at \in Nat /\ t.at >= 1 /\ t.at < i /\ t.at < Len(text)
                                  /\ Len(t.str) \in Nat \ {0} /\ End(t) \in Nat /\ End(t) <= i
      /\ \A d \in ToSet(comments) : /\ d.at \in Nat /\ d.at >= 1 /\ d.end \in Nat /\ d.end <= i
                                    /\ OpensBlock(d.at) => d.end - 2 \in d.at + 2 .. Len(text)
                                                           /\ ClosesAt(d.end - 2)
  BY NothingAtTheEnd
<1> HIDE DEF LexInv, End
<1>3. text[i] \notin Meaningful
  BY MeaninglessCharacters
<1>4. /\ TokensAreTheText' /\ CommentsAreComments' /\ TokensAreWhole' /\ ThrowsAtOpenEnds' /\ Ahead'
      /\ \A p : InBlock(p)' <=> InBlock(p)
      /\ Scanned' = Scanned \cup {i}
  BY <1>3, PassStep
<1>5. PICK kept : kept = SubSeq(text, row_begin, i)
  OBVIOUS
<1>6. kept \in Seq(ToSet(text))
  <2>1. i \in 0 .. Len(text) /\ row_begin \in 1 .. Len(text) + 1 /\ row_begin <= i + 1
    BY <1>1, <1>2
  <2> QED BY <1>1, <1>5, <2>1, Segment DEF IsText
<1>7. /\ rows' \in Seq(Seq(ToSet(text))) /\ Len(rows') = Len(rows) + 1
      /\ \A n \in 1 .. Len(rows) : rows'[n] = rows[n]
      /\ rows'[Len(rows) + 1] = kept
  BY <1>1, <1>5, <1>6, AppendProperties
<1>8. LexTypeOK'
  <2>1. TokenType' = TokenType /\ CommentType' = CommentType
    BY DEF TokenType, CommentType
  <2>2. j \in 1 .. Len(text) + 3 /\ j \in 1 .. j /\ row + 1 \in Nat \ {0} /\ 1 \in Nat \ {0}
    BY <1>1, <1>2
  <2>3. i' \in 1 .. Len(text') + 3 /\ row_begin' \in 1 .. i' /\ col' \in Nat \ {0} /\ row' \in Nat \ {0}
    BY <2>2
  <2> QED BY <1>7, <2>1, <2>3 DEF LexTypeOK, LexInv
<1>9. ~ InBlock(i)
  <2>1. \A d \in ToSet(comments) : ~ (i < d.end)
    BY <1>1, <1>2
  <2> QED BY <2>1 DEF InBlock
<1>10. Scanned = {p \in 1 .. Len(text) : p < i} /\ i \notin Scanned
  BY <1>1 DEF Scanned
<1>11. /\ \A a, b \in Nat : b <= i => Breaks(a, b)' = Breaks(a, b)
       /\ \A a \in Nat : a <= i => Breaks(a, i)' = Breaks(a, i) \cup {i}
       /\ \A a \in Nat : i < a => Breaks(a, i)' = {}
       /\ i \notin Breaks(1, i)
  <2>1. \A a, b : Breaks(a, b)' = {q \in Scanned \cup {i} : a <= q /\ q < b /\ text[q] = "\n" /\ ~ InBlock(q)}
    BY <1>4 DEF Breaks
  <2> QED BY <1>1, <1>9, <1>10, <2>1 DEF Breaks
<1>12. Line'
  <2>1. Breaks(1, i)' = Breaks(1, i) \cup {i} /\ i \notin Breaks(1, i)
    <3>1. 1 \in Nat /\ 1 <= i
      BY <1>1, <1>2
    <3> QED BY <1>11, <3>1
  <2>2. IsFiniteSet(Breaks(1, i)) /\ Cardinality(Breaks(1, i)) \in Nat
    <3>1. Breaks(1, i) \in SUBSET (1 .. Len(text))
      BY <1>1 DEF Breaks, Scanned
    <3>2. IsFiniteSet(1 .. Len(text))
      BY <1>1, FS_Interval
    <3>3. IsFiniteSet(Breaks(1, i))
      BY <3>1, <3>2, FS_Subset
    <3> QED BY <3>3, FS_CardinalityType
  <2>3. Cardinality(Breaks(1, i)') = Cardinality(Breaks(1, i)) + 1
    BY <2>1, <2>2, FS_AddElement
  <2>4. (row = 1 + Cardinality(Breaks(1, i)))'
    <3>1. row = 1 + Cardinality(Breaks(1, i))
      BY DEF Line, LexInv
    <3>2. row + 1 = 1 + Cardinality(Breaks(1, i)')
      BY <2>2, <2>3, <3>1
    <3> QED BY <3>2
  <2>5. (row = 1 + Len(rows))'
    <3>1. row = 1 + Len(rows)
      BY DEF Line, LexInv
    <3>2. row + 1 = 1 + Len(rows')
      BY <1>1, <1>7, <3>1
    <3> QED BY <3>2
  <2>6. (row_begin = 1 \/ row_begin - 1 \in Breaks(1, i))'
    <3>1. j - 1 = i
      BY <1>1
    <3>2. j - 1 \in Breaks(1, i)'
      BY <2>1, <3>1
    <3> QED BY <3>2
  <2>7. (Breaks(row_begin, i) = {})'
    <3>1. ASSUME NEW a \in Nat, a = j PROVE Breaks(a, i)' = {}
      <4>1. i < a
        BY <1>1, <3>1
      <4> QED BY <1>11, <4>1
    <3>2. PICK a \in Nat : a = j
      OBVIOUS
    <3>3. a = row_begin' /\ Breaks(a, i)' = {}
      BY <3>1, <3>2
    <3> QED BY <3>3
  <2>8. (Even(row_begin, i) => col = 1 + i - row_begin)'
    <3>1. 1 = 1 + j - j
      OBVIOUS
    <3>2. col' = 1 + i' - row_begin'
      BY <3>1
    <3> QED BY <3>2, Zenon
  <2> QED BY <2>4, <2>5, <2>6, <2>7, <2>8, Zenon DEF Line
<1>13. ASSUME NEW t \in ToSet(tokens) PROVE (\E b \in 1 .. t.at : LineOf(t, b))'
  <2>1. PICK b \in 1 .. t.at : LineOf(t, b)
    BY DEF Lines, LexInv
  <2>2. t.at \in Nat /\ t.at <= i /\ b \in Nat /\ 1 \in Nat /\ t.row \in Nat \ {0}
    <3>1. t \in TokenType
      BY Members DEF LexInv
    <3> QED BY <1>1, <1>2, <3>1 DEF TokenType
  <2>3. /\ Breaks(1, t.at)' = Breaks(1, t.at) /\ Breaks(b, t.at)' = Breaks(b, t.at)
        /\ Breaks(t.at, i)' = Breaks(t.at, i) \cup {i}
    BY <1>11, <2>2
  <2>4. Even(b, t.at)' => Even(b, t.at)
    <3>1. Meaningful' = Meaningful
      BY SameText
    <3> QED BY <1>4, <3>1 DEF Even
  <2>5. row = 1 + Len(rows)
    BY DEF Line, LexInv
  <2>6. t.row < row + 1 /\ \E e \in t.at .. Len(text) : rows'[t.row] = SubSeq(text, b, e)
    <3>1. CASE Breaks(t.at, i) = {}
      <4>1. t.row = Len(rows) + 1 /\ b = row_begin
        BY <1>1, <2>1, <2>5, <3>1 DEF LineOf
      <4>2. t.row < row + 1 /\ i \in t.at .. Len(text)
        BY <1>1, <1>2, <2>2, <2>5, <4>1
      <4> QED BY <1>5, <1>7, <4>1, <4>2
    <3>2. CASE Breaks(t.at, i) # {}
      <4>1. t.row < row /\ \E e \in t.at .. Len(text) : rows[t.row] = SubSeq(text, b, e)
        BY <2>1, <3>2 DEF LineOf
      <4>2. t.row \in 1 .. Len(rows) /\ t.row < row + 1
        BY <1>1, <2>2, <2>5, <4>1
      <4>3. rows'[t.row] = rows[t.row]
        BY <1>7, <4>2
      <4> QED BY <4>1, <4>2, <4>3
    <3> QED BY <3>1, <3>2
  <2>7. /\ b = 1 \/ b - 1 \in Breaks(1, t.at)
        /\ Breaks(b, t.at) = {}
        /\ Even(b, t.at) => t.col = 1 + t.at - b
        /\ t.row = 1 + Cardinality(Breaks(1, t.at))
    BY <2>1 DEF LineOf
  <2>8. LineOf(t, b)'
    <3>1. Breaks(t.at, i)' # {} /\ t.row < row'
      BY <2>3, <2>6
    <3> QED BY <2>3, <2>4, <2>6, <2>7, <3>1 DEF LineOf
  <2> QED BY <2>8
<1>14. Lines'
  BY <1>13 DEF Lines
<1> QED BY <1>4, <1>8, <1>12, <1>14 DEF LexInv

----------------------------------------------------------------------------
(* The loop.                                                               *)

(* At the beginning nothing is read.                                       *)
LEMMA LexInit == Init => LexInv
<1> SUFFICES ASSUME Init PROVE LexInv
  OBVIOUS
<1>1. /\ text \in Seq(ToSet(text)) /\ i = 1 /\ row = 1 /\ col = 1 /\ row_begin = 1
      /\ tokens = <<>> /\ rows = <<>> /\ comments = <<>>
  BY TextsAreSequences DEF Init, Begin
<1>2. Len(text) \in Nat
  BY <1>1, LenProperties
<1>3. ToSet(tokens) = {} /\ ToSet(comments) = {} /\ Len(rows) = 0 /\ DOMAIN tokens = {}
  BY <1>1 DEF ToSet
<1>4. DOMAIN text = 1 .. Len(text)
  BY <1>1, LenProperties
<1>5. Scanned = {}
  BY <1>1, <1>2, <1>4 DEF Scanned
<1>6. Breaks(1, i) = {} /\ Breaks(row_begin, i) = {}
  BY <1>5 DEF Breaks
<1>7. LexTypeOK
  <2>1. i \in 1 .. Len(text) + 3 /\ row_begin \in 1 .. i /\ row \in Nat \ {0} /\ col \in Nat \ {0}
    BY <1>1, <1>2
  <2>2. tokens \in Seq(TokenType) /\ rows \in Seq(Seq(ToSet(text))) /\ comments \in Seq(CommentType)
    BY <1>1, EmptySeq
  <2> QED BY <1>1, <2>1, <2>2 DEF LexTypeOK
<1>8. TokensAreTheText /\ CommentsAreComments /\ TokensAreWhole /\ Lines
  BY <1>3, <1>5 DEF TokensAreTheText, CommentsAreComments, TokensAreWhole, Lines
<1>9. ThrowsAtOpenEnds
  <2>1. ~ Thrown
    BY <1>1, <1>2 DEF Thrown
  <2> QED BY <1>3, <2>1 DEF ThrowsAtOpenEnds, EndsInOperator, EndsInComment
<1>10. Ahead
  BY <1>3 DEF Ahead
<1>11. Line
  <2>1. row = 1 + Cardinality(Breaks(1, i)) /\ row = 1 + Len(rows)
    <3>1. Cardinality(Breaks(1, i)) = 0
      BY <1>6, FS_EmptySet
    <3>2. row = 1 + 0 /\ row = 1 + Len(rows)
      BY <1>1, <1>3
    <3> QED BY <3>1, <3>2
  <2>2. col = 1 + i - row_begin
    BY <1>1
  <2> QED BY <1>1, <1>6, <2>1, <2>2 DEF Line
<1> QED BY <1>7, <1>8, <1>9, <1>10, <1>11 DEF LexInv

(* What a branch calls a token is a symbol.                                *)
LEMMA SymbolNames ==
  /\ \A str : WordSymbol(str) \in Symbols
  /\ "NUM" \in Symbols
  /\ \A x \in DOMAIN separators : separators[x] \in Symbols
  /\ \A s \in DOMAIN operators : operators[s] \in Symbols
BY Zenon DEF WordSymbol, Symbols, Range

(* Where a turn goes.                                                      *)
Goes(j) == j \in Nat /\ i' = j /\ i < j /\ j <= Len(text) + 3

(* Every branch keeps everything and goes on.                              *)
LEMMA TurnStep ==
  ASSUME LexInv, Turn
  PROVE  LexInv' /\ \E j : Goes(j)
<1>1. /\ IsText /\ Len(text) \in Nat /\ DOMAIN text = 1 .. Len(text) /\ i \in Nat
      /\ row \in Nat \ {0} /\ col \in Nat \ {0}
  BY Members DEF LexInv, LexTypeOK
<1>2. Running /\ i \in 1 .. Len(text)
  <2>1. Running
    BY DEF Turn, BlockComment, Space, NewLine, IdOrKeyword, Number, Separator, LineComment, Operator,
           Unknown
  <2> QED BY <2>1, NothingAtTheEnd DEF LexInv
<1>3. ASSUME BlockComment PROVE LexInv' /\ \E j : Goes(j)
  <2>1. /\ OpensBlock(i) /\ i' = BlockEnd(i) /\ comments' = Append(comments, [at |-> i, end |-> i'])
        /\ UNCHANGED <<text, row, col, tokens, rows, row_begin>>
    BY <1>3 DEF BlockComment, Skip
  <2>2. i < Len(text) /\ ~ OpensLine(i)
    BY <1>1, <1>2, <2>1, MarksAt
  <2>3. PICK j : j = BlockEnd(i)
    OBVIOUS
  <2>4. /\ j \in i + 4 .. Len(text) + 3
        /\ \A m \in i + 2 .. j - 3 : ~ ClosesAt(m)
        /\ j = Len(text) + 3 \/ ClosesAt(j - 2)
    BY <1>1, <1>2, <2>2, <2>3, BlockEndReads
  <2>5. j \in Nat /\ i < j /\ j <= Len(text) + 3 /\ i + 2 <= j - 2
    BY <1>1, <2>4
  <2>6. PICK c : c = [at |-> i, end |-> j]
    OBVIOUS
  <2>7. c.at = i /\ c.end = j
    BY <2>6
  <2>8. IsComment(c)
    BY <2>1, <2>4, <2>5, <2>7 DEF IsComment
  <2>9. i' = j /\ comments' = Append(comments, c)
    BY <2>1, <2>3, <2>6
  <2>10. LexInv'
    BY <1>1, <1>2, <2>1, <2>2, <2>5, <2>6, <2>8, <2>9, SkipStep
  <2> QED BY <2>5, <2>9, <2>10 DEF Goes
<1>4. ASSUME LineComment PROVE LexInv' /\ \E j : Goes(j)
  <2>1. /\ OpensLine(i) /\ i' = LineEnd(i) /\ comments' = Append(comments, [at |-> i, end |-> i'])
        /\ UNCHANGED <<text, row, tokens, rows, row_begin>>
    BY <1>4 DEF LineComment, Skip
  <2>2. i < Len(text) /\ text[i] = "/"
    BY <1>1, <1>2, <2>1, MarksAt
  <2>3. PICK j : j = LineEnd(i)
    OBVIOUS
  <2>4. /\ j \in i .. Len(text) + 1
        /\ \A m \in i .. j - 1 : text[m] # "\n"
        /\ j = Len(text) + 1 \/ text[j] = "\n"
    BY <1>1, <1>2, <2>3, LineEndReads
  <2>5. j # i
    BY <1>1, <1>2, <2>2, <2>4
  <2>6. j \in Nat /\ i < j /\ j <= Len(text) + 1 /\ j <= Len(text) + 3
    BY <1>1, <2>4, <2>5
  <2>7. PICK c : c = [at |-> i, end |-> j]
    OBVIOUS
  <2>8. c.at = i /\ c.end = j
    BY <2>7
  <2>9. IsComment(c)
    BY <2>1, <2>4, <2>8 DEF IsComment
  <2>10. i' = j /\ comments' = Append(comments, c)
    BY <2>1, <2>3, <2>7
  <2>11. PICK k \in Nat \ {0} : k = col + (j - i)
    BY <1>1, <2>6
  <2>12. col' = k
    BY <1>4, <2>10, <2>11 DEF LineComment
  <2>13. LexInv'
    BY <1>1, <1>2, <2>1, <2>6, <2>7, <2>9, <2>10, <2>11, <2>12, SkipStep
  <2> QED BY <2>6, <2>10, <2>13 DEF Goes
<1>5. PICK next \in Nat : next = i + 1
  BY <1>1
<1>6. i < next /\ next <= Len(text) + 3
  BY <1>1, <1>2, <1>5
<1>7. ASSUME Space PROVE LexInv' /\ \E j : Goes(j)
  <2>1. /\ text[i] = blank /\ i' = i + 1 /\ col' = col + 1
        /\ UNCHANGED <<text, row, tokens, rows, row_begin, comments>>
    BY <1>7 DEF Space, cur
  <2>2. text[i] \notin Meaningful /\ text[i] # "\n"
    BY <2>1, MeaninglessCharacters, CharacterKinds
  <2>3. i' = next
    BY <1>5, <2>1
  <2>4. PICK k \in Nat \ {0} : k = col + 1
    BY <1>1
  <2>5. col' = k
    BY <2>1, <2>4
  <2>6. LexInv'
    BY <1>2, <1>5, <2>1, <2>2, <2>3, <2>4, <2>5, StayStep
  <2> QED BY <1>6, <2>3, <2>6 DEF Goes
<1>8. ASSUME Unknown PROVE LexInv' /\ \E j : Goes(j)
  <2>1. /\ text[i] \notin Word \cup DOMAIN separators \cup {blank, "\n"} /\ read_operator(i) = i
        /\ i' = i + 1 /\ UNCHANGED <<text, row, col, tokens, rows, row_begin, comments>>
    BY <1>8 DEF Unknown, cur
  <2>2. <<text[i]>> \notin DOMAIN operators
    <3>1. i + 1 # i /\ i + 2 # i
      BY <1>1
    <3> QED BY <1>1, <1>2, <2>1, <3>1, OneCharacter DEF read_operator
  <2>3. text[i] \notin Meaningful /\ text[i] # "\n" /\ text[i] # blank
    BY <2>1, <2>2, MeaninglessCharacters
  <2>4. i' = next
    BY <1>5, <2>1
  <2>5. PICK k \in Nat \ {0} : k = col
    BY <1>1
  <2>6. col' = k
    BY <2>1, <2>5
  <2>7. LexInv'
    BY <1>2, <1>5, <2>1, <2>3, <2>4, <2>5, <2>6, StayStep
  <2> QED BY <1>6, <2>4, <2>7 DEF Goes
<1>9. ASSUME NewLine PROVE LexInv' /\ \E j : Goes(j)
  <2>1. /\ text[i] = "\n" /\ rows' = Append(rows, SubSeq(text, row_begin, i))
        /\ i' = i + 1 /\ row_begin' = i + 1 /\ row' = row + 1 /\ col' = 1
        /\ UNCHANGED <<text, tokens, comments>>
    BY <1>9 DEF NewLine, cur
  <2>2. i' = next /\ row_begin' = next
    BY <1>5, <2>1
  <2>3. LexInv'
    BY <1>2, <1>5, <2>1, <2>2, NewLineStep
  <2> QED BY <1>6, <2>2, <2>3 DEF Goes
<1>10. ASSUME NEW sym \in Symbols, NEW end, Lexeme(end), Emit(sym, end)
       PROVE  LexInv' /\ \E j : Goes(j)
  <2>1. end \in i + 1 .. Len(text) + 2
    BY <1>10 DEF Lexeme
  <2>2. end \in Nat /\ i < end /\ end <= Len(text) + 3
    BY <1>1, <2>1
  <2>3. i' = end
    BY <1>10 DEF Emit
  <2>4. LexInv'
    BY <1>2, <1>10, EmitStep
  <2> QED BY <2>2, <2>3, <2>4 DEF Goes
<1>11. ASSUME IdOrKeyword PROVE LexInv' /\ \E j : Goes(j)
  <2>1. text[i] \in Letter /\ \E sym \in Symbols : Emit(sym, read_id_keyword(i))
    BY <1>11, SymbolNames DEF IdOrKeyword, cur
  <2> QED BY <1>1, <1>2, <1>10, <2>1, WordIsLexeme
<1>12. ASSUME Number PROVE LexInv' /\ \E j : Goes(j)
  <2>1. text[i] \in Digit /\ \E sym \in Symbols : Emit(sym, read_num(i))
    BY <1>12, SymbolNames DEF Number, cur
  <2> QED BY <1>1, <1>2, <1>10, <2>1, NumberIsLexeme
<1>13. ASSUME Separator PROVE LexInv' /\ \E j : Goes(j)
  <2>1. text[i] \in DOMAIN separators /\ \E sym \in Symbols : Emit(sym, i + 1)
    BY <1>13, SymbolNames DEF Separator, cur
  <2> QED BY <1>1, <1>2, <1>10, <2>1, SeparatorIsLexeme
<1>14. ASSUME Operator PROVE LexInv' /\ \E j : Goes(j)
  <2>1. /\ ~ OpensBlock(i) /\ ~ OpensLine(i) /\ read_operator(i) > i
        /\ Emit(operators[Substr(i, read_operator(i) - i)], read_operator(i))
    BY <1>14 DEF Operator
  <2>2. Lexeme(read_operator(i)) /\ Substr(i, read_operator(i) - i) \in DOMAIN operators
    BY <1>1, <1>2, <2>1, OperatorIsLexeme
  <2>3. operators[Substr(i, read_operator(i) - i)] \in Symbols
    BY <2>2, SymbolNames
  <2> QED BY <1>10, <2>1, <2>2, <2>3
<1> QED BY <1>3, <1>4, <1>7, <1>8, <1>9, <1>11, <1>12, <1>13, <1>14 DEF Turn

(* A step that changes nothing keeps everything.                           *)
LEMMA LexStutter == LexInv /\ UNCHANGED lexvars => LexInv'
<1> SUFFICES ASSUME LexInv, UNCHANGED lexvars PROVE LexInv'
  OBVIOUS
<1>1. UNCHANGED <<text, i, row, col, tokens, rows, row_begin, comments>>
  BY DEF lexvars, lexing, place
<1>2. LexTypeOK'
  BY <1>1 DEF LexInv, LexTypeOK, TokenType, CommentType
<1>3. /\ \A p : (InToken(p)' <=> InToken(p)) /\ (InComment(p)' <=> InComment(p))
      /\ \A p : InBlock(p)' <=> InBlock(p)
      /\ Scanned' = Scanned
  BY <1>1, SameText DEF InToken, InComment, InBlock, Scanned, End
<1>4. TokensAreTheText'
  <2>1. ASSUME NEW p \in Scanned', text'[p] \in Meaningful' PROVE (InToken(p) # InComment(p))'
    <3>1. p \in Scanned /\ text[p] \in Meaningful
      BY <1>1, <1>3, <2>1, SameText
    <3>2. InToken(p) # InComment(p)
      BY <3>1 DEF TokensAreTheText, LexInv
    <3> QED BY <1>3, <3>2 DEF InToken, InComment
  <2>2. \A p \in Scanned' : text'[p] \in Meaningful' => (InToken(p) # InComment(p))'
    BY <2>1
  <2>3. \A n \in DOMAIN tokens' :
          /\ tokens'[n].str # <<>>
          /\ tokens'[n].str = SubSeq(text', tokens'[n].at, End(tokens'[n]) - 1)
          /\ n > 1 => End(tokens'[n - 1]) <= tokens'[n].at
    BY <1>1 DEF TokensAreTheText, LexInv, End
  <2> QED BY <2>2, <2>3 DEF TokensAreTheText, End
<1>5. CommentsAreComments'
  BY <1>1, <1>3, SameText DEF CommentsAreComments, LexInv
<1>6. TokensAreWhole'
  BY <1>1, SameText DEF TokensAreWhole, LexInv
<1>7. ThrowsAtOpenEnds'
  BY <1>1, SameText DEF ThrowsAtOpenEnds, LexInv, Running, Thrown, EndsInOperator, EndsInComment
<1>8. Ahead'
  BY <1>1 DEF Ahead, LexInv, End
<1>9. /\ \A a, b : Breaks(a, b)' = Breaks(a, b)
      /\ \A a, b : Even(a, b)' <=> Even(a, b)
  <2>1. Meaningful' = Meaningful
    BY <1>1, SameText
  <2> QED BY <1>1, <1>3, <2>1 DEF Breaks, Even
<1>10. Line'
  <2>1. /\ Breaks(1, i)' = Breaks(1, i) /\ Breaks(row_begin, i)' = Breaks(row_begin, i)
        /\ Even(row_begin, i)' <=> Even(row_begin, i)
    BY <1>1, <1>3, SameText DEF Breaks, Even
  <2> QED BY <1>1, <2>1 DEF Line, LexInv
<1>11. ASSUME NEW t, NEW b, LineOf(t, b) PROVE LineOf(t, b)'
  <2>1. Breaks(t.at, i)' = Breaks(t.at, i)
    BY <1>1, <1>3 DEF Breaks
  <2> QED BY <1>1, <1>9, <1>11, <2>1 DEF LineOf
<1>12. Lines'
  BY <1>1, <1>11 DEF Lines, LexInv
<1> QED BY <1>2, <1>4, <1>5, <1>6, <1>7, <1>8, <1>10, <1>12 DEF LexInv

(* The invariant holds of every state the loop reaches.                    *)
THEOREM LexInvariant == Spec => []LexInv
<1>1. LexInv /\ [Turn]_lexvars => LexInv'
  BY TurnStep, LexStutter
<1> QED BY <1>1, LexInit, PTL DEF Spec

(* Types, for every set of texts.                                          *)
THEOREM LexTypeInvariant == Spec => []LexTypeOK
<1>1. LexInv => LexTypeOK
  BY DEF LexInv
<1> QED BY <1>1, LexInvariant, PTL

(* The tokens are the text without its comments: nothing that means        *)
(* anything is lost between two tokens or read twice.                      *)
THEOREM NothingIsLost == Spec => []TokensAreTheText
<1>1. LexInv => TokensAreTheText
  BY DEF LexInv
<1> QED BY <1>1, LexInvariant, PTL

(* The comments are those of the text, from the mark that opens one to its *)
(* first closing or to its line break.                                     *)
THEOREM CommentsAreFound == Spec => []CommentsAreComments
<1>1. LexInv => CommentsAreComments
  BY DEF LexInv
<1> QED BY <1>1, LexInvariant, PTL

(* Every token is as long as it can be.                                    *)
THEOREM LongestTokens == Spec => []TokensAreWhole
<1>1. LexInv => TokensAreWhole
  BY DEF LexInv
<1> QED BY <1>1, LexInvariant, PTL

(* tokenize throws for exactly the texts that end in a one character       *)
(* operator or in an open block comment.                                   *)
THEOREM ThrowsForOpenEnds == Spec => []ThrowsAtOpenEnds
<1>1. LexInv => ThrowsAtOpenEnds
  BY DEF LexInv
<1> QED BY <1>1, LexInvariant, PTL

(* Every turn goes on, and not far behind the end.                         *)
THEOREM TokenizeAdvances == Spec => TurnsAdvance
<1>1. LexInv /\ [Turn]_lexvars => [i < i' /\ i' <= Len(text) + 3]_lexvars
  <2>1. ASSUME LexInv, Turn PROVE i < i' /\ i' <= Len(text) + 3
    BY <2>1, TurnStep DEF Goes
  <2> QED BY <2>1
<1> QED BY <1>1, LexInvariant, PTL DEF Spec, TurnsAdvance

(* Every position is on a line, which begins at the beginning of the text  *)
(* or behind a line break.                                                 *)
LEMMA LineStartIs ==
  ASSUME NEW p \in Nat \ {0}
  PROVE  /\ LineStart(p) \in 1 .. p
         /\ LineStart(p) = 1 \/ text[LineStart(p) - 1] = "\n"
         /\ \A m \in LineStart(p) .. p - 1 : text[m] # "\n"
<1> DEFINE Starts(q) == /\ q = 1 \/ text[q - 1] = "\n"
                        /\ \A m \in q .. p - 1 : text[m] # "\n"
           T == {q \in 1 .. p : q = 1 \/ text[q - 1] = "\n"}
<1>1. 1 \in T /\ T \subseteq 1 .. p /\ T # {}
  OBVIOUS
<1>2. PICK z : z = Max(T)
  OBVIOUS
<1>3. z \in T /\ \A y \in T : z >= y
  <2> HIDE DEF T
  <2> QED BY <1>1, <1>2, MaxOfNats
<1>4. ASSUME NEW m \in z .. p - 1 PROVE text[m] # "\n"
  <2>1. m + 1 \in 1 .. p /\ ~ (z >= m + 1) /\ m + 1 - 1 = m
    BY <1>3
  <2> QED BY <1>3, <2>1
<1>5. z \in 1 .. p /\ Starts(z)
  BY <1>3, <1>4
<1>6. LineStart(p) = CHOOSE q \in 1 .. p : Starts(q)
  BY DEF LineStart
<1> HIDE DEF Starts
<1>7. LineStart(p) \in 1 .. p /\ Starts(LineStart(p))
  BY <1>5, <1>6
<1> QED BY <1>7 DEF Starts

(* On a line with no block comment before the token, the line the loop     *)
(* remembers is the line of the text.                                      *)
LEMMA StraightLine ==
  ASSUME LexInv, NEW t \in ToSet(tokens), NEW b \in 1 .. t.at, LineOf(t, b), Straight(t.at)
  PROVE  b = LineStart(t.at)
<1>1. /\ IsText /\ Len(text) \in Nat /\ DOMAIN text = 1 .. Len(text) /\ i \in Nat
      /\ \A s \in ToSet(tokens) : s \in TokenType
      /\ \A c \in ToSet(comments) : c \in CommentType
  BY Members DEF LexInv
<1>2. /\ t.at \in 1 .. Len(text) /\ t.at \in Nat \ {0} /\ Len(t.str) \in Nat
      /\ End(t) \in Nat /\ t.at < i /\ t.at < End(t)
  <2>1. t.at \in 1 .. Len(text) /\ t.str \in Seq(ToSet(text))
    BY <1>1 DEF TokenType
  <2>2. t.str # <<>> /\ End(t) <= i
    BY DEF LexInv, TokensAreTheText, Ahead, ToSet
  <2>3. Len(t.str) \in Nat \ {0}
    BY <2>1, <2>2, LenProperties, EmptySeq
  <2>4. End(t) = t.at + Len(t.str)
    BY DEF End
  <2> HIDE DEF End
  <2> QED BY <1>1, <2>1, <2>2, <2>3, <2>4
<1>3. PICK start : start = LineStart(t.at)
  OBVIOUS
<1>4. /\ start \in 1 .. t.at /\ start \in Nat /\ (start = 1 \/ text[start - 1] = "\n")
      /\ \A m \in start .. t.at - 1 : text[m] # "\n"
  <2>1. /\ start \in 1 .. t.at /\ (start = 1 \/ text[start - 1] = "\n")
        /\ \A m \in start .. t.at - 1 : text[m] # "\n"
    BY <1>2, <1>3, LineStartIs
  <2> QED BY <1>2, <2>1
<1>5. \A q \in start .. t.at - 1 : ~ InBlock(q)
  BY <1>3 DEF Straight
<1>6. b \in Nat /\ b >= 1 /\ b <= t.at
  BY <1>2
<1>7. b <= start
  <2>1. CASE b = 1
    BY <1>4, <2>1
  <2>2. CASE b - 1 \in Breaks(1, t.at)
    <3>1. text[b - 1] = "\n" /\ b - 1 < t.at
      BY <2>2 DEF Breaks
    <3>2. b - 1 \notin start .. t.at - 1
      BY <1>4, <3>1
    <3> QED BY <1>2, <1>4, <1>6, <3>1, <3>2
  <2> QED BY <2>1, <2>2 DEF LineOf
<1>8. ASSUME b < start PROVE FALSE
  <2>1. PICK last \in Nat : last = start - 1
    BY <1>4, <1>6, <1>8
  <2>2. /\ last \in 1 .. Len(text) /\ b <= last /\ last < t.at /\ last < i /\ last + 1 = start
        /\ start # 1
    BY <1>1, <1>2, <1>4, <1>6, <1>8, <2>1
  <2>3. text[last] = "\n"
    BY <1>4, <2>1, <2>2
  <2>4. InBlock(last)
    <3>1. last \notin Breaks(b, t.at)
      BY DEF LineOf
    <3>2. last \in Scanned
      BY <1>1, <2>2 DEF Scanned
    <3> QED BY <2>2, <2>3, <3>1, <3>2 DEF Breaks
  <2>5. PICK c \in ToSet(comments) : OpensBlock(c.at) /\ c.at <= last /\ last < c.end
    BY <2>4 DEF InBlock
  <2>6. c.at \in 1 .. Len(text) /\ c.end \in Nat
    BY <1>1 DEF CommentType
  <2>7. c.end <= t.at
    <3>1. End(t) <= c.at \/ c.end <= t.at
      BY DEF LexInv, Ahead
    <3>2. ~ (End(t) <= c.at)
      BY <1>2, <2>2, <2>5, <2>6
    <3> QED BY <3>1, <3>2
  <2>8. c.end = start
    <3>1. CASE start < c.end
      <4>1. start \in start .. t.at - 1 /\ c.at <= start
        BY <1>2, <1>4, <2>2, <2>5, <2>6, <2>7, <3>1
      <4>2. InBlock(start)
        BY <2>5, <3>1, <4>1 DEF InBlock
      <4> QED BY <1>5, <4>1, <4>2
    <3>2. CASE ~ (start < c.end)
      BY <1>4, <2>2, <2>5, <2>6, <3>2
    <3> QED BY <3>1, <3>2
  <2>9. ~ OpensLine(c.at)
    BY <1>1, <2>5, <2>6, MarksAt
  <2>10. c.at + 2 <= c.end - 2 /\ (ClosesAt(c.end - 2) \/ c.end = Len(text) + 3)
    BY <2>9 DEF LexInv, CommentsAreComments, IsComment
  <2>11. c.end # Len(text) + 3
    BY <1>1, <1>2, <2>6, <2>7
  <2>12. PICK q \in Nat : q = c.end - 2
    BY <2>6, <2>10
  <2>13. q \in 1 .. Len(text) /\ q + 1 = last
    BY <1>1, <1>2, <1>4, <2>1, <2>6, <2>7, <2>8, <2>10, <2>12
  <2>14. text[q + 1] = "/"
    BY <1>1, <2>10, <2>11, <2>12, <2>13, MarksAt
  <2> QED BY <2>3, <2>13, <2>14
<1> QED BY <1>3, <1>4, <1>6, <1>7, <1>8

(* The invariant says where the tokens are.                                *)
LEMMA LinesArePositions == LexInv => PositionsAreTrue
<1> SUFFICES ASSUME LexInv PROVE PositionsAreTrue
  OBVIOUS
<1>1. /\ IsText /\ Len(text) \in Nat /\ DOMAIN text = 1 .. Len(text) /\ i \in Nat
      /\ \A s \in ToSet(tokens) : s \in TokenType
      /\ Len(rows) \in Nat
  BY Members DEF LexInv
<1>2. row = 1 + Len(rows)
  BY DEF LexInv, Line
<1>3. ASSUME NEW t \in ToSet(tokens)
      PROVE  /\ t.row = 1 + Cardinality(Breaks(1, t.at))
             /\ Breaks(t.at, i) # {} <=> t.row <= Len(rows)
             /\ Straight(t.at) => /\ t.col = 1 + t.at - LineStart(t.at)
                                  /\ Breaks(t.at, i) # {} => rows[t.row][t.col] = text[t.at]
  <2>1. PICK b \in 1 .. t.at : LineOf(t, b)
    BY DEF LexInv, Lines
  <2>2. t.at \in 1 .. Len(text) /\ t.row \in Nat
    BY <1>1 DEF TokenType
  <2>3. t.row = 1 + Cardinality(Breaks(1, t.at))
    BY <2>1 DEF LineOf
  <2>4. Breaks(t.at, i) # {} <=> t.row <= Len(rows)
    <3>1. CASE Breaks(t.at, i) = {}
      <4>1. t.row = row
        BY <2>1, <3>1 DEF LineOf
      <4> QED BY <1>1, <1>2, <3>1, <4>1
    <3>2. CASE Breaks(t.at, i) # {}
      <4>1. t.row < row
        BY <2>1, <3>2 DEF LineOf
      <4> QED BY <1>1, <1>2, <2>2, <3>2, <4>1
    <3> QED BY <3>1, <3>2
  <2>5. ASSUME Straight(t.at)
        PROVE  /\ t.col = 1 + t.at - LineStart(t.at)
               /\ Breaks(t.at, i) # {} => rows[t.row][t.col] = text[t.at]
    <3>1. b = LineStart(t.at)
      BY <2>1, <2>5, StraightLine
    <3>2. Even(b, t.at)
      BY <2>5, <3>1 DEF Straight, Even
    <3>3. t.col = 1 + t.at - b
      BY <2>1, <3>2 DEF LineOf
    <3>4. ASSUME Breaks(t.at, i) # {} PROVE rows[t.row][t.col] = text[t.at]
      <4>1. PICK e \in t.at .. Len(text) : rows[t.row] = SubSeq(text, b, e)
        BY <2>1, <3>4 DEF LineOf
      <4>2. b \in 1 .. Len(text) + 1 /\ e \in 0 .. Len(text) /\ b <= e + 1
        BY <1>1, <2>2
      <4>3. \A k \in 1 .. e - b + 1 : SubSeq(text, b, e)[k] = text[b + k - 1]
        BY <4>2, Segment DEF IsText
      <4>4. PICK k \in Nat : k = 1 + t.at - b
        BY <1>1, <2>2
      <4>5. k \in 1 .. e - b + 1 /\ b + k - 1 = t.at
        BY <1>1, <2>2, <4>2, <4>4
      <4> QED BY <3>3, <4>1, <4>3, <4>4, <4>5
    <3> QED BY <3>1, <3>3, <3>4
  <2> QED BY <2>3, <2>4, <2>5
<1> QED BY <1>3 DEF PositionsAreTrue

(* Tokens stand where they say, and the rows that are kept have them there.*)
THEOREM PositionsAreKept == Spec => []PositionsAreTrue
BY LexInvariant, LinesArePositions, PTL
=============================================================================

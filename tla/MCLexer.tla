------------------------------ MODULE MCLexer ------------------------------
(* Every text of at most four pieces, and of at most five of the characters  *)
(* the branches for comments tell apart.                                     *)
EXTENDS Lexer

Pieces == { <<"a">>, <<"0">>, <<"x">>, <<"i", "f">>, <<" ">>, <<"\n">>, <<"/">>, <<"*">>,
            <<"+">>, <<"&">>, <<"@">>, <<"(">>, <<"/", "*">>, <<"*", "/">> }
Marks  == { <<"a">>, <<"\n">>, <<"/">>, <<"*">>, <<"+">>, <<"@">> }
RECURSIVE Upto(_, _)
Upto(n, pieces) ==
  IF n = 0 THEN {<<>>}
  ELSE LET S == Upto(n - 1, pieces) IN S \cup {s \o p : s \in S, p \in pieces}
MCTexts == Upto(4, Pieces) \cup Upto(5, Marks) \cup
  { <<"/", "*", " ", "/", "*", "/", "a">>,
    <<"i", "n", "t", "\n", "a", "/", "/", "x", "\n", "=", "1", ";", "\n", "v", "o", "i", "d", " ", "f", "(",
      ")", "{", "}">> }
=============================================================================

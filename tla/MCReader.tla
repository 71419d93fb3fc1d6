------------------------------ MODULE MCReader ------------------------------
(* Inputs for the reader: a text for each branch of the lexer, and drafts    *)
(* that reach every part of the grammar.                                     *)
EXTENDS Reader

MCRules == parserRules

\* programs, texts without a token, unknown characters, and the two ends that throw
MCTexts ==
  { <<"i", "n", "t", " ", "a", ";", "\n">>,
    <<"i", "n", "t", "\n", "a", "/", "/", "x", "\n", "=", "1", ";", "\n", "v", "o", "i", "d", " ", "f", "(",
      ")", "{", "}">>,
    <<"i", "n", "t", "/", "*", "*", "/", "a", "=", "0", "x", "1", "f", "<", "=", "@", "b", ";">>,
    <<"i", "f", " ", "a">>, <<>>, <<" ", "/", "/">>, <<"a", "/", "*", "/">>, <<"a", "+">> }

Draft(given, words, most) == [given |-> given, words |-> words, most |-> most]
InFunction == <<"KW_INT", "ID", "LPR", "RPR", "LBC">>
MCDrafts ==
  { \* programs, classes and their members
    Draft(<<>>, {"KW_VOID", "KW_CLASS", "ID", "LPR", "RPR", "LBC", "RBC", "SEMICOLON"}, 7),
    Draft(<<"KW_CLASS", "ID", "LBC">>, {"KW_INT", "ID", "LPR", "RPR", "LBC", "RBC", "SEMICOLON"}, 7),
    Draft(<<"KW_CLASS", "ID", "LBC", "ID", "LPR", "KW_INT">>,
          {"KW_INT", "ID", "COMMA", "RPR", "LBC", "RBC", "SEMICOLON"}, 7),
    Draft(<<"KW_INT", "ID", "SEMICOLON", "KW_CLASS">>, {"ID", "LBC", "RBC", "SEMICOLON"}, 5),
    \* declarators, parameters and initialisers
    Draft(<<"KW_INT">>, {"ID", "STAR", "LBK", "RBK", "NUM", "SEMICOLON", "COMMA"}, 7),
    Draft(<<"KW_INT", "ID", "LBK">>, {"NUM", "LBK", "RBK", "SEMICOLON"}, 7),
    Draft(<<"KW_INT", "ID", "LPR">>, {"KW_INT", "ID", "STAR", "COMMA", "RPR", "LPR", "LBC", "RBC"}, 7),
    Draft(<<"KW_INT", "ID", "LPR", "KW_INT", "ID", "COMMA", "KW_INT", "ID">>,
          {"KW_INT", "ID", "COMMA", "RPR", "LBC", "RBC", "SEMICOLON"}, 6),
    Draft(<<"KW_INT", "ID", "ASSIGN">>, {"LBC", "RBC", "COMMA", "NUM", "SEMICOLON"}, 7),
    \* statements
    Draft(InFunction, {"KW_IF", "LPR", "ID", "RPR", "SEMICOLON", "KW_ELSE", "RBC"}, 7),
    Draft(InFunction \o <<"KW_IF", "LPR", "ID", "RPR", "KW_IF", "LPR", "ID", "RPR">>,
          {"KW_IF", "KW_ELSE", "SEMICOLON", "LBC", "RBC"}, 6),
    Draft(InFunction, {"KW_WHILE", "KW_RETURN", "KW_BREAK", "KW_CONTINUE", "LPR", "ID", "RPR",
                       "SEMICOLON", "RBC"}, 5),
    Draft(InFunction \o <<"KW_WHILE", "LPR", "ID", "RPR">>,
          {"KW_IF", "KW_ELSE", "LPR", "ID", "RPR", "SEMICOLON", "RBC"}, 6),
    \* expressions
    Draft(<<"KW_INT", "ID", "ASSIGN", "ID">>,
          {"ID", "SEMICOLON", "OR", "AND", "EQ", "NEQ", "LT", "GT", "LTE", "GTE", "PLUS", "MINUS",
           "STAR", "SLASH", "PERCENT", "NOT"}, 4),
    Draft(<<"KW_INT", "ID", "ASSIGN">>, {"ID", "STAR", "PLUS", "LPR", "RPR", "SEMICOLON"}, 6),
    Draft(<<"KW_INT", "ID", "ASSIGN", "ID">>,
          {"ID", "LPR", "COMMA", "RPR", "LBK", "RBK", "SEMICOLON"}, 6),
    Draft(<<"KW_INT", "ID", "ASSIGN", "ID">>,
          {"ID", "DOT", "POINTER_ACC", "LPR", "RPR", "SEMICOLON"}, 6),
    Draft(<<"KW_INT", "ID", "ASSIGN", "ID", "DOT", "ID", "LPR", "ID">>,
          {"ID", "COMMA", "RPR", "SEMICOLON"}, 6) }
=============================================================================

------------------------------ MODULE Grammar ------------------------------
(***************************************************************************)
(* parserRules and the semantic action of each rule (parser/parser.cpp):   *)
(* a rule is [left, right, do], where do tells what the action makes of    *)
(* the children, which TreeBuilder carries out:                            *)
(*   Move(k)             the info of child k as it is; k = 1 by default    *)
(*   Make(kind, n, ks)   a node over the nodes of the children ks, named   *)
(*                       by the text of child n (0: without a name)        *)
(*   Push(l, k)          the list node of child l with the node of child k *)
(*                       at its end; lists grow from the last item on      *)
(*   Turn(l, n)          the list node of child l reversed, named by n     *)
(*   Name(l, n)          the list node of child l named by n, not reversed *)
(*   Type(how, ...)      the steps that build a declared type              *)
(* The order is the order in the file: a reduce entry is an index into it. *)
(***************************************************************************)
EXTENDS Sequences

CONSTANT Rules      \* the grammar: parserRules, a sequence of rules

rules    == Rules   \* a definition, so that TLC evaluates it once
Right(r) == rules[r].right

Move(k)           == [do |-> "move", of |-> k]
Make(kind, n, ks) == [do |-> "make", kind |-> kind, name |-> n, of |-> ks]
Push(l, k)        == [do |-> "push", into |-> l, of |-> k]
Turn(l, n)        == [do |-> "turn", of |-> l, name |-> n]
Name(l, n)        == [do |-> "name", of |-> l, name |-> n]
Method(kind)      == [do |-> "method", kind |-> kind]
Type(how, of)     == [do |-> "type", how |-> how, of |-> of]

Rule(left, right, do) == [left |-> left, right |-> right, do |-> do]
Plain(left, right)    == Rule(left, right, Move(1))
Binary(left, op, r)   == Rule(left, <<left, op, r>>, [do |-> "binary"])

ProgramRules ==
  << Plain("START", <<"CompUnit">>),
     Rule("CompUnit", <<"Decl">>, Make("program", 0, <<1>>)),
     Rule("CompUnit", <<"FuncDef">>, Make("program", 0, <<1>>)),
     Rule("CompUnit", <<"CompUnit", "Decl">>, Push(1, 2)),
     Rule("CompUnit", <<"CompUnit", "FuncDef">>, Push(1, 2)),
     Rule("CompUnit", <<"ClassDef">>, Make("program", 0, <<1>>)),
     Rule("CompUnit", <<"CompUnit", "ClassDef">>, Push(1, 2)),
     Rule("ClassDef", <<"KW_CLASS", "ID", "LBC", "ClassBody", "RBC", "SEMICOLON">>, Turn(4, 2)),
     Rule("ClassBody", <<>>, Make("class", 0, <<>>)),
     Plain("ClassBody", <<"ClassMemberList">>),
     Rule("ClassMemberList", <<"ClassMember">>, Make("class", 0, <<1>>)),
     Rule("ClassMemberList", <<"ClassMember", "ClassMemberList">>, Push(2, 1)),
     Plain("ClassMember", <<"VarDecl">>),
     Plain("ClassMember", <<"FuncDef">>),
     Plain("ClassMember", <<"ConstructorDef">>),
     Rule("ConstructorDef", <<"ID", "LPR", "FuncFParams", "RPR", "Block">>, Type("ctor", 3)),
     Rule("ConstructorDef", <<"ID", "LPR", "RPR", "Block">>, Type("ctor", 0)),
     Plain("Decl", <<"ConstDecl">>),
     Plain("Decl", <<"VarDecl">>),
     Plain("Type", <<"KW_INT">>),
     Plain("Type", <<"KW_VOID">>),
     Rule("Type", <<"KW_CLASS", "ID">>, Move(2)) >>

DeclRules ==
  << Rule("VarDecl", <<"Type", "VarDef", "VarDeclTail", "SEMICOLON">>, Type("decl", 3)),
     Rule("VarDeclTail", <<"COMMA", "VarDef", "VarDeclTail">>, Push(3, 2)),
     Rule("VarDeclTail", <<>>, Make("decl", 0, <<>>)) >>

VarDefRules ==
  << Rule("VarDef", <<"Declarator">>, Type("var", 0)),
     Rule("VarDef", <<"Declarator", "ASSIGN", "InitVal">>, Type("var", 3)) >>

InitRules ==
  << Rule("InitVal", <<"Exp">>, Make("scalar", 0, <<1>>)),
     Rule("InitVal", <<"LBC", "InitValTail", "RBC">>, Turn(2, 0)),
     Rule("InitValTail", <<"InitVal", "InitValTailTail">>, Push(2, 1)),
     Rule("InitValTail", <<>>, Make("list", 0, <<>>)),
     Rule("InitValTailTail", <<"COMMA", "InitVal", "InitValTailTail">>, Push(3, 2)),
     Rule("InitValTailTail", <<>>, Make("list", 0, <<>>)) >>

DeclaratorRules ==
  << Rule("FuncDef", <<"Type", "Declarator", "Block">>, Type("func", 2)),
     Rule("Declarator", <<"STAR", "Declarator">>, Type("star", 2)),
     Plain("Declarator", <<"DirectDeclarator">>),
     Rule("DirectDeclarator", <<"SimpleDeclarator", "TypeSuffix">>, Type("suffix", 2)),
     Rule("DirectDeclarator", <<"SimpleDeclarator">>, Type("suffix", 0)),
     Plain("TypeSuffix", <<"TypeDeclIdxTail">>),
     Rule("TypeDeclIdxTail", <<"LBK", "ConstExp", "RBK", "TypeDeclIdxTail">>, Type("dim", 4)),
     Rule("TypeDeclIdxTail", <<"LBK", "RBK", "TypeDeclIdxTail">>, Type("nodim", 3)),
     Rule("TypeDeclIdxTail", <<"LBK", "ConstExp", "RBK">>, Type("dim", 0)) >>

ParameterRules ==
  << Rule("TypeSuffix", <<"LPR", "FuncFParams", "RPR">>, Move(2)),
     Rule("TypeSuffix", <<"LPR", "RPR">>, Type("noparams", 0)),
     Rule("FuncFParams", <<"FuncFParam">>, Type("params", 0)),
     Rule("FuncFParams", <<"FuncFParam", "FuncFParamsTail">>, Type("params", 2)),
     Rule("FuncFParamsTail", <<"COMMA", "FuncFParam", "FuncFParamsTail">>, Type("params", 3)),
     Rule("FuncFParamsTail", <<"COMMA", "FuncFParam">>, Type("params", 0)),
     Rule("FuncFParam", <<"Type", "Declarator">>, Type("param", 2)),
     Plain("SimpleDeclarator", <<"ID">>) >>

StatementRules ==
  << Rule("Block", <<"LBC", "BlockItemTail", "RBC">>, Turn(2, 0)),
     Rule("BlockItemTail", <<"BlockItem", "BlockItemTail">>, [do |-> "item"]),
     Rule("BlockItemTail", <<>>, Make("block", 0, <<>>)),
     Plain("BlockItem", <<"Decl">>),
     Plain("BlockItem", <<"Stmt">>),
     Rule("Stmt", <<"Exp", "SEMICOLON">>, Make("expr", 0, <<1>>)),
     Plain("Stmt", <<"SEMICOLON">>),
     Plain("Stmt", <<"Block">>),
     Rule("Stmt", <<"KW_IF", "LPR", "Exp", "RPR", "Stmt">>, Make("if", 0, <<3, 5>>)),
     Rule("Stmt", <<"KW_IF", "LPR", "Exp", "RPR", "Stmt", "KW_ELSE", "Stmt">>,
          Make("if", 0, <<3, 5, 7>>)),
     Rule("Stmt", <<"KW_WHILE", "LPR", "Exp", "RPR", "Stmt">>, Make("while", 0, <<3, 5>>)),
     Rule("Stmt", <<"KW_BREAK", "SEMICOLON">>, Make("break", 0, <<>>)),
     Rule("Stmt", <<"KW_CONTINUE", "SEMICOLON">>, Make("continue", 0, <<>>)),
     Rule("Stmt", <<"KW_RETURN", "Exp", "SEMICOLON">>, Make("ret", 0, <<2>>)),
     Rule("Stmt", <<"KW_RETURN", "SEMICOLON">>, Make("ret", 0, <<>>)) >>

PrimaryRules ==
  << Plain("Exp", <<"LOrExp">>),
     Rule("PrimaryExp", <<"LPR", "Exp", "RPR">>, Move(2)),
     Rule("PrimaryExp", <<"NUM">>, [do |-> "number"]),
     Plain("Number", <<"NUM">>),
     Plain("UnaryExp", <<"PrimaryExp">>),
     Rule("Exp", <<"Exp", "POINTER_ACC", "ID">>, Make("arrow", 3, <<1>>)),
     Rule("Exp", <<"Exp", "POINTER_ACC", "ID", "LPR", "FuncRParams", "RPR">>, Method("arrow")),
     Rule("PrimaryExp", <<"ID">>, Make("id", 1, <<>>)),
     Rule("PrimaryExp", <<"PrimaryExp", "LBK", "Exp", "RBK">>, Make("sub", 0, <<1, 3>>)),
     Rule("Exp", <<"Exp", "DOT", "ID">>, Make("dot", 3, <<1>>)),
     Rule("Exp", <<"Exp", "DOT", "ID", "LPR", "FuncRParams", "RPR">>, Method("dot")) >>

CallRules ==
  << Rule("UnaryExp", <<"ID", "LPR", "FuncRParams", "RPR">>, Name(3, 1)),
     Rule("UnaryExp", <<"ID", "LPR", "RPR">>, Make("call", 1, <<>>)),
     Rule("UnaryExp", <<"UnaryOp", "UnaryExp">>, [do |-> "unary"]),
     Plain("UnaryOp", <<"PLUS">>),
     Plain("UnaryOp", <<"MINUS">>),
     Plain("UnaryOp", <<"NOT">>),
     Plain("UnaryOp", <<"STAR">>),
     Rule("FuncRParams", <<"Exp", "FuncRParamsTail">>, Push(2, 1)),
     Rule("FuncRParamsTail", <<"COMMA", "Exp", "FuncRParamsTail">>, Push(3, 2)),
     Rule("FuncRParamsTail", <<>>, Make("call", 0, <<>>)) >>

OperatorRules ==
  << Plain("MulExp", <<"UnaryExp">>), Binary("MulExp", "MulOp", "UnaryExp"),
     Plain("MulOp", <<"STAR">>), Plain("MulOp", <<"SLASH">>), Plain("MulOp", <<"PERCENT">>),
     Plain("AddExp", <<"MulExp">>), Binary("AddExp", "AddOp", "MulExp"),
     Plain("AddOp", <<"PLUS">>), Plain("AddOp", <<"MINUS">>),
     Plain("RelExp", <<"AddExp">>), Binary("RelExp", "RelOp", "AddExp"),
     Binary("EqExp", "EqOp", "RelExp"),
     Plain("RelOp", <<"LT">>), Plain("RelOp", <<"GT">>),
     Plain("RelOp", <<"LTE">>), Plain("RelOp", <<"GTE">>),
     Plain("EqExp", <<"RelExp">>), Binary("EqExp", "EqOp", "RelExp"),
     Plain("EqOp", <<"EQ">>), Plain("EqOp", <<"NEQ">>),
     Plain("LAndExp", <<"EqExp">>), Binary("LAndExp", "AND", "EqExp"),
     Plain("LOrExp", <<"LAndExp">>), Binary("LOrExp", "OR", "LAndExp"),
     Plain("ConstExp", <<"Exp">>) >>

parserRules == ProgramRules \o DeclRules \o VarDefRules \o InitRules
               \o DeclaratorRules \o ParameterRules
               \o StatementRules \o PrimaryRules \o CallRules \o OperatorRules

(* symbolTypeNames and tokenToSymbol map tokens one to one to symbols; the *)
(* nonterminals are the symbols on a left side (ConstDecl is on none).     *)
nonterminals == {rules[r].left : r \in DOMAIN rules}

(* The start state: the first rule, with all of its right side to come. An *)
(* item is <<rule, pos, lookahead>> with pos the number of symbols before  *)
(* the dot.                                                                *)
start == {<<1, 0, "END_OF_FILE">>}
=============================================================================

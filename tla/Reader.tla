------------------------------- MODULE Reader -------------------------------
(***************************************************************************)
(* Reading a program: the table of the LR(1) generator (LRTable), tokenize *)
(* (Lexer) and the loop of Parse (Parser), as main.cpp calls them.  The    *)
(* input is the tokens of a text, or is drawn token by token the first     *)
(* time Parse looks at it.                                                 *)
(***************************************************************************)
EXTENDS LRTable, Parser

CONSTANTS Texts,      \* texts, sequences of characters, to tokenize
          Drafts      \* [given, words, most]: inputs that begin with the symbols
                      \* given and go on with at most most symbols of words

ASSUME TableIsGenerated == table = importedTable

VARIABLES draft,      \* the draft the input is drawn from, or the text
          reach, line, column, tokens, rows, row_begin, comments     \* of tokenize

Text == IF draft \in Drafts THEN <<>> ELSE draft.text
LX   == INSTANCE Lexer WITH text <- Text, i <- reach, row <- line, col <- column

lexing == <<reach, line, column, tokens, rows, row_begin, comments>>
vars   == <<draft, lexing, pvars>>

(* Words of a drawn input differ: position n has the n-th name or number.  *)
Names  == <<"a", "b", "c", "d", "e", "f", "g", "h", "i", "j", "k", "l", "m",
            "n", "o", "p", "q", "r", "s", "t", "u", "v", "w", "x", "y", "z">>
Tens   == <<"1", "2", "3">>
Ones   == <<"0", "1", "2", "3", "4", "5", "6", "7", "8", "9">>
Spell(sym, n) ==
  CASE sym = "ID"  -> <<Names[n]>>
    [] sym = "NUM" -> <<Tens[n \div 10 + 1], Ones[(n % 10) + 1]>>
    [] OTHER       -> <<sym>>
Written(sym, n) == [sym |-> sym, str |-> Spell(sym, n)]

Init ==
  /\ \/ draft \in [text : Texts] /\ input = <<>>
     \/ /\ draft \in Drafts
        /\ input = [n \in DOMAIN draft.given |-> Written(draft.given[n], n)]
  /\ LX!Begin /\ Begin
  /\ more = TRUE
  /\ outcome = "generating"

(* computeLRTable prints a conflict it cannot resolve and exits.           *)
Generate ==
  /\ outcome = "generating"
  /\ outcome' = IF conflict THEN "exited"
                ELSE IF draft \in Drafts THEN "parsing" ELSE "lexing"
  /\ UNCHANGED <<draft, lexing, input, more, index, stacks>>

Lex ==
  /\ outcome = "lexing"
  /\ UNCHANGED <<draft, input, more, index, stacks, outcome>>
  /\ LX!Turn

Lexed ==
  /\ outcome = "lexing" /\ LX!Done
  /\ outcome' = "parsing" /\ input' = tokens /\ more' = FALSE
  /\ UNCHANGED <<draft, lexing, index, stacks>>

LexThrows ==
  /\ outcome = "lexing" /\ LX!Thrown
  /\ Ended("crashed") /\ Quiet /\ UNCHANGED <<draft, lexing>>

(* The next token of a draft, or its end.                                  *)
Draw ==
  /\ draft \in Drafts
  /\ \/ /\ Len(input) < Len(draft.given) + draft.most
        /\ \E sym \in draft.words : Supply(Written(sym, Len(input) + 1))
     \/ SupplyEnd
  /\ UNCHANGED <<draft, lexing>>

Parse == ParserTurn /\ UNCHANGED <<draft, lexing>>

Next == Generate \/ Lex \/ Lexed \/ LexThrows \/ Draw \/ Parse
Spec == Init /\ [][Next]_vars

----------------------------------------------------------------------------
(* Properties.                                                             *)

(* The language of the rules without tables or lookaheads: the sets of a   *)
(* chart of items <<rule, pos, origin>>, one after each symbol read.       *)
Done(item)       == item[2] = Len(Right(item[1]))
Behind(item)     == Right(item[1])[item[2] + 1]
Wants(item, sym) == ~ Done(item) /\ Behind(item) = sym
Moved(items)     == {<<t[1], t[2] + 1, t[3]>> : t \in items}
Left(item)       == rules[item[1]].left

RECURSIVE BeginsWith(_)
BeginsWith(nts) ==
  LET begun == {Right(r)[1] : r \in {q \in UNION {RulesFor[nt] : nt \in nts} : Right(q) # <<>>}}
              \cap nonterminals
  IN IF begun \subseteq nts THEN nts ELSE BeginsWith(nts \cup begun)
Openings == [nt \in nonterminals |-> UNION {RulesFor[m] : m \in BeginsWith({nt})}] @@ <<>>

\* what the items that wait at k call for, and what goes on behind them
Waiting(items)     == {t \in items : ~ Done(t)}
Predicted(k, open) ==
  (UNION {Openings[nt] : nt \in {Behind(t) : t \in open} \cap nonterminals}) \X {0} \X {k}
Completed(chart, k, all, open, done) ==
  LET nulled == {Left(t) : t \in {d \in all : d[3] = k /\ Done(d)}}
  IN Moved({t \in open : Behind(t) \in nulled}
           \cup UNION {{w \in IF d[3] = k THEN all ELSE chart[d[3]] : Wants(w, Left(d))} : d \in done})
Entailed(chart, k, all, fresh) ==
  LET open == Waiting(fresh)
  IN Predicted(k, open) \cup Completed(chart, k, all, open, fresh \ open)
RECURSIVE Saturate(_, _, _, _)
Saturate(chart, k, items, fresh) ==
  LET all == items \cup fresh
  IN IF fresh = {} THEN items
     ELSE Saturate(chart, k, all, Entailed(chart, k, all, fresh) \ all)

RECURSIVE Read(_, _)
Read(chart, syms) ==
  IF syms = <<>> THEN chart
  ELSE LET before == Read(chart, Front(syms))
           k      == Len(before)
           read   == Moved({t \in before[k] : Wants(t, Last(syms))})
       IN Append(before, Saturate(before, k + 1, {}, read))

\* the chart of the input read so far; what drafts begin with is read once
Unread == << Saturate(<<>>, 1, {}, {<<1, 0, 1>>}) >>
ReadOf == [given \in {<<>>} \cup {d.given : d \in Drafts} |-> Read(Unread, given)]
Given  == IF draft \in Drafts THEN draft.given ELSE <<>>
Chart  == Read(ReadOf[Given], [n \in 1 .. index - 1 - Len(Given) |-> input[Len(Given) + n].sym])

(* Parse accepts what the rules derive, and rejects an input at the first  *)
(* symbol that no sentence of the rules has there (parser.cpp: first sets, *)
(* closures, the table and its conflict, Parse).                           *)
AnswersFollowTheRules ==
  outcome \in {"accepted", "rejected"} =>
    LET read == Last(Chart)
    IN IF outcome = "accepted" THEN index = Len(input) + 1 /\ ~ more /\ <<1, 1, 1>> \in read
       ELSE IF index <= Len(input) THEN \A t \in read : ~ Wants(t, input[index].sym)
       ELSE <<1, 1, 1>> \notin read

(* The tree of an accepted input.                                          *)
Tree == infoStack[1].node

RECURSIVE NodesOf(_), AllNodes(_)
AllNodes(nodes) == UNION {NodesOf(nodes[n]) : n \in DOMAIN nodes}
NodesOf(node)   == {node} \cup AllNodes(node.kids)

(* An else belongs to the nearest if: what stands between if and else does *)
(* not end in an if without an else (the conflict of computeLRTable).      *)
RECURSIVE EndsOpen(_)
EndsOpen(n) == \/ n.k = "if" /\ (Len(n.kids) = 2 \/ EndsOpen(n.kids[3]))
               \/ n.k = "while" /\ EndsOpen(n.kids[2])
ElseBelongsToTheNearestIf ==
  outcome = "accepted" =>
    \A n \in NodesOf(Tree) : n.k = "if" /\ Len(n.kids) = 3 => ~ EndsOpen(n.kids[2])

(* Nothing is missing in the tree of an accepted input but the branch of   *)
(* an empty statement; no declared type is still open, but for a function  *)
(* declared without a body, whose return type nothing completes.           *)
RECURSIVE Closed(_)
Closed(t) == /\ t.k \notin {"open", "broken"}
             /\ t.k = "pointer"  => Closed(t.to)
             /\ t.k = "array"    => Closed(t.of)
             /\ t.k = "function" => Closed(t.ret) /\ \A n \in DOMAIN t.args : Closed(t.args[n])
Returned(t) == IF t.k = "function" THEN [t EXCEPT !.ret = Named(<<>>)] ELSE t
TreesHaveNoHoles ==
  outcome = "accepted" =>
    \A n \in NodesOf(Tree) :
      /\ NoNode \in Range(n.kids) => /\ n.k \in {"if", "while"} /\ n.kids[1] # NoNode
      /\ n.k = "func" => Closed(n.type)
      /\ n.k = "var"  => Closed(Returned(n.type))
      /\ n.k = "ctor" => Closed(Returned(n.type))

(* The words of the tree, read in the order the nodes give them. The lists *)
(* the code leaves reversed are read backwards: the arguments of a plain   *)
(* call, the parameters of a constructor, of a function declared without a *)
(* body and of a function that is a parameter.                             *)
RECURSIVE WordsOf(_), WordsOfAll(_), BaseOf(_), Declared(_, _, _), Parameters(_, _)
WordsOfAll(nodes) == FlattenSeq([n \in DOMAIN nodes |-> WordsOf(nodes[n])])
BaseOf(t) == CASE t.k = "name" -> <<t.name>>
               [] t.k = "pointer" -> BaseOf(t.to)
               [] t.k = "array" -> BaseOf(t.of)
               [] t.k = "function" -> BaseOf(t.ret)
               [] OTHER -> <<>>
Parameters(t, inOrder) ==
  LET of == [n \in DOMAIN t.args |-> BaseOf(t.args[n]) \o Declared(t.bindings[n], t.args[n], FALSE)]
  IN FlattenSeq(IF inOrder THEN of ELSE Reverse(of))
Declared(name, t, inOrder) ==
  <<name>> \o (CASE t.k = "array" -> WordsOfAll(Reverse(t.dims))
                 [] t.k = "function" -> Parameters(t, inOrder)
                 [] OTHER -> <<>>)
WordsOf(n) ==
  CASE n.k = "lit"   -> IF n.name = <<"0">> THEN <<>> ELSE <<n.name>>
    [] n.k = "id"    -> <<n.name>>
    [] n.k \in {"dot", "arrow"} -> WordsOf(n.kids[1]) \o <<n.name>> \o WordsOfAll(Tail(n.kids))
    [] n.k = "call"  -> <<n.name>> \o WordsOfAll(Reverse(n.kids))
    [] n.k = "var"   -> Declared(n.name, n.type, FALSE) \o WordsOfAll(n.kids)
    [] n.k = "decl"  -> <<n.name>> \o WordsOfAll(n.kids)
    [] n.k = "func"  -> BaseOf(n.type) \o Declared(n.name, n.type, TRUE) \o WordsOfAll(n.kids)
    [] n.k = "ctor"  -> Declared(n.name, n.type, FALSE) \o WordsOfAll(n.kids)
    [] n.k = "class" -> <<n.name>> \o WordsOfAll(n.kids)
    [] OTHER         -> WordsOfAll(n.kids)

(* The tree of an accepted input has every name, number and type of it,    *)
(* once and in the order of the source (the lists of parser.cpp grow from  *)
(* their last item and are reversed, most of them).                        *)
WordSymbols == {"ID", "NUM", "KW_INT", "KW_VOID"}
TreesKeepEveryWord ==
  outcome = "accepted" /\ draft \in Drafts =>
    LET words == SelectSeq(input, LAMBDA t : t.sym \in WordSymbols)
    IN WordsOf(Tree) = [n \in DOMAIN words |-> words[n].str]
=============================================================================

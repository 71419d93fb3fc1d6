------------------------------ MODULE LRTable ------------------------------
(***************************************************************************)
(* The LR(1) generator of parser/parser.cpp: first sets, closures and the  *)
(* table computeLRTable builds from them, for the rules of Rules, of which *)
(* the first is the start rule. A state is a set of items, named by its    *)
(* core; a table is a function from states to rows, each a function from   *)
(* symbols to entries <<kind, n>>, rules counted from 1.                   *)
(***************************************************************************)
EXTENDS Grammar, Naturals, SequencesExt

CONSTANT PastEnd     \* the symbol read at right[pos] when pos is the size

Symbols      == nonterminals \cup UNION {Range(Right(r)) : r \in DOMAIN rules}
                \cup {"END_OF_FILE", "EMPTY"}
Items        == (DOMAIN rules) \X Nat \X Symbols
RulesFor     == [nt \in nonterminals |-> {r \in DOMAIN rules : rules[r].left = nt}]

(* computeFirstSet. A rule that begins with a terminal gives it; in any    *)
(* other rule the symbols are taken up to the first one that cannot be     *)
(* empty. A terminal met on the way has no set of its own (operator[]      *)
(* makes an empty one), so it stops the walk and is not taken; the EMPTY   *)
(* of a nullable symbol is taken as it is.                                 *)
FirstOfRule(first, right) ==
  LET own(k) == IF right[k] \in nonterminals THEN first[right[k]] ELSE {}
      from[k \in DOMAIN right] ==
        IF "EMPTY" \in own(k) /\ k < Len(right) THEN own(k) \cup from[k + 1] ELSE own(k)
  IN IF right = <<>> THEN {"EMPTY"}
     ELSE IF right[1] \notin nonterminals THEN {right[1]}
     ELSE from[1]

Grown(first) == [nt \in nonterminals |->
                   first[nt] \cup UNION {FirstOfRule(first, Right(r)) : r \in RulesFor[nt]}]
RECURSIVE GrowFirst(_, _)
GrowFirst(first, before) == IF first = before THEN first ELSE GrowFirst(Grown(first), first)

firstSet == GrowFirst([nt \in nonterminals |-> {}], <<>>)

\* Slip: what follows a nonterminal that can be empty is forgotten.
LookaheadsOfFirst(right, pos, la) ==
  IF pos > Len(right) + 1 THEN {}
  ELSE IF pos = Len(right) + 1 THEN {la}
  ELSE IF right[pos] \notin nonterminals THEN {right[pos]}
  ELSE firstSet[right[pos]] \ {"EMPTY"}

(* computeLookaheads: what can follow the symbol before position pos.      *)
Followed(first, rest) == (first \ {"EMPTY"}) \cup (IF "EMPTY" \in first THEN rest ELSE {})
computeLookaheads(right, pos, la) ==
  LET from[j \in Nat] ==
        IF j > Len(right) + 1 THEN {}
        ELSE IF j = Len(right) + 1 THEN {la}
        ELSE IF right[j] \notin nonterminals THEN {right[j]}
        ELSE Followed(firstSet[right[j]], from[j + 1])
  IN from[pos]

(* What an item calls for: the rules of the symbol behind the dot, all     *)
(* with the same lookaheads, as pairs <<symbol, lookahead>>. The symbol is *)
(* read as right[pos] without a test that pos is inside, unless the right  *)
(* side is empty.                                                          *)
CallsFor(item) ==
  LET right == Right(item[1])
      sym   == IF item[2] < Len(right) THEN right[item[2] + 1] ELSE PastEnd
  IN IF right = <<>> \/ sym \notin nonterminals THEN {}
     ELSE {sym} \X computeLookaheads(right, item[2] + 2, item[3])

(* computeClosure: each round handles the items the round before added.    *)
CalledBy(items)  == UNION {CallsFor(i) : i \in items}
RuleItems(calls) == UNION {{<<r, 0, c[2]>> : r \in RulesFor[c[1]]} : c \in calls}
RECURSIVE Close(_, _)
Close(called, new) ==
  IF new \subseteq called THEN called
  ELSE Close(called \cup new, CalledBy(RuleItems(new \ called)))
computeClosure(coreItems) == coreItems \cup RuleItems(Close({}, CalledBy(coreItems)))

(* A state of the automaton: its core items, which name it (the closure    *)
(* adds only items with the dot in front), all its items, and the core of  *)
(* the state computeNextState reaches along each edge.                     *)
computeNextCore(items, edge) ==
  {<<i[1], i[2] + 1, i[3]>> :
     i \in {j \in items : j[2] < Len(Right(j[1])) /\ Right(j[1])[j[2] + 1] = edge}}

State(core, items) ==
  LET edges == {Right(i[1])[i[2] + 1] : i \in {j \in items : j[2] < Len(Right(j[1]))}}
  IN [core |-> core, items |-> items,
      next |-> [edge \in edges |-> computeNextCore(items, edge)]]
lrState(core) == State(core, computeClosure(core))

----------------------------------------------------------------------------
(* computeLRTable. Two complete items for one lookahead end the process,   *)
(* and so does a shift against a reduction, unless it is the else of an if *)
(* statement: then the shift wins.                                         *)
Complete(state) == {i \in state.items : i[2] = Len(Right(i[1]))}
Reductions(state) ==
  [la \in {i[3] : i \in Complete(state)} |->
     LET r == CHOOSE n \in DOMAIN rules : <<n, Len(Right(n)), la>> \in state.items
     IN <<IF la = "END_OF_FILE" /\ rules[r].left = rules[1].left THEN "ACC" ELSE "REDUCE", r>>]

IfElse == <<"KW_IF", "LPR", "Exp", "RPR", "Stmt", "KW_ELSE", "Stmt">>
ShiftsElse(state, edge) == /\ edge = "KW_ELSE"
                           /\ \E i \in state.items : Right(i[1]) = IfElse /\ i[2] = 5

ReduceConflict(state) == \E i, j \in Complete(state) : i[3] = j[3] /\ rules[i[1]] # rules[j[1]]
ShiftConflict(state)  == \E edge \in DOMAIN state.next \cap DOMAIN Reductions(state) :
                           ~ ShiftsElse(state, edge)

\* Slip: the reduction wins.
RowReducing(state) ==
  Reductions(state) @@
  [edge \in DOMAIN state.next |->
     <<IF edge \in nonterminals THEN "GOTO" ELSE "SHIFT", state.next[edge]>>]

Row(state) ==
  [edge \in DOMAIN state.next |->
     <<IF edge \in nonterminals THEN "GOTO" ELSE "SHIFT", state.next[edge]>>]
  @@ Reductions(state)

(* The table, a row for each state under its core: the numbers that the    *)
(* queue of the code gives the states carry no meaning. All that the       *)
(* newest states call for are found at once.                               *)
Called(row) == {row[sym][2] : sym \in {s \in DOMAIN row : row[s][1] \in {"GOTO", "SHIFT"}}}
Rows(cores) == [core \in cores |-> Row(lrState(core))]
RECURSIVE Explore(_, _)
Explore(allState, newest) ==
  LET found  == newest @@ allState
      called == UNION {Called(newest[core]) : core \in DOMAIN newest}
  IN IF newest = <<>> THEN allState ELSE Explore(found, Rows(called \ DOMAIN found))
computeLRTable == Explore(<<>>, Rows({start}))

Conflicting(state) == ReduceConflict(state) \/ ShiftConflict(state)
conflict == \E core \in DOMAIN computeLRTable : Conflicting(lrState(core))

(* The table goes through a file: exportLRTableToCSV writes an entry as a  *)
(* letter and a number, an accepting one as "acc", and importLRTableFromCSV*)
(* reads them back, the rule of an accepting entry as 0.                   *)
Imported(row) == [sym \in DOMAIN row |-> IF row[sym][1] = "ACC" THEN <<"ACC", 0>> ELSE row[sym]]
importedTable == LET written == computeLRTable
                 IN [core \in DOMAIN written |-> Imported(written[core])]
=============================================================================

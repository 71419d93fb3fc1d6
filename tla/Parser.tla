------------------------------- MODULE Parser -------------------------------
(***************************************************************************)
(* Parse (parser/parser.cpp): the loop with its stacks of states, symbols  *)
(* and infos, one action per turn, for any table. A state is the set of    *)
(* its core items <<rule, pos, lookahead>>, as LRTable makes them. The     *)
(* input may come token by token, when Parse first looks at it: Parse      *)
(* reads its input in order, so this is the same as every input in advance.*)
(***************************************************************************)
EXTENDS TreeBuilder

CONSTANT Table      \* state -> symbol -> <<kind, state or rule>>

table == Table      \* a definition, so that TLC evaluates it once

VARIABLES input,      \* the tokens of the input, as far as known
          more,       \* whether the input may go on
          index,      \* the position in the input
          stateStack, symStack, infoStack,
          outcome     \* "parsing", or how it ended

Symbol == STRING     \* terminals and nonterminals, by their names

stacks == <<stateStack, symStack, infoStack>>
pvars  == <<input, more, index, stacks, outcome>>

Lefts == {rules[r].left : r \in DOMAIN rules}

(* Tokens never have the symbol of a nonterminal or of the end.            *)
Terminals == Symbol \ (Lefts \cup {"END_OF_FILE"})
AreTokens(s) ==
  /\ s \in Seq(Range(s))
  /\ \A t \in Range(s) : t.sym \in Terminals

(* What the generator sees to. A transition moves the dot of items that    *)
(* are in the core or begin a rule that is called for; a rule is reduced   *)
(* where an item of it is complete; a rule that is called for has a GOTO   *)
(* for its left side, but for the start rule, which nothing calls for.     *)
Calls(s, r) == /\ rules[r].left \in DOMAIN table[s]
               /\ table[s][rules[r].left][1] = "GOTO"
Moves(s, sym, to) ==
  /\ to \in DOMAIN table
  /\ \A it \in to :
       /\ it[1] \in DOMAIN rules /\ it[2] \in 1 .. Len(Right(it[1]))
       /\ Right(it[1])[it[2]] = sym
       /\ IF it[2] > 1 \/ it[1] = 1 THEN <<it[1], it[2] - 1, it[3]>> \in s ELSE Calls(s, it[1])
Reduces(s, sym, r) ==
  /\ r \in DOMAIN rules \ {1}
  /\ IF Right(r) = <<>> THEN Calls(s, r) ELSE <<r, Len(Right(r)), sym>> \in s
FollowsItems(s, sym, e) ==
  \/ e[1] = "SHIFT"  /\ Moves(s, sym, e[2]) /\ sym \in Terminals
  \/ e[1] = "GOTO"   /\ Moves(s, sym, e[2]) /\ sym \in Lefts
  \/ e[1] = "REDUCE" /\ Reduces(s, sym, e[2])
  \/ e[1] = "ACC"    /\ sym = "END_OF_FILE" /\ <<1, Len(Right(1)), sym>> \in s

ASSUME RulesAssumption ==
  /\ rules \in Seq(Range(rules)) /\ rules # <<>>
  /\ \A r \in DOMAIN rules :
       rules[r].left \in Symbol \ {"END_OF_FILE"} /\ Right(r) \in Seq(Symbol)
ASSUME TableFollowsItems ==
  /\ start \in DOMAIN table
  /\ \A s \in DOMAIN table : \A sym \in DOMAIN table[s] : FollowsItems(s, sym, table[s][sym])

----------------------------------------------------------------------------
Begin == /\ index = 1
         /\ stateStack = <<start>> /\ symStack = <<>> /\ infoStack = <<>>
PInit == AreTokens(input) /\ more \in BOOLEAN /\ Begin /\ outcome = "parsing"

Ended(how) == outcome' = how /\ UNCHANGED <<index, stacks>>
Quiet      == UNCHANGED <<input, more>>

Known  == index <= Len(input) \/ ~ more
curSym == IF index <= Len(input) THEN input[index].sym ELSE "END_OF_FILE"
EntryOf(s, sym) == IF sym \in DOMAIN table[s] THEN table[s][sym] ELSE <<"NONE", 0>>
entry  == EntryOf(Last(stateStack), curSym)

Supply(token) ==
  /\ outcome = "parsing" /\ ~ Known
  /\ input' = Append(input, token)
  /\ UNCHANGED <<more, index, stacks, outcome>>
SupplyEnd ==
  /\ outcome = "parsing" /\ ~ Known
  /\ more' = FALSE
  /\ UNCHANGED <<input, index, stacks, outcome>>

(* At the end of the input Parse takes the location of the last token: an  *)
(* empty input has none.                                                   *)
Ready == outcome = "parsing" /\ Known /\ input # <<>>

NoTokens ==
  /\ outcome = "parsing" /\ Known /\ input = <<>>
  /\ Ended("crashed") /\ Quiet

Shift ==
  /\ Ready /\ entry[1] = "SHIFT"
  /\ infoStack' = Append(infoStack, Leaf(input[index]))
  /\ stateStack' = Append(stateStack, entry[2])
  /\ symStack' = Append(symStack, curSym)
  /\ index' = index + 1
  /\ UNCHANGED outcome /\ Quiet

\* Slip: the states of the right side stay on the stack.
GotoUnpopped(states, to) ==
  IF to[1] = "NONE" THEN stateStack' = states /\ outcome' = "rejected"
  ELSE stateStack' = Append(stateStack, to[2]) /\ UNCHANGED outcome

(* The action of the rule runs before the parser looks for the entry of    *)
(* the rule's left side.                                                   *)
Goto(states, to) ==
  IF to[1] = "NONE" THEN stateStack' = states /\ outcome' = "rejected"
  ELSE stateStack' = Append(states, to[2]) /\ UNCHANGED outcome
ReduceBy(r) ==
  LET below    == Len(symStack) - Len(r.right)
      children == SubSeq(infoStack, below + 1, Len(infoStack))
      states   == SubSeq(stateStack, 1, below + 1)
  IN IF below < 0 THEN Ended("rejected")
     ELSE IF Fault(r, children) # "no" THEN Ended(Fault(r, children))
     ELSE /\ infoStack' = Append(SubSeq(infoStack, 1, below), Act(r, children))
          /\ symStack' = Append(SubSeq(symStack, 1, below), r.left)
          /\ Goto(states, EntryOf(Last(states), r.left))
          /\ UNCHANGED index
Reduce ==
  /\ Ready /\ entry[1] = "REDUCE"
  /\ ReduceBy(rules[entry[2]])
  /\ Quiet

\* Slip: accepts in the state that does so at the end, before any symbol.
AcceptAnywhere ==
  /\ Ready /\ \E sym \in DOMAIN table[Last(stateStack)] : table[Last(stateStack)][sym][1] = "ACC"
  /\ Ended("accepted") /\ Quiet

Accept ==
  /\ Ready /\ entry[1] = "ACC"
  /\ Ended(IF curSym = "END_OF_FILE" THEN "accepted" ELSE "rejected") /\ Quiet

Reject ==
  /\ Ready /\ entry[1] \in {"NONE", "GOTO"}
  /\ Ended("rejected") /\ Quiet

ParserTurn == NoTokens \/ Shift \/ Reduce \/ Accept \/ Reject
PNext == ParserTurn \/ SupplyEnd \/ \E token : AreTokens(<<token>>) /\ Supply(token)

PSpec == PInit /\ [][PNext]_pvars

----------------------------------------------------------------------------
(* Properties.                                                             *)

Answers == {"accepted", "rejected", "exited", "hangs", "crashed"}

(* Types: the three stacks stay in step.                                   *)
PTypeOK ==
  /\ outcome \in Answers \cup {"parsing"}
  /\ AreTokens(input) /\ more \in BOOLEAN /\ index \in 1 .. Len(input) + 1
  /\ stateStack \in Seq(DOMAIN table) /\ symStack \in Seq(Symbol)
  /\ infoStack \in Seq(Range(infoStack))
  /\ Len(stateStack) = Len(symStack) + 1 /\ Len(infoStack) = Len(symStack)

(* Parse rejects only for want of an entry for the symbol it reads. The    *)
(* other tests it makes never fail: it never meets a GOTO for a token or   *)
(* an end before the end, and a reduction finds the right side of its rule *)
(* on top of the stack and, under it, a state with a GOTO for the left     *)
(* side (what is popped is not compared with the rule).                    *)
OnlyWrongSymbolsAreRejected ==
  Ready =>
    /\ entry[1] # "GOTO"
    /\ entry[1] = "ACC" => curSym = "END_OF_FILE"
    /\ entry[1] = "REDUCE" =>
         LET r     == entry[2]
             below == Len(symStack) - Len(Right(r))
         IN /\ below >= 0
            /\ SubSeq(symStack, below + 1, Len(symStack)) = Right(r)
            /\ Calls(stateStack[below + 1], r)

(* Every turn undoes a rule in the symbols of the stack and the input in   *)
(* front of it or leaves them alone, and Parse accepts only when all of    *)
(* the input has become the right side of the start rule.                  *)
SymbolsOf(s) == [n \in 1 .. Len(s) |-> s[n].sym]
Form == symStack \o SymbolsOf(SubSeq(input, index, Len(input)))
D == INSTANCE Derivation WITH Terminal <- Terminals, Productions <- rules, Target <- Right(1),
       words <- SymbolsOf(input), form <- Form, open <- more, accepted <- outcome = "accepted"
TurnsUndoRules == D!Spec
=============================================================================

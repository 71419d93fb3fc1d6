------------------------------ MODULE Frontend ------------------------------
(***************************************************************************)
(* The driver of main.cpp behind the parser: the type checker visits the   *)
(* tree of a program, and if it recorded no error the code generator does. *)
(*                                                                         *)
(* A program is its tree in the order of the visit, one record per node;   *)
(* a node with statements inside is a pair of records that enclose them:   *)
(*   class/endclass, func/endfunc, block/endblock, while/endwhile,         *)
(*   if [else] endif                                                       *)
(* Each action is a visit method of both visitors, or its part before,     *)
(* between or after the nested statements.                                 *)
(***************************************************************************)
EXTENDS CodeGen

CONSTANTS Programs,     \* the programs, sequences of nodes
          Objects       \* numbers of the shared pointer types they declare

VARIABLES program, phase, pc, tc, cg
vars == <<program, phase, pc, tc, cg>>

----------------------------------------------------------------------------
(* The tree of the program.                                                *)

Openers == {"class", "func", "block", "if", "while"}
Closers == {"endclass", "endfunc", "endblock", "endif", "endwhile"}

Here == program[pc]

\* the construct opened at i is closed at Close(i)
Level(a, b) == Cardinality({j \in a .. b : program[j].k \in Openers})
               - Cardinality({j \in a .. b : program[j].k \in Closers})
Close(i) == CHOOSE j \in i .. Len(program) :
              Level(i, j) = 0 /\ \A m \in i .. j - 1 : Level(i, m) > 0

\* the constructs of a kind around i, and the innermost of them (0: none)
Around(i, kinds) == {j \in 1 .. i - 1 : /\ program[j].k \in Openers
                                        /\ program[j].k \in kinds
                                        /\ Close(j) > i}
Innermost(i, kinds) == IF Around(i, kinds) = {} THEN 0
                       ELSE CHOOSE j \in Around(i, kinds) : \A m \in Around(i, kinds) : m <= j

ChildrenOf(i) == {j \in i + 1 .. Close(i) - 1 : Innermost(j, Openers) = i}

ReturnsAtTop(f) == \E j \in ChildrenOf(f) : program[j].k = "ret" /\ program[j].e # <<>>

Members(c) == LET js == {j \in ChildrenOf(c) : program[j].k \in {"func", "var"}}
              IN [m \in 1 .. Cardinality(js) |->
                    LET j == SetToSortSeq(js, <)[m] IN [at |-> j, node |-> program[j]]]

----------------------------------------------------------------------------
Init == /\ program \in Programs
        /\ phase = "check"
        /\ pc = 1
        /\ tc = NewChecker(Objects)
        /\ cg = NewGenerator

(* A visit of node k by the checker and by the generator.                  *)
At(ph, k) == /\ phase = ph
             /\ pc <= Len(program)
             /\ Here.k = k
             /\ tc.stopped = "no" /\ cg.stopped = "no"

Checks(k, next) == /\ At("check", k)
                   /\ tc' = next
                   /\ pc' = pc + 1
                   /\ UNCHANGED <<program, phase, cg>>
Generates(k, next) == /\ At("generate", k)
                      /\ cg' = next
                      /\ pc' = pc + 1
                      /\ UNCHANGED <<program, phase, tc>>

InClass == tc.currentClassDef # "" /\ Around(pc, {"class"}) # {}

CheckClass == /\ At("check", "class")
              /\ tc' = BeginClass(pc, Here, Members(pc), tc)
              /\ pc' = IF Redefined(Here, tc) THEN Close(pc) + 1 ELSE pc + 1
              /\ UNCHANGED <<program, phase, cg>>
CheckEndClass == Checks("endclass", EndClass(tc))
\* methods and fields were declared when the class was entered
CheckFunc == Checks("func", EnterBody(pc, IF InClass THEN tc ELSE DeclareFunction(pc, Here, tc)))
CheckEndFunc == Checks("endfunc", LET f == tc.currentFuncDef
                                  IN LeaveBody(f, program[f], ReturnsAtTop(f), tc))
CheckVar == Checks("var", InitVar(pc, Here,
                            IF InClass /\ tc.currentFuncDef = 0 THEN tc
                            ELSE DeclareVar(pc, Here, tc)))
CheckBlock    == Checks("block", BeginBlock(tc))
CheckEndBlock == Checks("endblock", EndBlock(tc))
CheckIf       == Checks("if", BeginIf(pc, Here, tc))
CheckElse     == Checks("else", tc)
CheckEndIf    == Checks("endif", EndIf(tc))
CheckWhile    == Checks("while", BeginWhile(pc, Here, tc))
CheckEndWhile == Checks("endwhile", EndWhile(tc))
CheckEmpty    == Checks("empty", EmptyBranch(tc))
CheckBreak    == Checks("break", Break(tc))
CheckContinue == Checks("continue", Continue(tc))
CheckReturn   == Checks("ret", Return(pc, Here, program[tc.currentFuncDef].ctor, tc))
CheckExpr     == Checks("expr", Expression(pc, Here, tc))

Annotated == IF pc \in DOMAIN tc.ast THEN tc.ast[pc] ELSE Lit

GenerateClass == /\ At("generate", "class")
                 /\ cg' = GenClass(tc.classes[Here.name].fields, cg)
                 /\ pc' = Close(pc) + 1
                 /\ UNCHANGED <<program, phase, tc>>
GenerateFunc == Generates("func", GenFunction(pc, Here, tc.sig[pc], tc.heap, cg))
GenerateEndFunc == Generates("endfunc", GenEndFunction(cg))
GenerateVar == Generates("var", GenVar(pc, Here, tc.types[pc], Annotated, tc.heap, cg))
GenerateBlock    == Generates("block", PushEnv(cg))
GenerateEndBlock == Generates("endblock", PopEnv(cg))
HasElse == \E j \in pc .. Close(pc) : program[j].k = "else" /\ Innermost(j, Openers) = pc
GenerateIf    == Generates("if", GenIf(pc, Annotated, HasElse, tc.heap, cg))
GenerateElse  == Generates("else", GenElse(pc, cg))
GenerateEndIf == Generates("endif", GenEndIf(pc, cg))
GenerateWhile == Generates("while", GenWhile(pc, Annotated, tc.heap, cg))
GenerateEndWhile == Generates("endwhile", GenEndWhile(pc, cg))
GenerateBreak    == Generates("break", GenBreak(pc, cg))
GenerateContinue == Generates("continue", GenContinue(pc, cg))
GenerateReturn == Generates("ret", GenReturn(pc, Here, Annotated, tc.sig[cg.fn].ret, tc.heap, cg))
GenerateExpr   == Generates("expr", GenExpression(pc, Annotated, tc.heap, cg))

(* The driver: hasTypeError stops it, otherwise the generator starts; the  *)
(* end of the generator is verifyModule. A visitor that stopped the        *)
(* process ends the run.                                                   *)
EndCheck == /\ phase = "check" /\ pc > Len(program) /\ tc.stopped = "no"
            /\ phase' = IF tc.errors THEN "rejected" ELSE "generate"
            /\ pc' = 1
            /\ UNCHANGED <<program, tc, cg>>
EndGenerate == /\ phase = "generate" /\ pc > Len(program) /\ cg.stopped = "no"
               /\ phase' = IF Verified(cg) THEN "saved" ELSE "invalid"
               /\ UNCHANGED <<program, pc, tc, cg>>
Stops == /\ phase \in {"check", "generate"}
         /\ "no" \notin {IF phase = "check" THEN tc.stopped ELSE cg.stopped}
         /\ phase' = IF phase = "check" THEN "checkerStopped" ELSE "generatorStopped"
         /\ UNCHANGED <<program, pc, tc, cg>>

Next ==
  \/ CheckClass \/ CheckEndClass \/ CheckFunc \/ CheckEndFunc \/ CheckVar
  \/ CheckBlock \/ CheckEndBlock \/ CheckIf \/ CheckElse \/ CheckEndIf
  \/ CheckWhile \/ CheckEndWhile \/ CheckEmpty \/ CheckBreak \/ CheckContinue
  \/ CheckReturn \/ CheckExpr
  \/ GenerateClass \/ GenerateFunc \/ GenerateEndFunc \/ GenerateVar
  \/ GenerateBlock \/ GenerateEndBlock \/ GenerateIf \/ GenerateElse \/ GenerateEndIf
  \/ GenerateWhile \/ GenerateEndWhile \/ GenerateBreak \/ GenerateContinue
  \/ GenerateReturn \/ GenerateExpr
  \/ EndCheck \/ EndGenerate \/ Stops

Spec == Init /\ [][Next]_vars

----------------------------------------------------------------------------
Finished == phase \notin {"check", "generate"}
Accepted == phase \in {"generate", "saved", "invalid", "generatorStopped"}

(* The variables hold what their members hold: positions in the program,   *)
(* blocks the generator made, functions of the program.                    *)
FETypeOK ==
  /\ phase \in {"check", "generate", "rejected", "saved", "invalid",
                "checkerStopped", "generatorStopped"}
  /\ pc \in 1 .. Len(program) + 1
  /\ tc.loopDepth \in Nat /\ tc.errors \in BOOLEAN
  /\ tc.currentFuncDef = 0 \/ program[tc.currentFuncDef].k = "func"
  /\ {cg.ip, cg.loopStart, cg.loopEnd} \subseteq 0 .. Len(cg.blocks)
  /\ cg.fn = 0 \/ program[cg.fn].k = "func"

----------------------------------------------------------------------------
(* Properties.                                                             *)

SD == INSTANCE ScopeDiscipline WITH table <- tc.table

(* The checker uses the scope table as nested scopes: what a visit opens   *)
(* it closes, the global scope stays, and a name bound in an open scope    *)
(* keeps its symbol (SymbolTable::beginScope, insert, endScope and their   *)
(* callers in analyzeFunctionBody, block_stmt, class_def).                 *)
ScopesAreDisciplined == SD!Spec

(* At the end of the program both visitors are back where they started:    *)
(* only the global scope and environment, no loop, no function body.       *)
VisitsAreBalanced ==
  pc > Len(program) =>
    /\ Len(tc.table.scopes) = 1 /\ tc.loopDepth = 0 /\ tc.currentFuncDef = 0
    /\ Len(cg.env) = 1 /\ cg.frames = <<>> /\ cg.loopStart = 0 /\ cg.loopEnd = 0

(* The scope table of the checker and the environments of the generator    *)
(* resolve a name to the same declaration, except in the initialiser of a  *)
(* variable of that name: the checker inserts it before the initialiser,   *)
(* the generator after.                                                    *)
VisitorsResolveAlike ==
  \A u \in cg.uses :
     \/ u \in tc.uses
     \/ program[u[1]].k = "var" /\ program[u[1]].name = u[2]

(* A break leaves, and a continue repeats, the innermost while statement   *)
(* around it (curLoopStart and curLoopEnd are saved and restored around    *)
(* nested loops).                                                          *)
JumpsBelongToTheInnermostLoop ==
  \A b \in DOMAIN cg.blocks : \A t \in DOMAIN cg.blocks[b].terms :
     LET by == cg.blocks[b].terms[t].by
     IN program[by].k \in {"break", "continue"} =>
          \A o \in cg.blocks[b].terms[t].to :
             /\ cg.blocks[o].of = Innermost(by, {"while"})
             /\ cg.blocks[o].name = IF program[by].k = "break" THEN "loop_end"
                                    ELSE "loop_start"

(* The subexpressions of an annotated expression.                          *)
RECURSIVE Parts(_)
Parts(x) == {x} \cup
  CASE x.k = "bin" \/ x.k = "sub" -> Parts(x.l) \cup Parts(x.r)
    [] x.k \in {"un", "cast"}     -> Parts(x.e)
    [] x.k = "call"               -> UNION {Parts(x.args[j]) : j \in DOMAIN x.args}
    [] x.k = "member"             -> Parts(x.e)
    [] OTHER                      -> {}

PartsAt(i) == IF i \notin DOMAIN tc.ast THEN {}
              ELSE IF program[i].k = "var" /\ tc.types[i].k = "array"
              THEN UNION {Parts(tc.ast[i][j]) : j \in DOMAIN tc.ast[i]}
              ELSE Parts(tc.ast[i])

Comparisons == {"<", ">", "==", "!=", "<=", ">="}

(* The LLVM type of a value is the translation of the type the checker     *)
(* inferred, in every expression the generator visits, with three causes   *)
(* of exceptions: a comparison, which is int for the checker and one bit   *)
(* for the generator; an array of pointers that was used as an operand     *)
(* (its type object has changed: some depth is no longer 1); and a name in *)
(* its own initialiser.                                                    *)
ValuesHaveTheirTypes ==
  \A i \in cg.untrue :
     \/ program[i].k = "var" /\ \E x \in PartsAt(i) : x.k = "id" /\ x.name = program[i].name
     \/ \E x \in PartsAt(i) : x.k = "bin" /\ x.op \in Comparisons
     \/ \E o \in Objects : tc.heap[o] # 1

(* The language the generator has code for. Expressions:                   *)
Covered(x) ==
  CASE x.k = "bin" -> \/ x.op \in {"+", "-", "*", "/"} /\ x.l.ty = IntT /\ x.r.ty = IntT
                      \/ x.op \in {"+", "-"} /\ x.l.ty.k = "pointer" /\ x.r.ty = IntT
    [] x.k = "sub"    -> x.l.ty.k \in {"array", "pointer"}
    [] x.k = "cast"   -> x.e.ty.elem.k # "pointer"
    [] x.k = "id"     -> x.ty.k # "classvar"
    [] x.k = "member" -> FALSE
    [] OTHER          -> TRUE
\* statements and declarations
JumpIsLast(i) == \E j \in i + 1 .. Len(program) :
                    /\ program[j].k \in {"endif", "else", "endwhile", "endfunc"}
                    /\ \A m \in i + 1 .. j - 1 : program[m].k = "endblock"
CoveredVar(i) == /\ Innermost(i, {"func"}) # 0
                 /\ Translatable(tc.types[i]) /\ tc.types[i] # VoidT
                 /\ tc.types[i].k = "array" => tc.types[i].elem = IntT
                 /\ \A x \in PartsAt(i) : x.k = "id" => x.name # program[i].name
CoveredFunc(i) == /\ program[i].ret \notin {VoidT, NullT}
                  /\ Translatable(program[i].ret)
                  /\ \A j \in DOMAIN program[i].args : Translatable(program[i].args[j].ty)
                  /\ program[Close(i) - 1].k = "ret" /\ Innermost(Close(i) - 1, Openers) = i
CoveredNode(i) ==
  /\ \A x \in PartsAt(i) : Covered(x)
  /\ program[i].k \in {"break", "continue", "ret"} => JumpIsLast(i)
  /\ program[i].k \in {"break", "continue"} => Innermost(i, {"while"}) # 0
  /\ program[i].k = "var"  => CoveredVar(i)
  /\ program[i].k = "func" => CoveredFunc(i)
  /\ program[i].k # "class"

(* A program of that language which the checker accepts is generated: no   *)
(* exit, no null or uninitialised value, and a module that verification    *)
(* accepts (one terminator per block at its end, operands of the right     *)
(* types, no use of another function's variables).                         *)
CoveredProgramsAreSaved ==
  Finished /\ Accepted /\ (\A i \in DOMAIN program : CoveredNode(i)) => phase = "saved"

(* A method is called through an object with one argument more than it     *)
(* declares: its function type, shared with the class, got "this" when its *)
(* body was visited. (Calls inside the class may come before that.)        *)
MethodCallsPassThis ==
  Accepted => \A i \in DOMAIN tc.ast : \A x \in PartsAt(i) :
    x.k = "member" /\ x.isFunc /\ Around(i, {"class"}) = {} =>
      LET class  == IF x.arrow THEN x.e.ty.elem.name ELSE x.e.ty.name
          method == program[tc.classes[class].methods[x.name]]
      IN Len(x.args) = Len(method.args) + 1
=============================================================================

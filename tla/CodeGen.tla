------------------------------ MODULE CodeGen ------------------------------
(***************************************************************************)
(* codeGen/codeGen.cpp: the visitor that emits LLVM IR for the tree the    *)
(* checker annotated, as operators on the generator object cg:             *)
(*   env      the chain of environments, the global one first; an entry is *)
(*            [decl, fn, lt]: the declaration, the function whose entry    *)
(*            block holds its alloca (0: it is a function), its LLVM type  *)
(*   fn, ip, loopStart, loopEnd   currentFn, the insertion point of        *)
(*            builder and the loop targets, 0 for null                     *)
(*   frames   the locals of the visits of if and while under way           *)
(* The LLVM library is external. A block is [name, of, fn, terms, ends,    *)
(* broken]: its name and the node that made it, the function it is in      *)
(* (0: in none), its terminators in order, whether the last instruction is *)
(* one, and whether an instruction follows one. ill: an instruction was    *)
(* built from operands of types it does not take, which LLVM asserts or    *)
(* module verification reports.                                            *)
(***************************************************************************)
EXTENDS TypeChecker

NoValue == [k |-> "novalue"]

NewGenerator == [env |-> <<None>>, fn |-> 0, ip |-> 0, loopStart |-> 0, loopEnd |-> 0,
                 frames |-> <<>>, blocks |-> <<>>, ill |-> FALSE, uses |-> {},
                 untrue |-> {}, stopped |-> "no"]

Halt(how, cg)  == IF cg.stopped = "no" THEN [cg EXCEPT !.stopped = how] ELSE cg
IllIf(c, cg)   == IF c THEN [cg EXCEPT !.ill = TRUE] ELSE cg

(* LLVM: BasicBlock::Create, and instructions appended at the end of ip.   *)
NewBlock(name, of, fn) == [name |-> name, of |-> of, fn |-> fn, terms |-> <<>>,
                           ends |-> FALSE, broken |-> FALSE]
CreateBlock(name, of, fn, cg) == [cg EXCEPT !.blocks = Append(@, NewBlock(name, of, fn))]

Emit(cg) == [cg EXCEPT !.blocks[cg.ip].broken = @ \/ cg.blocks[cg.ip].terms # <<>>,
                       !.blocks[cg.ip].ends = FALSE]
Terminate(i, to, cg) ==
  [Emit(cg) EXCEPT !.blocks[cg.ip].terms = Append(@, [by |-> i, to |-> to]),
                   !.blocks[cg.ip].ends = TRUE]
SetInsertPoint(b, cg) == [cg EXCEPT !.ip = b]

\* terminateBlockWithBr
TerminateWithBr(i, b, cg) == IF cg.blocks[cg.ip].ends THEN cg ELSE Terminate(i, {b}, cg)

(* environment: insert overwrites, lookup follows the parents.             *)
InsertEnv(name, e, cg) == [cg EXCEPT !.env[Len(cg.env)] = ST!Bind(@, name, e)]
Bound(name, cg)  == \E d \in DOMAIN cg.env : name \in DOMAIN cg.env[d]
\* Slip: the outermost scope answers first.
LookUpOutermost(name, cg) ==
  LET d == CHOOSE d \in DOMAIN cg.env : /\ name \in DOMAIN cg.env[d]
                                        /\ \A o \in DOMAIN cg.env : o < d => name \notin DOMAIN cg.env[o]
  IN cg.env[d][name]
LookUp(name, cg) == LET d == CHOOSE d \in DOMAIN cg.env :
                               /\ name \in DOMAIN cg.env[d]
                               /\ \A o \in DOMAIN cg.env : o > d => name \notin DOMAIN cg.env[o]
                    IN cg.env[d][name]
PushEnv(cg) == [cg EXCEPT !.env = Append(@, None)]
PopEnv(cg)  == [cg EXCEPT !.env = Front(@)]

----------------------------------------------------------------------------
(* Expressions. A visit returns the LLVM type lt of the value (NoValue for *)
(* an empty codeGenInfo), whether it is a constant (the builder folds what *)
(* it can: no instruction) and cg. h is the heap the checker left.         *)

Value(lt, cg)     == [lt |-> lt, const |-> FALSE, cg |-> Emit(cg)]
Plain(lt, cg)     == [lt |-> lt, const |-> FALSE, cg |-> cg]
Folded(c, lt, cg) == [lt |-> lt, const |-> c, cg |-> IF c THEN cg ELSE Emit(cg)]
Halted(how, cg)   == [lt |-> NoValue, const |-> FALSE, cg |-> Halt(how, cg)]

GenIdentifier(i, x, h, cg) ==
  LET e  == LookUp(x.name, cg)
      c1 == [cg EXCEPT !.uses = @ \cup {<<i, x.name, e.decl>>},
                       !.ill = @ \/ (e.fn # 0 /\ e.fn # cg.fn)]
  IN CASE x.ty.k = "classvar" -> Halted("undefined", cg)
       [] x.ty.k # "classvar" /\ ~Bound(x.name, cg) -> Halted("exited", cg)
       [] x.ty.k = "array" /\ Bound(x.name, cg) -> Plain(PtrTo(e.lt), c1)
       [] OTHER -> IF e.fn = 0 THEN Halted("crashed", c1) ELSE Value(e.lt, c1)

(* The result of analyzeAdd, Mul, Compare, Eq, Gt for the inferred types   *)
(* of the operands. A case none covers returns an uninitialised pointer.   *)
Arithmetic(op, l, r) == l = "int" /\ (op \in {"+", "-"} \/ (op \in {"*", "/"} /\ r = "int"))
PointerStep(op, l, r) == op \in {"+", "-"} /\ l = "pointer" /\ r = "int"
Comparison(op, l, r) == /\ op \in {"<", ">", "==", "!=", "<=", ">="}
                        /\ l = r /\ l \in {"int", "pointer"}

RECURSIVE Gen(_, _, _, _), GenAll(_, _, _, _)

GenBinary(i, x, h, cg) ==
  LET a  == Gen(i, x.l, h, cg)
      b  == Gen(i, x.r, h, a.cg)
      lk == x.l.ty.k
      rk == x.r.ty.k
      const == a.const /\ b.const
      word  == IllIf(a.lt # IntT \/ b.lt # IntT, b.cg)
  IN CASE x.op \in {"&", "|", "&&", "||", "%"} -> Halted("undefined", cg)
       [] x.op \notin {"&", "|", "&&", "||", "%"} /\ NoValue \in {a.lt, b.lt} ->
            Halted("crashed", b.cg)
       [] OTHER ->
            CASE Arithmetic(x.op, lk, rk) -> Folded(const, a.lt, word)
              [] PointerStep(x.op, lk, rk) ->
                   Value(a.lt, IllIf(a.lt # ToLLVM(h, x.l.ty) \/ b.lt # IntT, b.cg))
              [] Comparison(x.op, lk, rk) -> Folded(const, Bit, IllIf(a.lt # b.lt, b.cg))
              [] OTHER -> Halted("undefined", b.cg)

GenDeref(x, a, h) ==
  IF x.e.ty.elem.k = "array" THEN a
  ELSE IF ~Translatable(x.ty) THEN Halted("exited", a.cg)
  ELSE Value(ToLLVM(h, x.ty), IllIf(a.lt # PtrTo(ToLLVM(h, x.ty)), a.cg))

GenUnary(i, x, h, cg) ==
  LET a == Gen(i, x.e, h, cg)
  IN CASE a.lt = NoValue -> Halted("crashed", a.cg)
       [] a.lt # NoValue /\ x.op = "*" -> GenDeref(x, a, h)
       [] a.lt # NoValue /\ x.op = "+" -> a
       [] OTHER -> Folded(a.const, IntT, IllIf(a.lt # IntT, a.cg))

(* The base is indexed by its inferred type; a base that is no array and   *)
(* no pointer leaves the null address for the load.                        *)
GenSubscript(i, x, h, cg) ==
  LET base == x.l.ty
      a    == Gen(i, x.l, h, cg)
      b    == Gen(i, x.r, h, a.cg)
      elt  == IF base.k = "array" THEN ToLLVM(h, Element(base)) ELSE ToLLVM(h, Pointee(h, base))
      ok   == a.lt = ValueType(h, base) /\ b.lt = IntT
  IN CASE ~Translatable(base) -> Halted("exited", cg)
       [] Translatable(base) /\ base.k \notin {"array", "pointer"} -> Halted("crashed", b.cg)
       [] Translatable(base) /\ base.k \in {"array", "pointer"} /\ NoValue \in {a.lt, b.lt} ->
            Halted("crashed", b.cg)
       [] OTHER -> Value(IF x.ty.k = "array" THEN PtrTo(elt) ELSE elt, IllIf(~ok, b.cg))

GenAll(i, xs, h, cg) ==
  FoldLeft(LAMBDA acc, x : LET r == Gen(i, x, h, acc.cg)
                           IN [lts |-> Append(acc.lts, r.lt), cg |-> r.cg],
           [lts |-> <<>>, cg |-> cg], xs)

\* only functions of the global environment can be called
GenCall(i, x, h, cg) ==
  LET as == GenAll(i, x.args, h, cg)
      f  == cg.env[1][x.name]
      c1 == [as.cg EXCEPT !.uses = @ \cup {<<i, x.name, f.decl>>}]
  IN IF x.name \notin DOMAIN cg.env[1] THEN Halted("exited", as.cg)
     ELSE IF f.fn # 0 THEN Halted("exited", as.cg)
     ELSE Value(f.lt.ret, IllIf(as.lts # f.lt.args, c1))

\* the only cast the checker inserts: an array to the pointer it degrades to
GenCast(i, x, h, cg) ==
  LET a == Gen(i, x.e, h, cg)
  IN IF a.lt = NoValue THEN Halted("crashed", a.cg)
     ELSE Value(PtrTo(ToLLVM(h, Element(x.e.ty))), IllIf(a.lt # ValueType(h, x.e.ty), a.cg))

(* untrue collects the nodes with a value whose LLVM type is not that of   *)
(* the inferred type.                                                      *)
Gen(i, x, h, cg) ==
  LET r == CASE x.k = "lit"    -> [lt |-> IntT, const |-> TRUE, cg |-> cg]
             [] x.k = "id"     -> GenIdentifier(i, x, h, cg)
             [] x.k = "bin"    -> GenBinary(i, x, h, cg)
             [] x.k = "un"     -> GenUnary(i, x, h, cg)
             [] x.k = "sub"    -> GenSubscript(i, x, h, cg)
             [] x.k = "call"   -> GenCall(i, x, h, cg)
             [] x.k = "cast"   -> GenCast(i, x, h, cg)
             [] x.k = "member" -> Plain(NoValue, cg)
  IN IF r.lt = NoValue \/ r.lt = ValueType(h, x.ty) THEN r
     ELSE [r EXCEPT !.cg.untrue = @ \cup {i}]

----------------------------------------------------------------------------
(* Statements.                                                             *)

GenExpression(i, x, h, cg) == Gen(i, x, h, cg).cg

(* CreateICmpNE(cond, 0) and CreateCondBr, for a condition of type int.    *)
Branch(i, a, yes, no, cg) ==
  IF a.lt = NoValue THEN Halt("crashed", cg)
  ELSE Terminate(i, {yes, no}, IllIf(a.lt # IntT, IF a.const THEN cg ELSE Emit(cg)))

\* MeetBB is in no function until the else branch is done
GenIf(i, x, hasElse, h, cg) ==
  LET a  == Gen(i, x, h, cg)
      c1 == CreateBlock("else", i, cg.fn, CreateBlock("then", i, cg.fn, a.cg))
      c2 == IF hasElse THEN CreateBlock("meet", i, 0, c1) ELSE c1
      n  == Len(cg.blocks)
      frame == [then |-> n + 1, else |-> n + 2, meet |-> IF hasElse THEN n + 3 ELSE n + 2]
      c3 == Branch(i, a, n + 1, n + 2, c2)
  IN [SetInsertPoint(n + 1, c3) EXCEPT !.frames = Append(@, frame)]

\* Slip: the then branch gets no branch behind the else branch.
GenElseOpen(i, cg) == SetInsertPoint(Last(cg.frames).else, cg)
GenElse(i, cg) ==
  LET f == Last(cg.frames) IN SetInsertPoint(f.else, TerminateWithBr(i, f.meet, cg))

GenEndIf(i, cg) ==
  LET f  == Last(cg.frames)
      c1 == TerminateWithBr(i, f.meet, cg)
      c2 == IF f.meet # f.else THEN [c1 EXCEPT !.blocks[f.meet].fn = cg.fn] ELSE c1
  IN [SetInsertPoint(f.meet, c2) EXCEPT !.frames = Front(@)]

GenWhile(i, x, h, cg) ==
  LET n  == Len(cg.blocks)
      c1 == CreateBlock("loop_start", i, cg.fn, cg)
      c2 == SetInsertPoint(n + 1, TerminateWithBr(i, n + 1, c1))
      a  == Gen(i, x, h, c2)
      c3 == CreateBlock("loop_end", i, cg.fn, CreateBlock("loop_body", i, cg.fn, a.cg))
      c4 == Branch(i, a, n + 2, n + 3, c3)
  IN [SetInsertPoint(n + 2, c4) EXCEPT
        !.frames = Append(@, [oldStart |-> cg.loopStart, oldEnd |-> cg.loopEnd]),
        !.loopStart = n + 1, !.loopEnd = n + 3]

\* Slip: the enclosing loop is not put back.
GenEndWhileForgetting(i, cg) ==
  [SetInsertPoint(cg.loopEnd, TerminateWithBr(i, cg.loopStart, cg)) EXCEPT !.frames = Front(@)]

GenEndWhile(i, cg) ==
  LET f == Last(cg.frames)
  IN [SetInsertPoint(cg.loopEnd, TerminateWithBr(i, cg.loopStart, cg)) EXCEPT
        !.frames = Front(@), !.loopStart = f.oldStart, !.loopEnd = f.oldEnd]

GenBreak(i, cg)    == IF cg.loopEnd = 0 THEN Halt("exited", cg)
                      ELSE Terminate(i, {cg.loopEnd}, cg)
GenContinue(i, cg) == IF cg.loopStart = 0 THEN Halt("exited", cg)
                      ELSE Terminate(i, {cg.loopStart}, cg)

\* `return;` has a null value, which is dispatched on
GenReturn(i, n, x, ret, h, cg) ==
  LET a == Gen(i, x, h, cg)
  IN IF n.e = <<>> \/ a.lt = NoValue THEN Halt("crashed", cg)
     ELSE Terminate(i, {}, IllIf(a.lt # ToLLVM(h, ret), a.cg))

----------------------------------------------------------------------------
(* Declarations.                                                           *)

(* The function is registered before its body; every parameter gets an     *)
(* alloca.                                                                 *)
GenFunction(i, n, sig, h, cg) ==
  LET lts  == [j \in DOMAIN sig.args |-> ToLLVM(h, sig.args[j])]
      c1   == InsertEnv(n.name, [decl |-> i, fn |-> 0,
                                 lt |-> [ret |-> ToLLVM(h, sig.ret), args |-> lts]], cg)
      c2   == CreateBlock("entry", i, i, [c1 EXCEPT !.fn = i])
      c3   == PushEnv(SetInsertPoint(Len(c2.blocks), c2))
  IN IF ~(Translatable(sig.ret) /\ \A j \in DOMAIN sig.args : Translatable(sig.args[j]))
     THEN Halt("exited", cg)
     ELSE FoldLeft(LAMBDA acc, j : InsertEnv(sig.bindings[j],
                                     [decl |-> i, fn |-> i, lt |-> lts[j]], acc),
                   c3, [j \in DOMAIN lts |-> j])

\* no terminator is added, and currentFn stays set
GenEndFunction(cg) == PopEnv(cg)

(* The alloca goes to the entry block of currentFn; the initialiser is     *)
(* visited before the name is inserted.                                    *)
Store(lt, r) == IF r.lt = NoValue THEN Halt("crashed", r.cg)
                ELSE Emit(IllIf(r.lt # lt, r.cg))

GenVar(i, n, t, x, h, cg) ==
  LET c1 == IllIf(t = VoidT, cg)
      c2 == CASE n.init = <<>> -> c1
              [] n.init # <<>> /\ t.k = "array" ->
                   FoldLeft(LAMBDA acc, e : Store(ToLLVM(h, t.elem), Gen(i, e, h, acc)), c1, x)
              [] OTHER -> Store(ToLLVM(h, t), Gen(i, x, h, c1))
  IN CASE ~Translatable(t) -> Halt("exited", cg)
       [] Translatable(t) /\ cg.fn = 0 -> Halt("crashed", cg)
       [] OTHER -> InsertEnv(n.name, [decl |-> i, fn |-> cg.fn, lt |-> ToLLVM(h, t)], c2)

\* a struct of the fields; the methods are not generated
GenClass(fields, cg) ==
  IF \A f \in DOMAIN fields : Translatable(fields[f]) THEN cg ELSE Halt("exited", cg)

(* verifyModule: one terminator per block, at its end; branches stay in    *)
(* the function.                                                           *)
WellFormed(blocks) ==
  \A b \in {blocks[j] : j \in DOMAIN blocks} :
     /\ b.fn # 0 /\ b.ends /\ ~b.broken
     /\ \A j \in DOMAIN b.terms : \A o \in b.terms[j].to : blocks[o].fn = b.fn
Verified(cg) == ~cg.ill /\ WellFormed(cg.blocks)
=============================================================================

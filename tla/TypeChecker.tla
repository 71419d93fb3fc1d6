---------------------------- MODULE TypeChecker ----------------------------
(***************************************************************************)
(* type/Typechecker.cpp: the visitor that annotates the tree with types,   *)
(* as operators on the checker object tc, a record of its members:         *)
(*   table            the scope table; a symbol is [kind, type, decl]      *)
(*   loopDepth, currentFuncDef (a node or 0), currentClassDef (name or "") *)
(*   errors           whether some TypeError was recorded                  *)
(* and of what it changes in the tree and in shared type objects:          *)
(*   sig      function node -> [ret, args, bindings] (its FuncType object) *)
(*   classes  class name -> [methods, fields]                              *)
(*   types    declaration -> its evaluated type                            *)
(*   ast      node -> the annotated expression or initialiser it holds     *)
(*   heap     depths of shared pointer types                               *)
(* uses collects <<node, name, declaration>> for every name resolved, and  *)
(* stopped is how the process ended, "no" while it runs.                   *)
(*                                                                         *)
(* A node is its position in the program. Expressions are records with     *)
(* their inferred type in "ty", Null before the visit.                     *)
(***************************************************************************)
EXTENDS SourceTypes, SequencesExt

CONSTANTS Name
ST == INSTANCE ScopeTable WITH Sym <- [k : STRING]

Lit           == [k |-> "lit", ty |-> NullT]
Id(n)         == [k |-> "id", name |-> n, ty |-> NullT]
Bin(o, l, r)  == [k |-> "bin", op |-> o, l |-> l, r |-> r, ty |-> NullT]
Un(o, e)      == [k |-> "un", op |-> o, e |-> e, ty |-> NullT]
Sub(l, r)     == [k |-> "sub", l |-> l, r |-> r, ty |-> NullT]
Call(f, as)   == [k |-> "call", name |-> f, args |-> as, ty |-> NullT]
Cast(e, t)    == [k |-> "cast", e |-> e, ty |-> t]
\* e.name, e->name (arrow) and the calls of a method through them
Member(e, n, arrow, isFunc, as) == [k |-> "member", e |-> e, name |-> n, arrow |-> arrow,
                                    isFunc |-> isFunc, args |-> as, ty |-> NullT]

None == [n \in {} |-> 0]
NewChecker(objects) ==
  [table |-> ST!NewTable, loopDepth |-> 0, currentFuncDef |-> 0, currentClassDef |-> "",
   errors |-> FALSE, sig |-> None, classes |-> None, types |-> None, ast |-> None,
   heap |-> [o \in objects |-> 1], uses |-> {}, stopped |-> "no"]

TypeError(tc)      == [tc EXCEPT !.errors = TRUE]
ErrorIf(c, tc)     == IF c THEN TypeError(tc) ELSE tc
Stop(how, tc)      == IF tc.stopped = "no" THEN [tc EXCEPT !.stopped = how] ELSE tc
Annotate(i, x, tc) == [tc EXCEPT !.ast = ST!Bind(@, i, x)]
Resolve(i, n, tc)  == [tc EXCEPT !.uses = @ \cup {<<i, n, ST!GetValue(tc.table, n).decl>>}]

(* What a visit returns: the type, the node as the visit leaves it, tc.    *)
Typed(x, t, tc)  == [t |-> t, x |-> [x EXCEPT !.ty = t], tc |-> tc]
Untyped(x, tc)   == Typed(x, ErrorT, TypeError(tc))
Stopped(how, x, tc) == Typed(x, NullT, Stop(how, tc))

----------------------------------------------------------------------------
(* Expressions.                                                            *)

(* The type an operator gives to operands of decayed types, Null if no     *)
(* analyze... method of the checker assigns one.                           *)
ResultType(h, op, l, r) ==
  LET ints == l.k = "int" /\ r.k = "int"
      ptrs == l.k = "pointer" /\ r.k = "pointer"
  IN CASE op \in {"+", "-"} /\ l.k \in {"int", "pointer"} /\ r.k = "int" -> l
       [] op \in {"+", "-"} /\ l.k = "int" /\ r.k = "pointer" -> r
       [] op = "-" /\ ptrs -> IntT
       [] op \in {"*", "/", "&", "|", "&&", "||", "==", "!="} /\ ints -> IntT
       [] op \in {"<", ">"} /\ (ints \/ (ptrs /\ Equals(h, l, r))) -> IntT
       [] OTHER -> NullT

(* An array operand becomes a cast to its degraded type.                   *)
Decay(x, t, h) ==
  IF t.k # "array" THEN [x |-> x, t |-> t, h |-> h]
  ELSE LET d == Degrade(h, t) IN [x |-> Cast(x, d.t), t |-> d.t, h |-> d.h]

(* The type an array operand leaves on the operator before its own rules:  *)
(* an operator no rule covers keeps it, and reports nothing.               *)
LeftBehind(t, d) == IF Len(t.dims) > 1 THEN ErrorT ELSE d.t

RECURSIVE Infer(_, _, _), InferAll(_, _, _)

InferBinary(i, x, tc) ==
  LET a == Infer(i, x.l, tc)
      b == Infer(i, x.r, a.tc)
      l == Decay(a.x, a.t, b.tc.heap)
      r == Decay(b.x, b.t, l.h)
      own    == ResultType(r.h, x.op, l.t, r.t)
      before == IF b.t.k = "array" THEN LeftBehind(b.t, r)
                ELSE IF a.t.k = "array" THEN LeftBehind(a.t, l) ELSE NullT
      t      == IF own # NullT THEN own ELSE before
      matrix == \E u \in {a.t, b.t} : u.k = "array" /\ Len(u.dims) > 1
      swap   == x.op \in {"+", "-"} /\ l.t.k = "int" /\ r.t.k = "pointer"
      y      == [x EXCEPT !.l = IF swap THEN r.x ELSE l.x, !.r = IF swap THEN l.x ELSE r.x]
      tc2    == [b.tc EXCEPT !.heap = r.h]
  IN IF NullT \in {a.t, b.t} THEN Stopped("exited", x, b.tc)
     ELSE IF t = NullT THEN Untyped(y, tc2)
     ELSE Typed(y, t, ErrorIf(matrix, tc2))

InferDeref(x, a) ==
  LET d == Decay(a.x, a.t, a.tc.heap)
      y == [x EXCEPT !.e = d.x]
      tc2 == [a.tc EXCEPT !.heap = d.h]
  IN IF d.t.k # "pointer" THEN Untyped(y, tc2) ELSE Typed(y, Pointee(d.h, d.t), tc2)

InferUnary(i, x, tc) ==
  LET a == Infer(i, x.e, tc)
      y == [x EXCEPT !.e = a.x]
  IN CASE a.t = NullT  -> Stopped("exited", x, a.tc)
       [] a.t # NullT /\ x.op = "*" -> InferDeref(x, a)
       [] a.t # NullT /\ x.op # "*" /\ a.t = IntT -> Typed(y, IntT, a.tc)
       [] OTHER -> Untyped(y, a.tc)

(* The comparison with the error type at the start of the code never holds *)
(* (an error type equals nothing), and a scalar base is no reported error. *)
InferSubscript(i, x, tc) ==
  LET a == Infer(i, x.l, tc)
      b == Infer(i, x.r, a.tc)
      y == [x EXCEPT !.l = a.x, !.r = b.x]
  IN CASE NullT \in {a.t, b.t} -> Stopped("crashed", x, b.tc)
       [] NullT \notin {a.t, b.t} /\ b.t # IntT -> Untyped(y, b.tc)
       [] b.t = IntT /\ a.t.k = "pointer" -> Typed(y, Pointee(b.tc.heap, a.t), b.tc)
       [] b.t = IntT /\ a.t.k = "array"   -> Typed(y, Element(a.t), b.tc)
       [] OTHER -> Typed(y, ErrorT, b.tc)

InferIdentifier(i, x, tc) ==
  IF ~ST!Exists(tc.table, x.name) THEN Untyped(x, tc)
  ELSE LET s == ST!GetValue(tc.table, x.name)
       IN IF s.kind # "variable" THEN Untyped(x, tc)
          ELSE Typed(x, s.type, Resolve(i, x.name, tc))

InferAll(i, xs, tc) ==
  FoldLeft(LAMBDA acc, x : LET r == Infer(i, x, acc.tc)
                           IN [xs |-> Append(acc.xs, r.x), tc |-> r.tc],
           [xs |-> <<>>, tc |-> tc], xs)

InferCall(i, x, tc) ==
  LET as  == InferAll(i, x.args, tc)
      y   == [x EXCEPT !.args = as.xs]
      s   == ST!GetValue(tc.table, x.name)
      sig == as.tc.sig[s.type.def]
  IN CASE ~ST!Exists(tc.table, x.name) -> Untyped(x, tc)
       [] ST!Exists(tc.table, x.name) /\ \E j \in DOMAIN as.xs : as.xs[j].ty = NullT ->
            Stopped("exited", x, as.tc)
       [] OTHER ->
            IF /\ s.kind = "function"
               /\ Len(sig.args) = Len(as.xs)
               /\ \A j \in DOMAIN as.xs : Equals(as.tc.heap, sig.args[j], as.xs[j].ty)
            THEN Typed(y, sig.ret, Resolve(i, x.name, as.tc))
            ELSE Untyped(y, as.tc)

(* member_access and pointer_acc: the class must be in the global scope;   *)
(* a wrong number or type of arguments is reported and the visit goes on.  *)
InferMember(i, x, tc) ==
  LET a    == Infer(i, x.e, tc)
      base == IF x.arrow /\ a.t.k = "pointer" THEN a.t.elem
              ELSE IF x.arrow THEN ErrorT ELSE a.t
      y    == [x EXCEPT !.e = a.x]
      known == /\ base.k = "classvar"
               /\ ST!IsInGlobal(a.tc.table, base.name)
               /\ ST!GetFromGlobal(a.tc.table, base.name).kind = "class"
      class == a.tc.classes[base.name]
      sig  == a.tc.sig[class.methods[x.name]]
      n    == IF Len(x.args) < Len(sig.args) THEN Len(x.args) ELSE Len(sig.args)
      as   == InferAll(i, SubSeq(x.args, 1, n), a.tc)
      bad  == \/ Len(sig.args) # Len(x.args)
              \/ \E j \in 1 .. n : ~Equals(as.tc.heap, sig.args[j], as.xs[j].ty)
  IN CASE a.t = NullT -> Stopped("exited", x, a.tc)
       [] a.t # NullT /\ ~known -> Untyped(y, a.tc)
       [] known /\ x.isFunc ->
            IF x.name \notin DOMAIN class.methods \/ x.name = base.name
            THEN Untyped(y, a.tc)
            ELSE IF \E j \in 1 .. n : as.xs[j].ty = NullT THEN Stopped("exited", x, as.tc)
            ELSE Typed(y, sig.ret, ErrorIf(bad, as.tc))
       [] OTHER -> IF x.name \notin DOMAIN class.fields THEN Untyped(y, a.tc)
                   ELSE Typed(y, class.fields[x.name], a.tc)

Infer(i, x, tc) ==
  CASE x.k = "lit"    -> Typed(x, IntT, tc)
    [] x.k = "id"     -> InferIdentifier(i, x, tc)
    [] x.k = "bin"    -> InferBinary(i, x, tc)
    [] x.k = "un"     -> InferUnary(i, x, tc)
    [] x.k = "sub"    -> InferSubscript(i, x, tc)
    [] x.k = "call"   -> InferCall(i, x, tc)
    [] x.k = "member" -> InferMember(i, x, tc)

----------------------------------------------------------------------------
(* Statements. i is the node, n its record.                                *)

Condition(i, e, tc) ==
  LET r == Infer(i, e, tc)
  IN IF r.t = NullT THEN Stop("exited", r.tc)
     ELSE Annotate(i, r.x, ErrorIf(r.t # IntT, r.tc))

Expression(i, n, tc) == LET r == Infer(i, n.e, tc) IN Annotate(i, r.x, r.tc)

\* the loop depth grows around both branches of an if
\* Slip: an if statement counts as a loop only when it ends.
BeginIfUncounted(i, n, tc) == Condition(i, n.e, tc)
BeginIf(i, n, tc)    == [Condition(i, n.e, tc) EXCEPT !.loopDepth = @ + 1]
EndIf(tc)            == [tc EXCEPT !.loopDepth = @ - 1]
BeginWhile(i, n, tc) == [Condition(i, n.e, tc) EXCEPT !.loopDepth = @ + 1]
\* Slip: the end of a loop is not counted.
EndWhileUncounted(tc)      == tc
EndWhile(tc)         == [tc EXCEPT !.loopDepth = @ - 1]
Break(tc)            == ErrorIf(tc.loopDepth = 0, tc)
Continue(tc)         == ErrorIf(tc.loopDepth = 0, tc)

\* `;` makes no node: as a branch or a body it is a null pointer
EmptyBranch(tc)      == Stop("crashed", tc)

Return(i, n, ctor, tc) ==
  LET ret == tc.sig[tc.currentFuncDef].ret
      r   == Infer(i, n.e[1], tc)
  IN IF n.e = <<>> THEN ErrorIf(~ctor /\ ret # VoidT, tc)
     ELSE IF r.t = NullT THEN Stop("exited", r.tc)
     ELSE Annotate(i, r.x, ErrorIf(ctor \/ ~Equals(r.tc.heap, ret, r.t), r.tc))

BeginBlock(tc) == [tc EXCEPT !.table = ST!BeginScope(@)]
EndBlock(tc)   == [tc EXCEPT !.table = ST!EndScope(@)]

----------------------------------------------------------------------------
(* Declarations.                                                           *)

Declare(i, name, kind, t, tc) ==
  [tc EXCEPT !.table = ST!Insert(@, name, [kind |-> kind, type |-> t, decl |-> i])]

(* analyze(func_def): a second definition of a name in a scope is an error *)
(* and is not inserted; the caller visits the body in any case.            *)
DeclareFunction(i, n, tc) ==
  LET tc1 == [tc EXCEPT !.sig = ST!Bind(@, i, [ret |-> n.ret,
                                  args |-> [j \in DOMAIN n.args |-> n.args[j].ty],
                                  bindings |-> [j \in DOMAIN n.args |-> n.args[j].name]])]
      tc2 == ErrorIf((n.ctor /\ n.name # tc.currentClassDef) \/ n.name = "this", tc1)
  IN IF ST!IsInCurrentScope(tc.table, n.name) THEN TypeError(tc2)
     ELSE Declare(i, n.name, "function", Function(i), tc2)

(* analyzeFunctionBody up to the body: in a class the function type itself *)
(* gets "this" as a first parameter; array parameters are degraded in it.  *)
BindParam(i, j, tc) ==
  LET sig == tc.sig[i]
      a == sig.args[j]
      d == IF a.k = "array" THEN Degrade(tc.heap, a) ELSE [t |-> a, h |-> tc.heap]
      tc1 == ErrorIf(ST!IsInCurrentScope(tc.table, sig.bindings[j]), tc)
  IN Declare(i, sig.bindings[j], "variable", d.t,
             [tc1 EXCEPT !.sig[i].args[j] = d.t, !.heap = d.h])

\* Slip: a method does not get "this".
EnterBodyWithoutThis(i, tc) ==
  LET tc1 == [BeginBlock(tc) EXCEPT !.currentFuncDef = i]
  IN FoldLeft(LAMBDA acc, j : BindParam(i, j, acc), tc1,
              [j \in 1 .. Len(tc1.sig[i].args) |-> j])

EnterBody(i, tc) ==
  LET method == tc.currentClassDef # ""
      tc1 == [BeginBlock(tc) EXCEPT
                !.currentFuncDef = i,
                !.sig[i].args = IF method THEN <<PointerOf(ClassVar(tc.currentClassDef))>> \o @
                                ELSE @,
                !.sig[i].bindings = IF method THEN <<"this">> \o @ ELSE @]
  IN FoldLeft(LAMBDA acc, j : BindParam(i, j, acc), tc1,
              [j \in 1 .. Len(tc1.sig[i].args) |-> j])

LeaveBody(i, n, hasReturnStmt, tc) ==
  LET none == n.ctor \/ n.ret = VoidT
  IN [EndBlock(ErrorIf(none = hasReturnStmt, tc)) EXCEPT !.currentFuncDef = 0]

(* analyze(var_def). A dimension that is missing or not a literal is 0. A  *)
(* variable whose analysis returned early keeps its dimensions unevaluated *)
(* (redefinition) and is not inserted.                                     *)
DeclareVar(i, n, tc) ==
  LET pending == IF n.ty.k = "array" THEN [n.ty EXCEPT !.dims = <<>>] ELSE n.ty
      early   == ST!IsInCurrentScope(tc.table, n.name) \/ n.name = "this"
      zero    == n.ty.k = "array" /\ \E d \in DOMAIN n.ty.dims : n.ty.dims[d] = 0
      typed   == [tc EXCEPT !.types = ST!Bind(@, i, IF early THEN pending ELSE n.ty)]
  IN IF early \/ zero THEN TypeError(typed) ELSE Declare(i, n.name, "variable", n.ty, typed)

(* normalization: the scalars of an initialiser list in order, holes       *)
(* filled with zeros. A list item fills the trailing dimensions that the   *)
(* position is a multiple of.                                              *)
RECURSIVE SubDims(_, _)
SubDims(pos, dims) ==
  IF Len(dims) <= 1 \/ pos % Last(dims) # 0 THEN <<>>
  ELSE Append(SubDims(pos \div Last(dims), Front(dims)), Last(dims))

Size(dims) == FoldLeft(LAMBDA p, d : p * d, 1, dims)

AddScalar(acc, elem, r) ==
  CASE r.t = NullT -> [acc EXCEPT !.ok = FALSE, !.tc = Stop("exited", r.tc)]
    [] r.t # NullT /\ Equals(r.tc.heap, elem, r.t) ->
         [acc EXCEPT !.out = Append(@, r.x), !.tc = r.tc]
    [] OTHER -> [acc EXCEPT !.ok = FALSE, !.tc = r.tc]

AddList(acc, r) == [out |-> acc.out \o r.out, ok |-> r.ok, tc |-> r.tc]

WithZeros(all, size) ==
  LET holes == size - Len(all.out)
  IN IF ~all.ok \/ holes < 0 THEN [all EXCEPT !.ok = FALSE]
     ELSE [all EXCEPT !.out = @ \o [j \in 1 .. holes |-> [Lit EXCEPT !.ty = IntT]]]

RECURSIVE Normalize(_, _, _, _, _)
AddItem(i, acc, item, dims, elem) ==
  IF ~acc.ok THEN acc
  ELSE IF item.k # "list" THEN AddScalar(acc, elem, Infer(i, item.e, acc.tc))
  ELSE IF dims = <<>> THEN [acc EXCEPT !.ok = FALSE, !.tc = Stop("crashed", @)]
  ELSE IF Last(dims) = 0 THEN [acc EXCEPT !.ok = FALSE, !.tc = Stop("crashed", @)]
  ELSE IF Len(acc.out) % Last(dims) # 0 THEN [acc EXCEPT !.ok = FALSE]
  ELSE AddList(acc, Normalize(i, item.items, SubDims(Len(acc.out), dims), elem, acc.tc))
Normalize(i, items, dims, elem, tc) ==
  WithZeros(FoldLeft(LAMBDA acc, item : AddItem(i, acc, item, dims, elem),
                     [out |-> <<>>, ok |-> TRUE, tc |-> tc], items),
            Size(dims))

(* analyzeInit, which runs whether or not the analysis of the variable     *)
(* returned early.                                                         *)
InitList(i, l)      == Annotate(i, l.out, ErrorIf(~l.ok, l.tc))
InitScalar(i, t, r) == IF r.t = NullT THEN Stop("exited", r.tc)
                       ELSE Annotate(i, r.x, ErrorIf(~Equals(r.tc.heap, r.t, t), r.tc))
InitVar(i, n, tc) ==
  LET t == tc.types[i]
      init == n.init[1]
  IN IF n.init = <<>> THEN tc
     ELSE IF (init.k = "list") # (t.k = "array") THEN TypeError(tc)
     ELSE IF init.k = "list" THEN InitList(i, Normalize(i, init.items, t.dims, t.elem, tc))
     ELSE InitScalar(i, t, Infer(i, init.e, tc))

(* analyze(class_def) up to the bodies: a redefined class returns early,   *)
(* and leaves currentClassDef set.                                         *)
DeclareMember(j, m, class, tc) ==
  LET tc1 == IF m.k = "func" THEN DeclareFunction(j, m, tc) ELSE DeclareVar(j, m, tc)
      Add(f, x) == IF m.name \in DOMAIN f THEN f ELSE ST!Bind(f, m.name, x)
  IN IF m.k = "func" THEN [tc1 EXCEPT !.classes[class].methods = Add(@, j)]
     ELSE [tc1 EXCEPT !.classes[class].fields = Add(@, tc1.types[j])]

Redefined(n, tc) == ST!IsInGlobal(tc.table, n.name)

BeginClass(i, n, members, tc) ==
  LET tc1 == [tc EXCEPT !.currentClassDef = n.name]
      tc2 == Declare(i, n.name, "class", Class(n.name), ErrorIf(n.name = "this", tc1))
      tc3 == [BeginBlock(tc2) EXCEPT
                !.classes = ST!Bind(@, n.name, [methods |-> None, fields |-> None])]
  IN IF Redefined(n, tc) THEN TypeError(tc1)
     ELSE FoldLeft(LAMBDA acc, m : DeclareMember(m.at, m.node, n.name, acc), tc3, members)

EndClass(tc) == [EndBlock(tc) EXCEPT !.currentClassDef = ""]
=============================================================================

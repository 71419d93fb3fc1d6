----------------------------- MODULE MCFrontend -----------------------------
(***************************************************************************)
(* Programs for the front end, built statement by statement, so that       *)
(* every nesting, jump, declaration and expression of a small size occurs. *)
(***************************************************************************)
EXTENDS Frontend

MCName == {"f", "g", "x", "y", "n", "p", "a", "q", "m", "C", "this", "v", "w"}
MCObjects == {1}

\* nodes
Func(name, ret, args) == [k |-> "func", name |-> name, ret |-> ret, args |-> args, ctor |-> FALSE]
Param(name, ty)       == [name |-> name, ty |-> ty]
Var(name, ty)         == [k |-> "var", name |-> name, ty |-> ty, init |-> <<>>]
Scalar(e)             == [k |-> "scalar", e |-> e]
List(items)           == [k |-> "list", items |-> items]
VarInit(name, ty, in) == [k |-> "var", name |-> name, ty |-> ty, init |-> <<in>>]
Ret(e)   == [k |-> "ret", e |-> <<e>>]
Expr(e)  == [k |-> "expr", e |-> e]
Mark(k)  == [k |-> k]
Ret0     == [k |-> "ret", e |-> <<>>]
\* statements, as sequences of nodes
Block(s)        == <<Mark("block")>> \o s \o <<Mark("endblock")>>
While(c, s)     == <<[k |-> "while", e |-> c]>> \o s \o <<Mark("endwhile")>>
If(c, s)        == <<[k |-> "if", e |-> c]>> \o s \o <<Mark("endif")>>
IfElse(c, s, t) == <<[k |-> "if", e |-> c]>> \o s \o <<Mark("else")>> \o t \o <<Mark("endif")>>
Def(f, body)    == <<f>> \o body \o <<Mark("endfunc")>>

Concat(A, B) == {a \o b : a \in A, b \in B}

(* Control flow: lists of at most two simple statements, one level of      *)
(* blocks, branches and loops around them, and a second level.             *)
Simple == {<<Mark("break")>>, <<Mark("continue")>>, <<Ret(Lit)>>, <<Expr(Id("n"))>>}
Short  == {<<>>} \cup Simple
Lists  == Short \cup Concat(Simple, Simple)
One == {Block(s) : s \in Short} \cup {If(Id("n"), Block(s)) : s \in Lists}
       \cup {While(Id("n"), Block(s)) : s \in Lists}
       \cup {IfElse(Id("n"), s, t) : s, t \in Simple}
       \cup {If(Id("n"), <<Mark("empty")>>)}
Two == {While(Id("n"), Block(s)) : s \in Concat(One, Short)}
       \cup {If(Lit, Block(s)) : s \in One}
Controls ==
  {Def(Func("f", t, <<Param("n", IntT)>>), s) :
     t \in {IntT, VoidT}, s \in Concat(One \cup Two, {<<Ret(Id("n"))>>})}
  \cup {Def(Func("f", VoidT, <<Param("n", IntT)>>), s) : s \in One \cup {<<>>, <<Ret0>>}}

(* Expressions over an int, a pointer, arrays of ints, of pointers and of  *)
(* arrays, of depth two, in the places that take one.                      *)
Atoms  == {Lit, Id("n"), Id("p"), Id("a"), Id("q"), Id("m")}
BinOps == {"+", "-", "*", "<", "==", "&&", "<="}
Depth1 == Atoms \cup {Bin(o, l, r) : o \in BinOps, l, r \in Atoms}
          \cup {Un(o, e) : o \in {"-", "!", "*"}, e \in Atoms}
          \cup {Sub(l, r) : l \in Atoms, r \in {Lit, Id("p")}}
          \cup {Call("f", <<e>>) : e \in Atoms} \cup {Call("g", <<>>), Id("f"), Id("g")}
Depth2 == {Un(o, e) : o \in {"*", "!"}, e \in Depth1} \cup {Sub(e, Lit) : e \in Depth1}
          \cup {Bin("+", e, Lit) : e \in Depth1} \cup {Call("f", <<e>>) : e \in Depth1}
Locals == <<Var("a", Array(IntT, <<2>>)), Var("q", Array(SharedPtr(IntT, 1), <<2>>)),
            Var("m", Array(IntT, <<2, 2>>))>>
InF(s) == Def(Func("f", IntT, <<Param("n", IntT), Param("p", PointerOf(IntT))>>),
              Locals \o s \o <<Ret(Id("n"))>>)
InG(s) == Def(Func("f", IntT, <<Param("n", IntT)>>), <<Ret(Id("n"))>>)
          \o Def(Func("g", VoidT, <<Param("p", PointerOf(IntT)), Param("n", IntT)>>), Locals \o s)
Expressions ==
  {InF(<<Expr(e)>>) : e \in Depth1 \cup Depth2}
  \cup {InF(<<VarInit("x", t, Scalar(e))>>) : t \in {IntT, PointerOf(IntT)}, e \in Depth1}
  \cup {InF(<<Expr(e), Expr(Sub(Id("q"), Lit)), Ret(e)>>) : e \in Depth1}
  \cup {InF(While(e, Block(<<>>))) : e \in Depth1}
  \cup {InG(<<Expr(e)>>) : e \in Depth2}

(* Declarations: shadowing, redefinition, initialisers, globals, calls of  *)
(* other functions and of the function itself.                             *)
X(e)  == VarInit("x", IntT, Scalar(e))
Decls == {<<Var("x", IntT)>>, <<X(Lit)>>, <<X(Id("x"))>>, <<X(Id("y"))>>, <<X(Id("n"))>>,
          <<Var("y", IntT)>>, <<Var("x", PointerOf(IntT))>>, <<Expr(Id("x"))>>,
          <<Var("f", IntT)>>, <<Expr(Call("f", <<Id("x")>>))>>, <<Var("v", VoidT)>>,
          <<VarInit("f", IntT, Scalar(Id("f")))>>, <<Var("this", IntT)>>}
Items == {Lit, Id("n"), Id("p")}
Nested == {<<Scalar(e)>> : e \in Items} \cup {<<>>, <<List(<<>>)>>, <<List(<<Scalar(Lit)>>)>>}
Inits  == Concat(Nested, Nested) \cup {<<List(s)>> : s \in Nested}
Arrays == {<<VarInit("a", Array(t, d), List(s))>> :
             t \in {IntT, SharedPtr(IntT, 1)}, d \in {<<2>>, <<2, 2>>, <<0>>}, s \in Inits}
          \cup {<<Var("a", Array(IntT, <<0>>))>>,
                <<VarInit("a", Array(IntT, <<2>>), Scalar(Lit))>>,
                <<VarInit("x", IntT, List(<<Scalar(Lit)>>))>>,
                <<Var("a", IntT), VarInit("a", Array(IntT, <<2>>), List(<<List(<<>>)>>))>>}
Body(s)  == Def(Func("f", IntT, <<Param("n", IntT)>>), s \o <<Ret(Id("n"))>>)
After(s) == Def(Func("g", IntT, <<Param("n", IntT), Param("p", Array(SharedPtr(IntT, 1), <<0>>))>>),
                s \o <<Ret(Id("n"))>>)
UseX == <<Expr(Id("x"))>>
Scopes ==
  {Body(d \o Block(e)) : d, e \in Decls} \cup {Body(Block(d) \o e) : d, e \in Decls}
  \cup {d \o Body(e) : d, e \in Decls} \cup {Body(<<>>) \o d \o After(e) : d, e \in Decls}
  \cup {Body(d \o Block(e \o UseX) \o UseX) : d, e \in Decls}
  \cup {d \o Body(e \o UseX) : d, e \in Decls}
  \cup {Body(d \o e) : d, e \in Decls} \cup {Body(d) \o Body(<<>>) : d \in Decls}
  \cup {Body(s) : s \in Arrays}
  \cup {After(<<Expr(e), Expr(e)>>) : e \in {Un("*", Id("p")), Sub(Id("p"), Lit),
                                             Call("g", <<Lit, Id("p")>>)}}

(* Classes: a field, a constructor and two methods, calls among them and   *)
(* from a function. The grammar has no method call without an argument.    *)
Ctor(name) == [k |-> "func", name |-> name, ret |-> NullT, args |-> <<>>, ctor |-> TRUE]
Me == PointerOf(ClassVar("C"))
Calls == {Call("w", <<>>), Call("v", <<Lit>>), Call("C", <<>>), Call("v", <<Id("this"), Lit>>)}
         \cup {Member(o, nm, o.name \in {"this", "p"}, as # <<>>, as) :
                 o \in {Id("x"), Id("p"), Id("this")}, nm \in {"v", "a", "C"},
                 as \in {<<>>, <<Lit>>, <<Id("this"), Lit>>, <<Id("p"), Lit>>}}
ClassNode(name, e, t) ==
  <<[k |-> "class", name |-> name], Var("a", t)>> \o Def(Ctor(name), <<>>)
  \o Def(Func("v", IntT, <<Param("n", IntT)>>), <<Expr(e), Ret(Id("n"))>>)
  \o Def(Func("w", IntT, <<>>), <<Expr(e), Ret(Lit)>>) \o <<Mark("endclass")>>
User(e) == Def(Func("f", IntT, <<Param("p", PointerOf(IntT))>>), <<Expr(e), Ret(Lit)>>)
UserOf(e) == Def(Func("f", IntT, <<>>), <<Var("x", ClassVar("C")), Var("p", Me), Expr(e), Ret(Lit)>>)
Classes == {ClassNode("C", e, IntT) : e \in Calls}
           \cup {ClassNode("C", Lit, t) \o UserOf(e) : e \in Calls, t \in {IntT, Me}}
           \cup {ClassNode("C", Lit, IntT) \o User(e) : e \in Calls}
           \cup {ClassNode("C", Lit, IntT) \o ClassNode("C", Lit, IntT) \o Body(<<>>)}

MCPrograms == Controls \cup Expressions \cup Scopes \cup Classes
=============================================================================

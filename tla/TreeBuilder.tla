---------------------------- MODULE TreeBuilder ----------------------------
(***************************************************************************)
(* The semantic actions of parser/parser.cpp, with the node methods they   *)
(* call (astnode/node.cpp): Act(r, c) is the info that the action of rule  *)
(* r makes of the infos c of its children. An info is [sym, str, type,     *)
(* node] and a node [k, name, kids]; a declaration's node has a type       *)
(* besides. The type of a declarator grows from the name outwards; what is *)
(* still missing in it is Open, the null pointer of the code.              *)
(***************************************************************************)
EXTENDS Grammar, Naturals, SequencesExt

NoNode == [k |-> "null", name |-> <<>>, kids |-> <<>>]
Node(k, name, kids)       == [k |-> k, name |-> name, kids |-> kids]
TypedNode(k, name, t, kids) == [k |-> k, name |-> name, type |-> t, kids |-> kids]

Open              == [k |-> "open"]
Named(name)       == [k |-> "name", name |-> name]
Pointer(d, to)    == [k |-> "pointer", depth |-> d, to |-> to]
ArrayOf(dims, of) == [k |-> "array", dims |-> dims, of |-> of]
FunctionOf(ret, args, bindings) ==
  [k |-> "function", ret |-> ret, args |-> args, bindings |-> bindings]
Broken            == [k |-> "broken"]

Info(str, type, node) == [sym |-> "", str |-> str, type |-> type, node |-> node]
Leaf(token)     == [sym |-> token.sym, str |-> token.str, type |-> Open, node |-> NoNode]
WithNode(node)  == Info(<<>>, Open, node)
WithType(type)  == Info(<<>>, type, NoNode)
Add(node, kid)  == [node EXCEPT !.kids = Append(@, kid)]

(* stoul without a base: the decimal digits the text begins with.          *)
Digits == {"0", "1", "2", "3", "4", "5", "6", "7", "8", "9"}
Stoul(str) ==
  LET n == CHOOSE m \in 0 .. Len(str) :
             /\ \A j \in 1 .. m : str[j] \in Digits
             /\ m = Len(str) \/ str[m + 1] \notin Digits
  IN SubSeq(str, 1, n)

----------------------------------------------------------------------------
(* Declarators.                                                            *)

(* One more star on what an array holds or a function returns. Anything    *)
(* but nothing or an open pointer there is the endless loop of the rule.   *)
Deeper(t) ==
  IF t = Open THEN Pointer(1, Open)
  ELSE IF t.k = "pointer" /\ t.to = Open THEN [t EXCEPT !.depth = @ + 1]
  ELSE Broken

Star(t) ==
  CASE t.k = "open"     -> Pointer(1, Open)
    [] t.k = "pointer"  -> [t EXCEPT !.depth = @ + 1]
    [] t.k = "array"    -> [t EXCEPT !.of = Deeper(@)]
    [] t.k = "function" -> [t EXCEPT !.ret = Deeper(@)]

(* The innermost missing part becomes the base type.                       *)
Base(t, base) ==
  CASE t.k = "open"    -> base
    [] t.k = "pointer" -> [t EXCEPT !.to = base]
    [] OTHER           -> Broken
FillParam(t, base) ==
  CASE t.k = "function" -> [t EXCEPT !.ret = Base(@, base)]
    [] t.k = "array"    -> [t EXCEPT !.of = Base(@, base)]
    [] OTHER            -> Base(t, base)

\* Slip: only what has nothing yet is completed.
FinalizeOpenType(t, base) == IF t = Open THEN base ELSE t

(* finalizeType asks this->kind, the kind of the node, whether the type is *)
(* a function: it is not, and a function declared so keeps its open type.  *)
FinalizeType(t, base) == IF t.k = "function" THEN t ELSE FillParam(t, base)

\* Slip: the types are reversed, the names are not.
FillFunctionTypes(t, base) == [FillParam(t, base) EXCEPT !.args = Reverse(@)]

(* FuncDef: the return type is filled in and both lists are reversed.      *)
FillFunction(t, base) ==
  [FillParam(t, base) EXCEPT !.args = Reverse(@), !.bindings = Reverse(@)]

AddArg(fun, param) == [fun EXCEPT !.args = Append(@, param.type),
                                  !.bindings = Append(@, param.str)]
NoParams  == FunctionOf(Open, <<>>, <<>>)
NoDims    == ArrayOf(<<>>, Open)
AddDim(arr, e) == [arr EXCEPT !.dims = Append(@, e)]

(* The parameter a rule of FuncFParams adds: the child before the tail.    *)
ParamOf(c) == IF c[1].sym = "COMMA" THEN c[2] ELSE c[1]

(* addVarDef, then setTypeAndReverse completes the type of every           *)
(* definition and reverses them.                                           *)
Finalize(decl, base) ==
  [decl EXCEPT !.name = base.name,
     !.kids = [j \in DOMAIN @ |-> LET d == @[Len(@) + 1 - j]
                                  IN [d EXCEPT !.type = FinalizeType(@, base)]]]

TypeAction(how, of, c) ==
  LET last == c[Len(c)]
      base == Named(c[1].str)
      old(none) == IF of = 0 THEN none ELSE c[of].type
  IN CASE how = "star"     -> Info(c[of].str, Star(c[of].type), NoNode)
       [] how = "suffix"   -> Info(c[1].str, old(Open), NoNode)
       [] how = "dim"      -> WithType(AddDim(old(NoDims), c[2].node))
       [] how = "nodim"    -> WithType(AddDim(old(NoDims), Node("lit", <<"0">>, <<>>)))
       [] how = "noparams" -> WithType(NoParams)
       [] how = "params"   -> WithType(AddArg(old(NoParams), ParamOf(c)))
       [] how = "param"    -> Info(c[of].str, FillParam(c[of].type, base), NoNode)
       [] how = "var"      -> WithNode(TypedNode("var", c[1].str, c[1].type,
                                                 IF of = 0 THEN <<>> ELSE <<c[of].node>>))
       [] how = "decl"     -> WithNode(Finalize(Add(c[of].node, c[2].node), base))
       [] how = "func"     -> WithNode(TypedNode("func", c[of].str,
                                                 FillFunction(c[of].type, base), last.node.kids))
       [] how = "ctor"     -> WithNode(TypedNode("ctor", c[1].str, old(NoParams), last.node.kids))

----------------------------------------------------------------------------
(* All actions.                                                            *)

NameOf(n, c) == IF n = 0 THEN <<>> ELSE c[n].str

Act(r, c) ==
  LET a == r.do
  IN CASE a.do = "move"   -> c[a.of]
       [] a.do = "make"   -> WithNode(Node(a.kind, NameOf(a.name, c),
                                           [j \in DOMAIN a.of |-> c[a.of[j]].node]))
       [] a.do = "push"   -> WithNode(Add(c[a.into].node, c[a.of].node))
       [] a.do = "turn"   -> WithNode([c[a.of].node EXCEPT !.kids = Reverse(@),
                                                           !.name = NameOf(a.name, c)])
       [] a.do = "name"   -> WithNode([c[a.of].node EXCEPT !.name = c[a.name].str])
       \* an empty statement has no node and is left out of its block
       [] a.do = "item"   -> IF c[1].node = NoNode THEN WithNode(c[2].node)
                             ELSE WithNode(Add(c[2].node, c[1].node))
       \* the arguments of a method were collected from the last one on
       [] a.do = "method" -> WithNode(Node(a.kind, c[3].str,
                                           <<c[1].node>> \o Reverse(c[5].node.kids)))
       [] a.do = "number" -> WithNode(Node("lit", Stoul(c[1].str), <<>>))
       [] a.do = "unary"  -> WithNode(Node("un", <<c[1].sym>>, <<c[2].node>>))
       [] a.do = "binary" -> WithNode(Node("bin", <<c[2].sym>>, <<c[1].node, c[3].node>>))
       [] a.do = "type"   -> TypeAction(a.how, a.of, c)

(* How an action ends the process instead: exit(1) for a function          *)
(* definition that declares no function or a parameter whose type cannot   *)
(* be completed, while(1) for a star that finds no place.                  *)
Fault(r, c) ==
  IF r.do.do # "type" THEN "no"
  ELSE CASE r.do.how = "func" /\ c[2].type.k # "function" -> "exited"
         [] r.do.how = "star" /\ c[2].type.k \in {"array", "function"} /\
            LET t == Star(c[2].type) IN (IF t.k = "array" THEN t.of ELSE t.ret) = Broken -> "hangs"
         [] r.do.how = "param" /\ c[2].type.k \in {"array", "function"} /\
            LET t == FillParam(c[2].type, Named(c[1].str))
            IN (IF t.k = "array" THEN t.of ELSE t.ret) = Broken -> "exited"
         [] OTHER -> "no"
=============================================================================

------------------------------- MODULE Mem2Reg -------------------------------
(***************************************************************************)
(* Mem2Reg::runOnFunction (Transform/Mem2Reg.cpp): the pass asks its       *)
(* manager for a dominator tree, computes the dominance frontiers, inserts *)
(* PHI nodes for the allocas of the entry block it can promote, and renames *)
(* the loads and stores along the dominator tree.                          *)
(*                                                                         *)
(* The analysis is DomTree, whose steps come first. An instruction is a    *)
(* record: an alloca, a load, a store, or a "use", any other instruction   *)
(* an alloca is an operand of. A definition is <<block, index>>; index 0 is *)
(* the PHI node of the block. Operands that are no allocas are Other. Of   *)
(* the types a store has one bit: types are compared by their addresses,   *)
(* and every get makes another object of the same type (Type.hpp:104).     *)
(***************************************************************************)
EXTENDS DomTree, FiniteSets

CONSTANTS
  Alloca,  (* the allocas of the function                                   *)
  Codes    (* functions from blocks to the sequence of their instructions   *)

Other == "other"
Define(a)   == [op |-> "alloca", ptr |-> a, val |-> Other, same |-> TRUE]
Load(p)     == [op |-> "load", ptr |-> p, val |-> Other, same |-> TRUE]
Use(p)      == [op |-> "use", ptr |-> p, val |-> Other, same |-> TRUE]

(* A store of a value whose type is the object the alloca at p was made     *)
(* with, and of one whose type equals it but is another object.             *)
Store(p, v)            == [op |-> "store", ptr |-> p, val |-> v, same |-> TRUE]
StoreOfEqualType(p, v) == [Store(p, v) EXCEPT !.same = FALSE]

Inst == [op : {"alloca", "load", "store", "use"}, ptr : Alloca \cup {Other},
         val : Alloca \cup {Other}, same : BOOLEAN]

ASSUME AllocasAssumption == Other \notin Alloca
(* An alloca is an instruction: it is in one place.                         *)
ASSUME CodesAssumption ==
  \A c \in Codes :
    /\ c \in [Block -> Seq(Inst)]
    /\ \A b \in Block : \A i, j \in DOMAIN c[b] :
         c[b][i].op = "alloca" =>
           c[b][i].ptr # Other /\ (c[b][j].op = "alloca" /\ c[b][j].ptr = c[b][i].ptr => i = j)

VARIABLES
  code,               (* the instructions of the blocks; nothing reads them *)
                      (* before the analysis has ended                      *)
  status,             (* the part of the pass that runs, or how it ended    *)
  dominanceFrontiers,
  todo,               (* Allocas that PromoteMemToReg has not done          *)
  workingList, inserted,
  phis,               (* phiToAlloca: of the PHI nodes at the start of every *)
                      (* block, the last one inserted comes first           *)
  path,               (* the calls of rename that have not returned         *)
  visitedDFSBlocks,
  allocaStackMap,
  replaced            (* what every load replaced so far was replaced with  *)

m2vars == <<code, status, dominanceFrontiers, todo, workingList, inserted, phis,
            path, visitedDFSBlocks, allocaStackMap, replaced>>

Places == UNION {{<<b, i>> : i \in 1 .. Len(code[b])} : b \in Block}
At(p)  == code[p[1]][p[2]]

-----------------------------------------------------------------------------
(* getAnalysisResult: a new DominatorTreeWrapper runs on the function.      *)
Analyse == DTNext /\ UNCHANGED m2vars

(* at(): the climb of dominates(a, b) meets a block without a depth.        *)
ClimbIsLost(a, b) ==
  LET up == Climb(idomMap, b) IN
    \E n \in 1 .. N :
      /\ up[n] # Null /\ nodeDepthMap[up[n]] = 0
      /\ \A m \in 1 .. n - 1 : up[m] # a /\ nodeDepthMap[up[m]] >= nodeDepthMap[a]

(* DT_LOCAL: the successors the block does not immediately dominate.        *)
Local(b) == {s \in ToSet(succ[b]) : idomMap[s] # b}

(* Slip: a block is never in its own frontier.                              *)
PassesNotItself(b, x) == x # b /\ ~Dominates(b, x)

(* DT_UP keeps a block of the frontier of a child.                          *)
Passes(b, x) == ~Dominates(b, x)

(* The frontiers after n levels of the recursion have returned.             *)
FrontiersUpTo ==
  LET front[n \in 0 .. N] ==
        [b \in Block |->
           IF nodeDepthMap[b] = 0 THEN {}
           ELSE Local(b) \cup
                (IF n = 0 THEN {}
                 ELSE {x \in UNION {front[n - 1][c] : c \in Children(b)} : Passes(b, x)})]
  IN  front

computeDominanceFrontier ==
  /\ pc = "done"
  /\ status = "frontiers"
  /\ code' \in Codes
  /\ LET front == FrontiersUpTo[N]
         up(b) == UNION {front[c] : c \in Children(b)}
     IN  IF \E b \in Block : nodeDepthMap[b] > 0 /\ \E x \in up(b) : ClimbIsLost(b, x)
         THEN status' = "threw" /\ UNCHANGED dominanceFrontiers
         ELSE status' = "collect" /\ dominanceFrontiers' = front
  /\ UNCHANGED <<dtvars, todo, workingList, inserted, phis, path, visitedDFSBlocks,
                 allocaStackMap, replaced>>

-----------------------------------------------------------------------------
(* The uses of the alloca that are neither loads nor stores are not looked  *)
(* at; a store of its address makes the answer no, and so does a store to   *)
(* it of a value that has another type object.                              *)
isAllocaPromotable(a) ==
  \A p \in Places :
    At(p).op = "store" => At(p).val # a /\ (At(p).ptr = a => At(p).same)

(* Slip: the blocks with a load of the alloca.                              *)
UseBlocks(a) == {p[1] : p \in {q \in Places : At(q).op = "load" /\ At(q).ptr = a}}

DefBlocks(a) == {p[1] : p \in {q \in Places : At(q).op = "store" /\ At(q).ptr = a}}

(* The allocas of the entry block that can be promoted, in its order.       *)
Allocas ==
  FoldLeft(LAMBDA found, i : IF i.op = "alloca" /\ isAllocaPromotable(i.ptr)
                             THEN Append(found, i.ptr) ELSE found,
           <<>>, code[entry])

(* promoteMemoryToRegister: nothing is renamed if no alloca is promoted.    *)
FindAllocas ==
  /\ status = "collect"
  /\ todo' = Allocas
  /\ status' = IF todo' = <<>> THEN "done" ELSE "place"
  /\ workingList' = IF todo' = <<>> THEN {} ELSE DefBlocks(Head(todo'))
  /\ UNCHANGED <<dtvars, code, dominanceFrontiers, inserted, phis, path,
                 visitedDFSBlocks, allocaStackMap, replaced>>

(* The frontier blocks that have no PHI node for the alloca yet.            *)
Missing(b) == dominanceFrontiers[b] \ inserted

(* Slip: a PHI node is no definition.                                       *)
NothingNew(a, b) == {}

(* Slip: blocks that have their PHI node are listed again.                  *)
NewDefsAgain(a, b) == dominanceFrontiers[b] \ DefBlocks(a)

(* The blocks that get their first definition with a PHI node.              *)
NewDefs(a, b) == Missing(b) \ DefBlocks(a)

(* One turn of PromoteMemToReg: any block of the working list.              *)
insertPHINodes ==
  /\ status = "place"
  /\ \E b \in workingList :
       /\ phis' = [x \in Block |-> IF x \in Missing(b) THEN <<Head(todo)>> \o phis[x]
                                                       ELSE phis[x]]
       /\ inserted' = inserted \cup Missing(b)
       /\ workingList' = (workingList \ {b}) \cup NewDefs(Head(todo), b)
  /\ UNCHANGED <<dtvars, code, status, dominanceFrontiers, todo, path,
                 visitedDFSBlocks, allocaStackMap, replaced>>

NextAlloca ==
  /\ status = "place"
  /\ workingList = {}
  /\ todo' = Tail(todo)
  /\ inserted' = {}
  /\ workingList' = IF todo' = <<>> THEN {} ELSE DefBlocks(Head(todo'))
  /\ status' = IF todo' = <<>> THEN "rename" ELSE "place"
  /\ UNCHANGED <<dtvars, code, dominanceFrontiers, phis, path, visitedDFSBlocks,
                 allocaStackMap, replaced>>

-----------------------------------------------------------------------------
(* The instructions of a block with their places, the PHI nodes first.      *)
Insts(b) ==
  [i \in DOMAIN phis[b] |-> [op |-> "phi", ptr |-> phis[b][i], val |-> Other, at |-> <<b, 0>>]]
    \o [i \in DOMAIN code[b] |-> [op |-> code[b][i].op, ptr |-> code[b][i].ptr,
                                  val |-> code[b][i].val, at |-> <<b, i>>]]

(* Slip: a load takes the oldest definition.                                *)
Oldest(stack) == Head(stack)

(* The definition a load reads.                                             *)
Newest(stack) == Last(stack)

(* The first loop of rename, an instruction: every store and PHI node is    *)
(* pushed, whether its alloca is promoted or not.                           *)
Rename(run, inst) ==
  IF run.why # "none" \/ inst.op \in {"alloca", "use"} THEN run
  ELSE IF inst.ptr = Other THEN [run EXCEPT !.why = "pointer"]
  ELSE IF inst.op # "load" THEN [run EXCEPT !.stack[inst.ptr] = Append(@, inst.at)]
  ELSE IF run.stack[inst.ptr] = <<>> THEN [run EXCEPT !.why = "undefined"]
  ELSE [run EXCEPT !.replaced = [p \in DOMAIN @ \cup {inst.at} |->
                                   IF p = inst.at THEN Newest(run.stack[inst.ptr]) ELSE @[p]]]

(* The PHI nodes of the successors, in the order of the second loop.        *)
SuccessorPhis(b) == FlattenSeq([i \in DOMAIN succ[b] |-> phis[succ[b][i]]])

(* The second loop ends at the first of them.  addIncoming aborts on a      *)
(* store, whose type is void, and on a PHI node, in setIncomingBlock.       *)
Incoming(run, b) ==
  LET ps == SuccessorPhis(b) IN
    IF run.why # "none" \/ ps = <<>> THEN run
    ELSE [run EXCEPT !.why = IF run.stack[Head(ps)] = <<>> THEN "undefined" ELSE "incoming"]

(* rename(b), up to the loop over the children.                             *)
Enter(b) ==
  LET start == [stack |-> allocaStackMap, replaced |-> replaced, why |-> "none"]
      run   == Incoming(FoldLeft(Rename, start, Insts(b)), b)
  IN  /\ status' = IF run.why = "none" THEN "rename" ELSE run.why
      /\ allocaStackMap' = run.stack
      /\ replaced' = run.replaced
      /\ visitedDFSBlocks' = visitedDFSBlocks \cup {b}
      /\ path' = Append(path, b)
      /\ UNCHANGED <<dtvars, code, dominanceFrontiers, todo, workingList, inserted, phis>>

RenameEntry ==
  /\ status = "rename"
  /\ visitedDFSBlocks = {}
  /\ Enter(entry)

(* The children come in any order.                                          *)
Unvisited == Children(Last(path)) \ visitedDFSBlocks

RenameChild ==
  /\ status = "rename"
  /\ path # <<>>
  /\ \E c \in Unvisited : Enter(c)

(* Slip: the PHI nodes stay on the stacks.                                  *)
PushedStores(b, a) == Cardinality({i \in DOMAIN code[b] : code[b][i].op = "store" /\ code[b][i].ptr = a})

Defines(i, a) == i.op \in {"store", "phi"} /\ i.ptr = a

(* The number of definitions of the alloca in a block.                      *)
Pushed(b, a) == Cardinality({i \in DOMAIN Insts(b) : Defines(Insts(b)[i], a)})

(* The third loop of rename, and the return.  A stack with too little on it *)
(* would fail an assertion.                                                 *)
RenameReturn ==
  /\ status = "rename"
  /\ path # <<>>
  /\ Unvisited = {}
  /\ LET left(a) == Len(allocaStackMap[a]) - Pushed(Last(path), a) IN
       IF \E a \in Alloca : left(a) < 0
       THEN status' = "underflow" /\ UNCHANGED <<allocaStackMap, path>>
       ELSE /\ allocaStackMap' = [a \in Alloca |-> SubSeq(allocaStackMap[a], 1, left(a))]
            /\ path' = Front(path)
            /\ status' = IF Len(path) = 1 THEN "done" ELSE "rename"
  /\ UNCHANGED <<dtvars, code, dominanceFrontiers, todo, workingList, inserted, phis,
                 visitedDFSBlocks, replaced>>

M2Init ==
  /\ DTInit
  /\ code = [b \in Block |-> <<>>]
  /\ status = "frontiers"
  /\ dominanceFrontiers = [b \in Block |-> {}]
  /\ todo = <<>> /\ workingList = {} /\ inserted = {}
  /\ phis = [b \in Block |-> <<>>]
  /\ path = <<>> /\ visitedDFSBlocks = {}
  /\ allocaStackMap = [a \in Alloca |-> <<>>]
  /\ replaced = <<>>

M2Next ==
  \/ Analyse \/ computeDominanceFrontier \/ FindAllocas
  \/ insertPHINodes \/ NextAlloca
  \/ RenameEntry \/ RenameChild \/ RenameReturn

M2Spec == M2Init /\ [][M2Next]_<<dtvars, m2vars>>
M2FairSpec == M2Spec /\ WF_<<dtvars, m2vars>>(M2Next)
-----------------------------------------------------------------------------
(* The reference: definitions that reach a block, along the edges.          *)

Uninitialised == <<Null, 0>>

(* The last definition of a among the first n instructions of b, if any.    *)
LastDef(a, b, n) ==
  LET stores == {i \in 1 .. n : code[b][i].op = "store" /\ code[b][i].ptr = a} IN
    IF stores # {} THEN {<<b, CHOOSE i \in stores : \A j \in stores : j <= i>>}
    ELSE IF Contains(phis[b], a) THEN {<<b, 0>>} ELSE {}

(* Those that arrive at the start of every reached block.                   *)
Arriving(a) ==
  LET out(in, b) == LET d == LastDef(a, b, Len(code[b])) IN IF d = {} THEN in[b] ELSE d
      flow[n \in 0 .. N] ==
        [b \in Block |->
           (IF b = entry THEN {Uninitialised} ELSE {}) \cup
           (IF n = 0 THEN {} ELSE UNION {out(flow[n - 1], p) : p \in Preds(b) \cap Reached})]
  IN  flow[N]

(* The definitions of a that reach the end of the first n instructions of   *)
(* b, and those a load may read.                                            *)
ReachingAfter(a, b, n) ==
  LET d == LastDef(a, b, n) IN IF d = {} THEN Arriving(a)[b] ELSE d

Reaching(p) == ReachingAfter(At(p).ptr, p[1], p[2] - 1)

TreeIsRight == pc = "done" /\ \A b \in Reached \ {entry} : IsIdom(idomMap[b], b)
Promoted    == ToSet(Allocas)
Aborts      == {"undefined", "incoming", "pointer", "underflow"}
DominatesOrIs(a, b) == a = b \/ StrictlyDominates(a, b)

(* The definitions of the alloca among instructions, in order.              *)
Definitions(insts, a) ==
  FoldLeft(LAMBDA ds, i : IF Defines(i, a) THEN Append(ds, i.at) ELSE ds, <<>>, insts)

(* Types of the state; a block has one PHI node of an alloca at most, and a *)
(* call of rename is not entered again before it returns.                   *)
M2TypeOK ==
  /\ code \in [Block -> Seq(Inst)]
  /\ status \in {"frontiers", "collect", "place", "rename", "done", "threw"} \cup Aborts
  /\ dominanceFrontiers \in [Block -> SUBSET Block]
  /\ todo \in Seq(Alloca) /\ workingList \subseteq Block /\ inserted \subseteq Block
  /\ \A b \in Block : phis[b] \in Seq(Alloca) /\ IsInjective(phis[b])
  /\ path \in Seq(Block) /\ IsInjective(path) /\ ToSet(path) \subseteq visitedDFSBlocks
  /\ \A a \in Alloca : \A d \in ToSet(allocaStackMap[a]) : d \in Block \X Nat
  /\ DOMAIN replaced \subseteq Places

(* Where the tree is right, the frontier of a block is the set of blocks    *)
(* where its dominance ends: it dominates a predecessor, not the block.     *)
FrontiersAreFrontiers ==
  status = "collect" /\ TreeIsRight =>
    \A b \in Reached :
      dominanceFrontiers[b] =
        {x \in Reached : ~StrictlyDominates(b, x) /\
           \E p \in Preds(x) \cap Reached : DominatesOrIs(b, p)}

(* When renaming starts a block has a PHI node for a promoted alloca        *)
(* exactly where different definitions meet; no definition at all is one.   *)
PhisWhereDefinitionsMeet ==
  status = "rename" /\ visitedDFSBlocks = {} /\ TreeIsRight =>
    \A a \in Promoted, b \in Reached :
      Contains(phis[b], a) <=> Cardinality(Arriving(a)[b]) > 1

(* However renaming ended, every load of a promoted alloca it replaced was  *)
(* replaced with the one definition that reaches it on every path.          *)
LoadsSeeTheirDefinition ==
  status \in {"done"} \cup Aborts /\ TreeIsRight =>
    \A p \in DOMAIN replaced : At(p).ptr \in Promoted => Reaching(p) = {replaced[p]}

(* The stacks hold the definitions of the blocks on the path from the root  *)
(* of the tree to the block that is renamed, and nothing else: a sibling's  *)
(* definitions are gone, at the end all are.                                *)
StacksFollowThePath ==
  status \in {"rename", "done"} =>
    \A a \in Alloca :
      allocaStackMap[a] = FlattenSeq([i \in DOMAIN path |-> Definitions(Insts(path[i]), a)])

(* The loads of b that were replaced are those before its instruction i.    *)
StoppedAt(b, i) ==
  \A j \in DOMAIN code[b] : code[b][j].op = "load" => (<<b, j>> \in DOMAIN replaced <=> j < i)

(* A store to a is on every path to what follows the n-th instruction of b. *)
StoreDominates(a, b, n) ==
  \E p \in Places :
    /\ At(p).op = "store" /\ At(p).ptr = a
    /\ StrictlyDominates(p[1], b) \/ (p[1] = b /\ p[2] <= n)

(* No path to there has a store on it; an alloca that is not promoted has   *)
(* no PHI nodes, and a store on some of the paths does not help.            *)
NoDefinition(a, b, n) ==
  IF a \in Promoted THEN ReachingAfter(a, b, n) = {Uninitialised} ELSE ~StoreDominates(a, b, n)

(* No definition of its alloca reaches the load that fails; or all loads of *)
(* b were replaced, and none reaches the end of b for the PHI node it feeds *)
(* first.                                                                   *)
UndefinedIn(b) ==
  \/ \E i \in DOMAIN code[b] :
       /\ code[b][i].op = "load" /\ code[b][i].ptr # Other /\ StoppedAt(b, i)
       /\ NoDefinition(code[b][i].ptr, b, i - 1)
  \/ /\ StoppedAt(b, Len(code[b]) + 1) /\ SuccessorPhis(b) # <<>>
     /\ NoDefinition(Head(SuccessorPhis(b)), b, Len(code[b]))

(* The PHI node b feeds first is one where definitions meet, and on every   *)
(* path to the end of b there is one.                                       *)
MeetsAfter(b) ==
  /\ StoppedAt(b, Len(code[b]) + 1) /\ SuccessorPhis(b) # <<>>
  /\ LET a == Head(SuccessorPhis(b)) IN
       /\ Uninitialised \notin ReachingAfter(a, b, Len(code[b]))
       /\ \E s \in ToSet(succ[b]) : Contains(phis[s], a) /\ Cardinality(Arriving(a)[s]) > 1

(* The instruction that fails accesses no alloca.                           *)
StrayIn(b) ==
  \E i \in DOMAIN code[b] :
    code[b][i].op \in {"load", "store"} /\ code[b][i].ptr = Other /\ StoppedAt(b, i)

(* An assertion of rename fails only with a cause at the place where it     *)
(* fails: no path to the load, or to the end of the block that feeds the    *)
(* PHI node, has a store to that alloca (of one that is not promoted: no    *)
(* store dominates the load); the PHI node is one where definitions meet;   *)
(* that access is through a pointer that is no alloca.  at() throws on no   *)
(* tree that is right.                                                      *)
AbortsHaveACause ==
  status \in {"threw"} \cup Aborts /\ TreeIsRight =>
    LET b == Last(path) IN
      CASE status = "undefined" -> UndefinedIn(b)
        [] status = "incoming"  -> MeetsAfter(b)
        [] status = "pointer"   -> StrayIn(b)
        [] OTHER -> FALSE

(* The pass ends: every working list runs empty, and no block is renamed    *)
(* twice.                                                                   *)
PassEnds == <>(status \in {"done", "threw"} \cup Aborts)
=============================================================================

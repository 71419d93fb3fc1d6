---------------------------- MODULE Mem2RegProofs ----------------------------
(***************************************************************************)
(* Proofs about Mem2Reg, for every function, every code and every set of   *)
(* allocas, whatever order its working list and the children of a block    *)
(* come in.                                                                *)
(*                                                                         *)
(* The pass begins with the steps of DomTree and leaves its variables      *)
(* alone afterwards: it implements DTSpec (AnalysisIsDomTree), and the     *)
(* invariant DTInv of DomTreeProofs holds of it.                           *)
(*                                                                         *)
(* Its own invariant is M2Inv.  A load, a store or a PHI node is a step of *)
(* the fold of Rename, and what the fold pushes on the stack of an alloca  *)
(* are the definitions of the block, in order (RunPushes); their number is *)
(* what the return pops (PushedIsDefined).  So the stacks are always the   *)
(* definitions along the path of the calls that have not returned          *)
(* (Stacked): a call appends those of its block, a return takes them away. *)
(* A PHI node is inserted once because inserted remembers the blocks of    *)
(* the alloca in hand, and the allocas of the list are all different       *)
(* (OnePhiEach).                                                           *)
(*                                                                         *)
(* The second part is about the tree.  If the idoms are the immediate      *)
(* dominators (TreeIsRight), Dominates is dominance and the frontier of a  *)
(* block, built from those of its children and its successors, is right by *)
(* induction on the height of the tree (FrontiersAreRight).  They are      *)
(* where DomTreeProofs says so (FavourableTreesAreRight).                  *)
(*                                                                         *)
(* The third part is what the promotion of allocas does, for every control *)
(* flow graph whose dominator tree is right and for every code.            *)
(* The working list of PromoteMemToReg closes the blocks with stores under *)
(* the dominance frontier (PlaceInv). A definition arrives at a block      *)
(* without a PHI node only from the nearest dominator that has one, and at *)
(* a PHI node at least two arrive: PHI nodes are where definitions meet.   *)
(* The calls of rename that have not returned are for the dominators of    *)
(* the block in hand (PathInv), so that the top of a stack is the nearest  *)
(* definition above the block, or the newest of the block itself: what a   *)
(* load is replaced with is what reaches it (LoadInv), and an empty stack, *)
(* or a PHI node in a successor, is a cause in the function (CauseInv).    *)
(*                                                                         *)
(* The folds are unrolled one by one: a lemma about FoldLeft would need a  *)
(* parameter that is an operator.                                          *)
(***************************************************************************)
EXTENDS Mem2Reg, DomTreeProofs

(* A place of a definition.                                                 *)
Where == Block \X Nat

(* An instruction with its place.                                           *)
PlacedInst == [op : {"alloca", "load", "store", "use", "phi"}, ptr : Alloca \cup {Other},
               val : Alloca \cup {Other}, at : Where]

(* What CodesAssumption says of the code the pass works on.                 *)
CodeOK ==
  /\ code \in [Block -> Seq(Inst)]
  /\ \A b \in Block : \A i, j \in DOMAIN code[b] :
       code[b][i].op = "alloca" =>
         /\ code[b][i].ptr # Other
         /\ code[b][j].op = "alloca" /\ code[b][j].ptr = code[b][i].ptr => i = j

(* The PHI nodes are those of allocas.                                      *)
PhisOK == phis \in [Block -> Seq(Alloca)]

(* The list of instructions the loops of rename go over.                    *)
LEMMA InstsOK ==
  ASSUME CodeOK, PhisOK, NEW b \in Block
  PROVE  /\ Insts(b) \in Seq(PlacedInst)
         /\ \A i \in DOMAIN Insts(b) : Insts(b)[i].op = "load" => Insts(b)[i].at \in Places
<1> DEFINE ps == [i \in DOMAIN phis[b] |-> [op |-> "phi", ptr |-> phis[b][i], val |-> Other, at |-> <<b, 0>>]]
           cs == [i \in DOMAIN code[b] |-> [op |-> code[b][i].op, ptr |-> code[b][i].ptr,
                                            val |-> code[b][i].val, at |-> <<b, i>>]]
           n == Len(phis[b])
           m == Len(code[b])
<1>1. /\ n \in Nat /\ DOMAIN phis[b] = 1 .. n /\ \A i \in 1 .. n : phis[b][i] \in Alloca
      /\ m \in Nat /\ DOMAIN code[b] = 1 .. m /\ \A i \in 1 .. m : code[b][i] \in Inst
  BY LenProperties DEF CodeOK, PhisOK
<1>2. Insts(b) = ps \o cs
  BY DEF Insts
<1>3. ps \in Seq(PlacedInst) /\ Len(ps) = n
  <2>1. \A i \in 1 .. n : ps[i] \in PlacedInst
    BY <1>1 DEF PlacedInst, Where
  <2>2. ps \in [1 .. n -> PlacedInst]
    BY <1>1, <2>1
  <2> HIDE DEF ps
  <2> QED BY <1>1, <2>2, FunctionIsSeq
<1>4. cs \in Seq(PlacedInst) /\ Len(cs) = m
  <2>1. \A i \in 1 .. m : cs[i] \in PlacedInst
    BY <1>1 DEF PlacedInst, Where, Inst
  <2>2. cs \in [1 .. m -> PlacedInst]
    BY <1>1, <2>1
  <2> HIDE DEF cs
  <2> QED BY <1>1, <2>2, FunctionIsSeq
<1>5. \A i \in 1 .. n : ps[i].op = "phi"
  BY <1>1
<1>6. \A i \in 1 .. m : cs[i].at = <<b, i>> /\ <<b, i>> \in Places
  BY <1>1 DEF Places
<1> HIDE DEF ps, cs, n, m
<1>7. /\ ps \o cs \in Seq(PlacedInst) /\ Len(ps \o cs) = n + m
      /\ \A i \in 1 .. n + m : (ps \o cs)[i] = IF i <= n THEN ps[i] ELSE cs[i - n]
  BY <1>3, <1>4, ConcatProperties
<1>8. ASSUME NEW i \in DOMAIN Insts(b), Insts(b)[i].op = "load"
      PROVE  Insts(b)[i].at \in Places
  <2>1. i \in 1 .. n + m
    BY <1>2, <1>7, LenProperties
  <2>2. CASE i <= n
    BY <1>1, <1>2, <1>5, <1>7, <1>8, <2>1, <2>2
  <2>3. CASE ~(i <= n)
    <3>1. i - n \in 1 .. m
      BY <1>1, <2>1, <2>3
    <3>2. Insts(b)[i] = cs[i - n]
      BY <1>2, <1>7, <2>1, <2>3
    <3> QED BY <1>6, <3>1, <3>2
  <2> QED BY <2>2, <2>3
<1> QED BY <1>2, <1>7, <1>8

(* ds[k] is what the first k instructions of b define.                      *)
Grows(ds, b, a) ==
  /\ ds[0] = <<>>
  /\ \A i \in 1 .. Len(Insts(b)) :
       ds[i] = IF Defines(Insts(b)[i], a) THEN Append(ds[i - 1], Insts(b)[i].at) ELSE ds[i - 1]

(* The fold of Definitions.                                                 *)
LEMMA DefinitionSteps ==
  ASSUME CodeOK, PhisOK, NEW b \in Block, NEW a \in Alloca
  PROVE  \E ds \in [0 .. Len(Insts(b)) -> Seq(Where)] :
           Grows(ds, b, a) /\ Definitions(Insts(b), a) = ds[Len(Insts(b))]
<1> DEFINE sq == Insts(b)
           n == Len(sq)
           Grow(ds, i) == IF Defines(i, a) THEN Append(ds, i.at) ELSE ds
           step == [p \in (1 .. n) \X Seq(Where) |-> Grow(p[2], sq[p[1]])]
           Body(it) == [s \in SUBSET (1 .. n) |->
                          IF s = {} THEN <<>> ELSE Grow(it[s \ {Max(s)}], sq[Max(s)])]
           it == CHOOSE f : f = Body(f)
<1>1. n \in Nat /\ DOMAIN sq = 1 .. n /\ \A i \in 1 .. n : sq[i] \in PlacedInst
  BY InstsOK, LenProperties
<1>2. Definitions(Insts(b), a) = it[1 .. n]
  <2>1. Definitions(Insts(b), a) = (CHOOSE f : f = [s \in SUBSET DOMAIN sq |->
                   IF s = {} THEN <<>> ELSE Grow(f[s \ {Max(s)}], sq[Max(s)])])[DOMAIN sq]
    BY DEF Definitions, FoldLeft, MapThenFoldSet
  <2> QED BY <1>1, <2>1
<1> HIDE DEF sq, n
<1>3. ASSUME NEW ds \in Seq(Where), NEW i \in PlacedInst
      PROVE  Grow(ds, i) \in Seq(Where)
  <2>1. i.at \in Where
    BY DEF PlacedInst
  <2> QED BY <2>1, AppendProperties
<1>4. step \in [(1 .. n) \X Seq(Where) -> Seq(Where)]
  BY <1>1, <1>3
<1>5. PICK f \in [SUBSET (1 .. n) -> Seq(Where)] : FoldsUp(f, step, <<>>, n)
  <2>1. <<>> \in Seq(Where)
    BY EmptySeq
  <2> HIDE DEF step
  <2> QED BY <1>1, <1>4, <2>1, FoldExists
<1> HIDE DEF Grow
<1>6. f = Body(f)
  <2>1. ASSUME NEW s \in SUBSET (1 .. n), s # {}
        PROVE  f[s] = Grow(f[s \ {Max(s)}], sq[Max(s)])
    <3>1. Max(s) \in 1 .. n
      BY <1>1, <2>1, MaxOfNats
    <3>2. f[s] = step[<<Max(s), f[s \ {Max(s)}]>>]
      BY <1>5, <2>1 DEF FoldsUp
    <3>3. f[s \ {Max(s)}] \in Seq(Where)
      OBVIOUS
    <3> QED BY <3>1, <3>2, <3>3
  <2>2. f[{}] = <<>>
    BY <1>5 DEF FoldsUp
  <2> QED BY <2>1, <2>2
<1> HIDE DEF step, Body
<1>7. it = Body(it)
  BY <1>6
<1> HIDE DEF it
<1>8. /\ it[{}] = <<>>
      /\ \A s \in SUBSET (1 .. n) : s # {} => it[s] = Grow(it[s \ {Max(s)}], sq[Max(s)])
  BY <1>7 DEF Body
<1> DEFINE ds == [k \in 0 .. n |-> it[1 .. k]]
<1>9. ds[0] = <<>>
  <2>1. 1 .. 0 = {}
    OBVIOUS
  <2> QED BY <1>1, <1>8, <2>1
<1>10. ASSUME NEW i \in 1 .. n PROVE ds[i] = Grow(ds[i - 1], sq[i])
  <2>1. i - 1 \in Nat /\ (i - 1) + 1 = i /\ i \in 0 .. n /\ i - 1 \in 0 .. n /\ 1 .. i \in SUBSET (1 .. n)
    BY <1>1
  <2>2. Max(1 .. i) = i /\ (1 .. i) \ {i} = 1 .. i - 1 /\ 1 .. i # {}
    BY <2>1, LastOfInitial
  <2>3. it[1 .. i] = Grow(it[1 .. i - 1], sq[i])
    BY <1>8, <2>1, <2>2
  <2> QED BY <2>1, <2>3
<1>d. DOMAIN ds = 0 .. n /\ ds = [k \in 0 .. n |-> ds[k]] /\ ds[n] = it[1 .. n]
  BY <1>1
<1> HIDE DEF ds
<1> DEFINE T == {k \in 0 .. n : ds[k] \in Seq(Where)}
<1>11. \A k \in 0 .. n : k \in T
  <2>1. 0 \in T
    <3>1. <<>> \in Seq(Where) /\ 0 \in 0 .. n
      BY <1>1
    <3> QED BY <1>9, <3>1
  <2>2. ASSUME NEW k \in 0 .. n - 1, k \in T PROVE k + 1 \in T
    <3>1. k + 1 \in 1 .. n /\ k + 1 \in 0 .. n /\ (k + 1) - 1 = k
      BY <1>1
    <3>2. ds[k + 1] = Grow(ds[k], sq[k + 1]) /\ ds[k] \in Seq(Where) /\ sq[k + 1] \in PlacedInst
      BY <1>1, <1>10, <2>2, <3>1
    <3>3. ds[k + 1] \in Seq(Where)
      BY <1>3, <3>2
    <3> QED BY <3>1, <3>3
  <2> HIDE DEF T
  <2> QED BY <1>1, <2>1, <2>2, UpTo
<1>12. ds \in [0 .. n -> Seq(Where)]
  BY <1>11, <1>d
<1>13. Grows(ds, b, a)
  BY <1>9, <1>10 DEF Grows, Grow, sq, n
<1>14. Definitions(Insts(b), a) = ds[n]
  BY <1>2, <1>d
<1> QED BY <1>12, <1>13, <1>14 DEF n, sq

(* The third loop of rename counts what the first one pushed.               *)
LEMMA PushedIsDefined ==
  ASSUME CodeOK, PhisOK, NEW b \in Block, NEW a \in Alloca
  PROVE  /\ Definitions(Insts(b), a) \in Seq(Where)
         /\ Pushed(b, a) = Len(Definitions(Insts(b), a))
<1> DEFINE sq == Insts(b)
           n == Len(sq)
           Upto(k) == {i \in 1 .. k : Defines(sq[i], a)}
<1>1. n \in Nat /\ DOMAIN sq = 1 .. n /\ \A i \in 1 .. n : sq[i] \in PlacedInst
  BY InstsOK, LenProperties
<1>2. PICK ds \in [0 .. n -> Seq(Where)] : Grows(ds, b, a) /\ Definitions(Insts(b), a) = ds[n]
  BY DefinitionSteps
<1>3. /\ ds[0] = <<>>
      /\ \A i \in 1 .. n : ds[i] = IF Defines(sq[i], a) THEN Append(ds[i - 1], sq[i].at) ELSE ds[i - 1]
  BY <1>2 DEF Grows
<1>4. Pushed(b, a) = Cardinality(Upto(n))
  BY <1>1 DEF Pushed
<1> HIDE DEF sq, n
<1> DEFINE Good(k) == IsFiniteSet(Upto(k)) /\ Cardinality(Upto(k)) = Len(ds[k])
           T == {k \in 0 .. n : Good(k)}
<1>5. 0 \in T
  <2>1. Upto(0) = {}
    OBVIOUS
  <2>2. IsFiniteSet(Upto(0)) /\ Cardinality(Upto(0)) = 0
    BY <2>1, FS_EmptySet
  <2>3. Len(ds[0]) = 0
    BY <1>3
  <2> QED BY <1>1, <2>2, <2>3
<1>6. ASSUME NEW k \in 0 .. n - 1, k \in T PROVE k + 1 \in T
  <2>1. k \in Nat /\ k + 1 \in 1 .. n /\ k + 1 \in 0 .. n /\ k \in 0 .. n /\ (k + 1) - 1 = k
    BY <1>1
  <2>2. ds[k + 1] = IF Defines(sq[k + 1], a) THEN Append(ds[k], sq[k + 1].at) ELSE ds[k]
    BY <1>3, <2>1
  <2>3. ds[k] \in Seq(Where) /\ sq[k + 1].at \in Where
    BY <1>1, <2>1 DEF PlacedInst
  <2>4. IsFiniteSet(Upto(k)) /\ Cardinality(Upto(k)) = Len(ds[k])
    BY <1>6
  <2>5. CASE Defines(sq[k + 1], a)
    <3>1. Upto(k + 1) = Upto(k) \cup {k + 1} /\ k + 1 \notin Upto(k)
      BY <2>1, <2>5
    <3> HIDE DEF Upto
    <3>2. IsFiniteSet(Upto(k + 1)) /\ Cardinality(Upto(k + 1)) = Cardinality(Upto(k)) + 1
      <4>1. ASSUME NEW U, IsFiniteSet(U), NEW x, x \notin U
            PROVE  IsFiniteSet(U \cup {x}) /\ Cardinality(U \cup {x}) = Cardinality(U) + 1
        BY <4>1, FS_AddElement
      <4> QED BY <2>4, <3>1, <4>1
    <3>3. Len(ds[k + 1]) = Len(ds[k]) + 1
      BY <2>2, <2>3, <2>5, AppendProperties
    <3> QED BY <2>1, <2>4, <3>2, <3>3
  <2>6. CASE ~Defines(sq[k + 1], a)
    <3>1. Upto(k + 1) = Upto(k)
      <4>1. \A i \in 1 .. k + 1 : i \in 1 .. k \/ i = k + 1
        BY <2>1
      <4>2. \A i \in 1 .. k : i \in 1 .. k + 1
        BY <2>1
      <4> QED BY <2>6, <4>1, <4>2
    <3> QED BY <2>1, <2>2, <2>4, <2>6, <3>1
  <2> QED BY <2>5, <2>6
<1> HIDE DEF T
<1>7. \A k \in 0 .. n : k \in T
  BY <1>1, <1>5, <1>6, UpTo
<1>8. n \in 0 .. n
  BY <1>1
<1>9. Cardinality(Upto(n)) = Len(ds[n])
  BY <1>7, <1>8 DEF T
<1>10. ds[n] \in Seq(Where)
  BY <1>8
<1> QED BY <1>2, <1>4, <1>9, <1>10

(* What renaming has replaced.                                              *)
Repl == UNION {[D -> Where] : D \in SUBSET Places}
(* The state of the first loop of rename.                                   *)
Run == [stack : [Alloca -> Seq(Where)], replaced : Repl,
        why : {"none", "pointer", "undefined", "incoming"}]

(* One instruction.                                                         *)
LEMMA RenameRun ==
  ASSUME NEW run \in Run, NEW inst \in PlacedInst, inst.op = "load" => inst.at \in Places
  PROVE  /\ Rename(run, inst) \in Run
         /\ Rename(run, inst).why = "none" =>
              /\ run.why = "none"
              /\ \A a \in Alloca : Rename(run, inst).stack[a] =
                   IF Defines(inst, a) THEN Append(run.stack[a], inst.at) ELSE run.stack[a]
<1> DEFINE new == Rename(run, inst)
<1>1. /\ run.stack \in [Alloca -> Seq(Where)] /\ run.replaced \in Repl
      /\ run.why \in {"none", "pointer", "undefined", "incoming"}
      /\ inst.at \in Where /\ inst.ptr \in Alloca \cup {Other}
      /\ inst.op \in {"alloca", "load", "store", "use", "phi"}
  BY DEF Run, PlacedInst
<1>2. CASE run.why # "none"
  BY <1>2 DEF Rename
<1>3. CASE run.why = "none" /\ inst.op \in {"alloca", "use"}
  <2>1. new = run
    BY <1>3 DEF Rename
  <2>2. \A a \in Alloca : ~Defines(inst, a)
    BY <1>3 DEF Defines
  <2> QED BY <1>3, <2>1, <2>2
<1>4. CASE run.why = "none" /\ inst.op \notin {"alloca", "use"} /\ inst.ptr = Other
  <2>1. new = [run EXCEPT !.why = "pointer"]
    BY <1>4 DEF Rename
  <2>2. new \in Run /\ new.why = "pointer"
    BY <2>1 DEF Run
  <2> HIDE DEF new
  <2> QED BY <2>2 DEF new
<1>5. CASE run.why = "none" /\ inst.op \in {"store", "phi"} /\ inst.ptr # Other
  <2>1. new = [run EXCEPT !.stack[inst.ptr] = Append(@, inst.at)]
    BY <1>5 DEF Rename
  <2>2. inst.ptr \in Alloca
    BY <1>1, <1>5
  <2>3. Append(run.stack[inst.ptr], inst.at) \in Seq(Where)
    BY <1>1, <2>2, AppendProperties
  <2>4. new.stack = [run.stack EXCEPT ![inst.ptr] = Append(run.stack[inst.ptr], inst.at)]
    BY <2>1 DEF Run
  <2>5. new.stack \in [Alloca -> Seq(Where)]
    BY <1>1, <2>3, <2>4
  <2>6. new \in Run
    BY <2>1, <2>5 DEF Run
  <2>7. \A a \in Alloca : Defines(inst, a) <=> a = inst.ptr
    BY <1>5 DEF Defines
  <2>8. \A a \in Alloca : new.stack[a] = IF a = inst.ptr THEN Append(run.stack[a], inst.at) ELSE run.stack[a]
    BY <1>1, <2>4
  <2> HIDE DEF new
  <2> QED BY <1>5, <2>6, <2>7, <2>8 DEF new
<1>6. CASE run.why = "none" /\ inst.op = "load" /\ inst.ptr # Other
  <2>1. inst.ptr \in Alloca /\ inst.at \in Places
    BY <1>1, <1>6
  <2>2. \A a \in Alloca : ~Defines(inst, a)
    BY <1>6 DEF Defines
  <2>3. CASE run.stack[inst.ptr] = <<>>
    <3>1. new = [run EXCEPT !.why = "undefined"]
      BY <1>6, <2>3 DEF Rename
    <3>2. new \in Run /\ new.why = "undefined"
      BY <3>1 DEF Run
    <3> HIDE DEF new
    <3> QED BY <3>2 DEF new
  <2>4. CASE run.stack[inst.ptr] # <<>>
    <3> DEFINE top == Newest(run.stack[inst.ptr])
               rep == [p \in DOMAIN run.replaced \cup {inst.at} |->
                         IF p = inst.at THEN top ELSE run.replaced[p]]
    <3>1. new = [run EXCEPT !.replaced = rep]
      BY <1>6, <2>4 DEF Rename
    <3>2. top \in Where
      BY <1>1, <2>1, <2>4, LastIn DEF Newest
    <3> HIDE DEF top
    <3>3. PICK D \in SUBSET Places : run.replaced \in [D -> Where]
      BY <1>1 DEF Repl
    <3>4. D \cup {inst.at} \in SUBSET Places /\ rep \in [D \cup {inst.at} -> Where]
      BY <2>1, <3>2, <3>3
    <3> HIDE DEF rep
    <3>5. rep \in Repl
      BY <3>4 DEF Repl
    <3> HIDE DEF new
    <3>6. new \in Run /\ new.stack = run.stack /\ new.why = run.why
      BY <3>1, <3>5 DEF Run
    <3> QED BY <1>6, <2>2, <3>6 DEF new
  <2> QED BY <2>3, <2>4
<1> QED BY <1>1, <1>2, <1>3, <1>4, <1>5, <1>6

(* The state rename begins its first loop in.                               *)
Start == [stack |-> allocaStackMap, replaced |-> replaced, why |-> "none"]

(* rs[k] is the state after the first k instructions of b.                  *)
Runs(rs, b) ==
  rs[0] = Start /\ \A i \in 1 .. Len(Insts(b)) : rs[i] = Rename(rs[i - 1], Insts(b)[i])

(* The fold of the first loop of rename.                                    *)
LEMMA RunSteps ==
  ASSUME CodeOK, PhisOK, NEW b \in Block, Start \in Run
  PROVE  \E rs \in [0 .. Len(Insts(b)) -> Run] :
           Runs(rs, b) /\ FoldLeft(Rename, Start, Insts(b)) = rs[Len(Insts(b))]
<1> DEFINE sq == Insts(b)
           n == Len(sq)
           start == Start
           step == [p \in (1 .. n) \X Run |-> Rename(p[2], sq[p[1]])]
           Body(it) == [s \in SUBSET (1 .. n) |->
                          IF s = {} THEN start ELSE Rename(it[s \ {Max(s)}], sq[Max(s)])]
           it == CHOOSE f : f = Body(f)
<1>1. /\ n \in Nat /\ DOMAIN sq = 1 .. n /\ (\A i \in 1 .. n : sq[i] \in PlacedInst)
      /\ \A i \in 1 .. n : sq[i].op = "load" => sq[i].at \in Places
  BY InstsOK, LenProperties
<1>2. FoldLeft(Rename, Start, Insts(b)) = it[1 .. n]
  <2>1. FoldLeft(Rename, start, sq) = (CHOOSE f : f = [s \in SUBSET DOMAIN sq |->
                   IF s = {} THEN start ELSE Rename(f[s \ {Max(s)}], sq[Max(s)])])[DOMAIN sq]
    BY DEF FoldLeft, MapThenFoldSet
  <2> QED BY <1>1, <2>1
<1> HIDE DEF sq, n, start
<1>3. ASSUME NEW i \in 1 .. n, NEW run \in Run
      PROVE  Rename(run, sq[i]) \in Run
  BY <1>1, RenameRun
<1>4. step \in [(1 .. n) \X Run -> Run]
  BY <1>3
<1>5. PICK f \in [SUBSET (1 .. n) -> Run] : FoldsUp(f, step, start, n)
  <2>1. start \in Run
    BY DEF start
  <2> HIDE DEF step
  <2> QED BY <1>1, <1>4, <2>1, FoldExists
<1>6. f = Body(f)
  <2>1. ASSUME NEW s \in SUBSET (1 .. n), s # {}
        PROVE  f[s] = Rename(f[s \ {Max(s)}], sq[Max(s)])
    <3>1. Max(s) \in 1 .. n
      BY <1>1, <2>1, MaxOfNats
    <3>2. f[s] = step[<<Max(s), f[s \ {Max(s)}]>>]
      BY <1>5, <2>1 DEF FoldsUp
    <3>3. f[s \ {Max(s)}] \in Run
      OBVIOUS
    <3> QED BY <3>1, <3>2, <3>3
  <2>2. f[{}] = start
    BY <1>5 DEF FoldsUp
  <2> QED BY <2>1, <2>2
<1> HIDE DEF step, Body
<1>7. it = Body(it)
  BY <1>6
<1> HIDE DEF it
<1>8. /\ it[{}] = start
      /\ \A s \in SUBSET (1 .. n) : s # {} => it[s] = Rename(it[s \ {Max(s)}], sq[Max(s)])
  BY <1>7 DEF Body
<1> DEFINE rs == [k \in 0 .. n |-> it[1 .. k]]
<1>9. rs[0] = start
  <2>1. 1 .. 0 = {}
    OBVIOUS
  <2> QED BY <1>1, <1>8, <2>1
<1>10. ASSUME NEW i \in 1 .. n PROVE rs[i] = Rename(rs[i - 1], sq[i])
  <2>1. i - 1 \in Nat /\ (i - 1) + 1 = i /\ i \in 0 .. n /\ i - 1 \in 0 .. n /\ 1 .. i \in SUBSET (1 .. n)
    BY <1>1
  <2>2. Max(1 .. i) = i /\ (1 .. i) \ {i} = 1 .. i - 1 /\ 1 .. i # {}
    BY <2>1, LastOfInitial
  <2>3. it[1 .. i] = Rename(it[1 .. i - 1], sq[i])
    BY <1>8, <2>1, <2>2
  <2> QED BY <2>1, <2>3
<1>d. DOMAIN rs = 0 .. n /\ rs = [k \in 0 .. n |-> rs[k]] /\ rs[n] = it[1 .. n]
  BY <1>1
<1> HIDE DEF rs
<1> DEFINE T == {k \in 0 .. n : rs[k] \in Run}
<1>11. \A k \in 0 .. n : k \in T
  <2>1. 0 \in T
    <3>1. 0 \in 0 .. n /\ start \in Run
      BY <1>1 DEF start
    <3> QED BY <1>9, <3>1
  <2>2. ASSUME NEW k \in 0 .. n - 1, k \in T PROVE k + 1 \in T
    <3>1. k + 1 \in 1 .. n /\ k + 1 \in 0 .. n /\ (k + 1) - 1 = k
      BY <1>1
    <3>2. rs[k + 1] = Rename(rs[k], sq[k + 1]) /\ rs[k] \in Run
      BY <1>10, <2>2, <3>1
    <3>3. rs[k + 1] \in Run
      BY <1>3, <3>1, <3>2
    <3> QED BY <3>1, <3>3
  <2> HIDE DEF T
  <2> QED BY <1>1, <2>1, <2>2, UpTo
<1>12. rs \in [0 .. n -> Run]
  BY <1>11, <1>d
<1>13. Runs(rs, b)
  BY <1>9, <1>10 DEF Runs, sq, n, start
<1>14. FoldLeft(Rename, Start, Insts(b)) = rs[n]
  BY <1>2, <1>d
<1> QED BY <1>12, <1>13, <1>14 DEF n, sq

(* While nothing is wrong, the stacks hold what they held and the           *)
(* definitions met so far.                                                  *)
LEMMA RunStacks ==
  ASSUME CodeOK, PhisOK, NEW b \in Block, Start \in Run, NEW a \in Alloca,
         NEW rs \in [0 .. Len(Insts(b)) -> Run], Runs(rs, b),
         NEW ds \in [0 .. Len(Insts(b)) -> Seq(Where)], Grows(ds, b, a)
  PROVE  \A k \in 0 .. Len(Insts(b)) : rs[k].why = "none" => rs[k].stack[a] = allocaStackMap[a] \o ds[k]
<1> DEFINE sq == Insts(b)
           n == Len(sq)
<1>1. /\ n \in Nat /\ DOMAIN sq = 1 .. n /\ (\A i \in 1 .. n : sq[i] \in PlacedInst)
      /\ \A i \in 1 .. n : sq[i].op = "load" => sq[i].at \in Places
  BY InstsOK, LenProperties
<1>m. rs[0] = Start /\ \A i \in 1 .. n : rs[i] = Rename(rs[i - 1], sq[i])
  BY DEF Runs
<1>2. /\ ds[0] = <<>>
      /\ \A i \in 1 .. n : ds[i] = IF Defines(sq[i], a) THEN Append(ds[i - 1], sq[i].at) ELSE ds[i - 1]
  BY DEF Grows
<1>r. rs \in [0 .. n -> Run] /\ ds \in [0 .. n -> Seq(Where)]
  OBVIOUS
<1>s. allocaStackMap[a] \in Seq(Where)
  BY DEF Run, Start
<1> HIDE DEF sq, n
<1> DEFINE Good(k) == rs[k].why = "none" => rs[k].stack[a] = allocaStackMap[a] \o ds[k]
           T == {k \in 0 .. n : Good(k)}
<1>3. 0 \in T
  <2>1. allocaStackMap[a] \o <<>> = allocaStackMap[a]
    BY <1>s, ConcatEmptySeq
  <2>2. Start.stack[a] = allocaStackMap[a]
    BY DEF Start
  <2>3. rs[0].stack[a] = allocaStackMap[a] \o ds[0]
    BY <1>m, <1>2, <2>1, <2>2
  <2>4. Good(0) /\ 0 \in 0 .. n
    BY <1>1, <2>3
  <2> HIDE DEF Good
  <2> QED BY <2>4
<1>4. ASSUME NEW k \in 0 .. n - 1, k \in T PROVE k + 1 \in T
  <2>1. k + 1 \in 1 .. n /\ k + 1 \in 0 .. n /\ k \in 0 .. n /\ (k + 1) - 1 = k
    BY <1>1
  <2> DEFINE i == sq[k + 1]
  <2>2. i \in PlacedInst /\ (i.op = "load" => i.at \in Places) /\ rs[k] \in Run /\ ds[k] \in Seq(Where)
    BY <1>1, <1>r, <2>1
  <2>3. rs[k + 1] = Rename(rs[k], i)
        /\ ds[k + 1] = IF Defines(i, a) THEN Append(ds[k], i.at) ELSE ds[k]
    BY <1>m, <1>2, <2>1
  <2> HIDE DEF i
  <2>4. SUFFICES ASSUME rs[k + 1].why = "none"
                 PROVE  rs[k + 1].stack[a] = allocaStackMap[a] \o ds[k + 1]
    BY <2>1
  <2>5. rs[k].why = "none"
        /\ rs[k + 1].stack[a] = IF Defines(i, a) THEN Append(rs[k].stack[a], i.at) ELSE rs[k].stack[a]
    BY <2>2, <2>3, <2>4, RenameRun
  <2>6. rs[k].stack[a] = allocaStackMap[a] \o ds[k]
    BY <1>4, <2>5
  <2>7. Append(allocaStackMap[a] \o ds[k], i.at) = allocaStackMap[a] \o Append(ds[k], i.at)
    <3>1. i.at \in Where
      BY <2>2 DEF PlacedInst
    <3>2. <<i.at>> \in Seq(Where) /\ allocaStackMap[a] \o ds[k] \in Seq(Where)
      BY <1>s, <2>2, <3>1, ConcatProperties
    <3>3. Append(allocaStackMap[a] \o ds[k], i.at) = (allocaStackMap[a] \o ds[k]) \o <<i.at>>
      BY <3>1, <3>2, AppendIsConcat
    <3>4. Append(ds[k], i.at) = ds[k] \o <<i.at>>
      BY <2>2, <3>1, AppendIsConcat
    <3>5. (allocaStackMap[a] \o ds[k]) \o <<i.at>> = allocaStackMap[a] \o (ds[k] \o <<i.at>>)
      <4>1. \A s, t, u \in Seq(Where) : (s \o t) \o u = s \o (t \o u)
        BY ConcatAssociative
      <4>2. ds[k] \in Seq(Where) /\ <<i.at>> \in Seq(Where)
        BY <2>2, <3>2
      <4> QED BY <1>s, <4>1, <4>2
    <3> QED BY <3>3, <3>4, <3>5
  <2> QED BY <2>3, <2>5, <2>6, <2>7
<1> HIDE DEF T
<1>5. \A k \in 0 .. n : k \in T
  BY <1>1, <1>3, <1>4, UpTo
<1> QED BY <1>5 DEF T, n, sq

(* The definitions of the block are on the stacks when its children start.  *)
LEMMA RunPushes ==
  ASSUME CodeOK, PhisOK, NEW b \in Block, Start \in Run
  PROVE  LET run == Incoming(FoldLeft(Rename, Start, Insts(b)), b) IN
           /\ run \in Run
           /\ run.why = "none" =>
                \A a \in Alloca : run.stack[a] = allocaStackMap[a] \o Definitions(Insts(b), a)
<1> DEFINE sq == Insts(b)
           n == Len(sq)
<1>1. /\ n \in Nat /\ DOMAIN sq = 1 .. n /\ (\A i \in 1 .. n : sq[i] \in PlacedInst)
      /\ \A i \in 1 .. n : sq[i].op = "load" => sq[i].at \in Places
  BY InstsOK, LenProperties
<1>2. PICK rs \in [0 .. n -> Run] : Runs(rs, b) /\ FoldLeft(Rename, Start, sq) = rs[n]
  BY RunSteps
<1>3. rs[0] = Start /\ \A i \in 1 .. n : rs[i] = Rename(rs[i - 1], sq[i])
  BY <1>2 DEF Runs
<1>4. n \in 0 .. n /\ rs[n] \in Run
  BY <1>1
<1>5. ASSUME NEW a \in Alloca, rs[n].why = "none"
      PROVE  rs[n].stack[a] = allocaStackMap[a] \o Definitions(Insts(b), a)
  <2>1. PICK ds \in [0 .. n -> Seq(Where)] : Grows(ds, b, a) /\ Definitions(Insts(b), a) = ds[n]
    BY DefinitionSteps
  <2>2. \A k \in 0 .. n : rs[k].why = "none" => rs[k].stack[a] = allocaStackMap[a] \o ds[k]
    BY <1>2, <2>1, RunStacks
  <2> QED BY <1>4, <1>5, <2>1, <2>2
<1> DEFINE last == FoldLeft(Rename, Start, sq)
           run == Incoming(last, b)
<1>6. last \in Run /\ (last.why = "none" =>
         \A a \in Alloca : last.stack[a] = allocaStackMap[a] \o Definitions(Insts(b), a))
  BY <1>2, <1>4, <1>5
<1> HIDE DEF last
<1>7. run \in Run /\ (run.why = "none" => last.why = "none" /\ run.stack = last.stack)
  BY <1>6 DEF Incoming, Run
<1> HIDE DEF run
<1>8. run \in Run /\ (run.why = "none" =>
         \A a \in Alloca : run.stack[a] = allocaStackMap[a] \o Definitions(Insts(b), a))
  BY <1>6, <1>7
<1> QED BY <1>8 DEF run, last

(* fd[k] is what the first k instructions of the entry block promote.       *)
Finds(fd) ==
  /\ fd[0] = <<>>
  /\ \A i \in 1 .. Len(code[entry]) :
       fd[i] = IF code[entry][i].op = "alloca" /\ isAllocaPromotable(code[entry][i].ptr)
               THEN Append(fd[i - 1], code[entry][i].ptr) ELSE fd[i - 1]

(* The fold of Allocas.                                                     *)
LEMMA FindSteps ==
  ASSUME CodeOK, entry \in Block
  PROVE  \E fd \in [0 .. Len(code[entry]) -> Seq(Alloca)] :
           Finds(fd) /\ Allocas = fd[Len(code[entry])]
<1> DEFINE sq == code[entry]
           n == Len(sq)
           Grow(fd, i) == IF i.op = "alloca" /\ isAllocaPromotable(i.ptr) THEN Append(fd, i.ptr) ELSE fd
           step == [p \in (1 .. n) \X Seq(Alloca) |-> Grow(p[2], sq[p[1]])]
           Body(it) == [s \in SUBSET (1 .. n) |->
                          IF s = {} THEN <<>> ELSE Grow(it[s \ {Max(s)}], sq[Max(s)])]
           it == CHOOSE f : f = Body(f)
<1>1. n \in Nat /\ DOMAIN sq = 1 .. n
      /\ \A i \in 1 .. n : sq[i] \in Inst /\ (sq[i].op = "alloca" => sq[i].ptr \in Alloca)
  <2>1. sq \in Seq(Inst) /\ \A i \in DOMAIN sq : sq[i].op = "alloca" => sq[i].ptr # Other
    BY DEF CodeOK
  <2>2. n \in Nat /\ DOMAIN sq = 1 .. n /\ \A i \in 1 .. n : sq[i] \in Inst
    BY <2>1, LenProperties
  <2> HIDE DEF sq, n
  <2> QED BY <2>1, <2>2 DEF Inst
<1>2. Allocas = it[1 .. n]
  <2>1. Allocas = (CHOOSE f : f = [s \in SUBSET DOMAIN sq |->
                   IF s = {} THEN <<>> ELSE Grow(f[s \ {Max(s)}], sq[Max(s)])])[DOMAIN sq]
    BY DEF Allocas, FoldLeft, MapThenFoldSet
  <2> QED BY <1>1, <2>1
<1> HIDE DEF sq, n
<1>3. ASSUME NEW fd \in Seq(Alloca), NEW i \in 1 .. n
      PROVE  Grow(fd, sq[i]) \in Seq(Alloca)
  BY <1>1, AppendProperties
<1>4. step \in [(1 .. n) \X Seq(Alloca) -> Seq(Alloca)]
  BY <1>3
<1>5. PICK f \in [SUBSET (1 .. n) -> Seq(Alloca)] : FoldsUp(f, step, <<>>, n)
  <2>1. <<>> \in Seq(Alloca)
    BY EmptySeq
  <2> HIDE DEF step
  <2> QED BY <1>1, <1>4, <2>1, FoldExists
<1> HIDE DEF Grow
<1>6. f = Body(f)
  <2>1. ASSUME NEW s \in SUBSET (1 .. n), s # {}
        PROVE  f[s] = Grow(f[s \ {Max(s)}], sq[Max(s)])
    <3>1. Max(s) \in 1 .. n
      BY <1>1, <2>1, MaxOfNats
    <3>2. f[s] = step[<<Max(s), f[s \ {Max(s)}]>>]
      BY <1>5, <2>1 DEF FoldsUp
    <3>3. f[s \ {Max(s)}] \in Seq(Alloca)
      OBVIOUS
    <3> QED BY <3>1, <3>2, <3>3
  <2>2. f[{}] = <<>>
    BY <1>5 DEF FoldsUp
  <2> QED BY <2>1, <2>2
<1> HIDE DEF step, Body
<1>7. it = Body(it)
  BY <1>6
<1> HIDE DEF it
<1>8. /\ it[{}] = <<>>
      /\ \A s \in SUBSET (1 .. n) : s # {} => it[s] = Grow(it[s \ {Max(s)}], sq[Max(s)])
  BY <1>7 DEF Body
<1> DEFINE fd == [k \in 0 .. n |-> it[1 .. k]]
<1>9. fd[0] = <<>>
  <2>1. 1 .. 0 = {}
    OBVIOUS
  <2> QED BY <1>1, <1>8, <2>1
<1>10. ASSUME NEW i \in 1 .. n PROVE fd[i] = Grow(fd[i - 1], sq[i])
  <2>1. i - 1 \in Nat /\ (i - 1) + 1 = i /\ i \in 0 .. n /\ i - 1 \in 0 .. n /\ 1 .. i \in SUBSET (1 .. n)
    BY <1>1
  <2>2. Max(1 .. i) = i /\ (1 .. i) \ {i} = 1 .. i - 1 /\ 1 .. i # {}
    BY <2>1, LastOfInitial
  <2>3. it[1 .. i] = Grow(it[1 .. i - 1], sq[i])
    BY <1>8, <2>1, <2>2
  <2> QED BY <2>1, <2>3
<1>d. DOMAIN fd = 0 .. n /\ fd = [k \in 0 .. n |-> fd[k]] /\ fd[n] = it[1 .. n]
  BY <1>1
<1> HIDE DEF fd
<1> DEFINE T == {k \in 0 .. n : fd[k] \in Seq(Alloca)}
<1>11. \A k \in 0 .. n : k \in T
  <2>1. 0 \in T
    <3>1. 0 \in 0 .. n /\ <<>> \in Seq(Alloca)
      BY <1>1, EmptySeq
    <3> QED BY <1>9, <3>1
  <2>2. ASSUME NEW k \in 0 .. n - 1, k \in T PROVE k + 1 \in T
    <3>1. k + 1 \in 1 .. n /\ k + 1 \in 0 .. n /\ (k + 1) - 1 = k
      BY <1>1
    <3>2. fd[k + 1] = Grow(fd[k], sq[k + 1]) /\ fd[k] \in Seq(Alloca)
      BY <1>10, <2>2, <3>1
    <3>3. fd[k + 1] \in Seq(Alloca)
      BY <1>3, <3>1, <3>2
    <3> QED BY <3>1, <3>3
  <2> HIDE DEF T
  <2> QED BY <1>1, <2>1, <2>2, UpTo
<1>12. fd \in [0 .. n -> Seq(Alloca)]
  BY <1>11, <1>d
<1>13. Finds(fd)
  BY <1>9, <1>10 DEF Finds, Grow, sq, n
<1>14. Allocas = fd[n]
  BY <1>2, <1>d
<1> QED BY <1>12, <1>13, <1>14 DEF n, sq

(* The allocas that are promoted are all different.                         *)
LEMMA AllocasDiffer ==
  ASSUME CodeOK, entry \in Block
  PROVE  Allocas \in Seq(Alloca) /\ IsInjective(Allocas)
<1> DEFINE sq == code[entry]
           n == Len(sq)
<1>1. n \in Nat /\ DOMAIN sq = 1 .. n
      /\ \A i, j \in 1 .. n : sq[i].op = "alloca" =>
           sq[i].ptr # Other /\ (sq[j].op = "alloca" /\ sq[j].ptr = sq[i].ptr => i = j)
  <2>1. sq \in Seq(Inst)
    BY DEF CodeOK
  <2>2. n \in Nat /\ DOMAIN sq = 1 .. n
    BY <2>1, LenProperties
  <2> QED BY <2>2 DEF CodeOK
<1>p. \A i \in 1 .. n : sq[i].op = "alloca" => sq[i].ptr \in Alloca
  <2>1. \A i \in 1 .. n : sq[i] \in Inst
    BY <1>1, LenProperties DEF CodeOK
  <2> QED BY <1>1, <2>1 DEF Inst
<1>2. PICK fd \in [0 .. n -> Seq(Alloca)] : Finds(fd) /\ Allocas = fd[n]
  BY FindSteps
<1>3. /\ fd[0] = <<>>
      /\ \A i \in 1 .. n : fd[i] = IF sq[i].op = "alloca" /\ isAllocaPromotable(sq[i].ptr)
                                  THEN Append(fd[i - 1], sq[i].ptr) ELSE fd[i - 1]
  BY <1>2 DEF Finds
<1> HIDE DEF sq, n
<1> DEFINE Good(k) == /\ IsInjective(fd[k])
                      /\ \A x \in ToSet(fd[k]) : \E i \in 1 .. k : sq[i].op = "alloca" /\ sq[i].ptr = x
           T == {k \in 0 .. n : Good(k)}
<1>4. 0 \in T
  <2>1. IsInjective(<<>>) /\ ToSet(<<>>) = {}
    BY DEF IsInjective, ToSet
  <2> QED BY <1>1, <1>3, <2>1
<1>5. ASSUME NEW k \in 0 .. n - 1, k \in T PROVE k + 1 \in T
  <2>1. k + 1 \in 1 .. n /\ k + 1 \in 0 .. n /\ k \in 0 .. n /\ (k + 1) - 1 = k
        /\ \A i \in 1 .. k : i \in 1 .. n /\ i \in 1 .. k + 1 /\ i # k + 1
    BY <1>1
  <2>2. fd[k] \in Seq(Alloca) /\ Good(k)
    BY <1>5, <2>1
  <2>3. CASE sq[k + 1].op = "alloca" /\ isAllocaPromotable(sq[k + 1].ptr)
    <3> DEFINE e == sq[k + 1].ptr
    <3>1. fd[k + 1] = Append(fd[k], e) /\ e \in Alloca
      BY <1>3, <1>p, <2>1, <2>3
    <3>2. e \notin ToSet(fd[k])
      BY <1>1, <2>1, <2>2, <2>3
    <3>3. ToSet(fd[k + 1]) = ToSet(fd[k]) \cup {e} /\ IsInjective(fd[k + 1])
      BY <2>2, <3>1, <3>2, AppendNodes
    <3>4. k + 1 \in 1 .. k + 1
      BY <2>1
    <3>5. Good(k + 1)
      BY <2>1, <2>2, <2>3, <3>3, <3>4
    <3> QED BY <2>1, <3>5
  <2>4. CASE ~(sq[k + 1].op = "alloca" /\ isAllocaPromotable(sq[k + 1].ptr))
    <3>1. fd[k + 1] = fd[k]
      BY <1>3, <2>1, <2>4
    <3>2. Good(k + 1)
      BY <2>1, <2>2, <3>1
    <3> QED BY <2>1, <3>2
  <2> QED BY <2>3, <2>4
<1> HIDE DEF Good
<1>6. \A k \in 0 .. n : k \in T
  BY <1>1, <1>4, <1>5, UpTo
<1>7. n \in 0 .. n /\ Good(n) /\ fd[n] \in Seq(Alloca)
  BY <1>1, <1>6
<1> QED BY <1>2, <1>7 DEF Good

(* fs[n] are the frontiers of n levels.                                     *)
Levels(fs) ==
  /\ fs[0] = [b \in Block |-> IF nodeDepthMap[b] = 0 THEN {} ELSE Local(b)]
  /\ \A n \in 1 .. N : fs[n] =
       [b \in Block |-> IF nodeDepthMap[b] = 0 THEN {}
                        ELSE Local(b) \cup {x \in UNION {fs[n - 1][c] : c \in Children(b)} : Passes(b, x)}]

(* The recursion of FrontiersUpTo.                                          *)
LEMMA FrontierSteps ==
  ASSUME DTTypeOK
  PROVE  FrontiersUpTo \in [0 .. N -> [Block -> SUBSET Block]] /\ Levels(FrontiersUpTo)
<1> DEFINE V == [Block -> SUBSET Block]
           Low == [b \in Block |-> IF nodeDepthMap[b] = 0 THEN {} ELSE Local(b)]
           Raised(f) == [b \in Block |-> IF nodeDepthMap[b] = 0 THEN {}
                        ELSE Local(b) \cup {x \in UNION {f[c] : c \in Children(b)} : Passes(b, x)}]
           g == [f \in V |-> Raised(f)]
           Body(fs) == [n \in 0 .. N |-> IF n = 0 THEN Low ELSE Raised(fs[n - 1])]
           front == CHOOSE f : f = Body(f)
<1>1. N \in Nat /\ \A b \in Block : Local(b) \in SUBSET Block /\ Children(b) \in SUBSET Block
  <2>1. \A b \in Block : ToSet(succ[b]) \subseteq Block
    BY Types, LenProperties DEF ToSet
  <2> QED BY <2>1, Blocks DEF Local, Children
<1>2. Low \in V /\ \A f \in V : Raised(f) \in V
  BY <1>1
<1>3. FrontiersUpTo = front
  <2> DEFINE Raw(fs) == [n \in 0 .. N |->
        [b \in Block |->
           IF nodeDepthMap[b] = 0 THEN {}
           ELSE Local(b) \cup
                (IF n = 0 THEN {}
                 ELSE {x \in UNION {fs[n - 1][c] : c \in Children(b)} : Passes(b, x)})]]
  <2>1. ASSUME NEW fs PROVE Raw(fs) = Body(fs)
    <3>1. ASSUME NEW n \in 0 .. N PROVE Raw(fs)[n] = Body(fs)[n]
      <4>1. CASE n = 0
        BY <4>1
      <4>2. CASE n # 0
        BY <4>2
      <4> QED BY <4>1, <4>2
    <3> QED BY <3>1
  <2>2. FrontiersUpTo = CHOOSE f : f = Raw(f)
    BY DEF FrontiersUpTo
  <2> HIDE DEF Raw, Body
  <2> QED BY <2>1, <2>2
<1>4. g \in [V -> V]
  BY <1>2
<1> HIDE DEF g, Low, Raised, V
<1>5. PICK f \in [0 .. N -> V] : Iterates(f, g, Low, N)
  BY <1>1, <1>2, <1>4, IterationExists
<1>6. ASSUME NEW n \in 0 .. N PROVE f[n] = IF n = 0 THEN Low ELSE Raised(f[n - 1])
  <2>1. CASE n = 0
    BY <1>5, <2>1 DEF Iterates
  <2>2. CASE n # 0
    <3>1. n \in 1 .. N /\ n - 1 \in 0 .. N
      BY <1>1, <2>2
    <3>2. f[n] = g[f[n - 1]] /\ f[n - 1] \in V
      BY <1>5, <3>1 DEF Iterates
    <3> QED BY <2>2, <3>2 DEF g
  <2> QED BY <2>1, <2>2
<1>7. f = Body(f)
  BY <1>6
<1> HIDE DEF Body
<1>8. front = Body(front)
  BY <1>7
<1> HIDE DEF front
<1>9. front[0] = Low /\ \A n \in 1 .. N : front[n] = Raised(front[n - 1])
  <2>1. front[0] = Low
    BY <1>1, <1>8 DEF Body
  <2>2. ASSUME NEW n \in 1 .. N PROVE front[n] = Raised(front[n - 1])
    <3>1. n \in 0 .. N /\ n # 0
      BY <1>1
    <3> QED BY <1>8, <3>1 DEF Body
  <2> QED BY <2>1, <2>2
<1>10. \A n \in 0 .. N : front[n] \in V
  <2> DEFINE T == {n \in 0 .. N : front[n] \in V}
  <2>1. 0 \in T
    BY <1>1, <1>2, <1>9
  <2>2. ASSUME NEW n \in 0 .. N - 1, n \in T PROVE n + 1 \in T
    <3>1. n + 1 \in 1 .. N /\ (n + 1) - 1 = n /\ n + 1 \in 0 .. N
      BY <1>1
    <3>2. front[n + 1] = Raised(front[n]) /\ front[n] \in V
      BY <1>9, <2>2, <3>1
    <3>3. front[n + 1] \in V
      BY <1>2, <3>2
    <3> QED BY <3>1, <3>3
  <2> HIDE DEF T
  <2>3. \A n \in 0 .. N : n \in T
    BY <1>1, <2>1, <2>2, UpTo
  <2> QED BY <2>3 DEF T
<1>11. front \in [0 .. N -> V]
  BY <1>8, <1>10 DEF Body
<1> QED BY <1>3, <1>9, <1>11 DEF Levels, V, Low, Raised

(* The definitions of every block, of every alloca.                         *)
DefMap == [b \in Block |-> [a \in Alloca |-> Definitions(Insts(b), a)]]
DefMaps == [Block -> [Alloca -> Seq(Where)]]

(* The definitions of a along the path p.                                   *)
Along(dm, p, a) == FlattenSeq([i \in DOMAIN p |-> dm[p[i]][a]])

(* A call of rename adds the definitions of its block to those of the path. *)
LEMMA AlongSteps ==
  ASSUME NEW dm \in DefMaps, NEW a \in Alloca, NEW p \in Seq(Block)
  PROVE  /\ Along(dm, p, a) \in Seq(Where)
         /\ p = <<>> => Along(dm, p, a) = <<>>
         /\ \A b \in Block : Along(dm, Append(p, b), a) = Along(dm, p, a) \o dm[b][a]
<1> DEFINE Seqs(q) == [i \in DOMAIN q |-> dm[q[i]][a]]
<1>1. ASSUME NEW q \in Seq(Block)
      PROVE  Seqs(q) \in Seq(Seq(Where)) /\ Len(Seqs(q)) = Len(q)
             /\ \A i \in 1 .. Len(q) : Seqs(q)[i] = dm[q[i]][a]
  <2>1. DOMAIN q = 1 .. Len(q) /\ Len(q) \in Nat /\ \A i \in 1 .. Len(q) : q[i] \in Block
    BY LenProperties
  <2>2. Seqs(q) \in [1 .. Len(q) -> Seq(Where)]
    BY <2>1 DEF DefMaps
  <2>3. \A i \in 1 .. Len(q) : Seqs(q)[i] = dm[q[i]][a]
    BY <2>1
  <2> HIDE DEF Seqs
  <2> QED BY <2>1, <2>2, <2>3, FunctionIsSeq
<1>2. Along(dm, p, a) \in Seq(Where)
  BY <1>1, FlattenNodes DEF Along
<1>3. p = <<>> => Along(dm, p, a) = <<>>
  <2>1. ASSUME p = <<>> PROVE Seqs(p) = <<>>
    <3>1. Seqs(p) \in Seq(Seq(Where)) /\ Len(Seqs(p)) = 0
      BY <1>1, <2>1
    <3> HIDE DEF Seqs
    <3> QED BY <3>1, EmptySeq
  <2> QED BY <1>1, <2>1, FlattenNodes DEF Along
<1>4. ASSUME NEW b \in Block PROVE Along(dm, Append(p, b), a) = Along(dm, p, a) \o dm[b][a]
  <2> DEFINE q == Append(p, b)
  <2>1. /\ q \in Seq(Block) /\ Len(q) = Len(p) + 1 /\ q[Len(p) + 1] = b
        /\ \A i \in 1 .. Len(p) : q[i] = p[i]
    BY AppendProperties
  <2> HIDE DEF q
  <2>d. dm[b][a] \in Seq(Where) /\ Len(p) \in Nat
    BY LenProperties DEF DefMaps
  <2>2. /\ Seqs(p) \in Seq(Seq(Where)) /\ Len(Seqs(p)) = Len(p)
        /\ \A i \in 1 .. Len(p) : Seqs(p)[i] = dm[p[i]][a]
    BY <1>1
  <2>3. /\ Seqs(q) \in Seq(Seq(Where)) /\ Len(Seqs(q)) = Len(p) + 1
        /\ \A i \in 1 .. Len(p) + 1 : Seqs(q)[i] = dm[q[i]][a]
    BY <1>1, <2>1
  <2> HIDE DEF Seqs
  <2> DEFINE r == Append(Seqs(p), dm[b][a])
  <2>4. /\ r \in Seq(Seq(Where)) /\ Len(r) = Len(p) + 1 /\ r[Len(p) + 1] = dm[b][a]
        /\ \A i \in 1 .. Len(p) : r[i] = Seqs(p)[i]
    BY <2>2, <2>d, AppendProperties
  <2> HIDE DEF r
  <2>5. \A i \in 1 .. Len(p) + 1 : Seqs(q)[i] = r[i]
    <3> SUFFICES ASSUME NEW i \in 1 .. Len(p) + 1 PROVE Seqs(q)[i] = r[i]
      OBVIOUS
    <3>1. i \in 1 .. Len(p) \/ i = Len(p) + 1
      BY <2>d
    <3> QED BY <2>1, <2>2, <2>3, <2>4, <3>1
  <2>6. Seqs(q) = r
    BY <2>3, <2>4, <2>5, SeqEqual
  <2>7. FlattenSeq(r) = FlattenSeq(Seqs(p)) \o dm[b][a]
    BY <2>2, <2>d, FlattenNodes DEF r
  <2> QED BY <2>6, <2>7 DEF Along, Seqs, q
<1> QED BY <1>2, <1>3, <1>4

(* A definition is a place.                                                 *)
LEMMA DefMapOK ==
  ASSUME CodeOK, PhisOK
  PROVE  DefMap \in DefMaps
BY PushedIsDefined DEF DefMap, DefMaps

(* Renaming changes no definition: only inserting PHI nodes does.           *)
LEMMA DefMapStays ==
  ASSUME code' = code, phis' = phis
  PROVE  DefMap' = DefMap
<1>1. \A b \in Block : Insts(b)' = Insts(b)
  BY DEF Insts
<1> QED BY <1>1 DEF DefMap

(* The types, with what the loops need.                                     *)
M2Types ==
  /\ CodeOK /\ PhisOK
  /\ status \in {"frontiers", "collect", "place", "rename", "done", "threw",
                 "undefined", "incoming", "pointer"}
  /\ dominanceFrontiers \in [Block -> SUBSET Block]
  /\ todo \in Seq(Alloca) /\ IsInjective(todo)
  /\ workingList \subseteq Block /\ inserted \subseteq Block
  /\ path \in Seq(Block) /\ IsInjective(path)
  /\ visitedDFSBlocks \subseteq Block /\ ToSet(path) \subseteq visitedDFSBlocks
  /\ allocaStackMap \in [Alloca -> Seq(Where)]
  /\ replaced \in Repl

(* An alloca to come has no PHI node yet; the one in hand has them in the   *)
(* blocks of inserted.                                                      *)
OnePhiEach ==
  /\ \A b \in Block : IsInjective(phis[b])
  /\ status \in {"frontiers", "collect"} => \A b \in Block : phis[b] = <<>>
  /\ status = "place" =>
       /\ todo # <<>>
       /\ \A b \in Block : \A x \in ToSet(phis[b]) :
            x \notin ToSet(Tail(todo)) /\ (x = Head(todo) => b \in inserted)

(* Until renaming starts there is nothing on the stacks.                    *)
NothingRenamed ==
  status \in {"frontiers", "collect", "place"} =>
    /\ path = <<>> /\ visitedDFSBlocks = {} /\ replaced = <<>>
    /\ \A a \in Alloca : allocaStackMap[a] = <<>>

(* The inductive form of StacksFollowThePath.                               *)
Stacked ==
  status \in {"rename", "done"} =>
    \A a \in Alloca : allocaStackMap[a] = Along(DefMap, path, a)

(* The inductive invariant of the pass.                                     *)
M2Inv == M2Types /\ OnePhiEach /\ NothingRenamed /\ Stacked

(* Nothing is replaced at first.                                            *)
LEMMA EmptyRepl == <<>> \in Repl
<1>1. <<>> \in [{} -> Where]
  OBVIOUS
<1> QED BY <1>1 DEF Repl

(* The invariant holds at the start.                                        *)
LEMMA M2InitInv == M2Init => M2Inv
<1> SUFFICES ASSUME M2Init PROVE M2Inv
  OBVIOUS
<1> USE DEF M2Init
<1>1. <<>> \in Seq(Inst) /\ <<>> \in Seq(Alloca) /\ <<>> \in Seq(Block) /\ <<>> \in Seq(Where)
      /\ IsInjective(<<>>) /\ ToSet(<<>>) = {} /\ DOMAIN <<>> = {}
  BY DEF IsInjective, ToSet
<1>2. CodeOK /\ PhisOK
  BY <1>1 DEF CodeOK, PhisOK
<1>3. M2Types
  BY <1>1, <1>2, EmptyRepl DEF M2Types
<1>4. OnePhiEach
  BY <1>1 DEF OnePhiEach
<1>5. NothingRenamed /\ Stacked
  BY DEF NothingRenamed, Stacked
<1> QED BY <1>3, <1>4, <1>5 DEF M2Inv

(* The analysis leaves the state of the pass alone.                         *)
LEMMA AnalyseInv == ASSUME M2Inv, UNCHANGED m2vars PROVE M2Inv'
<1> USE DEF m2vars
<1>1. CodeOK' /\ PhisOK' /\ Repl' = Repl
  BY DEF M2Inv, M2Types, CodeOK, PhisOK, Repl, Places
<1>2. M2Types'
  BY <1>1 DEF M2Inv, M2Types
<1>3. OnePhiEach' /\ NothingRenamed'
  BY DEF M2Inv, OnePhiEach, NothingRenamed
<1>4. DefMap' = DefMap
  BY DefMapStays
<1>5. Stacked'
  BY <1>4 DEF M2Inv, Stacked
<1> QED BY <1>2, <1>3, <1>5 DEF M2Inv

(* The frontiers are sets of blocks; the code is looked at from here on.    *)
LEMMA FrontiersInv == ASSUME DTTypeOK, M2Inv, computeDominanceFrontier PROVE M2Inv'
<1> USE DEF computeDominanceFrontier
<1>1. FrontiersUpTo[N] \in [Block -> SUBSET Block]
  <2>1. N \in 0 .. N
    BY Blocks
  <2> QED BY <2>1, FrontierSteps
<1>2. status = "frontiers" /\ status' \in {"threw", "collect"}
  OBVIOUS
<1>3. path = <<>> /\ visitedDFSBlocks = {} /\ replaced = <<>>
      /\ \A a \in Alloca : allocaStackMap[a] = <<>>
  BY <1>2 DEF M2Inv, NothingRenamed
<1>4. CodeOK'
  BY CodesAssumption DEF CodeOK
<1>5. replaced' \in Repl'
  <2>1. replaced' = <<>>
    BY <1>3
  <2>2. <<>> \in [{} -> Where]
    OBVIOUS
  <2> QED BY <2>1, <2>2 DEF Repl
<1>6. dominanceFrontiers' \in [Block -> SUBSET Block]
  BY <1>1 DEF M2Inv, M2Types
<1>7. M2Types'
  BY <1>2, <1>4, <1>5, <1>6 DEF M2Inv, M2Types, PhisOK
<1>8. OnePhiEach' /\ NothingRenamed' /\ Stacked'
  BY <1>2, <1>3 DEF M2Inv, OnePhiEach, NothingRenamed, Stacked
<1> QED BY <1>7, <1>8 DEF M2Inv

(* Nothing on the path, nothing on the stacks.                              *)
LEMMA NothingStacked ==
  ASSUME M2Inv, code' = code, phis' = phis, path' = <<>>, allocaStackMap' = allocaStackMap,
         \A a \in Alloca : allocaStackMap[a] = <<>>
  PROVE  Stacked'
<1>1. DefMap' = DefMap /\ DefMap \in DefMaps
  BY DefMapStays, DefMapOK DEF M2Inv, M2Types
<1>2. \A a \in Alloca : Along(DefMap, <<>>, a) = <<>>
  <2>1. <<>> \in Seq(Block)
    OBVIOUS
  <2> QED BY <1>1, <2>1, AlongSteps
<1> QED BY <1>1, <1>2 DEF Stacked

(* The allocas to promote are different ones, and have no PHI nodes.        *)
LEMMA FindAllocasInv == ASSUME DTTypeOK, M2Inv, FindAllocas PROVE M2Inv'
<1> USE DEF FindAllocas
<1>1. Allocas \in Seq(Alloca) /\ IsInjective(Allocas)
  BY AllocasDiffer DEF M2Inv, M2Types, DTTypeOK
<1>2. status = "collect" /\ status' \in {"done", "place"} /\ (status' = "place" => todo' # <<>>)
  OBVIOUS
<1>3. path = <<>> /\ visitedDFSBlocks = {} /\ replaced = <<>>
      /\ (\A a \in Alloca : allocaStackMap[a] = <<>>) /\ \A b \in Block : phis[b] = <<>>
  BY <1>2 DEF M2Inv, NothingRenamed, OnePhiEach
<1>4. \A a : DefBlocks(a) \subseteq Block
  BY DEF DefBlocks, Places
<1>5. workingList' \subseteq Block
  BY <1>4
<1>6. CodeOK' /\ PhisOK' /\ Repl' = Repl
  BY DEF M2Inv, M2Types, CodeOK, PhisOK, Repl, Places
<1>7. M2Types'
  <2>1. todo' \in Seq(Alloca) /\ IsInjective(todo')
    BY <1>1
  <2> QED BY <1>2, <1>5, <1>6, <2>1 DEF M2Inv, M2Types
<1>8. OnePhiEach'
  <2>1. ToSet(<<>>) = {} /\ \A b \in Block : phis'[b] = <<>>
    BY <1>3 DEF ToSet
  <2>2. \A b \in Block : IsInjective(phis'[b])
    BY DEF M2Inv, OnePhiEach
  <2> QED BY <1>2, <2>1, <2>2 DEF OnePhiEach
<1>9. NothingRenamed'
  BY <1>3 DEF NothingRenamed
<1>10. Stacked'
  BY <1>3, NothingStacked
<1> QED BY <1>7, <1>8, <1>9, <1>10 DEF M2Inv

(* insertPHINodes: a block that gets a PHI node had none of this alloca.    *)
LEMMA InsertInv == ASSUME M2Inv, insertPHINodes PROVE M2Inv'
<1>1. PICK b \in workingList :
        /\ phis' = [x \in Block |-> IF x \in Missing(b) THEN <<Head(todo)>> \o phis[x] ELSE phis[x]]
        /\ inserted' = inserted \cup Missing(b)
        /\ workingList' = (workingList \ {b}) \cup NewDefs(Head(todo), b)
  BY DEF insertPHINodes
<1>2. /\ status = "place"
      /\ UNCHANGED <<code, status, dominanceFrontiers, todo, path,
                     visitedDFSBlocks, allocaStackMap, replaced>>
  BY DEF insertPHINodes
<1>3. M2Types /\ OnePhiEach
  BY DEF M2Inv
<1>4. b \in Block /\ Missing(b) \subseteq Block /\ NewDefs(Head(todo), b) \subseteq Block
  BY <1>3 DEF M2Types, Missing, NewDefs
<1>5. Head(todo) \in Alloca /\ Head(todo) \notin ToSet(Tail(todo))
  <2>1. todo \in Seq(Alloca) /\ todo # <<>> /\ IsInjective(todo)
    BY <1>2, <1>3 DEF M2Types, OnePhiEach
  <2> QED BY <2>1, TailNodes
<1>6. ASSUME NEW x \in Block
      PROVE  /\ phis'[x] \in Seq(Alloca) /\ IsInjective(phis'[x])
             /\ \A y \in ToSet(phis'[x]) :
                  y \notin ToSet(Tail(todo)) /\ (y = Head(todo) => x \in inserted')
  <2>1. phis[x] \in Seq(Alloca) /\ IsInjective(phis[x])
        /\ \A y \in ToSet(phis[x]) : y \notin ToSet(Tail(todo)) /\ (y = Head(todo) => x \in inserted)
    BY <1>2, <1>3 DEF M2Types, PhisOK, OnePhiEach
  <2>2. CASE x \notin Missing(b)
    BY <1>1, <2>1, <2>2
  <2>3. CASE x \in Missing(b)
    <3> DEFINE h == <<Head(todo)>>
    <3>1. phis'[x] = h \o phis[x] /\ x \in inserted' /\ x \notin inserted
      BY <1>1, <2>3 DEF Missing
    <3>2. h \in Seq(Alloca) /\ ToSet(h) = {Head(todo)} /\ IsInjective(h)
      BY <1>5 DEF ToSet, IsInjective
    <3> HIDE DEF h
    <3>3. ToSet(h) \cap ToSet(phis[x]) = {}
      BY <2>1, <3>1, <3>2
    <3>4. /\ ToSet(h \o phis[x]) = ToSet(h) \cup ToSet(phis[x]) /\ IsInjective(h \o phis[x])
          /\ h \o phis[x] \in Seq(Alloca)
      BY <2>1, <3>2, <3>3, ConcatNodes, ConcatProperties
    <3> QED BY <1>5, <2>1, <3>1, <3>2, <3>4
  <2> QED BY <2>2, <2>3
<1>7. CodeOK' /\ PhisOK' /\ Repl' = Repl
  <2>1. PhisOK'
    BY <1>1, <1>6 DEF PhisOK
  <2> QED BY <1>2, <1>3, <2>1 DEF M2Types, CodeOK, Repl, Places
<1>8. workingList' \subseteq Block /\ inserted' \subseteq Block
  BY <1>1, <1>3, <1>4 DEF M2Types
<1>9. M2Types'
  BY <1>2, <1>3, <1>7, <1>8 DEF M2Types
<1>10. OnePhiEach'
  BY <1>2, <1>3, <1>6 DEF OnePhiEach
<1>11. NothingRenamed' /\ Stacked'
  BY <1>2 DEF M2Inv, NothingRenamed, Stacked
<1> QED BY <1>9, <1>10, <1>11 DEF M2Inv

(* The next alloca has no PHI nodes yet.                                    *)
LEMMA NextAllocaInv == ASSUME M2Inv, NextAlloca PROVE M2Inv'
<1> USE DEF NextAlloca
<1>1. status = "place" /\ status' \in {"rename", "place"} /\ (status' = "place" => todo' # <<>>)
      /\ todo' = Tail(todo) /\ inserted' = {}
  OBVIOUS
<1>2. path = <<>> /\ visitedDFSBlocks = {} /\ replaced = <<>>
      /\ (\A a \in Alloca : allocaStackMap[a] = <<>>)
  BY <1>1 DEF M2Inv, NothingRenamed
<1>3. todo \in Seq(Alloca) /\ todo # <<>> /\ IsInjective(todo)
  BY <1>1 DEF M2Inv, M2Types, OnePhiEach
<1>4. todo' \in Seq(Alloca) /\ IsInjective(todo')
  BY <1>1, <1>3, TailNodes
<1>5. workingList' \subseteq Block
  <2>1. \A a : DefBlocks(a) \subseteq Block
    BY DEF DefBlocks, Places
  <2> QED BY <2>1
<1>6. CodeOK' /\ PhisOK' /\ Repl' = Repl
  BY DEF M2Inv, M2Types, CodeOK, PhisOK, Repl, Places
<1>7. M2Types'
  BY <1>1, <1>4, <1>5, <1>6 DEF M2Inv, M2Types
<1>8. OnePhiEach'
  <2>1. todo' # <<>> => Head(todo') \in ToSet(Tail(todo)) /\ ToSet(Tail(todo')) \subseteq ToSet(Tail(todo))
    <3>1. ASSUME NEW s \in Seq(Alloca), s # <<>>
          PROVE  Head(s) \in ToSet(s) /\ ToSet(Tail(s)) \subseteq ToSet(s)
      BY <3>1, TailNodes
    <3> QED BY <1>1, <1>4, <3>1
  <2>2. \A b \in Block : IsInjective(phis[b])
        /\ \A x \in ToSet(phis[b]) : x \notin ToSet(Tail(todo))
    BY <1>1 DEF M2Inv, OnePhiEach
  <2> QED BY <1>1, <2>1, <2>2 DEF OnePhiEach
<1>9. NothingRenamed'
  BY <1>2 DEF NothingRenamed
<1>10. Stacked'
  BY <1>2, NothingStacked
<1> QED BY <1>7, <1>8, <1>9, <1>10 DEF M2Inv

(* A call of rename: its block is not on the path, what it pushes are the   *)
(* definitions of its block.                                                *)
LEMMA EnterInv ==
  ASSUME M2Inv, status = "rename", NEW b \in Block, b \notin ToSet(path), Enter(b)
  PROVE  M2Inv'
<1> DEFINE run == Incoming(FoldLeft(Rename, Start, Insts(b)), b)
<1>1. /\ status' = (IF run.why = "none" THEN "rename" ELSE run.why)
      /\ allocaStackMap' = run.stack /\ replaced' = run.replaced
      /\ visitedDFSBlocks' = visitedDFSBlocks \cup {b} /\ path' = Append(path, b)
      /\ UNCHANGED <<code, dominanceFrontiers, todo, workingList, inserted, phis>>
  BY DEF Enter, Start
<1>2. M2Types /\ CodeOK /\ PhisOK /\ path \in Seq(Block)
  BY DEF M2Inv, M2Types
<1>3. Start \in Run
  BY <1>2 DEF M2Types, Start, Run
<1>4. /\ run \in Run
      /\ run.why = "none" =>
           \A a \in Alloca : run.stack[a] = allocaStackMap[a] \o Definitions(Insts(b), a)
  BY <1>2, <1>3, RunPushes
<1> HIDE DEF run
<1>5. path' \in Seq(Block) /\ IsInjective(path') /\ ToSet(path') = ToSet(path) \cup {b}
  <2>1. IsInjective(path)
    BY <1>2 DEF M2Types
  <2> QED BY <1>1, <1>2, <2>1, AppendNodes, AppendProperties
<1>6. CodeOK' /\ PhisOK' /\ Repl' = Repl
  BY <1>1, <1>2 DEF CodeOK, PhisOK, Repl, Places
<1>7. M2Types'
  BY <1>1, <1>2, <1>4, <1>5, <1>6 DEF M2Types, Run
<1>s. status' \notin {"frontiers", "collect", "place", "done"}
      /\ (status' = "rename" => run.why = "none")
  BY <1>1, <1>4 DEF Run
<1>8. OnePhiEach' /\ NothingRenamed'
  BY <1>1, <1>s DEF M2Inv, OnePhiEach, NothingRenamed
<1>9. Stacked'
  <2>1. DefMap' = DefMap /\ DefMap \in DefMaps
    BY <1>1, <1>2, DefMapStays, DefMapOK
  <2>2. ASSUME status' = "rename", NEW a \in Alloca
        PROVE  allocaStackMap'[a] = Along(DefMap, Append(path, b), a)
    <3>1. allocaStackMap[a] = Along(DefMap, path, a)
      BY DEF M2Inv, Stacked
    <3>2. allocaStackMap'[a] = allocaStackMap[a] \o DefMap[b][a]
      BY <1>1, <1>4, <1>s, <2>2 DEF DefMap
    <3> QED BY <1>2, <2>1, <3>1, <3>2, AlongSteps
  <2> QED BY <1>1, <1>s, <2>1, <2>2 DEF Stacked
<1> QED BY <1>7, <1>8, <1>9 DEF M2Inv

(* A return: what is popped is what the call pushed, and there is as much on*)
(* the stack.                                                               *)
LEMMA ReturnInv == ASSUME M2Inv, RenameReturn PROVE M2Inv'
<1> DEFINE b == Last(path)
           p == Front(path)
           left(a) == Len(allocaStackMap[a]) - Pushed(b, a)
<1>1. status = "rename" /\ path # <<>> /\ UNCHANGED <<code, dominanceFrontiers, todo, workingList, inserted,
                                                     phis, visitedDFSBlocks, replaced>>
  BY DEF RenameReturn
<1>2. M2Types /\ CodeOK /\ PhisOK /\ path \in Seq(Block) /\ IsInjective(path)
  BY DEF M2Inv, M2Types
<1>3. b \in Block /\ p \in Seq(Block) /\ path = Append(p, b) /\ IsInjective(p) /\ ToSet(p) \subseteq ToSet(path)
  BY <1>1, <1>2, LastIn, FrontNodes, FrontThenLast
<1>4. DefMap' = DefMap /\ DefMap \in DefMaps
  BY <1>1, <1>2, DefMapStays, DefMapOK
<1>d. \A a \in Alloca : Pushed(b, a) = Len(DefMap[b][a]) /\ DefMap[b][a] \in Seq(Where)
  BY <1>2, <1>3, PushedIsDefined DEF DefMap
<1> HIDE DEF b, p
<1>5. ASSUME NEW a \in Alloca
      PROVE  left(a) >= 0 /\ SubSeq(allocaStackMap[a], 1, left(a)) = Along(DefMap, p, a)
  <2> DEFINE s == Along(DefMap, p, a)
             t == DefMap[b][a]
  <2>1. allocaStackMap[a] = Along(DefMap, path, a)
    BY <1>1 DEF M2Inv, Stacked
  <2>2. s \in Seq(Where) /\ Along(DefMap, path, a) = s \o t
    BY <1>3, <1>4, AlongSteps
  <2>3. t \in Seq(Where) /\ Pushed(b, a) = Len(t)
    BY <1>d
  <2> HIDE DEF s, t
  <2>4. SubSeq(s \o t, 1, Len(s \o t) - Len(t)) = s /\ Len(s \o t) - Len(t) >= 0
    BY <2>2, <2>3, PopsTheRest
  <2> QED BY <2>1, <2>2, <2>3, <2>4 DEF s
<1>6. /\ allocaStackMap' = [a \in Alloca |-> SubSeq(allocaStackMap[a], 1, left(a))]
      /\ path' = p
      /\ status' \in {"done", "rename"}
  <2>1. ~ \E a \in Alloca : left(a) < 0
    <3>1. \A a \in Alloca : left(a) \in Int
      <4>1. \A a \in Alloca : Len(allocaStackMap[a]) \in Nat
        BY <1>2, LenProperties DEF M2Types
      <4>2. \A a \in Alloca : Pushed(b, a) \in Nat
        BY <1>d, LenProperties
      <4> QED BY <4>1, <4>2
    <3> HIDE DEF left
    <3> QED BY <1>5, <3>1
  <2> QED BY <2>1 DEF RenameReturn, b, p
<1> HIDE DEF left
<1>7. \A a \in Alloca : allocaStackMap'[a] = Along(DefMap, p, a)
  BY <1>5, <1>6
<1>8. allocaStackMap' \in [Alloca -> Seq(Where)]
  <2>1. \A a \in Alloca : Along(DefMap, p, a) \in Seq(Where)
    BY <1>3, <1>4, AlongSteps
  <2> QED BY <1>6, <1>7, <2>1
<1>9. CodeOK' /\ PhisOK' /\ Repl' = Repl
  BY <1>1, <1>2 DEF CodeOK, PhisOK, Repl, Places
<1>10. M2Types'
  BY <1>1, <1>2, <1>3, <1>6, <1>8, <1>9 DEF M2Types
<1>11. OnePhiEach' /\ NothingRenamed'
  BY <1>1, <1>6 DEF M2Inv, OnePhiEach, NothingRenamed
<1>12. Stacked'
  BY <1>4, <1>6, <1>7 DEF Stacked
<1> QED BY <1>10, <1>11, <1>12 DEF M2Inv

(* The steps of the pass are steps of its analysis, or leave it alone.      *)
LEMMA AnalysisStep == [M2Next]_<<dtvars, m2vars>> => [DTNext]_dtvars
BY DEF M2Next, Analyse, computeDominanceFrontier, FindAllocas, insertPHINodes, NextAlloca,
       RenameEntry, RenameChild, RenameReturn, Enter

(* Every step of the pass preserves the invariant.                          *)
LEMMA M2NextInv ==
  ASSUME DTInv, M2Inv, [M2Next]_<<dtvars, m2vars>>
  PROVE  M2Inv'
<1>1. DTTypeOK /\ entry \in Block
  BY DEF DTInv, DTTypeOK
<1>2. CASE UNCHANGED m2vars
  BY <1>2, AnalyseInv
<1>3. CASE computeDominanceFrontier
  BY <1>1, <1>3, FrontiersInv
<1>4. CASE FindAllocas
  BY <1>1, <1>4, FindAllocasInv
<1>5. CASE insertPHINodes
  BY <1>5, InsertInv
<1>6. CASE NextAlloca
  BY <1>6, NextAllocaInv
<1>7. CASE RenameEntry
  <2>1. status = "rename" /\ Enter(entry) /\ entry \notin ToSet(path)
    BY <1>7 DEF RenameEntry, M2Inv, M2Types
  <2> QED BY <1>1, <2>1, EnterInv
<1>8. CASE RenameChild
  <2>1. PICK c \in Unvisited : Enter(c)
    BY <1>8 DEF RenameChild
  <2>2. status = "rename" /\ c \in Block /\ c \notin ToSet(path)
    BY <1>8 DEF RenameChild, Unvisited, Children, M2Inv, M2Types
  <2> QED BY <2>1, <2>2, EnterInv
<1>9. CASE RenameReturn
  BY <1>9, ReturnInv
<1> QED BY <1>2, <1>3, <1>4, <1>5, <1>6, <1>7, <1>8, <1>9 DEF M2Next, Analyse

(* The pass runs the analysis of DomTree: what is proved of it holds here.  *)
THEOREM AnalysisIsDomTree == M2Spec => DTSpec
<1>1. M2Init => DTInit
  BY DEF M2Init
<1> QED BY <1>1, AnalysisStep, PTL DEF M2Spec, DTSpec

(* The pass works on the tree of immediate dominators (TreeIsRight, which   *)
(* its own properties suppose) where blocks were allocated downwards, the   *)
(* search was depth-first and no dead block jumps to a live one.            *)
THEOREM FavourableTreesAreRight ==
  M2Spec => [](pc = "done" /\ AllocatedDownwards /\ DepthFirst /\ NoDeadPreds => TreeIsRight)
<1>1. ImmediateDominatorsDownwards =>
        (pc = "done" /\ AllocatedDownwards /\ DepthFirst /\ NoDeadPreds => TreeIsRight)
  BY DEF ImmediateDominatorsDownwards, TreeIsRight
<1> QED BY <1>1, AnalysisIsDomTree, DominatorsAreImmediate, PTL

(* The invariants of the analysis and of the pass hold throughout.          *)
LEMMA M2Invariant == M2Spec => [](DTInv /\ M2Inv)
<1>1. M2Init => DTInv /\ M2Inv
  BY InitInv, M2InitInv DEF M2Init
<1>2. DTInv /\ M2Inv /\ [M2Next]_<<dtvars, m2vars>> => (DTInv /\ M2Inv)'
  BY AnalysisStep, DTNextInv, M2NextInv
<1> QED BY <1>1, <1>2, PTL DEF M2Spec

(* M2TypeOK: a block has one PHI node of an alloca at most, whatever the    *)
(* order of the working list; rename is not entered again for a block that  *)
(* is on its path; a load is replaced where it stands.                      *)
THEOREM Mem2RegTypes == M2Spec => []M2TypeOK
<1>1. ASSUME M2Inv PROVE M2TypeOK
  <2>1. M2Types /\ OnePhiEach
    BY <1>1 DEF M2Inv
  <2>2. \A a \in Alloca : \A d \in ToSet(allocaStackMap[a]) : d \in Block \X Nat
    BY <2>1, LenProperties DEF M2Types, ToSet, Where
  <2>3. DOMAIN replaced \subseteq Places
    BY <2>1 DEF M2Types, Repl
  <2> QED BY <2>1, <2>2, <2>3 DEF M2TypeOK, M2Types, CodeOK, PhisOK, OnePhiEach, Aborts
<1> QED BY <1>1, M2Invariant, PTL

(* StacksFollowThePath: when rename calls itself for a child, the stacks hold*)
(* the definitions of the blocks above it in the tree, in order, and nothing*)
(* a sibling left there.                                                    *)
THEOREM StacksAreThePath == M2Spec => []StacksFollowThePath
<1>1. ASSUME M2Inv PROVE StacksFollowThePath
  <2>1. \A i \in DOMAIN path : path[i] \in Block
    BY <1>1, LenProperties DEF M2Inv, M2Types
  <2>2. ASSUME NEW a \in Alloca
        PROVE  Along(DefMap, path, a) = FlattenSeq([i \in DOMAIN path |-> Definitions(Insts(path[i]), a)])
    <3>1. [i \in DOMAIN path |-> DefMap[path[i]][a]] = [i \in DOMAIN path |-> Definitions(Insts(path[i]), a)]
      BY <2>1 DEF DefMap
    <3> QED BY <3>1 DEF Along
  <2> QED BY <1>1, <2>2 DEF StacksFollowThePath, M2Inv, Stacked
<1> QED BY <1>1, M2Invariant, PTL

(* The assertions of the third loop of rename ("no def for the alloca") never*)
(* fail: it pops what the first loop pushed.                                *)
THEOREM NoUnderflow == M2Spec => [](status # "underflow")
<1>1. M2Inv => status # "underflow"
  BY DEF M2Inv, M2Types
<1> QED BY <1>1, M2Invariant, PTL

(* The tree of the analysis, where it is right: idoms dominate, and nothing *)
(* lies between.                                                            *)
LEMMA IdomFacts ==
  ASSUME DTInv, TreeInv, TreeIsRight
  PROVE  /\ pc = "done" /\ DTTypeOK /\ DepthsFollowTheTree /\ SearchTree
         /\ idomMap[entry] = Null /\ idomMap \in [Block0 -> Block0] /\ nodeDepthMap \in [Block0 -> 0 .. N]
         /\ \A b \in Reached \ {entry} :
              /\ idomMap[b] \in Reached /\ StrictlyDominates(idomMap[b], b)
              /\ \A c : StrictlyDominates(c, b) => c = idomMap[b] \/ StrictlyDominates(c, idomMap[b])
         /\ \A b \in Block : Children(b) = {c \in Reached \ {entry} : idomMap[c] = b}
<1>1. /\ pc = "done" /\ DTTypeOK /\ DepthsFollowTheTree /\ SearchTree
      /\ \A b \in Reached \ {entry} : IsIdom(idomMap[b], b)
  BY DEF TreeIsRight, DTInv
<1>2. idomMap[entry] = Null /\ idomMap \in [Block0 -> Block0] /\ nodeDepthMap \in [Block0 -> 0 .. N]
  BY <1>1, Types DEF DepthsFollowTheTree
<1>3. /\ Reached \subseteq Block
      /\ \A a, b : StrictlyDominates(a, b) => a \in Reached
  BY <1>1, DominanceOrder
<1>4. ASSUME NEW b \in Reached \ {entry}
      PROVE  /\ idomMap[b] \in Reached /\ StrictlyDominates(idomMap[b], b)
             /\ \A c : StrictlyDominates(c, b) => c = idomMap[b] \/ StrictlyDominates(c, idomMap[b])
  <2>1. StrictlyDominates(idomMap[b], b)
        /\ \A c \in Block : StrictlyDominates(c, b) => c = idomMap[b] \/ StrictlyDominates(c, idomMap[b])
    BY <1>1 DEF IsIdom
  <2> QED BY <1>3, <2>1
<1>5. ToSet(dfnVector) \subseteq Reached
  BY <1>1, NumberedIsReached DEF SearchTree
<1>6. ASSUME NEW b \in Block PROVE Children(b) = {c \in Reached \ {entry} : idomMap[c] = b}
  <2>1. \A c \in Block : idomMap[c] = b => c \in Reached /\ c # entry
    BY <1>2, <1>5, Blocks DEF TreeInv
  <2> QED BY <1>3, <2>1 DEF Children
<1> QED BY <1>1, <1>2, <1>4, <1>6

(* Every reached block has a depth: one without one would have an idom      *)
(* without one, which fewer blocks dominate.                                *)
LEMMA ReachedHasDepth ==
  ASSUME DTInv, TreeInv, TreeIsRight
  PROVE  \A b \in Reached : nodeDepthMap[b] > 0
<1> DEFINE SDs(b) == {a \in Block : StrictlyDominates(a, b)}
           Bad == {b \in Reached : ~(nodeDepthMap[b] > 0)}
           nums == {Cardinality(SDs(b)) : b \in Bad}
<1>1. /\ pc = "done" /\ DTTypeOK
      /\ idomMap \in [Block0 -> Block0] /\ nodeDepthMap \in [Block0 -> 0 .. N]
      /\ \A b \in Reached \ {entry} : idomMap[b] \in Reached /\ StrictlyDominates(idomMap[b], b)
  BY IdomFacts
<1>2. /\ Reached \subseteq Block
      /\ \A a, b : StrictlyDominates(a, b) => a # b
      /\ \A a, b, c : StrictlyDominates(a, b) /\ StrictlyDominates(b, c) => StrictlyDominates(a, c)
  BY <1>1, DominanceOrder
<1>3. \A b \in Block : b = entry \/ nodeDepthMap[idomMap[b]] > 0 => nodeDepthMap[b] > 0
  <2>1. ToSet(worklist) = {} /\ pc \in {"depth", "done"}
    BY <1>1 DEF TreeInv, ToSet
  <2> QED BY <2>1 DEF TreeInv
<1>4. ASSUME NEW b \in Bad PROVE idomMap[b] \in Bad /\ SDs(idomMap[b]) \subseteq SDs(b) /\ SDs(idomMap[b]) # SDs(b)
  <2>1. b \in Reached \ {entry} /\ ~(nodeDepthMap[idomMap[b]] > 0)
    BY <1>2, <1>3
  <2>2. idomMap[b] \in Bad /\ StrictlyDominates(idomMap[b], b) /\ idomMap[b] \in Block
    BY <1>1, <1>2, <2>1
  <2>3. SDs(idomMap[b]) \subseteq SDs(b) /\ idomMap[b] \in SDs(b) /\ idomMap[b] \notin SDs(idomMap[b])
    BY <1>2, <2>2
  <2> QED BY <2>2, <2>3
<1>5. \A b : IsFiniteSet(SDs(b)) /\ Cardinality(SDs(b)) \in Nat
  <2> SUFFICES ASSUME NEW b PROVE IsFiniteSet(SDs(b)) /\ Cardinality(SDs(b)) \in Nat
    OBVIOUS
  <2>1. SDs(b) \subseteq Block
    OBVIOUS
  <2> HIDE DEF SDs
  <2>2. IsFiniteSet(SDs(b))
    BY <2>1, Blocks, FS_Subset
  <2> QED BY <2>2, FS_CardinalityType
<1> HIDE DEF SDs
<1>6. \A X, Y : IsFiniteSet(Y) /\ X \subseteq Y /\ X # Y => Cardinality(X) < Cardinality(Y)
  BY StrictlyFewer
<1>7. ASSUME Bad # {} PROVE FALSE
  <2>1. nums \subseteq Nat /\ nums # {}
    BY <1>5, <1>7
  <2>2. PICK k \in nums : \A j \in nums : k <= j
    <3> HIDE DEF nums
    <3> QED BY <2>1, LeastNat
  <2>3. PICK b \in Bad : k = Cardinality(SDs(b))
    BY <2>2
  <2>4. Cardinality(SDs(idomMap[b])) < Cardinality(SDs(b)) /\ Cardinality(SDs(idomMap[b])) \in nums
    BY <1>4, <1>5, <1>6
  <2>5. k <= Cardinality(SDs(idomMap[b])) /\ k \in Nat
    BY <2>1, <2>2, <2>4
  <2> QED BY <1>5, <2>3, <2>4, <2>5
<1> QED BY <1>7

(* Above in the tree is dominance.                                          *)
LEMMA AboveIsDominance ==
  ASSUME DTInv, TreeInv, TreeIsRight, NEW b \in Reached
  PROVE  /\ \A n \in 1 .. N : Climb(idomMap, b)[n] = Null \/ StrictlyDominates(Climb(idomMap, b)[n], b)
         /\ \A a : StrictlyDominates(a, b) => \E n \in 1 .. N : Climb(idomMap, b)[n] = a
<1> DEFINE up == Climb(idomMap, b)
<1>1. /\ pc = "done" /\ DTTypeOK /\ DepthsFollowTheTree
      /\ idomMap[entry] = Null /\ idomMap \in [Block0 -> Block0] /\ nodeDepthMap \in [Block0 -> 0 .. N]
      /\ \A c \in Reached \ {entry} :
           /\ idomMap[c] \in Reached /\ StrictlyDominates(idomMap[c], c)
           /\ \A a : StrictlyDominates(a, c) => a = idomMap[c] \/ StrictlyDominates(a, idomMap[c])
  BY IdomFacts
<1>2. /\ Reached \subseteq Block
      /\ \A a, c : StrictlyDominates(a, c) => a \in Reached /\ c # entry
      /\ \A a, c, d : StrictlyDominates(a, c) /\ StrictlyDominates(c, d) => StrictlyDominates(a, d)
  BY <1>1, DominanceOrder
<1>3. N \in Nat /\ b \in Block /\ b \in Block0 /\ \A c \in Reached : c # Null
  BY <1>2, Blocks
<1>4. up[0] = b /\ \A n \in 1 .. N : up[n] = IF up[n - 1] = Null THEN Null ELSE idomMap[up[n - 1]]
  BY <1>1, <1>3, ClimbSteps
<1>d. nodeDepthMap[b] > 0 /\ nodeDepthMap[b] <= N /\ nodeDepthMap[b] \in Nat
  BY <1>1, <1>3, ReachedHasDepth
<1>e. up[N] = Null
  <2>1. N \in 0 .. N /\ pc \in {"depth", "done"}
    BY <1>1, <1>3
  <2>2. up[N] = Null \/ (nodeDepthMap[up[N]] > 0 /\ nodeDepthMap[up[N]] = nodeDepthMap[b] - N)
    BY <1>1, <1>3, <1>d, <2>1, HigherIsLessDeep
  <2> HIDE DEF up
  <2> QED BY <1>3, <1>d, <2>2
<1> HIDE DEF up
<1>5. \A n \in 0 .. N : up[n] = Null \/ (up[n] \in Reached /\ (n = 0 \/ StrictlyDominates(up[n], b)))
  <2> DEFINE T == {n \in 0 .. N : up[n] = Null \/ (up[n] \in Reached /\ (n = 0 \/ StrictlyDominates(up[n], b)))}
  <2>1. 0 \in T
    BY <1>3, <1>4
  <2>2. ASSUME NEW n \in 0 .. N - 1, n \in T PROVE n + 1 \in T
    <3>1. n + 1 \in 1 .. N /\ n + 1 \in 0 .. N /\ (n + 1) - 1 = n
      BY <1>3
    <3>2. up[n + 1] = IF up[n] = Null THEN Null ELSE idomMap[up[n]]
      BY <1>4, <3>1
    <3>3. CASE up[n + 1] # Null
      <4>1. up[n] \in Reached /\ (up[n] = b \/ StrictlyDominates(up[n], b)) /\ up[n + 1] = idomMap[up[n]]
        BY <1>4, <2>2, <3>2, <3>3
      <4>2. up[n] # entry
        BY <1>1, <3>3, <4>1
      <4>3. idomMap[up[n]] \in Reached /\ StrictlyDominates(idomMap[up[n]], up[n])
        BY <1>1, <4>1, <4>2
      <4>4. StrictlyDominates(up[n + 1], b) /\ up[n + 1] \in Reached
        BY <1>2, <4>1, <4>3
      <4> QED BY <3>1, <4>4
    <3> QED BY <3>1, <3>3
  <2> HIDE DEF T
  <2>3. \A n \in 0 .. N : n \in T
    BY <1>3, <2>1, <2>2, UpTo
  <2> QED BY <2>3 DEF T
<1>6. ASSUME NEW a, StrictlyDominates(a, b) PROVE \E n \in 1 .. N : up[n] = a
  <2> DEFINE T == {n \in 0 .. N : (\E m \in 1 .. n : up[m] = a) \/ (up[n] # Null /\ StrictlyDominates(a, up[n]))}
  <2>1. 0 \in T
    BY <1>3, <1>4, <1>6
  <2>2. ASSUME NEW n \in 0 .. N - 1, n \in T PROVE n + 1 \in T
    <3>1. n + 1 \in 1 .. N /\ n + 1 \in 0 .. N /\ (n + 1) - 1 = n /\ n \in 0 .. N /\ n + 1 \in 1 .. n + 1
          /\ \A m \in 1 .. n : m \in 1 .. n + 1
      BY <1>3
    <3>2. CASE \E m \in 1 .. n : up[m] = a
      BY <3>1, <3>2
    <3>3. CASE up[n] # Null /\ StrictlyDominates(a, up[n])
      <4>1. up[n] \in Reached \ {entry}
        BY <1>2, <1>5, <3>1, <3>3
      <4>2. up[n + 1] = idomMap[up[n]]
        BY <1>4, <3>1, <3>3
      <4>3. up[n + 1] \in Reached /\ (a = up[n + 1] \/ StrictlyDominates(a, up[n + 1]))
        BY <1>1, <3>3, <4>1, <4>2
      <4>4. up[n + 1] # Null
        BY <1>3, <4>3
      <4> QED BY <3>1, <4>3, <4>4
    <3> QED BY <2>2, <3>2, <3>3
  <2> HIDE DEF T
  <2>3. \A n \in 0 .. N : n \in T
    BY <1>3, <2>1, <2>2, UpTo
  <2>4. N \in T
    BY <1>3, <2>3
  <2> QED BY <1>e, <2>4 DEF T
<1>7. \A n \in 1 .. N : n \in 0 .. N /\ n # 0
  BY <1>3
<1> QED BY <1>5, <1>6, <1>7 DEF up

(* The blocks where the dominance of b ends.                                *)
FrontierOf(b) == {x \in Reached : ~StrictlyDominates(b, x) /\
                    \E p \in Preds(x) \cap Reached : DominatesOrIs(b, p)}

(* dominates(a, b) is strict dominance, where the tree is right.            *)
LEMMA DominatesIsDominance ==
  ASSUME DTInv, TreeInv, TreeIsRight, NEW a \in Reached, NEW b \in Reached
  PROVE  Dominates(a, b) <=> StrictlyDominates(a, b)
<1>1. pc = "done" /\ DTTypeOK
  BY IdomFacts
<1>2. a \in Block /\ b \in Block /\ nodeDepthMap[a] > 0 /\ nodeDepthMap[b] > 0 /\ a # Null
  BY <1>1, DominanceOrder, ReachedHasDepth, Blocks
<1>3. Dominates(a, b) <=> \E n \in 1 .. N : Climb(idomMap, b)[n] = a
  BY <1>1, <1>2, DominatesByDepth DEF DominatesIsAncestry
<1> QED BY <1>2, <1>3, AboveIsDominance

(* The frontier of a block is what the comments DT_LOCAL and DT_UP say: its *)
(* successors it does not immediately dominate, and what it does not        *)
(* dominate of the frontiers of its children.                               *)
LEMMA FrontierOfChildren ==
  ASSUME DTInv, TreeInv, TreeIsRight, NEW b \in Reached
  PROVE  FrontierOf(b) = Local(b) \cup {x \in UNION {FrontierOf(c) : c \in Children(b)} : Passes(b, x)}
<1>1. /\ pc = "done" /\ DTTypeOK
      /\ idomMap[entry] = Null /\ idomMap \in [Block0 -> Block0]
      /\ \A c \in Reached \ {entry} :
           /\ idomMap[c] \in Reached /\ StrictlyDominates(idomMap[c], c)
           /\ \A a : StrictlyDominates(a, c) => a = idomMap[c] \/ StrictlyDominates(a, idomMap[c])
      /\ \A c \in Block : Children(c) = {d \in Reached \ {entry} : idomMap[d] = c}
  BY IdomFacts
<1>2. /\ Reached \subseteq Block
      /\ \A c \in Reached : ToSet(succ[c]) \subseteq Reached
      /\ \A a, c : StrictlyDominates(a, c) => a \in Reached /\ c \in Reached /\ a # c /\ c # entry
      /\ \A a, c : StrictlyDominates(a, c) => ~StrictlyDominates(c, a)
      /\ \A a, c, d : StrictlyDominates(a, c) /\ StrictlyDominates(c, d) => StrictlyDominates(a, d)
      /\ \A a, c, p : StrictlyDominates(a, c) /\ p \in Reached /\ c \in ToSet(succ[p]) =>
           a = p \/ StrictlyDominates(a, p)
  BY <1>1, DominanceOrder
<1>3. b \in Block /\ b # Null /\ \A x \in Reached : Passes(b, x) <=> ~StrictlyDominates(b, x)
  BY <1>2, DominatesIsDominance, Blocks DEF Passes
<1>4. \A c, x : x \in FrontierOf(c) <=>
        /\ x \in Reached /\ ~StrictlyDominates(c, x)
        /\ \E p \in Reached : x \in ToSet(succ[p]) /\ (c = p \/ StrictlyDominates(c, p))
  BY <1>2 DEF FrontierOf, Preds, DominatesOrIs
<1>5. ASSUME NEW x \in Local(b) PROVE x \in FrontierOf(b)
  <2>1. x \in ToSet(succ[b]) /\ idomMap[x] # b /\ x \in Reached
    BY <1>2, <1>5 DEF Local
  <2>2. ~StrictlyDominates(b, x)
    <3> SUFFICES ASSUME StrictlyDominates(b, x) PROVE FALSE
      OBVIOUS
    <3>1. StrictlyDominates(b, idomMap[x]) /\ StrictlyDominates(idomMap[x], x)
      BY <1>1, <1>2, <2>1
    <3>2. idomMap[x] = b \/ StrictlyDominates(idomMap[x], b)
      BY <1>2, <2>1, <3>1
    <3> QED BY <1>2, <2>1, <3>1, <3>2
  <2> QED BY <1>4, <2>1, <2>2
<1>6. ASSUME NEW c \in Children(b), NEW x \in FrontierOf(c), Passes(b, x) PROVE x \in FrontierOf(b)
  <2>1. c \in Reached \ {entry} /\ idomMap[c] = b
    BY <1>1, <1>3
  <2>2. StrictlyDominates(b, c)
    BY <1>1, <2>1
  <2>3. PICK p \in Reached : x \in ToSet(succ[p]) /\ (c = p \/ StrictlyDominates(c, p))
    BY <1>4
  <2>4. x \in Reached /\ ~StrictlyDominates(b, x) /\ StrictlyDominates(b, p)
    BY <1>2, <1>3, <1>4, <1>6, <2>2, <2>3
  <2> QED BY <1>4, <2>3, <2>4
<1>7. ASSUME NEW x \in FrontierOf(b), x \notin Local(b)
      PROVE  Passes(b, x) /\ \E c \in Children(b) : x \in FrontierOf(c)
  <2>1. PICK p \in Reached : x \in ToSet(succ[p]) /\ (b = p \/ StrictlyDominates(b, p))
    BY <1>4
  <2>2. x \in Reached /\ ~StrictlyDominates(b, x)
    BY <1>4
  <2>3. ASSUME b = p PROVE FALSE
    <3>1. idomMap[x] = b
      BY <1>7, <2>1, <2>3 DEF Local
    <3>2. x # entry
      BY <1>1, <1>3, <3>1
    <3> QED BY <1>1, <2>2, <3>1, <3>2
  <2>4. \E c \in Children(b) : c = p \/ StrictlyDominates(c, p)
    <3> DEFINE up == Climb(idomMap, p)
    <3>1. StrictlyDominates(b, p)
      BY <2>1, <2>3
    <3>2. PICK n \in 1 .. N : up[n] = b
      BY <3>1, AboveIsDominance
    <3>3. N \in Nat /\ n - 1 \in 0 .. N /\ p \in Block0 /\ (n - 1 = 0 \/ n - 1 \in 1 .. N)
      BY <1>2, Blocks
    <3>4. up[0] = p /\ up[n] = IF up[n - 1] = Null THEN Null ELSE idomMap[up[n - 1]]
      BY <1>1, <3>3, ClimbSteps
    <3>5. up[n - 1] # Null /\ idomMap[up[n - 1]] = b
      BY <1>3, <3>2, <3>4
    <3>6. up[n - 1] = p \/ StrictlyDominates(up[n - 1], p)
      <4>1. \A m \in 1 .. N : up[m] = Null \/ StrictlyDominates(up[m], p)
        BY AboveIsDominance
      <4> HIDE DEF up
      <4> QED BY <3>3, <3>4, <3>5, <4>1
    <3> HIDE DEF up
    <3>7. up[n - 1] \in Reached \ {entry}
      BY <1>1, <1>2, <1>3, <3>5, <3>6
    <3> QED BY <1>1, <1>3, <3>5, <3>6, <3>7
  <2>5. PICK c \in Children(b) : c = p \/ StrictlyDominates(c, p)
    BY <2>4
  <2>6. StrictlyDominates(b, c)
    BY <1>1, <1>3
  <2>7. ~StrictlyDominates(c, x)
    BY <1>2, <2>2, <2>6
  <2> QED BY <1>3, <1>4, <2>1, <2>2, <2>5, <2>7
<1> HIDE DEF FrontierOf
<1> QED BY <1>5, <1>6, <1>7

(* The recursion of computeDominanceFrontier, from the leaves of the tree.  *)
LEMMA FrontiersByHeight ==
  ASSUME DTInv, TreeInv, TreeIsRight
  PROVE  \A b \in Reached : FrontiersUpTo[N][b] = FrontierOf(b)
<1> DEFINE front == FrontiersUpTo
           Good(n) == \A b \in Reached : nodeDepthMap[b] + n >= N => front[n][b] = FrontierOf(b)
           T == {n \in 0 .. N : Good(n)}
<1>1. /\ DTTypeOK /\ DepthsFollowTheTree /\ pc = "done" /\ nodeDepthMap \in [Block0 -> 0 .. N]
      /\ idomMap[entry] = Null /\ idomMap \in [Block0 -> Block0]
      /\ \A c \in Block : Children(c) = {d \in Reached \ {entry} : idomMap[d] = c}
  BY IdomFacts
<1>2. Reached \subseteq Block /\ \A b \in Reached : nodeDepthMap[b] > 0
  BY <1>1, DominanceOrder, ReachedHasDepth
<1>3. /\ front[0] = [b \in Block |-> IF nodeDepthMap[b] = 0 THEN {} ELSE Local(b)]
      /\ \A n \in 1 .. N : front[n] =
           [b \in Block |-> IF nodeDepthMap[b] = 0 THEN {}
                            ELSE Local(b) \cup {x \in UNION {front[n - 1][c] : c \in Children(b)} : Passes(b, x)}]
  BY <1>1, FrontierSteps DEF Levels
<1> HIDE DEF front
<1>4. N \in Nat /\ \A b \in Reached : nodeDepthMap[b] \in 0 .. N
  BY <1>1, <1>2, Blocks
<1>5. ASSUME NEW b \in Reached, NEW c \in Children(b)
      PROVE  c \in Reached /\ nodeDepthMap[c] = nodeDepthMap[b] + 1
  <2>1. c \in Reached /\ idomMap[c] = b /\ c \in Block
    BY <1>1, <1>2
  <2>2. nodeDepthMap[c] > 0
    BY <1>2, <2>1
  <2> QED BY <1>1, <2>1, <2>2 DEF DepthsFollowTheTree
<1>6. \A b \in Reached : FrontierOf(b) = Local(b) \cup {x \in UNION {FrontierOf(c) : c \in Children(b)} : Passes(b, x)}
  BY FrontierOfChildren
<1> HIDE DEF FrontierOf
<1>7. 0 \in T
  <2>1. ASSUME NEW b \in Reached, nodeDepthMap[b] + 0 >= N PROVE front[0][b] = FrontierOf(b)
    <3>1. ASSUME NEW c \in Children(b) PROVE FALSE
      BY <1>4, <1>5, <2>1, <3>1
    <3>2. FrontierOf(b) = Local(b)
      BY <1>6, <3>1
    <3> QED BY <1>2, <1>3, <3>2
  <2> QED BY <1>4, <2>1
<1>8. ASSUME NEW n \in 0 .. N - 1, n \in T PROVE n + 1 \in T
  <2>1. n + 1 \in 1 .. N /\ n + 1 \in 0 .. N /\ (n + 1) - 1 = n /\ n \in Nat
    BY <1>4
  <2>2. ASSUME NEW b \in Reached, nodeDepthMap[b] + (n + 1) >= N PROVE front[n + 1][b] = FrontierOf(b)
    <3>1. front[n + 1][b] = Local(b) \cup {x \in UNION {front[n][c] : c \in Children(b)} : Passes(b, x)}
      <4>1. b \in Block /\ nodeDepthMap[b] # 0
        BY <1>2, <1>4
      <4> DEFINE m == (n + 1) - 1
      <4>2. front[n + 1] = [c \in Block |-> IF nodeDepthMap[c] = 0 THEN {}
               ELSE Local(c) \cup {x \in UNION {front[m][d] : d \in Children(c)} : Passes(c, x)}]
        BY <1>3, <2>1
      <4>3. m = n
        BY <2>1
      <4> HIDE DEF m
      <4>4. front[n + 1][b] = Local(b) \cup {x \in UNION {front[m][d] : d \in Children(b)} : Passes(b, x)}
        BY <4>1, <4>2
      <4> QED BY <4>3, <4>4
    <3>2. ASSUME NEW c \in Children(b) PROVE front[n][c] = FrontierOf(c)
      <4>1. c \in Reached /\ nodeDepthMap[c] + n >= N
        BY <1>4, <1>5, <2>1, <2>2
      <4> QED BY <1>8, <4>1
    <3>3. UNION {front[n][c] : c \in Children(b)} = UNION {FrontierOf(c) : c \in Children(b)}
      BY <3>2
    <3> QED BY <1>6, <3>1, <3>3
  <2> QED BY <2>1, <2>2
<1> HIDE DEF Good
<1>9. \A n \in 0 .. N : n \in T
  BY <1>4, <1>7, <1>8, UpTo
<1>10. Good(N)
  BY <1>4, <1>9
<1> QED BY <1>4, <1>10 DEF Good, front

(* The reference of the frontiers depends on the analysis only.             *)
LEMMA FrontierStays ==
  ASSUME UNCHANGED dtvars
  PROVE  Reached' = Reached /\ (TreeIsRight' <=> TreeIsRight) /\ \A b : FrontierOf(b)' = FrontierOf(b)
<1>1. \A a : ReachedWithout(a)' = ReachedWithout(a)
  BY DEF dtvars, ReachedWithout
<1>2. Reached' = Reached
  BY DEF dtvars, Reached, ReachedWithout
<1>3. \A a, b : StrictlyDominates(a, b)' <=> StrictlyDominates(a, b)
  BY <1>1, <1>2 DEF StrictlyDominates
<1>4. \A a, b : IsIdom(a, b)' <=> IsIdom(a, b)
  BY <1>3 DEF IsIdom
<1>5. TreeIsRight' <=> TreeIsRight
  <2>1. pc' = pc /\ entry' = entry /\ idomMap' = idomMap
    BY DEF dtvars
  <2> QED BY <1>2, <1>4, <2>1 DEF TreeIsRight
<1>6. ASSUME NEW b PROVE FrontierOf(b)' = FrontierOf(b)
  <2>1. \A x : Preds(x)' = Preds(x)
    BY DEF dtvars, Preds
  <2>2. \A p : DominatesOrIs(b, p)' <=> DominatesOrIs(b, p)
    BY <1>3 DEF DominatesOrIs
  <2> QED BY <1>2, <1>3, <2>1, <2>2 DEF FrontierOf
<1> QED BY <1>2, <1>5, <1>6

(* A block with a depth was numbered, and so is reached.                    *)
LEMMA DepthMeansReached ==
  ASSUME DTInv, TreeInv, pc = "done", NEW b \in Block, nodeDepthMap[b] > 0
  PROVE  b \in Reached
<1>1. DTTypeOK /\ SearchTree /\ DepthsFollowTheTree
  BY DEF DTInv
<1>2. ToSet(dfnVector) \subseteq Reached /\ entry \in Reached
  BY <1>1, NumberedIsReached, DominanceOrder DEF SearchTree
<1>3. CASE b = entry
  BY <1>2, <1>3
<1>4. CASE b # entry
  <2>1. nodeDepthMap[idomMap[b]] > 0 /\ nodeDepthMap[Null] = 0
    BY <1>1, <1>4 DEF DepthsFollowTheTree
  <2>2. idomMap[b] # Null
    BY <2>1
  <2> QED BY <1>2, <2>2 DEF TreeInv
<1> QED BY <1>3, <1>4

(* at() does not throw: a climb from a reached block meets blocks with a    *)
(* depth only.                                                              *)
LEMMA NoClimbIsLost ==
  ASSUME DTInv, TreeInv, TreeIsRight, NEW a, NEW b \in Reached
  PROVE  ~ClimbIsLost(a, b)
<1>1. DTTypeOK /\ DepthsFollowTheTree /\ pc = "done" /\ N \in Nat
  BY Blocks DEF DTInv, TreeIsRight
<1>2. b \in Block /\ nodeDepthMap[b] > 0
  BY <1>1, ReachedHasDepth, DominanceOrder
<1>3. ASSUME NEW n \in 1 .. N, Climb(idomMap, b)[n] # Null PROVE nodeDepthMap[Climb(idomMap, b)[n]] # 0
  <2>1. n \in 0 .. N
    BY <1>1
  <2>2. LET c == Climb(idomMap, b)[n] IN c \in Block /\ nodeDepthMap[c] > 0
    BY <1>1, <1>2, <1>3, <2>1, HigherIsLessDeep
  <2> QED BY <2>2
<1> QED BY <1>3 DEF ClimbIsLost

(* The frontiers that are computed: those of the reached blocks, and        *)
(* nothing for the others.                                                  *)
LEMMA FrontiersComputed ==
  ASSUME DTInv, TreeInv, TreeIsRight
  PROVE  /\ \A b \in Block : FrontiersUpTo[N][b] = IF b \in Reached THEN FrontierOf(b) ELSE {}
         /\ ~\E b \in Block : nodeDepthMap[b] > 0 /\
               \E x \in UNION {FrontiersUpTo[N][c] : c \in Children(b)} : ClimbIsLost(b, x)
<1>1. DTTypeOK /\ pc = "done" /\ N \in Nat /\ Reached \subseteq Block
      /\ nodeDepthMap \in [Block0 -> 0 .. N] /\ Block \subseteq Block0
  BY Blocks, DominanceOrder, Types DEF DTInv, TreeIsRight
<1>2. ASSUME NEW b \in Block, b \notin Reached PROVE FrontiersUpTo[N][b] = {}
  <2>1. nodeDepthMap[b] = 0
    <3>1. nodeDepthMap[b] \in 0 .. N /\ ~(nodeDepthMap[b] > 0)
      BY <1>1, <1>2, DepthMeansReached
    <3> QED BY <1>1, <3>1
  <2>2. Levels(FrontiersUpTo)
    BY <1>1, FrontierSteps
  <2>3. CASE N = 0
    BY <2>1, <2>2, <2>3 DEF Levels
  <2>4. CASE N # 0
    <3>1. N \in 1 .. N
      BY <1>1, <2>4
    <3>2. FrontiersUpTo[N] = [c \in Block |-> IF nodeDepthMap[c] = 0 THEN {}
             ELSE Local(c) \cup {x \in UNION {FrontiersUpTo[N - 1][d] : d \in Children(c)} : Passes(c, x)}]
      BY <2>2, <3>1 DEF Levels
    <3> QED BY <2>1, <3>2
  <2> QED BY <2>3, <2>4
<1>3. \A b \in Block : FrontiersUpTo[N][b] = IF b \in Reached THEN FrontierOf(b) ELSE {}
  BY <1>1, <1>2, FrontiersByHeight
<1>4. ASSUME NEW b \in Block, NEW x \in UNION {FrontiersUpTo[N][c] : c \in Children(b)}
      PROVE  ~ClimbIsLost(b, x)
  <2>1. PICK c \in Children(b) : x \in FrontiersUpTo[N][c]
    OBVIOUS
  <2>2. c \in Block
    BY DEF Children
  <2>3. x \in Reached
    BY <1>3, <2>1, <2>2 DEF FrontierOf
  <2> QED BY <2>3, NoClimbIsLost
<1> QED BY <1>3, <1>4

(* The inductive invariant: the analysis is over when the frontiers are     *)
(* computed, and does not start again; the frontiers stay as they are.      *)
FrontInv ==
  /\ status # "frontiers" => pc = "done"
  /\ status # "frontiers" /\ TreeIsRight =>
       /\ status # "threw"
       /\ \A b \in Block : dominanceFrontiers[b] = IF b \in Reached THEN FrontierOf(b) ELSE {}

(* Every step of the pass preserves it.                                     *)
LEMMA FrontNextInv ==
  ASSUME DTInv, TreeInv, M2Inv, FrontInv, [M2Next]_<<dtvars, m2vars>>
  PROVE  FrontInv'
<1>1. CASE DTNext /\ UNCHANGED m2vars
  <2>1. pc # "done"
    BY <1>1 DEF DTNext, Visit, VisitDone, SemiDominator, SemiDominatorsDone,
                ImmediateDominator, ImmediateDominatorsDone, Depth, DepthDone
  <2>2. status = "frontiers" /\ status' = "frontiers"
    BY <1>1, <2>1 DEF FrontInv, m2vars
  <2> QED BY <2>2 DEF FrontInv
<1>2. CASE UNCHANGED <<dtvars, m2vars>>
  <2>1. pc' = pc /\ status' = status /\ dominanceFrontiers' = dominanceFrontiers /\ UNCHANGED dtvars
    BY <1>2 DEF dtvars, m2vars
  <2> QED BY <2>1, FrontierStays DEF FrontInv
<1>3. CASE computeDominanceFrontier
  <2>1. pc = "done" /\ pc' = "done" /\ UNCHANGED dtvars
    BY <1>3 DEF computeDominanceFrontier, dtvars
  <2>2. ASSUME TreeIsRight
        PROVE  status' = "collect" /\ dominanceFrontiers' = FrontiersUpTo[N]
    BY <1>3, <2>2, FrontiersComputed DEF computeDominanceFrontier
  <2>3. ASSUME TreeIsRight'
        PROVE  /\ status' # "threw"
               /\ \A b \in Block : dominanceFrontiers'[b] = IF b \in Reached THEN FrontierOf(b) ELSE {}
    BY <2>1, <2>2, <2>3, FrontierStays, FrontiersComputed
  <2> QED BY <2>1, <2>3, FrontierStays DEF FrontInv
<1>4. ASSUME NEW b \in Block, Enter(b), status = "rename"
      PROVE  status' \notin {"frontiers", "threw"} /\ UNCHANGED <<dtvars, dominanceFrontiers>>
  <2> DEFINE run == Incoming(FoldLeft(Rename, Start, Insts(b)), b)
  <2>1. status' = (IF run.why = "none" THEN "rename" ELSE run.why) /\ UNCHANGED <<dtvars, dominanceFrontiers>>
    BY <1>4 DEF Enter, Start
  <2>2. CodeOK /\ PhisOK /\ Start \in Run
    BY DEF M2Inv, M2Types, Start, Run
  <2>3. run \in Run
    BY <2>2, RunPushes
  <2> HIDE DEF run
  <2> QED BY <2>1, <2>3 DEF Run
<1>5. CASE FindAllocas \/ insertPHINodes \/ NextAlloca \/ RenameEntry \/ RenameChild \/ RenameReturn
  <2>1. status \notin {"frontiers", "threw"} /\ status' \notin {"frontiers", "threw"}
        /\ UNCHANGED <<dtvars, dominanceFrontiers>>
    <3>1. CASE FindAllocas
      BY <3>1 DEF FindAllocas
    <3>2. CASE insertPHINodes
      BY <3>2 DEF insertPHINodes
    <3>3. CASE NextAlloca
      BY <3>3 DEF NextAlloca
    <3>4. CASE RenameEntry
      <4>1. status = "rename" /\ Enter(entry) /\ entry \in Block
        BY <3>4 DEF RenameEntry, DTInv, DTTypeOK
      <4> QED BY <1>4, <4>1
    <3>5. CASE RenameChild
      <4>1. PICK c \in Unvisited : Enter(c)
        BY <3>5 DEF RenameChild
      <4>2. status = "rename" /\ c \in Block
        BY <3>5 DEF RenameChild, Unvisited, Children
      <4> QED BY <1>4, <4>1, <4>2
    <3>6. CASE RenameReturn
      BY <3>6 DEF RenameReturn
    <3> QED BY <1>5, <3>1, <3>2, <3>3, <3>4, <3>5, <3>6
  <2>2. pc' = pc
    BY <2>1 DEF dtvars
  <2> QED BY <2>1, <2>2, FrontierStays DEF FrontInv
<1> QED BY <1>1, <1>2, <1>3, <1>5 DEF M2Next, Analyse

(* FrontiersAreFrontiers: on every control flow graph whose tree is right,  *)
(* the recursion of computeDominanceFrontier, which goes by idoms and       *)
(* depths, gives every reached block the blocks where its dominance ends.   *)
THEOREM FrontiersAreRight == M2Spec => []FrontiersAreFrontiers
<1>1. M2Init => DTInv /\ TreeInv /\ M2Inv /\ FrontInv
  BY InitInv, TreeInitInv, M2InitInv DEF M2Init, FrontInv
<1>2. DTInv /\ TreeInv /\ M2Inv /\ FrontInv /\ [M2Next]_<<dtvars, m2vars>>
      => (DTInv /\ TreeInv /\ M2Inv /\ FrontInv)'
  BY AnalysisStep, DTNextInv, TreeNextInv, M2NextInv, FrontNextInv
<1>3. DTInv /\ FrontInv => FrontiersAreFrontiers
  <2>1. DTInv => Reached \subseteq Block
    BY DominanceOrder DEF DTInv
  <2> QED BY <2>1 DEF FrontInv, FrontiersAreFrontiers, FrontierOf
<1> QED BY <1>1, <1>2, <1>3, PTL DEF M2Spec

-----------------------------------------------------------------------------
(* The steps of the pass.                                                  *)

(* rename is called, for the entry block or for a child of the last call.   *)
Call(b) ==
  /\ status = "rename" /\ Enter(b)
  /\ (visitedDFSBlocks = {} /\ b = entry) \/ (path # <<>> /\ b \in Unvisited)

(* Nothing the pass looks at changes.                                       *)
Idle == UNCHANGED <<dtvars, m2vars>> \/ (status = "frontiers" /\ pc # "done" /\ UNCHANGED m2vars)

(* The steps of the pass, once more: what the proofs below split on.        *)
LEMMA StepKinds ==
  ASSUME DTInv, M2Inv, FrontInv, [M2Next]_<<dtvars, m2vars>>
  PROVE  \/ Idle \/ computeDominanceFrontier \/ FindAllocas \/ insertPHINodes \/ NextAlloca
         \/ \E b \in Block : Call(b)
         \/ RenameReturn
<1>1. CASE UNCHANGED <<dtvars, m2vars>>
  BY <1>1 DEF Idle
<1>2. CASE Analyse
  <2>1. pc # "done" /\ UNCHANGED m2vars
    BY <1>2 DEF Analyse, DTNext, Visit, VisitDone, SemiDominator, SemiDominatorsDone,
                ImmediateDominator, ImmediateDominatorsDone, Depth, DepthDone
  <2> QED BY <2>1 DEF FrontInv, Idle
<1>3. CASE RenameEntry
  BY <1>3 DEF RenameEntry, Call, DTInv, DTTypeOK
<1>4. CASE RenameChild
  BY <1>4 DEF RenameChild, Call, Unvisited, Children
<1> QED BY <1>1, <1>2, <1>3, <1>4 DEF M2Next

(* A call of rename leaves what was computed before alone.                  *)
LEMMA CallKeeps ==
  ASSUME M2Inv, NEW b \in Block, Call(b)
  PROVE  /\ status = "rename" /\ status' \in {"rename", "undefined", "incoming", "pointer"}
         /\ UNCHANGED <<dtvars, code, dominanceFrontiers, todo, workingList, inserted, phis>>
         /\ path' = Append(path, b) /\ visitedDFSBlocks' = visitedDFSBlocks \cup {b}
<1> DEFINE run == Incoming(FoldLeft(Rename, Start, Insts(b)), b)
<1>1. status' = (IF run.why = "none" THEN "rename" ELSE run.why)
  BY DEF Call, Enter, Start
<1>2. CodeOK /\ PhisOK /\ Start \in Run
  BY DEF M2Inv, M2Types, Start, Run
<1>3. run \in Run
  BY <1>2, RunPushes
<1> HIDE DEF run
<1>4. status' \in {"rename", "undefined", "incoming", "pointer"}
  BY <1>1, <1>3 DEF Run
<1> QED BY <1>4 DEF Call, Enter

(* A return leaves what was computed before alone, and does not fail.       *)
LEMMA ReturnKeeps ==
  ASSUME M2Inv, RenameReturn
  PROVE  /\ status = "rename" /\ status' \in {"rename", "done"} /\ path # <<>>
         /\ UNCHANGED <<dtvars, code, dominanceFrontiers, todo, workingList, inserted, phis,
                        visitedDFSBlocks, replaced>>
         /\ path' = Front(path)
<1>1. M2Inv'
  BY ReturnInv
<1>2. status' # "underflow"
  BY <1>1 DEF M2Inv, M2Types
<1> QED BY <1>2 DEF RenameReturn

-----------------------------------------------------------------------------
(* Where the PHI nodes are.                                                 *)

(* The blocks with a PHI node for the alloca.                               *)
PhiBlocks(a) == {b \in Block : a \in ToSet(phis[b])}

(* A block defines the alloca, with a store or with a PHI node.             *)
HasDef(a, b) == b \in DefBlocks(a) \cup PhiBlocks(a)

(* P are the blocks of the iterated frontier of D: everything in the        *)
(* frontier of a block of D or P, and nothing else.                         *)
Closed(F, D, P) ==
  /\ \A x \in D \cup P : F[x] \subseteq P
  /\ \A y \in P : \E x \in D \cup P : y \in F[x]

(* P on its way there: W is the working list.                               *)
Closing(F, D, P, W) ==
  /\ W \subseteq D \cup P
  /\ \A x \in D \cup P : x \in W \/ F[x] \subseteq P
  /\ \A y \in P : \E x \in D \cup P : y \in F[x]

Placed(a) == Closed(dominanceFrontiers, DefBlocks(a), PhiBlocks(a))

(* The invariant of PromoteMemToReg: the PHI nodes of the allocas that are  *)
(* done are placed, those of the alloca in hand are on their way.           *)
PlaceInv ==
  /\ status \in {"frontiers", "collect"} => inserted = {}
  /\ status = "place" =>
       /\ \A a : a = Head(todo) =>
            /\ PhiBlocks(a) = inserted
            /\ Closing(dominanceFrontiers, DefBlocks(a), inserted, workingList)
       /\ ToSet(todo) \subseteq Promoted
       /\ \A a \in Promoted \ ToSet(todo) : Placed(a)
  /\ status \notin {"frontiers", "collect", "threw", "place"} => \A a \in Promoted : Placed(a)
  /\ status \notin {"frontiers", "collect", "threw"} =>
       \A b \in Block : ToSet(phis[b]) \subseteq Promoted

(* What is promoted, and where it is stored to, depends on the code only.   *)
LEMMA CodeStays ==
  ASSUME UNCHANGED <<entry, code>>
  PROVE  /\ Promoted' = Promoted /\ \A a : DefBlocks(a)' = DefBlocks(a)
         /\ Places' = Places /\ \A p : At(p)' = At(p)
<1>1. Places' = Places
  BY DEF Places
<1>2. \A p : At(p)' = At(p)
  BY DEF At
<1>3. \A a : isAllocaPromotable(a)' <=> isAllocaPromotable(a)
  BY <1>1, <1>2 DEF isAllocaPromotable
<1>4. Promoted' = Promoted
  BY DEF Promoted, Allocas, isAllocaPromotable, Places, At, FoldLeft, MapThenFoldSet
<1>5. \A a : DefBlocks(a)' = DefBlocks(a)
  BY <1>1, <1>2 DEF DefBlocks
<1> QED BY <1>1, <1>2, <1>4, <1>5

(* Where the PHI nodes are depends on phis only.                            *)
LEMMA PhisStay ==
  ASSUME UNCHANGED <<entry, code, phis>>
  PROVE  /\ Promoted' = Promoted /\ \A a : DefBlocks(a)' = DefBlocks(a) /\ PhiBlocks(a)' = PhiBlocks(a)
         /\ \A a, b : HasDef(a, b)' <=> HasDef(a, b)
<1>1. Promoted' = Promoted /\ \A a : DefBlocks(a)' = DefBlocks(a)
  BY CodeStays
<1>2. \A a : PhiBlocks(a)' = PhiBlocks(a)
  BY DEF PhiBlocks
<1> QED BY <1>1, <1>2 DEF HasDef

(* The blocks taken from the working list add their frontier.               *)
LEMMA ClosingStep ==
  ASSUME NEW F, NEW D, NEW P, NEW W, Closing(F, D, P, W), NEW b \in W
  PROVE  LET M == F[b] \ P IN Closing(F, D, P \cup M, (W \ {b}) \cup (M \ D))
BY DEF Closing

(* insertPHINodes.                                                          *)
LEMMA InsertPlaces ==
  ASSUME M2Inv, PlaceInv, insertPHINodes
  PROVE  PlaceInv'
<1> DEFINE h == Head(todo)
<1>1. PICK b \in workingList :
        /\ phis' = [x \in Block |-> IF x \in Missing(b) THEN <<h>> \o phis[x] ELSE phis[x]]
        /\ inserted' = inserted \cup Missing(b)
        /\ workingList' = (workingList \ {b}) \cup NewDefs(h, b)
  BY DEF insertPHINodes
<1>2. /\ status = "place" /\ status' = "place"
      /\ UNCHANGED <<entry, code, dominanceFrontiers, todo>>
  BY DEF insertPHINodes, dtvars
<1>3. Promoted' = Promoted /\ \A a : DefBlocks(a)' = DefBlocks(a)
  BY <1>2, CodeStays
<1>4. /\ PhiBlocks(h) = inserted
      /\ Closing(dominanceFrontiers, DefBlocks(h), inserted, workingList)
      /\ ToSet(todo) \subseteq Promoted
      /\ \A a \in Promoted \ ToSet(todo) : Placed(a)
      /\ \A x \in Block : ToSet(phis[x]) \subseteq Promoted
  BY <1>2 DEF PlaceInv
<1>5. h \in Alloca /\ h \in ToSet(todo) /\ PhisOK /\ Missing(b) \subseteq Block
  <2>1. todo \in Seq(Alloca) /\ todo # <<>> /\ PhisOK /\ b \in Block
        /\ dominanceFrontiers \in [Block -> SUBSET Block]
    BY <1>2 DEF M2Inv, M2Types, OnePhiEach
  <2> QED BY <2>1, TailNodes DEF Missing
<1> HIDE DEF h
<1>6. ASSUME NEW x \in Block
      PROVE  ToSet(phis'[x]) = IF x \in Missing(b) THEN {h} \cup ToSet(phis[x]) ELSE ToSet(phis[x])
  <2>1. CASE x \notin Missing(b)
    BY <1>1, <2>1
  <2>2. CASE x \in Missing(b)
    <3>1. phis'[x] = <<h>> \o phis[x] /\ phis[x] \in Seq(Alloca)
      BY <1>1, <1>5, <2>2 DEF PhisOK
    <3>2. <<h>> \in Seq(Alloca) /\ ToSet(<<h>>) = {h}
      BY <1>5 DEF ToSet
    <3>3. \A s, t \in Seq(Alloca) : ToSet(s \o t) = ToSet(s) \cup ToSet(t)
      BY ConcatNodes
    <3> QED BY <2>2, <3>1, <3>2, <3>3
  <2> QED BY <2>1, <2>2
<1>7. PhiBlocks(h)' = inserted'
  <2>1. PhiBlocks(h)' = {x \in Block : h \in ToSet(phis'[x])}
    BY <1>2 DEF PhiBlocks, h
  <2> QED BY <1>1, <1>4, <1>5, <1>6, <2>1 DEF PhiBlocks
<1>8. \A a : a # h => PhiBlocks(a)' = PhiBlocks(a)
  BY <1>6 DEF PhiBlocks
<1>9. Closing(dominanceFrontiers, DefBlocks(h), inserted', workingList')
  BY <1>1, <1>4, ClosingStep DEF Missing, NewDefs
<1>10. \A a \in Promoted \ ToSet(todo) : Placed(a)'
  BY <1>2, <1>3, <1>4, <1>5, <1>8 DEF Placed
<1>11. \A x \in Block : ToSet(phis'[x]) \subseteq Promoted
  BY <1>4, <1>5, <1>6
<1> QED BY <1>2, <1>3, <1>7, <1>9, <1>10, <1>11 DEF PlaceInv, h

(* FindAllocas: there are no PHI nodes yet.                                 *)
LEMMA FindPlaces ==
  ASSUME DTTypeOK, M2Inv, PlaceInv, FindAllocas
  PROVE  PlaceInv'
<1>1. /\ status = "collect" /\ UNCHANGED <<entry, code, dominanceFrontiers, phis, inserted>>
      /\ todo' = Allocas
      /\ status' = (IF todo' = <<>> THEN "done" ELSE "place")
      /\ workingList' = IF todo' = <<>> THEN {} ELSE DefBlocks(Head(todo'))
  BY DEF FindAllocas, dtvars
<1>2. /\ Promoted' = Promoted /\ Promoted = ToSet(Allocas) /\ \A a : DefBlocks(a)' = DefBlocks(a)
      /\ \A a : PhiBlocks(a)' = PhiBlocks(a)
  BY <1>1, PhisStay DEF Promoted
<1>3. ToSet(todo') = Promoted
  BY <1>1, <1>2
<1>4. \A b \in Block : ToSet(phis[b]) = {}
  BY <1>1 DEF M2Inv, OnePhiEach, ToSet
<1>5. inserted' = {} /\ \A a : PhiBlocks(a)' = {}
  <2>1. inserted' = {}
    BY <1>1 DEF PlaceInv
  <2>2. \A a : PhiBlocks(a) = {}
    BY <1>4 DEF PhiBlocks
  <2> QED BY <1>2, <2>1, <2>2
<1>6. CASE todo' = <<>>
  <2>1. ToSet(todo') = {}
    BY <1>6 DEF ToSet
  <2>2. status' = "done" /\ Promoted' = {}
    BY <1>1, <1>2, <1>3, <1>6, <2>1
  <2> QED BY <1>1, <1>4, <2>2 DEF PlaceInv
<1>7. CASE todo' # <<>>
  <2>1. status' = "place" /\ workingList' = DefBlocks(Head(todo'))
    BY <1>1, <1>7
  <2>2. ASSUME NEW a, a = Head(todo')
        PROVE  Closing(dominanceFrontiers', DefBlocks(a)', inserted', workingList')
    <3>1. workingList' = DefBlocks(a)'
      BY <1>2, <2>1, <2>2
    <3> QED BY <1>5, <3>1 DEF Closing
  <2> QED BY <1>1, <1>2, <1>3, <1>4, <1>5, <2>1, <2>2 DEF PlaceInv
<1> QED BY <1>6, <1>7

(* NextAlloca: nothing is left to do for the alloca in hand, the next one   *)
(* has no PHI nodes.                                                        *)
LEMMA NextPlaces ==
  ASSUME DTTypeOK, M2Inv, PlaceInv, NextAlloca
  PROVE  PlaceInv'
<1>1. /\ status = "place" /\ workingList = {} /\ UNCHANGED <<entry, code, dominanceFrontiers, phis>>
      /\ todo' = Tail(todo) /\ inserted' = {}
      /\ status' = (IF todo' = <<>> THEN "rename" ELSE "place")
      /\ workingList' = IF todo' = <<>> THEN {} ELSE DefBlocks(Head(todo'))
  BY DEF NextAlloca, dtvars
<1>2. /\ Promoted' = Promoted /\ \A a : DefBlocks(a)' = DefBlocks(a)
      /\ \A a : PhiBlocks(a)' = PhiBlocks(a)
  BY <1>1, PhisStay
<1>3. /\ todo \in Seq(Alloca) /\ todo # <<>> /\ Tail(todo) \in Seq(Alloca)
      /\ ToSet(todo) = ToSet(Tail(todo)) \cup {Head(todo)}
  <2>1. todo \in Seq(Alloca) /\ todo # <<>>
    BY <1>1 DEF M2Inv, M2Types, OnePhiEach
  <2> QED BY <2>1, TailNodes
<1>4. Placed(Head(todo))
  <2> DEFINE h == Head(todo)
  <2>1. PhiBlocks(h) = inserted /\ Closing(dominanceFrontiers, DefBlocks(h), inserted, workingList)
    BY <1>1 DEF PlaceInv
  <2> HIDE DEF h
  <2>2. Placed(h)
    BY <1>1, <2>1 DEF Placed, Closing, Closed
  <2> QED BY <2>2 DEF h
<1>5. \A a \in Promoted \ ToSet(todo') : Placed(a)
  BY <1>1, <1>3, <1>4 DEF PlaceInv
<1>6. \A a : Placed(a)' <=> Placed(a)
  BY <1>1, <1>2 DEF Placed
<1>7. ToSet(todo') \subseteq Promoted /\ \A b \in Block : ToSet(phis[b]) \subseteq Promoted
  BY <1>1, <1>3 DEF PlaceInv
<1>8. CASE todo' = <<>>
  <2>1. ToSet(todo') = {}
    BY <1>8 DEF ToSet
  <2> QED BY <1>1, <1>2, <1>5, <1>6, <1>7, <1>8, <2>1 DEF PlaceInv
<1>9. CASE todo' # <<>>
  <2>1. status' = "place" /\ workingList' = DefBlocks(Head(todo'))
    BY <1>1, <1>9
  <2>2. ASSUME NEW a, a = Head(todo')
        PROVE  /\ PhiBlocks(a)' = inserted'
               /\ Closing(dominanceFrontiers', DefBlocks(a)', inserted', workingList')
    <3>1. a \in ToSet(Tail(todo))
      <4>1. \A s \in Seq(Alloca) : s # <<>> => Head(s) \in ToSet(s)
        BY TailNodes
      <4> QED BY <1>1, <1>3, <1>9, <2>2, <4>1
    <3>2. \A b \in Block : a \notin ToSet(phis[b])
      BY <1>1, <3>1 DEF M2Inv, OnePhiEach
    <3>3. PhiBlocks(a)' = {}
      BY <1>2, <3>2 DEF PhiBlocks
    <3>4. workingList' = DefBlocks(a)'
      BY <1>2, <2>1, <2>2
    <3> QED BY <1>1, <3>3, <3>4 DEF Closing
  <2> QED BY <1>1, <1>2, <1>5, <1>6, <1>7, <2>1, <2>2 DEF PlaceInv
<1> QED BY <1>8, <1>9

(* The rest of the pass leaves the PHI nodes where they are.                *)
LEMMA PlacesStay ==
  ASSUME PlaceInv, UNCHANGED <<entry, code, dominanceFrontiers, phis>>,
         status = "rename", status' \in {"rename", "done", "undefined", "incoming", "pointer"}
  PROVE  PlaceInv'
<1>1. /\ Promoted' = Promoted /\ \A a : DefBlocks(a)' = DefBlocks(a)
      /\ \A a : PhiBlocks(a)' = PhiBlocks(a)
  BY PhisStay
<1>2. \A a : Placed(a)' <=> Placed(a)
  BY <1>1 DEF Placed
<1> QED BY <1>1, <1>2 DEF PlaceInv

(* Every step of the pass preserves it.                                     *)
LEMMA PlaceNextInv ==
  ASSUME DTInv, M2Inv, FrontInv, PlaceInv, [M2Next]_<<dtvars, m2vars>>
  PROVE  PlaceInv'
<1>1. CASE Idle
  <2>1. CASE UNCHANGED <<dtvars, m2vars>>
    <3>1. UNCHANGED <<entry, code, status, dominanceFrontiers, todo, workingList, inserted, phis>>
      BY <2>1 DEF dtvars, m2vars
    <3>2. /\ Promoted' = Promoted /\ \A a : DefBlocks(a)' = DefBlocks(a)
          /\ \A a : PhiBlocks(a)' = PhiBlocks(a)
      BY <3>1, PhisStay
    <3>3. \A a : Placed(a)' <=> Placed(a)
      BY <3>1, <3>2 DEF Placed
    <3> QED BY <3>1, <3>2, <3>3 DEF PlaceInv
  <2>2. CASE status = "frontiers" /\ UNCHANGED m2vars
    BY <2>2 DEF m2vars, PlaceInv
  <2> QED BY <1>1, <2>1, <2>2 DEF Idle
<1>2. CASE computeDominanceFrontier
  BY <1>2 DEF computeDominanceFrontier, PlaceInv
<1>3. CASE FindAllocas \/ insertPHINodes \/ NextAlloca
  BY <1>3, FindPlaces, InsertPlaces, NextPlaces DEF DTInv
<1>4. CASE \E b \in Block : Call(b)
  <2>1. status = "rename" /\ status' \in {"rename", "undefined", "incoming", "pointer"}
        /\ UNCHANGED <<entry, code, dominanceFrontiers, phis>>
    BY <1>4, CallKeeps DEF dtvars
  <2> QED BY <2>1, PlacesStay
<1>5. CASE RenameReturn
  <2>1. status = "rename" /\ status' \in {"rename", "done"}
        /\ UNCHANGED <<entry, code, dominanceFrontiers, phis>>
    BY <1>5, ReturnKeeps DEF dtvars
  <2> QED BY <2>1, PlacesStay
<1> QED BY <1>1, <1>2, <1>3, <1>4, <1>5, StepKinds

-----------------------------------------------------------------------------
(* The definitions that arrive at a block.                                  *)

(* The stores to the alloca among the first n instructions of the block.    *)
Stores(a, b, n) == {i \in 1 .. n : code[b][i].op = "store" /\ code[b][i].ptr = a}

(* The last definition of a list of instructions: the last store, or else   *)
(* the PHI node.                                                            *)
LEMMA LastDefCases ==
  ASSUME PhisOK, NEW a, NEW b \in Block, NEW n \in Nat
  PROVE  /\ \A k \in Stores(a, b, n) :
              (\A j \in Stores(a, b, n) : j <= k) => LastDef(a, b, n) = {<<b, k>>}
         /\ Stores(a, b, n) = {} => LastDef(a, b, n) = IF a \in ToSet(phis[b]) THEN {<<b, 0>>} ELSE {}
         /\ Stores(a, b, n) # {} =>
              \E k \in Stores(a, b, n) : \A j \in Stores(a, b, n) : j <= k
<1> DEFINE st == Stores(a, b, n)
<1>1. LastDef(a, b, n) =
        IF st # {} THEN {<<b, CHOOSE i \in st : \A j \in st : j <= i>>}
        ELSE IF Contains(phis[b], a) THEN {<<b, 0>>} ELSE {}
  BY DEF LastDef, Stores
<1>2. st \subseteq 1 .. n /\ \A j \in st : j \in Nat
  BY DEF Stores
<1>3. Contains(phis[b], a) <=> a \in ToSet(phis[b])
  <2>1. DOMAIN phis[b] = 1 .. Len(phis[b])
    BY LenProperties DEF PhisOK
  <2> QED BY <2>1 DEF Contains, ToSet
<1> HIDE DEF st
<1>4. st # {} => \E k \in st : \A j \in st : j <= k
  <2>1. ASSUME st # {} PROVE \E k \in st : \A j \in st : j <= k
    <3>1. Max(st) \in st /\ \A j \in st : Max(st) >= j
      BY <1>2, <2>1, MaxOfNats
    <3>2. Max(st) \in Nat /\ \A j \in st : j \in Nat
      BY <1>2, <3>1
    <3> QED BY <3>1, <3>2
  <2> QED BY <2>1
<1>5. ASSUME NEW k \in st, \A j \in st : j <= k PROVE LastDef(a, b, n) = {<<b, k>>}
  <2> DEFINE c == CHOOSE i \in st : \A j \in st : j <= i
  <2>1. c \in st /\ \A j \in st : j <= c
    BY <1>5
  <2>2. c <= k /\ k <= c /\ c \in Nat /\ k \in Nat
    BY <1>2, <1>5, <2>1
  <2>3. c = k
    <3> HIDE DEF c
    <3> QED BY <2>2
  <2> QED BY <1>1, <2>3
<1> QED BY <1>1, <1>3, <1>4, <1>5 DEF st

(* The definition a block ends with, if it has one.                         *)
Own(a, b) == LastDef(a, b, Len(code[b]))

(* A block ends with one definition at most, and with none only if it has   *)
(* none.                                                                    *)
LEMMA OwnDefinition ==
  ASSUME CodeOK, PhisOK, NEW a, NEW b \in Block
  PROVE  /\ Own(a, b) = {} \/ \E k \in Nat : Own(a, b) = {<<b, k>>}
         /\ Own(a, b) = {} <=> ~HasDef(a, b)
<1> DEFINE n == Len(code[b])
<1>1. n \in Nat
  BY LenProperties DEF CodeOK
<1>2. Stores(a, b, n) # {} <=> b \in DefBlocks(a)
  <2>1. ASSUME NEW i \in Stores(a, b, n) PROVE b \in DefBlocks(a)
    <3> DEFINE q == <<b, i>>
    <3>1. q \in Places /\ q[1] = b /\ At(q).op = "store" /\ At(q).ptr = a
      BY DEF Places, At, Stores
    <3> HIDE DEF q
    <3> QED BY <3>1 DEF DefBlocks
  <2>2. ASSUME b \in DefBlocks(a) PROVE Stores(a, b, n) # {}
    <3>1. PICK q \in Places : q[1] = b /\ At(q).op = "store" /\ At(q).ptr = a
      BY <2>2 DEF DefBlocks
    <3>2. PICK c \in Block : \E i \in 1 .. Len(code[c]) : q = <<c, i>>
      BY <3>1 DEF Places
    <3>p. PICK i \in 1 .. Len(code[c]) : q = <<c, i>>
      BY <3>2
    <3>3. c = b /\ i \in Stores(a, b, n)
      BY <3>1, <3>p DEF At, Stores
    <3> QED BY <3>3
  <2> QED BY <2>1, <2>2
<1>3. Stores(a, b, n) \subseteq Nat
  BY <1>1 DEF Stores
<1>4. CASE Stores(a, b, n) # {}
  <2>1. PICK k \in Stores(a, b, n) : \A j \in Stores(a, b, n) : j <= k
    BY <1>1, <1>4, LastDefCases
  <2>2. Own(a, b) = {<<b, k>>}
    BY <1>1, <2>1, LastDefCases DEF Own
  <2> QED BY <1>2, <1>3, <1>4, <2>2 DEF HasDef
<1>5. CASE Stores(a, b, n) = {}
  <2>1. Own(a, b) = IF a \in ToSet(phis[b]) THEN {<<b, 0>>} ELSE {}
    BY <1>1, <1>5, LastDefCases DEF Own
  <2>2. HasDef(a, b) <=> a \in ToSet(phis[b])
    BY <1>2, <1>5 DEF HasDef, PhiBlocks
  <2> QED BY <2>1, <2>2
<1> QED BY <1>4, <1>5

(* All definitions of the alloca, and its not being initialised.            *)
AnyDef(a) == {Uninitialised} \cup UNION {Own(a, b) : b \in Block}

(* There are finitely many, and a definition knows the block it is in.      *)
LEMMA FewDefinitions ==
  ASSUME CodeOK, PhisOK, NEW a
  PROVE  IsFiniteSet(AnyDef(a)) /\ \A d \in AnyDef(a) : d = Uninitialised \/ (d[1] \in Block /\ d \in Own(a, d[1]))
<1> DEFINE f == [b \in Block |-> Own(a, b)]
           S == {Own(a, b) : b \in Block}
<1>1. IsFiniteSet(S)
  <2>1. f \in Surjection(Block, S)
    BY DEF Surjection
  <2> QED BY <2>1, Blocks, FS_Surjection
<1>2. ASSUME NEW b \in Block PROVE IsFiniteSet(Own(a, b))
  <2>1. CASE Own(a, b) = {}
    BY <2>1, FS_EmptySet
  <2>2. CASE \E k \in Nat : Own(a, b) = {<<b, k>>}
    BY <2>2, FS_Singleton
  <2> QED BY <2>1, <2>2, OwnDefinition
<1>3. IsFiniteSet(UNION S)
  BY <1>1, <1>2, FS_UNION
<1>4. IsFiniteSet({Uninitialised})
  BY FS_Singleton
<1>5. IsFiniteSet(AnyDef(a))
  BY <1>3, <1>4, FS_Union DEF AnyDef
<1>6. ASSUME NEW b \in Block, NEW d \in Own(a, b) PROVE d[1] = b
  BY <1>6, OwnDefinition
<1> QED BY <1>5, <1>6 DEF AnyDef

(* What leaves a block: its own definition, or what arrives.                *)
Out(a, in, p) == IF Own(a, p) = {} THEN in[p] ELSE Own(a, p)

(* What arrives at a block: what leaves its predecessors.                   *)
Into(a, in, b) ==
  (IF b = entry THEN {Uninitialised} ELSE {}) \cup UNION {Out(a, in, p) : p \in Preds(b) \cap Reached}

(* fl[n] arrives along n edges.                                             *)
Flows(fl, a) ==
  /\ Arriving(a) = fl[N]
  /\ fl[0] = [b \in Block |-> IF b = entry THEN {Uninitialised} ELSE {}]
  /\ \A n \in 1 .. N : fl[n] = [b \in Block |-> Into(a, fl[n - 1], b)]

(* The recursion of Arriving.                                               *)
LEMMA FlowSteps ==
  ASSUME CodeOK, PhisOK, NEW a
  PROVE  \E fl \in [0 .. N -> [Block -> SUBSET AnyDef(a)]] : Flows(fl, a)
<1> DEFINE V == [Block -> SUBSET AnyDef(a)]
           Low == [b \in Block |-> IF b = entry THEN {Uninitialised} ELSE {}]
           Raised(f) == [b \in Block |-> Into(a, f, b)]
           g == [f \in V |-> Raised(f)]
           Body(fl) == [n \in 0 .. N |-> IF n = 0 THEN Low ELSE Raised(fl[n - 1])]
           flow == CHOOSE f : f = Body(f)
<1>1. N \in Nat
  BY Blocks
<1>2. Low \in V /\ \A f \in V : Raised(f) \in V
  <2>1. Low \in V
    BY DEF AnyDef
  <2>2. ASSUME NEW f \in V, NEW b \in Block PROVE Into(a, f, b) \in SUBSET AnyDef(a)
    <3>1. \A p \in Preds(b) : Out(a, f, p) \in SUBSET AnyDef(a)
      BY DEF Out, AnyDef, Preds
    <3> QED BY <3>1 DEF Into, AnyDef
  <2> HIDE DEF V
  <2>3. \A f \in V : \A b \in Block : Into(a, f, b) \in SUBSET AnyDef(a)
    BY <2>2
  <2> QED BY <2>1, <2>3 DEF V
<1>3. Arriving(a) = flow[N]
  <2> DEFINE Raw(fl) == [n \in 0 .. N |->
        [b \in Block |->
           (IF b = entry THEN {Uninitialised} ELSE {}) \cup
           (IF n = 0 THEN {}
            ELSE UNION {(IF LastDef(a, p, Len(code[p])) = {} THEN fl[n - 1][p] ELSE LastDef(a, p, Len(code[p]))) :
                          p \in Preds(b) \cap Reached})]]
  <2>1. ASSUME NEW fl PROVE Raw(fl) = Body(fl)
    <3>1. ASSUME NEW n \in 0 .. N PROVE Raw(fl)[n] = Body(fl)[n]
      <4>1. CASE n = 0
        BY <4>1
      <4>2. CASE n # 0
        BY <4>2 DEF Into, Out, Own
      <4> QED BY <4>1, <4>2
    <3> QED BY <3>1
  <2>2. Arriving(a) = (CHOOSE f : f = Raw(f))[N]
    BY DEF Arriving
  <2> HIDE DEF Raw, Body
  <2> QED BY <2>1, <2>2
<1>4. g \in [V -> V]
  BY <1>2
<1> HIDE DEF g, Low, Raised, V
<1>5. PICK f \in [0 .. N -> V] : Iterates(f, g, Low, N)
  BY <1>1, <1>2, <1>4, IterationExists
<1>6. ASSUME NEW n \in 0 .. N PROVE f[n] = IF n = 0 THEN Low ELSE Raised(f[n - 1])
  <2>1. CASE n = 0
    BY <1>5, <2>1 DEF Iterates
  <2>2. CASE n # 0
    <3>1. n \in 1 .. N /\ n - 1 \in 0 .. N
      BY <1>1, <2>2
    <3>2. f[n] = g[f[n - 1]] /\ f[n - 1] \in V
      BY <1>5, <3>1 DEF Iterates
    <3> QED BY <2>2, <3>2 DEF g
  <2> QED BY <2>1, <2>2
<1>7. f = Body(f)
  BY <1>6
<1> HIDE DEF Body
<1>8. flow = Body(flow)
  BY <1>7
<1> HIDE DEF flow
<1>9. flow[0] = Low /\ \A n \in 1 .. N : flow[n] = Raised(flow[n - 1])
  <2>1. flow[0] = Low
    BY <1>1, <1>8 DEF Body
  <2>2. ASSUME NEW n \in 1 .. N PROVE flow[n] = Raised(flow[n - 1])
    <3>1. n \in 0 .. N /\ n # 0
      BY <1>1
    <3> QED BY <1>8, <3>1 DEF Body
  <2> QED BY <2>1, <2>2
<1>10. \A n \in 0 .. N : flow[n] \in V
  <2> DEFINE T == {n \in 0 .. N : flow[n] \in V}
  <2>1. 0 \in T
    BY <1>1, <1>2, <1>9
  <2>2. ASSUME NEW n \in 0 .. N - 1, n \in T PROVE n + 1 \in T
    <3>1. n + 1 \in 1 .. N /\ (n + 1) - 1 = n /\ n + 1 \in 0 .. N
      BY <1>1
    <3>2. flow[n + 1] = Raised(flow[n]) /\ flow[n] \in V
      BY <1>9, <2>2, <3>1
    <3>3. flow[n + 1] \in V
      BY <1>2, <3>2
    <3> QED BY <3>1, <3>3
  <2> HIDE DEF T
  <2>3. \A n \in 0 .. N : n \in T
    BY <1>1, <2>1, <2>2, UpTo
  <2> QED BY <2>3 DEF T
<1>11. flow \in [0 .. N -> V]
  BY <1>8, <1>10 DEF Body
<1>12. Flows(flow, a)
  BY <1>3, <1>9 DEF Flows, Low, Raised
<1> QED BY <1>11, <1>12 DEF V

(* Arriving is a solution of its equations: N edges are enough for every    *)
(* definition, each of which reaches a block more in every round until it   *)
(* reaches no more.                                                         *)
LEMMA ArrivingCloses ==
  ASSUME CodeOK, PhisOK, NEW a
  PROVE  \A b \in Block : /\ Arriving(a)[b] = Into(a, Arriving(a), b)
                          /\ Arriving(a)[b] \subseteq AnyDef(a)
<1>1. PICK fl \in [0 .. N -> [Block -> SUBSET AnyDef(a)]] : Flows(fl, a)
  BY FlowSteps
<1>2. N \in Nat /\ IsFiniteSet(Block) /\ Cardinality(Block) = N
  BY Blocks
<1>3. ASSUME NEW d
      PROVE  \A b \in Block : d \in fl[N][b] <=> d \in Into(a, fl[N], b)
  <2> DEFINE At0(b) == b = entry /\ d = Uninitialised
             Gets(X, b) == \E p \in Preds(b) \cap Reached :
                             IF Own(a, p) = {} THEN p \in X ELSE d \in Own(a, p)
             g == [X \in SUBSET Block |-> {b \in Block : At0(b) \/ Gets(X, b)}]
             F == [n \in 0 .. N |-> {b \in Block : d \in fl[n][b]}]
  <2>1. ASSUME NEW n \in 0 .. N, NEW b \in Block
        PROVE  d \in Into(a, fl[n], b) <=> b \in g[F[n]]
    <3>1. F[n] \in SUBSET Block /\ F[n] = {c \in Block : d \in fl[n][c]}
      OBVIOUS
    <3> HIDE DEF F
    <3>2. d \in Into(a, fl[n], b) <=> At0(b) \/ \E p \in Preds(b) \cap Reached : d \in Out(a, fl[n], p)
      BY DEF Into
    <3>3. \A p \in Preds(b) : d \in Out(a, fl[n], p) <=>
                                 IF Own(a, p) = {} THEN p \in F[n] ELSE d \in Own(a, p)
      BY <3>1 DEF Out, Preds
    <3>4. b \in g[F[n]] <=> At0(b) \/ Gets(F[n], b)
      BY <3>1
    <3> HIDE DEF g, At0
    <3> QED BY <3>2, <3>3, <3>4
  <2>2. g \in [SUBSET Block -> SUBSET Block] /\ F \in [0 .. N -> SUBSET Block]
    OBVIOUS
  <2>3. \A X, Y \in SUBSET Block : X \subseteq Y => g[X] \subseteq g[Y]
    OBVIOUS
  <2>4. F[0] \subseteq g[F[0]]
    <3>1. 0 \in 0 .. N
      BY <1>2
    <3>2. \A b \in Block : d \in fl[0][b] => At0(b)
      BY <1>1 DEF Flows
    <3>3. F[0] = {b \in Block : d \in fl[0][b]} /\ F[0] \in SUBSET Block
      BY <3>1
    <3> HIDE DEF F
    <3>4. g[F[0]] = {b \in Block : At0(b) \/ Gets(F[0], b)}
      BY <3>3
    <3> HIDE DEF g, At0, Gets
    <3> QED BY <3>2, <3>3, <3>4
  <2>5. \A n \in 1 .. N : F[n] = g[F[n - 1]]
    <3> SUFFICES ASSUME NEW n \in 1 .. N PROVE F[n] = g[F[n - 1]]
      OBVIOUS
    <3>1. n \in 0 .. N /\ n - 1 \in 0 .. N
      BY <1>2
    <3>2. fl[n] = [b \in Block |-> Into(a, fl[n - 1], b)]
      BY <1>1 DEF Flows
    <3>3. F[n] = {b \in Block : d \in Into(a, fl[n - 1], b)}
      BY <3>1, <3>2
    <3>4. g[F[n - 1]] \subseteq Block
      BY <2>2, <3>1
    <3> HIDE DEF F, g
    <3> QED BY <2>1, <3>1, <3>3, <3>4
  <2> HIDE DEF g
  <2>6. g[F[N]] = F[N]
    <3> HIDE DEF F
    <3> QED BY <1>2, <2>2, <2>3, <2>4, <2>5, Settles
  <2>7. N \in 0 .. N
    BY <1>2
  <2> QED BY <2>1, <2>6, <2>7
<1>4. Arriving(a) = fl[N] /\ fl[N] \in [Block -> SUBSET AnyDef(a)]
  BY <1>1, <1>2 DEF Flows
<1>5. ASSUME NEW b \in Block PROVE fl[N][b] = Into(a, fl[N], b)
  BY <1>3
<1> QED BY <1>4, <1>5

(* It is the least one.                                                     *)
LEMMA ArrivingLeast ==
  ASSUME CodeOK, PhisOK, NEW a, NEW Z, \A b \in Block : Into(a, Z, b) \subseteq Z[b]
  PROVE  \A b \in Block : Arriving(a)[b] \subseteq Z[b]
<1>1. PICK fl \in [0 .. N -> [Block -> SUBSET AnyDef(a)]] : Flows(fl, a)
  BY FlowSteps
<1>2. N \in Nat
  BY Blocks
<1> DEFINE Below(n) == \A b \in Block : fl[n][b] \subseteq Z[b]
           T == {n \in 0 .. N : Below(n)}
<1>3. 0 \in T
  <2>1. fl[0] = [b \in Block |-> IF b = entry THEN {Uninitialised} ELSE {}]
    BY <1>1 DEF Flows
  <2>2. \A b \in Block : fl[0][b] \subseteq Into(a, Z, b)
    BY <2>1 DEF Into
  <2> QED BY <1>2, <2>2
<1>4. ASSUME NEW n \in 0 .. N - 1, n \in T PROVE n + 1 \in T
  <2>1. n + 1 \in 1 .. N /\ n + 1 \in 0 .. N /\ (n + 1) - 1 = n
    BY <1>2
  <2>2. fl[n + 1] = [b \in Block |-> Into(a, fl[n], b)]
    BY <1>1, <2>1 DEF Flows
  <2>3. \A p \in Block : Out(a, fl[n], p) \subseteq Out(a, Z, p)
    BY <1>4 DEF Out
  <2>4. \A b \in Block : Into(a, fl[n], b) \subseteq Into(a, Z, b)
    BY <2>3 DEF Into, Preds
  <2>5. Below(n + 1)
    BY <2>2, <2>4
  <2> HIDE DEF Below
  <2> QED BY <2>1, <2>5
<1> HIDE DEF Below
<1>5. N \in T
  <2>1. \A n \in 0 .. N : n \in T
    BY <1>2, <1>3, <1>4, UpTo
  <2> QED BY <1>2, <2>1
<1> QED BY <1>1, <1>5 DEF Below, Flows

(* What arrives depends on the code, the PHI nodes and the graph only.      *)
LEMMA ArrivingStays ==
  ASSUME UNCHANGED <<dtvars, code, phis>>
  PROVE  \A a : Arriving(a)' = Arriving(a)
<1>1. UNCHANGED <<entry, succ>>
  BY DEF dtvars
<1>2. Reached' = Reached
  BY DEF dtvars, Reached, ReachedWithout
<1> QED BY <1>1, <1>2 DEF Arriving, LastDef, Preds

-----------------------------------------------------------------------------
(* PHI nodes and the definitions that arrive.                               *)

(* What PromoteMemToReg did for the alloca, said with the frontiers of the  *)
(* graph.                                                                   *)
PhisPlaced(a) ==
  /\ \A x \in Reached : HasDef(a, x) => FrontierOf(x) \subseteq PhiBlocks(a)
  /\ \A y \in PhiBlocks(a) : \E x \in Reached : HasDef(a, x) /\ y \in FrontierOf(x)

(* d is the definition of the nearest dominator of b that has one, or none  *)
(* has.                                                                     *)
Nearest(a, b, d) ==
  \/ d = Uninitialised /\ \A y : StrictlyDominates(y, b) => ~HasDef(a, y)
  \/ /\ d # Uninitialised /\ d \in Own(a, d[1]) /\ HasDef(a, d[1]) /\ StrictlyDominates(d[1], b)
     /\ \A y : StrictlyDominates(y, b) /\ HasDef(a, y) => y = d[1] \/ StrictlyDominates(y, d[1])

(* A definition knows its block.                                            *)
LEMMA OwnFacts ==
  ASSUME CodeOK, PhisOK, NEW a, NEW b \in Block
  PROVE  /\ \A d \in Own(a, b) : d[1] = b /\ d # Uninitialised
         /\ \A d, e \in Own(a, b) : d = e
         /\ Own(a, b) = {} <=> ~HasDef(a, b)
         /\ Own(a, b) = {} => b \notin PhiBlocks(a)
<1>1. b # Null
  BY Blocks
<1>2. Own(a, b) = {} \/ \E k \in Nat : Own(a, b) = {<<b, k>>}
  BY OwnDefinition
<1>3. \A k \in Nat : <<b, k>>[1] = b /\ <<b, k>> # Uninitialised
  BY <1>1 DEF Uninitialised
<1>4. Own(a, b) = {} <=> ~HasDef(a, b)
  BY OwnDefinition
<1> QED BY <1>2, <1>3, <1>4 DEF HasDef

(* Where there is no PHI node, only the nearest definition arrives: any     *)
(* other would come from a block whose dominance ends here.                 *)
LEMMA NearestArrives ==
  ASSUME DTTypeOK, CodeOK, PhisOK, NEW a, PhisPlaced(a)
  PROVE  \A b \in Reached : b \notin PhiBlocks(a) => \A d \in Arriving(a)[b] : Nearest(a, b, d)
<1> DEFINE Z == [b \in Block |-> {d \in AnyDef(a) : b \in Reached /\ b \notin PhiBlocks(a) => Nearest(a, b, d)}]
<1>1. Reached \subseteq Block
  BY DominanceOrder
<1>2. ASSUME NEW b \in Reached, b \notin PhiBlocks(a), NEW p \in Preds(b) \cap Reached,
             NEW d \in Out(a, Z, p)
      PROVE  Nearest(a, b, d)
  <2>1. p \in Block /\ p \in Reached /\ b \in ToSet(succ[p])
    BY DEF Preds
  <2>2. \A y : StrictlyDominates(y, b) => y = p \/ StrictlyDominates(y, p)
    BY <2>1, DominanceOrder
  <2>3. \A x \in Reached : HasDef(a, x) /\ (x = p \/ StrictlyDominates(x, p)) => StrictlyDominates(x, b)
    BY <1>2, <2>1 DEF PhisPlaced, FrontierOf, DominatesOrIs
  <2>4. \A x, y : StrictlyDominates(x, y) => x \in Reached
    BY DominanceOrder
  <2>5. CASE Own(a, p) # {}
    <3>1. d \in Own(a, p)
      BY <2>5 DEF Out
    <3>2. d[1] = p /\ d # Uninitialised /\ HasDef(a, p)
      BY <2>1, <2>5, <3>1, OwnFacts
    <3>3. StrictlyDominates(p, b)
      BY <2>1, <2>3, <3>2
    <3> QED BY <2>2, <3>1, <3>2, <3>3 DEF Nearest
  <2>6. CASE Own(a, p) = {}
    <3>1. ~HasDef(a, p) /\ p \notin PhiBlocks(a)
      BY <2>1, <2>6, OwnFacts
    <3>2. Nearest(a, p, d)
      BY <2>1, <2>6, <3>1 DEF Out
    <3>3. CASE d = Uninitialised /\ \A y : StrictlyDominates(y, p) => ~HasDef(a, y)
      BY <2>2, <3>1, <3>3 DEF Nearest
    <3>4. CASE /\ d # Uninitialised /\ d \in Own(a, d[1]) /\ HasDef(a, d[1]) /\ StrictlyDominates(d[1], p)
               /\ \A y : StrictlyDominates(y, p) /\ HasDef(a, y) => y = d[1] \/ StrictlyDominates(y, d[1])
      <4>1. StrictlyDominates(d[1], b)
        BY <2>3, <2>4, <3>4
      <4>2. \A y : StrictlyDominates(y, b) /\ HasDef(a, y) => y = d[1] \/ StrictlyDominates(y, d[1])
        BY <2>2, <3>1, <3>4
      <4> QED BY <3>4, <4>1, <4>2 DEF Nearest
    <3> QED BY <3>2, <3>3, <3>4 DEF Nearest
  <2> QED BY <2>5, <2>6
<1>3. ASSUME NEW b \in Block PROVE Into(a, Z, b) \subseteq Z[b]
  <2>1. Into(a, Z, b) \subseteq AnyDef(a)
    <3>1. \A p \in Preds(b) : Out(a, Z, p) \subseteq AnyDef(a)
      BY DEF Out, Preds, AnyDef
    <3> QED BY <3>1 DEF Into, AnyDef
  <2>2. ASSUME b \in Reached, b \notin PhiBlocks(a), NEW d \in Into(a, Z, b) PROVE Nearest(a, b, d)
    <3>1. CASE \E p \in Preds(b) \cap Reached : d \in Out(a, Z, p)
      <4> HIDE DEF Z
      <4> QED BY <1>2, <2>2, <3>1
    <3>2. CASE b = entry /\ d = Uninitialised
      <4>1. \A y : ~StrictlyDominates(y, entry)
        BY DominanceOrder
      <4> QED BY <3>2, <4>1 DEF Nearest
    <3> HIDE DEF Z
    <3> QED BY <2>2, <3>1, <3>2 DEF Into
  <2>3. \A d \in Into(a, Z, b) : d \in Z[b]
    BY <2>1, <2>2
  <2> QED BY <2>3
<1>4. \A b \in Block : Arriving(a)[b] \subseteq Z[b]
  <2> HIDE DEF Z
  <2> QED BY <1>3, ArrivingLeast
<1> QED BY <1>1, <1>4

(* There is one nearest definition at most.                                 *)
LEMMA OneNearest ==
  ASSUME DTTypeOK, CodeOK, PhisOK, NEW a, NEW b, NEW d, NEW e, Nearest(a, b, d), Nearest(a, b, e)
  PROVE  d = e
<1>1. CASE d # Uninitialised /\ e # Uninitialised
  <2>1. d[1] = e[1]
    <3>1. \A x, y : StrictlyDominates(x, y) => ~StrictlyDominates(y, x)
      BY DominanceOrder
    <3> QED BY <1>1, <3>1 DEF Nearest
  <2>2. d[1] \in Block
    <3>1. StrictlyDominates(d[1], b)
      BY <1>1 DEF Nearest
    <3> QED BY <3>1, DominanceOrder
  <2>3. d \in Own(a, d[1]) /\ e \in Own(a, d[1])
    BY <1>1, <2>1 DEF Nearest
  <2> QED BY <2>2, <2>3, OwnFacts
<1>2. CASE d = Uninitialised \/ e = Uninitialised
  BY <1>2 DEF Nearest
<1> QED BY <1>1, <1>2

(* Something arrives at every reached block.                                *)
LEMMA SomethingArrives ==
  ASSUME DTTypeOK, CodeOK, PhisOK, NEW a
  PROVE  \A b \in Reached : Arriving(a)[b] # {}
<1> DEFINE X == {b \in Block : Arriving(a)[b] # {}}
<1>1. entry \in Block /\ Reached \subseteq Block
  BY Types, DominanceOrder
<1>2. \A b \in Block : Arriving(a)[b] = Into(a, Arriving(a), b)
  BY ArrivingCloses
<1>3. entry \in X
  BY <1>1, <1>2 DEF Into
<1>4. ASSUME NEW b \in X \cap Reached, NEW s \in ToSet(succ[b]) PROVE s \in X \cap Reached
  <2>1. s \in Reached /\ s \in Block /\ b \in Preds(s) \cap Reached
    BY <1>1, <1>4, DominanceOrder DEF Preds
  <2>2. Out(a, Arriving(a), b) # {}
    BY DEF Out
  <2>3. Out(a, Arriving(a), b) \subseteq Arriving(a)[s]
    BY <1>2, <2>1 DEF Into
  <2> QED BY <2>1, <2>2, <2>3
<1>5. entry \in X \cap Reached
  BY <1>3, DominanceOrder
<1> HIDE DEF X
<1>6. Reached \subseteq X \cap Reached
  <2>1. ReachedWithout(Null) \subseteq X \cap Reached
    BY <1>4, <1>5, ReachLeast
  <2> QED BY <2>1 DEF Reached
<1> QED BY <1>6 DEF X

(* A block that x does not strictly dominate can be entered without x.      *)
LEMMA EnteredWithout ==
  ASSUME DTTypeOK, NEW x, NEW b \in Reached, b # entry, ~StrictlyDominates(x, b)
  PROVE  \E q \in ReachedWithout(x) : b \in ToSet(succ[q])
<1> SUFFICES ASSUME \A q \in ReachedWithout(x) : b \notin ToSet(succ[q])
             PROVE  FALSE
  OBVIOUS
<1> DEFINE X == ReachedWithout(x) \ {b}
<1>1. x # entry
  <2> DEFINE none == {}
  <2>1. \A c : c \notin none
    OBVIOUS
  <2> HIDE DEF none
  <2>2. x = entry => ReachedWithout(x) \subseteq none
    BY <2>1, ReachLeast
  <2> QED BY <2>1, <2>2 DEF StrictlyDominates
<1>2. /\ x \notin ReachedWithout(x) /\ entry \in ReachedWithout(x)
      /\ \A c \in ReachedWithout(x) : \A s \in ToSet(succ[c]) : s = x \/ s \in ReachedWithout(x)
  BY <1>1, ReachClosed
<1>3. CASE b = x
  <2>1. \A c \in ReachedWithout(x) : \A s \in ToSet(succ[c]) : s \in ReachedWithout(x)
    BY <1>2, <1>3
  <2>2. ReachedWithout(Null) \subseteq ReachedWithout(x)
    BY <1>2, <2>1, ReachLeast
  <2> QED BY <1>2, <1>3, <2>2 DEF Reached
<1>4. CASE b # x
  <2>1. b \in ReachedWithout(x)
    BY <1>4 DEF StrictlyDominates
  <2>2. entry \in X /\ \A c \in X : \A s \in ToSet(succ[c]) : s = x \/ s \in X
    BY <1>2
  <2> HIDE DEF X
  <2>3. ReachedWithout(x) \subseteq X
    BY <2>2, ReachLeast
  <2> QED BY <2>1, <2>3 DEF X
<1> QED BY <1>3, <1>4

(* At a PHI node two definitions meet: one from below a block where the     *)
(* dominance of a definition ends, and one that comes past it.              *)
LEMMA TwoArrive ==
  ASSUME DTTypeOK, CodeOK, PhisOK, NEW a, PhisPlaced(a), NEW b \in PhiBlocks(a)
  PROVE  b \in Reached /\ \E d, e \in Arriving(a)[b] : d # e
<1>1. PICK x \in Reached : HasDef(a, x) /\ b \in FrontierOf(x)
  BY DEF PhisPlaced
<1>2. b \in Reached /\ ~StrictlyDominates(x, b)
  BY <1>1 DEF FrontierOf
<1>3. PICK p \in Preds(b) \cap Reached : DominatesOrIs(x, p)
  BY <1>1 DEF FrontierOf
<1>4. /\ Reached \subseteq Block /\ entry \in Reached /\ ReachedWithout(x) \subseteq Reached
      /\ \A c \in Reached : ToSet(succ[c]) \subseteq Reached
  BY DominanceOrder, ReachGrows
<1>5. \A c \in Block : Arriving(a)[c] = Into(a, Arriving(a), c)
  BY ArrivingCloses
<1>6. \A c \in Reached, s \in Block : s \in ToSet(succ[c]) => Out(a, Arriving(a), c) \subseteq Arriving(a)[s]
  BY <1>4, <1>5 DEF Into, Preds
<1> DEFINE Below(d) == DominatesOrIs(x, d[1])
           Some(c) == \E d \in Out(a, Arriving(a), c) : Below(d)
           Other0(c) == \E d \in Out(a, Arriving(a), c) : ~Below(d)
<1>7. \A c \in Block : \A d \in Own(a, c) : d[1] = c
  BY OwnFacts
<1>8. \A c \in Reached : DominatesOrIs(x, c) => Some(c)
  <2> DEFINE X == {c \in Reached : DominatesOrIs(x, c) => Some(c)}
  <2>1. Some(x)
    <3>1. Own(a, x) # {} /\ Out(a, Arriving(a), x) = Own(a, x)
      BY <1>1, <1>4, OwnFacts DEF Out
    <3> QED BY <1>4, <1>7, <3>1 DEF DominatesOrIs
  <2>2. entry \in X
    <3>1. DominatesOrIs(x, entry) => x = entry
      BY DominanceOrder DEF DominatesOrIs
    <3> HIDE DEF Some
    <3> QED BY <1>4, <2>1, <3>1
  <2>3. ASSUME NEW c \in X, NEW s \in ToSet(succ[c]) PROVE s \in X
    <3>1. s \in Reached /\ s \in Block /\ c \in Reached
      BY <1>4
    <3>2. CASE s = x
      BY <2>1, <3>1, <3>2
    <3>3. CASE StrictlyDominates(x, s)
      <4>1. DominatesOrIs(x, c)
        BY <3>1, <3>3, DominanceOrder DEF DominatesOrIs
      <4>2. PICK d \in Out(a, Arriving(a), c) : Below(d)
        BY <4>1
      <4>3. d \in Arriving(a)[s]
        BY <1>6, <3>1
      <4>4. CASE Own(a, s) = {}
        BY <3>1, <4>2, <4>3, <4>4 DEF Out
      <4>5. CASE Own(a, s) # {}
        <5>1. PICK e : e \in Own(a, s)
          BY <4>5
        <5>2. Below(e) /\ e \in Out(a, Arriving(a), s)
          BY <1>7, <3>1, <3>3, <4>5, <5>1 DEF Out, DominatesOrIs
        <5> QED BY <3>1, <5>2
      <4> QED BY <4>4, <4>5
    <3>4. CASE ~DominatesOrIs(x, s)
      BY <3>1, <3>4
    <3> QED BY <3>2, <3>3, <3>4 DEF DominatesOrIs
  <2> HIDE DEF X
  <2>4. ReachedWithout(Null) \subseteq X
    BY <2>2, <2>3, ReachLeast
  <2> QED BY <2>4 DEF X, Reached
<1>9. \A c \in ReachedWithout(x) : ~DominatesOrIs(x, c)
  <2>1. x \notin ReachedWithout(x)
    BY ReachClosed
  <2> QED BY <2>1 DEF DominatesOrIs, StrictlyDominates
<1>u. ~Below(Uninitialised)
  <2>1. Uninitialised[1] = Null /\ Null \notin Block
    BY Blocks DEF Uninitialised
  <2>2. x # Null /\ ~StrictlyDominates(x, Null)
    BY <1>4, <2>1, DominanceOrder
  <2> QED BY <2>1, <2>2 DEF DominatesOrIs
<1> HIDE DEF Below
<1>o. \A c \in Block : \A d \in Own(a, c) : Below(d) <=> DominatesOrIs(x, c)
  BY <1>7 DEF Below
<1>10. \A c \in ReachedWithout(x) : Other0(c)
  <2> DEFINE X == {c \in ReachedWithout(x) : Other0(c)}
  <2>1. ASSUME NEW c \in ReachedWithout(x), NEW d \in Arriving(a)[c], ~Below(d) PROVE c \in X
    <3>1. c \in Block
      BY <1>4
    <3>2. CASE Own(a, c) = {}
      BY <2>1, <3>2 DEF Out
    <3>3. CASE Own(a, c) # {}
      <4>1. PICK e : e \in Own(a, c)
        BY <3>3
      <4>2. ~Below(e) /\ e \in Out(a, Arriving(a), c)
        BY <1>9, <1>o, <3>1, <3>3, <4>1 DEF Out
      <4> QED BY <4>2
    <3> QED BY <3>2, <3>3
  <2>2. entry = x \/ entry \in X
    <3>1. Uninitialised \in Arriving(a)[entry]
      BY <1>4, <1>5 DEF Into
    <3>2. entry # x => entry \in ReachedWithout(x)
      BY ReachClosed
    <3> HIDE DEF X
    <3> QED BY <1>u, <2>1, <3>1, <3>2
  <2>3. ASSUME NEW c \in X, NEW s \in ToSet(succ[c]), s # x PROVE s \in X
    <3>1. s \in ReachedWithout(x) /\ s \in Block /\ c \in Reached
      BY <1>4, <2>3, ReachClosed
    <3>2. PICK d \in Out(a, Arriving(a), c) : ~Below(d)
      OBVIOUS
    <3>3. d \in Arriving(a)[s]
      BY <1>6, <3>1
    <3> HIDE DEF X
    <3> QED BY <2>1, <3>1, <3>2, <3>3
  <2> HIDE DEF X
  <2>4. ReachedWithout(x) \subseteq X
    BY <2>2, <2>3, ReachLeast
  <2> QED BY <2>4 DEF X
<1>11. \E d \in Arriving(a)[b] : Below(d)
  <2>1. p \in Reached /\ b \in ToSet(succ[p]) /\ b \in Block
    BY <1>2, <1>4 DEF Preds
  <2> QED BY <1>3, <1>6, <1>8, <2>1
<1>12. \E d \in Arriving(a)[b] : ~Below(d)
  <2>1. CASE b = entry
    BY <1>4, <1>5, <1>u, <2>1 DEF Into
  <2>2. CASE b # entry
    <3>1. PICK q \in ReachedWithout(x) : b \in ToSet(succ[q])
      BY <1>2, <2>2, EnteredWithout
    <3>2. q \in Reached /\ b \in Block
      BY <1>2, <1>4
    <3> QED BY <1>6, <1>10, <3>1, <3>2
  <2> QED BY <2>1, <2>2
<1> QED BY <1>2, <1>11, <1>12

(* A block has a PHI node exactly where different definitions meet.         *)
LEMMA PhisMeetDefinitions ==
  ASSUME DTTypeOK, CodeOK, PhisOK, NEW a, PhisPlaced(a), NEW b \in Reached
  PROVE  Contains(phis[b], a) <=> Cardinality(Arriving(a)[b]) > 1
<1>1. b \in Block
  BY DominanceOrder
<1>2. Contains(phis[b], a) <=> b \in PhiBlocks(a)
  <2>1. DOMAIN phis[b] = 1 .. Len(phis[b])
    BY <1>1, LenProperties DEF PhisOK
  <2> QED BY <1>1, <2>1 DEF Contains, ToSet, PhiBlocks
<1>3. IsFiniteSet(Arriving(a)[b])
  BY <1>1, ArrivingCloses, FewDefinitions, FS_Subset
<1>4. Cardinality(Arriving(a)[b]) > 1 <=> \E d, e \in Arriving(a)[b] : d # e
  BY <1>3, MoreThanOne
<1>5. b \in PhiBlocks(a) => \E d, e \in Arriving(a)[b] : d # e
  BY TwoArrive
<1>6. b \notin PhiBlocks(a) => \A d, e \in Arriving(a)[b] : d = e
  BY NearestArrives, OneNearest
<1> QED BY <1>2, <1>4, <1>5, <1>6

(* What PromoteMemToReg did, on a tree that is right.                       *)
LEMMA PlacedOnFrontiers ==
  ASSUME FrontInv, PlaceInv, TreeIsRight, status \notin {"frontiers", "collect", "threw", "place"},
         NEW a \in Promoted
  PROVE  PhisPlaced(a)
<1>1. \A b \in Block : dominanceFrontiers[b] = IF b \in Reached THEN FrontierOf(b) ELSE {}
  BY DEF FrontInv
<1>2. Closed(dominanceFrontiers, DefBlocks(a), PhiBlocks(a))
  BY DEF PlaceInv, Placed
<1>3. DefBlocks(a) \cup PhiBlocks(a) \subseteq Block
  BY DEF DefBlocks, Places, PhiBlocks
<1>4. \A x \in Reached : HasDef(a, x) => FrontierOf(x) \subseteq PhiBlocks(a)
  BY <1>1, <1>2, <1>3 DEF Closed, HasDef
<1>5. ASSUME NEW y \in PhiBlocks(a) PROVE \E x \in Reached : HasDef(a, x) /\ y \in FrontierOf(x)
  <2>1. PICK x \in DefBlocks(a) \cup PhiBlocks(a) : y \in dominanceFrontiers[x]
    BY <1>2 DEF Closed
  <2> QED BY <1>1, <1>3, <2>1 DEF HasDef
<1> QED BY <1>4, <1>5 DEF PhisPlaced

(* The invariants so far, together.                                         *)
PhiInv == DTInv /\ TreeInv /\ M2Inv /\ FrontInv /\ PlaceInv

(* They hold at first.                                                      *)
LEMMA PhiInitInv == M2Init => PhiInv
<1>1. M2Init => DTInv /\ TreeInv /\ M2Inv
  BY InitInv, TreeInitInv, M2InitInv DEF M2Init
<1>2. M2Init => FrontInv /\ PlaceInv
  BY DEF M2Init, FrontInv, PlaceInv
<1> QED BY <1>1, <1>2 DEF PhiInv

(* Every step preserves them.                                               *)
LEMMA PhiNextInv ==
  ASSUME PhiInv, [M2Next]_<<dtvars, m2vars>>
  PROVE  PhiInv'
<1>1. DTInv' /\ TreeInv' /\ M2Inv' /\ FrontInv' /\ PlaceInv'
  BY AnalysisStep, DTNextInv, TreeNextInv, M2NextInv, FrontNextInv, PlaceNextInv DEF PhiInv
<1> QED BY <1>1 DEF PhiInv

(* PhisWhereDefinitionsMeet: on every control flow graph whose tree is      *)
(* right and for every code, the worklist of PromoteMemToReg gives a block  *)
(* a PHI node exactly when two different definitions of the alloca arrive.  *)
THEOREM PhisAreRight == M2Spec => []PhisWhereDefinitionsMeet
<1>1. PhiInv => PhisWhereDefinitionsMeet
  <2> SUFFICES ASSUME PhiInv, status = "rename", TreeIsRight, NEW a \in Promoted, NEW b \in Reached
               PROVE  Contains(phis[b], a) <=> Cardinality(Arriving(a)[b]) > 1
    BY DEF PhisWhereDefinitionsMeet
  <2>1. PhisPlaced(a)
    BY PlacedOnFrontiers DEF PhiInv
  <2>2. DTTypeOK /\ CodeOK /\ PhisOK
    BY DEF PhiInv, DTInv, M2Inv, M2Types
  <2> QED BY <2>1, <2>2, PhisMeetDefinitions
<1>2. M2Init => PhiInv
  BY PhiInitInv
<1>3. PhiInv /\ [M2Next]_<<dtvars, m2vars>> => PhiInv'
  BY PhiNextInv
<1> QED BY <1>1, <1>2, <1>3, PTL DEF M2Spec

-----------------------------------------------------------------------------
(* The calls of rename.                                                     *)

(* The path is the chain of dominators of its last block.                   *)
PathInv ==
  TreeIsRight =>
    /\ ToSet(path) \subseteq Reached
    /\ \A i \in DOMAIN path : \A y : StrictlyDominates(y, path[i]) <=> \E j \in 1 .. i - 1 : y = path[j]

(* The dominators of the block rename is called for are the blocks of the   *)
(* calls that have not returned.                                            *)
LEMMA CallsAreDominators ==
  ASSUME DTInv, TreeInv, M2Inv, PathInv, TreeIsRight, NEW b \in Block, Call(b)
  PROVE  b \in Reached /\ \A y : StrictlyDominates(y, b) <=> \E j \in 1 .. Len(path) : y = path[j]
<1>1. path \in Seq(Block) /\ ToSet(path) \subseteq visitedDFSBlocks
  BY DEF M2Inv, M2Types
<1>2. Len(path) \in Nat /\ DOMAIN path = 1 .. Len(path)
  BY <1>1, LenProperties
<1>3. DTTypeOK
  BY DEF DTInv
<1>4. CASE visitedDFSBlocks = {} /\ b = entry
  <2>1. \A j \in 1 .. Len(path) : path[j] \in visitedDFSBlocks
    BY <1>1, <1>2 DEF ToSet
  <2> QED BY <1>3, <1>4, <2>1, DominanceOrder
<1>5. CASE path # <<>> /\ b \in Unvisited
  <2> DEFINE n == Len(path)
             l == path[n]
  <2>1. n \in 1 .. n /\ Last(path) = l
    BY <1>1, <1>2, <1>5, EmptySeq DEF Last
  <2>2. b \in Children(l)
    BY <1>5, <2>1 DEF Unvisited
  <2>3. l \in Block
    BY <1>1, <1>2, <2>1
  <2>4. b \in Reached \ {entry} /\ idomMap[b] = l
    BY <2>2, <2>3, IdomFacts
  <2>5. StrictlyDominates(l, b) /\ \A y : StrictlyDominates(y, b) => y = l \/ StrictlyDominates(y, l)
    BY <2>4, IdomFacts
  <2>6. \A y : StrictlyDominates(y, l) <=> \E j \in 1 .. n - 1 : y = path[j]
    BY <1>2, <2>1 DEF PathInv
  <2>7. \A y : StrictlyDominates(y, b) <=> y = l \/ StrictlyDominates(y, l)
    BY <1>3, <2>5, DominanceOrder
  <2>8. \A j : j \in 1 .. n <=> j = n \/ j \in 1 .. n - 1
    BY <1>2, <2>1
  <2> HIDE DEF n
  <2>9. \A y : (\E j \in 1 .. n : y = path[j]) <=> y = l \/ \E j \in 1 .. n - 1 : y = path[j]
    BY <2>8
  <2> HIDE DEF l
  <2>10. \A y : StrictlyDominates(y, b) <=> \E j \in 1 .. n : y = path[j]
    BY <2>6, <2>7, <2>9
  <2> QED BY <2>4, <2>10 DEF n
<1> QED BY <1>4, <1>5 DEF Call

(* Dominance does not change after the analysis.                            *)
LEMMA DominanceStays ==
  ASSUME UNCHANGED dtvars
  PROVE  Reached' = Reached /\ (TreeIsRight' <=> TreeIsRight)
         /\ \A a, b : StrictlyDominates(a, b)' <=> StrictlyDominates(a, b)
<1>1. \A a : ReachedWithout(a)' = ReachedWithout(a)
  BY DEF dtvars, ReachedWithout
<1>2. Reached' = Reached /\ (TreeIsRight' <=> TreeIsRight)
  BY FrontierStays
<1> QED BY <1>1, <1>2 DEF StrictlyDominates

(* What PathInv says, of any path.                                          *)
TreePath(p) ==
  /\ ToSet(p) \subseteq Reached
  /\ \A i \in DOMAIN p : \A y : StrictlyDominates(y, p[i]) <=> \E j \in 1 .. i - 1 : y = p[j]

(* A call extends the chain, a return shortens it.                          *)
LEMMA PathNextInv ==
  ASSUME PhiInv, PathInv, [M2Next]_<<dtvars, m2vars>>
  PROVE  PathInv'
<1>1. ASSUME UNCHANGED dtvars, TreeIsRight => TreePath(path') PROVE PathInv'
  <2>1. Reached' = Reached /\ (TreeIsRight' <=> TreeIsRight)
        /\ \A y, b : StrictlyDominates(y, b)' <=> StrictlyDominates(y, b)
    BY <1>1, DominanceStays
  <2>2. TreeIsRight => /\ ToSet(path') \subseteq Reached
                       /\ \A i \in DOMAIN path' : \A y :
                            StrictlyDominates(y, path'[i]) <=> \E j \in 1 .. i - 1 : y = path'[j]
    BY <1>1 DEF TreePath
  <2> QED BY <2>1, <2>2 DEF PathInv
<1>2. TreeIsRight => TreePath(path)
  BY DEF PathInv, TreePath
<1>3. M2Inv /\ path \in Seq(Block) /\ Len(path) \in Nat /\ DOMAIN path = 1 .. Len(path)
  <2>1. path \in Seq(Block)
    BY DEF PhiInv, M2Inv, M2Types
  <2> QED BY <2>1, LenProperties DEF PhiInv
<1>4. CASE status = "frontiers" /\ UNCHANGED m2vars
  <2>1. path' = <<>>
    BY <1>4 DEF PhiInv, M2Inv, NothingRenamed, m2vars
  <2>2. ToSet(path') = {} /\ DOMAIN path' = {}
    BY <2>1 DEF ToSet
  <2> QED BY <2>2 DEF PathInv
<1>5. CASE UNCHANGED dtvars /\ path' = path
  BY <1>1, <1>2, <1>5
<1>6. ASSUME NEW b \in Block, Call(b), TreeIsRight PROVE TreePath(path')
  <2> DEFINE n == Len(path)
             q == Append(path, b)
  <2>1. path' = q
    BY <1>3, <1>6, CallKeeps
  <2>2. Len(q) = n + 1 /\ DOMAIN q = 1 .. n + 1 /\ q[n + 1] = b /\ \A i \in 1 .. n : q[i] = path[i]
    BY <1>3, AppendProperties
  <2>3. ToSet(q) = ToSet(path) \cup {b}
    BY <1>3, AppendNodes
  <2>4. b \in Reached /\ \A y : StrictlyDominates(y, b) <=> \E j \in 1 .. n : y = path[j]
    BY <1>3, <1>6, CallsAreDominators DEF PhiInv
  <2> HIDE DEF q
  <2>5. ASSUME NEW i \in 1 .. n + 1, NEW y
        PROVE  StrictlyDominates(y, q[i]) <=> \E j \in 1 .. i - 1 : y = q[j]
    <3>1. CASE i = n + 1
      <4>1. i - 1 = n
        BY <1>3, <3>1
      <4> QED BY <2>2, <2>4, <3>1, <4>1
    <3>2. CASE i # n + 1
      <4>1. i \in 1 .. n /\ \A j \in 1 .. i - 1 : j \in 1 .. n
        BY <1>3, <3>2
      <4>2. StrictlyDominates(y, path[i]) <=> \E j \in 1 .. i - 1 : y = path[j]
        BY <1>2, <1>3, <1>6, <4>1 DEF TreePath
      <4> QED BY <2>2, <4>1, <4>2
    <3> QED BY <3>1, <3>2
  <2>6. ToSet(q) \subseteq Reached
    BY <1>2, <1>6, <2>3, <2>4 DEF TreePath
  <2> QED BY <2>1, <2>2, <2>5, <2>6 DEF TreePath
<1>7. ASSUME RenameReturn, TreeIsRight PROVE TreePath(path')
  <2> DEFINE n == Len(path)
             q == Front(path)
  <2>1. path' = q /\ path # <<>>
    BY <1>3, <1>7, ReturnKeeps
  <2>2. q \in Seq(Block) /\ Len(q) = n - 1 /\ (\A k \in 1 .. n - 1 : q[k] = path[k]) /\ ToSet(q) \subseteq ToSet(path)
    BY <1>3, <2>1, FrontNodes
  <2>3. DOMAIN q = 1 .. n - 1
    BY <2>2, LenProperties
  <2> HIDE DEF q
  <2>4. ASSUME NEW i \in 1 .. n - 1, NEW y
        PROVE  StrictlyDominates(y, q[i]) <=> \E j \in 1 .. i - 1 : y = q[j]
    <3>1. i \in 1 .. n /\ \A j \in 1 .. i - 1 : j \in 1 .. n - 1
      BY <1>3
    <3>2. StrictlyDominates(y, path[i]) <=> \E j \in 1 .. i - 1 : y = path[j]
      BY <1>2, <1>3, <1>7, <3>1 DEF TreePath
    <3> QED BY <2>2, <3>1, <3>2
  <2>5. ToSet(q) \subseteq Reached
    BY <1>2, <1>7, <2>2 DEF TreePath
  <2> QED BY <2>1, <2>3, <2>4, <2>5 DEF TreePath
<1>8. CASE Idle
  <2>1. CASE UNCHANGED <<dtvars, m2vars>>
    BY <1>5, <2>1 DEF m2vars
  <2> QED BY <1>4, <1>8, <2>1 DEF Idle
<1>9. CASE computeDominanceFrontier \/ FindAllocas \/ insertPHINodes \/ NextAlloca
  BY <1>5, <1>9 DEF computeDominanceFrontier, FindAllocas, insertPHINodes, NextAlloca
<1>10. CASE \E b \in Block : Call(b)
  BY <1>1, <1>3, <1>6, <1>10, CallKeeps
<1>11. CASE RenameReturn
  BY <1>1, <1>3, <1>7, <1>11, ReturnKeeps
<1> QED BY <1>8, <1>9, <1>10, <1>11, StepKinds DEF PhiInv

-----------------------------------------------------------------------------
(* What the loads are replaced with.                                        *)

(* The instructions one by one: the PHI nodes, then those of the code.      *)
LEMMA InstsAt ==
  ASSUME CodeOK, PhisOK, NEW b \in Block
  PROVE  LET m == Len(phis[b]) n == Len(code[b]) IN
           /\ m \in Nat /\ n \in Nat /\ Len(Insts(b)) = m + n
           /\ \A i \in 1 .. m : /\ Insts(b)[i].op = "phi" /\ Insts(b)[i].ptr = phis[b][i]
                                /\ Insts(b)[i].at = <<b, 0>>
           /\ \A i \in 1 .. n : /\ Insts(b)[m + i].op = code[b][i].op /\ Insts(b)[m + i].ptr = code[b][i].ptr
                                /\ Insts(b)[m + i].at = <<b, i>>
<1> DEFINE ps == [i \in DOMAIN phis[b] |-> [op |-> "phi", ptr |-> phis[b][i], val |-> Other, at |-> <<b, 0>>]]
           cs == [i \in DOMAIN code[b] |-> [op |-> code[b][i].op, ptr |-> code[b][i].ptr,
                                            val |-> code[b][i].val, at |-> <<b, i>>]]
           m == Len(phis[b])
           n == Len(code[b])
           S == {ps[i] : i \in 1 .. m} \cup {cs[i] : i \in 1 .. n}
<1>1. m \in Nat /\ DOMAIN phis[b] = 1 .. m /\ n \in Nat /\ DOMAIN code[b] = 1 .. n
  BY LenProperties DEF CodeOK, PhisOK
<1>2. Insts(b) = ps \o cs
  BY DEF Insts
<1>3. ps \in [1 .. m -> S] /\ cs \in [1 .. n -> S]
  BY <1>1
<1>4. /\ \A i \in 1 .. m : ps[i].op = "phi" /\ ps[i].ptr = phis[b][i] /\ ps[i].at = <<b, 0>>
      /\ \A i \in 1 .. n : cs[i].op = code[b][i].op /\ cs[i].ptr = code[b][i].ptr /\ cs[i].at = <<b, i>>
  BY <1>1
<1> HIDE DEF ps, cs, m, n, S
<1>5. ps \in Seq(S) /\ Len(ps) = m /\ cs \in Seq(S) /\ Len(cs) = n
  BY <1>1, <1>3, FunctionIsSeq
<1>6. /\ Len(ps \o cs) = m + n
      /\ \A i \in 1 .. m + n : (ps \o cs)[i] = IF i <= m THEN ps[i] ELSE cs[i - m]
  BY <1>5, ConcatProperties
<1>7. \A i \in 1 .. m : Insts(b)[i] = ps[i]
  BY <1>1, <1>2, <1>6
<1>8. ASSUME NEW i \in 1 .. n PROVE Insts(b)[m + i] = cs[i]
  <2>1. m + i \in 1 .. m + n /\ ~(m + i <= m) /\ (m + i) - m = i
    BY <1>1
  <2> QED BY <1>2, <1>6, <2>1
<1>9. Len(Insts(b)) = m + n
  BY <1>2, <1>6
<1> QED BY <1>1, <1>4, <1>7, <1>8, <1>9 DEF m, n

(* The newest definition of the first instructions of a block: the first    *)
(* loop of rename and the reference agree.                                  *)
NewestIs(s, D) == IF s = <<>> THEN D = {} ELSE D = {Last(s)}

(* The last element of a sequence is the one appended.                      *)
LEMMA AppendedLast ==
  ASSUME NEW S, NEW s \in Seq(S), NEW e \in S
  PROVE  Append(s, e) # <<>> /\ Last(Append(s, e)) = e
<1>1. Len(s) \in Nat /\ Len(Append(s, e)) = Len(s) + 1 /\ Append(s, e)[Len(s) + 1] = e
  BY AppendProperties, LenProperties
<1>2. Append(s, e) # <<>>
  BY <1>1, EmptySeq
<1> QED BY <1>1, <1>2 DEF Last

(* After the first instructions the newest definition is the last one of    *)
(* them.                                                                    *)
LEMMA NewestInBlock ==
  ASSUME CodeOK, PhisOK, NEW b \in Block, NEW a \in Alloca,
         NEW ds \in [0 .. Len(Insts(b)) -> Seq(Where)], Grows(ds, b, a)
  PROVE  \A n \in 0 .. Len(code[b]) : NewestIs(ds[Len(phis[b]) + n], LastDef(a, b, n))
<1> DEFINE m == Len(phis[b])
           l == Len(code[b])
           sq == Insts(b)
<1>1. /\ m \in Nat /\ l \in Nat /\ Len(sq) = m + l
      /\ \A i \in 1 .. m : sq[i].op = "phi" /\ sq[i].ptr = phis[b][i] /\ sq[i].at = <<b, 0>>
      /\ \A i \in 1 .. l : sq[m + i].op = code[b][i].op /\ sq[m + i].ptr = code[b][i].ptr
                           /\ sq[m + i].at = <<b, i>>
  BY InstsAt
<1>2. /\ ds[0] = <<>>
      /\ \A i \in 1 .. m + l : ds[i] = IF Defines(sq[i], a) THEN Append(ds[i - 1], sq[i].at) ELSE ds[i - 1]
      /\ ds \in [0 .. m + l -> Seq(Where)]
  BY <1>1 DEF Grows
<1>3. \A k \in Nat : <<b, k>> \in Where
  BY DEF Where
<1>4. DOMAIN phis[b] = 1 .. m
  BY LenProperties DEF PhisOK
<1> HIDE DEF m, l, sq
<1> DEFINE Good(k) == NewestIs(ds[k], IF \E i \in 1 .. k : phis[b][i] = a THEN {<<b, 0>>} ELSE {})
           T == {k \in 0 .. m : Good(k)}
<1>5. 0 \in T
  <2>1. Good(0) /\ 0 \in 0 .. m
    BY <1>1, <1>2 DEF NewestIs
  <2> HIDE DEF Good
  <2> QED BY <2>1
<1>6. ASSUME NEW k \in 0 .. m - 1, k \in T PROVE k + 1 \in T
  <2>1. k \in Nat /\ k + 1 \in 1 .. m /\ k + 1 \in 0 .. m /\ k + 1 \in 1 .. m + l /\ (k + 1) - 1 = k /\ k \in 0 .. m + l
    BY <1>1
  <2>2. ds[k + 1] = (IF phis[b][k + 1] = a THEN Append(ds[k], <<b, 0>>) ELSE ds[k]) /\ ds[k] \in Seq(Where)
    BY <1>1, <1>2, <2>1 DEF Defines
  <2>3. \A i : i \in 1 .. k + 1 <=> i = k + 1 \/ i \in 1 .. k
    BY <2>1
  <2>4. CASE phis[b][k + 1] = a
    <3>1. ds[k + 1] # <<>> /\ Last(ds[k + 1]) = <<b, 0>>
      BY <1>3, <2>2, <2>4, AppendedLast
    <3>2. \E i \in 1 .. k + 1 : phis[b][i] = a
      BY <2>3, <2>4
    <3>3. Good(k + 1)
      BY <3>1, <3>2 DEF NewestIs
    <3> HIDE DEF Good
    <3> QED BY <2>1, <3>3
  <2>5. CASE phis[b][k + 1] # a
    <3>1. (\E i \in 1 .. k + 1 : phis[b][i] = a) <=> \E i \in 1 .. k : phis[b][i] = a
      BY <2>3, <2>5
    <3>2. ds[k + 1] = ds[k] /\ Good(k)
      BY <1>6, <2>2, <2>5
    <3>3. Good(k + 1)
      BY <3>1, <3>2
    <3> HIDE DEF Good
    <3> QED BY <2>1, <3>3
  <2> QED BY <2>4, <2>5
<1> HIDE DEF Good
<1>7. Good(m)
  <2>1. \A k \in 0 .. m : k \in T
    BY <1>1, <1>5, <1>6, UpTo
  <2> QED BY <1>1, <2>1
<1> DEFINE Fits(n) == NewestIs(ds[m + n], LastDef(a, b, n))
           U == {n \in 0 .. l : Fits(n)}
<1>8. 0 \in U
  <2>1. Stores(a, b, 0) = {}
    BY DEF Stores
  <2>2. LastDef(a, b, 0) = IF a \in ToSet(phis[b]) THEN {<<b, 0>>} ELSE {}
    BY <2>1, LastDefCases
  <2>3. a \in ToSet(phis[b]) <=> \E i \in 1 .. m : phis[b][i] = a
    BY <1>4 DEF ToSet
  <2>4. m + 0 = m /\ 0 \in 0 .. l
    BY <1>1
  <2>5. Fits(0)
    BY <1>7, <2>2, <2>3, <2>4 DEF Good
  <2> HIDE DEF Fits
  <2> QED BY <2>4, <2>5
<1>9. ASSUME NEW n \in 0 .. l - 1, n \in U PROVE n + 1 \in U
  <2> DEFINE j == m + (n + 1)
  <2>1. /\ n \in Nat /\ n + 1 \in 1 .. l /\ n + 1 \in 0 .. l /\ n + 1 \in Nat
        /\ j \in 1 .. m + l /\ j - 1 = m + n /\ m + n \in 0 .. m + l
    BY <1>1
  <2>2. sq[j].op = code[b][n + 1].op /\ sq[j].ptr = code[b][n + 1].ptr /\ sq[j].at = <<b, n + 1>>
        /\ sq[j].op # "phi"
    <3>1. code[b][n + 1] \in Inst
      <4>1. code[b] \in Seq(Inst) /\ Len(code[b]) = l
        BY DEF CodeOK, l
      <4>2. \A i \in 1 .. l : code[b][i] \in Inst
        BY <4>1, LenProperties
      <4> QED BY <2>1, <4>2
    <3> QED BY <1>1, <2>1, <3>1 DEF Inst
  <2> HIDE DEF j
  <2>3. ds[j] = (IF Defines(sq[j], a) THEN Append(ds[m + n], <<b, n + 1>>) ELSE ds[m + n])
        /\ ds[m + n] \in Seq(Where)
    BY <1>2, <2>1, <2>2
  <2>4. \A i : i \in 1 .. n + 1 <=> i = n + 1 \/ i \in 1 .. n
    BY <2>1
  <2>5. CASE code[b][n + 1].op = "store" /\ code[b][n + 1].ptr = a
    <3>1. Defines(sq[j], a)
      BY <2>2, <2>5 DEF Defines
    <3>2. ds[j] # <<>> /\ Last(ds[j]) = <<b, n + 1>>
      BY <1>3, <2>1, <2>3, <3>1, AppendedLast
    <3>3. n + 1 \in Stores(a, b, n + 1) /\ \A i \in Stores(a, b, n + 1) : i <= n + 1
      BY <2>1, <2>5 DEF Stores
    <3>4. LastDef(a, b, n + 1) = {<<b, n + 1>>}
      BY <2>1, <3>3, LastDefCases
    <3>5. Fits(n + 1)
      BY <3>2, <3>4 DEF NewestIs, j
    <3> HIDE DEF Fits
    <3> QED BY <2>1, <3>5
  <2>6. CASE ~(code[b][n + 1].op = "store" /\ code[b][n + 1].ptr = a)
    <3>1. ~Defines(sq[j], a)
      BY <2>2, <2>6 DEF Defines
    <3>2. Stores(a, b, n + 1) = Stores(a, b, n)
      BY <2>4, <2>6 DEF Stores
    <3>3. LastDef(a, b, n + 1) = LastDef(a, b, n)
      BY <3>2 DEF LastDef, Stores
    <3>4. Fits(n)
      BY <1>9
    <3>5. Fits(n + 1)
      BY <2>3, <3>1, <3>3, <3>4 DEF j
    <3> HIDE DEF Fits
    <3> QED BY <2>1, <3>5
  <2> QED BY <2>5, <2>6
<1> HIDE DEF Fits
<1>10. \A n \in 0 .. l : n \in U
  BY <1>1, <1>8, <1>9, UpTo
<1> QED BY <1>10 DEF Fits, m, l

(* What a block ends with, and what rename leaves on the stack.             *)
LEMMA NewestOfBlock ==
  ASSUME CodeOK, PhisOK, NEW b \in Block, NEW a \in Alloca
  PROVE  NewestIs(DefMap[b][a], Own(a, b))
<1>1. PICK ds \in [0 .. Len(Insts(b)) -> Seq(Where)] :
         Grows(ds, b, a) /\ Definitions(Insts(b), a) = ds[Len(Insts(b))]
  BY DefinitionSteps
<1>2. Len(code[b]) \in 0 .. Len(code[b]) /\ Len(Insts(b)) = Len(phis[b]) + Len(code[b])
  BY InstsAt
<1>3. NewestIs(ds[Len(phis[b]) + Len(code[b])], LastDef(a, b, Len(code[b])))
  BY <1>1, <1>2, NewestInBlock
<1> QED BY <1>1, <1>2, <1>3 DEF DefMap, Own

(* The newest definition along a path is that of the last block with one.   *)
LastAlong(dm, p, a) ==
  \/ Along(dm, p, a) = <<>> /\ \A i \in DOMAIN p : dm[p[i]][a] = <<>>
  \/ /\ Along(dm, p, a) # <<>>
     /\ \E i \in DOMAIN p :
          /\ dm[p[i]][a] # <<>> /\ Last(Along(dm, p, a)) = Last(dm[p[i]][a])
          /\ \A j \in DOMAIN p : dm[p[j]][a] # <<>> => j <= i

(* The last element of a concatenation is that of its last part.            *)
LEMMA ConcatLast ==
  ASSUME NEW S, NEW s \in Seq(S), NEW t \in Seq(S)
  PROVE  IF t = <<>> THEN s \o t = s ELSE s \o t # <<>> /\ Last(s \o t) = Last(t)
<1>1. CASE t = <<>>
  BY <1>1, ConcatEmptySeq
<1>2. CASE t # <<>>
  <2>1. /\ Len(s) \in Nat /\ Len(t) \in Nat /\ Len(t) >= 1 /\ Len(s \o t) = Len(s) + Len(t)
        /\ \A i \in 1 .. Len(s) + Len(t) : (s \o t)[i] = IF i <= Len(s) THEN s[i] ELSE t[i - Len(s)]
    BY <1>2, ConcatProperties, LenProperties, EmptySeq
  <2>2. Len(s) + Len(t) \in 1 .. Len(s) + Len(t) /\ ~(Len(s) + Len(t) <= Len(s)) /\ (Len(s) + Len(t)) - Len(s) = Len(t)
    BY <2>1
  <2>3. (s \o t)[Len(s) + Len(t)] = t[Len(t)]
    BY <2>1, <2>2
  <2>4. s \o t # <<>>
    BY <2>1, EmptySeq
  <2> QED BY <1>2, <2>1, <2>3, <2>4 DEF Last
<1> QED BY <1>1, <1>2

(* So it is along every path.                                               *)
LEMMA NewestAlong ==
  ASSUME NEW dm \in DefMaps, NEW a \in Alloca, NEW p \in Seq(Block)
  PROVE  LastAlong(dm, p, a)
<1> DEFINE Good(n) == \A q \in Seq(Block) : Len(q) = n => LastAlong(dm, q, a)
           N0 == Len(p)
           T == {n \in 0 .. N0 : Good(n)}
<1>1. N0 \in Nat
  BY LenProperties
<1>2. 0 \in T
  <2>1. ASSUME NEW q \in Seq(Block), Len(q) = 0 PROVE LastAlong(dm, q, a)
    <3>1. q = <<>> /\ DOMAIN q = {}
      BY <2>1, EmptySeq
    <3>2. Along(dm, q, a) = <<>>
      BY <3>1, AlongSteps
    <3> QED BY <3>1, <3>2 DEF LastAlong
  <2>2. Good(0) /\ 0 \in 0 .. N0
    BY <1>1, <2>1
  <2> HIDE DEF Good
  <2> QED BY <2>2
<1>3. ASSUME NEW n \in 0 .. N0 - 1, n \in T PROVE n + 1 \in T
  <2>1. n \in Nat /\ n + 1 \in 0 .. N0
    BY <1>1
  <2>2. ASSUME NEW q \in Seq(Block), Len(q) = n + 1 PROVE LastAlong(dm, q, a)
    <3> DEFINE f == Front(q)
               c == Last(q)
    <3>1. q # <<>>
      BY <2>1, <2>2, EmptySeq
    <3>2. f \in Seq(Block) /\ c \in Block /\ q = Append(f, c) /\ Len(f) = n
      BY <2>1, <2>2, <3>1, FrontNodes, FrontThenLast, LastIn
    <3> HIDE DEF f, c
    <3>3. DOMAIN q = 1 .. n + 1 /\ DOMAIN f = 1 .. n /\ q[n + 1] = c /\ \A i \in 1 .. n : q[i] = f[i]
      BY <2>1, <3>2, AppendProperties, LenProperties
    <3>4. LastAlong(dm, f, a)
      BY <1>3, <3>2
    <3> DEFINE s == Along(dm, f, a)
               t == dm[c][a]
               r == Along(dm, q, a)
    <3>5. s \in Seq(Where) /\ r = s \o t
      BY <3>2, AlongSteps
    <3>6. t \in Seq(Where)
      BY <3>2 DEF DefMaps
    <3>7. IF t = <<>> THEN s \o t = s ELSE s \o t # <<>> /\ Last(s \o t) = Last(t)
      BY <3>5, <3>6, ConcatLast
    <3>8. \A i : i \in DOMAIN q <=> i = n + 1 \/ i \in DOMAIN f
      BY <2>1, <3>3
    <3>9. \A i \in DOMAIN f : dm[q[i]][a] = dm[f[i]][a] /\ i <= n + 1
      BY <2>1, <3>3
    <3>t. dm[q[n + 1]][a] = t
      BY <3>3
    <3> HIDE DEF s, t, r
    <3>10. CASE t # <<>>
      <4>1. r # <<>> /\ Last(r) = Last(t)
        BY <3>5, <3>7, <3>10
      <4>2. n + 1 \in DOMAIN q /\ \A j \in DOMAIN q : j <= n + 1
        BY <2>1, <3>8, <3>9
      <4> QED BY <3>10, <3>t, <4>1, <4>2 DEF LastAlong, r
    <3>11. CASE t = <<>>
      <4>1. r = s
        BY <3>5, <3>7, <3>11
      <4>2. CASE s = <<>> /\ \A i \in DOMAIN f : dm[f[i]][a] = <<>>
        <5>1. \A i \in DOMAIN q : dm[q[i]][a] = <<>>
          BY <3>8, <3>9, <3>11, <3>t, <4>2
        <5> QED BY <4>1, <4>2, <5>1 DEF LastAlong, r
      <4>3. ASSUME s # <<>>, NEW i \in DOMAIN f, dm[f[i]][a] # <<>>, Last(s) = Last(dm[f[i]][a]),
                   \A j \in DOMAIN f : dm[f[j]][a] # <<>> => j <= i
            PROVE  LastAlong(dm, q, a)
        <5>1. i \in DOMAIN q /\ dm[q[i]][a] # <<>> /\ Last(r) = Last(dm[q[i]][a]) /\ r # <<>>
          BY <3>8, <3>9, <4>1, <4>3
        <5>2. \A j \in DOMAIN q : dm[q[j]][a] # <<>> => j <= i
          BY <3>8, <3>9, <3>11, <3>t, <4>3
        <5> QED BY <5>1, <5>2 DEF LastAlong, r
      <4> QED BY <3>4, <4>2, <4>3 DEF LastAlong, s
    <3> QED BY <3>10, <3>11
  <2>3. Good(n + 1)
    BY <2>2
  <2> HIDE DEF Good
  <2> QED BY <2>1, <2>3
<1> HIDE DEF T
<1>4. \A n \in 0 .. N0 : n \in T
  BY <1>1, <1>2, <1>3, UpTo
<1>5. Good(N0)
  BY <1>1, <1>4 DEF T
<1> QED BY <1>5

(* The stack ends with the one definition that reaches the instruction, or  *)
(* it is empty and no path has a definition.                                *)
TopIs(s, a, b, n) ==
  /\ s # <<>> => ReachingAfter(a, b, n) = {Last(s)}
  /\ s = <<>> => ReachingAfter(a, b, n) = {Uninitialised}

(* What is on the stack of an alloca when rename reaches an instruction of  *)
(* a block: the one definition that reaches it, or nothing where none does. *)
LEMMA TopReaches ==
  ASSUME PhiInv, PathInv, TreeIsRight, NEW b \in Block, Call(b), NEW a \in Promoted,
         NEW ds \in [0 .. Len(Insts(b)) -> Seq(Where)], Grows(ds, b, a),
         NEW n \in 0 .. Len(code[b])
  PROVE  TopIs(allocaStackMap[a] \o ds[Len(phis[b]) + n], a, b, n)
<1>1. /\ DTInv /\ DTTypeOK /\ M2Inv /\ CodeOK /\ PhisOK /\ status = "rename" /\ entry \in Block
      /\ path \in Seq(Block) /\ IsInjective(path) /\ allocaStackMap \in [Alloca -> Seq(Where)]
  BY DEF PhiInv, DTInv, DTTypeOK, M2Inv, M2Types, Call
<1>2. a \in Alloca
  <2>1. Allocas \in Seq(Alloca)
    BY <1>1, AllocasDiffer
  <2>2. \A i \in DOMAIN Allocas : Allocas[i] \in Alloca
    BY <2>1, LenProperties
  <2> QED BY <2>2 DEF Promoted, ToSet
<1>3. PhisPlaced(a)
  BY <1>1, PlacedOnFrontiers DEF PhiInv
<1>4. b \in Reached /\ \A y : StrictlyDominates(y, b) <=> \E j \in 1 .. Len(path) : y = path[j]
  BY <1>1, CallsAreDominators DEF PhiInv
<1> DEFINE k == Len(phis[b]) + n
           t == allocaStackMap[a]
           L == LastDef(a, b, n)
           s == t \o ds[k]
<1>5. k \in 0 .. Len(Insts(b)) /\ n \in Nat
  <2>1. Len(phis[b]) \in Nat /\ Len(code[b]) \in Nat /\ Len(Insts(b)) = Len(phis[b]) + Len(code[b])
    BY <1>1, InstsAt
  <2>2. \A m, l : m \in Nat /\ l \in Nat /\ n \in 0 .. l => m + n \in 0 .. m + l /\ n \in Nat
    OBVIOUS
  <2> QED BY <2>1, <2>2
<1>6. NewestIs(ds[k], L)
  BY <1>1, <1>2, NewestInBlock
<1>7. ds[k] \in Seq(Where) /\ t \in Seq(Where)
  BY <1>1, <1>2, <1>5
<1>8. IF ds[k] = <<>> THEN s = t ELSE s # <<>> /\ Last(s) = Last(ds[k])
  <2>1. \A u, v \in Seq(Where) : IF v = <<>> THEN u \o v = u ELSE u \o v # <<>> /\ Last(u \o v) = Last(v)
    BY ConcatLast
  <2>2. s = t \o ds[k]
    OBVIOUS
  <2> HIDE DEF k, t, s
  <2> QED BY <1>7, <2>1, <2>2
<1> HIDE DEF k, t, L, s
<1>9. ASSUME ds[k] # <<>> PROVE TopIs(s, a, b, n)
  <2>1. L = {Last(ds[k])} /\ s # <<>> /\ Last(s) = Last(ds[k])
    BY <1>6, <1>8, <1>9 DEF NewestIs
  <2> QED BY <2>1 DEF L, TopIs, ReachingAfter
<1>10. ASSUME ds[k] = <<>> PROVE TopIs(s, a, b, n)
  <2>1. L = {} /\ s = t
    BY <1>6, <1>8, <1>10 DEF NewestIs
  <2>2. b \notin PhiBlocks(a)
    <3>1. ASSUME Stores(a, b, n) # {} PROVE LastDef(a, b, n) # {}
      <4>1. PICK i \in Stores(a, b, n) : \A j \in Stores(a, b, n) : j <= i
        BY <1>1, <1>5, <3>1, LastDefCases
      <4>2. LastDef(a, b, n) = {<<b, i>>}
        BY <1>1, <1>5, <4>1, LastDefCases
      <4> QED BY <4>2
    <3>2. Stores(a, b, n) = {} => LastDef(a, b, n) = IF a \in ToSet(phis[b]) THEN {<<b, 0>>} ELSE {}
      BY <1>1, <1>5, LastDefCases
    <3> QED BY <2>1, <3>1, <3>2 DEF L, PhiBlocks
  <2>3. \A d \in Arriving(a)[b] : Nearest(a, b, d)
    BY <1>1, <1>3, <1>4, <2>2, NearestArrives
  <2>4. Arriving(a)[b] # {}
    BY <1>1, <1>4, SomethingArrives
  <2>5. DefMap \in DefMaps /\ t = Along(DefMap, path, a)
    BY <1>1, <1>2, DefMapOK DEF M2Inv, Stacked, t
  <2>6. LastAlong(DefMap, path, a)
    BY <1>1, <1>2, <2>5, NewestAlong
  <2>7. DOMAIN path = 1 .. Len(path) /\ Len(path) \in Nat /\ \A i \in DOMAIN path : path[i] \in Block
    BY <1>1, LenProperties
  <2>8. \A x \in Block : NewestIs(DefMap[x][a], Own(a, x)) /\ (Own(a, x) = {} <=> ~HasDef(a, x))
    BY <1>1, <1>2, NewestOfBlock, OwnFacts
  <2>9. CASE t = <<>>
    <3>1. \A i \in DOMAIN path : DefMap[path[i]][a] = <<>>
      BY <2>5, <2>6, <2>9 DEF LastAlong
    <3>2. \A i \in DOMAIN path : ~HasDef(a, path[i])
      BY <2>7, <2>8, <3>1 DEF NewestIs
    <3>3. \A y : StrictlyDominates(y, b) => ~HasDef(a, y)
      BY <1>4, <2>7, <3>2
    <3>4. \A d \in Arriving(a)[b] : d = Uninitialised
      BY <2>3, <3>3 DEF Nearest
    <3>5. Arriving(a)[b] = {Uninitialised}
      BY <2>4, <3>4
    <3> QED BY <2>1, <2>9, <3>5 DEF L, TopIs, ReachingAfter
  <2>10. CASE t # <<>>
    <3>1. PICK i \in DOMAIN path :
            /\ DefMap[path[i]][a] # <<>> /\ Last(t) = Last(DefMap[path[i]][a])
            /\ \A j \in DOMAIN path : DefMap[path[j]][a] # <<>> => j <= i
      BY <2>5, <2>6, <2>10 DEF LastAlong
    <3> DEFINE x == path[i]
    <3>2. x \in Block /\ HasDef(a, x) /\ Own(a, x) = {Last(t)}
      BY <2>7, <2>8, <3>1 DEF NewestIs
    <3>3. StrictlyDominates(x, b)
      BY <1>4, <2>7
    <3>4. ASSUME NEW d \in Arriving(a)[b] PROVE d = Last(t)
      <4>1. Nearest(a, b, d)
        BY <2>3
      <4>2. /\ d \in Own(a, d[1]) /\ HasDef(a, d[1]) /\ StrictlyDominates(d[1], b)
            /\ x = d[1] \/ StrictlyDominates(x, d[1])
        BY <3>2, <3>3, <4>1 DEF Nearest
      <4>3. PICK j \in DOMAIN path : d[1] = path[j]
        BY <1>4, <2>7, <4>2
      <4>4. j <= i
        <5>1. DefMap[path[j]][a] # <<>>
          BY <2>7, <2>8, <4>2, <4>3 DEF NewestIs
        <5> QED BY <3>1, <5>1
      <4>5. ~StrictlyDominates(x, path[j])
        <5>1. SUFFICES ASSUME StrictlyDominates(x, path[j]) PROVE FALSE
          OBVIOUS
        <5>2. PICK m \in 1 .. j - 1 : x = path[m]
          BY <5>1 DEF PathInv
        <5>3. m \in DOMAIN path /\ m < i
          BY <2>7, <4>4, <5>2
        <5>4. m = i
          BY <1>1, <5>2, <5>3 DEF IsInjective
        <5> QED BY <2>7, <5>3, <5>4
      <4>6. d \in Own(a, x)
        BY <4>2, <4>3, <4>5
      <4> QED BY <3>2, <4>6
    <3>5. Arriving(a)[b] = {Last(t)}
      BY <2>4, <3>4
    <3> QED BY <2>1, <2>10, <3>5 DEF L, TopIs, ReachingAfter
  <2> QED BY <2>9, <2>10
<1>11. TopIs(s, a, b, n)
  BY <1>9, <1>10
<1> QED BY <1>11 DEF s, t, k

(* An empty stack: no store dominates the instruction, be the alloca        *)
(* promoted or not.                                                         *)
LEMMA NothingDominates ==
  ASSUME PhiInv, PathInv, TreeIsRight, NEW b \in Block, Call(b), NEW a \in Alloca,
         NEW ds \in [0 .. Len(Insts(b)) -> Seq(Where)], Grows(ds, b, a),
         NEW n \in 0 .. Len(code[b]),
         allocaStackMap[a] \o ds[Len(phis[b]) + n] = <<>>
  PROVE  ~StoreDominates(a, b, n)
<1> DEFINE k == Len(phis[b]) + n
           t == allocaStackMap[a]
<1>1. /\ CodeOK /\ PhisOK /\ path \in Seq(Block) /\ t \in Seq(Where) /\ DefMap \in DefMaps
      /\ t = Along(DefMap, path, a)
  BY DefMapOK DEF PhiInv, M2Inv, M2Types, Stacked, Call
<1>2. n \in Nat /\ k \in 0 .. Len(Insts(b))
  <2>1. Len(phis[b]) \in Nat /\ Len(code[b]) \in Nat /\ Len(Insts(b)) = Len(phis[b]) + Len(code[b])
    BY <1>1, InstsAt
  <2>2. \A m, l : m \in Nat /\ l \in Nat /\ n \in 0 .. l => m + n \in 0 .. m + l /\ n \in Nat
    OBVIOUS
  <2> QED BY <2>1, <2>2
<1>3. ds[k] = <<>> /\ t = <<>>
  <2>1. \A u, v \in Seq(Where) : IF v = <<>> THEN u \o v = u ELSE u \o v # <<>> /\ Last(u \o v) = Last(v)
    BY ConcatLast
  <2>2. t \o ds[k] = <<>>
    OBVIOUS
  <2>3. ds[k] \in Seq(Where)
    BY <1>2
  <2> HIDE DEF k, t
  <2> QED BY <1>1, <2>1, <2>2, <2>3
<1>4. Stores(a, b, n) = {}
  <2>1. NewestIs(ds[k], LastDef(a, b, n))
    BY <1>1, NewestInBlock
  <2>2. LastDef(a, b, n) = {}
    BY <1>3, <2>1 DEF NewestIs
  <2> SUFFICES ASSUME Stores(a, b, n) # {} PROVE FALSE
    OBVIOUS
  <2>3. PICK i \in Stores(a, b, n) : \A j \in Stores(a, b, n) : j <= i
    BY <1>1, <1>2, LastDefCases
  <2>4. LastDef(a, b, n) = {<<b, i>>}
    BY <1>1, <1>2, <2>3, LastDefCases
  <2> QED BY <2>2, <2>4
<1>5. \A y : StrictlyDominates(y, b) => y \notin DefBlocks(a)
  <2>1. \A i \in DOMAIN path : DefMap[path[i]][a] = <<>>
    BY <1>1, <1>3, NewestAlong DEF LastAlong
  <2>2. DOMAIN path = 1 .. Len(path) /\ \A i \in DOMAIN path : path[i] \in Block
    BY <1>1, LenProperties
  <2>3. \A x \in Block : NewestIs(DefMap[x][a], Own(a, x)) /\ (Own(a, x) = {} <=> ~HasDef(a, x))
    BY <1>1, NewestOfBlock, OwnFacts
  <2>4. \A i \in DOMAIN path : ~HasDef(a, path[i])
    BY <2>1, <2>2, <2>3 DEF NewestIs
  <2>5. \A y : StrictlyDominates(y, b) => \E j \in 1 .. Len(path) : y = path[j]
    BY CallsAreDominators DEF PhiInv
  <2> QED BY <2>2, <2>4, <2>5 DEF HasDef
<1>6. ASSUME NEW p \in Places, At(p).op = "store", At(p).ptr = a
      PROVE  ~StrictlyDominates(p[1], b) /\ ~(p[1] = b /\ p[2] <= n)
  <2>1. p[1] \in DefBlocks(a)
    BY <1>6 DEF DefBlocks
  <2>2. PICK c \in Block : \E i \in 1 .. Len(code[c]) : p = <<c, i>>
    BY DEF Places
  <2>3. PICK i \in 1 .. Len(code[c]) : p = <<c, i>>
    BY <2>2
  <2>4. ASSUME c = b, i <= n PROVE FALSE
    <3>1. i \in 1 .. n
      BY <1>2, <2>4
    <3>2. code[b][i].op = "store" /\ code[b][i].ptr = a
      BY <1>6, <2>3, <2>4 DEF At
    <3> QED BY <1>4, <3>1, <3>2 DEF Stores
  <2> QED BY <1>5, <2>1, <2>3, <2>4
<1> QED BY <1>6 DEF StoreDominates

(* One instruction: what it replaces, and what it fails at.                 *)
LEMMA RenameEffect ==
  ASSUME NEW run \in Run, NEW inst \in PlacedInst
  PROVE  /\ \A p \in DOMAIN Rename(run, inst).replaced :
              \/ p \in DOMAIN run.replaced /\ Rename(run, inst).replaced[p] = run.replaced[p]
              \/ /\ inst.op = "load" /\ inst.at = p /\ inst.ptr \in Alloca
                 /\ run.why = "none" /\ run.stack[inst.ptr] # <<>>
                 /\ Rename(run, inst).replaced[p] = Last(run.stack[inst.ptr])
         /\ \/ Rename(run, inst).why = run.why
            \/ /\ Rename(run, inst).why = "pointer" /\ run.why = "none"
               /\ inst.op \in {"load", "store", "phi"} /\ inst.ptr = Other
            \/ /\ Rename(run, inst).why = "undefined" /\ run.why = "none"
               /\ inst.op = "load" /\ inst.ptr \in Alloca /\ run.stack[inst.ptr] = <<>>
         /\ DOMAIN Rename(run, inst).replaced =
              DOMAIN run.replaced \cup
                IF inst.op = "load" /\ Rename(run, inst).why = "none" THEN {inst.at} ELSE {}
<1> DEFINE new == Rename(run, inst)
<1>1. /\ run.stack \in [Alloca -> Seq(Where)] /\ run.replaced \in Repl
      /\ run.why \in {"none", "pointer", "undefined", "incoming"}
      /\ inst.at \in Where /\ inst.ptr \in Alloca \cup {Other}
      /\ inst.op \in {"alloca", "load", "store", "use", "phi"}
  BY DEF Run, PlacedInst
<1>2. CASE run.why # "none" \/ inst.op \in {"alloca", "use"}
  <2>1. new = run
    BY <1>2 DEF Rename
  <2> HIDE DEF new
  <2> QED BY <1>2, <2>1 DEF new
<1>3. CASE run.why = "none" /\ inst.op \notin {"alloca", "use"} /\ inst.ptr = Other
  <2>1. new = [run EXCEPT !.why = "pointer"]
    BY <1>3 DEF Rename
  <2>2. new.replaced = run.replaced /\ new.why = "pointer"
    BY <2>1 DEF Run
  <2> HIDE DEF new
  <2> QED BY <1>1, <1>3, <2>2 DEF new
<1>4. CASE run.why = "none" /\ inst.op \in {"store", "phi"} /\ inst.ptr # Other
  <2>1. new = [run EXCEPT !.stack[inst.ptr] = Append(@, inst.at)]
    BY <1>4 DEF Rename
  <2>2. new.replaced = run.replaced /\ new.why = run.why
    BY <2>1 DEF Run
  <2> HIDE DEF new
  <2> QED BY <1>4, <2>2 DEF new
<1>5. CASE run.why = "none" /\ inst.op = "load" /\ inst.ptr # Other /\ run.stack[inst.ptr] = <<>>
  <2>1. new = [run EXCEPT !.why = "undefined"]
    BY <1>5 DEF Rename
  <2>2. new.replaced = run.replaced /\ new.why = "undefined"
    BY <2>1 DEF Run
  <2> HIDE DEF new
  <2> QED BY <1>1, <1>5, <2>2 DEF new
<1>6. CASE run.why = "none" /\ inst.op = "load" /\ inst.ptr # Other /\ run.stack[inst.ptr] # <<>>
  <2> DEFINE repl == [p \in DOMAIN run.replaced \cup {inst.at} |->
                        IF p = inst.at THEN Newest(run.stack[inst.ptr]) ELSE run.replaced[p]]
  <2>1. new = [run EXCEPT !.replaced = repl]
    BY <1>6 DEF Rename
  <2>2. /\ DOMAIN repl = DOMAIN run.replaced \cup {inst.at}
        /\ \A p \in DOMAIN repl : repl[p] = IF p = inst.at THEN Last(run.stack[inst.ptr]) ELSE run.replaced[p]
    BY DEF Newest
  <2> HIDE DEF repl
  <2>3. new.replaced = repl /\ new.why = run.why
    BY <2>1 DEF Run
  <2> HIDE DEF new
  <2>4. ASSUME NEW p \in DOMAIN new.replaced
        PROVE  \/ p \in DOMAIN run.replaced /\ new.replaced[p] = run.replaced[p]
               \/ inst.at = p /\ new.replaced[p] = Last(run.stack[inst.ptr])
    BY <2>2, <2>3
  <2>5. DOMAIN new.replaced = DOMAIN run.replaced \cup {inst.at} /\ new.why = "none"
    BY <1>6, <2>2, <2>3
  <2> QED BY <1>1, <1>6, <2>3, <2>4, <2>5 DEF new
<1> QED BY <1>1, <1>2, <1>3, <1>4, <1>5, <1>6

(* Instruction j of the block is a load at p, and d is on top.              *)
Reads(rs, b, j, p, d) ==
  LET i == Insts(b)[j] s == rs[j - 1] IN
    /\ i.op = "load" /\ i.at = p /\ i.ptr \in Alloca
    /\ s.why = "none" /\ s.stack[i.ptr] # <<>> /\ d = Last(s.stack[i.ptr])

(* Instruction j of the block fails an assertion.                           *)
Fails(rs, b, j, why) ==
  LET i == Insts(b)[j] s == rs[j - 1] IN
    /\ s.why = "none"
    /\ \/ why = "pointer" /\ i.op \in {"load", "store", "phi"} /\ i.ptr = Other
       \/ why = "undefined" /\ i.op = "load" /\ i.ptr \in Alloca /\ s.stack[i.ptr] = <<>>

(* The places of the loads before instruction j, PHI nodes counted.         *)
LoadsBefore(b, j) == {Insts(b)[x].at : x \in {y \in 1 .. j - 1 : Insts(b)[y].op = "load"}}

(* What the first instructions replaced, and why they stopped: all loads of *)
(* them, or all before the one that failed.                                 *)
RunSoFar(rs, b, k) ==
  /\ \A p \in DOMAIN rs[k].replaced :
       \/ p \in DOMAIN replaced /\ rs[k].replaced[p] = replaced[p]
       \/ \E j \in 1 .. Len(Insts(b)) : Reads(rs, b, j, p, rs[k].replaced[p])
  /\ \/ /\ rs[k].why = "none"
        /\ DOMAIN rs[k].replaced = DOMAIN replaced \cup LoadsBefore(b, k + 1)
     \/ \E j \in 1 .. Len(Insts(b)) :
          /\ rs[k].why # "none" /\ Fails(rs, b, j, rs[k].why)
          /\ DOMAIN rs[k].replaced = DOMAIN replaced \cup LoadsBefore(b, j)

(* All of the first loop: by one instruction after the other.               *)
LEMMA RunEffects ==
  ASSUME CodeOK, PhisOK, NEW b \in Block,
         NEW rs \in [0 .. Len(Insts(b)) -> Run], Runs(rs, b)
  PROVE  RunSoFar(rs, b, Len(Insts(b)))
<1> DEFINE sq == Insts(b)
           n == Len(sq)
           T == {k \in 0 .. n : RunSoFar(rs, b, k)}
<1>1. n \in Nat /\ \A i \in 1 .. n : sq[i] \in PlacedInst
  BY InstsOK, LenProperties
<1>2. rs[0] = Start /\ \A i \in 1 .. n : rs[i] = Rename(rs[i - 1], sq[i])
  BY DEF Runs
<1>3. 0 \in T
  <2>1. rs[0].replaced = replaced /\ rs[0].why = "none" /\ 0 \in 0 .. n
    BY <1>1, <1>2 DEF Start
  <2>2. LoadsBefore(b, 0 + 1) = {}
    BY DEF LoadsBefore
  <2>3. RunSoFar(rs, b, 0)
    BY <2>1, <2>2 DEF RunSoFar
  <2> QED BY <2>1, <2>3
<1>4. ASSUME NEW k \in 0 .. n - 1, k \in T PROVE k + 1 \in T
  <2> DEFINE j == k + 1
             run == rs[k]
             inst == sq[j]
             new == Rename(run, inst)
  <2>1. j \in 1 .. n /\ j \in 0 .. n /\ j - 1 = k /\ k \in 0 .. n
    BY <1>1
  <2>2. rs[j] = new /\ run \in Run /\ inst \in PlacedInst /\ RunSoFar(rs, b, k)
    BY <1>1, <1>2, <1>4, <2>1
  <2> HIDE DEF j
  <2>3. /\ \A p \in DOMAIN new.replaced :
              \/ p \in DOMAIN run.replaced /\ new.replaced[p] = run.replaced[p]
              \/ /\ inst.op = "load" /\ inst.at = p /\ inst.ptr \in Alloca
                 /\ run.why = "none" /\ run.stack[inst.ptr] # <<>>
                 /\ new.replaced[p] = Last(run.stack[inst.ptr])
        /\ \/ new.why = run.why
           \/ /\ new.why = "pointer" /\ run.why = "none"
              /\ inst.op \in {"load", "store", "phi"} /\ inst.ptr = Other
           \/ /\ new.why = "undefined" /\ run.why = "none"
              /\ inst.op = "load" /\ inst.ptr \in Alloca /\ run.stack[inst.ptr] = <<>>
        /\ DOMAIN new.replaced =
             DOMAIN run.replaced \cup IF inst.op = "load" /\ new.why = "none" THEN {inst.at} ELSE {}
    <3> HIDE DEF run, inst
    <3> QED BY <2>2, RenameEffect
  <2> HIDE DEF new
  <2>4. ASSUME NEW p \in DOMAIN new.replaced
        PROVE  \/ p \in DOMAIN replaced /\ new.replaced[p] = replaced[p]
               \/ \E i \in 1 .. n : Reads(rs, b, i, p, new.replaced[p])
    <3>1. CASE p \in DOMAIN run.replaced /\ new.replaced[p] = run.replaced[p]
      BY <2>2, <3>1 DEF RunSoFar
    <3>2. CASE ~(p \in DOMAIN run.replaced /\ new.replaced[p] = run.replaced[p])
      <4>1. Reads(rs, b, j, p, new.replaced[p])
        BY <2>1, <2>3, <3>2 DEF Reads
      <4> QED BY <2>1, <4>1
    <3> QED BY <3>1, <3>2
  <2>l. LoadsBefore(b, j + 1) = LoadsBefore(b, j) \cup IF inst.op = "load" THEN {inst.at} ELSE {}
    <3>1. \A y : y \in 1 .. (j + 1) - 1 <=> y \in 1 .. j - 1 \/ y = j
      BY <1>1, <2>1
    <3> QED BY <3>1 DEF LoadsBefore
  <2>5. \/ new.why = "none" /\ DOMAIN new.replaced = DOMAIN replaced \cup LoadsBefore(b, j + 1)
        \/ \E i \in 1 .. n :
             /\ new.why # "none" /\ Fails(rs, b, i, new.why)
             /\ DOMAIN new.replaced = DOMAIN replaced \cup LoadsBefore(b, i)
    <3>0. k + 1 = j
      BY DEF j
    <3>1. CASE new.why = run.why /\ new.why = "none"
      <4>1. DOMAIN run.replaced = DOMAIN replaced \cup LoadsBefore(b, j)
        BY <2>2, <3>0, <3>1 DEF RunSoFar
      <4> HIDE DEF run, inst, sq
      <4> QED BY <2>3, <2>l, <3>1, <4>1
    <3>2. CASE new.why = run.why /\ new.why # "none"
      <4>1. PICK i \in 1 .. n : Fails(rs, b, i, run.why) /\ DOMAIN run.replaced = DOMAIN replaced \cup LoadsBefore(b, i)
        BY <2>2, <3>2 DEF RunSoFar
      <4>2. DOMAIN new.replaced = DOMAIN run.replaced
        <5> HIDE DEF run, inst
        <5> QED BY <2>3, <3>2
      <4> QED BY <3>2, <4>1, <4>2
    <3>3. CASE new.why # run.why
      <4>1. Fails(rs, b, j, new.why) /\ new.why # "none" /\ run.why = "none"
        BY <2>1, <2>3, <3>3 DEF Fails
      <4>2. DOMAIN run.replaced = DOMAIN replaced \cup LoadsBefore(b, j)
        BY <2>2, <3>0, <4>1 DEF RunSoFar
      <4>3. DOMAIN new.replaced = DOMAIN run.replaced
        <5> HIDE DEF run, inst
        <5> QED BY <2>3, <4>1
      <4> QED BY <2>1, <4>1, <4>2, <4>3
    <3> QED BY <3>1, <3>2, <3>3
  <2>6. RunSoFar(rs, b, j)
    BY <2>2, <2>4, <2>5 DEF RunSoFar
  <2> QED BY <2>1, <2>6 DEF j
<1>5. n \in T
  <2> HIDE DEF T, n
  <2>1. \A k \in 0 .. n : k \in T
    BY <1>1, <1>3, <1>4, UpTo
  <2> QED BY <1>1, <2>1
<1> QED BY <1>5

(* Before every instruction the stack of an alloca ends with the definition *)
(* that reaches it.                                                         *)
LEMMA TopAt ==
  ASSUME PhiInv, PathInv, TreeIsRight, NEW b \in Block, Call(b), NEW a \in Promoted,
         NEW rs \in [0 .. Len(Insts(b)) -> Run], Runs(rs, b),
         NEW n \in 0 .. Len(code[b]), rs[Len(phis[b]) + n].why = "none"
  PROVE  TopIs(rs[Len(phis[b]) + n].stack[a], a, b, n)
<1>1. DTTypeOK /\ CodeOK /\ PhisOK /\ Start \in Run /\ status = "rename" /\ entry \in Block
  BY DEF PhiInv, DTInv, DTTypeOK, M2Inv, M2Types, Start, Run, Call
<1>2. a \in Alloca
  <2>1. Allocas \in Seq(Alloca)
    BY <1>1, AllocasDiffer
  <2>2. \A i \in DOMAIN Allocas : Allocas[i] \in Alloca
    BY <2>1, LenProperties
  <2> QED BY <2>2 DEF Promoted, ToSet
<1>3. PICK ds \in [0 .. Len(Insts(b)) -> Seq(Where)] : Grows(ds, b, a)
  BY <1>1, <1>2, DefinitionSteps
<1>4. \A k \in 0 .. Len(Insts(b)) : rs[k].why = "none" => rs[k].stack[a] = allocaStackMap[a] \o ds[k]
  BY <1>1, <1>2, <1>3, RunStacks
<1>5. Len(phis[b]) + n \in 0 .. Len(Insts(b))
  <2>1. Len(phis[b]) \in Nat /\ Len(code[b]) \in Nat /\ Len(Insts(b)) = Len(phis[b]) + Len(code[b])
    BY <1>1, InstsAt
  <2>2. \A m, l : m \in Nat /\ l \in Nat /\ n \in 0 .. l => m + n \in 0 .. m + l
    OBVIOUS
  <2> QED BY <2>1, <2>2
<1>6. rs[Len(phis[b]) + n].stack[a] = allocaStackMap[a] \o ds[Len(phis[b]) + n]
  BY <1>4, <1>5
<1>7. TopIs(allocaStackMap[a] \o ds[Len(phis[b]) + n], a, b, n)
  BY <1>3, TopReaches
<1> QED BY <1>6, <1>7

(* Where it is empty, no store dominates the instruction.                   *)
LEMMA EmptyAt ==
  ASSUME PhiInv, PathInv, TreeIsRight, NEW b \in Block, Call(b), NEW a \in Alloca,
         NEW rs \in [0 .. Len(Insts(b)) -> Run], Runs(rs, b),
         NEW n \in 0 .. Len(code[b]), rs[Len(phis[b]) + n].why = "none",
         rs[Len(phis[b]) + n].stack[a] = <<>>
  PROVE  ~StoreDominates(a, b, n)
<1>1. CodeOK /\ PhisOK /\ Start \in Run
  BY DEF PhiInv, M2Inv, M2Types, Start, Run
<1>2. PICK ds \in [0 .. Len(Insts(b)) -> Seq(Where)] : Grows(ds, b, a)
  BY <1>1, DefinitionSteps
<1>3. \A k \in 0 .. Len(Insts(b)) : rs[k].why = "none" => rs[k].stack[a] = allocaStackMap[a] \o ds[k]
  BY <1>1, <1>2, RunStacks
<1>4. Len(phis[b]) + n \in 0 .. Len(Insts(b))
  <2>1. Len(phis[b]) \in Nat /\ Len(code[b]) \in Nat /\ Len(Insts(b)) = Len(phis[b]) + Len(code[b])
    BY <1>1, InstsAt
  <2>2. \A m, l : m \in Nat /\ l \in Nat /\ n \in 0 .. l => m + n \in 0 .. m + l
    OBVIOUS
  <2> QED BY <2>1, <2>2
<1>5. allocaStackMap[a] \o ds[Len(phis[b]) + n] = <<>>
  BY <1>3, <1>4
<1> QED BY <1>2, <1>5, NothingDominates

(* The PHI node at the head of those of the successors is one of theirs.    *)
LEMMA HeadIsInOne ==
  ASSUME NEW S, NEW seqs \in Seq(Seq(S)), FlattenSeq(seqs) # <<>>
  PROVE  \E i \in DOMAIN seqs : Head(FlattenSeq(seqs)) \in ToSet(seqs[i])
<1>1. PICK fl \in [0 .. Len(seqs) -> Seq(S)] : Joins(fl, seqs) /\ FlattenSeq(seqs) = fl[Len(seqs)]
  BY FlattenSteps
<1> DEFINE n == Len(seqs)
           Good(k) == \A x \in ToSet(fl[k]) : \E i \in 1 .. n : x \in ToSet(seqs[i])
           T == {k \in 0 .. n : Good(k)}
<1>2. n \in Nat /\ DOMAIN seqs = 1 .. n /\ \A i \in 1 .. n : seqs[i] \in Seq(S)
  BY LenProperties
<1>3. 0 \in T
  <2>1. ToSet(fl[0]) = {}
    BY <1>1 DEF Joins, ToSet
  <2>2. Good(0)
    BY <2>1
  <2> HIDE DEF Good
  <2> QED BY <1>2, <2>2
<1>4. ASSUME NEW k \in 0 .. n - 1, k \in T PROVE k + 1 \in T
  <2>1. k + 1 \in 1 .. n /\ k + 1 \in 0 .. n /\ (k + 1) - 1 = k /\ k \in 0 .. n
    BY <1>2
  <2>2. fl[k + 1] = fl[k] \o seqs[k + 1] /\ fl[k] \in Seq(S) /\ seqs[k + 1] \in Seq(S)
    BY <1>1, <1>2, <2>1 DEF Joins
  <2>3. \A s, t \in Seq(S) : ToSet(s \o t) = ToSet(s) \cup ToSet(t)
    BY ConcatNodes
  <2>4. Good(k + 1)
    BY <1>4, <2>1, <2>2, <2>3
  <2> HIDE DEF Good
  <2> QED BY <2>1, <2>4
<1>5. Good(n)
  <2> HIDE DEF T
  <2>1. \A k \in 0 .. n : k \in T
    <3> HIDE DEF n
    <3> QED BY <1>2, <1>3, <1>4, UpTo
  <2> QED BY <1>2, <2>1 DEF T
<1>6. fl[n] \in Seq(S) /\ fl[n] # <<>>
  BY <1>1, <1>2
<1>7. Head(fl[n]) \in ToSet(fl[n])
  <2>1. \A s \in Seq(S) : s # <<>> => Head(s) \in ToSet(s)
    BY TailNodes
  <2> QED BY <1>6, <2>1
<1> QED BY <1>1, <1>2, <1>5, <1>7

(* The second loop of rename: an abort there, and why.                      *)
LEMMA IncomingEffect ==
  ASSUME PhisOK, NEW run \in Run, NEW b \in Block, DTTypeOK
  PROVE  /\ Incoming(run, b).replaced = run.replaced
         /\ \/ Incoming(run, b).why = run.why /\ (run.why # "none" \/ SuccessorPhis(b) = <<>>)
            \/ /\ run.why = "none" /\ SuccessorPhis(b) # <<>>
               /\ LET a == Head(SuccessorPhis(b)) IN
                    /\ a \in Alloca /\ \E s \in ToSet(succ[b]) : a \in ToSet(phis[s])
                    /\ Incoming(run, b).why = IF run.stack[a] = <<>> THEN "undefined" ELSE "incoming"
<1> DEFINE seqs == [i \in DOMAIN succ[b] |-> phis[succ[b][i]]]
           ps == FlattenSeq(seqs)
           new == Incoming(run, b)
<1>p. SuccessorPhis(b) = ps
  BY DEF SuccessorPhis
<1>1. CASE run.why # "none" \/ ps = <<>>
  BY <1>1, <1>p DEF Incoming
<1>2. CASE run.why = "none" /\ ps # <<>>
  <2>1. new = [run EXCEPT !.why = IF run.stack[Head(ps)] = <<>> THEN "undefined" ELSE "incoming"]
    BY <1>2, <1>p DEF Incoming
  <2>2. succ[b] \in Seq(Block) /\ Len(succ[b]) \in Nat /\ DOMAIN succ[b] = 1 .. Len(succ[b])
        /\ \A i \in DOMAIN succ[b] : succ[b][i] \in Block
    <3>1. succ[b] \in Seq(Block)
      BY DEF DTTypeOK
    <3> QED BY <3>1, LenProperties
  <2>3. seqs \in Seq(Seq(Alloca)) /\ DOMAIN seqs = DOMAIN succ[b]
    <3>1. seqs \in [1 .. Len(succ[b]) -> Seq(Alloca)]
      BY <2>2 DEF PhisOK
    <3> HIDE DEF seqs
    <3>2. seqs \in Seq(Seq(Alloca))
      BY <2>2, <3>1, FunctionIsSeq
    <3> QED BY <2>2, <3>1, <3>2
  <2>4. PICK i \in DOMAIN seqs : Head(ps) \in ToSet(seqs[i])
    <3> HIDE DEF seqs
    <3> QED BY <1>2, <2>3, HeadIsInOne
  <2> DEFINE s == succ[b][i]
             a == Head(ps)
  <2>5. s \in ToSet(succ[b]) /\ s \in Block /\ a \in ToSet(phis[s])
    BY <2>2, <2>3, <2>4 DEF ToSet
  <2>6. a \in Alloca
    <3>1. phis[s] \in Seq(Alloca)
      BY <2>5 DEF PhisOK
    <3>2. \A j \in DOMAIN phis[s] : phis[s][j] \in Alloca
      BY <3>1, LenProperties
    <3> QED BY <2>5, <3>2 DEF ToSet
  <2> HIDE DEF ps
  <2>7. new.replaced = run.replaced /\ new.why = IF run.stack[a] = <<>> THEN "undefined" ELSE "incoming"
    BY <2>1 DEF Run
  <2>8. a = Head(SuccessorPhis(b)) /\ SuccessorPhis(b) # <<>>
    BY <1>2, <1>p
  <2> HIDE DEF new, a, s
  <2> QED BY <1>2, <2>5, <2>6, <2>7, <2>8 DEF new
<1> QED BY <1>1, <1>2

(* What a call of rename replaces, and what it fails at, on a tree that is  *)
(* right.                                                                   *)
ReadsRight(b, p, d) ==
  \E n \in 1 .. Len(code[b]) :
    /\ p = <<b, n>>
    /\ code[b][n].ptr \in Promoted => ReachingAfter(code[b][n].ptr, b, n - 1) = {d}

(* The causes of AbortsHaveACause, with the set of the loads that were       *)
(* replaced as a parameter.                                                 *)
Stopped(D, b, i) ==
  \A j \in DOMAIN code[b] : code[b][j].op = "load" => (<<b, j>> \in D <=> j < i)

Undefined(D, b) ==
  \/ \E i \in DOMAIN code[b] :
       /\ code[b][i].op = "load" /\ code[b][i].ptr # Other /\ Stopped(D, b, i)
       /\ NoDefinition(code[b][i].ptr, b, i - 1)
  \/ /\ Stopped(D, b, Len(code[b]) + 1) /\ SuccessorPhis(b) # <<>>
     /\ NoDefinition(Head(SuccessorPhis(b)), b, Len(code[b]))

Meets(D, b) ==
  /\ Stopped(D, b, Len(code[b]) + 1) /\ SuccessorPhis(b) # <<>>
  /\ LET a == Head(SuccessorPhis(b)) IN
       /\ Uninitialised \notin ReachingAfter(a, b, Len(code[b]))
       /\ \E s \in ToSet(succ[b]) : Contains(phis[s], a) /\ Cardinality(Arriving(a)[s]) > 1

Stray(D, b) ==
  \E i \in DOMAIN code[b] :
    code[b][i].op \in {"load", "store"} /\ code[b][i].ptr = Other /\ Stopped(D, b, i)

Cause(D, b, why) ==
  /\ why = "undefined" => Undefined(D, b)
  /\ why = "incoming" => Meets(D, b)
  /\ why = "pointer" => Stray(D, b)

(* Of the loads of a block that rename has not been called for, those among *)
(* the instructions before number i are new.                                *)
LEMMA StoppedBefore ==
  ASSUME CodeOK, PhisOK, NEW b \in Block, \A p \in DOMAIN replaced : p[1] # b,
         NEW i \in 1 .. Len(code[b]) + 1
  PROVE  Stopped(DOMAIN replaced \cup LoadsBefore(b, Len(phis[b]) + i), b, i)
<1> DEFINE m == Len(phis[b])
           l == Len(code[b])
           sq == Insts(b)
           B == LoadsBefore(b, m + i)
<1>1. /\ m \in Nat /\ l \in Nat
      /\ \A x \in 1 .. m : sq[x].op = "phi"
      /\ \A x \in 1 .. l : sq[m + x].op = code[b][x].op /\ sq[m + x].at = <<b, x>>
  BY InstsAt
<1>2. DOMAIN code[b] = 1 .. l
  BY LenProperties DEF CodeOK
<1>3. \A p : p \in B <=> \E x \in 1 .. (m + i) - 1 : sq[x].op = "load" /\ sq[x].at = p
  BY DEF LoadsBefore
<1> HIDE DEF m, l, sq, B
<1>4. i \in Nat /\ i <= l + 1
  <2>1. i \in 1 .. l + 1
    BY DEF l
  <2> QED BY <1>1, <2>1
<1>5. SUFFICES ASSUME NEW j \in 1 .. l, code[b][j].op = "load"
               PROVE  <<b, j>> \in DOMAIN replaced \cup B <=> j < i
  BY <1>2, <1>5 DEF Stopped, B, m
<1>6. <<b, j>> \notin DOMAIN replaced
  <2>1. <<b, j>>[1] = b
    OBVIOUS
  <2> QED BY <2>1
<1>7. ASSUME j < i PROVE <<b, j>> \in B
  <2>1. m + j \in 1 .. (m + i) - 1
    BY <1>1, <1>4, <1>7
  <2>2. sq[m + j].op = "load" /\ sq[m + j].at = <<b, j>>
    BY <1>1, <1>5
  <2> QED BY <1>3, <2>1, <2>2
<1>8. ASSUME <<b, j>> \in B PROVE j < i
  <2>1. PICK x \in 1 .. (m + i) - 1 : sq[x].op = "load" /\ sq[x].at = <<b, j>>
    BY <1>3, <1>8
  <2>2. x \notin 1 .. m
    BY <1>1, <2>1
  <2>3. x - m \in 1 .. l /\ x = m + (x - m) /\ x - m < i
    BY <1>1, <1>4, <2>2
  <2>4. <<b, x - m>> = <<b, j>>
    BY <1>1, <2>1, <2>3
  <2>5. x - m = j
    BY <2>4
  <2> QED BY <2>3, <2>5
<1> QED BY <1>6, <1>7, <1>8

(* A call replaces loads with the definitions that reach them, and what it  *)
(* fails at has its cause.                                                  *)
LEMMA CallEffects ==
  ASSUME PhiInv, PathInv, TreeIsRight, NEW b \in Block, Call(b),
         \A p \in DOMAIN replaced : p[1] # b
  PROVE  /\ \A p \in DOMAIN replaced' :
              \/ p \in DOMAIN replaced /\ replaced'[p] = replaced[p]
              \/ ReadsRight(b, p, replaced'[p])
         /\ Cause(DOMAIN replaced', b, status')
<1>1. DTTypeOK /\ CodeOK /\ PhisOK /\ Start \in Run /\ status = "rename" /\ Reached \subseteq Block
  BY DominanceOrder DEF PhiInv, DTInv, M2Inv, M2Types, Start, Run, Call
<1> DEFINE n == Len(Insts(b))
           m == Len(phis[b])
           l == Len(code[b])
           sq == Insts(b)
<1>2. /\ m \in Nat /\ l \in Nat /\ n = m + l
      /\ \A i \in 1 .. m : sq[i].op = "phi" /\ sq[i].ptr = phis[b][i]
      /\ \A i \in 1 .. l : sq[m + i].op = code[b][i].op /\ sq[m + i].ptr = code[b][i].ptr
                           /\ sq[m + i].at = <<b, i>>
  BY <1>1, InstsAt
<1>3. PICK rs \in [0 .. n -> Run] : Runs(rs, b) /\ FoldLeft(Rename, Start, sq) = rs[n]
  BY <1>1, RunSteps
<1>4. RunSoFar(rs, b, n)
  BY <1>1, <1>3, RunEffects
<1> DEFINE run == Incoming(rs[n], b)
<1>5. status' = (IF run.why = "none" THEN "rename" ELSE run.why) /\ replaced' = run.replaced
  BY <1>3 DEF Call, Enter, Start
<1>6. rs[n] \in Run
  <2>1. \A i, j, k : i \in Nat /\ j \in Nat /\ k = i + j => k \in 0 .. k
    OBVIOUS
  <2>2. n \in 0 .. n
    <3> HIDE DEF m, l, n, sq
    <3> QED BY <1>2, <2>1
  <2> HIDE DEF n
  <2> QED BY <1>3, <2>2
<1> HIDE DEF n
<1> DEFINE ps == SuccessorPhis(b)
           h == Head(ps)
<1>7. /\ run.replaced = rs[n].replaced
      /\ \/ run.why = rs[n].why /\ (rs[n].why # "none" \/ ps = <<>>)
         \/ /\ rs[n].why = "none" /\ ps # <<>>
            /\ h \in Alloca /\ \E s \in ToSet(succ[b]) : h \in ToSet(phis[s])
            /\ run.why = IF rs[n].stack[h] = <<>> THEN "undefined" ELSE "incoming"
  BY <1>1, <1>6, IncomingEffect
<1> HIDE DEF run, m, l, sq, ps, h
<1>d. replaced' = rs[n].replaced
  BY <1>5, <1>7
<1>s. ASSUME NEW i \in 1 .. l + 1, DOMAIN replaced' = DOMAIN replaced \cup LoadsBefore(b, m + i)
      PROVE  Stopped(DOMAIN replaced', b, i)
  BY <1>1, <1>s, StoppedBefore DEF m, l
<1>8. ASSUME NEW a \in Promoted, NEW i \in 0 .. l, rs[m + i].why = "none"
      PROVE  TopIs(rs[m + i].stack[a], a, b, i)
  BY <1>3, <1>8, TopAt DEF m, l, n
<1>9. ASSUME NEW j \in 1 .. n, sq[j].op # "phi"
      PROVE  \E i \in 1 .. l : j = m + i /\ j - 1 = m + (i - 1) /\ i - 1 \in 0 .. l
  <2>1. ~(j \in 1 .. m)
    BY <1>2, <1>9
  <2>2. j - m \in 1 .. l /\ j = m + (j - m) /\ j - 1 = m + ((j - m) - 1) /\ (j - m) - 1 \in 0 .. l
    BY <1>2, <2>1
  <2> QED BY <2>2
<1>10. ASSUME NEW j \in 1 .. n, NEW p, NEW d, Reads(rs, b, j, p, d)
       PROVE  ReadsRight(b, p, d)
  <2>1. /\ sq[j].op = "load" /\ sq[j].at = p /\ rs[j - 1].why = "none"
        /\ rs[j - 1].stack[sq[j].ptr] # <<>> /\ d = Last(rs[j - 1].stack[sq[j].ptr])
    BY <1>10 DEF Reads, sq
  <2>2. PICK i \in 1 .. l : j = m + i /\ j - 1 = m + (i - 1) /\ i - 1 \in 0 .. l
    BY <1>9, <2>1
  <2>3. p = <<b, i>> /\ sq[j].ptr = code[b][i].ptr
    BY <1>2, <2>1, <2>2
  <2>4. ASSUME code[b][i].ptr \in Promoted PROVE ReachingAfter(code[b][i].ptr, b, i - 1) = {d}
    BY <1>8, <2>1, <2>2, <2>3, <2>4 DEF TopIs
  <2> QED BY <2>3, <2>4 DEF ReadsRight, l
<1>e. ASSUME NEW a \in Alloca, NEW i \in 0 .. l, rs[m + i].why = "none", rs[m + i].stack[a] = <<>>
      PROVE  NoDefinition(a, b, i)
  <2>1. a \in Promoted => ReachingAfter(a, b, i) = {Uninitialised}
    BY <1>8, <1>e DEF TopIs
  <2>2. ~StoreDominates(a, b, i)
    BY <1>3, <1>e, EmptyAt DEF m, l, n
  <2> QED BY <2>1, <2>2 DEF NoDefinition
<1>11. ASSUME NEW j \in 1 .. n, NEW why, Fails(rs, b, j, why),
              DOMAIN replaced' = DOMAIN replaced \cup LoadsBefore(b, j)
       PROVE  Cause(DOMAIN replaced', b, why)
  <2>1. /\ rs[j - 1].why = "none"
        /\ \/ why = "pointer" /\ sq[j].op \in {"load", "store", "phi"} /\ sq[j].ptr = Other
           \/ why = "undefined" /\ sq[j].op = "load" /\ sq[j].ptr \in Alloca
              /\ rs[j - 1].stack[sq[j].ptr] = <<>>
    BY <1>11 DEF Fails, sq
  <2>2. sq[j].op # "phi"
    <3>1. ASSUME j \in 1 .. m PROVE sq[j].ptr # Other
      <4>1. \A k \in 1 .. m : phis[b][k] \in Alloca
        <5>1. phis[b] \in Seq(Alloca)
          BY <1>1 DEF PhisOK
        <5> QED BY <5>1, LenProperties DEF m
      <4> QED BY <1>2, <3>1, <4>1, AllocasAssumption
    <3>2. ASSUME j \notin 1 .. m PROVE sq[j].op # "phi"
      <4>1. j - m \in 1 .. l /\ j = m + (j - m)
        BY <1>2, <3>2
      <4>2. code[b][j - m] \in Inst
        <5>1. code[b] \in Seq(Inst)
          BY <1>1 DEF CodeOK
        <5>2. \A k \in 1 .. l : code[b][k] \in Inst
          BY <5>1, LenProperties DEF l
        <5> QED BY <4>1, <5>2
      <4> QED BY <1>2, <4>1, <4>2 DEF Inst
    <3> QED BY <2>1, <3>1, <3>2
  <2>3. PICK i \in 1 .. l : j = m + i /\ j - 1 = m + (i - 1) /\ i - 1 \in 0 .. l
    BY <1>9, <2>2
  <2>4. sq[j].ptr = code[b][i].ptr /\ sq[j].op = code[b][i].op
    BY <1>2, <2>3
  <2>i. Stopped(DOMAIN replaced', b, i) /\ i \in DOMAIN code[b]
    <3>1. i \in 1 .. l + 1
      BY <1>2
    <3>2. Stopped(DOMAIN replaced', b, i)
      BY <1>11, <1>s, <2>3, <3>1
    <3>3. DOMAIN code[b] = 1 .. l
      BY <1>1, LenProperties DEF CodeOK, l
    <3> QED BY <3>2, <3>3
  <2>5. CASE why = "pointer"
    <3>1. code[b][i].op \in {"load", "store"} /\ code[b][i].ptr = Other
      BY <2>1, <2>2, <2>4, <2>5
    <3> QED BY <2>5, <2>i, <3>1 DEF Cause, Stray
  <2>6. CASE why = "undefined"
    <3>1. code[b][i].op = "load" /\ code[b][i].ptr \in Alloca /\ rs[m + (i - 1)].stack[code[b][i].ptr] = <<>>
          /\ rs[m + (i - 1)].why = "none"
      BY <2>1, <2>3, <2>4, <2>6
    <3>2. NoDefinition(code[b][i].ptr, b, i - 1)
      BY <1>e, <2>3, <3>1
    <3>3. code[b][i].ptr # Other
      BY <3>1, AllocasAssumption
    <3> QED BY <2>6, <2>i, <3>1, <3>2, <3>3 DEF Cause, Undefined
  <2> QED BY <2>1, <2>5, <2>6
<1>12. ASSUME NEW p \in DOMAIN replaced'
       PROVE  \/ p \in DOMAIN replaced /\ replaced'[p] = replaced[p]
              \/ ReadsRight(b, p, replaced'[p])
  <2>1. \/ p \in DOMAIN replaced /\ rs[n].replaced[p] = replaced[p]
        \/ \E j \in 1 .. n : Reads(rs, b, j, p, rs[n].replaced[p])
    BY <1>4, <1>d DEF RunSoFar, n
  <2> QED BY <1>10, <1>d, <2>1
<1>13. Cause(DOMAIN replaced', b, run.why)
  <2>1. CASE rs[n].why # "none"
    <3>1. PICK j \in 1 .. n : Fails(rs, b, j, rs[n].why) /\ DOMAIN rs[n].replaced = DOMAIN replaced \cup LoadsBefore(b, j)
      BY <1>4, <2>1 DEF RunSoFar, n
    <3> QED BY <1>7, <1>11, <1>d, <2>1, <3>1
  <2>2. CASE rs[n].why = "none" /\ run.why = "none"
    BY <2>2 DEF Cause
  <2>3. CASE rs[n].why = "none" /\ run.why # "none"
    <3>1. /\ ps # <<>> /\ h \in Alloca /\ \E s \in ToSet(succ[b]) : h \in ToSet(phis[s])
          /\ run.why = IF rs[n].stack[h] = <<>> THEN "undefined" ELSE "incoming"
      BY <1>7, <2>3
    <3>2. PICK s \in ToSet(succ[b]) : h \in ToSet(phis[s])
      BY <3>1
    <3>3. b \in Reached
      BY CallsAreDominators DEF PhiInv
    <3>4. s \in Reached /\ s \in Block
      <4>1. \A c \in Reached : ToSet(succ[c]) \subseteq Reached
        BY <1>1, DominanceOrder
      <4> QED BY <1>1, <3>3, <4>1
    <3>5. h \in Promoted
      BY <1>1, <3>2, <3>4 DEF PhiInv, PlaceInv
    <3>6. PhisPlaced(h)
      BY <1>1, <3>5, PlacedOnFrontiers DEF PhiInv
    <3>7. Contains(phis[s], h) /\ Cardinality(Arriving(h)[s]) > 1
      <4>1. DOMAIN phis[s] = 1 .. Len(phis[s])
        <5>1. phis[s] \in Seq(Alloca)
          BY <1>1, <3>4 DEF PhisOK
        <5> QED BY <5>1, LenProperties
      <4>2. Contains(phis[s], h)
        BY <3>2, <4>1 DEF Contains, ToSet
      <4> QED BY <1>1, <3>4, <3>6, <4>2, PhisMeetDefinitions
    <3>8. n = m + l /\ l \in 0 .. l /\ l + 1 \in 1 .. l + 1 /\ n + 1 = m + (l + 1)
      BY <1>2
    <3>9. Stopped(DOMAIN replaced', b, l + 1)
      <4>1. DOMAIN replaced' = DOMAIN replaced \cup LoadsBefore(b, n + 1)
        BY <1>4, <1>d, <2>3 DEF RunSoFar, n
      <4> QED BY <1>s, <3>8, <4>1
    <3>10. CASE run.why = "undefined"
      <4>1. rs[m + l].why = "none" /\ rs[m + l].stack[h] = <<>>
        BY <2>3, <3>1, <3>8, <3>10
      <4>2. NoDefinition(h, b, l)
        BY <1>e, <3>1, <3>8, <4>1
      <4> QED BY <3>1, <3>9, <3>10, <4>2 DEF Cause, Undefined, ps, h, l
    <3>11. CASE run.why = "incoming"
      <4>1. rs[m + l].why = "none" /\ rs[m + l].stack[h] # <<>> /\ rs[m + l] = rs[n]
        BY <2>3, <3>1, <3>8, <3>11
      <4>2. ReachingAfter(h, b, l) = {Last(rs[n].stack[h])}
        BY <1>8, <3>5, <3>8, <4>1 DEF TopIs
      <4>3. Last(rs[n].stack[h]) \in Where
        <5>1. rs[n].stack[h] \in Seq(Where)
          BY <1>6, <3>1 DEF Run
        <5> QED BY <4>1, <5>1, LastIn
      <4>4. Uninitialised \notin Where
        BY Blocks DEF Uninitialised, Where
      <4>5. Uninitialised \notin ReachingAfter(h, b, l)
        BY <4>2, <4>3, <4>4
      <4> QED BY <3>1, <3>2, <3>7, <3>9, <3>11, <4>5 DEF Cause, Meets, ps, h, l
    <3> QED BY <3>1, <3>10, <3>11
  <2> QED BY <2>1, <2>2, <2>3
<1>14. Cause(DOMAIN replaced', b, status')
  BY <1>5, <1>13 DEF Cause
<1> QED BY <1>12, <1>14

(* A load that was replaced is in a block rename was called for; and what   *)
(* it was replaced with, in every state.                                    *)
LoadInv ==
  TreeIsRight =>
    \A p \in DOMAIN replaced :
      /\ p[1] \in visitedDFSBlocks
      /\ At(p).ptr \in Promoted => Reaching(p) = {replaced[p]}

(* What an assertion that failed had for a cause, said with the names above. *)
CauseInv ==
  TreeIsRight =>
    /\ status \notin {"threw", "underflow"}
    /\ \A b : b = Last(path) => Cause(DOMAIN replaced, b, status)

(* What the definitions that reach a load are depends on the code, the PHI  *)
(* nodes and the graph only.                                                *)
LEMMA ReachingStays ==
  ASSUME UNCHANGED <<dtvars, code, phis>>
  PROVE  /\ \A p : Reaching(p)' = Reaching(p) /\ At(p)' = At(p)
         /\ Promoted' = Promoted /\ (TreeIsRight' <=> TreeIsRight)
         /\ \A D, b, why : Cause(D, b, why)' <=> Cause(D, b, why)
<1>1. \A a : Arriving(a)' = Arriving(a)
  BY ArrivingStays
<1>2. Promoted' = Promoted /\ \A p : At(p)' = At(p)
  BY CodeStays DEF dtvars
<1>3. \A a, b, n : LastDef(a, b, n)' = LastDef(a, b, n)
  BY DEF LastDef
<1>r. \A a, b, n : ReachingAfter(a, b, n)' = ReachingAfter(a, b, n)
  BY <1>1, <1>3 DEF ReachingAfter
<1>4. \A p : Reaching(p)' = Reaching(p)
  <2> SUFFICES ASSUME NEW p PROVE Reaching(p)' = Reaching(p)
    OBVIOUS
  <2>1. At(p)' = At(p)
    BY <1>2
  <2> QED BY <1>r, <2>1 DEF Reaching
<1>5. TreeIsRight' <=> TreeIsRight
  BY DominanceStays
<1>6. \A a, b, n : NoDefinition(a, b, n)' <=> NoDefinition(a, b, n)
  <2>1. \A a, b : StrictlyDominates(a, b)' <=> StrictlyDominates(a, b)
    BY DominanceStays
  <2>2. Places' = Places
    BY CodeStays DEF dtvars
  <2>3. \A a, b, n : StoreDominates(a, b, n)' <=> StoreDominates(a, b, n)
    BY <1>2, <2>1, <2>2 DEF StoreDominates
  <2> QED BY <1>2, <1>r, <2>3 DEF NoDefinition
<1>7. \A b : SuccessorPhis(b)' = SuccessorPhis(b)
  BY DEF SuccessorPhis, dtvars
<1>8. \A D, b, i : Stopped(D, b, i)' <=> Stopped(D, b, i)
  BY DEF Stopped
<1>9. \A D, b : (Undefined(D, b)' <=> Undefined(D, b)) /\ (Stray(D, b)' <=> Stray(D, b))
  BY <1>6, <1>7, <1>8 DEF Undefined, Stray
<1>10. \A D, b : Meets(D, b)' <=> Meets(D, b)
  BY <1>1, <1>r, <1>7, <1>8 DEF Meets, dtvars
<1>11. \A D, b, why : Cause(D, b, why)' <=> Cause(D, b, why)
  BY <1>9, <1>10 DEF Cause
<1> QED BY <1>2, <1>4, <1>5, <1>11

(* A call of rename adds the loads of its block.                            *)
LEMMA CallLoads ==
  ASSUME PhiInv, PathInv, LoadInv, NEW b \in Block, Call(b)
  PROVE  LoadInv' /\ CauseInv'
<1>1. /\ UNCHANGED <<dtvars, code, phis>> /\ status' \in {"rename", "undefined", "incoming", "pointer"}
      /\ path' = Append(path, b) /\ path \in Seq(Block)
      /\ visitedDFSBlocks' = visitedDFSBlocks \cup {b}
  BY CallKeeps DEF PhiInv, M2Inv, M2Types
<1>2. /\ \A p : Reaching(p)' = Reaching(p) /\ At(p)' = At(p)
      /\ Promoted' = Promoted /\ (TreeIsRight' <=> TreeIsRight)
      /\ \A D, c, why : Cause(D, c, why)' <=> Cause(D, c, why)
  BY <1>1, ReachingStays
<1>v. TreeIsRight => \A p \in DOMAIN replaced : p[1] # b
  <2>1. b \notin visitedDFSBlocks
    BY DEF Call, Unvisited
  <2> QED BY <2>1 DEF LoadInv
<1>w. ASSUME TreeIsRight, NEW p \in DOMAIN replaced' PROVE p[1] \in visitedDFSBlocks \cup {b}
  <2>1. CASE p \in DOMAIN replaced
    BY <1>w, <2>1 DEF LoadInv
  <2>2. CASE ReadsRight(b, p, replaced'[p])
    BY <2>2 DEF ReadsRight
  <2> QED BY <1>v, <1>w, <2>1, <2>2, CallEffects
<1>3. ASSUME TreeIsRight, NEW p \in DOMAIN replaced', At(p).ptr \in Promoted
      PROVE  Reaching(p) = {replaced'[p]}
  <2>1. CASE p \in DOMAIN replaced /\ replaced'[p] = replaced[p]
    BY <1>3, <2>1 DEF LoadInv
  <2>2. CASE ReadsRight(b, p, replaced'[p])
    <3>1. PICK n \in 1 .. Len(code[b]) :
            /\ p = <<b, n>>
            /\ code[b][n].ptr \in Promoted => ReachingAfter(code[b][n].ptr, b, n - 1) = {replaced'[p]}
      BY <2>2 DEF ReadsRight
    <3>2. At(p) = code[b][n] /\ p[1] = b /\ p[2] = n
      BY <3>1 DEF At
    <3>3. ReachingAfter(At(p).ptr, p[1], p[2] - 1) = {replaced'[p]}
      BY <1>3, <3>1, <3>2
    <3> QED BY <3>3 DEF Reaching
  <2> QED BY <1>3, <1>v, <2>1, <2>2, CallEffects
<1>4. LoadInv'
  BY <1>1, <1>2, <1>3, <1>w DEF LoadInv
<1>5. \A c : c = Last(path') => c = b
  BY <1>1, AppendedLast
<1>6. TreeIsRight => Cause(DOMAIN replaced', b, status')
  BY <1>v, CallEffects
<1>7. CauseInv'
  <2>1. ASSUME NEW D, D = DOMAIN replaced', NEW why, why = status' PROVE TreeIsRight => Cause(D, b, why)'
    BY <1>2, <1>6, <2>1
  <2>2. ASSUME TreeIsRight', NEW c, c = Last(path') PROVE Cause(DOMAIN replaced, b, status)'
    BY <1>2, <2>1, <2>2
  <2>3. ASSUME TreeIsRight', NEW c, c = Last(path') PROVE Cause(DOMAIN replaced, c, status)'
    BY <1>5, <2>2, <2>3
  <2>4. status' \notin {"threw", "underflow"}
    BY <1>1
  <2> QED BY <2>3, <2>4 DEF CauseInv
<1> QED BY <1>4, <1>7

(* The other steps add none, and until the calls begin there are none.      *)
LEMMA LoadNextInv ==
  ASSUME PhiInv, PathInv, LoadInv, CauseInv, [M2Next]_<<dtvars, m2vars>>
  PROVE  LoadInv' /\ CauseInv'
<1>1. CASE \E b \in Block : Call(b)
  BY <1>1, CallLoads
<1>2. PhiInv'
  BY PhiNextInv
<1>3. ASSUME status' \in {"frontiers", "collect", "place", "rename", "done", "threw"}
      PROVE  CauseInv'
  <2>1. TreeIsRight' => status' # "threw"
    BY <1>2, <1>3 DEF PhiInv, FrontInv
  <2>2. (\A b : Cause(DOMAIN replaced, b, status))'
    BY <1>3 DEF Cause
  <2> QED BY <1>3, <2>1, <2>2 DEF CauseInv
<1>4. ASSUME replaced' = <<>> PROVE LoadInv'
  <2>1. DOMAIN replaced' = {}
    BY <1>4
  <2> QED BY <2>1 DEF LoadInv
<1>5. ASSUME UNCHANGED <<dtvars, code, phis, replaced, visitedDFSBlocks>> PROVE LoadInv'
  <2>1. /\ \A p : Reaching(p)' = Reaching(p) /\ At(p)' = At(p)
        /\ Promoted' = Promoted /\ (TreeIsRight' <=> TreeIsRight)
    BY <1>5, ReachingStays
  <2> QED BY <1>5, <2>1 DEF LoadInv
<1>6. CASE Idle
  <2>1. CASE UNCHANGED <<dtvars, m2vars>>
    <3>1. UNCHANGED <<dtvars, code, phis, replaced, visitedDFSBlocks, status, path>>
      BY <2>1 DEF m2vars
    <3>2. (TreeIsRight' <=> TreeIsRight) /\ \A D, b, why : Cause(D, b, why)' <=> Cause(D, b, why)
      BY <3>1, ReachingStays
    <3>3. CauseInv'
      BY <3>1, <3>2 DEF CauseInv
    <3> QED BY <1>5, <3>1, <3>3
  <2>2. CASE status = "frontiers" /\ UNCHANGED m2vars
    <3>1. replaced' = <<>> /\ status' = "frontiers"
      BY <2>2 DEF m2vars, PhiInv, M2Inv, NothingRenamed
    <3> QED BY <1>3, <1>4, <3>1
  <2> QED BY <1>6, <2>1, <2>2 DEF Idle
<1>7. CASE computeDominanceFrontier \/ FindAllocas \/ insertPHINodes \/ NextAlloca
  <2>1. replaced = <<>>
    BY <1>7 DEF PhiInv, M2Inv, NothingRenamed, computeDominanceFrontier, FindAllocas, insertPHINodes, NextAlloca
  <2>2. replaced' = replaced /\ status' \in {"collect", "threw", "done", "place", "rename"}
    BY <1>7 DEF computeDominanceFrontier, FindAllocas, insertPHINodes, NextAlloca
  <2> QED BY <1>3, <1>4, <2>1, <2>2
<1>8. CASE RenameReturn
  <2>1. status' \in {"rename", "done"} /\ UNCHANGED <<dtvars, code, phis, replaced, visitedDFSBlocks>>
    BY <1>8, ReturnKeeps DEF PhiInv
  <2> QED BY <1>3, <1>5, <2>1
<1> QED BY <1>1, <1>6, <1>7, <1>8, StepKinds DEF PhiInv

(* The invariant of the whole pass.                                         *)
PassInv == PhiInv /\ PathInv /\ LoadInv /\ CauseInv

(* It holds at first, and every step preserves it.                          *)
LEMMA PassInvariant == M2Spec => []PassInv
<1>1. M2Init => PassInv
  <2>1. M2Init => PhiInv
    BY PhiInitInv
  <2>2. ASSUME M2Init PROVE PathInv /\ LoadInv /\ CauseInv
    <3>1. path = <<>> /\ replaced = <<>> /\ status = "frontiers"
      BY <2>2 DEF M2Init
    <3>2. ToSet(path) = {} /\ DOMAIN path = {} /\ DOMAIN replaced = {}
      BY <3>1 DEF ToSet
    <3> QED BY <3>1, <3>2 DEF PathInv, LoadInv, CauseInv, Cause
  <2> QED BY <2>1, <2>2 DEF PassInv
<1>2. PassInv /\ [M2Next]_<<dtvars, m2vars>> => PassInv'
  <2> SUFFICES ASSUME PassInv, [M2Next]_<<dtvars, m2vars>> PROVE PassInv'
    OBVIOUS
  <2>1. PhiInv' /\ PathInv'
    BY PhiNextInv, PathNextInv DEF PassInv
  <2>2. LoadInv' /\ CauseInv'
    BY LoadNextInv DEF PassInv
  <2> QED BY <2>1, <2>2 DEF PassInv
<1> QED BY <1>1, <1>2, PTL DEF M2Spec

(* LoadsSeeTheirDefinition: on every control flow graph whose tree is right *)
(* and for every code, what rename puts for a load of a promoted alloca is  *)
(* the one definition that reaches the load on every path to it.            *)
THEOREM LoadsAreRight == M2Spec => []LoadsSeeTheirDefinition
<1>1. PassInv => LoadsSeeTheirDefinition
  BY DEF PassInv, LoadInv, LoadsSeeTheirDefinition
<1> QED BY <1>1, PassInvariant, PTL

(* AbortsHaveACause: an assertion of rename that fails has its reason at    *)
(* the load, the PHI node or the access it fails at: no definition of that  *)
(* alloca, definitions that meet, no alloca at all.  at() throws on no tree *)
(* that is right.                                                           *)
THEOREM AbortsAreJustified == M2Spec => []AbortsHaveACause
<1>1. PassInv => AbortsHaveACause
  <2> SUFFICES ASSUME PassInv, status \in {"threw"} \cup Aborts, TreeIsRight PROVE AbortsHaveACause
    BY DEF AbortsHaveACause
  <2>1. /\ status \in {"undefined", "incoming", "pointer"}
        /\ \A b : b = Last(path) => Cause(DOMAIN replaced, b, status)
    BY DEF PassInv, CauseInv, Aborts
  <2> DEFINE b == Last(path)
  <2>2. Cause(DOMAIN replaced, b, status)
    BY <2>1
  <2>s. \A i : Stopped(DOMAIN replaced, b, i) <=> StoppedAt(b, i)
    BY DEF Stopped, StoppedAt
  <2> HIDE DEF b
  <2>3. CASE status = "undefined"
    <3>1. UndefinedIn(b)
      BY <2>2, <2>3, <2>s DEF Cause, Undefined, UndefinedIn
    <3> QED BY <2>3, <3>1 DEF AbortsHaveACause, b
  <2>4. CASE status = "incoming"
    <3>1. MeetsAfter(b)
      BY <2>2, <2>4, <2>s DEF Cause, Meets, MeetsAfter
    <3> QED BY <2>4, <3>1 DEF AbortsHaveACause, b
  <2>5. CASE status = "pointer"
    <3>1. StrayIn(b)
      BY <2>2, <2>5, <2>s DEF Cause, Stray, StrayIn
    <3> QED BY <2>5, <3>1 DEF AbortsHaveACause, b
  <2> QED BY <2>1, <2>3, <2>4, <2>5
<1> QED BY <1>1, PassInvariant, PTL
=============================================================================

------------------------------ MODULE IRBuilder ------------------------------
(***************************************************************************)
(* Building a control flow graph: IRBuilder (include/IR/IRBuilder.hpp)     *)
(* creates an instruction (UseDef) and inserts it into a block (SymList);  *)
(* include/IR/CFG.hpp answers successors from the block's last instruction *)
(* and predecessors from the useList of the block.                         *)
(*                                                                         *)
(* The two answers come from data that different calls maintain: this      *)
(* module composes them.  Functions and names play no part in it, so       *)
(* SymList is instantiated without functions and with empty names.         *)
(***************************************************************************)
EXTENDS UseDef, Sequences, SequencesExt

CONSTANTS
  NoParent, (* the null parent pointer                                      *)
  End       (* the insertion point BB->end()                                *)

ASSUME PointsAssumption == NoParent \notin Block /\ End \notin Inst

VARIABLES
  instList,   (* BasicBlock::InstList                                       *)
  instParent, (* Instruction::parent                                        *)
  insertBlock,(* IRBuilder::BB                                              *)
  insertPt,   (* IRBuilder::InsertPt: End or the instruction to go before   *)
  retargeted  (* history: the instructions given to setOperand              *)

cfgvars == <<instList, instParent, insertBlock, insertPt, retargeted>>
ibvars == <<udvars, cfgvars>>

SL == INSTANCE SymList WITH
  Func <- {}, VoidInst <- {}, Given <- {}, MaxUnique <- 0, MaxNamings <- 0,
  blockList <- <<>>, blockParent <- [b \in Block |-> NoParent],
  name <- [v \in Block \cup Inst |-> <<>>], table <- <<>>, lastUnique <- <<>>,
  exited <- (status = "aborted"), namings <- 0, renamed <- {}, unlisted <- {}

-----------------------------------------------------------------------------
(* CFG.hpp.                                                                 *)

(* BasicBlock::getTerminator.                                               *)
HasTerminator(b) == instList[b] # <<>> /\ IsTerminator(kind[Last(instList[b])])

(* Slip: the second target of a conditional branch is not counted.          *)
NumSuccessorsFirstOnly(k) == IF k \in {"br", "condbr"} THEN 1 ELSE 0

(* getNumSuccessors of the terminators.                                     *)
NumSuccessors(k) == CASE k = "br" -> 1 [] k = "condbr" -> 2 [] OTHER -> 0

(* successors(b): the first operands of the terminator.                     *)
Successors(b) ==
  IF HasTerminator(b)
  THEN LET t == Last(instList[b])
       IN  {val[operand[t][k]] : k \in 1 .. NumSuccessors(kind[t])}
  ELSE {}

(* predecessors(b): the parents of the terminators that use b; the parent   *)
(* may be null.                                                             *)
Predecessors(b) ==
  {instParent[u[1]] : u \in {w \in useList[b] : IsTerminator(kind[w[1]])}}

-----------------------------------------------------------------------------
(* BB->InstList.insert(InsertPt, i).  Before an instruction that was        *)
(* unlinked since, i is linked to that instruction only, and its parent is  *)
(* set as if it were in the block.                                          *)
InsertAtPoint(i) ==
  LET list == instList[insertBlock] IN
  \/ insertPt = End /\ SL!InsertInst(insertBlock, Len(list) + 1, i)
  \/ \E p \in DOMAIN list : insertPt = list[p] /\ SL!InsertInst(insertBlock, p, i)
  \/ /\ insertPt # End /\ ~Contains(list, insertPt)
     /\ SL!InsertableInst(i)
     /\ instParent' = [instParent EXCEPT ![i] = insertBlock]
     /\ UNCHANGED instList

(* Create...: a new instruction, inserted if the builder has a block.       *)
Create(i, k, reserved, ops) ==
  /\ Construct(i, k, reserved, ops)
  /\ IF insertBlock = NoParent THEN UNCHANGED <<instList, instParent>>
                               ELSE InsertAtPoint(i)
  /\ UNCHANGED <<insertBlock, insertPt, retargeted>>

(* The two setInsertPoint; the second dereferences the parent of i.         *)
SetInsertPointEnd(b) ==
  /\ status = "running"
  /\ insertBlock' = b
  /\ insertPt' = End
  /\ UNCHANGED <<udvars, instList, instParent, retargeted>>

SetInsertPointBefore(i) ==
  /\ status = "running"
  /\ i \in Created
  /\ instParent[i] # NoParent
  /\ insertBlock' = instParent[i]
  /\ insertPt' = i
  /\ UNCHANGED <<udvars, instList, instParent, retargeted>>

(* Instruction::removeFromParent.                                           *)
RemoveFromParent(i) ==
  /\ UNCHANGED <<udvars, insertBlock, insertPt, retargeted>>
  /\ SL!RemoveInst(i)

(* setOperand on a branch: a target slot takes a block.                     *)
Retarget(i, k, b) ==
  /\ kind[i] \in {"br", "condbr"}
  /\ k \in 1 .. NumSuccessors(kind[i])
  /\ SetOperand(i, k, b)
  /\ retargeted' = retargeted \cup {i}
  /\ UNCHANGED <<instList, instParent, insertBlock, insertPt>>

(* replaceAllUsesWith.                                                      *)
Replace(v, w) ==
  /\ ReplaceAllUsesWith(v, w)
  /\ UNCHANGED cfgvars

IBInit ==
  /\ UDInit
  /\ instList = [b \in Block |-> <<>>]
  /\ instParent = [i \in Inst |-> NoParent]
  /\ insertBlock = NoParent
  /\ insertPt = End
  /\ retargeted = {}

IBNext ==
  \/ \E i \in Inst, k \in Kinds, reserved \in 0 .. MaxReserved :
       \E ops \in CtorOperands(k) : Create(i, k, reserved, ops)
  \/ \E b \in Block : SetInsertPointEnd(b)
  \/ \E i \in Inst : SetInsertPointBefore(i) \/ RemoveFromParent(i)
  \/ \E i \in Inst, k \in Slot, b \in Block : Retarget(i, k, b)
  \/ \E v \in Operands, w \in Created \cup Other : Replace(v, w)
  \/ \E v, w \in Block : Replace(v, w)

IBSpec == IBInit /\ [][IBNext]_ibvars

-----------------------------------------------------------------------------
(* Types of the builder's own state; an insertion point that is an          *)
(* instruction is one of the builder's block, linked or not.                *)
IBTypeOK ==
  /\ instList \in [Block -> Seq(Created)]
  /\ instParent \in [Inst -> Block \cup {NoParent}]
  /\ insertBlock \in Block \cup {NoParent}
  /\ insertPt \in Inst \cup {End}
  /\ insertPt # End => insertPt \in Created /\ instParent[insertPt] = insertBlock
  /\ retargeted \subseteq Created

(* Every edge is seen from both ends: a block that can be reached from b    *)
(* has b among its predecessors, whatever was created, moved off its block, *)
(* retargeted or replaced before, unless it took the uses of another block. *)
(* DominatorTree.cpp and Mem2Reg.cpp rely on it.                            *)
PredecessorsComplete ==
  \A b \in Block : \A s \in Successors(b) \ target : b \in Predecessors(s)

(* A predecessor without an edge has one of four causes: the branch never   *)
(* got a block, it is not (or no longer) the last instruction of its block, *)
(* a target of it was overwritten, or the block gave its uses to another.   *)
StalePredecessorsHaveACause ==
  \A s \in Block : \A u \in useList[s] :
    LET t == u[1]
        b == instParent[t]
    IN  \/ b = NoParent \/ t \in retargeted \/ val[u] # s
        \/ instList[b] = <<>> \/ Last(instList[b]) # t
        \/ s \in Successors(b)
=============================================================================

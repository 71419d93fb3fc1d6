------------------------------- MODULE UseDef -------------------------------
(***************************************************************************)
(* The def-use relation of the compiler's own IR.                          *)
(*                                                                         *)
(* A Use (include/IR/Value.hpp) is an entry of the relation "value is used *)
(* by instruction".  It is linked on the useList of the value it was       *)
(* created for, and the user points to it from its operandList.  The two   *)
(* ends are maintained by different methods:                               *)
(*   - Instruction::setOperand creates a Use, stores it in the operand     *)
(*     slot and pushes it on the new value's list;                         *)
(*   - Value::replaceAllUsesWith walks the useList of a value and          *)
(*     overwrites the val field of each Use.                               *)
(* Neither method unlinks a Use from the list it is on.                    *)
(*                                                                         *)
(* A Use is named <<i, k, g>>: the g-th Use that slot k of instruction i   *)
(* was given.  The order of a useList is abstracted away: no operation     *)
(* modelled here depends on it.                                            *)
(***************************************************************************)
EXTENDS Naturals

CONSTANTS
  Block,       (* the basic blocks, which are values (branch targets)        *)
  Inst,        (* the instruction objects a run may construct                *)
  Other,       (* constants and arguments: values that are never users       *)
  Kinds,       (* the instruction classes a run constructs                   *)
  MaxReserved, (* the largest numReserved a PHI node is built with           *)
  MaxEdits,    (* bound: calls of setOperand, addIncoming and                *)
               (* replaceAllUsesWith in one run                              *)
  NullUse      (* the null pointer in an operand slot                        *)

AllKinds == {"alloca", "load", "store", "bin", "un", "phi",
             "br", "condbr", "ret", "retvoid"}

ASSUME KindsAssumption == Kinds \subseteq AllKinds
ASSUME BoundsAssumption == MaxReserved \in Nat /\ MaxEdits \in Nat
ASSUME DisjointAssumption ==
  /\ Block \cap Inst = {} /\ Block \cap Other = {} /\ Inst \cap Other = {}

Value == Block \cup Inst \cup Other
Slot  == 1 .. (2 * MaxReserved + 3)
Gen   == 1 .. (MaxEdits + 1)
Use   == Inst \X Slot \X Gen

ASSUME NullAssumption == NullUse \notin Use

VARIABLES
  kind,        (* class of each instruction, "none" before its constructor    *)
  numOperands, (* Instruction::numOperands                                    *)
  operand,     (* Instruction::operandList                                    *)
  val,         (* Use::val of every Use allocated so far                      *)
  useList,     (* Value::useList                                              *)
  status,      (* "aborted" once an __assert__ failed                         *)
  target,      (* history: the values that were the V of replaceAllUsesWith   *)
  edits        (* history: the calls counted by MaxEdits                      *)

udvars == <<kind, numOperands, operand, val, useList, status, target, edits>>

(* The program is still running and has an edit left.                        *)
Edit ==
  /\ status = "running"
  /\ edits < MaxEdits
  /\ edits' = edits + 1

-----------------------------------------------------------------------------
(* Classes of instructions.                                                 *)

IsTerminator(k) == k \in {"br", "condbr", "ret", "retvoid"}

(* Value kinds; the others have void type.                                  *)
HasResult(k) == k \in {"alloca", "load", "bin", "un", "phi"}

Created == {i \in Inst : kind[i] # "none"}
Pointers == {i \in Inst : kind[i] = "alloca"}
Operands == Other \cup {i \in Inst : HasResult(kind[i])}

(* The operand slots each constructor fills: UnaryOp takes an operand and   *)
(* never stores it, a PHI node starts with its reserved slots empty.        *)
CtorOperands(k) ==
  CASE k \in {"alloca", "un", "phi", "retvoid"} -> {<<>>}
    [] k = "load"   -> {<<p>> : p \in Pointers}
    [] k = "store"  -> Operands \X Pointers
    [] k = "bin"    -> Operands \X Operands
    [] k = "br"     -> {<<b>> : b \in Block}
    [] k = "condbr" -> Block \X Block \X Operands
    [] k = "ret"    -> {<<v>> : v \in Operands}

(* Slip: a conditional branch reserves the two targets and no condition.    *)
CtorNumOperandsTwoWay(k, reserved) ==
  CASE k \in {"alloca", "retvoid"}   -> 0
    [] k \in {"load", "un", "br", "ret"} -> 1
    [] k \in {"store", "bin", "condbr"} -> 2
    [] k = "phi"                     -> 2 * reserved

(* numOps as the constructors pass it to Instruction::Instruction.          *)
CtorNumOperands(k, reserved) ==
  CASE k \in {"alloca", "retvoid"}   -> 0
    [] k \in {"load", "un", "br", "ret"} -> 1
    [] k \in {"store", "bin"}        -> 2
    [] k = "condbr"                  -> 3
    [] k = "phi"                     -> 2 * reserved

-----------------------------------------------------------------------------
(* Slip: the Use is stored in the slot but not pushed on the useList.       *)
SetOperandsUnlisted(i, ops, g) ==
  LET new == {<<i, k, g>> : k \in DOMAIN ops}
  IN  /\ val' = [u \in DOMAIN val \cup new |->
                   IF u \in new THEN ops[u[2]] ELSE val[u]]
      /\ operand' = [operand EXCEPT ![i] =
                       [k \in Slot |-> IF k \in DOMAIN ops THEN <<i, k, g>>
                                                           ELSE operand[i][k]]]
      /\ UNCHANGED useList

(* Slip: the Use already in the slot is reused for the new value.           *)
SetOperandsReusing(i, ops, g) ==
  LET new == {<<i, k, 1>> : k \in DOMAIN ops}
  IN  /\ val' = [u \in DOMAIN val \cup new |->
                   IF u \in new THEN ops[u[2]] ELSE val[u]]
      /\ useList' = [v \in Value |->
                       useList[v] \cup {u \in new : ops[u[2]] = v}]
      /\ operand' = [operand EXCEPT ![i] =
                       [k \in Slot |-> IF k \in DOMAIN ops THEN <<i, k, 1>>
                                                           ELSE operand[i][k]]]

(* setOperand(ops[k], k) for every k in DOMAIN ops: new Use objects, linked *)
(* into the operand slots of i and onto the lists of the values.  The Uses  *)
(* the slots held before stay on the lists they are on.                     *)
SetOperands(i, ops, g) ==
  LET new == {<<i, k, g>> : k \in DOMAIN ops}
  IN  /\ val' = [u \in DOMAIN val \cup new |->
                   IF u \in new THEN ops[u[2]] ELSE val[u]]
      /\ useList' = [v \in Value |->
                       useList[v] \cup {u \in new : ops[u[2]] = v}]
      /\ operand' = [operand EXCEPT ![i] =
                       [k \in Slot |-> IF k \in DOMAIN ops THEN <<i, k, g>>
                                                           ELSE operand[i][k]]]

(* The Use a further setOperand on slot k of i allocates.                   *)
IsFresh(i, k, g) ==
  /\ <<i, k, g>> \notin DOMAIN val
  /\ \A h \in 1 .. (g - 1) : <<i, k, h>> \in DOMAIN val

(* A constructor: the base class, then setOperand for each operand.         *)
Construct(i, k, reserved, ops) ==
  /\ status = "running"
  /\ kind[i] = "none"
  /\ kind' = [kind EXCEPT ![i] = k]
  /\ numOperands' = [numOperands EXCEPT ![i] = CtorNumOperands(k, reserved)]
  /\ SetOperands(i, ops, 1)
  /\ UNCHANGED <<status, target, edits>>

(* Instruction::setOperand called from outside a constructor.               *)
SetOperand(i, k, v) ==
  /\ Edit
  /\ i \in Created
  /\ k \in 1 .. numOperands[i]
  /\ \E g \in Gen : /\ IsFresh(i, k, g)
                            /\ SetOperands(i, [j \in {k} |-> v], g)
  /\ UNCHANGED <<kind, numOperands, status, target>>

(* Slip: the first user keeps its operand (the walk starts one Use late).   *)
ReplaceAllButOne(v, w) ==
  /\ Edit
  /\ \E spared \in useList[v] :
       val' = [u \in DOMAIN val |->
                 IF u \in useList[v] \ {spared} THEN w ELSE val[u]]
  /\ target' = target \cup {w}
  /\ UNCHANGED <<kind, numOperands, operand, useList, status>>

(* Value::replaceAllUsesWith: every Use on v's list now points to w; the    *)
(* lists of v and of w do not change.                                       *)
ReplaceAllUsesWith(v, w) ==
  /\ Edit
  /\ val' = [u \in DOMAIN val |-> IF u \in useList[v] THEN w ELSE val[u]]
  /\ target' = target \cup {w}
  /\ UNCHANGED <<kind, numOperands, operand, useList, status>>

(* The assertions of setIncomingValue and of setIncomingBlock on the index  *)
(* currentNumIncoming; getNumOperands() / 2 is the number reserved.         *)
IncomingValueOk(i, n) == n < numOperands[i] \div 2
IncomingBlockOk(i, n) == n >= numOperands[i] \div 2

(* PHINode::addIncoming(v, b).  The value is stored in its slot before the  *)
(* assertion of setIncomingBlock is evaluated on the same index; v is taken *)
(* of the type of the PHI node.  currentNumIncoming, the index, is 0 until  *)
(* a first call returns.                                                    *)
AddIncoming(i, v, b) ==
  /\ Edit
  /\ kind[i] = "phi"
  /\ IF IncomingValueOk(i, 0)
     THEN \E g \in Gen :
            LET blockSlot == 1 + numOperands[i] \div 2
                filled == IF IncomingBlockOk(i, 0) THEN {1, blockSlot} ELSE {1}
            IN  /\ IsFresh(i, 1, g)
                /\ SetOperands(i, [k \in filled |-> IF k = 1 THEN v ELSE b], g)
                /\ status' = IF IncomingBlockOk(i, 0) THEN status ELSE "aborted"
     ELSE /\ status' = "aborted"
          /\ UNCHANGED <<operand, val, useList>>
  /\ UNCHANGED <<kind, numOperands, target>>

UDInit ==
  /\ kind = [i \in Inst |-> "none"]
  /\ numOperands = [i \in Inst |-> 0]
  /\ operand = [i \in Inst |-> [k \in Slot |-> NullUse]]
  /\ val = [u \in {} |-> NullUse]
  /\ useList = [v \in Value |-> {}]
  /\ status = "running"
  /\ target = {}
  /\ edits = 0

UDNext ==
  \/ \E i \in Inst, k \in Kinds, reserved \in 0 .. MaxReserved :
       \E ops \in CtorOperands(k) : Construct(i, k, reserved, ops)
  \/ \E i \in Inst, k \in Slot, v \in Operands : SetOperand(i, k, v)
  \/ \E v \in Operands, w \in Created \cup Other : ReplaceAllUsesWith(v, w)
  \/ \E v, w \in Block : ReplaceAllUsesWith(v, w)
  \/ \E i \in Inst, v \in Operands, b \in Block : AddIncoming(i, v, b)

UDSpec == UDInit /\ [][UDNext]_udvars

-----------------------------------------------------------------------------
(* Types of the state.  A filled operand slot is inside operandList (the    *)
(* vector has numOperands elements, setOperand exits beyond it) and holds   *)
(* a Use allocated for that slot.                                           *)
UDTypeOK ==
  /\ kind \in [Inst -> AllKinds \cup {"none"}]
  /\ numOperands \in [Inst -> 0 .. (2 * MaxReserved + 3)]
  /\ operand \in [Inst -> [Slot -> Use \cup {NullUse}]]
  /\ \A i \in Inst, k \in Slot :
       operand[i][k] # NullUse => /\ k <= numOperands[i]
                                  /\ \E g \in Gen : operand[i][k] = <<i, k, g>>
                                  /\ operand[i][k] \in DOMAIN val
  /\ DOMAIN val \subseteq Use
  /\ val \in [DOMAIN val -> Value]
  /\ useList \in [Value -> SUBSET Use]
  /\ status \in {"running", "aborted"}
  /\ target \subseteq Value
  /\ edits \in 0 .. MaxEdits

(* However operands are overwritten and values replaced, every Use that was *)
(* allocated stays on one list and on one only, and lists hold nothing      *)
(* else: the intrusive next/prev links of a Use are never shared.           *)
OneListPerUse ==
  /\ \A v \in Value : useList[v] \subseteq DOMAIN val
  /\ \A u \in DOMAIN val : \E v \in Value : u \in useList[v]
  /\ \A v, w \in Value : v # w => useList[v] \cap useList[w] = {}

(* Walking the uses of a value meets every instruction that reads it, as    *)
(* isAllocaPromotable (Mem2Reg.cpp) and predecessors() (CFG.hpp) rely on,   *)
(* as long as the value never was the replacement of another one.           *)
DefSeesItsUses ==
  \A u \in DOMAIN val : val[u] \notin target => u \in useList[val[u]]

(* replaceAllUsesWith(v, w) leaves no operand reading v, if v was not       *)
(* itself the replacement of an earlier value.                              *)
ReplacementIsTotal ==
  [][\A v \in Value \ target, w \in Value :
       ReplaceAllUsesWith(v, w) /\ v # w => \A u \in DOMAIN val' : val'[u] # v
    ]_udvars

-----------------------------------------------------------------------------
(* What the comments of the code say.                                       *)

(* Value.hpp on replaceAllUsesWith: "After this completes, 'this's use list *)
(* is guaranteed to be empty".                                              *)
ReplacedListIsEmpty ==
  [][\A v, w \in Value : ReplaceAllUsesWith(v, w) /\ v # w => useList'[v] = {}
    ]_udvars
=============================================================================
